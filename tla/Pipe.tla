-------------------------------- MODULE Pipe --------------------------------
(***************************************************************************)
(* A pipe (kernel/pipe.c) between processes that inherit its two ends      *)
(* through fork, with the reference counts of kernel/file.c and the        *)
(* descriptor side of sys_pipe, sys_close, fork and exit.                  *)
(*                                                                         *)
(* pi->lock is held over several steps in pipewrite, because kill on       *)
(* another CPU can set p->killed between two iterations of its loop.  The  *)
(* copy loop of piperead looks at nothing that others change, so it is one *)
(* step.  sleep() releases pi->lock and makes the process sleep at once.   *)
(***************************************************************************)
EXTENDS Naturals, FiniteSetsExt, Sequences

CONSTANTS
  Procs,
  First,      (* the process that calls sys_pipe                          *)
  Bytes,
  PIPESIZE,
  UINT,       (* nread and nwrite count modulo this                       *)
  Sizes,      (* bound: the n that reads and writes are called with       *)
  MaxKills    (* bound on the processes that are killed                   *)

ASSUME PipeAssumption ==
  /\ First \in Procs
  /\ PIPESIZE \in Nat \ {0} /\ UINT \in Nat /\ Sizes \subseteq Nat
  /\ PIPESIZE < UINT /\ UINT % PIPESIZE = 0

Ends == {"r", "w"}
None == "none"

VARIABLES
  pipe,    (* struct pipe without its lock; allocated: the page is in use *)
  lock,    (* the process that holds pi->lock, or None                    *)
  ref,     (* f->ref of the files of the two ends                         *)
  fds,     (* the ends each process has in p->ofile                       *)
  killed,
  k        (* where each process is, with n and i of its call and the     *)
           (* ends it still has to give to pipeclose                      *)

vars == <<pipe, lock, ref, fds, killed, k>>

NoPipe == [allocated |-> FALSE, readopen |-> FALSE, writeopen |-> FALSE,
           nread |-> 0, nwrite |-> 0, data |-> [j \in 0..(PIPESIZE - 1) |-> CHOOSE b \in Bytes : TRUE]]
NewPipe == [NoPipe EXCEPT !.allocated = TRUE, !.readopen = TRUE, !.writeopen = TRUE]

User == [at |-> "user", n |-> 0, i |-> 0, closing |-> <<>>]

Init ==
  /\ pipe = NoPipe
  /\ lock = None
  /\ ref = [e \in Ends |-> 0]
  /\ fds = [p \in Procs |-> {}]
  /\ killed = [p \in Procs |-> FALSE]
  /\ k = [p \in Procs |-> IF p = First THEN User ELSE [User EXCEPT !.at = "unused"]]

At(p, at) == k[p].at = at
Calls(p) == At(p, "user") /\ ~killed[p]
Goto(p, at) == k' = [k EXCEPT ![p].at = at]

(* p goes to the given place and wakes those who sleep there. *)
GotoAndWake(p, at, asleep) ==
  k' = [q \in Procs |-> IF q = p THEN IF at = "user" THEN User ELSE [k[p] EXCEPT !.at = at]
                        ELSE IF k[q].at = asleep THEN
                               [k[q] EXCEPT !.at = IF asleep = "rasleep" THEN "read" ELSE "write"]
                        ELSE k[q]]

-----------------------------------------------------------------------------
(* Descriptors. *)

(* pipealloc and the two fdallocs; the caller gives both files back when   *)
(* the descriptors cannot be copied to user memory.                        *)
SysPipe(p, ok) ==
  /\ Calls(p) /\ p = First
  /\ ~pipe.allocated /\ \A e \in Ends : ref[e] = 0
  /\ pipe' = NewPipe
  /\ IF ok THEN /\ ref' = [e \in Ends |-> 1]
                /\ fds' = [fds EXCEPT ![p] = Ends]
                /\ UNCHANGED k
           ELSE /\ k' = [k EXCEPT ![p].at = "pipeclose", ![p].closing = <<"r", "w">>]
                /\ UNCHANGED <<ref, fds>>
  /\ UNCHANGED <<lock, killed>>

(* fork: filedup for every open descriptor. *)
Fork(p, q) ==
  /\ Calls(p)
  /\ At(q, "unused")
  /\ fds' = [fds EXCEPT ![q] = fds[p]]
  /\ ref' = [e \in Ends |-> IF e \in fds[p] THEN ref[e] + 1 ELSE ref[e]]
  /\ k' = [k EXCEPT ![q] = User]
  /\ UNCHANGED <<pipe, lock, killed>>

(* Faulty variant: every close is taken for the last one. *)
CloseWithoutCount(p, e) ==
  /\ At(p, "user") /\ e \in fds[p]
  /\ fds' = [fds EXCEPT ![p] = @ \ {e}]
  /\ ref' = [ref EXCEPT ![e] = @ - 1]
  /\ k' = [k EXCEPT ![p].at = "pipeclose", ![p].closing = <<e>>]
  /\ UNCHANGED <<pipe, lock, killed>>

(* close, and exit closing what is left: fileclose. *)
Close(p, e) ==
  /\ At(p, "user") /\ e \in fds[p]
  /\ fds' = [fds EXCEPT ![p] = @ \ {e}]
  /\ ref' = [ref EXCEPT ![e] = @ - 1]
  /\ IF ref[e] > 1 THEN UNCHANGED k
     ELSE k' = [k EXCEPT ![p].at = "pipeclose", ![p].closing = <<e>>]
  /\ UNCHANGED <<pipe, lock, killed>>

(* Faulty variant: pipeclose wakes nobody. *)
PipecloseNoWakeup(p) ==
  LET e    == Head(k[p].closing)
      open == IF e = "w" THEN [pipe EXCEPT !.writeopen = FALSE]
              ELSE [pipe EXCEPT !.readopen = FALSE] IN
  /\ At(p, "pipeclose") /\ lock = None
  /\ pipe' = IF open.readopen \/ open.writeopen THEN open ELSE NoPipe
  /\ k' = [k EXCEPT ![p].closing = Tail(@), ![p].at = IF Len(k[p].closing) > 1 THEN @ ELSE "user"]
  /\ UNCHANGED <<lock, ref, fds, killed>>

(* The last descriptor of an end: pipeclose, and kfree after the second. *)
Pipeclose(p) ==
  LET e    == Head(k[p].closing)
      open == IF e = "w" THEN [pipe EXCEPT !.writeopen = FALSE]
              ELSE [pipe EXCEPT !.readopen = FALSE]
      wake == IF e = "w" THEN "rasleep" ELSE "wasleep"
      back == IF e = "w" THEN "read" ELSE "write" IN
  /\ At(p, "pipeclose") /\ lock = None
  /\ pipe' = IF open.readopen \/ open.writeopen THEN open ELSE NoPipe
  /\ k' = [q \in Procs |->
             IF q = p THEN [k[p] EXCEPT !.closing = Tail(@),
                                        !.at = IF Len(k[p].closing) > 1 THEN @ ELSE "user"]
             ELSE IF k[q].at = wake THEN [k[q] EXCEPT !.at = back]
             ELSE k[q]]
  /\ UNCHANGED <<lock, ref, fds, killed>>

Exit(p) ==
  /\ At(p, "user") /\ fds[p] = {}
  /\ p # First
  /\ Goto(p, "dead")
  /\ UNCHANGED <<pipe, lock, ref, fds, killed>>

(* kill takes the victim's p->lock only, so it can come at any time. *)
Kill(p) ==
  /\ Cardinality({q \in Procs : killed[q]}) < MaxKills
  /\ ~killed[p] /\ p # First /\ k[p].at \notin {"unused", "dead"}
  /\ killed' = [killed EXCEPT ![p] = TRUE]
  /\ k' = [k EXCEPT ![p].at = CASE @ = "rasleep" -> "read" [] @ = "wasleep" -> "write" [] OTHER -> @]
  /\ UNCHANGED <<pipe, lock, ref, fds>>

-----------------------------------------------------------------------------
(* pipewrite. *)

Count == (pipe.nwrite + UINT - pipe.nread) % UINT
Full == pipe.nwrite = (pipe.nread + PIPESIZE) % UINT
Empty == pipe.nread = pipe.nwrite
MustAbort(p) == ~pipe.readopen \/ killed[p]

Write(p, n) ==
  /\ Calls(p) /\ "w" \in fds[p]
  /\ k' = [k EXCEPT ![p].at = "write", ![p].n = n, ![p].i = 0]
  /\ UNCHANGED <<pipe, lock, ref, fds, killed>>

WriteLock(p) ==
  /\ At(p, "write") /\ lock = None
  /\ lock' = p
  /\ Goto(p, "wloop")
  /\ UNCHANGED <<pipe, ref, fds, killed>>

(* Return -1, without a wakeup. *)
WriteAbort(p) ==
  /\ At(p, "wloop") /\ k[p].i < k[p].n
  /\ MustAbort(p)
  /\ lock' = None
  /\ k' = [k EXCEPT ![p] = User]
  /\ UNCHANGED <<pipe, ref, fds, killed>>

(* Faulty variant: one slot too many. *)
WriteByteOverrun(p, b) ==
  /\ At(p, "wloop") /\ k[p].i < k[p].n
  /\ ~MustAbort(p)
  /\ pipe' = [pipe EXCEPT !.data[pipe.nwrite % PIPESIZE] = b, !.nwrite = (@ + 1) % UINT]
  /\ k' = [k EXCEPT ![p].i = @ + 1]
  /\ UNCHANGED <<lock, ref, fds, killed>>

(* Faulty variant: the loop runs while i <= n. *)
WriteByteOneMore(p, b) ==
  /\ At(p, "wloop") /\ k[p].i <= k[p].n
  /\ ~MustAbort(p) /\ ~Full
  /\ pipe' = [pipe EXCEPT !.data[pipe.nwrite % PIPESIZE] = b, !.nwrite = (@ + 1) % UINT]
  /\ k' = [k EXCEPT ![p].i = @ + 1]
  /\ UNCHANGED <<lock, ref, fds, killed>>

WriteByte(p, b) ==
  /\ At(p, "wloop") /\ k[p].i < k[p].n
  /\ ~MustAbort(p) /\ ~Full
  /\ pipe' = [pipe EXCEPT !.data[pipe.nwrite % PIPESIZE] = b, !.nwrite = (@ + 1) % UINT]
  /\ k' = [k EXCEPT ![p].i = @ + 1]
  /\ UNCHANGED <<lock, ref, fds, killed>>

(* The buffer is full: wake the readers, then sleep. *)
WriteFull(p) ==
  /\ At(p, "wloop") /\ k[p].i < k[p].n
  /\ ~MustAbort(p) /\ Full
  /\ GotoAndWake(p, "wsleep", "rasleep")
  /\ UNCHANGED <<pipe, lock, ref, fds, killed>>

WriteSleep(p) ==
  /\ At(p, "wsleep")
  /\ lock' = None
  /\ Goto(p, "wasleep")
  /\ UNCHANGED <<pipe, ref, fds, killed>>

(* All is written, or copyin has failed. *)
WriteDone(p) ==
  /\ At(p, "wloop")
  /\ k[p].i < k[p].n => ~MustAbort(p) /\ ~Full
  /\ lock' = None
  /\ GotoAndWake(p, "user", "rasleep")
  /\ UNCHANGED <<pipe, ref, fds, killed>>

-----------------------------------------------------------------------------
(* piperead. *)

Read(p, n) ==
  /\ Calls(p) /\ "r" \in fds[p]
  /\ k' = [k EXCEPT ![p].at = "read", ![p].n = n, ![p].i = 0]
  /\ UNCHANGED <<pipe, lock, ref, fds, killed>>

ReadLock(p) ==
  /\ At(p, "read") /\ lock = None
  /\ lock' = p
  /\ Goto(p, "rloop")
  /\ UNCHANGED <<pipe, ref, fds, killed>>

ReadMustWait == Empty /\ pipe.writeopen

ReadAbort(p) ==
  /\ At(p, "rloop") /\ ReadMustWait /\ killed[p]
  /\ lock' = None
  /\ k' = [k EXCEPT ![p] = User]
  /\ UNCHANGED <<pipe, ref, fds, killed>>

ReadWait(p) ==
  /\ At(p, "rloop") /\ ReadMustWait /\ ~killed[p]
  /\ Goto(p, "rsleep")
  /\ UNCHANGED <<pipe, lock, ref, fds, killed>>

ReadSleep(p) ==
  /\ At(p, "rsleep")
  /\ lock' = None
  /\ Goto(p, "rasleep")
  /\ UNCHANGED <<pipe, ref, fds, killed>>

(* The copy loop takes what is there, up to n bytes; when copyout fails it *)
(* stops, and the byte at hand is gone.                                    *)
ReadCopy(p, taken) ==
  /\ At(p, "rloop") /\ ~ReadMustWait
  /\ taken <= Min({k[p].n, Count})
  /\ taken = 0 => Min({k[p].n, Count}) = 0
  /\ pipe' = [pipe EXCEPT !.nread = (@ + taken) % UINT]
  /\ lock' = None
  /\ GotoAndWake(p, "user", "wasleep")
  /\ UNCHANGED <<ref, fds, killed>>

-----------------------------------------------------------------------------
UserStep(p) ==
  \/ \E ok \in BOOLEAN : SysPipe(p, ok)
  \/ \E q \in Procs : Fork(p, q)
  \/ \E n \in Sizes : Write(p, n) \/ Read(p, n)
  \/ \E e \in Ends : Close(p, e)
  \/ Exit(p)

KernelStep(p) ==
  \/ Pipeclose(p)
  \/ WriteLock(p) \/ WriteAbort(p) \/ WriteFull(p) \/ WriteSleep(p) \/ WriteDone(p)
  \/ \E b \in Bytes : WriteByte(p, b)
  \/ ReadLock(p) \/ ReadAbort(p) \/ ReadWait(p) \/ ReadSleep(p)
  \/ \E taken \in 0..PIPESIZE : ReadCopy(p, taken)

Next == \E p \in Procs : UserStep(p) \/ KernelStep(p) \/ Kill(p)

Spec == Init /\ [][Next]_vars

-----------------------------------------------------------------------------
(* Properties. *)

(* The types of the pipe, the descriptors and the calls in progress.       *)
TypeOK ==
  /\ pipe \in [allocated : BOOLEAN, readopen : BOOLEAN, writeopen : BOOLEAN,
               nread : 0..(UINT - 1), nwrite : 0..(UINT - 1),
               data : [0..(PIPESIZE - 1) -> Bytes]]
  /\ lock \in Procs \cup {None}
  /\ ref \in [Ends -> Nat]
  /\ fds \in [Procs -> SUBSET Ends]
  /\ killed \in [Procs -> BOOLEAN]
  /\ k \in [Procs -> [at : {"unused", "user", "dead", "pipeclose", "write", "wloop", "wsleep",
                            "wasleep", "read", "rloop", "rsleep", "rasleep"},
                      n : Sizes \cup {0}, i : 0..Max(Sizes), closing : {<<>>, <<"r">>, <<"w">>, <<"r", "w">>}]]

(* A process that has an end open finds the pipe allocated and that end    *)
(* marked open, and f->ref counts exactly the descriptors: the page of the *)
(* pipe is never freed, nor an end reported closed, under a process that   *)
(* can still use it.                                                       *)
OpenEndsAreOpen ==
  /\ \A e \in Ends : ref[e] = Cardinality({p \in Procs : e \in fds[p]})
  /\ \A p \in Procs : /\ "r" \in fds[p] => pipe.allocated /\ pipe.readopen
                      /\ "w" \in fds[p] => pipe.allocated /\ pipe.writeopen
                      /\ k[p].at \in {"write", "wloop", "wsleep", "wasleep"} => "w" \in fds[p]
                      /\ k[p].at \in {"read", "rloop", "rsleep", "rasleep"} => "r" \in fds[p]

(* The content of the ring. *)
Contents == [j \in 1..Count |-> pipe.data[(pipe.nread + j - 1) % PIPESIZE]]

F == INSTANCE Fifo WITH Capacity <- PIPESIZE, queue <- Contents,
       ropen <- pipe.readopen, wopen <- pipe.writeopen

(* The ring with its free-running counters is a bounded queue, also when   *)
(* the counters wrap around.                                               *)
PipeIsFifo == F!FifoSpec

(* A reader sleeps although there is something to read, or no writer left, *)
(* and no writer is in its loop, about to wake it.                         *)
NeedlessReader(p) ==
  /\ At(p, "rasleep") /\ ~ReadMustWait
  /\ \A q \in Procs : ~At(q, "wloop")

(* Nobody sleeps in piperead or pipewrite without a reason.  A sleeping    *)
(* writer always finds the ring full and a reader left.  A reader comes to *)
(* sleep with something to read in one way only: a writer that was killed  *)
(* leaves pipewrite in the middle of its loop without a wakeup.            *)
SleepersMustWait ==
  [][\A p \in Procs :
       /\ At(p, "wasleep")' => (Full /\ pipe.readopen)'
       /\ NeedlessReader(p)' /\ ~NeedlessReader(p)
            => \E q \in Procs : killed[q] /\ At(q, "wloop") /\ At(q, "user")']_vars
=============================================================================
