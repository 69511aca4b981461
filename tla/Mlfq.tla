-------------------------------- MODULE Mlfq --------------------------------
(***************************************************************************)
(* The multi-level feedback queue of kernel/proc.c and kernel/trap.c on    *)
(* one CPU, the number the Makefile starts: the queues mlfqs, aging,       *)
(* demotion at the end of a time slice, and the processes that enter and   *)
(* leave the queues as they are created, run, sleep, exit and are reaped.  *)
(*                                                                         *)
(* The clock interrupts the process that runs, or a scheduler that found   *)
(* nothing to run; interrupts in the midst of a pass are left out.         *)
(***************************************************************************)
EXTENDS Integers, FiniteSets

CONSTANTS
  NPROC,
  MLFQ_LEVELS,
  Age,       (* ticks after which a waiting process is moved up            *)
  MaxTicks   (* bound on the clock                                         *)

Procs == 1..NPROC
InitProc == 1
None == 0
Levels == 0..(MLFQ_LEVELS - 1)

VARIABLES
  ticks,
  state,  (* p->state                                                      *)
  f,      (* the MLFQ fields of p                                          *)
  mlfqs,  (* the queues                                                    *)
  cpu     (* at: where the CPU is; i: index of its loop; proc: c->proc     *)

vars == <<ticks, state, f, mlfqs, cpu>>

(* chk: the level at which the loop at the end of usertrap stands. *)
NewFields == [curr_q |-> 0, cq_rticks |-> 0, q_enter_time |-> 0, qued_fl |-> 0, chk |-> 0]

-----------------------------------------------------------------------------
(* struct que: a ring.  tail is head + size. *)

EmptyQue == [head |-> 0, size |-> 0, procs |-> [j \in 0..(NPROC - 1) |-> None]]

que_push(que, p) ==
  LET h == IF que.size = 0 THEN 0 ELSE que.head IN
  [head |-> h, size |-> que.size + 1, procs |-> [que.procs EXCEPT ![(h + que.size) % NPROC] = p]]

que_pop(que) == [que EXCEPT !.head = (@ + 1) % NPROC, !.size = @ - 1]

que_front(que) == que.procs[que.head]

que_empty(que) == que.size = 0

Entries(que, p) == {j \in 0..(que.size - 1) : que.procs[(que.head + j) % NPROC] = p}

-----------------------------------------------------------------------------
Top == [at |-> "age", i |-> 1, proc |-> None]

(* userinit has made the first process. *)
Init ==
  /\ ticks = 0
  /\ state = [p \in Procs |-> IF p = InitProc THEN "RUNNABLE" ELSE "UNUSED"]
  /\ f = [p \in Procs |-> IF p = InitProc THEN [NewFields EXCEPT !.qued_fl = 1] ELSE NewFields]
  /\ mlfqs = [q \in Levels |-> IF q = 0 THEN que_push(EmptyQue, InitProc) ELSE EmptyQue]
  /\ cpu = Top

(* queue_switch at level i, from the scheduler (then at is "age") or from  *)
(* update_ticks ("tick"): move the front up, or go on with the next level. *)
MovesUp(q) ==
  /\ ~que_empty(mlfqs[q])
  /\ LET p == que_front(mlfqs[q]) IN state[p] = "RUNNABLE" /\ ticks - f[p].q_enter_time > Age

QueueSwitch ==
  LET q == cpu.i
      p == que_front(mlfqs[q]) IN
  /\ cpu.at \in {"age", "tick"} /\ q < MLFQ_LEVELS
  /\ \/ /\ MovesUp(q)
        /\ mlfqs' = [mlfqs EXCEPT ![q] = que_pop(@), ![q - 1] = que_push(@, p)]
        /\ f' = [f EXCEPT ![p].curr_q = @ - 1, ![p].cq_rticks = 0]
        /\ UNCHANGED cpu
     \/ ~MovesUp(q) /\ cpu' = [cpu EXCEPT !.i = q + 1] /\ UNCHANGED <<mlfqs, f>>
  /\ UNCHANGED <<ticks, state>>

QueueSwitchDone ==
  /\ cpu.at \in {"age", "tick"} /\ cpu.i = MLFQ_LEVELS
  /\ cpu' = IF cpu.at = "age" THEN [cpu EXCEPT !.at = "queue", !.i = 1]
            ELSE IF cpu.proc = None THEN Top ELSE [cpu EXCEPT !.at = "slice"]
  /\ UNCHANGED <<ticks, state, f, mlfqs>>

(* mlfq_scheduler, slot i: queue a runnable process that is not queued. *)
Enqueue ==
  LET p == cpu.i
      adds == state[p] = "RUNNABLE" /\ f[p].qued_fl = 0 IN
  /\ cpu.at = "queue"
  /\ f' = IF adds THEN [f EXCEPT ![p] = [@ EXCEPT !.q_enter_time = ticks, !.cq_rticks = 0, !.qued_fl = 1]]
          ELSE f
  /\ mlfqs' = IF adds THEN [mlfqs EXCEPT ![f[p].curr_q] = que_push(@, p)] ELSE mlfqs
  /\ cpu' = IF p = NPROC THEN [cpu EXCEPT !.at = "pop", !.i = 0] ELSE [cpu EXCEPT !.i = p + 1]
  /\ UNCHANGED <<ticks, state>>

(* Pop until a runnable process turns up; the others lose qued_fl. *)
Pop ==
  LET q == cpu.i
      p == que_front(mlfqs[q])
      runs == state[p] = "RUNNABLE" IN
  /\ cpu.at = "pop" /\ q < MLFQ_LEVELS
  /\ \/ /\ ~que_empty(mlfqs[q])
        /\ mlfqs' = [mlfqs EXCEPT ![q] = que_pop(@)]
        /\ f' = [f EXCEPT ![p].qued_fl = 0]
        /\ state' = IF runs THEN [state EXCEPT ![p] = "RUNNING"] ELSE state
        /\ cpu' = IF runs THEN [at |-> IF f[p].chk > 0 THEN "check" ELSE "run", i |-> 1, proc |-> p] ELSE cpu
     \/ que_empty(mlfqs[q]) /\ cpu' = [cpu EXCEPT !.i = q + 1] /\ UNCHANGED <<state, f, mlfqs>>
  /\ UNCHANGED ticks

Idle ==
  /\ cpu.at = "pop" /\ cpu.i = MLFQ_LEVELS
  /\ cpu' = Top
  /\ UNCHANGED <<ticks, state, f, mlfqs>>

(* Back from swtch with the new state st of the process: it is queued      *)
(* again whatever that state is.                                           *)
Leave(st, fields) ==
  LET p == cpu.proc IN
  /\ state' = [state EXCEPT ![p] = st]
  /\ f' = [f EXCEPT ![p] = [fields EXCEPT !.q_enter_time = ticks, !.cq_rticks = 0, !.qued_fl = 1]]
  /\ mlfqs' = [mlfqs EXCEPT ![fields.curr_q] = que_push(@, p)]
  /\ cpu' = Top
  /\ UNCHANGED ticks

-----------------------------------------------------------------------------
InterruptsOn == cpu.at = "run" \/ (cpu.at = "pop" /\ cpu.i = MLFQ_LEVELS)

(* clockintr with update_ticks; queue_switch follows. *)
Clock ==
  /\ ticks < MaxTicks
  /\ InterruptsOn
  /\ ticks' = ticks + 1
  /\ f' = [p \in Procs |-> IF state[p] = "RUNNING" THEN [f[p] EXCEPT !.cq_rticks = @ + 1] ELSE f[p]]
  /\ cpu' = [cpu EXCEPT !.at = "tick", !.i = 1]
  /\ UNCHANGED <<state, mlfqs>>

(* The end of usertrap: a process that has used up its slice goes down one *)
(* level and yields.                                                       *)
Slice ==
  LET p == cpu.proc
      low == f[p].curr_q = MLFQ_LEVELS - 1 IN
  /\ cpu.at = "slice"
  /\ IF f[p].cq_rticks >= 2 ^ f[p].curr_q
     THEN Leave("RUNNABLE", [f[p] EXCEPT !.curr_q = IF low THEN @ ELSE @ + 1, !.chk = 1])
     ELSE /\ cpu' = [cpu EXCEPT !.at = "check"]
          /\ f' = [f EXCEPT ![p].chk = 1]
          /\ UNCHANGED <<ticks, state, mlfqs>>

(* ... and a process yields for every higher level that is not empty; the  *)
(* loop goes on when it runs again.  The level looked at is chk - 1.       *)
Check ==
  LET p == cpu.proc
      q == f[p].chk - 1 IN
  /\ cpu.at = "check"
  /\ IF q >= f[p].curr_q
     THEN f' = [f EXCEPT ![p].chk = 0] /\ cpu' = [cpu EXCEPT !.at = "run"] /\ UNCHANGED <<ticks, state, mlfqs>>
     ELSE IF ~que_empty(mlfqs[q]) THEN Leave("RUNNABLE", [f[p] EXCEPT !.chk = @ + 1])
     ELSE f' = [f EXCEPT ![p].chk = @ + 1] /\ UNCHANGED <<ticks, state, mlfqs, cpu>>

(* fork by init: allocproc queues the new process at level 0. *)
Fork(p) ==
  /\ cpu.at = "run" /\ cpu.proc = InitProc
  /\ state[p] = "UNUSED"
  /\ state' = [state EXCEPT ![p] = "RUNNABLE"]
  /\ f' = [f EXCEPT ![p] = [NewFields EXCEPT !.q_enter_time = ticks, !.qued_fl = 1]]
  /\ mlfqs' = [mlfqs EXCEPT ![0] = que_push(@, p)]
  /\ UNCHANGED <<ticks, cpu>>

(* wait by init: freeproc clears the fields and leaves the queues alone. *)
Reap(p) ==
  /\ cpu.at = "run" /\ cpu.proc = InitProc
  /\ state[p] = "ZOMBIE"
  /\ state' = [state EXCEPT ![p] = "UNUSED"]
  /\ f' = [f EXCEPT ![p] = NewFields]
  /\ UNCHANGED <<ticks, mlfqs, cpu>>

Sleep == cpu.at = "run" /\ Leave("SLEEPING", f[cpu.proc])

Exit == cpu.at = "run" /\ cpu.proc # InitProc /\ Leave("ZOMBIE", f[cpu.proc])

(* wakeup, by the process that runs or by a device interrupt. *)
Wakeup(p) ==
  /\ InterruptsOn
  /\ state[p] = "SLEEPING"
  /\ state' = [state EXCEPT ![p] = "RUNNABLE"]
  /\ UNCHANGED <<ticks, f, mlfqs, cpu>>

Next ==
  \/ QueueSwitch \/ QueueSwitchDone \/ Enqueue \/ Pop \/ Idle
  \/ Clock \/ Slice \/ Check \/ Sleep \/ Exit
  \/ \E p \in Procs : Fork(p) \/ Reap(p) \/ Wakeup(p)

Spec == Init /\ [][Next]_vars

-----------------------------------------------------------------------------
(* While a process runs, every other runnable process that qued_fl says is *)
(* queued stands in the queue of its level, once, and in no other queue    *)
(* ("Current queue of the process", "Flag to check if the process is       *)
(* qued", proc.h).                                                         *)
QueuedWhereItSays ==
  cpu.at = "run" => \A p \in Procs \ {cpu.proc} : state[p] = "RUNNABLE" /\ f[p].qued_fl = 1 =>
    \A q \in Levels : Cardinality(Entries(mlfqs[q], p)) = IF q = f[p].curr_q THEN 1 ELSE 0
=============================================================================
