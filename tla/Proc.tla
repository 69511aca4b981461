-------------------------------- MODULE Proc --------------------------------
(***************************************************************************)
(* The life of a process in kernel/proc.c: fork, exit, wait, kill, sleep,  *)
(* wakeup, yield and the round-robin scheduler, on several CPUs.           *)
(*                                                                         *)
(* A step is one critical section of p->lock, or one section of code under *)
(* wait_lock that touches only what wait_lock protects (p->parent).        *)
(* wait_lock is held over many steps.  p->lock is a variable only where it *)
(* is held across a context switch: a process that gives up the CPU takes  *)
(* its own lock, changes its state, and the scheduler of that CPU releases *)
(* the lock once it has left the process's kernel stack.                   *)
(***************************************************************************)
EXTENDS Naturals, FiniteSetsExt

CONSTANTS
  NPROC,  (* size of the process table; slot 1 is initproc               *)
  CPUs

ASSUME NPROCAssumption == NPROC \in Nat \ {0}

Procs == 1..NPROC
InitProc == 1
None == 0

VARIABLES
  state,      (* p->state                                                 *)
  parent,     (* p->parent                                                *)
  killed,     (* p->killed                                                *)
  plock,      (* p->lock is held across a context switch                  *)
  wait_lock,  (* the process that holds wait_lock, or None                *)
  cpu,        (* c->proc                                                  *)
  k           (* where the kernel thread of p is, and its locals          *)

vars == <<state, parent, killed, plock, wait_lock, cpu, k>>

(* at: the next step; i: index of a loop over the table; have: havekids;   *)
(* np: fork's child; given: children that exit has handed to init so far.  *)
User == [at |-> "user", i |-> 1, have |-> FALSE, np |-> None, given |-> {}]

Init ==
  /\ state = [p \in Procs |-> IF p = InitProc THEN "RUNNABLE" ELSE "UNUSED"]
  /\ parent = [p \in Procs |-> None]
  /\ killed = [p \in Procs |-> FALSE]
  /\ plock = [p \in Procs |-> FALSE]
  /\ wait_lock = None
  /\ cpu = [c \in CPUs |-> None]
  /\ k = [p \in Procs |-> User]

-----------------------------------------------------------------------------
OnCpu(p) == \E c \in CPUs : cpu[c] = p

(* p executes, and its next step is at this place. *)
At(p, at) == OnCpu(p) /\ ~plock[p] /\ k[p].at = at

Goto(p, at) == k' = [k EXCEPT ![p].at = at]

(* usertrap checks p->killed before it runs a system call. *)
Calls(p) == At(p, "user") /\ ~killed[p]

(* The children that a loop over the table has not yet visited; p->parent  *)
(* cannot change during the loop, which runs under wait_lock.              *)
ChildrenFrom(p, i) == {q \in Procs : q >= i /\ parent[q] = p}

-----------------------------------------------------------------------------
(* fork. *)

(* allocproc takes an UNUSED slot (the scan is not atomic, so it need not  *)
(* be the first one); p->killed keeps the value it has there.              *)
ForkAlloc(p, q) ==
  /\ Calls(p)
  /\ state[q] = "UNUSED"
  /\ state' = [state EXCEPT ![q] = "USED"]
  /\ k' = [k EXCEPT ![p].at = "forkparent", ![p].np = q, ![q] = User]
  /\ UNCHANGED <<parent, killed, plock, wait_lock, cpu>>

(* No memory: freeproc, before np->lock is ever released. *)
ForkFails(p, q) ==
  /\ Calls(p)
  /\ state[q] = "UNUSED"
  /\ killed' = [killed EXCEPT ![q] = FALSE]
  /\ UNCHANGED <<state, parent, plock, wait_lock, cpu, k>>

ForkParent(p) ==
  /\ At(p, "forkparent")
  /\ wait_lock = None
  /\ parent' = [parent EXCEPT ![k[p].np] = p]
  /\ Goto(p, "forkrun")
  /\ UNCHANGED <<state, killed, plock, wait_lock, cpu>>

ForkRun(p) ==
  /\ At(p, "forkrun")
  /\ state' = [state EXCEPT ![k[p].np] = "RUNNABLE"]
  /\ k' = [k EXCEPT ![p] = User]
  /\ UNCHANGED <<parent, killed, plock, wait_lock, cpu>>

-----------------------------------------------------------------------------
(* exit, by choice or because usertrap finds p->killed. *)

(* initproc must not get here: panic("init exiting").                      *)
Exit(p) ==
  /\ At(p, "user")
  /\ Goto(p, IF p = InitProc THEN "panic" ELSE "exit")
  /\ UNCHANGED <<state, parent, killed, plock, wait_lock, cpu>>

(* The endless loop at the end of panic. *)
Panicked(p) == At(p, "panic") /\ UNCHANGED vars

ExitLock(p) ==
  /\ At(p, "exit")
  /\ wait_lock = None
  /\ wait_lock' = p
  /\ Goto(p, "reparent")
  /\ UNCHANGED <<state, parent, killed, plock, cpu>>

(* reparent: the next child goes to init, then wakeup(initproc). *)
Reparent(p) ==
  LET q == Min(ChildrenFrom(p, k[p].i)) IN
  /\ At(p, "reparent")
  /\ ChildrenFrom(p, k[p].i) # {}
  /\ parent' = [parent EXCEPT ![q] = InitProc]
  /\ k' = [k EXCEPT ![p].at = "wakeinit", ![p].i = q + 1, ![p].given = @ \cup {q}]
  /\ UNCHANGED <<state, killed, plock, wait_lock, cpu>>

(* Faulty variant: children may be left with the exiting process. *)
ReparentSkipped(p) ==
  /\ At(p, "reparent")
  /\ Goto(p, "wakeparent")
  /\ UNCHANGED <<state, parent, killed, plock, wait_lock, cpu>>

ReparentDone(p) ==
  /\ At(p, "reparent")
  /\ ChildrenFrom(p, k[p].i) = {}
  /\ Goto(p, "wakeparent")
  /\ UNCHANGED <<state, parent, killed, plock, wait_lock, cpu>>

(* wakeup(q) with the process q as the channel, which only q sleeps on, in *)
(* wait; the loop finds the other processes not sleeping on it.            *)
Wakeup(q) ==
  /\ ~plock[q]
  /\ state' = [state EXCEPT ![q] = IF @ = "SLEEPING" THEN "RUNNABLE" ELSE @]

WakeInit(p) ==
  /\ At(p, "wakeinit")
  /\ Wakeup(InitProc)
  /\ Goto(p, "reparent")
  /\ UNCHANGED <<parent, killed, plock, wait_lock, cpu>>

WakeParent(p) ==
  /\ At(p, "wakeparent")
  /\ Wakeup(parent[p])
  /\ Goto(p, "zombie")
  /\ UNCHANGED <<parent, killed, plock, wait_lock, cpu>>

(* The last step of exit keeps p->lock for the scheduler to release. *)
ExitZombie(p) ==
  /\ At(p, "zombie")
  /\ state' = [state EXCEPT ![p] = "ZOMBIE"]
  /\ plock' = [plock EXCEPT ![p] = TRUE]
  /\ wait_lock' = None
  /\ k' = [k EXCEPT ![p] = [User EXCEPT !.at = "dead"]]
  /\ UNCHANGED <<parent, killed, cpu>>

-----------------------------------------------------------------------------
(* wait and waitx. *)

Wait(p) ==
  /\ Calls(p)
  /\ Goto(p, "wait")
  /\ UNCHANGED <<state, parent, killed, plock, wait_lock, cpu>>

WaitLock(p) ==
  /\ At(p, "wait")
  /\ wait_lock = None
  /\ wait_lock' = p
  /\ k' = [k EXCEPT ![p] = [User EXCEPT !.at = "scan"]]
  /\ UNCHANGED <<state, parent, killed, plock, cpu>>

(* Faulty variant: freeproc without pp->lock. *)
WaitChildUnlocked(p) ==
  LET q == Min(ChildrenFrom(p, k[p].i)) IN
  /\ At(p, "scan")
  /\ ChildrenFrom(p, k[p].i) # {}
  /\ state[q] = "ZOMBIE"
  /\ state' = [state EXCEPT ![q] = "UNUSED"]
  /\ parent' = [parent EXCEPT ![q] = None]
  /\ killed' = [killed EXCEPT ![q] = FALSE]
  /\ wait_lock' = None
  /\ k' = [k EXCEPT ![p] = User, ![q] = User]
  /\ UNCHANGED <<plock, cpu>>

(* Faulty variant: wait returns without freeproc. *)
WaitChildNotFreed(p) ==
  LET q == Min(ChildrenFrom(p, k[p].i)) IN
  /\ At(p, "scan")
  /\ ChildrenFrom(p, k[p].i) # {}
  /\ ~plock[q]
  /\ IF state[q] = "ZOMBIE" THEN wait_lock' = None /\ k' = [k EXCEPT ![p] = User]
     ELSE k' = [k EXCEPT ![p].have = TRUE, ![p].i = q + 1] /\ UNCHANGED wait_lock
  /\ UNCHANGED <<state, parent, killed, plock, cpu>>

(* Faulty variant: havekids is not set. *)
WaitChildNoKids(p) ==
  LET q == Min(ChildrenFrom(p, k[p].i)) IN
  /\ At(p, "scan")
  /\ ChildrenFrom(p, k[p].i) # {}
  /\ ~plock[q] /\ state[q] # "ZOMBIE"
  /\ k' = [k EXCEPT ![p].i = q + 1]
  /\ UNCHANGED <<state, parent, killed, wait_lock, plock, cpu>>

(* The next child, under its lock, so that it has left its kernel stack:   *)
(* freeproc when it is a zombie.                                           *)
WaitChild(p) ==
  LET q == Min(ChildrenFrom(p, k[p].i)) IN
  /\ At(p, "scan")
  /\ ChildrenFrom(p, k[p].i) # {}
  /\ ~plock[q]
  /\ \/ /\ state[q] = "ZOMBIE"
        /\ state' = [state EXCEPT ![q] = "UNUSED"]
        /\ parent' = [parent EXCEPT ![q] = None]
        /\ killed' = [killed EXCEPT ![q] = FALSE]
        /\ wait_lock' = None
        /\ k' = [k EXCEPT ![p] = User, ![q] = User]
     \/ /\ state[q] # "ZOMBIE"
        /\ k' = [k EXCEPT ![p].have = TRUE, ![p].i = q + 1]
        /\ UNCHANGED <<state, parent, killed, wait_lock>>
  /\ UNCHANGED <<plock, cpu>>

(* copyout of the exit status fails: the zombie stays.  init waits with a  *)
(* null address.                                                           *)
WaitCopyFails(p) ==
  LET q == Min(ChildrenFrom(p, k[p].i)) IN
  /\ At(p, "scan")
  /\ p # InitProc
  /\ ChildrenFrom(p, k[p].i) # {}
  /\ ~plock[q] /\ state[q] = "ZOMBIE"
  /\ wait_lock' = None
  /\ k' = [k EXCEPT ![p] = User]
  /\ UNCHANGED <<state, parent, killed, plock, cpu>>

WaitFails(p) ==
  /\ At(p, "scan")
  /\ ChildrenFrom(p, k[p].i) = {}
  /\ ~k[p].have \/ killed[p]
  /\ wait_lock' = None
  /\ k' = [k EXCEPT ![p] = User]
  /\ UNCHANGED <<state, parent, killed, plock, cpu>>

(* Faulty variant: wait_lock is released before sleep takes p->lock. *)
WaitReleasesEarly(p) ==
  /\ At(p, "scan")
  /\ ChildrenFrom(p, k[p].i) = {}
  /\ k[p].have /\ ~killed[p]
  /\ wait_lock' = None
  /\ Goto(p, "sleep")
  /\ UNCHANGED <<state, parent, killed, plock, cpu>>

WaitMustSleep(p) ==
  /\ At(p, "scan")
  /\ ChildrenFrom(p, k[p].i) = {}
  /\ k[p].have /\ ~killed[p]
  /\ Goto(p, "sleep")
  /\ UNCHANGED <<state, parent, killed, plock, wait_lock, cpu>>

(* sleep(p, &wait_lock); when it returns it takes wait_lock again. *)
WaitSleep(p) ==
  /\ At(p, "sleep")
  /\ state' = [state EXCEPT ![p] = "SLEEPING"]
  /\ plock' = [plock EXCEPT ![p] = TRUE]
  /\ wait_lock' = None
  /\ Goto(p, "wait")
  /\ UNCHANGED <<parent, killed, cpu>>

-----------------------------------------------------------------------------
(* kill, yield and the scheduler. *)

(* Faulty variant: whatever does not run is made runnable. *)
KillRevives(p, q) ==
  /\ Calls(p)
  /\ ~plock[q]
  /\ killed' = [killed EXCEPT ![q] = TRUE]
  /\ state' = [state EXCEPT ![q] = IF @ \in {"SLEEPING", "ZOMBIE"} THEN "RUNNABLE" ELSE @]
  /\ UNCHANGED <<parent, plock, wait_lock, cpu, k>>

(* The slot whose pid matches; pid 0 matches an UNUSED slot. *)
Kill(p, q) ==
  /\ Calls(p)
  /\ ~plock[q]
  /\ killed' = [killed EXCEPT ![q] = TRUE]
  /\ state' = [state EXCEPT ![q] = IF @ = "SLEEPING" THEN "RUNNABLE" ELSE @]
  /\ UNCHANGED <<parent, plock, wait_lock, cpu, k>>

(* A timer interrupt, where no spinlock is held. *)
Yield(p) ==
  /\ \E at \in {"user", "forkparent", "forkrun", "exit", "wait"} : At(p, at)
  /\ state' = [state EXCEPT ![p] = "RUNNABLE"]
  /\ plock' = [plock EXCEPT ![p] = TRUE]
  /\ UNCHANGED <<parent, killed, wait_lock, cpu, k>>

(* Back in the scheduler after swtch: c->proc = 0 and release(&p->lock). *)
SwitchedOut(c) ==
  /\ cpu[c] # None
  /\ plock[cpu[c]]
  /\ plock' = [plock EXCEPT ![cpu[c]] = FALSE]
  /\ cpu' = [cpu EXCEPT ![c] = None]
  /\ UNCHANGED <<state, parent, killed, wait_lock, k>>

Schedule(c, p) ==
  /\ cpu[c] = None
  /\ ~plock[p]
  /\ state[p] = "RUNNABLE"
  /\ state' = [state EXCEPT ![p] = "RUNNING"]
  /\ cpu' = [cpu EXCEPT ![c] = p]
  /\ UNCHANGED <<parent, killed, plock, wait_lock, k>>

-----------------------------------------------------------------------------
UserStep(p) ==
  \/ \E q \in Procs : ForkAlloc(p, q) \/ ForkFails(p, q) \/ Kill(p, q)
  \/ Exit(p)
  \/ Wait(p)

KernelStep(p) ==
  \/ ForkParent(p) \/ ForkRun(p)
  \/ ExitLock(p) \/ Reparent(p) \/ WakeInit(p) \/ ReparentDone(p)
  \/ WakeParent(p) \/ ExitZombie(p)
  \/ WaitLock(p) \/ WaitChild(p) \/ WaitCopyFails(p) \/ WaitFails(p)
  \/ WaitMustSleep(p) \/ WaitSleep(p)

Next ==
  \/ \E p \in Procs : UserStep(p) \/ KernelStep(p) \/ Yield(p) \/ Panicked(p)
  \/ \E c \in CPUs : SwitchedOut(c) \/ \E p \in Procs : Schedule(c, p)

Spec == Init /\ [][Next]_vars

(* The scheduler passes over every slot of the table again and again; a    *)
(* process that is on a CPU gets to execute between two timer interrupts   *)
(* and wins a contended lock at some time; a timer interrupt comes; user   *)
(* code of init is an endless loop around wait (user/init.c), and a killed *)
(* process exits at its next trap.                                         *)
Progress(p) ==
  \/ KernelStep(p)
  \/ killed[p] /\ Exit(p)
  \/ p = InitProc /\ Wait(p)

Fairness ==
  /\ \A c \in CPUs : WF_vars(SwitchedOut(c))
  /\ \A p \in Procs : /\ SF_vars(Progress(p))
                      /\ SF_vars(\E c \in CPUs : Schedule(c, p))
                      /\ SF_vars(Yield(p))

FairSpec == Spec /\ Fairness

-----------------------------------------------------------------------------
(* Properties. *)

States == {"UNUSED", "USED", "SLEEPING", "RUNNABLE", "RUNNING", "ZOMBIE"}
Places == {"user", "forkparent", "forkrun", "exit", "reparent", "wakeinit", "wakeparent",
           "zombie", "dead", "panic", "wait", "scan", "sleep"}

(* The types, and that the place a thread is at fits its p->state: only a  *)
(* zombie has run to the end of exit, only wait sleeps, and a slot that    *)
(* nobody uses has no thread inside the kernel.                            *)
TypeOK ==
  /\ state \in [Procs -> States]
  /\ parent \in [Procs -> Procs \cup {None}]
  /\ killed \in [Procs -> BOOLEAN]
  /\ plock \in [Procs -> BOOLEAN]
  /\ wait_lock \in Procs \cup {None}
  /\ cpu \in [CPUs -> Procs \cup {None}]
  /\ k \in [Procs -> [at : Places, i : 1..(NPROC + 1), have : BOOLEAN,
                      np : Procs \cup {None}, given : SUBSET Procs]]
  /\ \A p \in Procs : /\ k[p].at = "dead" <=> state[p] = "ZOMBIE"
                      /\ state[p] = "SLEEPING" => k[p].at = "wait"
                      /\ state[p] \in {"UNUSED", "USED"} => k[p] = User

(* No wakeup is lost: when nobody is inside wait_lock, a process that      *)
(* sleeps in wait has a child to wait for, and none of them is a zombie.   *)
NoLostWakeup ==
  wait_lock = None => \A p \in Procs : state[p] = "SLEEPING" =>
    /\ ChildrenFrom(p, 1) # {}
    /\ \A q \in ChildrenFrom(p, 1) : state[q] # "ZOMBIE"

(* A process runs on one CPU at most, and freeproc never takes a process   *)
(* whose kernel stack a CPU is still using.                                *)
StackInUse ==
  \A c \in CPUs : cpu[c] # None =>
    /\ state[cpu[c]] \notin {"UNUSED", "USED"}
    /\ \A d \in CPUs \ {c} : cpu[d] # cpu[c]
    /\ state[cpu[c]] # "RUNNING" => plock[cpu[c]]

(* wait has returned -1: the call is over and no child has been freed. *)
WaitGivesUp(p) == k[p].at = "scan" /\ k'[p].at = "user" /\ state' = state

(* wait never reports -1 to a process that would have had to wait: it has  *)
(* no children, or was killed, or one of its children is a zombie and the  *)
(* copyout of the exit status failed.  In the last case the zombie is      *)
(* still its child and still to be reaped when wait returns.               *)
WaitFailsRightly ==
  [][\A p \in Procs : WaitGivesUp(p) =>
       \/ ChildrenFrom(p, 1) = {}
       \/ killed[p]
       \/ \E q \in ChildrenFrom(p, 1) : state[q] = "ZOMBIE" /\ parent'[q] = p]_vars

(* The parent of q in the tree. *)
ParentOf(q) ==
  IF q = InitProc THEN InitProc
  ELSE IF state[q] \in {"UNUSED", "USED"} THEN None
  ELSE IF \E p \in Procs : q \in k[p].given THEN CHOOSE p \in Procs : q \in k[p].given
  ELSE parent[q]

L == INSTANCE Lineage WITH parentOf <- [q \in Procs |-> ParentOf(q)],
                           zombies <- {q \in Procs : state[q] = "ZOMBIE"}

(* The detailed steps implement the atomic tree of Lineage: fork happens   *)
(* when the child becomes runnable, exit when the process becomes a        *)
(* zombie, although reparent has handed over the children one at a time.   *)
LineageSpec == L!LineageSpec

OrphanZombie(q) == state[q] = "ZOMBIE" /\ parent[q] = InitProc

(* A zombie that init inherits or has forked is reaped, unless init exits,  *)
(* which panics the kernel, or a child of init in a lower slot dies: wait   *)
(* takes the first zombie of the table, so a stream of children that die in *)
(* lower slots can keep a zombie in a higher slot waiting for ever.         *)
OrphansReaped ==
  \A q \in Procs : OrphanZombie(q) ~>
    \/ state[q] = "UNUSED"
    \/ k[InitProc].at = "panic"
    \/ \E r \in 1..(q - 1) : OrphanZombie(r)
=============================================================================
