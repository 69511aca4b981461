-------------------------------- MODULE Sched --------------------------------
(***************************************************************************)
(* The schedulers RR, FCFS, LBS and PBS of kernel/proc.c on several CPUs:  *)
(* how each one walks over the process table, which p->lock it holds while *)
(* it does so, and which process it switches to.                           *)
(*                                                                         *)
(* A step is one critical section of p->lock, or a part of one between two *)
(* acquires or releases.  lock[p] is the CPU that holds p->lock; sched     *)
(* hands the lock from the process to the scheduler of the same CPU and    *)
(* back, so the CPU is what identifies the holder.  Processes are neither  *)
(* created nor freed here (Proc has fork, exit and wait).                  *)
(***************************************************************************)
EXTENDS Integers, FiniteSetsExt

CONSTANTS
  NPROC,       (* size of the process table                              *)
  CPUs,
  Policies,    (* the SCHEDULER values of the Makefile that are built    *)
  StartTicks,  (* start_ticks of each process                            *)
  Priorities,  (* static priorities that set_priority is called with     *)
  Tickets,     (* numbers that settickets is called with, of any sign    *)
  MaxSched     (* how often PBS schedules one process                    *)

ASSUME SchedAssumption ==
  /\ NPROC \in Nat \ {0}
  /\ StartTicks \in [1..NPROC -> Nat]
  /\ Tickets \subseteq Int
  /\ Priorities \subseteq 0..100

Procs == 1..NPROC
None == 0
NoCpu == "none"

VARIABLES
  policy,  (* which scheduler the kernel was built with                   *)
  state,   (* p->state                                                    *)
  lock,    (* who holds p->lock                                           *)
  key,     (* the fields of p that the schedulers compare                 *)
  k        (* where each CPU is                                           *)

vars == <<policy, state, lock, key, k>>

(* at: the next step of the CPU; i: the slot a scan has come to; best:     *)
(* min_proc, win or high_proc, and c->proc when a process runs; tot:       *)
(* total_tickets and then curr; draw: tochoose.  late is a history: slots  *)
(* that became runnable or changed priority after the scan passed them.    *)
Top == [at |-> IF policy = "LBS" THEN "tally" ELSE "scan",
        i |-> 1, best |-> None, tot |-> 0, draw |-> 0, late |-> {}]

(* static_priority, num_scheduled and tickets.  Of run_ticks and           *)
(* sleep_ticks only whether they are 0 matters: see DynamicPriority.       *)
NewKey == [static |-> 60, ran |-> FALSE, slept |-> FALSE, num |-> 0, tickets |-> 1]

Init ==
  /\ policy \in Policies
  /\ state \in [Procs -> {"RUNNABLE", "SLEEPING"}]
  /\ lock = [p \in Procs |-> NoCpu]
  /\ key = [p \in Procs |-> NewKey]
  /\ k = [c \in CPUs |-> Top]

-----------------------------------------------------------------------------
(* Which of two processes comes first. *)

(* The quotient sleep_ticks/(sleep_ticks + run_ticks) is an integer, 1 if  *)
(* the process has only slept since it was last scheduled and 0 if not.    *)
Niceness(p) ==
  IF ~key[p].slept /\ ~key[p].ran THEN 5 ELSE IF key[p].slept /\ ~key[p].ran THEN 10 ELSE 0

DynamicPriority(p) == Max({0, Min({100, key[p].static - Niceness(p) + 5})})

(* p->start_ticks < min_sticks *)
Earlier(p, q) == StartTicks[p] < StartTicks[q]

(* Faulty variant: a lower count wins whatever the priorities. *)
HigherByCount(p, q) ==
  \/ DynamicPriority(p) < DynamicPriority(q)
  \/ key[p].num < key[q].num
  \/ key[p].num = key[q].num /\ Earlier(p, q)

(* The comparison of priority_scheduler. *)
Higher(p, q) ==
  \/ DynamicPriority(p) < DynamicPriority(q)
  \/ /\ DynamicPriority(p) = DynamicPriority(q)
     /\ \/ key[p].num < key[q].num
        \/ key[p].num = key[q].num /\ Earlier(p, q)

Better(p, q) == IF policy = "FCFS" THEN Earlier(p, q) ELSE Higher(p, q)

-----------------------------------------------------------------------------
At(c, at) == k[c].at = at

Acquire(c, p) == lock[p] = NoCpu /\ lock' = [lock EXCEPT ![p] = c]

Release(c, p) == lock' = [lock EXCEPT ![p] = NoCpu]

(* The scans that have passed the slot p learn that it has changed. *)
Touch(p) ==
  [c \in CPUs |-> IF k[c].at = "scan" /\ k[c].i > p THEN [k[c] EXCEPT !.late = @ \cup {p}] ELSE k[c]]

(* swtch to p, whose lock c holds; the process then releases its lock. *)
Switch(c, p) ==
  /\ state' = [state EXCEPT ![p] = "RUNNING"]
  /\ key' = IF policy = "PBS"
            THEN [key EXCEPT ![p].num = @ + 1, ![p].ran = FALSE, ![p].slept = FALSE]
            ELSE key
  /\ lock' = [q \in Procs |-> IF q = p THEN NoCpu ELSE lock[q]]
  /\ k' = [k EXCEPT ![c] = [@ EXCEPT !.at = "run", !.best = p, !.late = {}, !.tot = 0, !.draw = 0,
                                     !.i = IF policy = "RR" THEN @ ELSE 1]]

(* round_robin_scheduler: the next slot, run at once when it is runnable. *)
RoundRobin(c) ==
  LET p == k[c].i IN
  /\ policy = "RR"
  /\ At(c, "scan") /\ p <= NPROC
  /\ lock[p] = NoCpu
  /\ \/ state[p] = "RUNNABLE" /\ Switch(c, p)
     \/ /\ state[p] # "RUNNABLE"
        /\ k' = [k EXCEPT ![c].i = @ + 1]
        /\ UNCHANGED <<state, lock, key>>
  /\ UNCHANGED policy

(* Faulty variant: a better candidate does not release the one before. *)
ScanKeepsLock(c) ==
  LET p == k[c].i
      takes == state[p] = "RUNNABLE" /\ (k[c].best = None \/ Better(p, k[c].best)) IN
  /\ policy \in {"FCFS", "PBS"}
  /\ At(c, "scan") /\ p <= NPROC
  /\ lock[p] = NoCpu
  /\ k' = [k EXCEPT ![c] = [@ EXCEPT !.i = p + 1, !.best = IF takes THEN p ELSE @]]
  /\ lock' = IF takes THEN [lock EXCEPT ![p] = c] ELSE lock
  /\ UNCHANGED <<policy, state, key>>

(* fcfs_scheduler and priority_scheduler: the next slot; the lock of the   *)
(* best process so far stays held while the scan goes on.                  *)
Scan(c) ==
  LET p == k[c].i
      best == k[c].best
      takes == state[p] = "RUNNABLE" /\ (best = None \/ Better(p, best)) IN
  /\ policy \in {"FCFS", "PBS"}
  /\ At(c, "scan") /\ p <= NPROC
  /\ lock[p] = NoCpu
  /\ k' = [k EXCEPT ![c].i = p + 1, ![c].best = IF takes THEN p ELSE best]
  /\ lock' = IF takes THEN [q \in Procs |-> IF q = p THEN c ELSE IF q = best THEN NoCpu ELSE lock[q]]
             ELSE lock
  /\ UNCHANGED <<policy, state, key>>

(* The end of a scan: back to the top, or switch to the best, whose state  *)
(* nobody can have changed while its lock was held (BestIsChosen).         *)
ScanDone(c) ==
  /\ At(c, "scan") /\ k[c].i > NPROC
  /\ \/ /\ k[c].best = None
        /\ k' = [k EXCEPT ![c] = Top]
        /\ UNCHANGED <<state, lock, key>>
     \/ k[c].best # None /\ Switch(c, k[c].best)
  /\ UNCHANGED policy

(* Faulty variant: the first pass gives every lock back. *)
TallyReleases(c) ==
  LET p == k[c].i IN
  /\ At(c, "tally") /\ p <= NPROC
  /\ lock[p] = NoCpu
  /\ k' = [k EXCEPT ![c].i = p + 1, ![c].tot = IF state[p] = "RUNNABLE" THEN @ + key[p].tickets ELSE @]
  /\ UNCHANGED <<policy, state, lock, key>>

(* lottery_scheduler, first pass: total_tickets, keeping every lock. *)
Tally(c) ==
  LET p == k[c].i IN
  /\ At(c, "tally") /\ p <= NPROC
  /\ Acquire(c, p)
  /\ k' = [k EXCEPT ![c].i = p + 1, ![c].tot = IF state[p] = "RUNNABLE" THEN @ + key[p].tickets ELSE @]
  /\ UNCHANGED <<policy, state, key>>

(* rand() % total_tickets, which is not negative as rand() is not, or, if  *)
(* the total is 0, nobody to run: release every lock in turn.              *)
Draw(c) ==
  LET tot == k[c].tot IN
  /\ At(c, "tally") /\ k[c].i > NPROC
  /\ \E n \in IF tot = 0 THEN {0} ELSE 0..((IF tot < 0 THEN 0 - tot ELSE tot) - 1) :
       k' = [k EXCEPT ![c] = [Top EXCEPT !.at = IF tot = 0 THEN "drop" ELSE "pick", !.draw = n]]
  /\ UNCHANGED <<policy, state, lock, key>>

Drop(c) ==
  /\ At(c, "drop")
  /\ Release(c, k[c].i)
  /\ k' = [k EXCEPT ![c] = IF @.i = NPROC THEN Top ELSE [@ EXCEPT !.i = @ + 1]]
  /\ UNCHANGED <<policy, state, key>>

(* Second pass: the first runnable process with curr >= tochoose wins and  *)
(* keeps its lock.                                                         *)
Pick(c) ==
  LET p == k[c].i
      curr == k[c].tot + IF state[p] = "RUNNABLE" THEN key[p].tickets ELSE 0
      wins == state[p] = "RUNNABLE" /\ curr >= k[c].draw /\ k[c].best = None IN
  /\ At(c, "pick") /\ p <= NPROC
  /\ k' = [k EXCEPT ![c] = [@ EXCEPT !.i = p + 1, !.tot = curr, !.best = IF wins THEN p ELSE @]]
  /\ IF wins THEN UNCHANGED lock ELSE Release(c, p)
  /\ UNCHANGED <<policy, state, key>>

(* The winner, if there is one, is switched to if it is still runnable.    *)
(* LotteryFindsWinner below says that it always is.                        *)
PickDone(c) ==
  LET win == k[c].best IN
  /\ At(c, "pick") /\ k[c].i > NPROC
  /\ IF win # None /\ state[win] = "RUNNABLE" THEN Switch(c, win)
     ELSE /\ lock' = [q \in Procs |-> IF q = win THEN NoCpu ELSE lock[q]]
          /\ k' = [k EXCEPT ![c] = Top]
          /\ UNCHANGED <<state, key>>
  /\ UNCHANGED policy

(* Faulty variant: the scheduler forgets the lock it came back with. *)
BackKeepsLock(c) ==
  /\ At(c, "back")
  /\ k' = [k EXCEPT ![c] = IF policy = "RR" THEN [Top EXCEPT !.i = k[c].i + 1] ELSE Top]
  /\ UNCHANGED <<policy, state, lock, key>>

(* Back from swtch: c->proc = 0 and release(&p->lock).  Round robin goes   *)
(* on with the next slot, the others start again.                          *)
Back(c) ==
  /\ At(c, "back")
  /\ Release(c, k[c].best)
  /\ k' = [k EXCEPT ![c] = IF policy = "RR" THEN [Top EXCEPT !.i = k[c].i + 1] ELSE Top]
  /\ UNCHANGED <<policy, state, key>>

-----------------------------------------------------------------------------
(* The process that runs on c, and interrupts. *)

(* A process that PBS counts may go through the scheduler MaxSched times. *)
MayLeave(p) == policy = "PBS" => key[p].num < MaxSched

(* yield and sleep: the process takes its own lock, and sched switches to  *)
(* the scheduler, which releases it.                                       *)
Leave(c, st) ==
  LET p == k[c].best IN
  /\ MayLeave(p)
  /\ Acquire(c, p)
  /\ state' = [state EXCEPT ![p] = st]
  /\ k' = [(IF st = "RUNNABLE" THEN Touch(p) ELSE k) EXCEPT ![c].at = "back"]
  /\ UNCHANGED <<policy, key>>

(* A timer interrupt ends the turn under RR and LBS only. *)
Preempt(c) == policy \in {"RR", "LBS"} /\ At(c, "run") /\ Leave(c, "RUNNABLE")

Sleep(c) == At(c, "run") /\ Leave(c, "SLEEPING")

(* The yield at the end of set_priority. *)
PriorityYield(c) == At(c, "yield") /\ Leave(c, "RUNNABLE")

(* wakeup of q, by the process on c or by an interrupt: interrupts are off *)
(* while a CPU holds a spinlock.                                           *)
Wakeup(c, q) ==
  /\ \A p \in Procs : lock[p] # c
  /\ lock[q] = NoCpu
  /\ state[q] = "SLEEPING"
  /\ state' = [state EXCEPT ![q] = "RUNNABLE"]
  /\ k' = Touch(q)
  /\ UNCHANGED <<policy, lock, key>>

(* update_ticks at slot q, in the clock interrupt of the boot CPU: one     *)
(* turn of its loop, in any order.  Only PBS reads what it counts.         *)
UpdateTicks(q) ==
  /\ policy = "PBS"
  /\ lock[q] = NoCpu
  /\ key' = [key EXCEPT ![q].ran = @ \/ state[q] = "RUNNING",
                        ![q].slept = @ \/ state[q] = "SLEEPING"]
  /\ UNCHANGED <<policy, state, lock, k>>

(* set_priority, which yields afterwards when the priority was lowered. *)
SetPriority(c, q, n) ==
  /\ policy = "PBS"
  /\ At(c, "run")
  /\ lock[q] = NoCpu
  /\ key' = [key EXCEPT ![q].static = n, ![q].ran = FALSE, ![q].slept = FALSE]
  /\ k' = [Touch(q) EXCEPT ![c].at = IF n < key[q].static THEN "yield" ELSE "run"]
  /\ UNCHANGED <<policy, state, lock>>

(* settickets writes p->tickets without p->lock. *)
SetTickets(c, n) ==
  /\ policy = "LBS"
  /\ At(c, "run")
  /\ key' = [key EXCEPT ![k[c].best].tickets = n]
  /\ UNCHANGED <<policy, state, lock, k>>

-----------------------------------------------------------------------------
Schedule(c) ==
  RoundRobin(c) \/ Scan(c) \/ ScanDone(c) \/ Tally(c) \/ Draw(c) \/ Drop(c) \/ Pick(c)
    \/ PickDone(c) \/ Back(c)

Process(c) ==
  \/ Preempt(c) \/ Sleep(c) \/ PriorityYield(c)
  \/ \E q \in Procs, n \in Priorities : SetPriority(c, q, n)
  \/ \E n \in Tickets : SetTickets(c, n)

Next ==
  \/ \E c \in CPUs : Schedule(c) \/ Process(c) \/ \E q \in Procs : Wakeup(c, q)
  \/ \E q \in Procs : UpdateTicks(q)

Spec == Init /\ [][Next]_vars

-----------------------------------------------------------------------------
(* Properties. *)

(* The p->locks that a CPU holds, from the place it is at. *)
Holds(c) ==
  CASE k[c].at \in {"scan", "back"} -> {k[c].best} \ {None}
    [] k[c].at = "tally" -> 1..(k[c].i - 1)
    [] k[c].at = "drop" -> k[c].i..NPROC
    [] k[c].at = "pick" -> (k[c].i..NPROC \cup {k[c].best}) \ {None}
    [] OTHER -> {}

(* The types, that a CPU holds the locks its place in the scheduler says   *)
(* and no other (sched and swtch are reached with exactly one), and that   *)
(* the RUNNING processes are the ones that CPUs run.                       *)
TypeOK ==
  /\ policy \in Policies
  /\ state \in [Procs -> {"RUNNABLE", "RUNNING", "SLEEPING"}]
  /\ lock \in [Procs -> CPUs \cup {NoCpu}]
  /\ key \in [Procs -> [static : Priorities \cup {60}, ran : BOOLEAN, slept : BOOLEAN,
                        num : 0..MaxSched, tickets : Tickets \cup {1}]]
  /\ \A c \in CPUs : /\ {p \in Procs : lock[p] = c} = Holds(c)
                     /\ k[c].at \in {"run", "yield"} => state[k[c].best] = "RUNNING"
  /\ \A p \in Procs : state[p] = "RUNNING" =>
       Cardinality({c \in CPUs : k[c].at \in {"run", "yield"} /\ k[c].best = p}) = 1

(* c waits for a lock that a CPU of S holds. *)
Waits(c, S) == k[c].at \in {"scan", "tally"} /\ k[c].i <= NPROC /\ lock[k[c].i] \in S

(* CPUs never wait for each other's process locks in a circle, and no CPU  *)
(* waits for a lock it holds itself, although FCFS and PBS hold the lock   *)
(* of the best candidate during the scan and LBS those of the whole table. *)
NoLockCycle == \A S \in SUBSET CPUs : S # {} => \E c \in S : ~Waits(c, S)

(* The processes that come first by the Report's description. *)
Lowest(S, f(_)) == {p \in S : \A q \in S : f(p) <= f(q)}

First(S) ==
  LET start(p) == StartTicks[p]
      num(p) == key[p].num IN
  IF policy = "FCFS" THEN Lowest(S, start)
  ELSE Lowest(Lowest(Lowest(S, DynamicPriority), num), start)

(* When a scan of FCFS or PBS ends, it has found what its policy promises: *)
(* FCFS a process with the lowest start_ticks; PBS one with the lowest     *)
(* dynamic priority, among these the lowest num_scheduled, among these the *)
(* lowest start_ticks.  Only processes that became runnable or got another *)
(* priority after the scan had passed them are left out of account.        *)
BestIsChosen ==
  \A c \in CPUs : At(c, "scan") /\ policy # "RR" /\ k[c].i > NPROC =>
    LET seen == {q \in Procs \ k[c].late : state[q] = "RUNNABLE"} IN
    IF k[c].best = None THEN seen = {}
    ELSE state[k[c].best] = "RUNNABLE" /\ k[c].best \in First(seen \cup {k[c].best})

(* When the tickets add up to more than zero, the second pass finds a      *)
(* winner; and a winner is still runnable when the CPU switches to it.     *)
(* Nobody changed the state or the tickets of a runnable process between   *)
(* the passes.  settickets takes any number: with a total below zero the   *)
(* number drawn may be out of reach, and the pass ends without a winner.   *)
LotteryFindsWinner ==
  \A c \in CPUs : At(c, "pick") /\ k[c].i > NPROC =>
    /\ k[c].tot > 0 => k[c].best # None
    /\ k[c].best # None => state[k[c].best] = "RUNNABLE"
=============================================================================
