# A TLA+ verification of Enhancing_xv6

This directory models the kernel of this repository: xv6 for RISC-V with
copy-on-write fork, four schedulers besides round robin (FCFS, lottery LBS,
priority PBS, multi-level feedback queue MLFQ), alarms, `strace` and `waitx`.
TLC checks the models on small instances, and TLAPS proves the central
properties of copy-on-write for every size. `PROJECT.json` maps every
definition to the lines it models.

## The system and its models

| Part of the kernel | Source | Module | Abstract specification |
|---|---|---|---|
| page allocator with reference counts | `kalloc.c` | `Kalloc` | |
| user memory, COW faults, fork/exec/sbrk/exit as far as memory goes | `vm.c`, `trap.c`, `exec.c`, `proc.c` | `Cow` (extends `Kalloc`) | `PrivateMemory` |
| process life: fork, exit, wait, kill, sleep, wakeup | `proc.c` | `Proc` | `Lineage` |
| schedulers RR, FCFS, LBS, PBS | `proc.c`, `trap.c` | `Sched` | |
| MLFQ scheduler | `proc.c`, `trap.c` | `Mlfq` | |
| write-ahead log | `log.c` | `Log` | `AtomicDisk` |
| buffer cache, sleep locks, virtio driver | `bio.c`, `sleeplock.c`, `virtio_disk.c` | `Disk` | `BlockStore` |
| pipes and file reference counts | `pipe.c`, `file.c` | `Pipe` | `Fifo` |
| inodes, directories, paths, file calls | `fs.c`, `sysfile.c` | `Fs` | |

How the parts meet. System calls of user programs reach `sysfile.c`, which
works on inodes (`Fs`) inside transactions (`Log`) on cached blocks (`Disk`).
Processes (`Proc`) sleep and are woken by all of these; a CPU picks the next
one in `Sched` or `Mlfq`. `Cow` composes the allocator with the page tables of
all processes. The other layers are composed by refinement: what the lower
layer shows (a store of blocks with exclusive use, a disk with atomic
transactions) is what the upper one takes for granted.

`MC*` modules add only symmetry sets and constant values for TLC.

### State and steps

A spin lock's critical section is one atomic step. Where something happens
inside a critical section that does not need the lock (the device, `kill`),
the section has several steps and the lock is a variable. A sleep lock is
always a variable. A panic is a step that cannot be taken, or a place the
model never leaves; the invariants say that it is not reached.

* `Kalloc`: `num_ref_to_page`, `freelist`, the contents of pages, and `limbo`,
  the page between the two critical sections of `kfree`.
* `Cow`: `hold` says which page a slot keeps, where a slot is a page-table
  entry, a page-table page or a local variable of a kernel function; `perm` are
  the flags of the entry; `k[p].pc` is the place inside
  `uvmcopy`, `uvmalloc`, `uvmunmap`, `freewalk`, `cowfault`, `copyout` or
  `exec`. Every page allocation can fail.
* `Proc`: `state`, `parent`, `killed`, `wait_lock`, what each CPU runs, and
  `plock` for a process lock that is held across `swtch`.
* `Sched`: one record per CPU with the slot its scan has come to, the best
  candidate, and the tickets; `lock[p]` is the CPU that holds `p->lock`. Of
  `run_ticks` and `sleep_ticks` only whether they are zero is kept, which is
  exact: the quotient in `dynamic_priority` is an integer division.
* `Mlfq`: the rings, the per-process fields, and the place in
  `mlfq_scheduler`, `queue_switch` or the end of `usertrap`, on one CPU.
* `Log`: the blocks `home`, the log slots and the header on disk; the cache,
  the pins, `log.lh`, `outstanding`, `committing`. `Crash` keeps the disk only.
* `Disk`: buffers with reference count and sleep lock, the LRU list, the
  descriptors, both rings as queues, the interrupt line. The data of a buffer
  are reduced to whether they are the disk's.
* `Pipe`: the ring with counters modulo `UINT`, `readopen`, `writeopen`, the
  file reference counts, descriptors, `killed`, and the place of each process.
* `Fs`: the inode table, the inodes on disk, directories as functions from
  names to inode numbers, `cwd` and one open file per process, and the pending
  `iput`s, each of which may free an inode in steps.

## What the runs check

| Run | Properties | What it shows |
|---|---|---|
| `cow_share` | `TypeOK`, `RefCounted`, `FreePagesUnused`, `WritableIsPrivate`, `NoLeafInFreewalk`, `PrivateMemorySpec` | store, fork, exit and sbrk with six pages, so that every allocation can fail; to its user each process has memory of its own that fork copies in an instant |
| `cow_exec` | `PrivateMemorySpec`, `OnlyUvmcopyLeaks`, `KernelReturns` | exec, fork and copyout; exec replaces the old image by the complete new one in one step or not at all; error paths give back what they took (but one, below), and every kernel operation ends |
| `proc_smp` | `TypeOK`, `NoLostWakeup`, `StackInUse`, `WaitFailsRightly`, `LineageSpec` | three processes on two CPUs; no wakeup is lost between `wait` and `exit`, no kernel stack is freed in use, `wait` gives up only without children, when killed, or with a zombie that it leaves in place, the tree of processes changes atomically |
| `proc_live` | `OrphansReaped` | a zombie child of init is reaped, unless children in lower slots die first |
| `sched` | `TypeOK`, `NoLockCycle`, `BestIsChosen`, `LotteryFindsWinner` | two CPUs scan one table under each policy while it changes; a lottery has a winner if the tickets add up to more than zero |
| `log_crash` | `TypeOK`, `QuietIsStable`, `CommitIsExclusive`, `SleepersMustWait`, `AtomicDiskSpec` | crashes at any point, also in recovery; system calls are atomic and, once nothing is in progress, stable |
| `disk` | `TypeOK`, `OneCopyPerBlock`, `DescriptorsConserved`, `SleepersMustWait`, `NoLostCompletion`, `BlocksAreStored` | three buffers for four blocks, descriptors for two of three requests, completions in any order and during the handler |
| `pipe` | `TypeOK`, `OpenEndsAreOpen`, `SleepersMustWait`, `PipeIsFifo` | three processes share the ends, close them and are killed; counters wrap |
| `fs_tree` | `TypeOK`, `RefsCounted`, `LinksCovered`, `NoPanic`, `NoWaitCycle`, `OnlyRemovedDirsLose` | two processes work on the same names at once |
| `cow_text`, `fs_dotdot`, `mlfq_reuse` | `TextProtected`, `IlockFindsType`, `QueuedWhereItSays` | violations, see Findings |

### Bounds

* `cow_share`: 2 processes, 2 user pages each, 6 pages of RAM: less than two
  full address spaces, so that each allocation succeeds on some paths and
  fails on others. `MaxRef` stops forks that would only raise counts further.
  `cow_exec`: 9 pages, 3 user pages, an image of two segments with a text page,
  and a third address space, because exec builds one beside the old one.
* `proc_smp`: 3 slots are the least for a parent, a child and init that
  inherits; 2 CPUs are the least for a stack in use elsewhere. `proc_live` has
  the one CPU of the Makefile.
* `sched`: 3 processes and 2 CPUs; two processes start in the same tick, so
  that ties occur; 2 priorities whose dynamic values overlap; ticket counts of
  both signs, so that totals above, at and below zero occur; a process goes
  through the PBS scheduler `MaxSched` times.
* `log_crash`: 3 processes, 2 blocks, 2 values; the log has room for three
  reservations, so that `begin_op` both admits and waits.
* `disk`: one block more than buffers, so that buffers are recycled; 7
  descriptors serve two requests and leave one over, so that the third
  process sleeps and `alloc3_desc` fails half way.
* `pipe`: a ring of 2 bytes, counters modulo 4, requests of 3 bytes: more than
  the ring holds, and the counters wrap. `MaxKills` is 1: with one process
  killed the others still write, read and sleep. A shorter request leaves the pipe as
  one of 3 bytes does whose `copyin` or `copyout` fails early, which is covered.
* `fs_tree`: 3 inodes, so that `ialloc` fails; 2 names; the calls on `/a`,
  `/a/b` and `b` that collide. `MaxLink` bounds the links of a file.
* `mlfq_reuse`: 3 slots, 3 levels, an age of 1 tick and a clock of 4; the
  counterexample needs none of the bounds.

Deadlock is checked in `proc_smp`, `proc_live`, `log_crash`, `disk`, `fs_tree`
and `sched`. It is not in the `cow` runs, where all processes may have exited
or `MaxRef` is reached, nor in `pipe`, where everyone may have exited,
nor in `mlfq_reuse`, where the clock stops at `MaxTicks`.

### Fairness

* `Proc`: the scheduler passes over every slot again and again (strong
  fairness of scheduling a process), a process on a CPU gets to execute
  between two timer interrupts, and a timer interrupt comes. Init loops around
  `wait` (`user/init.c:39`); no other user program is assumed to do anything.
* `Cow`: a process inside the kernel keeps executing (weak fairness of its
  kernel steps). Nothing is assumed about user code.

## What is proved

`CowTypes` and `CowSafety` hold machine-checked proofs about `Cow`, for any
number of pages, processes, address spaces and user pages, from the
assumptions named in `Kalloc` and `Cow` (`NPagesAssumption`,
`ValsAssumption`, `CowAssumption`: the sets are what their names say, finite
where they are counted, and the allocator starts with at least three pages).

* `TypeCorrect`: `Spec => []TypeOK`. `TypeOK` is not inductive: `uvmalloc`
  stays within the table when it backs out only because of the bounds of its
  loop, and `kfree` gets a page only because the local variable holds one. The
  strengthening `Types` adds `ThreadOK`, which says for every place in the
  kernel what the locals may be. There is one lemma per action.
* `CowIsSafe`: `Spec => [](RefCounted /\ FreePagesUnused /\ WritableIsPrivate)`.
  The three are inductive together, given `Types`: a page that is freed has no
  holder because holders are counted; a page that is allocated gets no second
  holder because the free list has no page in use; a copied page may be made
  writable because nobody else holds it. Every action changes the counts, the
  free list and the slots in one of eight ways (allocate, share, move, drop,
  push, ...), with a lemma for each. Counting uses the library's theorems on
  finite sets.

Everything else is model-checked only: `PrivateMemorySpec` and the other
refinements, the action properties, and the invariants of the other modules.
Liveness (`KernelReturns`, `OrphansReaped`) is out of the prover's reach.

## Findings

Three runs end in a counterexample.

* `cow_text`: `uvmcopy` makes every page copy-on-write, also the read-only
  text, and `cowfault` gives the copy `PTE_W`. After a fork, a store to the
  text segment succeeds; `user/usertests.c:2424` expects a fault.
* `fs_dotdot`: `unlink` of a directory drops the link its `..` holds on the
  parent, though a process may still be in the directory. When the parent is
  freed too, following `..` ends in `panic("ilock: no type")`.
* `mlfq_reuse`: fork, exit, wait, fork is enough to put a process in the MLFQ
  rings twice. `mlfq_scheduler` queues the process it has run also when it is
  now a zombie, and `freeproc` clears `qued_fl` without dequeuing it.

Met while modelling, without a run of their own:

* The reference that `uvmcopy` adds before `mappages` is not dropped when
  `mappages` fails (`vm.c:329`). `OnlyUvmcopyLeaks` says that this is the only
  step that loses a reference.
* `begin_op` reserves up to `LOGSIZE` blocks, while `log_write` panics at
  `log.size - 1`, and `mkfs` makes the log `LOGSIZE` blocks long: three calls
  that log `MAXOPBLOCKS` blocks each are admitted and do not fit.
* The lottery takes the first process with `curr >= tochoose`, where
  `tochoose` starts at 0. Of two runnable processes with one ticket each the
  second never wins. `Report.md:66` says "surpasses".
* `settickets` takes any number. With a total below zero the number drawn may
  be one that `curr` never reaches: the lottery then has no winner, although
  processes are runnable, and is drawn again. `LotteryFindsWinner` therefore
  speaks of totals above zero.
* The integer division in `dynamic_priority` makes the niceness 0, 5 or 10 and
  nothing between.
* A pipe writer that is killed in the middle of its loop returns without
  waking the readers (`pipe.c:86`), although it has written; `SleepersMustWait`
  says that a reader comes to sleep needlessly in no other way.
* An entry made in a directory that was removed after the lookup is lost with
  it, and the inode keeps its link; `OnlyRemovedDirsLose` says that there is no
  other way to lose one.
* `wait` takes the first zombie of the table, so a zombie in a high slot may
  stay for ever while children in lower slots keep dying.

## What is not modelled

* Alarms (`sigalarm`, `sigreturn` and the saved trap frame), `sys_sleep`,
  console and UART, block allocation and file contents, and `umalloc.c` are
  planned (below).
* In `Cow`: an address space has one directory page, where `walk` allocates two
  levels, so that `uvmcopy` fails at its first page only; `PT` stands for all
  pages that `allocproc` and `proc_pagetable` allocate, and failing between two
  of them is not told apart from failing at the first; sizes are whole pages,
  and `sbrk` leaves at least one.
* In `Fs`: `unlink` erases the entry and takes the link away in one step,
  where the code unlocks and puts the parent in between; the entry `.`, and a
  parent of the empty path, are left out. `NoPanic` is checked for paths
  without `..`; `fs_dotdot` shows that it fails with them.
* In `Sched`: overflow of the sum of the tickets.
* In `Mlfq`, the time slice in `kerneltrap`, interrupts inside a pass of the scheduler and several CPUs.
* Spin locks, interrupt masking and memory order are taken as given.
* `waitx` differs from `wait` only in the times it reports. `strace`, system
  call dispatch, `printf`, `string.c` and the PLIC change no state that a
  property here is about.
* Boot code, assembly and `mkfs` give the initial states. `ramdisk.c` is not
  built. User programs are the nondeterministic callers.

## Plan

1. Done: the modules above, in the order `Kalloc`, `Cow` with proofs, `Proc`,
   `Log`, `Pipe`, `Disk`, `Fs`, `Sched`, `Mlfq`.
2. Proofs: `CommitIsExclusive` and the step from `Log` to `AtomicDisk`;
   `OneCopyPerBlock` and `DescriptorsConserved` of `Disk`; `OpenEndsAreOpen`
   of `Pipe`; `StackInUse` and `NoLostWakeup` of `Proc`; `NoLockCycle` of
   `Sched`; `OnlyUvmcopyLeaks` as an action property from the types.
3. Models: alarms with the page of the saved trap frame, to be composed with
   `Kalloc`; console and UART rings; block allocation with `itrunc` and
   `writei`; the user allocator as a pure algorithm against a reference.
4. `Mlfq` with the clock interrupt in every window, and on several CPUs.
