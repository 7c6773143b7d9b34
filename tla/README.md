# OS_bmstu in TLA+

The repository holds the operating-system labs of two semesters: some thirty
small C programs and kernel modules. What they have in common is that their
logic is in how they meet other processes, interrupts, signals and the kernel.
This directory specifies the programs where that logic is, model-checks them
with TLC on small instances and proves the main invariants with TLAPS for every
instance.

Contents: [parts of the system](#parts-of-the-system) ·
[hard behaviours](#what-is-hard-in-this-code) · [modules](#modules) ·
[runs](#runs-and-bounds) · [fairness](#fairness) · [proofs](#proofs) ·
[findings](#findings) · [plan](#plan) · [limits](#what-is-not-modelled)

## Parts of the system

The programs do not call each other; each part below is a system of its own.
Within a part the actors are named with what they share.

| part | state it keeps | operations | how its actors interact | what makes it correct |
|---|---|---|---|---|
| **Producers/consumers** `sem_5/lab3_1` | semaphores FULL, EMPT, BIN; a shared segment: next letter, two indices, the ring | semop before and after each access, store/fetch, index wrap; main: create, fork, wait, remove | 3+3 forked children and their parent, over System V IPC | FIFO queue: each letter printed once, in order; one child inside at a time; a death loses neither the lock nor a place |
| **Readers/writers** `sem_5/lab3_2` | six semaphores: active and waiting of each kind, one token of each kind; one shared letter | start/stop of reading and writing; main as above | 5 readers, 2 writers, parent | writers alone; counters exact; nobody sleeps for ever |
| **Select server** `sem_6/lab6_2` | array of client descriptors, the fd_set, the timeval | accept, recvfrom, disconnect, time out, SIGINT; clients connect, send ten times, close | one server process, any number of clients, over TCP | slots = open descriptors; never blocked by one client; no byte lost; times out only when alone |
| **Daemon** `sem_6/lab1` | signal dispositions and mask, lock and contents of `/var/run/daemon.pid` | daemonise, lock, write id, signal thread | any number of starts, over the lock file; anyone sends signals | at most one daemon; the file names it; SIGTERM ends it and no other signal does |
| **Fortune module** `sem_6/lab4_2` | pot of one page, `cookie_index`, `next_fortune` | load, unload, write, read of `/proc/my_fortune` | processes that call write and read without a lock | no access outside the pot; a read finds the end of a cookie |
| **seq_file fortune** `sem_6/lab4_seq_file` | the same pot with two indices | load, unload, write, open, `my_show` | writers and readers of one /proc file, and seq_file, which may call `my_show` twice for one read | each message shown, in order |
| **Bottom halves** `sem_6/lab9_1`, `lab9_2` | counter; tasklet, or work queue and work item | load, unload, interrupt, deferred function | init/exit, interrupt handler, softirq or kernel worker | every interrupt is served; nothing runs after unload |
| **VFS module** `sem_6/lab8` | slab cache, 31 objects, position | load with roll-back, mount, umount, unload | mount(2) against rmmod | roll-back and unload free exactly what was allocated; each inode has an object of its own |
| **Buffered streams** `sem_6/lab5` | FILE buffers, file offsets, `out.txt` | fopen/fdopen/open, fscanf/read, fprintf, fclose, two threads | two threads, or one, over one file through two FILEs or descriptors | no letter lost or printed by the wrong side; which letters `out.txt` holds |
| **Processes and pipes** `sem_5/lab2` | a pipe, a signal flag, the parent's id | fork, exec, wait, getppid, write, read, SIGINT | a parent and two children, and Ctrl-C | both messages arrive once; parent and children end; a Ctrl-C is reported |
| Datagram server `sem_6/lab6_1` | one socket, its file | receive, SIGINT | server, its signal handler, clients | file removed at the end |
| Directory walk `sem_6/lab2` | working directory, recursion | dopath | one process | every file once; working directory restored |
| Rest: `sem_5/lab1`, `sem_6/lab3_1`, `lab3_2`, `lab4_1`, reports | none worth a model | print | | |

The parts in bold are modelled. `PROJECT.json` lists all with their status.

## What is hard in this code

`PROJECT.json` has the list, each hazard at its line. In short:

* *Deaths between two calls.* All IPC state of lab3_1 and lab3_2 outlives a
  child; only `SEM_UNDO` takes back what a dead child did, and `SETVAL`
  forgets undo adjustments. A test would have to kill a child at each of some
  twenty points.
* *Check, then act, in separate calls.* `stop_read` decrements, reads and then
  sets a token; `start_write` counts itself and then clears a token; the daemon
  opens, locks, truncates and writes.
* *Limits.* Undo adjustments that grow with every letter, a server with five
  slots, a pot of one page, a buffer that recvfrom may fill.
* *Stale values.* The fd_set of a select against slots changed since, reuse of
  descriptor numbers, a timeval that select may change.
* *Waits that nobody ends.* A parent that reads from a pipe whose writing end it
  keeps open itself; a child that polls for a change that has happened before
  it first looked.
* *Two buffers over one file.* Who reads which block, and whose letters are in
  the file after both have been closed.
* *Order of set-up and take-down* against interrupts, signals and file
  operations that may come at any time.

## Modules

| module | models | proofs |
|---|---|---|
| `SemSet` | semop, SETVAL, exit undo of one System V semaphore set (external: the kernel) | |
| `BoundedBuffer` | abstract: letters in alphabetical order through a bounded queue | |
| `ProdCons` | `sem_5/lab3_1/main.c` | `ProdCons_proofs` |
| `ReadersWriters`, `MCReadersWriters` | `sem_5/lab3_2/main.c` | `ReadersWriters_proofs` |
| `SelectServer` | `sem_6/lab6_2/server.c`, `client.c`, sockets and clock | `SelectServer_proofs` |
| `Daemon` | `sem_6/lab1/main.c`, kernel's locks and signals | `Daemon_proofs` |
| `FortunePot` | `sem_6/lab4_2/main.c` and `sem_6/lab4_seq_file/main.c` | `FortunePot_proofs` |
| `BottomHalf` | `sem_6/lab9_1/md.c` and `sem_6/lab9_2/md.c` | `KernelModules_proofs` |
| `MCKernelModules` | one run for `BottomHalf` and `VfsModule`, of which a behaviour loads one | |
| `VfsModule` | `sem_6/lab8/vfs_md.c`, and the kernel's reference to the module | `KernelModules_proofs` |
| `Processes` | `sem_5/lab2`: `prog1.c`, `wait.c`, `prog3.c`, `prog4.c`, `prog5.c` | `Processes_proofs` |
| `Streams` | `sem_6/lab5`: `main1.c` to `main3.c`, `th1.c` to `th3.c` | `Streams_proofs` |

Each module has one action per kernel call or access to shared memory, named
after the function or the call, and properties at its end. Operators that are
named after another one with a suffix (`ConsPost_keeps_bin`) and that `Next`
does not use are faults: substituting one for the original makes one of the
properties fail, and `PROJECT.json` says which.

### SemSet, ProdCons, ReadersWriters

A `sembuf` array is a record of the semaphores it tests for zero, decrements
and increments; `Semop` applies it atomically, all or nothing, and keeps the
process's undo adjustment. A `semop` that has to sleep is an action that is not
enabled. In the kernel a sleeping semop is completed at the moment another call
makes that possible; in the model other steps may come first, so the model has
every behaviour of the program and some more. The same holds for wake-up order.

`pc[p]` names the call a child makes next: `ppre`, `store`, `incW`, `wrapW`,
`incL`, `wrapL`, `ppost` are the seven steps of `prod_func`'s loop
(lines 19-36), `cpre` to `cpost` those of `cons_func`. `++buf[2]` and the
assignment that wraps it are two steps because a child may be killed between
them. `Kill` is any signal that ends a child; `SemopFails` is the `exit(1)`
after ERANGE, which a child does reach in the end since adjustments only grow.
`main` is the position of the parent; every early return leaves the IPC objects
behind (`Fails`), and children continue without a parent.

`ReadersWriters` has the same parent; labels `rdir` ... `rsetw` and `wdir` ...
`wstop` are the calls of `start_read`, `stop_read`, `start_write`,
`stop_write`. The letter is the identity of its writer. The `exit(1)` after
ERANGE is left out because `NeverOutOfRange`, a part of `SemaphoresExact`, shows
that its condition is never met; EIDRM cannot occur while children live (the
parent removes the set after the last one).

`ImplementsBuffer` is the refinement of `BoundedBuffer`: the queue is the part
of the ring from `QueueHead`, whose length is FULL plus what is on its way in or
out of a critical section. It is claimed until the first child ends, because a
child killed between its store and its `++` does break the order of letters.

### SelectServer

The server's position is `select`, `accept` or `recv` (one slot `i` at a time);
`client_sock` holds descriptors, numbered like the kernel's by the lowest free
number, so that numbers are reused. `sock_set` is what the last select
reported. Clients connect (or are refused), send with two seconds between
sends, and may be ended at any time. Time is a tick of one second: no client
oversleeps, and the server may work through at most `MaxLag` seconds without a
pause, which the constant only bounds for TLC: the theorems hold for any.
When recvfrom fills the buffer, the terminator goes to the byte behind it. With
the Makefile's `gcc` that is the lowest byte of the timeval, which the next turn
sets up again, so `Recv` goes on as usual; whether the terminator belongs there
is what `TerminatorInside` asks. `AcceptOverfull` is the store through the NULL of `empty_socket`.
SIGINT may come between any two calls. A send to a server that has gone fails;
one that still succeeds locally reaches nobody and is not counted.

### Daemon

`pc[p]` is the next call of the p-th start of the program. `lock` is the
kernel's write lock, dropped when its holder ends; `file` is whose id the lock
file holds. Signals are HUP, TERM and one that stands for all others (USR1);
`pending` is a set, as it is in the kernel, so any number of signals is
covered. `sigwait` takes the lowest number. The file is absent or empty at the
start; a stale id from before is the case of a dead `p` in later behaviour. A
failed `fork` is only reported by the code, which then goes on as the parent
process (`Fork` covers both outcomes); the controlling terminal, which such a
process keeps, is not modelled.

### FortunePot

`version` says which of the two modules is loaded; they share the pot, the
copying of a write and the loading. Only which places of the pot hold a non-NUL
byte is kept, since strcat, strlen and the modules look for nothing else. A
write is the seven steps of `fortune_write` or the three of `my_write`, a read
those of `fortune_read` or of `my_show` (`Show`, `Strlen`, `Advance`),
interleaved freely with each other and with loading. One process writes and
several read; block copies, strcat, strlen and the printing of a string are
single steps. The unsigned comparison of `free_space` is modelled with its width
(`ULong`). The pages around a vmalloc area are not mapped, so an access outside
kills the call (`oops`).

`seq_read` prints into a buffer; a message longer than `Room` does not fit in
the first one, its output is dropped and `my_show` is called again, after
`read_index` has moved on (`again`). `MessagesShown` therefore claims only
messages that fit. `mixed` is set when two readers are in a call at once, when
`my_show` takes a message that `my_write` has not finished (`Unfinished`), or
when `my_write` finishes one between the `seq_printf` and the `strlen` of a
`my_show` that has printed nothing (`Overtaken`): it is then stepped over without
having been shown. Nothing in the modules forbids any of these, and afterwards
nothing is claimed. `shown` has the places at which the shown messages begin. A
message of length 0 leaves `read_index` where it is and counts in
`fortune_read`.

### BottomHalf

One module for both labs: `kind` says which is loaded. `md` is the next call of
`md_init` or `md_exit`. Names that `VfsModule` has too begin with `irq` here,
since one module holds the proofs about both. `scheduled` is the
SCHED or PENDING bit. An interrupt between `request_irq` and the making of the
tasklet or work schedules something that does not exist yet: the bit is set
(`tasklet_init` and `INIT_WORK` clear it again) and `broken` records it. What
comes of it the code does not say, so each of the three properties excepts
behaviours in which it has happened; `IrqTypeOK` keeps only the types then.

### VfsModule

`module` is the next call of `md_init` or `md_exit`, `mnt[s]` that of one call
of mount. `md_exit` and the roll-backs of `md_init` free the same things in the
same order and share their actions; the roll-back after a failed allocation
frees the objects below `i`. What protects a mount from `md_exit` is not in the
order of the code but in `.owner`: the kernel counts a reference from before
`myfs_mount` until the unmount (`Referenced`), and refuses `rmmod` meanwhile.
`get_slab_mem` tests `cache_pos` and advances it without a lock, so the test
(`TestPos`) and the use (`TakeObject`) are two steps, and the use may take the
value tested or the current one. `raced` records that two calls were in there
at once. A call that dereferences a NULL inode, or puts the inode twice, is
`dead`; its reference keeps the module loaded.

### Processes

`prog` is the program that was started and `pc[p]` the next call of each of its
three processes; the five programs share fork and wait. A signal that has been
sent is taken before the next call. `signal` installs a handler with SA_RESTART,
so a caught SIGINT ends a `sleep` and no other call; in the programs without a
handler it kills. The parent of `prog4` and `prog5` never closes the writing end
before it reads, so a `read` from the empty pipe waits (`Read` is not enabled)
instead of returning 0, and that is the exception in `ParentEnds`. The exception
in `ChildrenEnd` is a child of `prog1` whose parent was gone when it first asked
for its id. `demo1` and `demo2`, which are executed by `prog3`, print and end.

### Streams

Side 1 is the first FILE or descriptor and the main thread, side 2 the second
and `thread_f`; `turn` makes the programs with one thread alternate. `Fill` is
what fscanf does with an empty buffer, by way of the offset that two FILEs on
one descriptor share (`Fd`); a FILE that writes keeps its letters until `fclose`
(`Flushed`), or until `exit` when `main` returns early in `th3`.

## Runs and bounds

| run | instance | distinct states | shows |
|---|---|---|---|
| `ProdCons` | 2+2 children, ring 2, 3 letters, SEMVMX 3, SEMAEM 2, 1 death | 90k | exclusion, nothing lost by a death, FIFO refinement; letters are printed, objects removed |
| `RW_safety` | 2 writers, 3 readers, up to 5 deaths, symmetry | 299k | exact semaphores, writers alone, reader starts |
| `RW_overlap`, `RW_stall` | 2 writers, 3 readers, no deaths | violations | see findings |
| `SelectServer` | 3 clients, 2 slots, 2 messages of 2 bytes, buffer 3, sleep 2, timeout 3, lag 2 | 628k | slots, blocking, loss, timeout, end, when the buffer is full |
| `SelectServer_overrun` | the same with 2 clients | violation | see findings |
| `Daemon` | 3 starts | 18k | one daemon, its file, termination |
| `FortunePot` | both versions, pot 18, 3 writes of 0, 1 or 5 bytes, 2 readers, first buffer 3 | 5.4M | cookies end, reads stay inside, messages are shown |
| `FortunePot_overflow` | pot 24, writes of 3 and 20 bytes, 2 writes, 1 reader | violation | see findings |
| `KernelModules` | `BottomHalf`: both kinds, 3 interrupts per load; `VfsModule`: 3 calls of mount, 4 objects | 652k | service and unload; roll-back, unload, objects of inodes |
| `Processes` | five programs, 2 Ctrl-C, 2 other kills | 8.9k | messages, ends of parent and children, report of a Ctrl-C |
| `Streams` | six programs, 6 letters, buffer 4 | 18k | letters printed, contents of `out.txt` |

Why the bounds are enough for what they are used for:

* Ring 2 with letters 3 wrap at different periods, so every pair of index and
  letter occurs; two children of each kind are what exclusion and overtaking
  need. `SEMAEM = 2` lets a child make two letters before its adjustments are at
  their limit (in the program: 32767), four letters in all: the ring wraps twice
  and the alphabet once. One death may come at any call of any child; more of
  them are covered by the proofs, which have none of these bounds.
* Two writers and three readers are the least for a writer and a reader that
  wait while one of each kind is active and another reader arrives; all five may
  be killed, after which the parent removes the objects.
* Three clients on two slots overfill the server and reuse descriptors; a
  buffer of 3 for messages of 2 is filled by two messages that come together
  (in the program: 64 bytes and the user's text). The relation that matters,
  timeout > sleep, is that of the program (10 > 2) and an assumption of the
  module (`PeriodAssumption`). A lag of 2 is a whole period of the clients, the
  least with which two messages can come together.
* Three starts allow one that runs, one that loses and one that takes over
  while the loser is still there.
* A pot of 18 holds one cookie of 5 bytes with its `add_str`, or two empty ones,
  and not three of any: runs pass the point where the room for `add_str` ends.
  Messages of 1 byte fit in seq_file's first buffer and those of 5 do not.
* Four objects and three mounts at a time, each of which may be repeated, use up
  the objects while others hold some, and load and unload follow each other
  without a bound. Allocation may fail at each of the four.
* `sem_5/lab2` is not parameterised: two children are all there are, and two
  kills with two Ctrl-C suffice for the parent and a child to die by different
  signals at different times.
* Six letters and buffers of 4 have the relations of the program (26 and 20): the
  first buffer takes most of the file, the second is filled in part, and the
  number of letters is even.

Symmetry (`Children`: permutations of each kind of child) is used only in
`RW_safety`, which has no liveness property: no action tells two children of a
kind apart. `CHECK_DEADLOCK FALSE` is given where the system
really stops: when main is done, failed or waits for children that are gone or
asleep, when the server, all clients and all starts have ended, when the programs
of `Processes` and `Streams` have, when a module is loaded and nothing comes any
more, and when every call of mount is dead.

## Fairness

* `ProdCons`: weak fairness of each child and of the parent: the operating
  system schedules every process. It is per process, not per action, and weak:
  a child that finds the semaphore taken again and again may starve, so
  `EveryLetterPrinted` says that *some* consumer prints it. Deaths and failing
  calls are never forced.
* `SelectServer`: the server's process runs, and time goes on. No client is
  ever forced to do anything; `EventuallyEnds` starts from clients that are done.
* `Daemon`: a process that can run, runs. Signals and starts are not forced.
  `TermEnds` excepts an endless stream of signals with lower numbers than
  SIGTERM, which `sigwait` takes first.
* `BottomHalf` (and its half of `KernelModules`): handlers, deferred functions and `md_exit` run to their end,
  which the kernel guarantees.
* `Processes`: each process runs and takes the signals sent to it. Nobody has to
  press Ctrl-C or to kill a process.
* `ReadersWriters`, `FortunePot`, `VfsModule` and `Streams` have safety properties
  only and no fairness.
  `NotAllAsleep` shows why readers and writers have no liveness to claim.

## Proofs

All proofs are checked to the last leaf by `tlapm`, and hold for all values of
the constants that satisfy the named assumptions, which TLC evaluates in every
run: `SizesAssumption` of each module (sizes are positive, limits not below
them), `ProcAssumption` (finite, disjoint sets of children), `LimitsAssumption`
(the kernel's limits are at least the number of children), `NamesAssumption` and
`ClientsAssumption` (a process or client is not one of the strings used as
markers), `PeriodAssumption` (select waits longer than a client sleeps). That of
`Streams` says that the alphabet has an even number of letters and that a buffer
takes less than all and at least half of them, as 20 does of 26. Each
module below defines an inductive invariant `IInv` as a conjunction of named
parts, with one lemma per action or part, and derives its theorems from it.

| module | theorems (property) | stays with TLC |
|---|---|---|
| `ProdCons_proofs` | `Exclusion` (`MutualExclusion`), `DeathsHarmless` (`DeathsTakeNothing`) with its parts `LockComesBack`, `PlacesComeBack` and `NoStandstill`, `AccessesInRing` (`InsideRing`), `RemovalIsSafe` (`RemovedWhenQuiet`), `TypeCorrect`, `Refinement` (`ImplementsBuffer`) | `EveryLetterPrinted`, `EventuallyRemoved` |
| `ReadersWriters_proofs` | `WritersExclusion`, `ExactSemaphores` (`SemaphoresExact`) with its parts, `ReaderStart` (`ReaderStartsWithoutWriter`), `PrintsItsLetter`, `TypeCorrect` | |
| `SelectServer_proofs` | `SlotsOpen` (`SlotsAreOpen`), `ServerNeverBlocks` (`NeverBlocks`), `NoByteLost` (`NothingLost`), `TimeoutAlone` (`TimeoutOnlyWhenAlone`), `FullWhenLate` (`FullOnlyWhenLate`), `TypeCorrect` | `EventuallyEnds` |
| `Daemon_proofs` | `SingleDaemon` (`OneDaemon`), `FileIsCurrent` (`FileNamesNoOther`), `IdStays` (`IdStaysInFile`), `SignalsHarmless`, `TypeCorrect` | `NeverWaits`, `TermEnds` |
| `KernelModules_proofs`, of `BottomHalf` | `QuietAfterUnload` (`NothingAfterUnload`), `IrqTypeCorrect` (`IrqTypeOK`) | `EveryInterruptServed` |
| `KernelModules_proofs`, of `VfsModule` | `Freed` (`FreedExactly`), `ObjectsOwned` (`OwnObject`), `TypeCorrect` | |
| `FortunePot_proofs` | `EveryCookieEnds` (`CookiesEnd`), `ReadsStayInPot` (`ReadsEndInPot`), `EveryMessageShown` (`MessagesShown`), `TypeCorrect` | |
| `Processes_proofs` | `ParentReadsBoth` (`BothMessages`), `TypeCorrect` | `ParentEnds`, `ChildrenEnd`, `CtrlCReported` |
| `Streams_proofs` | `LettersComplete` (`LettersPrinted`), `LastCloseStays` (`LastCloseWins`), `TypeCorrect` | |

**ProdCons_proofs.** Mutual exclusion alone is not inductive: a death changes
semaphores by the adjustment of the dead child, so `LockInv` says what each
adjustment of BIN is, namely 1 for the child inside and 0 for all others.
`SlotsInv` says the same of FULL and EMPT: a child's adjustments of the two add
up to 1 inside and 0 outside, so its exit gives back the place it holds and
nothing else, and where the kernel clamps a value at 0 the sum only grows; hence
`>=` in `SlotsNeverLost`. Both hold as long as the semaphores are `SetUp`, which
they stay for children that go on when main has ended with an error. From the two
follows `NoStandstill`, the safety half of `EveryLetterPrinted`: if nobody is
inside, BIN is free and FULL and EMPT are not both 0, so that a producer or a
consumer can go on. `IndexInv` bounds the indices by the number of kills:
only a death before the wrap leaves an index too high. `MainInv` ties the parent
to the children it has forked and waited for.

*Refinement.* `RingInv` is what relates the ring to the queue as long
as no child has ended: the letters in the queue, the free places that EMPT
counts and the place a child is working on are QUEUE_SIZE together, the queue
ends where the next letter will be stored, and an index is at its end only just
before it is wrapped. Since at most one child is inside, what the mapping says
of all children depends on the label of this one (`AtOne`). A store is then
`Put` (`StoreStep`: the new letter is behind the last one and overwrites none),
a fetch is `Get` (`FetchStep`: what is printed is the head), and every other
step of the children and of main leaves the mapped queue as it is.

**ReadersWriters_proofs.** `CountInv` says that a counter is the number of
children at the labels it counts and that each child's adjustment is exactly
its own part; `TokenInv` that a token is in its semaphore or in one child's
adjustment, never both. A lemma for arrays that change what the move of the
process changes (`CallStep`) serves every semop. `LetterInv` has the exclusion
of writers and the letter they print. Cardinalities come from
`FiniteSetTheorems`.

**SelectServer_proofs.** `ReadyInv` is the reason why blocking sockets do no
harm: what select found readable stays so until the loop has come to its slot,
and a descriptor that accept hands out in between is not among what select
found, since that was all open then and nothing has been closed yet. It needs
`ConnInv` (a client has one connection, so reading from one slot takes nothing
from another) and `SlotsAreOpen`. That a free descriptor is there is the
pigeonhole principle. `CountInv` (sent is printed or unread) gives
`NothingLost`. `TimeInv` is a clock invariant: while select has nothing to
report, at least TIMEOUT - SLEEP more seconds are left than any client still
sleeps, so a client's next message comes before the timeout.
`FullWhenLate` says when the buffer can be full, without a hypothesis about load
or messages. `PeriodInv` is its clock invariant: for a client with something
unread, the seconds it still sleeps and those the server has worked without a
pause are a whole period together, and for one with more than a message unread
the server's alone are. The server's count starts again only when select finds
nothing; then nothing is unread, because who has something unread is connected
(`UnreadInv`).

**Daemon_proofs.** `IInv` adds to the invariants only `MaskInv`: signals are
masked exactly at the calls after `pthread_sigmask`.

**KernelModules_proofs**, of `BottomHalf`, whose invariant is `IrqInv`.
`HandlerInv` says that the handler is busy only while it is installed,
`FlushedInv` that after the flush nothing is scheduled any more because no handler
is left to do so: it is the order of `free_irq`, flush and destruction that
matters. `IrqTypeOK` adds that what is scheduled has been made, except after an
interrupt that came too early (`broken`).

Of `VfsModule`. `AllocInv` says for each call of `md_init` and `md_exit`
which objects are allocated, the roll-back in the middle of the loop included;
`RefInv` that a mount exists only while the module is in. `SlabInv` says that,
unless two calls overlapped, the position tested is the position taken and all
objects given are before it, from which `ShareInv` (no object twice) follows.

**FortunePot_proofs.** `EndInv` says that the end of the last cookie is there
until the next write is complete, failed writes included. `LastInv` says that
the pot's last place holds NUL unless `cookie_index` has come there: neither a
failed block nor `strcat` ever fills it. With `ReadInv` (a reader that is alone
starts before `cookie_index`, which only grows) there is always a NUL for
`strlen` to find. Its first NUL exists because the natural numbers are
well-founded (`NulFinds`). `BoundInv` is what bounds `cookie_index`: an accepted
block ends in the pot or its copying kills the call, and `add_str` is 7 bytes.

`EveryMessageShown` rests on `SeqInv`, about `my_write` and `my_show` until they
get into each other's way: the places before `Finished` do not change any more
(`WriterInv`), `read_index` is at the beginning of a message there or right behind
the last one, each message before it was shown or is longer than seq_file's first
buffer, and so is the one a reader is about to step over (`ShowInv`). `ShowKept`
says what a step of the writer must leave alone for that, namely the finished
places; a step of a reader only moves on by a whole message (`SeqRead`). The proof
led to `Overtaken` above: without it the step
`Terminate` does not preserve the invariant, and a message of the program can get
lost that way.

**Processes_proofs.** `ParentInv` says that the parent forks, waits and reads in
this order and reads only when it has waited for both children. `MessageInv` says
that no child's message is twice in what the parent has read and what is in the
pipe, which are one sequence for it; there are therefore at most two. `ReadInv`
counts the reads. With `SentInv` (a child comes behind its write only with its
message sent, and no step loses one) an empty pipe in front of a reading parent
means that a child was killed before it wrote: the safety half of `ParentEnds`.

**Streams_proofs.** The properties are about the sequence printed, and nothing
in the proof counts or filters it: `Printed(t)` is the set of the letters that
side t has printed, and `Got(t)` adds those in its buffer, which no step but
`Fill` changes. `SharedInv` says that on one descriptor the two `Got` are disjoint
and together all that has been read, `TwiceInv` that with two descriptors each is
all that was read through its own; `BuffInv` that each side prints in order and
that what is in a buffer comes behind all that its side has printed, and that a
side ends with nothing left. `LenInv` says how many letters there are, which
bounds the output and gives the place of the next letter. `WriteInv` says that
the k-th letter of a FILE that writes is `2k - 2 + t` and that it has half of the
alphabet when it is closed; `Flushed` therefore replaces all that was in the file,
and `FileInv` follows.

The order of the programs with one thread needs more (`OrderInv`): where both
sides are relative to each other. `Alternate` says it for `main1`: when it is the
turn of side 1, both have printed equally many letters, and when it is that of
side 2, side 1 is one ahead, until one of them is done: side 2 with the rest of the
file, or side 1 first if that rest is as long as the buffer. `Both` says it for
`main2`. What a step does to them is arithmetic over the two lengths, stated in
lemmas of its own (`AlternateSteps`, `Alternate1`, ...).

**Model-checked only.** The liveness properties, `NeverWaits` included: fairness and
ENABLED are out of the prover's reach. All invariants of the runs, and all
properties of steps, are proved. The four runs that end in a violation show what
does not hold. No module uses RECURSIVE.

## Findings

Four runs show that the code does not do what the repository says of it:

1. `RW_overlap`: a writer woken by its token starts beside active readers,
   because `awake_sem` in `start_write` (`sem_5/lab3_2/main.c:84`) does not test
   ACT_R; the report's listing does.
2. `RW_stall`: the `SETVAL 0` of a process that begins to wait
   (`sem_5/lab3_2/main.c:97`) wipes out a token that was handed out in between,
   and everyone sleeps; with the report's listing that cannot happen. Until a
   second writer has come to wait too, it may still start directly and hand out
   a token.
3. `SelectServer_overrun`: the server's buffer has `BUF_SIZE` bytes, recvfrom may
   fill it, and the terminator then goes behind it (`sem_6/lab6_2/server.c:128`);
   two messages of a client come together when the server is late by a client's
   sleep, and no earlier (`FullOnlyWhenLate`).
4. `FortunePot_overflow`: the check behind "cookie_pot is overflowed"
   (`sem_6/lab4_2/main.c:33-35`) leaves out `add_str` and compares a negative int
   as unsigned.

## Plan

The programs whose behaviour depends most on interleavings and deaths came
first, then the proofs about them, then the smaller programs. What is left:

1. `DgramServer` (`sem_6/lab6_1`): the handler of SIGINT against main, over one
   descriptor that both close.
2. A second writer in `FortunePot`. Two writes at once interleave at every one
   of their steps; most of what could be said then is that nothing holds.
3. `DirWalk` (`sem_6/lab2`): one process, a recursion over a tree.

There is one run per question; a new part adds one, and shallower properties
give way to deeper ones.

## What is not modelled

Printing, random sleeps, messages and their wording; the contents of messages
and cookies; permission and argument errors of calls that cannot fail for the
arguments given. The parts without a module are listed above with the plan;
`sem_5/lab1`, `sem_6/lab3_1`, `lab3_2` and `lab4_1` only print or copy and keep
no state a model could say anything about.
