------------------------------- MODULE ProdCons -------------------------------
(***************************************************************************)
(* sem_5/lab3_1: producers and consumers, forked by one parent, pass       *)
(* letters through a ring in shared memory under three System V            *)
(* semaphores.  A step is one call of the kernel or one access to the      *)
(* shared memory, so that a process may be killed between any two of them. *)
(*                                                                         *)
(* The shared bytes are buf[0] (letter), buf[1] (ridx), buf[2] (widx) and  *)
(* the ring buf[3 ..] (slot); indices keep the program's offset of 3, the  *)
(* letters 'A' .. 'Z' are 1 .. Letters and 0 is the byte of a new segment. *)
(*                                                                         *)
(* An operator that is named after another one, with a suffix, and that    *)
(* Next does not use is a fault the properties are known to catch.         *)
(***************************************************************************)
EXTENDS Integers, Sequences, FiniteSets

CONSTANTS
  Producers, Consumers,  (* the children main forks                        *)
  QUEUE_SIZE,            (* 5 in main_header.h                             *)
  Letters,               (* 26: 'Z' is the letter Letters                  *)
  SEMVMX, SEMAEM,        (* the kernel's limits, see SemSet                *)
  MaxKills               (* bound: how many children are killed            *)

ASSUME SizesAssumption ==
  /\ QUEUE_SIZE \in Nat \ {0}
  /\ Letters \in Nat \ {0}
  /\ SEMVMX \in Nat /\ SEMVMX >= QUEUE_SIZE
  /\ SEMAEM \in Nat \ {0}
  /\ MaxKills \in Nat

ASSUME ProcAssumption ==
  /\ Producers \cap Consumers = {}
  /\ IsFiniteSet(Producers)
  /\ IsFiniteSet(Consumers)

VARIABLES
  semval, semadj,      (* the semaphore set                                *)
  letter, ridx, widx,  (* buf[0], buf[1], buf[2]                           *)
  slot,                (* the ring                                         *)
  printed,             (* the letter a consumer printed last               *)
  pc,                  (* where each child is                              *)
  main,                (* where the parent is                              *)
  ipc,                 (* the IPC objects that exist                       *)
  reaped,              (* children the parent has waited for               *)
  kills

semVars == <<semval, semadj>>
bufVars == <<letter, ridx, widx, slot>>
mainVars == <<main, ipc, reaped>>
vars == <<semVars, bufVars, printed, pc, mainVars, kills>>

Proc == Producers \cup Consumers
Sem == {"FULL", "EMPT", "BIN"}

INSTANCE SemSet

-----------------------------------------------------------------------------
(* The sembuf arrays.                                                      *)

prod_pre == [zero |-> {}, dec |-> {"EMPT", "BIN"}, inc |-> {}]
prod_post == [zero |-> {}, dec |-> {}, inc |-> {"FULL", "BIN"}]

cons_pre_unlocked == [zero |-> {}, dec |-> {"FULL"}, inc |-> {}]
cons_pre_uncounted == [zero |-> {}, dec |-> {"BIN"}, inc |-> {}]
cons_pre == [zero |-> {}, dec |-> {"FULL", "BIN"}, inc |-> {}]
cons_post_no_empt == [zero |-> {}, dec |-> {}, inc |-> {"BIN"}]
cons_post == [zero |-> {}, dec |-> {}, inc |-> {"EMPT", "BIN"}]

(* Where a child is inside its critical section, between the two semops.   *)
ProdCrit == {"store", "incW", "wrapW", "incL", "wrapL", "ppost"}
ConsCrit == {"fetch", "incR", "wrapR", "cpost"}
InCrit(p) == pc[p] \in ProdCrit \cup ConsCrit
Running(p) == pc[p] \notin {"unborn", "gone"}

gone == {p \in Proc : pc[p] = "gone"}

(* The ring is the bytes Base .. BSize - 1.  Cell adds the bytes behind it *)
(* that an index left behind by killed children can reach.                 *)
Base == 3
BSize == Base + QUEUE_SIZE
Cell == Base .. BSize - 1 + MaxKills
LettersEnd == Letters + 1

Goto(p, from, to) ==
  /\ pc[p] = from
  /\ pc' = [pc EXCEPT ![p] = to]

Init ==
  /\ semval = [s \in Sem |-> 0]
  /\ semadj = NoUndo
  /\ letter = 0 /\ ridx = 0 /\ widx = 0
  /\ slot = [i \in Cell |-> 0]
  /\ printed = Letters
  /\ pc = [p \in Proc |-> "unborn"]
  /\ main = "semget"
  /\ ipc = {}
  /\ reaped = {}
  /\ kills = 0

-----------------------------------------------------------------------------
(* prod_func: the sleep only delays ppre.                                  *)

ProdPre(p) ==
  /\ Goto(p, "ppre", "store")
  /\ Semop(p, prod_pre)
  /\ UNCHANGED <<bufVars, printed, mainVars, kills>>

ProdStore(p) ==
  /\ Goto(p, "store", "incW")
  /\ slot' = [slot EXCEPT ![widx] = letter]
  /\ UNCHANGED <<semVars, letter, ridx, widx, printed, mainVars, kills>>

ProdIncW_past_end(p) ==
  /\ Goto(p, "incW", IF widx + 1 > BSize THEN "wrapW" ELSE "incL")
  /\ widx' = widx + 1
  /\ UNCHANGED <<semVars, letter, ridx, slot, printed, mainVars, kills>>

ProdIncW(p) ==
  /\ Goto(p, "incW", IF widx + 1 >= BSize THEN "wrapW" ELSE "incL")
  /\ widx' = widx + 1
  /\ UNCHANGED <<semVars, letter, ridx, slot, printed, mainVars, kills>>

ProdWrapW(p) ==
  /\ Goto(p, "wrapW", "incL")
  /\ widx' = Base
  /\ UNCHANGED <<semVars, letter, ridx, slot, printed, mainVars, kills>>

ProdIncL(p) ==
  /\ Goto(p, "incL", IF letter + 1 > Letters THEN "wrapL" ELSE "ppost")
  /\ letter' = letter + 1
  /\ UNCHANGED <<semVars, ridx, widx, slot, printed, mainVars, kills>>

ProdWrapL(p) ==
  /\ Goto(p, "wrapL", "ppost")
  /\ letter' = 1
  /\ UNCHANGED <<semVars, ridx, widx, slot, printed, mainVars, kills>>

ProdPost(p) ==
  /\ Goto(p, "ppost", "ppre")
  /\ Semop(p, prod_post)
  /\ UNCHANGED <<bufVars, printed, mainVars, kills>>

-----------------------------------------------------------------------------
(* cons_func                                                               *)

ConsPre(p) ==
  /\ Goto(p, "cpre", "fetch")
  /\ Semop(p, cons_pre)
  /\ UNCHANGED <<bufVars, printed, mainVars, kills>>

ConsFetch(p) ==
  /\ Goto(p, "fetch", "incR")
  /\ printed' = slot[ridx]
  /\ UNCHANGED <<semVars, bufVars, mainVars, kills>>

ConsIncR(p) ==
  /\ Goto(p, "incR", IF ridx + 1 >= BSize THEN "wrapR" ELSE "cpost")
  /\ ridx' = ridx + 1
  /\ UNCHANGED <<semVars, letter, widx, slot, printed, mainVars, kills>>

ConsWrapR(p) ==
  /\ Goto(p, "wrapR", "cpost")
  /\ ridx' = Base
  /\ UNCHANGED <<semVars, letter, widx, slot, printed, mainVars, kills>>

ConsPost_keeps_bin(p) ==
  /\ Goto(p, "cpost", "cpre")
  /\ Semop(p, [zero |-> {}, dec |-> {}, inc |-> {"EMPT"}])
  /\ UNCHANGED <<bufVars, printed, mainVars, kills>>

ConsPost(p) ==
  /\ Goto(p, "cpost", "cpre")
  /\ Semop(p, cons_post)
  /\ UNCHANGED <<bufVars, printed, mainVars, kills>>

-----------------------------------------------------------------------------
(* A child ends when a semop fails, which is exit(1), or when it is        *)
(* killed; either way the kernel applies its undo adjustments.             *)

SemopOf(p) ==
  CASE pc[p] = "ppre"  -> prod_pre
    [] pc[p] = "ppost" -> prod_post
    [] pc[p] = "cpre"  -> cons_pre
    [] pc[p] = "cpost" -> cons_post

SemopFails(p) ==
  /\ pc[p] \in {"ppre", "ppost", "cpre", "cpost"}
  /\ OutOfRange(p, SemopOf(p))
  /\ pc' = [pc EXCEPT ![p] = "gone"]
  /\ ExitUndo(p)
  /\ UNCHANGED <<bufVars, printed, mainVars, kills>>

Kill(p) ==
  /\ Running(p)
  /\ kills < MaxKills
  /\ kills' = kills + 1
  /\ pc' = [pc EXCEPT ![p] = "gone"]
  /\ ExitUndo(p)
  /\ UNCHANGED <<bufVars, printed, mainVars>>

-----------------------------------------------------------------------------
(* main: every early return leaves the IPC objects behind.                 *)

Fails ==
  /\ main \notin {"done", "failed"}
  /\ main' = "failed"
  /\ UNCHANGED <<semVars, bufVars, printed, pc, ipc, reaped, kills>>

SemGet ==
  /\ main = "semget"
  /\ main' = "setval"
  /\ ipc' = ipc \cup {"sem"}
  /\ UNCHANGED <<semVars, bufVars, printed, pc, reaped, kills>>

SetVals ==
  /\ main = "setval"
  /\ main' = "shmget"
  /\ semval' = [semval EXCEPT !["FULL"] = 0,
                              !["EMPT"] = QUEUE_SIZE,
                              !["BIN"] = 1]
  /\ UNCHANGED <<semadj, bufVars, printed, pc, ipc, reaped, kills>>

ShmGet ==
  /\ main = "shmget"
  /\ main' = "shmat"
  /\ ipc' = ipc \cup {"shm"}
  /\ UNCHANGED <<semVars, bufVars, printed, pc, reaped, kills>>

ShmAt ==
  /\ main = "shmat"
  /\ main' = "fork"
  /\ letter' = 1 /\ ridx' = Base /\ widx' = Base
  /\ UNCHANGED <<semVars, slot, printed, pc, ipc, reaped, kills>>

(* Producers and consumers are forked in turns; the last fork ends the     *)
(* loop.                                                                   *)
Unborn(S) == {p \in S : pc[p] = "unborn"}

Turn ==
  IF Cardinality(Unborn(Consumers)) > Cardinality(Unborn(Producers))
  THEN Consumers ELSE Producers

Fork(p) ==
  /\ main = "fork"
  /\ p \in Unborn(Turn)
  /\ pc' = [pc EXCEPT ![p] = IF p \in Producers THEN "ppre" ELSE "cpre"]
  /\ main' = IF Unborn(Proc) = {p} THEN "wait" ELSE "fork"
  /\ UNCHANGED <<semVars, bufVars, printed, ipc, reaped, kills>>

(* One wait(&status) of the loop over all the children.                    *)
Wait_half(p) ==
  /\ main = "wait"
  /\ p \in gone \ reaped
  /\ reaped' = reaped \cup {p}
  /\ main' = IF 2 * Cardinality(reaped') = Cardinality(Proc)
               THEN "rmsem" ELSE "wait"
  /\ UNCHANGED <<semVars, bufVars, printed, pc, ipc, kills>>

Wait(p) ==
  /\ main = "wait"
  /\ p \in gone \ reaped
  /\ reaped' = reaped \cup {p}
  /\ main' = IF reaped' = Proc THEN "rmsem" ELSE "wait"
  /\ UNCHANGED <<semVars, bufVars, printed, pc, ipc, kills>>

RemoveSem ==
  /\ main = "rmsem"
  /\ main' = "rmshm"
  /\ ipc' = ipc \ {"sem"}
  /\ UNCHANGED <<semVars, bufVars, printed, pc, reaped, kills>>

RemoveShm_detaches ==
  /\ main = "rmshm"
  /\ main' = "done"
  /\ UNCHANGED <<semVars, bufVars, printed, pc, ipc, reaped, kills>>

RemoveShm ==
  /\ main = "rmshm"
  /\ main' = "done"
  /\ ipc' = ipc \ {"shm"}
  /\ UNCHANGED <<semVars, bufVars, printed, pc, reaped, kills>>

Parent ==
  \/ SemGet \/ SetVals \/ ShmGet \/ ShmAt
  \/ \E p \in Proc : Fork(p) \/ Wait(p)
  \/ RemoveSem \/ RemoveShm

Producer(p) ==
  \/ ProdPre(p) \/ ProdStore(p) \/ ProdIncW(p) \/ ProdWrapW(p)
  \/ ProdIncL(p) \/ ProdWrapL(p) \/ ProdPost(p)

Consumer(p) ==
  \/ ConsPre(p) \/ ConsFetch(p) \/ ConsIncR(p) \/ ConsWrapR(p)
  \/ ConsPost(p)

Child(p) == Producer(p) \/ Consumer(p) \/ SemopFails(p)

Next ==
  \/ Parent
  \/ Fails
  \/ \E p \in Proc : Child(p) \/ Kill(p)

(* Every process is scheduled again and again; nobody has to be killed and *)
(* no system call of main has to fail.                                     *)
Fairness ==
  /\ WF_vars(Parent)
  /\ \A p \in Proc : WF_vars(Child(p))

Spec == Init /\ [][Next]_vars
FairSpec == Spec /\ Fairness

-----------------------------------------------------------------------------
(* Properties                                                              *)

(* A child that is killed before it wraps an index or the letter leaves it *)
(* one too high, and the next death may add one more.                      *)
TypeOK ==
  /\ semval \in [Sem -> 0 .. SEMVMX]
  /\ semadj \in [Proc -> [Sem -> -SEMAEM - 1 .. SEMAEM]]
  /\ letter \in 0 .. LettersEnd + MaxKills
  /\ ridx \in {0} \cup (Base .. BSize + MaxKills)
  /\ widx \in {0} \cup (Base .. BSize + MaxKills)
  /\ slot \in [Cell -> 0 .. Letters + MaxKills]
  /\ printed \in 0 .. Letters + MaxKills
  /\ pc \in [Proc -> {"unborn", "ppre", "cpre", "gone"}
                       \cup ProdCrit \cup ConsCrit]
  /\ main \in {"semget", "setval", "shmget", "shmat", "fork", "wait",
               "rmsem", "rmshm", "done", "failed"}
  /\ ipc \subseteq {"sem", "shm"}
  /\ reaped \subseteq Proc
  /\ kills \in 0 .. MaxKills

(* At most one child is between its two semops, whoever was killed where.  *)
MutualExclusion ==
  \A p, q \in Proc : InCrit(p) /\ InCrit(q) => p = q

(* Children may run until main has waited for them, and after it has ended *)
(* with an error.                                                          *)
Working == main \in {"fork", "wait"} \/ \E p \in Proc : Running(p)

(* The lock is free whenever no child holds it: a child that dies inside   *)
(* its critical section gives BIN back through SEM_UNDO.                   *)
LockNotLeaked ==
  Working /\ (\A p \in Proc : ~InCrit(p))
    => semval["BIN"] = 1

(* No death, wherever it happens, takes a place of the queue away: what    *)
(* FULL and EMPT count, with the place a child in its critical section     *)
(* holds, is never less than QUEUE_SIZE.                                   *)
SlotsNeverLost ==
  Working =>
    LET held == IF \E p \in Proc : InCrit(p) THEN 1 ELSE 0
    IN  semval["FULL"] + semval["EMPT"] + held >= QUEUE_SIZE

(* Producers and consumers never all sleep, on EMPT, on FULL and on BIN:   *)
(* as long as there is one of each, one of the children can go on.         *)
Asleep(p) ==
  \/ pc[p] = "ppre" /\ Blocks(prod_pre)
  \/ pc[p] = "cpre" /\ Blocks(cons_pre)

NeverAllAsleep ==
  \A p \in Producers, q \in Consumers :
    Running(p) /\ Running(q) => \E r \in Proc : Running(r) /\ ~Asleep(r)

(* A death takes neither the lock nor a place away, so that it leaves      *)
(* nobody behind who waits for the dead.                                   *)
DeathsTakeNothing == LockNotLeaked /\ SlotsNeverLost /\ NeverAllAsleep

(* As long as nobody was killed, the stores and the fetches stay inside    *)
(* the ring, also when children left because a semop failed.               *)
InsideRing ==
  kills = 0 =>
    \A p \in Proc :
      /\ pc[p] = "store" => widx \in Base .. BSize - 1
      /\ pc[p] = "fetch" => ridx \in Base .. BSize - 1

(* The parent removes the semaphores and the shared memory only when the   *)
(* last child is gone.                                                     *)
RemovedWhenQuiet ==
  ipc # {"sem", "shm"} => \A p \in Proc : ~Running(p)

(* The queue of BoundedBuffer: a letter is put when it is stored and taken *)
(* when it is printed.                                                     *)
At(labels) == \E p \in Proc : pc[p] \in labels
WrapIdx(i) == IF i >= BSize THEN i - QUEUE_SIZE ELSE i

QueueHead == IF At({"incR"}) THEN WrapIdx(ridx + 1) ELSE WrapIdx(ridx)
QueueLen ==
  semval["FULL"]
    + (IF At({"fetch"}) THEN 1 ELSE 0)
    + (IF At(ProdCrit \ {"store"}) THEN 1 ELSE 0)
NextLetter ==
  IF At({"incW", "wrapW", "incL"})
  THEN IF letter >= Letters THEN 1 ELSE letter + 1
  ELSE IF letter > Letters \/ letter = 0 THEN 1 ELSE letter

Queue == [k \in 1 .. QueueLen |-> slot[WrapIdx(QueueHead + k - 1)]]

Buffer == INSTANCE BoundedBuffer WITH
  Capacity <- QUEUE_SIZE, queue <- Queue, next <- NextLetter,
  taken <- printed

(* Until the first child ends, the program is a bounded FIFO queue: every  *)
(* letter is printed exactly once, in alphabetical order, and no letter is *)
(* overwritten before it was printed.                                      *)
ImplementsBuffer ==
  /\ Buffer!Init
  /\ [][gone' = {} => [Buffer!Next]_Buffer!bufferVars]_vars

(* A letter in the queue is printed, unless a child ended before or main   *)
(* could not fork all of them; whether main is still there does not matter.*)
EveryLetterPrinted ==
  \A c \in 1 .. Letters :
    (gone = {} /\ \E k \in 1 .. QueueLen : Queue[k] = c)
      ~> \/ printed = c \/ gone # {}
         \/ main = "failed" /\ Unborn(Proc) # {}

(* When the last child is gone the IPC objects are removed, unless main    *)
(* has ended with an error.                                                *)
EventuallyRemoved ==
  gone = Proc ~> (ipc = {} \/ main = "failed")
=============================================================================
