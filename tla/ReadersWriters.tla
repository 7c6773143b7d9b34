--------------------------- MODULE ReadersWriters ---------------------------
(***************************************************************************)
(* sem_5/lab3_2: readers and writers of one shared letter.  Six System V   *)
(* semaphores count the active and the waiting processes of each kind and  *)
(* hold a "you can start" token for each kind.  A step is one call of the  *)
(* kernel or one access to the letter, so that processes interleave, and   *)
(* may be killed, between a GETVAL and the SETVAL that follows from it.    *)
(*                                                                         *)
(* An operator that is named after another one, with a suffix, and that    *)
(* Next does not use is a fault the properties are known to catch.         *)
(***************************************************************************)
EXTENDS Integers, FiniteSets

CONSTANTS
  Writers, Readers,  (* the children main forks                            *)
  SEMVMX, SEMAEM,    (* the kernel's limits, see SemSet                    *)
  MaxKills           (* bound: how many children are killed                *)

(* The limits are too large to be met: a counter is at most the number of  *)
(* children, an adjustment at most 1.  No semop fails with ERANGE then.    *)
ASSUME LimitsAssumption ==
  /\ SEMVMX \in Nat /\ SEMVMX >= Cardinality(Writers \cup Readers)
  /\ SEMVMX >= 1
  /\ SEMAEM \in Nat /\ SEMAEM >= 1
  /\ MaxKills \in Nat

ASSUME ProcAssumption ==
  /\ Writers \cap Readers = {}
  /\ IsFiniteSet(Writers)
  /\ IsFiniteSet(Readers)

VARIABLES
  semval, semadj,    (* the semaphore set                                  *)
  letter,            (* who wrote the shared letter; "!" at the start      *)
  pc,                (* where each child is                                *)
  main,              (* where the parent is                                *)
  ipc,               (* the IPC objects that exist                         *)
  reaped,            (* children the parent has waited for                 *)
  kills

semVars == <<semval, semadj>>
mainVars == <<main, ipc, reaped>>
vars == <<semVars, letter, pc, mainVars, kills>>

Proc == Writers \cup Readers
Sem == {"ACT_W", "ACT_R", "WAI_W", "WAI_R", "CAN_W", "CAN_R"}

INSTANCE SemSet

-----------------------------------------------------------------------------
(* The sembuf arrays.                                                      *)

read_dir == [zero |-> {"ACT_W", "WAI_W"}, dec |-> {}, inc |-> {"ACT_R"}]
read_wait == [zero |-> {}, dec |-> {}, inc |-> {"WAI_R"}]
read_awake_any == [zero |-> {}, dec |-> {"CAN_R", "WAI_R"}, inc |-> {"ACT_R"}]
read_awake ==
  [zero |-> {"ACT_W"}, dec |-> {"CAN_R", "WAI_R"}, inc |-> {"ACT_R"}]
read_stop == [zero |-> {}, dec |-> {"ACT_R"}, inc |-> {}]

write_dir == [zero |-> {"ACT_R", "ACT_W"}, dec |-> {}, inc |-> {"ACT_W"}]
write_wait == [zero |-> {}, dec |-> {}, inc |-> {"WAI_W"}]
write_awake_any == [zero |-> {}, dec |-> {"CAN_W", "WAI_W"}, inc |-> {"ACT_W"}]
write_awake ==
  [zero |-> {"ACT_W"}, dec |-> {"CAN_W", "WAI_W"}, inc |-> {"ACT_W"}]
write_stop == [zero |-> {}, dec |-> {"ACT_W"}, inc |-> {}]

(* Labels between the semop that counts a child and the one that stops     *)
(* counting it.                                                            *)
Reading == {"rset1", "read", "rstop"}
Writing == {"write", "sent", "wget", "wsetr", "wsetw", "wstop"}
ReadWaiting == {"rset0", "rawake"}
WriteWaiting == {"wset0", "wawake"}
At(labels) == {p \in Proc : pc[p] \in labels}

Goto(p, from, to) ==
  /\ pc[p] = from
  /\ pc' = [pc EXCEPT ![p] = to]

Init ==
  /\ semval = [s \in Sem |-> 0]
  /\ semadj = NoUndo
  /\ letter = "zero"
  /\ pc = [p \in Proc |-> "unborn"]
  /\ main = "semget"
  /\ ipc = {}
  /\ reaped = {}
  /\ kills = 0

Call(p, from, to, ops) ==
  /\ Goto(p, from, to)
  /\ Semop(p, ops)
  /\ UNCHANGED <<letter, mainVars, kills>>

Set(p, from, to, s, v) ==
  /\ Goto(p, from, to)
  /\ SetVal(s, v)
  /\ UNCHANGED <<letter, mainVars, kills>>

(* A step that changes neither the semaphores nor the letter.              *)
Move(p, from, to) ==
  /\ Goto(p, from, to)
  /\ UNCHANGED <<semVars, letter, mainVars, kills>>

-----------------------------------------------------------------------------
(* read_func: start_read, the printf, stop_read.                           *)

ReadDir(p) == Call(p, "rdir", "read", read_dir)
ReadBusy(p) == Blocks(read_dir) /\ Move(p, "rdir", "rwait")
ReadWait(p) == Call(p, "rwait", "rset0", read_wait)
ReadClear(p) == Set(p, "rset0", "rawake", "CAN_R", 0)
ReadAwake(p) == Call(p, "rawake", "rset1", read_awake)
ReadWakeNext(p) == Set(p, "rset1", "read", "CAN_R", 1)

Read(p) == Move(p, "read", "rstop")

ReadStop(p) == Call(p, "rstop", "rget", read_stop)
ReadLast(p) ==
  Move(p, "rget", IF semval["ACT_R"] = 0 THEN "rsetw" ELSE "rdir")
ReadWakeWriter(p) == Set(p, "rsetw", "rdir", "CAN_W", 1)

Reader(p) ==
  \/ ReadDir(p) \/ ReadBusy(p) \/ ReadWait(p) \/ ReadClear(p)
  \/ ReadAwake(p) \/ ReadWakeNext(p)
  \/ Read(p)
  \/ ReadStop(p) \/ ReadLast(p) \/ ReadWakeWriter(p)

-----------------------------------------------------------------------------
(* write_func: start_write, the store, the printf of the stored letter,    *)
(* stop_write.                                                             *)

WriteDir(p) == Call(p, "wdir", "write", write_dir)
WriteBusy(p) == Blocks(write_dir) /\ Move(p, "wdir", "wwait")
WriteWait(p) == Call(p, "wwait", "wset0", write_wait)
WriteClear(p) == Set(p, "wset0", "wawake", "CAN_W", 0)
WriteAwake(p) == Call(p, "wawake", "write", write_awake)

Write(p) ==
  /\ Goto(p, "write", "sent")
  /\ letter' = p
  /\ UNCHANGED <<semVars, mainVars, kills>>
Sent(p) == Move(p, "sent", "wget")

WriteWhoWaits(p) ==
  Move(p, "wget", IF semval["WAI_R"] > 0 THEN "wsetr" ELSE "wsetw")
WriteWakeReader(p) == Set(p, "wsetr", "wstop", "CAN_R", 1)
WriteWakeWriter_add(p) ==
  /\ Goto(p, "wsetw", "wstop")
  /\ Semop(p, [zero |-> {}, dec |-> {}, inc |-> {"CAN_W"}])
  /\ UNCHANGED <<letter, mainVars, kills>>
WriteWakeWriter(p) == Set(p, "wsetw", "wstop", "CAN_W", 1)
WriteStop(p) == Call(p, "wstop", "wdir", write_stop)

Writer(p) ==
  \/ WriteDir(p) \/ WriteBusy(p) \/ WriteWait(p) \/ WriteClear(p)
  \/ WriteAwake(p)
  \/ Write(p) \/ Sent(p)
  \/ WriteWhoWaits(p) \/ WriteWakeReader(p) \/ WriteWakeWriter(p)
  \/ WriteStop(p)

(* A signal ends a child anywhere; the kernel applies its adjustments.     *)
Killable(p) == pc[p] \notin {"unborn", "gone"} /\ kills < MaxKills

Kill(p) ==
  /\ Killable(p)
  /\ kills' = kills + 1
  /\ pc' = [pc EXCEPT ![p] = "gone"]
  /\ ExitUndo(p)
  /\ UNCHANGED <<letter, mainVars>>

-----------------------------------------------------------------------------
(* main: every early return leaves the IPC objects behind.                 *)

Main(from, to) ==
  /\ main = from
  /\ main' = to
  /\ UNCHANGED kills

Fails ==
  /\ main \notin {"done", "failed"} /\ Main(main, "failed")
  /\ UNCHANGED <<semVars, letter, pc, ipc, reaped>>

(* semget and the SETVAL 0 of each semaphore.                              *)
SemGet ==
  /\ Main("semget", "shmget")
  /\ ipc' = ipc \cup {"sem"}
  /\ semval' = [s \in Sem |-> 0]
  /\ UNCHANGED <<semadj, letter, pc, reaped>>

(* shmget, shmat and the first letter.                                     *)
ShmGet ==
  /\ Main("shmget", "fork")
  /\ ipc' = ipc \cup {"shm"}
  /\ letter' = "!"
  /\ UNCHANGED <<semVars, pc, reaped>>

Unborn(S) == {p \in S : pc[p] = "unborn"}

(* All the writers are forked before the first reader.                     *)
Fork(p) ==
  /\ p \in Unborn(IF Unborn(Writers) # {} THEN Writers ELSE Readers)
  /\ Main("fork", IF Unborn(Proc) = {p} THEN "wait" ELSE "fork")
  /\ pc' = [pc EXCEPT ![p] = IF p \in Writers THEN "wdir" ELSE "rdir"]
  /\ UNCHANGED <<semVars, letter, ipc, reaped>>

Wait(p) ==
  /\ pc[p] = "gone" /\ p \notin reaped
  /\ reaped' = reaped \cup {p}
  /\ Main("wait", IF reaped' = Proc THEN "rmsem" ELSE "wait")
  /\ UNCHANGED <<semVars, letter, pc, ipc>>

RemoveSem ==
  /\ Main("rmsem", "rmshm")
  /\ ipc' = ipc \ {"sem"}
  /\ UNCHANGED <<semVars, letter, pc, reaped>>

RemoveShm ==
  /\ Main("rmshm", "done")
  /\ ipc' = ipc \ {"shm"}
  /\ UNCHANGED <<semVars, letter, pc, reaped>>

Parent ==
  \/ Fails \/ SemGet \/ ShmGet
  \/ \E p \in Proc : Fork(p) \/ Wait(p)
  \/ RemoveSem \/ RemoveShm

Next ==
  \/ Parent
  \/ \E p \in Writers : Writer(p)
  \/ \E p \in Readers : Reader(p)
  \/ \E p \in Proc : Kill(p)

Spec == Init /\ [][Next]_vars

-----------------------------------------------------------------------------
(* Properties                                                              *)

TypeOK ==
  /\ semval \in [Sem -> 0 .. SEMVMX]
  /\ semadj \in [Proc -> [Sem -> -1 .. 1]]
  /\ letter \in Writers \cup {"zero", "!"}
  /\ pc \in [Proc -> {"unborn", "gone", "rdir", "rwait", "rget", "rsetw",
                       "wdir", "wwait"}
                     \cup Reading \cup Writing
                     \cup ReadWaiting \cup WriteWaiting]
  /\ main \in {"semget", "shmget", "fork", "wait", "rmsem", "rmshm",
               "done", "failed"}
  /\ ipc \subseteq {"sem", "shm"}
  /\ reaped \subseteq Proc
  /\ kills \in 0 .. MaxKills

(* Two writers are never between start_write and the end of stop_write at  *)
(* the same time, although stop_write hands out tokens while its caller    *)
(* still counts as active, and wherever other processes were killed.       *)
WritersExclude ==
  \A p, q \in At(Writing) : p = q

(* The four counters are the children they stand for.  A child that was    *)
(* killed is not counted any more: SEM_UNDO takes back exactly what it had *)
(* added, in whatever call it died.                                        *)
CountsExact ==
  /\ semval["ACT_W"] = Cardinality(At(Writing))
  /\ semval["ACT_R"] = Cardinality(At(Reading))
  /\ semval["WAI_W"] = Cardinality(At(WriteWaiting))
  /\ semval["WAI_R"] = Cardinality(At(ReadWaiting))

(* There is never a second token of a kind: a token that was not taken, a  *)
(* SETVAL and the undo of a killed child do not add up, so one token wakes *)
(* one process.                                                            *)
OneToken ==
  semval["CAN_W"] <= 1 /\ semval["CAN_R"] <= 1

(* A writer prints the letter it has just written.                         *)
WriterPrintsItsLetter ==
  \A p \in Writers : pc[p] = "sent" => letter = p

(* No reader starts while a writer is active, neither directly nor with a  *)
(* token, even one that an active writer has handed out already.           *)
ReaderStartsWithoutWriter ==
  [][\A p \in Readers :
       pc[p] \notin Reading /\ pc'[p] \in Reading => At(Writing) = {}]_vars

(* No semop leaves the range of a value or of an adjustment, so that none  *)
(* ends its process with exit(1): the adjustments do not pile up, because  *)
(* every SETVAL forgets those of its token.                                *)
SemopOf(p) ==
  CASE pc[p] = "rdir"   -> read_dir    [] pc[p] = "wdir"   -> write_dir
    [] pc[p] = "rwait"  -> read_wait   [] pc[p] = "wwait"  -> write_wait
    [] pc[p] = "rawake" -> read_awake  [] pc[p] = "wawake" -> write_awake
    [] pc[p] = "rstop"  -> read_stop   [] pc[p] = "wstop"  -> write_stop
    [] OTHER -> [zero |-> {}, dec |-> {}, inc |-> {}]

NeverOutOfRange ==
  \A p \in Proc : ~OutOfRange(p, SemopOf(p))

(* The semaphores stay what they stand for, whoever is killed where.       *)
SemaphoresExact == CountsExact /\ OneToken /\ NeverOutOfRange

(* What the report's listing of start_write says: a writer starts, also    *)
(* after it had to wait, only when no reader is active.                    *)
ReadersExcludeWriters ==
  At(Writing) = {} \/ At(Reading) = {}

(* What the report's listings say: who waits goes on when ACT_W and ACT_R  *)
(* are zero.  So the children never all wait for each other.               *)
Asleep(p) ==
  \/ pc[p] = "rawake" /\ Blocks(read_awake)
  \/ pc[p] = "wawake" /\ Blocks(write_awake)

NotAllAsleep ==
  kills = 0 /\ main = "wait" => \E p \in Proc : ~Asleep(p)
=============================================================================
