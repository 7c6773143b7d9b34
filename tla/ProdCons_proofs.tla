--------------------------- MODULE ProdCons_proofs ---------------------------
(***************************************************************************)
(* Proofs about ProdCons, for any number of producers and consumers, any   *)
(* queue size and any number of deaths.                                    *)
(***************************************************************************)
EXTENDS ProdCons, SequenceTheorems, TLAPS

PcOK ==
  /\ \A p \in Producers : pc[p] \in {"unborn", "ppre", "gone"} \cup ProdCrit
  /\ \A p \in Consumers : pc[p] \in {"unborn", "cpre", "gone"} \cup ConsCrit

(* The semaphores have been given their values and are still in use, maybe *)
(* by children that go on without their parent.                            *)
SetUp ==
  main \in {"shmget", "shmat", "fork", "wait"} \/ \E p \in Proc : Running(p)

(* BIN is a lock: it is taken while a child is inside its critical section *)
(* and is otherwise free once it has been set up, and exactly the child    *)
(* inside has the adjustment that gives it back.                           *)
LockInv ==
  /\ MutualExclusion
  /\ \A p \in Proc : semadj[p]["BIN"] = IF InCrit(p) THEN 1 ELSE 0
  /\ semval["BIN"] \in 0 .. 1
  /\ \A p \in Proc : InCrit(p) => semval["BIN"] = 0
  /\ (\A p \in Proc : ~InCrit(p)) /\ SetUp => semval["BIN"] = 1

(* Where main is tells which children can be there and what it has made.   *)
MainInv ==
  /\ main \in {"semget", "setval", "shmget", "shmat"} =>
       \A p \in Proc : pc[p] = "unborn"
  /\ main \in {"rmsem", "rmshm", "done"} => \A p \in Proc : pc[p] = "gone"
  /\ \A p \in reaped : pc[p] = "gone"
  /\ main \in {"fork", "wait"} => ipc = {"sem", "shm"}
  /\ main = "shmat" => ipc = {"sem", "shm"}
  /\ main \in {"setval", "shmget"} => "sem" \in ipc
  /\ (\E p \in Proc : Running(p)) => ipc = {"sem", "shm"}

(* Only the death of a child inside wrapW, wrapR or wrapL leaves an index  *)
(* or the letter too high, by one.                                         *)
IndexInv ==
  /\ \/ /\ letter = 0 /\ ridx = 0 /\ widx = 0
        /\ \A p \in Proc : pc[p] = "unborn"
        /\ main \notin {"fork", "wait"}
     \/ /\ letter \in 1 .. LettersEnd + kills
        /\ ridx \in Base .. BSize + kills
        /\ widx \in Base .. BSize + kills
  /\ (\A p \in Proc : pc[p] # "wrapL") => letter <= Letters + kills
  /\ (\A p \in Proc : pc[p] # "wrapR") => ridx <= BSize - 1 + kills
  /\ (\A p \in Proc : pc[p] # "wrapW") => widx <= BSize - 1 + kills

(* What a child has taken from EMPT and not yet given to FULL, or the      *)
(* other way round, is the one place it works on.                          *)
Busy == \E p \in Proc : InCrit(p)
Held == IF Busy THEN 1 ELSE 0

SlotsInv ==
  /\ SetUp => semval["FULL"] + semval["EMPT"] + Held >= QUEUE_SIZE
  /\ \A p \in Proc :
       semadj[p]["FULL"] + semadj[p]["EMPT"] = IF InCrit(p) THEN 1 ELSE 0

IInv == TypeOK /\ PcOK /\ LockInv /\ MainInv /\ IndexInv /\ SlotsInv

-----------------------------------------------------------------------------
(* The semaphore operations.                                               *)

(* Arrays of the kind the program uses.                                    *)
IsArray(ops) ==
  /\ ops.dec \subseteq Sem /\ ops.inc \subseteq Sem
  /\ ops.dec \cap ops.inc = {}

(* The four arrays of the program are arrays of that kind.                 *)
LEMMA Arrays ==
  /\ IsArray(prod_pre) /\ IsArray(prod_post)
  /\ IsArray(cons_pre) /\ IsArray(cons_post)
BY DEF IsArray, prod_pre, prod_post, cons_pre, cons_post, Sem

(* What semop does to each value and adjustment; both stay in range.       *)
LEMMA SemopEffect ==
  ASSUME TypeOK, NEW p \in Proc, NEW ops, IsArray(ops), Semop(p, ops)
  PROVE  /\ semval' \in [Sem -> 0 .. SEMVMX]
         /\ semadj' \in [Proc -> [Sem -> -SEMAEM - 1 .. SEMAEM]]
         /\ \A s \in Sem : semval'[s] = semval[s] + Delta(ops, s)
         /\ \A s \in Sem : semadj'[p][s] = semadj[p][s] - Delta(ops, s)
         /\ \A q \in Proc \ {p} : semadj'[q] = semadj[q]
<1> USE SizesAssumption
<1>1. ASSUME NEW s \in Sem
      PROVE  /\ semval[s] + Delta(ops, s) \in 0 .. SEMVMX
             /\ semadj[p][s] - Delta(ops, s) \in -SEMAEM - 1 .. SEMAEM
  <2>1. semval[s] \in 0 .. SEMVMX /\ semadj[p][s] \in -SEMAEM - 1 .. SEMAEM
    BY DEF TypeOK
  <2>2. CASE s \in ops.dec
    BY <2>1, <2>2 DEF Semop, Blocks, OutOfRange, Delta, IsArray
  <2>3. CASE s \in ops.inc
    BY <2>1, <2>3 DEF Semop, Blocks, OutOfRange, Delta, IsArray
  <2>4. CASE s \notin ops.dec /\ s \notin ops.inc
    BY <2>1, <2>4 DEF Delta
  <2> QED BY <2>2, <2>3, <2>4
<1>2. QED BY <1>1 DEF Semop, TypeOK

(* What the end of p does.                                                 *)
LEMMA ExitEffect ==
  ASSUME TypeOK, NEW p \in Proc, ExitUndo(p)
  PROVE  /\ semval' \in [Sem -> 0 .. SEMVMX]
         /\ semadj' \in [Proc -> [Sem -> -SEMAEM - 1 .. SEMAEM]]
         /\ \A s \in Sem : semval'[s] = Clamp(semval[s] + semadj[p][s])
         /\ \A s \in Sem : semadj'[p][s] = 0
         /\ \A q \in Proc \ {p} : semadj'[q] = semadj[q]
<1> USE SizesAssumption
<1>1. \A s \in Sem : Clamp(semval[s] + semadj[p][s]) \in 0 .. SEMVMX
  BY DEF TypeOK, Clamp
<1>2. QED BY <1>1 DEF ExitUndo, TypeOK

-----------------------------------------------------------------------------
(* What holds while p is inside its critical section: it is alone there,   *)
(* and the indices it does not itself have left too high are in the ring.  *)
LEMMA Alone ==
  ASSUME IInv, NEW p \in Proc, InCrit(p)
  PROVE  /\ \A q \in Proc \ {p} : ~InCrit(q)
         /\ letter \in 1 .. LettersEnd + kills
         /\ ridx \in Base .. BSize + kills
         /\ widx \in Base .. BSize + kills
         /\ pc[p] # "wrapL" => letter <= Letters + kills
         /\ pc[p] # "wrapR" => ridx <= BSize - 1 + kills
         /\ pc[p] # "wrapW" => widx <= BSize - 1 + kills
<1>1. \A q \in Proc \ {p} : ~InCrit(q)
  BY DEF IInv, LockInv, MutualExclusion
<1>2. \A q \in Proc \ {p} : pc[q] \notin {"wrapL", "wrapR", "wrapW"}
  BY <1>1 DEF InCrit, ProdCrit, ConsCrit
<1>3. pc[p] # "unborn"
  BY DEF InCrit, ProdCrit, ConsCrit
<1>4. QED BY <1>1, <1>2, <1>3 DEF IInv, IndexInv

(* Every variable stays in its range.                                      *)
LEMMA TypeStep ==
  ASSUME IInv, [Next]_vars
  PROVE  TypeOK'
<1> USE SizesAssumption
<1> TypeOK BY DEF IInv
<1>1. CASE UNCHANGED vars
  BY <1>1 DEF TypeOK, vars, semVars, bufVars, mainVars
<1>2. CASE Fails \/ SemGet \/ ShmGet \/ RemoveSem \/ RemoveShm
  BY <1>2 DEF TypeOK, Fails, SemGet, ShmGet, RemoveSem, RemoveShm,
              semVars, bufVars
<1>3. CASE SetVals
  BY <1>3 DEF TypeOK, SetVals, bufVars, Sem
<1>4. CASE ShmAt
  BY <1>4 DEF TypeOK, ShmAt, semVars, Base, BSize, LettersEnd
<1>5. ASSUME NEW p \in Proc, Fork(p) \/ Wait(p)
      PROVE  TypeOK'
  BY <1>5 DEF TypeOK, Fork, Wait, semVars, bufVars
<1>6. ASSUME NEW p \in Proc,
             ProdPre(p) \/ ProdPost(p) \/ ConsPre(p) \/ ConsPost(p)
      PROVE  TypeOK'
  <2>1. /\ semval' \in [Sem -> 0 .. SEMVMX]
        /\ semadj' \in [Proc -> [Sem -> -SEMAEM - 1 .. SEMAEM]]
    BY <1>6, Arrays, SemopEffect DEF ProdPre, ProdPost, ConsPre, ConsPost
  <2>2. QED
    BY <1>6, <2>1 DEF TypeOK, ProdPre, ProdPost, ConsPre, ConsPost, Goto,
                      bufVars, mainVars, ProdCrit, ConsCrit
<1>7. ASSUME NEW p \in Proc, SemopFails(p) \/ Kill(p)
      PROVE  TypeOK'
  <2>1. /\ semval' \in [Sem -> 0 .. SEMVMX]
        /\ semadj' \in [Proc -> [Sem -> -SEMAEM - 1 .. SEMAEM]]
    BY <1>7, ExitEffect DEF SemopFails, Kill
  <2>2. pc' = [pc EXCEPT ![p] = "gone"] /\ kills' \in 0 .. MaxKills
    BY <1>7 DEF TypeOK, SemopFails, Kill
  <2>3. UNCHANGED <<bufVars, printed, mainVars>>
    BY <1>7 DEF SemopFails, Kill
  <2>4. QED
    BY <2>1, <2>2, <2>3 DEF TypeOK, bufVars, mainVars
<1>8. ASSUME NEW p \in Proc, ProdStore(p)
      PROVE  TypeOK'
  <2>1. letter \in 0 .. Letters + MaxKills
    BY <1>8, Alone DEF ProdStore, Goto, InCrit, ProdCrit, TypeOK
  <2>2. QED
    BY <1>8, <2>1 DEF TypeOK, ProdStore, Goto, ProdCrit, semVars, mainVars
<1>9. ASSUME NEW p \in Proc, ProdIncW(p) \/ ProdWrapW(p)
      PROVE  TypeOK'
  <2>1. widx \in Base .. BSize + kills /\ (pc[p] = "incW" => widx <= BSize - 1 + kills)
    BY <1>9, Alone DEF ProdIncW, ProdWrapW, Goto, InCrit, ProdCrit
  <2>2. widx' \in Base .. BSize + MaxKills
    BY <1>9, <2>1 DEF TypeOK, ProdIncW, ProdWrapW, Goto, Base, BSize
  <2>3. QED
    BY <1>9, <2>2 DEF TypeOK, ProdIncW, ProdWrapW, Goto, ProdCrit,
                      semVars, mainVars
<1>10. ASSUME NEW p \in Proc, ProdIncL(p) \/ ProdWrapL(p)
       PROVE  TypeOK'
  <2>1. letter \in 1 .. LettersEnd + kills /\ (pc[p] = "incL" => letter <= Letters + kills)
    BY <1>10, Alone DEF ProdIncL, ProdWrapL, Goto, InCrit, ProdCrit
  <2>2. letter' \in 0 .. LettersEnd + MaxKills
    BY <1>10, <2>1 DEF TypeOK, ProdIncL, ProdWrapL, Goto, LettersEnd
  <2>3. QED
    BY <1>10, <2>2 DEF TypeOK, ProdIncL, ProdWrapL, Goto, ProdCrit,
                       semVars, mainVars
<1>11. ASSUME NEW p \in Proc, ConsFetch(p)
       PROVE  TypeOK'
  <2>1. ridx \in Cell
    BY <1>11, Alone DEF ConsFetch, Goto, InCrit, ConsCrit, TypeOK, Cell, Base, BSize
  <2>2. QED
    BY <1>11, <2>1 DEF TypeOK, ConsFetch, Goto, ConsCrit, semVars, bufVars, mainVars
<1>12. ASSUME NEW p \in Proc, ConsIncR(p) \/ ConsWrapR(p)
       PROVE  TypeOK'
  <2>1. ridx \in Base .. BSize + kills /\ (pc[p] = "incR" => ridx <= BSize - 1 + kills)
    BY <1>12, Alone DEF ConsIncR, ConsWrapR, Goto, InCrit, ConsCrit
  <2>2. ridx' \in Base .. BSize + MaxKills
    BY <1>12, <2>1 DEF TypeOK, ConsIncR, ConsWrapR, Goto, Base, BSize
  <2>3. QED
    BY <1>12, <2>2 DEF TypeOK, ConsIncR, ConsWrapR, Goto, ConsCrit,
                       semVars, mainVars
<1>13. QED
  BY <1>1, <1>2, <1>3, <1>4, <1>5, <1>6, <1>7, <1>8, <1>9, <1>10, <1>11, <1>12
     DEF Next, Parent, Child, Producer, Consumer

(* A producer stays at the labels of prod_func, a consumer at cons_func's. *)
LEMMA PcStep ==
  ASSUME IInv, [Next]_vars
  PROVE  PcOK'
<1> USE ProcAssumption DEF Proc
<1> TypeOK /\ PcOK BY DEF IInv
<1> USE DEF ProdCrit, ConsCrit
<1>1. CASE UNCHANGED vars
  BY <1>1 DEF PcOK, vars
<1>2. CASE Fails \/ SemGet \/ SetVals \/ ShmGet \/ ShmAt
           \/ RemoveSem \/ RemoveShm
  BY <1>2 DEF PcOK, Fails, SemGet, SetVals, ShmGet, ShmAt, RemoveSem, RemoveShm
<1>3. ASSUME NEW p \in Proc, Fork(p) \/ Wait(p)
      PROVE  PcOK'
  BY <1>3 DEF TypeOK, PcOK, Fork, Wait
<1>4. ASSUME NEW p \in Proc, Producer(p)
      PROVE  PcOK'
  BY <1>4 DEF TypeOK, PcOK, Goto, Producer, ProdPre, ProdStore, ProdIncW,
              ProdWrapW, ProdIncL, ProdWrapL, ProdPost
<1>5. ASSUME NEW p \in Proc, Consumer(p)
      PROVE  PcOK'
  BY <1>5 DEF TypeOK, PcOK, Goto, Consumer, ConsPre, ConsFetch, ConsIncR,
              ConsWrapR, ConsPost
<1>6. ASSUME NEW p \in Proc, SemopFails(p) \/ Kill(p)
      PROVE  PcOK'
  BY <1>6 DEF TypeOK, PcOK, SemopFails, Kill
<1>7. QED
  BY <1>1, <1>2, <1>3, <1>4, <1>5, <1>6 DEF Next, Parent, Child

(* Only SETVAL sets the semaphores up: the processes that run when main    *)
(* ends with an error ran before.                                          *)
LEMMA SetUpBefore ==
  ASSUME IInv, [Next]_vars
  PROVE  SetUp' => SetUp \/ SetVals
<1> SUFFICES ASSUME SetUp' PROVE SetUp \/ SetVals
  OBVIOUS
<1> TypeOK BY DEF IInv
<1>1. CASE UNCHANGED vars
  BY <1>1 DEF vars, mainVars, SetUp, Running
<1>2. CASE Fails \/ SemGet \/ ShmGet \/ ShmAt \/ RemoveSem \/ RemoveShm
  BY <1>2 DEF SetUp, Running, Fails, SemGet, ShmGet, ShmAt, RemoveSem, RemoveShm
<1>3. ASSUME NEW p \in Proc, Fork(p) \/ Wait(p) PROVE SetUp
  BY <1>3 DEF SetUp, Fork, Wait
<1>4. ASSUME NEW p \in Proc, Child(p) \/ Kill(p) PROVE SetUp
  <2>1. Running(p)
    BY <1>4 DEF Running, Child, Producer, Consumer, SemopFails, Kill, Goto,
       ProdPre, ProdStore, ProdIncW, ProdWrapW, ProdIncL, ProdWrapL, ProdPost,
       ConsPre, ConsFetch, ConsIncR, ConsWrapR, ConsPost
  <2> QED BY <2>1 DEF SetUp
<1> QED BY <1>1, <1>2, <1>3, <1>4 DEF Next, Parent

(* A child takes BIN as it enters its critical section and gives it back   *)
(* as it leaves, alive or dead.                                            *)
LEMMA LockStep ==
  ASSUME IInv, [Next]_vars
  PROVE  LockInv'
<1> TypeOK /\ PcOK /\ LockInv BY DEF IInv
<1> USE DEF LockInv, MutualExclusion
<1> DEFINE Quiet == UNCHANGED semVars /\ \A q \in Proc : InCrit(q)' = InCrit(q)
<1>0. SetUp' => SetUp \/ SetVals
  BY SetUpBefore
<1>1. ASSUME Quiet, ~SetVals PROVE LockInv'
  BY <1>0, <1>1 DEF semVars
<1>2. CASE UNCHANGED vars
  BY <1>1, <1>2 DEF vars, mainVars, InCrit, SetVals
<1>3. CASE Fails \/ SemGet \/ ShmGet \/ ShmAt \/ RemoveSem \/ RemoveShm
  <2>1. UNCHANGED <<semVars, pc>>
    BY <1>3 DEF Fails, SemGet, ShmGet, ShmAt, RemoveSem, RemoveShm
  <2>2. ~SetVals
    BY <1>3 DEF Fails, SemGet, ShmGet, ShmAt, RemoveSem, RemoveShm, SetVals
  <2>3. QED BY <1>1, <2>1, <2>2 DEF InCrit
<1>4. CASE SetVals
  <2>1. \A q \in Proc : ~InCrit(q)
    BY <1>4 DEF IInv, MainInv, SetVals, InCrit, ProdCrit, ConsCrit
  <2>2. QED
    BY <1>4, <2>1 DEF SetVals, TypeOK, Sem, InCrit
<1>5. ASSUME NEW p \in Proc, Fork(p) \/ Wait(p)
      PROVE  LockInv'
  <2>1. Quiet
    BY <1>5 DEF Fork, Wait, Unborn, Turn, TypeOK, InCrit, ProdCrit, ConsCrit
  <2>2. QED BY <1>1, <1>5, <2>1 DEF Fork, Wait, SetVals
<1>6. ASSUME NEW p \in Proc, ProdPre(p) \/ ConsPre(p)
      PROVE  LockInv'
  <2>1. /\ semval["BIN"] = 1 /\ semval'["BIN"] = 0
        /\ ~InCrit(p) /\ semadj'[p]["BIN"] = 1
        /\ \A q \in Proc \ {p} : semadj'[q] = semadj[q]
    <3>1. semval["BIN"] # 0
      BY <1>6 DEF ProdPre, ConsPre, Semop, Blocks, prod_pre, cons_pre
    <3>2. /\ semval'["BIN"] = semval["BIN"] - 1
          /\ semadj'[p]["BIN"] = semadj[p]["BIN"] + 1
          /\ \A q \in Proc \ {p} : semadj'[q] = semadj[q]
      BY <1>6, Arrays, SemopEffect
         DEF ProdPre, ConsPre, prod_pre, cons_pre, Delta, Sem, TypeOK
    <3>3. ~InCrit(p)
      BY <1>6 DEF ProdPre, ConsPre, Goto, InCrit, ProdCrit, ConsCrit
    <3>4. QED BY <3>1, <3>2, <3>3
  <2>2. InCrit(p)' /\ \A q \in Proc \ {p} : InCrit(q)' = InCrit(q)
    BY <1>6 DEF TypeOK, ProdPre, ConsPre, Goto, InCrit, ProdCrit, ConsCrit
  <2>3. QED BY <2>1, <2>2
<1>7. ASSUME NEW p \in Proc, ProdPost(p) \/ ConsPost(p)
      PROVE  LockInv'
  <2>1. /\ semval'["BIN"] = semval["BIN"] + 1
        /\ semadj'[p]["BIN"] = semadj[p]["BIN"] - 1
        /\ \A q \in Proc \ {p} : semadj'[q] = semadj[q]
    BY <1>7, Arrays, SemopEffect
       DEF ProdPost, ConsPost, prod_post, cons_post, Delta, Sem, TypeOK
  <2>2. InCrit(p) /\ ~InCrit(p)' /\ \A q \in Proc \ {p} : InCrit(q)' = InCrit(q)
    BY <1>7 DEF TypeOK, ProdPost, ConsPost, Goto, InCrit, ProdCrit, ConsCrit
  <2>3. QED BY <2>1, <2>2
<1>8. ASSUME NEW p \in Proc,
             \/ ProdStore(p) \/ ProdIncW(p) \/ ProdWrapW(p)
             \/ ProdIncL(p) \/ ProdWrapL(p)
             \/ ConsFetch(p) \/ ConsIncR(p) \/ ConsWrapR(p)
      PROVE  LockInv'
  <2>1. Quiet
    BY <1>8 DEF ProdStore, ProdIncW, ProdWrapW, ProdIncL, ProdWrapL, ConsFetch,
                ConsIncR, ConsWrapR, Goto, TypeOK, InCrit, ProdCrit, ConsCrit
  <2>2. main' = main /\ ~SetVals
    BY <1>8 DEF ProdStore, ProdIncW, ProdWrapW, ProdIncL, ProdWrapL, ConsFetch,
                ConsIncR, ConsWrapR, mainVars, SetVals
  <2>3. QED BY <1>1, <2>1, <2>2
<1>9. ASSUME NEW p \in Proc, SemopFails(p) \/ Kill(p)
      PROVE  LockInv'
  <2>1. /\ semval'["BIN"] = semval["BIN"] + semadj[p]["BIN"]
        /\ semadj'[p]["BIN"] = 0
        /\ \A q \in Proc \ {p} : semadj'[q] = semadj[q]
    BY <1>9, ExitEffect, SizesAssumption
       DEF SemopFails, Kill, Clamp, Sem, TypeOK
  <2>2. ~InCrit(p)' /\ \A q \in Proc \ {p} : InCrit(q)' = InCrit(q)
    BY <1>9 DEF TypeOK, SemopFails, Kill, InCrit, ProdCrit, ConsCrit
  <2>3. SetUp
    BY <1>9 DEF SemopFails, Kill, SetUp, Running
  <2>4. QED BY <2>1, <2>2, <2>3
<1>10. QED
  BY <1>2, <1>3, <1>4, <1>5, <1>6, <1>7, <1>8, <1>9
     DEF Next, Parent, Child, Producer, Consumer

(* The place of main, the IPC objects and the children agree.              *)
LEMMA MainStep ==
  ASSUME IInv, [Next]_vars
  PROVE  MainInv'
<1> TypeOK /\ PcOK /\ MainInv BY DEF IInv
<1> USE DEF MainInv, Running
<1>1. CASE UNCHANGED vars
  BY <1>1 DEF vars, mainVars
<1>2. CASE Fails \/ SemGet \/ SetVals \/ ShmGet \/ ShmAt
  BY <1>2 DEF TypeOK, Fails, SemGet, SetVals, ShmGet, ShmAt
<1>3. CASE RemoveSem \/ RemoveShm
  BY <1>3 DEF TypeOK, RemoveSem, RemoveShm
<1>4. ASSUME NEW p \in Proc, Fork(p)
      PROVE  MainInv'
  BY <1>4 DEF TypeOK, Fork, Unborn, Turn
<1>5. ASSUME NEW p \in Proc, Wait(p)
      PROVE  MainInv'
  BY <1>5 DEF TypeOK, Wait, gone
<1>6. ASSUME NEW p \in Proc, Child(p) \/ Kill(p)
      PROVE  MainInv'
  <2>1. UNCHANGED mainVars
    BY <1>6 DEF Child, Producer, Consumer, ProdPre, ProdStore, ProdIncW,
                ProdWrapW, ProdIncL, ProdWrapL, ProdPost, ConsPre, ConsFetch,
                ConsIncR, ConsWrapR, ConsPost, SemopFails, Kill
  <2>2. Running(p)
    BY <1>6 DEF Child, Producer, Consumer, ProdPre, ProdStore, ProdIncW,
                ProdWrapW, ProdIncL, ProdWrapL, ProdPost, ConsPre, ConsFetch,
                ConsIncR, ConsWrapR, ConsPost, SemopFails, Kill, Goto
  <2>3. \A q \in Proc \ {p} : pc'[q] = pc[q]
    BY <1>6 DEF TypeOK, Child, Producer, Consumer, ProdPre, ProdStore, ProdIncW,
                ProdWrapW, ProdIncL, ProdWrapL, ProdPost, ConsPre, ConsFetch,
                ConsIncR, ConsWrapR, ConsPost, SemopFails, Kill, Goto
  <2>4. QED BY <2>1, <2>2, <2>3 DEF mainVars, TypeOK
<1>7. QED
  BY <1>1, <1>2, <1>3, <1>4, <1>5, <1>6 DEF Next, Parent

(* The only way for an index or the letter to stay too high is a death     *)
(* before the wrap, and that is one of the kills.                          *)
LEMMA IndexStep ==
  ASSUME IInv, [Next]_vars
  PROVE  IndexInv'
<1> TypeOK /\ PcOK /\ IndexInv BY DEF IInv
<1> USE SizesAssumption
<1> DEFINE Wraps(q) == pc[q] \in {"wrapL", "wrapR", "wrapW"}
<1>1. CASE UNCHANGED vars
  BY <1>1 DEF IndexInv, vars, bufVars, mainVars
<1>2. CASE Fails \/ SemGet \/ SetVals \/ ShmGet \/ RemoveSem \/ RemoveShm
  BY <1>2 DEF IndexInv, Fails, SemGet, SetVals, ShmGet, RemoveSem, RemoveShm,
              bufVars
<1>3. CASE ShmAt
  BY <1>3 DEF IndexInv, ShmAt, TypeOK, LettersEnd, Base, BSize
<1>4. ASSUME NEW p \in Proc, Fork(p)
      PROVE  IndexInv'
  <2>1. /\ UNCHANGED <<letter, ridx, widx, kills>>
        /\ main = "fork" /\ pc[p] = "unborn"
        /\ \A q \in Proc \ {p} : pc'[q] = pc[q]
    BY <1>4 DEF Fork, Unborn, TypeOK, bufVars
  <2>2. QED BY <2>1 DEF IndexInv
<1>5. ASSUME NEW p \in Proc, Wait(p)
      PROVE  IndexInv'
  BY <1>5 DEF IndexInv, Wait, bufVars
<1>6. ASSUME NEW p \in Proc,
             \/ ProdPre(p) \/ ProdStore(p) \/ ProdPost(p)
             \/ ConsPre(p) \/ ConsFetch(p) \/ ConsPost(p)
      PROVE  IndexInv'
  <2>1. UNCHANGED <<letter, ridx, widx, main, kills>>
    BY <1>6 DEF ProdPre, ProdStore, ProdPost, ConsPre, ConsFetch, ConsPost,
                bufVars, mainVars
  <2>2. pc[p] # "unborn"
    BY <1>6 DEF ProdPre, ProdStore, ProdPost, ConsPre, ConsFetch, ConsPost, Goto
  <2>3. \A q \in Proc : /\ pc'[q] # "wrapL" => pc[q] # "wrapL"
                        /\ pc'[q] # "wrapR" => pc[q] # "wrapR"
                        /\ pc'[q] # "wrapW" => pc[q] # "wrapW"
    BY <1>6 DEF ProdPre, ProdStore, ProdPost, ConsPre, ConsFetch, ConsPost, Goto,
                TypeOK
  <2>4. QED BY <2>1, <2>2, <2>3 DEF IndexInv
<1>7. ASSUME NEW p \in Proc, SemopFails(p) \/ Kill(p)
      PROVE  IndexInv'
  <2>1. /\ UNCHANGED <<letter, ridx, widx, main>>
        /\ kills' = kills \/ kills' = kills + 1
        /\ pc' = [pc EXCEPT ![p] = "gone"]
        /\ pc[p] # "unborn"
        /\ Wraps(p) => kills' = kills + 1
    BY <1>7 DEF SemopFails, Kill, Running, bufVars, mainVars
  <2>2. \/ letter = 0 /\ \A q \in Proc : pc[q] = "unborn"
        \/ /\ letter \in 1 .. LettersEnd + kills
           /\ ridx \in Base .. BSize + kills
           /\ widx \in Base .. BSize + kills
    BY DEF IndexInv
  <2>3. CASE Wraps(p)
    BY <2>1, <2>2, <2>3 DEF IndexInv, TypeOK, LettersEnd, Base, BSize
  <2>4. CASE ~Wraps(p)
    <3>1. \A q \in Proc : /\ pc'[q] # "wrapL" => pc[q] # "wrapL"
                          /\ pc'[q] # "wrapR" => pc[q] # "wrapR"
                          /\ pc'[q] # "wrapW" => pc[q] # "wrapW"
      BY <2>1, <2>4 DEF TypeOK
    <3>2. letter # 0
      BY <2>1, <2>2
    <3>3. /\ (\A q \in Proc : pc'[q] # "wrapL") => letter' <= Letters + kills'
          /\ (\A q \in Proc : pc'[q] # "wrapR") => ridx' <= BSize - 1 + kills'
          /\ (\A q \in Proc : pc'[q] # "wrapW") => widx' <= BSize - 1 + kills'
      BY <2>1, <3>1 DEF IndexInv, TypeOK, LettersEnd, Base, BSize
    <3>4. QED
      BY <2>1, <2>2, <3>2, <3>3 DEF IndexInv, TypeOK, LettersEnd, Base, BSize
  <2>5. QED BY <2>3, <2>4
<1>8. ASSUME NEW p \in Proc,
             \/ ProdIncW(p) \/ ProdWrapW(p) \/ ProdIncL(p) \/ ProdWrapL(p)
             \/ ConsIncR(p) \/ ConsWrapR(p)
      PROVE  IndexInv'
  <2>1. InCrit(p) /\ UNCHANGED <<main, kills>>
    BY <1>8 DEF ProdIncW, ProdWrapW, ProdIncL, ProdWrapL, ConsIncR, ConsWrapR,
                Goto, InCrit, ProdCrit, ConsCrit, mainVars
  <2>2. \A q \in Proc \ {p} : ~Wraps(q)' /\ ~Wraps(q)
    BY <1>8, <2>1, Alone
       DEF ProdIncW, ProdWrapW, ProdIncL, ProdWrapL, ConsIncR, ConsWrapR,
           Goto, InCrit, ProdCrit, ConsCrit, TypeOK
  <2>3. /\ letter' \in 1 .. LettersEnd + kills
        /\ pc'[p] # "wrapL" => letter' <= Letters + kills
    BY <1>8, <2>1, Alone
       DEF ProdIncW, ProdWrapW, ProdIncL, ProdWrapL, ConsIncR, ConsWrapR,
           Goto, TypeOK, LettersEnd
  <2>4. /\ ridx' \in Base .. BSize + kills
        /\ pc'[p] # "wrapR" => ridx' <= BSize - 1 + kills
    BY <1>8, <2>1, Alone
       DEF ProdIncW, ProdWrapW, ProdIncL, ProdWrapL, ConsIncR, ConsWrapR,
           Goto, TypeOK, Base, BSize
  <2>5. /\ widx' \in Base .. BSize + kills
        /\ pc'[p] # "wrapW" => widx' <= BSize - 1 + kills
    BY <1>8, <2>1, Alone
       DEF ProdIncW, ProdWrapW, ProdIncL, ProdWrapL, ConsIncR, ConsWrapR,
           Goto, TypeOK, Base, BSize
  <2>6. QED BY <2>1, <2>2, <2>3, <2>4, <2>5 DEF IndexInv
<1>9. QED
  BY <1>1, <1>2, <1>3, <1>4, <1>5, <1>6, <1>7, <1>8
     DEF Next, Parent, Child, Producer, Consumer

(* A producer in its critical section has taken from EMPT and not given to *)
(* FULL yet, a consumer the other way round; the rest cancels out.         *)
LEMMA SlotsStep ==
  ASSUME IInv, [Next]_vars
  PROVE  SlotsInv'
<1> TypeOK /\ PcOK /\ SlotsInv BY DEF IInv
<1> USE SizesAssumption DEF SlotsInv
<1> DEFINE Sum == semval["FULL"] + semval["EMPT"]
           Adj(q) == semadj[q]["FULL"] + semadj[q]["EMPT"]
<1>0. SetUp' => SetUp \/ SetVals
  BY SetUpBefore
<1>1. ASSUME UNCHANGED semVars, \A q \in Proc : InCrit(q)' = InCrit(q),
             ~SetVals
      PROVE  SlotsInv'
  <2>1. Held' = Held
    BY <1>1 DEF Held, Busy
  <2>2. QED BY <1>0, <1>1, <2>1 DEF semVars
<1>2. CASE UNCHANGED vars
  BY <1>1, <1>2 DEF vars, mainVars, InCrit, SetVals
<1>3. CASE Fails \/ SemGet \/ ShmGet \/ ShmAt \/ RemoveSem \/ RemoveShm
  <2>1. UNCHANGED <<semVars, pc>>
    BY <1>3 DEF Fails, SemGet, ShmGet, ShmAt, RemoveSem, RemoveShm
  <2>2. ~SetVals
    BY <1>3 DEF Fails, SemGet, ShmGet, ShmAt, RemoveSem, RemoveShm, SetVals
  <2>3. QED BY <1>1, <2>1, <2>2 DEF InCrit
<1>4. CASE SetVals
  <2>1. semval'["FULL"] = 0 /\ semval'["EMPT"] = QUEUE_SIZE
    BY <1>4 DEF SetVals, TypeOK, Sem
  <2>2. UNCHANGED <<semadj, pc>>
    BY <1>4 DEF SetVals
  <2>3. QED BY <2>1, <2>2 DEF InCrit, Held
<1>5. ASSUME NEW p \in Proc, Fork(p) \/ Wait(p)
      PROVE  SlotsInv'
  <2>1. UNCHANGED semVars /\ \A q \in Proc : InCrit(q)' = InCrit(q)
    BY <1>5 DEF Fork, Wait, Unborn, Turn, TypeOK, InCrit, ProdCrit, ConsCrit
  <2>2. ~SetVals
    BY <1>5 DEF Fork, Wait, SetVals
  <2>3. QED BY <1>1, <2>1, <2>2
<1>6. ASSUME NEW p \in Proc, ProdPre(p) \/ ConsPre(p)
      PROVE  SlotsInv'
  <2>1. Sum' = Sum - 1 /\ Adj(p)' = Adj(p) + 1
        /\ \A q \in Proc \ {p} : semadj'[q] = semadj[q]
    BY <1>6, Arrays, SemopEffect
       DEF ProdPre, ConsPre, prod_pre, cons_pre, Delta, Sem, TypeOK
  <2>2. ~Busy
    BY <1>6 DEF IInv, LockInv, Busy, ProdPre, ConsPre, Semop, Blocks,
                prod_pre, cons_pre
  <2>3. InCrit(p)' /\ \A q \in Proc \ {p} : InCrit(q)' = InCrit(q)
    BY <1>6 DEF TypeOK, ProdPre, ConsPre, Goto, InCrit, ProdCrit, ConsCrit
  <2>4. Held = 0 /\ Held' = 1
    BY <2>2, <2>3 DEF Held, Busy
  <2>5. SetUp
    BY <1>6 DEF ProdPre, ConsPre, Goto, SetUp, Running
  <2>6. \A q \in Proc : Adj(q)' = IF InCrit(q)' THEN 1 ELSE 0
    BY <2>1, <2>2, <2>3 DEF Busy
  <2>7. Sum' \in Int /\ Sum \in Int
    BY <2>1 DEF TypeOK, Sem
  <2>8. SetUp' => Sum' + Held' >= QUEUE_SIZE
    BY <2>1, <2>4, <2>5, <2>7
  <2>9. QED BY <2>6, <2>8
<1>7. ASSUME NEW p \in Proc, ProdPost(p) \/ ConsPost(p)
      PROVE  SlotsInv'
  <2>1. Sum' = Sum + 1 /\ Adj(p)' = Adj(p) - 1
        /\ \A q \in Proc \ {p} : semadj'[q] = semadj[q]
    BY <1>7, Arrays, SemopEffect
       DEF ProdPost, ConsPost, prod_post, cons_post, Delta, Sem, TypeOK
  <2>2. InCrit(p) /\ ~InCrit(p)' /\ \A q \in Proc \ {p} : InCrit(q)' = InCrit(q)
    BY <1>7 DEF TypeOK, ProdPost, ConsPost, Goto, InCrit, ProdCrit, ConsCrit
  <2>3. Held \in 0 .. 1 /\ Held' \in 0 .. 1 /\ SetUp
    BY <1>7 DEF Held, ProdPost, ConsPost, Goto, SetUp, Running
  <2>4. \A q \in Proc : Adj(q)' = IF InCrit(q)' THEN 1 ELSE 0
    BY <2>1, <2>2
  <2>5. Sum \in Int
    BY DEF TypeOK, Sem
  <2>6. SetUp' => Sum' + Held' >= QUEUE_SIZE
    BY <2>1, <2>3, <2>5
  <2>7. QED BY <2>4, <2>6
<1>8. ASSUME NEW p \in Proc,
             \/ ProdStore(p) \/ ProdIncW(p) \/ ProdWrapW(p)
             \/ ProdIncL(p) \/ ProdWrapL(p)
             \/ ConsFetch(p) \/ ConsIncR(p) \/ ConsWrapR(p)
      PROVE  SlotsInv'
  <2>1. UNCHANGED semVars /\ \A q \in Proc : InCrit(q)' = InCrit(q)
    BY <1>8 DEF ProdStore, ProdIncW, ProdWrapW, ProdIncL, ProdWrapL, ConsFetch,
                ConsIncR, ConsWrapR, Goto, TypeOK, InCrit, ProdCrit, ConsCrit
  <2>2. ~SetVals
    BY <1>8 DEF ProdStore, ProdIncW, ProdWrapW, ProdIncL, ProdWrapL, ConsFetch,
                ConsIncR, ConsWrapR, mainVars, SetVals
  <2>3. QED BY <1>1, <2>1, <2>2
<1>9. ASSUME NEW p \in Proc, SemopFails(p) \/ Kill(p)
      PROVE  SlotsInv'
  <2>1. /\ semval'["FULL"] = Clamp(semval["FULL"] + semadj[p]["FULL"])
        /\ semval'["EMPT"] = Clamp(semval["EMPT"] + semadj[p]["EMPT"])
        /\ semadj'[p]["FULL"] = 0 /\ semadj'[p]["EMPT"] = 0
        /\ \A q \in Proc \ {p} : semadj'[q] = semadj[q]
    BY <1>9, ExitEffect DEF SemopFails, Kill, Sem
  <2>2. ~InCrit(p)' /\ \A q \in Proc \ {p} : InCrit(q)' = InCrit(q)
    BY <1>9 DEF TypeOK, SemopFails, Kill, InCrit, ProdCrit, ConsCrit
  <2>3. SetUp
    BY <1>9 DEF SemopFails, Kill, SetUp, Running
  <2>4. Sum' >= QUEUE_SIZE \/ Sum' >= Sum + Adj(p)
    BY <2>1 DEF Clamp, TypeOK, Sem
  <2>5. Held' >= Held - Adj(p)
    BY <2>2 DEF Held, Busy
  <2>6. Held \in 0 .. 1 /\ Held' \in 0 .. 1 /\ Adj(p) \in 0 .. 1
    BY DEF Held
  <2>7. Sum \in Int /\ Sum' \in Int
    BY <2>1 DEF TypeOK, Sem, Clamp
  <2>8. SetUp' => Sum' + Held' >= QUEUE_SIZE
    BY <2>3, <2>4, <2>5, <2>6, <2>7
  <2>9. QED BY <2>1, <2>2, <2>8
<1>10. QED
  BY <1>2, <1>3, <1>4, <1>5, <1>6, <1>7, <1>8, <1>9
     DEF Next, Parent, Child, Producer, Consumer

-----------------------------------------------------------------------------
(* The invariant holds at the start.                                       *)
LEMMA InitInv == Init => IInv
<1> SUFFICES ASSUME Init PROVE IInv OBVIOUS
<1> USE SizesAssumption DEF Init
<1>1. TypeOK
  BY DEF TypeOK, NoUndo, Cell, Base, BSize, LettersEnd
<1>2. PcOK
  BY DEF PcOK, Proc
<1>3. LockInv
  BY DEF LockInv, MutualExclusion, InCrit, ProdCrit, ConsCrit, NoUndo, Sem, SetUp, Running
<1>4. MainInv
  BY DEF MainInv, Running
<1>5. IndexInv
  BY DEF IndexInv, Base, BSize
<1>6. SlotsInv
  BY DEF SlotsInv, InCrit, ProdCrit, ConsCrit, NoUndo, Sem, SetUp, Running
<1>7. QED BY <1>1, <1>2, <1>3, <1>4, <1>5, <1>6 DEF IInv

(* The invariant of the program.                                           *)
LEMMA Invariance == Spec => []IInv
<1>1. IInv /\ [Next]_vars => IInv'
  BY TypeStep, PcStep, LockStep, MainStep, IndexStep, SlotsStep DEF IInv
<1>2. QED BY InitInv, <1>1, PTL DEF Spec

(* Type correctness, with the ranges of the indices: prod_func and         *)
(* cons_func leave buf[1], buf[2] and buf[0] at most one too high for each *)
(* child that was killed.                                                  *)
THEOREM TypeCorrect == Spec => []TypeOK
<1>1. IInv => TypeOK BY DEF IInv
<1>2. QED BY Invariance, <1>1, PTL

(* At most one of the children is ever between its two semops, however     *)
(* many were killed, and wherever.                                         *)
THEOREM Exclusion == Spec => []MutualExclusion
<1>1. IInv => MutualExclusion BY DEF IInv, LockInv
<1>2. QED BY Invariance, <1>1, PTL

(* No death leaves BIN taken: the semaphore is 1 when nobody is inside.    *)
THEOREM LockComesBack == Spec => []LockNotLeaked
<1>1. IInv => LockNotLeaked BY DEF IInv, LockInv, LockNotLeaked, Working, SetUp
<1>2. QED BY Invariance, <1>1, PTL

(* No death takes a place of the queue away for good.                      *)
THEOREM PlacesComeBack == Spec => []SlotsNeverLost
<1>1. IInv => SlotsNeverLost
  BY DEF IInv, SlotsInv, SlotsNeverLost, Held, Busy, Working, SetUp
<1>2. QED BY Invariance, <1>1, PTL

(* A child inside goes on; if there is none, BIN is free, and a producer   *)
(* finds a place or a consumer a letter.                                   *)
THEOREM NoStandstill == Spec => []NeverAllAsleep
<1>1. IInv => NeverAllAsleep
  <2> SUFFICES ASSUME IInv, NEW p \in Producers, NEW q \in Consumers,
                      Running(p), Running(q)
               PROVE  \E r \in Proc : Running(r) /\ ~Asleep(r)
    BY DEF NeverAllAsleep
  <2>1. CASE \E r \in Proc : InCrit(r)
    BY <2>1 DEF InCrit, ProdCrit, ConsCrit, Running, Asleep
  <2>2. CASE \A r \in Proc : ~InCrit(r)
    <3>1. p \in Proc /\ q \in Proc /\ pc[p] = "ppre" /\ pc[q] = "cpre" /\ SetUp
      BY <2>2 DEF IInv, PcOK, Running, InCrit, SetUp, Proc
    <3>2. semval["BIN"] = 1 /\ semval["FULL"] + semval["EMPT"] >= QUEUE_SIZE
      BY <2>2, <3>1 DEF IInv, LockInv, SlotsInv, Held, Busy, TypeOK, Sem
    <3>3. semval["EMPT"] # 0 \/ semval["FULL"] # 0
      BY <3>2, SizesAssumption
    <3>4. ~Asleep(p) \/ ~Asleep(q)
      BY <3>1, <3>2, <3>3 DEF Asleep, Blocks, prod_pre, cons_pre
    <3> QED BY <3>1, <3>4
  <2> QED BY <2>1, <2>2
<1> QED BY <1>1, Invariance, PTL

(* No death takes away what the others need.                               *)
THEOREM DeathsHarmless == Spec => []DeathsTakeNothing
<1> QED BY LockComesBack, PlacesComeBack, NoStandstill, PTL DEF DeathsTakeNothing

(* Every access to the ring is inside it as long as nobody was killed.     *)
THEOREM AccessesInRing == Spec => []InsideRing
<1>1. IInv => InsideRing
  <2> SUFFICES ASSUME IInv, kills = 0, NEW p \in Proc
               PROVE  /\ pc[p] = "store" => widx \in Base .. BSize - 1
                      /\ pc[p] = "fetch" => ridx \in Base .. BSize - 1
    BY DEF InsideRing
  <2>1. QED BY Alone, SizesAssumption DEF InCrit, ProdCrit, ConsCrit, Base, BSize
<1>2. QED BY Invariance, <1>1, PTL

(* main removes the semaphores and the memory under no running child.      *)
THEOREM RemovalIsSafe == Spec => []RemovedWhenQuiet
<1>1. IInv => RemovedWhenQuiet
  BY DEF IInv, MainInv, RemovedWhenQuiet
<1>2. QED BY Invariance, <1>1, PTL

-----------------------------------------------------------------------------
(* ProdCons implements BoundedBuffer until the first child ends, for any   *)
(* number of producers and consumers, any queue and any alphabet.          *)

(* At most one child is inside, so what the mapping says of the children   *)
(* together depends on the place l of this one.                            *)
Stored(l) == IF l \in {"fetch"} \cup (ProdCrit \ {"store"}) THEN 1 ELSE 0
HeadAt(l, r) == IF l = "incR" THEN WrapIdx(r + 1) ELSE WrapIdx(r)
TailAt(l, w) == IF l = "incW" THEN WrapIdx(w + 1) ELSE WrapIdx(w)
NextAt(l, c) ==
  IF l \in {"incW", "wrapW", "incL"}
  THEN IF c >= Letters THEN 1 ELSE c + 1
  ELSE IF c > Letters \/ c = 0 THEN 1 ELSE c

(* A place of the ring that is neither in the queue nor counted by EMPT.   *)
Taken(l) == IF l \in {"store", "incR", "wrapR", "cpost"} THEN 1 ELSE 0

QueueTail == IF At({"incW"}) THEN WrapIdx(widx + 1) ELSE WrapIdx(widx)
Places == IF At({"store", "incR", "wrapR", "cpost"}) THEN 1 ELSE 0

(* Until a child ends, the queue and the free places fill the ring, and    *)
(* the queue ends where the next letter is stored.                         *)
RingInv ==
  gone = {} =>
    /\ kills = 0
    /\ main \in {"semget", "setval", "shmget", "shmat"} => letter = 0
    /\ letter = 0 => semval["FULL"] = 0
    /\ main \in {"shmget", "shmat"} => semval["EMPT"] = QUEUE_SIZE
    /\ letter # 0 => /\ QueueLen + semval["EMPT"] + Places = QUEUE_SIZE
                     /\ WrapIdx(QueueHead + QueueLen) = QueueTail
    /\ \A p \in Proc : /\ pc[p] = "wrapL" => letter > Letters
                       /\ pc[p] = "wrapR" => ridx >= BSize
                       /\ pc[p] = "wrapW" => widx >= BSize

Crit == ProdCrit \cup ConsCrit

(* The mapping, as it depends on the one child p that may be inside; and   *)
(* the same after a step of p.                                             *)
LEMMA AtOne ==
  ASSUME NEW p \in Proc, \A q \in Proc \ {p} : ~InCrit(q),
         semval["FULL"] \in Int
  PROVE  /\ QueueLen = semval["FULL"] + Stored(pc[p])
         /\ QueueHead = HeadAt(pc[p], ridx)
         /\ QueueTail = TailAt(pc[p], widx)
         /\ NextLetter = NextAt(pc[p], letter)
         /\ Places = Taken(pc[p])
<1>1. ASSUME NEW L \in SUBSET Crit PROVE At(L) <=> pc[p] \in L
  BY <1>1 DEF At, InCrit, Crit
<1>2. QueueLen = semval["FULL"] + Stored(pc[p])
  <2>1. At({"fetch"}) <=> pc[p] = "fetch"
    BY <1>1 DEF Crit, ConsCrit
  <2>2. At(ProdCrit \ {"store"}) <=> pc[p] \in ProdCrit \ {"store"}
    BY <1>1 DEF Crit
  <2>3. pc[p] = "fetch" => pc[p] \notin ProdCrit
    BY DEF ProdCrit
  <2> QED BY <2>1, <2>2, <2>3 DEF QueueLen, Stored
<1>3. QueueHead = HeadAt(pc[p], ridx)
  BY <1>1 DEF Crit, ConsCrit, QueueHead, HeadAt
<1>4. QueueTail = TailAt(pc[p], widx)
  BY <1>1 DEF Crit, ProdCrit, QueueTail, TailAt
<1>5. NextLetter = NextAt(pc[p], letter)
  BY <1>1 DEF Crit, ProdCrit, NextLetter, NextAt
<1>6. Places = Taken(pc[p])
  BY <1>1 DEF Crit, ProdCrit, ConsCrit, Places, Taken
<1> QED BY <1>2, <1>3, <1>4, <1>5, <1>6

LEMMA AtOneNext ==
  ASSUME NEW p \in Proc, (\A q \in Proc \ {p} : ~InCrit(q))',
         semval'["FULL"] \in Int
  PROVE  /\ QueueLen' = semval'["FULL"] + Stored(pc'[p])
         /\ QueueHead' = HeadAt(pc'[p], ridx')
         /\ QueueTail' = TailAt(pc'[p], widx')
         /\ NextLetter' = NextAt(pc'[p], letter')
         /\ Places' = Taken(pc'[p])
<1>1. ASSUME NEW L \in SUBSET Crit PROVE At(L)' <=> pc'[p] \in L
  BY <1>1 DEF At, InCrit, Crit
<1>2. QueueLen' = semval'["FULL"] + Stored(pc'[p])
  <2>1. At({"fetch"})' <=> pc'[p] = "fetch"
    BY <1>1 DEF Crit, ConsCrit
  <2>2. At(ProdCrit \ {"store"})' <=> pc'[p] \in ProdCrit \ {"store"}
    BY <1>1 DEF Crit
  <2>3. pc'[p] = "fetch" => pc'[p] \notin ProdCrit
    BY DEF ProdCrit
  <2> QED BY <2>1, <2>2, <2>3 DEF QueueLen, Stored
<1>3. QueueHead' = HeadAt(pc'[p], ridx')
  BY <1>1 DEF Crit, ConsCrit, QueueHead, HeadAt, WrapIdx
<1>4. QueueTail' = TailAt(pc'[p], widx')
  BY <1>1 DEF Crit, ProdCrit, QueueTail, TailAt, WrapIdx
<1>5. NextLetter' = NextAt(pc'[p], letter')
  BY <1>1 DEF Crit, ProdCrit, NextLetter, NextAt
<1>6. Places' = Taken(pc'[p])
  BY <1>1 DEF Crit, ProdCrit, ConsCrit, Places, Taken
<1> QED BY <1>2, <1>3, <1>4, <1>5, <1>6

(* Without children inside, forking and waiting change nothing the mapping *)
(* looks at; nor do the steps of main.                                     *)
LEMMA AtKept ==
  ASSUME \A q \in Proc : pc'[q] # pc[q] => ~InCrit(q) /\ ~InCrit(q)'
  PROVE  \A L \in SUBSET Crit : At(L)' <=> At(L)
BY DEF At, InCrit, Crit

-----------------------------------------------------------------------------
(* Sequences: when one is another with a letter more at its end, or less   *)
(* at its beginning.                                                       *)

LEMMA IsAppend ==
  ASSUME NEW S, NEW s \in Seq(S), NEW t \in Seq(S), NEW x \in S,
         Len(t) = Len(s) + 1,
         \A k \in 1 .. Len(s) : t[k] = s[k],
         t[Len(s) + 1] = x
  PROVE  t = Append(s, x)
<1>1. /\ Append(s, x) \in Seq(S)
      /\ Len(Append(s, x)) = Len(s) + 1
      /\ \A k \in 1 .. Len(s) : Append(s, x)[k] = s[k]
      /\ Append(s, x)[Len(s) + 1] = x
  BY AppendProperties
<1>2. \A k \in 1 .. Len(t) : t[k] = Append(s, x)[k]
  BY <1>1, LenProperties
<1> QED BY <1>1, <1>2, SeqEqual

LEMMA IsTail ==
  ASSUME NEW S, NEW s \in Seq(S), NEW t \in Seq(S),
         Len(s) = Len(t) + 1,
         \A k \in 1 .. Len(t) : t[k] = s[k + 1]
  PROVE  s # <<>> /\ t = Tail(s)
<1>1. s # <<>>
  BY LenProperties, EmptySeq
<1>2. /\ Tail(s) \in Seq(S)
      /\ Len(Tail(s)) = Len(s) - 1
      /\ \A k \in 1 .. Len(Tail(s)) : Tail(s)[k] = s[k + 1]
  BY <1>1, HeadTailProperties
<1>3. Len(t) \in Nat /\ Len(t) = Len(Tail(s))
  BY <1>2, LenProperties
<1>4. \A k \in 1 .. Len(t) : t[k] = Tail(s)[k]
  BY <1>2, <1>3
<1> QED BY <1>1, <1>2, <1>3, <1>4, SeqEqual

-----------------------------------------------------------------------------
(* The ring.                                                               *)

InRing(i) == i \in Base .. BSize - 1

(* Places of the ring that are less than its size apart are different.     *)
LEMMA WrapDiffers ==
  ASSUME NEW h \in Int, InRing(h), NEW k \in Nat, NEW m \in Nat,
         k < m, m < QUEUE_SIZE
  PROVE  WrapIdx(h + k) # WrapIdx(h + m)
BY SizesAssumption DEF WrapIdx, InRing, Base, BSize

LEMMA WrapInRing ==
  ASSUME NEW h \in Int, InRing(h), NEW k \in Nat, k <= QUEUE_SIZE
  PROVE  InRing(WrapIdx(h + k)) /\ WrapIdx(h + k) \in Int
BY SizesAssumption DEF WrapIdx, InRing, Base, BSize

(* One place further, from the beginning or at the end of the queue.       *)
LEMMA WrapStep ==
  ASSUME NEW h \in Int, InRing(h), NEW k \in Nat, k < QUEUE_SIZE
  PROVE  /\ WrapIdx(h + (k + 1)) = WrapIdx(WrapIdx(h + k) + 1)
         /\ WrapIdx(h + (k + 1)) = WrapIdx(WrapIdx(h + 1) + k)
BY SizesAssumption DEF WrapIdx, InRing, Base, BSize

(* The queue is a sequence of letters.                                     *)
Values == 0 .. Letters + MaxKills

RingSeq(s, h, n) == [k \in 1 .. n |-> s[WrapIdx(h + k - 1)]]

LEMMA QueueSeq ==
  ASSUME NEW h \in Int, InRing(h), NEW n \in Nat, n <= QUEUE_SIZE,
         NEW s \in [Cell -> Values]
  PROVE  /\ RingSeq(s, h, n) \in Seq(Values)
         /\ Len(RingSeq(s, h, n)) = n
         /\ \A k \in 1 .. n : RingSeq(s, h, n)[k] = s[WrapIdx(h + (k - 1))]
<1> DEFINE q == RingSeq(s, h, n)
<1>1. ASSUME NEW k \in 1 .. n
      PROVE  /\ s[WrapIdx(h + k - 1)] \in Values
             /\ s[WrapIdx(h + k - 1)] = s[WrapIdx(h + (k - 1))]
  <2>1. h + k - 1 = h + (k - 1) /\ k - 1 \in Nat /\ k - 1 <= QUEUE_SIZE
    BY SizesAssumption
  <2>2. InRing(WrapIdx(h + (k - 1)))
    BY <2>1, WrapInRing
  <2>3. WrapIdx(h + (k - 1)) \in Cell
    BY <2>2, SizesAssumption DEF InRing, Cell, Base, BSize
  <2> QED BY <2>1, <2>3
<1>2. q \in Seq(Values)
  BY <1>1, SeqDef DEF RingSeq
<1>3. Len(q) = n
  <2>1. DOMAIN q = 1 .. n
    BY DEF RingSeq
  <2>2. DOMAIN q = 1 .. Len(q) /\ Len(q) \in Nat
    BY <1>2, LenProperties
  <2> QED BY <2>1, <2>2
<1>4. \A k \in 1 .. n : q[k] = s[WrapIdx(h + (k - 1))]
  BY <1>1 DEF RingSeq
<1> QED BY <1>2, <1>3, <1>4

-----------------------------------------------------------------------------
(* The steps of the children.                                              *)

WrapsOK ==
  \A p \in Proc : /\ pc[p] = "wrapL" => letter > Letters
                  /\ pc[p] = "wrapR" => ridx >= BSize
                  /\ pc[p] = "wrapW" => widx >= BSize

(* What p finds: it is alone, or enters alone, and each index is in the    *)
(* ring unless p itself has to wrap it.                                    *)
LEMMA Before ==
  ASSUME IInv, RingInv, gone = {}, NEW p \in Proc, Producer(p) \/ Consumer(p)
  PROVE  /\ \A q \in Proc \ {p} : ~InCrit(q)
         /\ (\A q \in Proc \ {p} : ~InCrit(q))'
         /\ letter \in 1 .. LettersEnd
         /\ ridx \in Base .. BSize /\ widx \in Base .. BSize
         /\ IF pc[p] = "wrapL" THEN letter = LettersEnd ELSE letter <= Letters
         /\ IF pc[p] = "wrapR" THEN ridx = BSize ELSE ridx <= BSize - 1
         /\ IF pc[p] = "wrapW" THEN widx = BSize ELSE widx <= BSize - 1
         /\ semval["FULL"] \in Nat /\ semval["EMPT"] \in Nat
<1> USE SizesAssumption
<1> DEFINE Others == \A q \in Proc \ {p} : ~InCrit(q)
<1>1. Others
  <2>1. CASE ProdPre(p) \/ ConsPre(p)
    <3>1. semval["BIN"] # 0
      BY <2>1 DEF ProdPre, ConsPre, Semop, Blocks, prod_pre, cons_pre
    <3> QED BY <3>1 DEF IInv, LockInv
  <2>2. CASE InCrit(p)
    BY <2>2 DEF IInv, LockInv, MutualExclusion
  <2> QED
    BY <2>1, <2>2 DEF Producer, Consumer, ProdStore, ProdIncW, ProdWrapW,
       ProdIncL, ProdWrapL, ProdPost, ConsFetch, ConsIncR, ConsWrapR, ConsPost,
       Goto, InCrit, ProdCrit, ConsCrit
<1>2. \A q \in Proc \ {p} : pc'[q] = pc[q]
  BY DEF Producer, Consumer, ProdPre, ProdStore, ProdIncW, ProdWrapW, ProdIncL,
     ProdWrapL, ProdPost, ConsPre, ConsFetch, ConsIncR, ConsWrapR, ConsPost,
     Goto, IInv, TypeOK
<1>3. Others'
  BY <1>1, <1>2 DEF InCrit
<1>4. pc[p] # "unborn"
  BY DEF Producer, Consumer, ProdPre, ProdStore, ProdIncW, ProdWrapW, ProdIncL,
     ProdWrapL, ProdPost, ConsPre, ConsFetch, ConsIncR, ConsWrapR, ConsPost, Goto
<1>5. \A q \in Proc \ {p} : pc[q] \notin {"wrapL", "wrapR", "wrapW"}
  BY <1>1 DEF InCrit, ProdCrit, ConsCrit
<1>6. kills = 0 /\ WrapsOK
  BY DEF RingInv, WrapsOK
<1>7. /\ letter \in 1 .. LettersEnd
      /\ ridx \in Base .. BSize /\ widx \in Base .. BSize
  BY <1>4, <1>6 DEF IInv, IndexInv, LettersEnd, Base, BSize
<1>8. /\ pc[p] # "wrapL" => letter <= Letters
      /\ pc[p] # "wrapR" => ridx <= BSize - 1
      /\ pc[p] # "wrapW" => widx <= BSize - 1
  BY <1>5, <1>6 DEF IInv, IndexInv, Base, BSize
<1>9. /\ pc[p] = "wrapL" => letter = LettersEnd
      /\ pc[p] = "wrapR" => ridx = BSize
      /\ pc[p] = "wrapW" => widx = BSize
  BY <1>6, <1>7 DEF WrapsOK, LettersEnd, Base, BSize
<1>10. semval["FULL"] \in Nat /\ semval["EMPT"] \in Nat
  BY DEF IInv, TypeOK, Sem
<1> QED BY <1>1, <1>3, <1>7, <1>8, <1>9, <1>10

(* A step that changes neither the queue nor what surrounds it.            *)
Same ==
  /\ UNCHANGED <<QueueLen, QueueHead, QueueTail, NextLetter, slot, printed>>
  /\ semval'["EMPT"] + Places' = semval["EMPT"] + Places

(* The semaphores that count, after each semop.                            *)
LEMMA Counted ==
  ASSUME IInv, NEW p \in Proc
  PROVE  /\ ProdPre(p) => /\ semval'["FULL"] = semval["FULL"]
                          /\ semval'["EMPT"] = semval["EMPT"] - 1
         /\ ProdPost(p) => /\ semval'["FULL"] = semval["FULL"] + 1
                           /\ semval'["EMPT"] = semval["EMPT"]
         /\ ConsPre(p) => /\ semval'["FULL"] = semval["FULL"] - 1
                          /\ semval'["EMPT"] = semval["EMPT"]
         /\ ConsPost(p) => /\ semval'["FULL"] = semval["FULL"]
                           /\ semval'["EMPT"] = semval["EMPT"] + 1
<1> USE DEF Sem, Semop, Delta, IInv, TypeOK
<1>1. ProdPre(p) => /\ semval'["FULL"] = semval["FULL"]
                    /\ semval'["EMPT"] = semval["EMPT"] - 1
  BY DEF ProdPre, prod_pre
<1>2. ProdPost(p) => /\ semval'["FULL"] = semval["FULL"] + 1
                     /\ semval'["EMPT"] = semval["EMPT"]
  BY DEF ProdPost, prod_post
<1>3. ConsPre(p) => /\ semval'["FULL"] = semval["FULL"] - 1
                    /\ semval'["EMPT"] = semval["EMPT"]
  BY DEF ConsPre, cons_pre
<1>4. ConsPost(p) => /\ semval'["FULL"] = semval["FULL"]
                     /\ semval'["EMPT"] = semval["EMPT"] + 1
  BY DEF ConsPost, cons_post
<1> QED BY <1>1, <1>2, <1>3, <1>4

(* The mapping before and after a step of p, by the places of p.           *)
LEMMA AtSteps ==
  ASSUME IInv, RingInv, gone = {}, NEW p \in Proc, Producer(p) \/ Consumer(p)
  PROVE  /\ QueueLen = semval["FULL"] + Stored(pc[p])
         /\ QueueHead = HeadAt(pc[p], ridx)
         /\ QueueTail = TailAt(pc[p], widx)
         /\ NextLetter = NextAt(pc[p], letter)
         /\ Places = Taken(pc[p])
         /\ QueueLen' = semval'["FULL"] + Stored(pc'[p])
         /\ QueueHead' = HeadAt(pc'[p], ridx')
         /\ QueueTail' = TailAt(pc'[p], widx')
         /\ NextLetter' = NextAt(pc'[p], letter')
         /\ Places' = Taken(pc'[p])
<1>1. semval["FULL"] \in Int
  BY Before
<1>2. semval'["FULL"] \in Int
  <2>1. \/ ProdPre(p) \/ ProdPost(p) \/ ConsPre(p) \/ ConsPost(p)
        \/ UNCHANGED semval
    BY DEF Producer, Consumer, ProdStore, ProdIncW, ProdWrapW, ProdIncL,
       ProdWrapL, ConsFetch, ConsIncR, ConsWrapR, semVars
  <2> QED BY <1>1, <2>1, Counted
<1>3. \A q \in Proc \ {p} : ~InCrit(q)
  BY Before
<1>4. (\A q \in Proc \ {p} : ~InCrit(q))'
  BY Before
<1>5. /\ QueueLen = semval["FULL"] + Stored(pc[p])
      /\ QueueHead = HeadAt(pc[p], ridx)
      /\ QueueTail = TailAt(pc[p], widx)
      /\ NextLetter = NextAt(pc[p], letter)
      /\ Places = Taken(pc[p])
  BY <1>1, <1>3, AtOne
<1>6. /\ QueueLen' = semval'["FULL"] + Stored(pc'[p])
      /\ QueueHead' = HeadAt(pc'[p], ridx')
      /\ QueueTail' = TailAt(pc'[p], widx')
      /\ NextLetter' = NextAt(pc'[p], letter')
      /\ Places' = Taken(pc'[p])
  BY <1>2, <1>4, AtOneNext
<1> QED BY <1>5, <1>6

(* All the steps of the children but the store and the fetch.              *)
LEMMA QuietSteps ==
  ASSUME IInv, RingInv, gone = {}, NEW p \in Proc, Producer(p) \/ Consumer(p),
         ~ProdStore(p), ~ConsFetch(p)
  PROVE  Same
<1> USE SizesAssumption
<1>a. /\ QueueLen = semval["FULL"] + Stored(pc[p])
      /\ QueueHead = HeadAt(pc[p], ridx)
      /\ QueueTail = TailAt(pc[p], widx)
      /\ NextLetter = NextAt(pc[p], letter)
      /\ Places = Taken(pc[p])
  BY AtSteps
<1>b. /\ QueueLen' = semval'["FULL"] + Stored(pc'[p])
      /\ QueueHead' = HeadAt(pc'[p], ridx')
      /\ QueueTail' = TailAt(pc'[p], widx')
      /\ NextLetter' = NextAt(pc'[p], letter')
      /\ Places' = Taken(pc'[p])
  BY AtSteps
<1>c. /\ letter \in 1 .. LettersEnd
      /\ ridx \in Base .. BSize /\ widx \in Base .. BSize
      /\ IF pc[p] = "wrapL" THEN letter = LettersEnd ELSE letter <= Letters
      /\ IF pc[p] = "wrapR" THEN ridx = BSize ELSE ridx <= BSize - 1
      /\ IF pc[p] = "wrapW" THEN widx = BSize ELSE widx <= BSize - 1
      /\ semval["FULL"] \in Nat /\ semval["EMPT"] \in Nat
  BY Before
<1>d. pc \in [Proc -> {"unborn", "ppre", "cpre", "gone"} \cup ProdCrit \cup ConsCrit]
  BY DEF IInv, TypeOK
<1> USE <1>a, <1>b, <1>c, <1>d
        DEF Same, Goto, Stored, HeadAt, TailAt, NextAt, Taken, ProdCrit
<1>1. CASE ProdPre(p)
  <2>1. /\ pc[p] = "ppre" /\ pc'[p] = "store"
        /\ UNCHANGED <<letter, ridx, widx, slot, printed>>
    BY <1>1 DEF ProdPre, bufVars
  <2> QED BY <1>1, <2>1, Counted
<1>2. CASE ProdPost(p)
  <2>1. /\ pc[p] = "ppost" /\ pc'[p] = "ppre"
        /\ UNCHANGED <<letter, ridx, widx, slot, printed>>
    BY <1>2 DEF ProdPost, bufVars
  <2> QED BY <1>2, <2>1, Counted
<1>3. CASE ConsPre(p)
  <2>1. /\ pc[p] = "cpre" /\ pc'[p] = "fetch"
        /\ UNCHANGED <<letter, ridx, widx, slot, printed>>
    BY <1>3 DEF ConsPre, bufVars
  <2> QED BY <1>3, <2>1, Counted
<1>4. CASE ConsPost(p)
  <2>1. /\ pc[p] = "cpost" /\ pc'[p] = "cpre"
        /\ UNCHANGED <<letter, ridx, widx, slot, printed>>
    BY <1>4 DEF ConsPost, bufVars
  <2> QED BY <1>4, <2>1, Counted
<1>5. CASE ProdIncW(p)
  <2>1. /\ pc[p] = "incW" /\ pc'[p] \in {"wrapW", "incL"}
        /\ widx' = widx + 1
        /\ UNCHANGED <<semVars, letter, ridx, slot, printed>>
    BY <1>5 DEF ProdIncW
  <2> QED BY <2>1 DEF semVars
<1>6. CASE ProdWrapW(p)
  <2>1. /\ pc[p] = "wrapW" /\ pc'[p] = "incL"
        /\ widx' = Base /\ widx = BSize
        /\ UNCHANGED <<semVars, letter, ridx, slot, printed>>
    BY <1>6 DEF ProdWrapW
  <2>2. WrapIdx(BSize) = Base /\ WrapIdx(Base) = Base
    BY DEF WrapIdx, Base, BSize
  <2> QED BY <2>1, <2>2 DEF semVars
<1>7. CASE ProdIncL(p)
  <2>1. /\ pc[p] = "incL"
        /\ pc'[p] \in {"wrapL", "ppost"}
        /\ letter' = letter + 1
        /\ UNCHANGED <<semVars, ridx, widx, slot, printed>>
    BY <1>7 DEF ProdIncL
  <2> QED BY <2>1 DEF semVars
<1>8. CASE ProdWrapL(p)
  <2>1. /\ pc[p] = "wrapL" /\ pc'[p] = "ppost"
        /\ letter' = 1 /\ letter = LettersEnd
        /\ UNCHANGED <<semVars, ridx, widx, slot, printed>>
    BY <1>8 DEF ProdWrapL
  <2> QED BY <2>1 DEF semVars, LettersEnd
<1>9. CASE ConsIncR(p)
  <2>1. /\ pc[p] = "incR" /\ pc'[p] \in {"wrapR", "cpost"}
        /\ ridx' = ridx + 1
        /\ UNCHANGED <<semVars, letter, widx, slot, printed>>
    BY <1>9 DEF ConsIncR
  <2> QED BY <2>1 DEF semVars
<1>10. CASE ConsWrapR(p)
  <2>1. /\ pc[p] = "wrapR" /\ pc'[p] = "cpost"
        /\ ridx' = Base /\ ridx = BSize
        /\ UNCHANGED <<semVars, letter, widx, slot, printed>>
    BY <1>10 DEF ConsWrapR
  <2>2. WrapIdx(BSize) = Base /\ WrapIdx(Base) = Base
    BY DEF WrapIdx, Base, BSize
  <2> QED BY <2>1, <2>2 DEF semVars
<1> QED
  BY <1>1, <1>2, <1>3, <1>4, <1>5, <1>6, <1>7, <1>8, <1>9, <1>10
     DEF Producer, Consumer

(* The store puts the next letter behind the queue: no letter of the queue *)
(* is overwritten.                                                         *)
LEMMA StoreStep ==
  ASSUME IInv, RingInv, gone = {}, NEW p \in Proc, ProdStore(p)
  PROVE  /\ Buffer!Put
         /\ QueueLen' + semval'["EMPT"] + Places' = QUEUE_SIZE
         /\ WrapIdx(QueueHead + QueueLen)' = QueueTail'
<1> USE SizesAssumption
<1>0. Producer(p)
  BY DEF Producer
<1>1. /\ pc[p] = "store" /\ pc'[p] = "incW"
      /\ slot' = [slot EXCEPT ![widx] = letter]
      /\ UNCHANGED <<semval, letter, ridx, widx, printed>>
  BY DEF ProdStore, Goto, semVars, IInv, TypeOK
<1>2. /\ letter \in 1 .. Letters
      /\ ridx \in Base .. BSize - 1 /\ widx \in Base .. BSize - 1
      /\ semval["FULL"] \in Nat /\ semval["EMPT"] \in Nat
  BY <1>0, <1>1, Before DEF LettersEnd, Base, BSize
<1>3. /\ QueueLen = semval["FULL"] /\ QueueLen' = semval["FULL"] + 1
      /\ QueueHead = ridx /\ QueueHead' = ridx
      /\ QueueTail = widx /\ QueueTail' = WrapIdx(widx + 1)
      /\ NextLetter = letter
      /\ NextLetter' = IF letter >= Letters THEN 1 ELSE letter + 1
      /\ Places = 1 /\ Places' = 0
  <2>1. WrapIdx(ridx) = ridx /\ WrapIdx(widx) = widx
    BY <1>2 DEF WrapIdx, Base, BSize
  <2> QED
    BY <1>0, <1>1, <1>2, <2>1, AtSteps
       DEF Stored, HeadAt, TailAt, NextAt, Taken, ProdCrit
<1> DEFINE n == semval["FULL"]
<1>4. /\ n + semval["EMPT"] + 1 = QUEUE_SIZE
      /\ WrapIdx(ridx + n) = widx
  BY <1>2, <1>3 DEF RingInv
<1>5. n \in Nat /\ n < QUEUE_SIZE /\ n + 1 <= QUEUE_SIZE
  BY <1>2, <1>4
<1>6. ridx \in Int /\ InRing(ridx)
  BY <1>2 DEF InRing, Base, BSize
<1>7. slot \in [Cell -> Values] /\ slot' \in [Cell -> Values]
  <2>1. slot \in [Cell -> Values]
    BY DEF IInv, TypeOK, Values
  <2>2. letter \in Values
    BY <1>2 DEF Values
  <2> QED BY <1>1, <2>1, <2>2
<1> HIDE DEF n
<1>8. Queue = RingSeq(slot, ridx, n)
  BY <1>3 DEF Queue, n, RingSeq
<1>9. Queue' = RingSeq(slot', ridx, n + 1)
  BY <1>3 DEF Queue, n, WrapIdx, RingSeq
<1>10. /\ Queue \in Seq(Values) /\ Len(Queue) = n
       /\ \A k \in 1 .. n : Queue[k] = slot[WrapIdx(ridx + (k - 1))]
  BY <1>5, <1>6, <1>7, <1>8, QueueSeq
<1>11. /\ Queue' \in Seq(Values) /\ Len(Queue') = n + 1
       /\ \A k \in 1 .. n + 1 : Queue'[k] = slot'[WrapIdx(ridx + (k - 1))]
  BY <1>5, <1>6, <1>7, <1>9, QueueSeq
<1>12. \A k \in 1 .. n : Queue'[k] = Queue[k]
  <2> TAKE k \in 1 .. n
  <2>1. k - 1 \in Nat /\ k - 1 < n /\ k \in 1 .. n + 1 /\ k - 1 <= QUEUE_SIZE
    BY <1>5
  <2>2. WrapIdx(ridx + (k - 1)) # widx
    BY <1>4, <1>5, <1>6, <2>1, WrapDiffers DEF n
  <2>3. slot'[WrapIdx(ridx + (k - 1))] = slot[WrapIdx(ridx + (k - 1))]
    BY <1>1, <1>7, <2>2
  <2> QED BY <1>10, <1>11, <2>1, <2>3
<1>13. Queue'[n + 1] = letter
  <2>1. n + 1 \in 1 .. n + 1 /\ ridx + ((n + 1) - 1) = ridx + n
    BY <1>5, <1>6
  <2>2. Queue'[n + 1] = slot'[WrapIdx(ridx + n)]
    BY <1>11, <2>1
  <2>3. widx \in Cell
    BY <1>2 DEF Cell, Base, BSize
  <2>4. WrapIdx(ridx + n) = widx
    BY <1>4 DEF n
  <2> QED BY <1>1, <1>7, <2>2, <2>3, <2>4
<1>14. Queue' = Append(Queue, letter)
  <2>1. letter \in Values
    BY <1>2 DEF Values
  <2> QED BY <1>10, <1>11, <1>12, <1>13, <2>1, IsAppend
<1>15. Buffer!Put
  BY <1>1, <1>3, <1>5, <1>10, <1>14 DEF Buffer!Put, Buffer!Succ
<1>16. QueueLen' + semval'["EMPT"] + Places' = QUEUE_SIZE
  BY <1>1, <1>2, <1>3, <1>4 DEF n
<1>17. WrapIdx(QueueHead + QueueLen)' = QueueTail'
  <2>1. WrapIdx(ridx + (n + 1)) = WrapIdx(WrapIdx(ridx + n) + 1)
    BY <1>5, <1>6, WrapStep
  <2> QED BY <1>3, <1>4, <2>1 DEF n, WrapIdx
<1> QED BY <1>15, <1>16, <1>17

(* The fetch takes the first letter of the queue.                          *)
LEMMA FetchStep ==
  ASSUME IInv, RingInv, gone = {}, NEW p \in Proc, ConsFetch(p)
  PROVE  /\ Buffer!Get
         /\ QueueLen' + semval'["EMPT"] + Places' = QUEUE_SIZE
         /\ WrapIdx(QueueHead + QueueLen)' = QueueTail'
<1> USE SizesAssumption
<1>0. Consumer(p)
  BY DEF Consumer
<1>1. /\ pc[p] = "fetch" /\ pc'[p] = "incR"
      /\ printed' = slot[ridx]
      /\ UNCHANGED <<semval, letter, ridx, widx, slot>>
  BY DEF ConsFetch, Goto, semVars, bufVars, IInv, TypeOK
<1>2. /\ letter \in 1 .. Letters
      /\ ridx \in Base .. BSize - 1 /\ widx \in Base .. BSize - 1
      /\ semval["FULL"] \in Nat /\ semval["EMPT"] \in Nat
  BY <1>0, <1>1, Before DEF LettersEnd, Base, BSize
<1> DEFINE n == semval["FULL"]
<1> DEFINE h == WrapIdx(ridx + 1)
<1>3. /\ QueueLen = n + 1 /\ QueueLen' = n
      /\ QueueHead = ridx /\ QueueHead' = h
      /\ QueueTail = widx /\ QueueTail' = widx
      /\ NextLetter = letter /\ NextLetter' = letter
      /\ Places = 0 /\ Places' = 1
  <2>1. WrapIdx(ridx) = ridx /\ WrapIdx(widx) = widx
    BY <1>2 DEF WrapIdx, Base, BSize
  <2> QED
    BY <1>0, <1>1, <1>2, <2>1, AtSteps
       DEF Stored, HeadAt, TailAt, NextAt, Taken, ProdCrit
<1>4. /\ n + 1 + semval["EMPT"] = QUEUE_SIZE
      /\ WrapIdx(ridx + (n + 1)) = widx
  BY <1>2, <1>3 DEF RingInv
<1>5. n \in Nat /\ n < QUEUE_SIZE /\ n + 1 <= QUEUE_SIZE
  BY <1>2, <1>4
<1>6. ridx \in Int /\ InRing(ridx) /\ h \in Int /\ InRing(h)
  BY <1>2 DEF InRing, WrapIdx, Base, BSize
<1>7. slot \in [Cell -> Values]
  BY DEF IInv, TypeOK, Values
<1>8. \A k \in Nat : k < QUEUE_SIZE => WrapIdx(ridx + (k + 1)) = WrapIdx(h + k)
  BY <1>6, WrapStep
<1> HIDE DEF n, h
<1>9. Queue = RingSeq(slot, ridx, n + 1)
  BY <1>3 DEF Queue, RingSeq
<1>10. Queue' = RingSeq(slot, h, n)
  BY <1>1, <1>3 DEF Queue, WrapIdx, RingSeq
<1>11. /\ Queue \in Seq(Values) /\ Len(Queue) = n + 1
       /\ \A k \in 1 .. n + 1 : Queue[k] = slot[WrapIdx(ridx + (k - 1))]
  BY <1>5, <1>6, <1>7, <1>9, QueueSeq
<1>12. /\ Queue' \in Seq(Values) /\ Len(Queue') = n
       /\ \A k \in 1 .. n : Queue'[k] = slot[WrapIdx(h + (k - 1))]
  BY <1>5, <1>6, <1>7, <1>10, QueueSeq
<1>13. \A k \in 1 .. n : Queue'[k] = Queue[k + 1]
  <2> TAKE k \in 1 .. n
  <2>1. /\ k - 1 \in Nat /\ k - 1 < QUEUE_SIZE
        /\ k + 1 \in 1 .. n + 1 /\ (k + 1) - 1 = (k - 1) + 1
    BY <1>5
  <2> QED BY <1>8, <1>11, <1>12, <2>1
<1>14. Queue # <<>> /\ Queue' = Tail(Queue)
  BY <1>11, <1>12, <1>13, IsTail
<1>15. Head(Queue) = slot[ridx]
  <2>1. Head(Queue) = Queue[1]
    BY <1>11, <1>14
  <2>2. 1 \in 1 .. n + 1 /\ ridx + (1 - 1) = ridx
    BY <1>5, <1>6
  <2>3. WrapIdx(ridx) = ridx
    BY <1>2 DEF WrapIdx, Base, BSize
  <2> QED BY <1>11, <2>1, <2>2, <2>3
<1>16. Buffer!Get
  BY <1>1, <1>3, <1>14, <1>15 DEF Buffer!Get
<1>17. QueueLen' + semval'["EMPT"] + Places' = QUEUE_SIZE
  BY <1>1, <1>2, <1>3, <1>4 DEF n
<1>18. WrapIdx(QueueHead + QueueLen)' = QueueTail'
  <2>1. WrapIdx(h + n) = widx
    BY <1>4, <1>5, <1>8
  <2> QED BY <1>3, <2>1 DEF WrapIdx
<1> QED BY <1>16, <1>17, <1>18

-----------------------------------------------------------------------------
(* The invariant, and the refinement.                                      *)

(* What a step of p leaves for the children who have to wrap.              *)
LEMMA WrapsStep ==
  ASSUME IInv, RingInv, gone = {}, NEW p \in Proc, Producer(p) \/ Consumer(p)
  PROVE  WrapsOK' /\ letter' # 0 /\ UNCHANGED <<main, kills>>
<1> USE SizesAssumption
<1>1. \A q \in Proc \ {p} : pc'[q] \notin {"wrapL", "wrapR", "wrapW"}
  <2>1. (\A q \in Proc \ {p} : ~InCrit(q))'
    BY Before
  <2> QED BY <2>1 DEF InCrit, ProdCrit, ConsCrit
<1>2. /\ letter \in 1 .. LettersEnd
      /\ ridx \in Base .. BSize /\ widx \in Base .. BSize
  BY Before
<1>3. /\ pc'[p] = "wrapL" => letter' > Letters
      /\ pc'[p] = "wrapR" => ridx' >= BSize
      /\ pc'[p] = "wrapW" => widx' >= BSize
  BY <1>2 DEF Producer, Consumer, ProdPre, ProdStore, ProdIncW, ProdWrapW,
     ProdIncL, ProdWrapL, ProdPost, ConsPre, ConsFetch, ConsIncR, ConsWrapR,
     ConsPost, Goto, IInv, TypeOK, LettersEnd
<1>4. letter' # 0
  BY <1>2 DEF Producer, Consumer, ProdPre, ProdStore, ProdIncW, ProdWrapW,
     ProdIncL, ProdWrapL, ProdPost, ConsPre, ConsFetch, ConsIncR, ConsWrapR,
     ConsPost, bufVars, LettersEnd
<1>5. UNCHANGED <<main, kills>>
  BY DEF Producer, Consumer, ProdPre, ProdStore, ProdIncW, ProdWrapW, ProdIncL,
     ProdWrapL, ProdPost, ConsPre, ConsFetch, ConsIncR, ConsWrapR, ConsPost,
     mainVars
<1> QED BY <1>1, <1>3, <1>4, <1>5 DEF WrapsOK

(* A step of a child is a Put, a Get or a stutter of the abstract queue.   *)
LEMMA ChildRefines ==
  ASSUME IInv, RingInv, gone = {}, NEW p \in Proc, Producer(p) \/ Consumer(p)
  PROVE  RingInv' /\ [Buffer!Next]_Buffer!bufferVars
<1> USE SizesAssumption
<1>1. WrapsOK' /\ letter' # 0 /\ UNCHANGED <<main, kills>>
  BY WrapsStep
<1>2. letter # 0 /\ kills = 0
  BY Before DEF RingInv
<1>3. main \notin {"semget", "setval", "shmget", "shmat"}
  BY <1>2 DEF RingInv
<1>4. ASSUME QueueLen' + semval'["EMPT"] + Places' = QUEUE_SIZE,
             WrapIdx(QueueHead + QueueLen)' = QueueTail'
      PROVE  RingInv'
  BY <1>1, <1>2, <1>3, <1>4 DEF RingInv, WrapsOK
<1>5. CASE ProdStore(p)
  BY <1>4, <1>5, StoreStep DEF Buffer!Next
<1>6. CASE ConsFetch(p)
  BY <1>4, <1>6, FetchStep DEF Buffer!Next
<1>7. CASE ~ProdStore(p) /\ ~ConsFetch(p)
  <2>1. Same
    BY <1>7, QuietSteps
  <2>2. QueueLen + semval["EMPT"] + Places = QUEUE_SIZE
        /\ WrapIdx(QueueHead + QueueLen) = QueueTail
    BY <1>2 DEF RingInv
  <2>3. QueueLen \in Int /\ semval["EMPT"] \in Int /\ Places \in Int
    BY Before DEF QueueLen, Places
  <2>4. semval'["EMPT"] \in Int
    <3>1. \/ ProdPre(p) \/ ProdPost(p) \/ ConsPre(p) \/ ConsPost(p)
          \/ UNCHANGED semval
      BY DEF Producer, Consumer, ProdStore, ProdIncW, ProdWrapW, ProdIncL,
         ProdWrapL, ConsFetch, ConsIncR, ConsWrapR, semVars
    <3> QED BY <2>3, <3>1, Counted
  <2>5. Places' \in Int
    BY DEF Places
  <2>6. QueueLen' + semval'["EMPT"] + Places' = QUEUE_SIZE
    BY <2>1, <2>2, <2>3, <2>4, <2>5 DEF Same
  <2>7. WrapIdx(QueueHead + QueueLen)' = QueueTail'
    BY <2>1, <2>2 DEF Same, WrapIdx
  <2>8. UNCHANGED Buffer!bufferVars
    BY <2>1 DEF Same, Buffer!bufferVars, Queue, WrapIdx
  <2> QED BY <1>4, <2>6, <2>7, <2>8
<1> QED BY <1>5, <1>6, <1>7

(* While no child has been forked the queue is empty.                      *)
LEMMA NoneYet ==
  ASSUME \A q \in Proc : pc[q] = "unborn", semval["FULL"] = 0
  PROVE  QueueLen = 0 /\ Places = 0 /\ Queue = <<>>
<1>1. ~At({"fetch"}) /\ ~At(ProdCrit \ {"store"})
      /\ ~At({"store", "incR", "wrapR", "cpost"})
  BY DEF At, ProdCrit
<1>2. QueueLen = 0 /\ Places = 0
  BY <1>1 DEF QueueLen, Places
<1> QED BY <1>2 DEF Queue

LEMMA NoneYetNext ==
  ASSUME \A q \in Proc : pc'[q] = "unborn", semval'["FULL"] = 0
  PROVE  QueueLen' = 0 /\ Places' = 0 /\ Queue' = <<>>
<1>1. ~At({"fetch"})' /\ ~At(ProdCrit \ {"store"})'
      /\ ~At({"store", "incR", "wrapR", "cpost"})'
  BY DEF At, ProdCrit
<1>2. QueueLen' = 0 /\ Places' = 0
  BY <1>1 DEF QueueLen, Places
<1> QED BY <1>2 DEF Queue

(* Whoever is unborn is not inside, so all indices are as they were set.   *)
LEMMA UnbornTail ==
  ASSUME \A q \in Proc : pc'[q] = "unborn"
  PROVE  /\ QueueHead' = WrapIdx(ridx') /\ QueueTail' = WrapIdx(widx')
         /\ NextLetter' = IF letter' > Letters \/ letter' = 0 THEN 1 ELSE letter'
<1>1. ~At({"incR"})' /\ ~At({"incW"})' /\ ~At({"incW", "wrapW", "incL"})'
  BY DEF At
<1> QED BY <1>1 DEF QueueHead, QueueTail, NextLetter, WrapIdx

(* The steps of main, and the lack of any, stutter.                        *)
LEMMA MainRefines ==
  ASSUME IInv, RingInv, gone = {}, Parent \/ Fails \/ UNCHANGED vars
  PROVE  RingInv' /\ UNCHANGED Buffer!bufferVars
<1> USE SizesAssumption
<1>1. CASE ShmAt
  <2>1. /\ \A q \in Proc : pc[q] = "unborn" /\ pc'[q] = "unborn"
        /\ letter = 0 /\ letter' = 1
        /\ semval["FULL"] = 0 /\ semval["EMPT"] = QUEUE_SIZE
        /\ ridx' = Base /\ widx' = Base /\ main' = "fork"
        /\ UNCHANGED <<semval, slot, printed, kills>> /\ kills = 0
    BY <1>1 DEF ShmAt, RingInv, IInv, MainInv, semVars
  <2>2. /\ QueueLen = 0 /\ QueueLen' = 0 /\ Places' = 0
        /\ Queue = <<>> /\ Queue' = <<>>
    BY <2>1, NoneYet, NoneYetNext
  <2>3. /\ QueueHead' = Base /\ QueueTail' = Base /\ NextLetter' = 1
        /\ WrapIdx(Base) = Base
    BY <2>1, UnbornTail DEF WrapIdx, Base, BSize
  <2>4. NextLetter = 1
    BY <2>1 DEF NextLetter, At
  <2>5. WrapIdx(QueueHead + QueueLen)' = QueueTail'
    BY <2>2, <2>3 DEF WrapIdx, Base
  <2>6. RingInv'
    BY <2>1, <2>2, <2>5 DEF RingInv
  <2> QED BY <2>1, <2>2, <2>3, <2>4, <2>6 DEF Buffer!bufferVars
<1>2. CASE SetVals
  <2>1. /\ \A q \in Proc : pc[q] = "unborn"
        /\ letter = 0 /\ semval["FULL"] = 0
        /\ semval'["FULL"] = 0 /\ semval'["EMPT"] = QUEUE_SIZE
        /\ main' = "shmget" /\ kills = 0
        /\ UNCHANGED <<pc, letter, ridx, widx, slot, printed, kills>>
    BY <1>2 DEF SetVals, RingInv, IInv, MainInv, TypeOK, Sem, bufVars
  <2>2. Queue = <<>> /\ Queue' = <<>>
    BY <2>1, NoneYet, NoneYetNext
  <2>3. UNCHANGED NextLetter
    BY <2>1 DEF NextLetter, At
  <2>4. RingInv'
    BY <2>1 DEF RingInv
  <2> QED BY <2>1, <2>2, <2>3, <2>4 DEF Buffer!bufferVars
<1>3. CASE ~ShmAt /\ ~SetVals
  <2>1. /\ UNCHANGED <<semval, letter, ridx, widx, slot, printed, kills>>
        /\ \A q \in Proc : pc'[q] # pc[q] =>
             pc[q] = "unborn" /\ pc'[q] \in {"ppre", "cpre"}
        /\ \/ main' = main
           \/ main' \notin {"semget", "setval", "shmget", "shmat"}
           \/ (main = "semget" /\ main' = "setval")
           \/ (main = "shmget" /\ main' = "shmat")
    <3>1. CASE \E p \in Proc : Fork(p)
      <4> PICK p \in Proc : Fork(p)
        BY <3>1
      <4>1. /\ pc[p] = "unborn" /\ pc' = [pc EXCEPT ![p] = pc'[p]]
            /\ pc'[p] \in {"ppre", "cpre"}
            /\ main' \in {"wait", "fork"}
            /\ UNCHANGED <<semval, letter, ridx, widx, slot, printed, kills>>
        BY DEF Fork, Unborn, IInv, TypeOK, semVars, bufVars
      <4> QED BY <4>1 DEF IInv, TypeOK
    <3>2. CASE \E p \in Proc : Wait(p)
      BY <3>2 DEF Wait, semVars, bufVars
    <3>3. CASE SemGet
      BY <3>3 DEF SemGet, semVars, bufVars
    <3>4. CASE ShmGet
      BY <3>4 DEF ShmGet, semVars, bufVars
    <3>5. CASE RemoveSem \/ RemoveShm \/ Fails
      BY <3>5 DEF RemoveSem, RemoveShm, Fails, semVars, bufVars
    <3>6. CASE UNCHANGED vars
      BY <3>6 DEF vars, semVars, bufVars, mainVars
    <3> QED BY <1>3, <3>1, <3>2, <3>3, <3>4, <3>5, <3>6 DEF Parent
  <2>2. \A L \in SUBSET Crit : At(L)' <=> At(L)
    BY <2>1, AtKept DEF InCrit, ProdCrit, ConsCrit
  <2>3. UNCHANGED <<QueueLen, QueueHead, QueueTail, NextLetter, Places>>
    BY <2>1, <2>2 DEF QueueLen, QueueHead, QueueTail, NextLetter, Places, Crit,
       ProdCrit, ConsCrit, WrapIdx
  <2>4. UNCHANGED Queue
    BY <2>1, <2>3 DEF Queue, WrapIdx
  <2>5. WrapsOK'
    BY <2>1 DEF RingInv, WrapsOK
  <2>6. RingInv'
    BY <2>1, <2>3, <2>5 DEF RingInv, WrapsOK, WrapIdx
  <2> QED BY <2>1, <2>3, <2>4, <2>6 DEF Buffer!bufferVars
<1> QED BY <1>1, <1>2, <1>3

(* No child comes back.                                                    *)
LEMMA GoneStays ==
  ASSUME IInv, [Next]_vars
  PROVE  gone \subseteq gone'
<1> SUFFICES ASSUME NEW q \in Proc, pc[q] = "gone" PROVE pc'[q] = "gone"
  BY DEF gone
<1>1. CASE Parent \/ Fails \/ UNCHANGED vars
  BY <1>1 DEF Parent, SemGet, SetVals, ShmGet, ShmAt, Fork, Wait, RemoveSem,
     RemoveShm, Fails, Unborn, Turn, IInv, TypeOK, vars
<1>2. ASSUME NEW p \in Proc, Child(p) \/ Kill(p) PROVE pc'[q] = "gone"
  BY <1>2 DEF Child, Producer, Consumer, ProdPre, ProdStore, ProdIncW,
     ProdWrapW, ProdIncL, ProdWrapL, ProdPost, ConsPre, ConsFetch, ConsIncR,
     ConsWrapR, ConsPost, SemopFails, Kill, Goto, IInv, TypeOK
<1> QED BY <1>1, <1>2 DEF Next

LEMMA RingStep ==
  ASSUME IInv, RingInv, [Next]_vars
  PROVE  RingInv' /\ (gone' = {} => [Buffer!Next]_Buffer!bufferVars)
<1> SUFFICES ASSUME gone' = {} PROVE RingInv' /\ [Buffer!Next]_Buffer!bufferVars
  BY DEF RingInv
<1>1. gone = {}
  BY GoneStays
<1>2. CASE Parent \/ Fails \/ UNCHANGED vars
  BY <1>1, <1>2, MainRefines
<1>3. ASSUME NEW p \in Proc, Producer(p) \/ Consumer(p)
      PROVE  RingInv' /\ [Buffer!Next]_Buffer!bufferVars
  BY <1>1, <1>3, ChildRefines
<1>4. ASSUME NEW p \in Proc, SemopFails(p) \/ Kill(p) PROVE FALSE
  <2>1. p \in gone'
    BY <1>4 DEF SemopFails, Kill, gone, IInv, TypeOK
  <2> QED BY <2>1
<1> QED BY <1>2, <1>3, <1>4 DEF Next, Child

LEMMA RingInit == Init => RingInv /\ Buffer!Init
<1> SUFFICES ASSUME Init PROVE RingInv /\ Buffer!Init
  OBVIOUS
<1> USE SizesAssumption
<1>1. /\ \A q \in Proc : pc[q] = "unborn"
      /\ letter = 0 /\ semval["FULL"] = 0 /\ printed = Letters
      /\ kills = 0 /\ main = "semget"
  BY DEF Init, Sem
<1>2. Queue = <<>>
  BY <1>1, NoneYet
<1>3. NextLetter = 1
  BY <1>1 DEF NextLetter, At
<1>4. RingInv
  BY <1>1 DEF RingInv
<1> QED BY <1>1, <1>2, <1>3, <1>4 DEF Buffer!Init

LEMMA RingInvariance == Spec => []RingInv
<1>1. IInv /\ RingInv /\ [Next]_vars => RingInv'
  BY RingStep
<1> QED BY <1>1, RingInit, Invariance, PTL DEF Spec

(* Until the first child ends the program implements BoundedBuffer, for    *)
(* any number of children, any queue and any alphabet: every letter is     *)
(* printed once, in order, and none is overwritten before.                 *)
THEOREM Refinement == Spec => ImplementsBuffer
<1>1. IInv /\ RingInv /\ [Next]_vars =>
        [gone' = {} => [Buffer!Next]_Buffer!bufferVars]_vars
  BY RingStep
<1> QED
  BY <1>1, RingInit, RingInvariance, Invariance, PTL DEF Spec, ImplementsBuffer
=============================================================================
