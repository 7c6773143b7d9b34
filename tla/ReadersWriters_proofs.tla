------------------------ MODULE ReadersWriters_proofs ------------------------
(***************************************************************************)
(* Proofs about ReadersWriters, for any number of readers and writers and  *)
(* any number of deaths.                                                   *)
(***************************************************************************)
EXTENDS ReadersWriters, FiniteSetTheorems, TLAPS

Labels ==
  {"unborn", "gone", "rdir", "rwait", "rget", "rsetw", "wdir", "wwait"}
    \cup Reading \cup Writing \cup ReadWaiting \cup WriteWaiting

PcOK ==
  /\ \A p \in Writers :
       pc[p] \in {"unborn", "gone", "wdir", "wwait"} \cup Writing \cup WriteWaiting
  /\ \A p \in Readers :
       pc[p] \in {"unborn", "gone", "rdir", "rwait", "rget", "rsetw"}
                   \cup Reading \cup ReadWaiting

(* The children a counter counts, and what each of them would give back.   *)
Counters == {"ACT_W", "ACT_R", "WAI_W", "WAI_R"}
Tokens == {"CAN_W", "CAN_R"}

Counted(s) ==
  IF s = "ACT_W" THEN Writing ELSE IF s = "ACT_R" THEN Reading
  ELSE IF s = "WAI_W" THEN WriteWaiting ELSE ReadWaiting
In(l, s) == IF l \in Counted(s) THEN 1 ELSE 0

CountInv ==
  \A s \in Counters :
    /\ semval[s] = Cardinality(At(Counted(s)))
    /\ \A p \in Proc : semadj[p][s] = 0 - In(pc[p], s)

(* A token is in its semaphore, or the undo of one child would put it      *)
(* back, never both and never twice.                                       *)
TokenInv ==
  \A s \in Tokens :
    /\ semval[s] \in 0 .. 1
    /\ \A p \in Proc :
         /\ semadj[p][s] \in 0 .. 1
         /\ semadj[p][s] = 1 =>
              /\ semval[s] = 0
              /\ \A q \in Proc \ {p} : semadj[q][s] = 0

LetterInv == WritersExclude /\ WriterPrintsItsLetter

MainInv == main \in {"semget", "shmget"} => \A p \in Proc : pc[p] = "unborn"

IInv == TypeOK /\ PcOK /\ CountInv /\ TokenInv /\ LetterInv /\ MainInv

(* Every set of children is finite.                                        *)
LEMMA ProcFinite == IsFiniteSet(Proc) /\ \A X : IsFiniteSet(At(X))
<1>1. IsFiniteSet(Proc)
  BY ProcAssumption, FS_Union DEF Proc
<1>2. QED BY <1>1, FS_Subset DEF At

(* What a change of one child's label does to the set of children at X.    *)
LEMMA AtMoves ==
  ASSUME NEW p \in Proc, NEW l, NEW X, pc \in [Proc -> Labels],
         pc' = [pc EXCEPT ![p] = l]
  PROVE  Cardinality(At(X)') =
           Cardinality(At(X)) + (IF l \in X THEN 1 ELSE 0)
                              - (IF pc[p] \in X THEN 1 ELSE 0)
<1> DEFINE Rest == At(X) \ {p}
<1>1. IsFiniteSet(At(X)) /\ IsFiniteSet(Rest)
  BY ProcFinite, FS_RemoveElement
<1>2. Cardinality(Rest) = Cardinality(At(X)) - (IF pc[p] \in X THEN 1 ELSE 0)
  <2>1. p \in At(X) <=> pc[p] \in X
    BY DEF At
  <2>2. Cardinality(At(X)) \in Nat
    BY <1>1, FS_CardinalityType
  <2>3. QED BY <1>1, <2>1, <2>2, FS_RemoveElement
<1>3. At(X)' = IF l \in X THEN Rest \cup {p} ELSE Rest
  BY DEF At
<1>4. Cardinality(Rest \cup {p}) = Cardinality(Rest) + 1
  BY <1>1, FS_AddElement
<1>5. Cardinality(At(X)) \in Nat /\ Cardinality(Rest) \in Nat
  BY <1>1, FS_CardinalityType
<1>6. QED
  <2> HIDE DEF Rest
  <2> QED BY <1>2, <1>3, <1>4, <1>5

-----------------------------------------------------------------------------
(* The semaphore operations, for an array that changes exactly the         *)
(* counters that the move of its process changes.                          *)
Balanced(from, to, ops) ==
  /\ ops.dec \subseteq Sem /\ ops.inc \subseteq Sem
  /\ ops.dec \cap ops.inc = {}
  /\ ops.inc \cap Tokens = {}
  /\ \A s \in Counters : Delta(ops, s) = In(to, s) - In(from, s)

(* What a semop does to each value and adjustment.                         *)
LEMMA SemopEffect ==
  ASSUME TypeOK, NEW p \in Proc, NEW ops, Semop(p, ops),
         ops.dec \subseteq Sem, ops.inc \subseteq Sem,
         ops.dec \cap ops.inc = {}
  PROVE  /\ semval' \in [Sem -> 0 .. SEMVMX]
         /\ semadj' \in [Proc -> [Sem -> Int]]
         /\ \A s \in Sem : semval'[s] = semval[s] + Delta(ops, s)
         /\ \A s \in Sem : semadj'[p][s] = semadj[p][s] - Delta(ops, s)
         /\ \A q \in Proc \ {p} : semadj'[q] = semadj[q]
<1>1. ASSUME NEW s \in Sem
      PROVE  /\ semval[s] + Delta(ops, s) \in 0 .. SEMVMX
             /\ semadj[p][s] - Delta(ops, s) \in Int
  <2>1. semval[s] \in 0 .. SEMVMX /\ semadj[p][s] \in Int /\ SEMVMX \in Nat
    BY LimitsAssumption DEF TypeOK
  <2>2. CASE s \in ops.dec
    BY <2>1, <2>2 DEF Semop, Blocks, OutOfRange, Delta
  <2>3. CASE s \in ops.inc
    BY <2>1, <2>3 DEF Semop, Blocks, OutOfRange, Delta
  <2>4. CASE s \notin ops.dec /\ s \notin ops.inc
    BY <2>1, <2>4 DEF Delta
  <2> QED BY <2>2, <2>3, <2>4
<1>2. \A q \in Proc : semadj[q] \in [Sem -> Int]
  BY DEF TypeOK
<1>3. QED BY <1>1, <1>2 DEF Semop, TypeOK

(* The parts of the invariant about the semaphores, when p moves.          *)
LEMMA CallStep ==
  ASSUME IInv, NEW p \in Proc, NEW from, NEW to, NEW ops,
         Call(p, from, to, ops), Balanced(from, to, ops)
  PROVE  CountInv' /\ TokenInv' /\ semval' \in [Sem -> 0 .. SEMVMX]
         /\ semadj' \in [Proc -> [Sem -> -1 .. 1]]
<1> TypeOK /\ CountInv /\ TokenInv BY DEF IInv
<1>1. /\ semval' \in [Sem -> 0 .. SEMVMX]
      /\ semadj' \in [Proc -> [Sem -> Int]]
      /\ \A s \in Sem : semval'[s] = semval[s] + Delta(ops, s)
      /\ \A s \in Sem : semadj'[p][s] = semadj[p][s] - Delta(ops, s)
      /\ \A q \in Proc \ {p} : semadj'[q] = semadj[q]
  BY SemopEffect DEF Call, Balanced
<1>2. pc[p] = from /\ pc' = [pc EXCEPT ![p] = to] /\ pc \in [Proc -> Labels]
  BY DEF Call, Goto, TypeOK, Labels
<1>3. ASSUME NEW s \in Counters
      PROVE  /\ semval'[s] = Cardinality(At(Counted(s))')
             /\ \A q \in Proc : semadj'[q][s] = 0 - In(pc'[q], s)
  <2>1. Cardinality(At(Counted(s))') =
          Cardinality(At(Counted(s))) + In(to, s) - In(from, s)
    BY <1>2, AtMoves DEF In
  <2>2. Delta(ops, s) = In(to, s) - In(from, s) /\ s \in Sem
    BY DEF Balanced, Counters, Sem
  <2>3. semval[s] = Cardinality(At(Counted(s))) /\ semval[s] \in Int
        /\ semadj[p][s] = 0 - In(from, s)
    BY <1>2, <2>2 DEF CountInv, TypeOK
  <2>4. In(to, s) \in Int /\ In(from, s) \in Int
    BY DEF In
  <2>5. semval'[s] = Cardinality(At(Counted(s))')
    BY <1>1, <2>1, <2>2, <2>3, <2>4
  <2>6. semadj'[p][s] = 0 - In(pc'[p], s)
    BY <1>1, <1>2, <2>2, <2>3, <2>4
  <2>7. \A q \in Proc \ {p} : semadj'[q][s] = 0 - In(pc'[q], s)
    BY <1>1, <1>2 DEF CountInv
  <2>8. QED BY <2>5, <2>6, <2>7
<1>4. CountInv'
  BY <1>3 DEF CountInv, Counted, In
<1>5. TokenInv'
  <2> SUFFICES ASSUME NEW s \in Tokens
               PROVE  /\ semval'[s] \in 0 .. 1
                      /\ \A q \in Proc :
                           /\ semadj'[q][s] \in 0 .. 1
                           /\ semadj'[q][s] = 1 =>
                                /\ semval'[s] = 0
                                /\ \A r \in Proc \ {q} : semadj'[r][s] = 0
    BY DEF TokenInv
  <2>1. s \in Sem BY DEF Tokens, Sem
  <2>2. CASE s \notin ops.dec
    <3>1. Delta(ops, s) = 0
      BY <2>2 DEF Balanced, Delta
    <3>2. semval'[s] = semval[s] /\ \A q \in Proc : semadj'[q][s] = semadj[q][s]
      BY <1>1, <2>1, <3>1 DEF TypeOK
    <3>3. QED BY <3>2 DEF TokenInv
  <2>3. CASE s \in ops.dec
    <3>1. Delta(ops, s) = -1
      BY <2>3 DEF Balanced, Delta
    <3>2. semval[s] = 1
      BY <2>1, <2>3 DEF Call, Semop, Blocks, TokenInv
    <3>3. \A q \in Proc : semadj[q][s] = 0
      BY <3>2 DEF TokenInv
    <3>4. semval'[s] = 0 /\ semadj'[p][s] = 1
          /\ \A q \in Proc \ {p} : semadj'[q][s] = 0
      BY <1>1, <2>1, <3>1, <3>2, <3>3
    <3>5. QED BY <3>4
  <2>4. QED BY <2>2, <2>3
<1>6. semadj' \in [Proc -> [Sem -> -1 .. 1]]
  <2>1. \A q \in Proc : \A s \in Counters : semadj'[q][s] \in -1 .. 1
    BY <1>4 DEF CountInv, In
  <2>2. \A q \in Proc : \A s \in Tokens : semadj'[q][s] \in -1 .. 1
    BY <1>5 DEF TokenInv
  <2>3. Sem = Counters \cup Tokens
    BY DEF Sem, Counters, Tokens
  <2>4. QED BY <1>1, <2>1, <2>2, <2>3
<1>7. QED BY <1>1, <1>4, <1>5, <1>6

SemTyped ==
  /\ semval \in [Sem -> 0 .. SEMVMX]
  /\ semadj \in [Proc -> [Sem -> -1 .. 1]]

(* A move between labels that no counter tells apart.                      *)
LEMMA QuietStep ==
  ASSUME IInv, NEW p \in Proc, NEW from, NEW to, Goto(p, from, to),
         \A s \in Counters : In(to, s) = In(from, s),
         \A s \in Counters : semval'[s] = semval[s]
                            /\ \A q \in Proc : semadj'[q][s] = semadj[q][s]
  PROVE  CountInv'
<1>1. pc[p] = from /\ pc' = [pc EXCEPT ![p] = to] /\ pc \in [Proc -> Labels]
  BY DEF Goto, IInv, TypeOK, Labels
<1>2. ASSUME NEW s \in Counters
      PROVE  /\ semval'[s] = Cardinality(At(Counted(s))')
             /\ \A q \in Proc : semadj'[q][s] = 0 - In(pc'[q], s)
  <2>1. Cardinality(At(Counted(s))') =
          Cardinality(At(Counted(s))) + In(to, s) - In(from, s)
    BY <1>1, AtMoves DEF In
  <2>2. semval[s] = Cardinality(At(Counted(s))) /\ semval[s] \in Int
    BY DEF IInv, CountInv, TypeOK, Counters, Sem
  <2>3. In(to, s) = In(from, s) /\ In(to, s) \in Int
    BY DEF In
  <2>4. semval'[s] = Cardinality(At(Counted(s))')
    BY <2>1, <2>2, <2>3
  <2>5. \A q \in Proc : semadj'[q][s] = 0 - In(pc'[q], s)
    BY <1>1, <2>3 DEF IInv, CountInv
  <2>6. QED BY <2>4, <2>5
<1>3. QED BY <1>2 DEF CountInv, Counted, In

(* A step that leaves the semaphores alone.                                *)
LEMMA MoveStep ==
  ASSUME IInv, NEW p \in Proc, NEW from, NEW to, Goto(p, from, to),
         UNCHANGED semVars,
         \A s \in Counters : In(to, s) = In(from, s)
  PROVE  CountInv' /\ TokenInv' /\ SemTyped'
<1>1. UNCHANGED <<semval, semadj>> BY DEF semVars
<1>2. CountInv' BY <1>1, QuietStep
<1>3. QED BY <1>1, <1>2 DEF IInv, TypeOK, TokenInv, SemTyped

(* A SETVAL of a token.                                                    *)
LEMMA SetStep ==
  ASSUME IInv, NEW p \in Proc, NEW from, NEW to, NEW s \in Tokens,
         NEW v \in 0 .. 1, Set(p, from, to, s, v),
         \A c \in Counters : In(to, c) = In(from, c)
  PROVE  CountInv' /\ TokenInv' /\ SemTyped'
<1> TypeOK /\ TokenInv BY DEF IInv
<1>1. /\ \A c \in Sem \ {s} : semval'[c] = semval[c]
      /\ semval'[s] = v
      /\ \A q \in Proc : \A c \in Sem \ {s} : semadj'[q][c] = semadj[q][c]
      /\ \A q \in Proc : semadj'[q][s] = 0
      /\ s \in Sem
  BY DEF Set, SetVal, TypeOK, Tokens, Sem
<1>2. Counters \subseteq Sem \ {s}
  BY DEF Counters, Tokens, Sem
<1>3. CountInv'
  BY <1>1, <1>2, QuietStep DEF Set
<1>4. TokenInv'
  <2>1. \A c \in Tokens \ {s} :
          semval'[c] = semval[c] /\ \A q \in Proc : semadj'[q][c] = semadj[q][c]
    BY <1>1 DEF Tokens, Sem
  <2>2. QED BY <1>1, <2>1 DEF TokenInv
<1>5. SemTyped'
  <2>1. v \in 0 .. SEMVMX
    BY LimitsAssumption
  <2>2. ASSUME NEW q \in Proc
        PROVE  [semadj[q] EXCEPT ![s] = 0] \in [Sem -> -1 .. 1]
    <3>1. semadj[q] \in [Sem -> -1 .. 1]
      BY DEF TypeOK
    <3>2. 0 \in -1 .. 1
      OBVIOUS
    <3>3. QED BY <3>1, <3>2
  <2>3. QED BY <1>1, <2>1, <2>2 DEF Set, SetVal, TypeOK, SemTyped
<1>6. QED BY <1>3, <1>4, <1>5

(* A death gives back what the child had counted, and its token.           *)
LEMMA KillStep ==
  ASSUME IInv, NEW p \in Proc, Kill(p)
  PROVE  CountInv' /\ TokenInv' /\ SemTyped'
<1> TypeOK /\ TokenInv BY DEF IInv
<1> SEMVMX \in Nat /\ SEMVMX >= 1 BY LimitsAssumption
<1>1. /\ \A s \in Sem : semval'[s] = Clamp(semval[s] + semadj[p][s])
      /\ \A s \in Sem : semadj'[p][s] = 0
      /\ \A q \in Proc \ {p} : semadj'[q] = semadj[q]
      /\ semval' = [s \in Sem |-> Clamp(semval[s] + semadj[p][s])]
      /\ semadj' = [semadj EXCEPT ![p] = [s \in Sem |-> 0]]
  BY DEF Kill, ExitUndo, TypeOK
<1>2. pc' = [pc EXCEPT ![p] = "gone"] /\ pc \in [Proc -> Labels]
  BY DEF Kill, TypeOK, Labels
<1>3. ASSUME NEW s \in Counters
      PROVE  /\ semval'[s] = Cardinality(At(Counted(s))')
             /\ \A q \in Proc : semadj'[q][s] = 0 - In(pc'[q], s)
  <2>1. Cardinality(At(Counted(s))') =
          Cardinality(At(Counted(s))) + In("gone", s) - In(pc[p], s)
    BY <1>2, AtMoves DEF In
  <2>2. In("gone", s) = 0
    BY DEF In, Counted, Reading, Writing, ReadWaiting, WriteWaiting
  <2>3. /\ semval[s] = Cardinality(At(Counted(s))) /\ semval[s] \in 0 .. SEMVMX
        /\ semadj[p][s] = 0 - In(pc[p], s) /\ s \in Sem
    BY DEF IInv, CountInv, TypeOK, Counters, Sem
  <2>4. Cardinality(At(Counted(s))') \in Nat
    <3>1. IsFiniteSet(At(Counted(s))')
      BY ProcFinite, FS_Subset DEF At
    <3>2. QED BY <3>1, FS_CardinalityType
  <2>5. In(pc[p], s) \in 0 .. 1
    BY DEF In
  <2>6. semval'[s] = Clamp(semval[s] - In(pc[p], s))
    BY <1>1, <2>3, <2>5
  <2>7. semval'[s] = Cardinality(At(Counted(s))')
    BY <2>1, <2>2, <2>3, <2>4, <2>5, <2>6 DEF Clamp
  <2>8. \A q \in Proc : semadj'[q][s] = 0 - In(pc'[q], s)
    BY <1>1, <1>2, <2>2, <2>3 DEF IInv, CountInv, TypeOK
  <2>9. QED BY <2>7, <2>8
<1>4. CountInv'
  BY <1>3 DEF CountInv, Counted, In
<1>5. TokenInv'
  <2> SUFFICES ASSUME NEW s \in Tokens
               PROVE  /\ semval'[s] \in 0 .. 1
                      /\ \A q \in Proc :
                           /\ semadj'[q][s] \in 0 .. 1
                           /\ semadj'[q][s] = 1 =>
                                /\ semval'[s] = 0
                                /\ \A r \in Proc \ {q} : semadj'[r][s] = 0
    BY DEF TokenInv
  <2>1. s \in Sem BY DEF Tokens, Sem
  <2>2. semval[s] \in 0 .. 1 /\ semadj[p][s] \in 0 .. 1
        /\ (semadj[p][s] = 1 => semval[s] = 0)
    BY DEF TokenInv
  <2>3. semval'[s] = semval[s] + semadj[p][s]
    BY <1>1, <2>1, <2>2 DEF Clamp
  <2>4. semadj'[p][s] = 0 /\ \A q \in Proc \ {p} : semadj'[q][s] = semadj[q][s]
    BY <1>1, <2>1
  <2>5. \A q \in Proc \ {p} : semadj[q][s] = 1 =>
                                semval[s] = 0 /\ semadj[p][s] = 0
    BY DEF TokenInv
  <2>6. QED BY <2>2, <2>3, <2>4, <2>5 DEF TokenInv
<1>6. SemTyped'
  <2>1. \A s \in Sem : Clamp(semval[s] + semadj[p][s]) \in 0 .. SEMVMX
    BY DEF Clamp, TypeOK
  <2>2. [s \in Sem |-> 0] \in [Sem -> -1 .. 1]
    OBVIOUS
  <2>3. QED BY <1>1, <2>1, <2>2 DEF SemTyped, TypeOK
<1>7. QED BY <1>4, <1>5, <1>6

-----------------------------------------------------------------------------
(* Every call of the program is balanced.                                  *)
LEMMA CallsBalanced ==
  /\ Balanced("rdir", "read", read_dir)
  /\ Balanced("rwait", "rset0", read_wait)
  /\ Balanced("rawake", "rset1", read_awake)
  /\ Balanced("rstop", "rget", read_stop)
  /\ Balanced("wdir", "write", write_dir)
  /\ Balanced("wwait", "wset0", write_wait)
  /\ Balanced("wawake", "write", write_awake)
  /\ Balanced("wstop", "wdir", write_stop)
BY DEF Balanced, Counters, Tokens, Delta, In, Counted, Sem,
       Reading, Writing, ReadWaiting, WriteWaiting,
       read_dir, read_wait, read_awake, read_stop,
       write_dir, write_wait, write_awake, write_stop

SemInv == CountInv /\ TokenInv /\ SemTyped

(* The semaphores after a step of a reader.                                *)
LEMMA ReaderStep ==
  ASSUME IInv, NEW p \in Readers, Reader(p)
  PROVE  SemInv'
<1> p \in Proc BY DEF Proc
<1> USE DEF SemInv
<1>1. CASE ReadDir(p) \/ ReadWait(p) \/ ReadAwake(p) \/ ReadStop(p)
  BY <1>1, CallStep, CallsBalanced
     DEF ReadDir, ReadWait, ReadAwake, ReadStop, SemTyped
<1>2. \A c \in Counters :
        /\ In("rset0", c) = In("rawake", c)
        /\ In("rset1", c) = In("read", c)
        /\ In("rsetw", c) = In("rdir", c)
        /\ In("rdir", c) = In("rwait", c)
        /\ In("read", c) = In("rstop", c)
        /\ In("rget", c) = In("rsetw", c)
  BY DEF Counters, In, Counted, Reading, Writing, ReadWaiting, WriteWaiting
<1>3. CASE ReadClear(p) \/ ReadWakeNext(p) \/ ReadWakeWriter(p)
  BY <1>2, <1>3, SetStep DEF ReadClear, ReadWakeNext, ReadWakeWriter, Tokens
<1>4. CASE ReadBusy(p) \/ Read(p)
  BY <1>2, <1>4, MoveStep DEF ReadBusy, Read, Move
<1>5. CASE ReadLast(p)
  BY <1>2, <1>5, MoveStep DEF ReadLast, Move
<1>6. QED BY <1>1, <1>3, <1>4, <1>5 DEF Reader

(* The semaphores after a step of a writer.                                *)
LEMMA WriterStep ==
  ASSUME IInv, NEW p \in Writers, Writer(p)
  PROVE  SemInv'
<1> p \in Proc BY DEF Proc
<1> USE DEF SemInv
<1>1. CASE WriteDir(p) \/ WriteWait(p) \/ WriteAwake(p) \/ WriteStop(p)
  BY <1>1, CallStep, CallsBalanced
     DEF WriteDir, WriteWait, WriteAwake, WriteStop, SemTyped
<1>2. \A c \in Counters :
        /\ In("wset0", c) = In("wawake", c)
        /\ In("wsetr", c) = In("wstop", c)
        /\ In("wsetw", c) = In("wstop", c)
        /\ In("wdir", c) = In("wwait", c)
        /\ In("write", c) = In("sent", c)
        /\ In("sent", c) = In("wget", c)
        /\ In("wget", c) = In("wsetr", c)
  BY DEF Counters, In, Counted, Reading, Writing, ReadWaiting, WriteWaiting
<1>3. CASE WriteClear(p) \/ WriteWakeReader(p) \/ WriteWakeWriter(p)
  BY <1>2, <1>3, SetStep DEF WriteClear, WriteWakeReader, WriteWakeWriter, Tokens
<1>4. CASE WriteBusy(p) \/ Sent(p)
  BY <1>2, <1>4, MoveStep DEF WriteBusy, Sent, Move
<1>5. CASE WriteWhoWaits(p)
  BY <1>2, <1>5, MoveStep DEF WriteWhoWaits, Move
<1>6. CASE Write(p)
  BY <1>2, <1>6, MoveStep DEF Write
<1>7. QED BY <1>1, <1>3, <1>4, <1>5, <1>6 DEF Writer

(* The semaphores after a step of main.                                    *)
LEMMA ParentStep ==
  ASSUME IInv, Parent
  PROVE  SemInv'
<1> TypeOK /\ CountInv /\ TokenInv BY DEF IInv
<1>1. ASSUME UNCHANGED <<semVars, pc>> PROVE SemInv'
  BY <1>1 DEF SemInv, CountInv, TokenInv, SemTyped, TypeOK, semVars, At
<1>2. CASE Fails \/ ShmGet \/ RemoveSem \/ RemoveShm
  BY <1>1, <1>2 DEF Fails, ShmGet, RemoveSem, RemoveShm
<1>3. ASSUME NEW p \in Proc, Wait(p) PROVE SemInv'
  BY <1>1, <1>3 DEF Wait
<1>4. CASE SemGet
  <2>1. UNCHANGED <<semadj, pc>> /\ semval' = [s \in Sem |-> 0]
    BY <1>4 DEF SemGet
  <2>2. \A s \in Counters : At(Counted(s)) = {}
    BY <1>4 DEF SemGet, Main, IInv, MainInv, At, Counters, Counted,
                Reading, Writing, ReadWaiting, WriteWaiting
  <2>3. \A s \in Counters \cup Tokens : semval'[s] = 0
    BY <2>1 DEF Counters, Tokens, Sem
  <2>4. CountInv'
    BY <2>1, <2>2, <2>3, FS_EmptySet DEF CountInv, At
  <2>5. TokenInv'
    BY <2>1, <2>3 DEF TokenInv
  <2>6. QED
    BY <2>1, <2>4, <2>5, LimitsAssumption DEF SemInv, SemTyped, TypeOK
<1>5. ASSUME NEW p \in Proc, Fork(p) PROVE SemInv'
  <2>1. pc[p] = "unborn" /\ UNCHANGED semVars
    BY <1>5 DEF Fork, Unborn
  <2>2. PICK l \in {"wdir", "rdir"} : pc' = [pc EXCEPT ![p] = l]
    BY <1>5 DEF Fork
  <2>3. \A c \in Counters : In(l, c) = In("unborn", c)
    BY DEF Counters, In, Counted, Reading, Writing, ReadWaiting, WriteWaiting
  <2>4. QED BY <2>1, <2>2, <2>3, MoveStep DEF SemInv, Goto
<1>6. QED BY <1>2, <1>3, <1>4, <1>5 DEF Parent

(* The semaphores after any step.                                          *)
LEMMA SemStep ==
  ASSUME IInv, [Next]_vars
  PROVE  SemInv'
<1>1. CASE UNCHANGED vars
  BY <1>1 DEF IInv, SemInv, CountInv, TokenInv, SemTyped, TypeOK, At,
              vars, semVars
<1>2. CASE \E p \in Proc : Kill(p)
  BY <1>2, KillStep DEF SemInv
<1>3. QED BY <1>1, <1>2, ReaderStep, WriterStep, ParentStep DEF Next

-----------------------------------------------------------------------------
(* Types, labels and the place of main after any step.                     *)
LEMMA RestStep ==
  ASSUME IInv, [Next]_vars
  PROVE  TypeOK' /\ PcOK' /\ MainInv'
<1> TypeOK /\ PcOK /\ MainInv BY DEF IInv
<1> USE ProcAssumption DEF Proc, MainInv
<1> SemTyped'
  BY SemStep DEF SemInv
<1> USE DEF SemTyped, Reading, Writing, ReadWaiting, WriteWaiting
<1>1. CASE UNCHANGED vars
  BY <1>1 DEF vars, semVars, mainVars, TypeOK, PcOK
<1>2. CASE Fails \/ SemGet \/ ShmGet \/ RemoveSem \/ RemoveShm
  BY <1>2 DEF Fails, SemGet, ShmGet, RemoveSem, RemoveShm, Main, TypeOK, PcOK
<1>3. ASSUME NEW p \in Proc, Fork(p)
      PROVE  TypeOK' /\ PcOK' /\ MainInv'
  <2>1. /\ pc' = [pc EXCEPT ![p] = IF p \in Writers THEN "wdir" ELSE "rdir"]
        /\ main' \in {"wait", "fork"}
        /\ UNCHANGED <<letter, ipc, reaped, kills>>
    BY <1>3 DEF Fork, Main
  <2>2. QED BY <2>1 DEF TypeOK, PcOK
<1>8. ASSUME NEW p \in Proc, Wait(p)
      PROVE  TypeOK' /\ PcOK' /\ MainInv'
  <2>1. /\ UNCHANGED <<letter, pc, ipc, kills>>
        /\ main' \in {"rmsem", "wait"} /\ reaped' = reaped \cup {p}
    BY <1>8 DEF Wait, Main
  <2>2. QED BY <2>1 DEF TypeOK, PcOK
<1>4. ASSUME NEW p \in Proc, Kill(p)
      PROVE  TypeOK' /\ PcOK' /\ MainInv'
  BY <1>4, LimitsAssumption DEF Kill, Killable, mainVars, TypeOK, PcOK
<1>5. ASSUME NEW p \in Writers, Writer(p)
      PROVE  TypeOK' /\ PcOK' /\ MainInv'
  <2>1. /\ UNCHANGED <<mainVars, kills>>
        /\ letter' = letter \/ letter' = p
        /\ \E l \in {"wdir", "wwait"} \cup Writing \cup WriteWaiting :
              pc' = [pc EXCEPT ![p] = l]
        /\ pc[p] # "unborn"
    BY <1>5 DEF Writer, WriteDir, WriteBusy, WriteWait, WriteClear, WriteAwake,
                Write, Sent, WriteWhoWaits, WriteWakeReader, WriteWakeWriter,
                WriteStop, Call, Set, Move, Goto
  <2>2. QED BY <2>1 DEF mainVars, TypeOK, PcOK
<1>6. ASSUME NEW p \in Readers, Reader(p)
      PROVE  TypeOK' /\ PcOK' /\ MainInv'
  <2>1. /\ UNCHANGED <<mainVars, kills, letter>>
        /\ \E l \in {"rdir", "rwait", "rget", "rsetw"} \cup Reading \cup ReadWaiting :
              pc' = [pc EXCEPT ![p] = l]
        /\ pc[p] # "unborn"
    BY <1>6 DEF Reader, ReadDir, ReadBusy, ReadWait, ReadClear, ReadAwake,
                ReadWakeNext, Read, ReadStop, ReadLast, ReadWakeWriter,
                Call, Set, Move, Goto
  <2>2. QED BY <2>1 DEF mainVars, TypeOK, PcOK
<1>7. QED BY <1>1, <1>2, <1>3, <1>4, <1>5, <1>6, <1>8 DEF Next, Parent

(* ACT_W is zero exactly when nobody writes.                               *)
LEMMA NobodyWrites ==
  ASSUME IInv, semval["ACT_W"] = 0
  PROVE  At(Writing) = {}
BY ProcFinite, FS_EmptySet DEF IInv, CountInv, Counters, Counted

(* A writer enters only when ACT_W is zero, so it is alone with the letter. *)
LEMMA LetterStep ==
  ASSUME IInv, [Next]_vars
  PROVE  LetterInv'
<1> TypeOK /\ PcOK /\ LetterInv BY DEF IInv
<1> USE ProcAssumption DEF LetterInv, WritersExclude, WriterPrintsItsLetter, At,
                          Writing
<1>1. ASSUME UNCHANGED letter,
             \A p \in Proc : pc'[p] \in Writing => pc[p] \in Writing,
             \A p \in Proc : pc'[p] = "sent" => pc[p] = "sent"
      PROVE  LetterInv'
  <2>1. At(Writing)' \subseteq At(Writing)
    BY <1>1
  <2>2. WritersExclude'
    BY <2>1 DEF WritersExclude
  <2>3. WriterPrintsItsLetter'
    BY <1>1 DEF Proc, WriterPrintsItsLetter
  <2>4. QED BY <2>2, <2>3
<1>2. CASE UNCHANGED vars
  BY <1>1, <1>2 DEF vars
<1>3. CASE Fails \/ SemGet \/ RemoveSem \/ RemoveShm
  BY <1>1, <1>3 DEF Fails, SemGet, RemoveSem, RemoveShm
<1>4. CASE ShmGet
  <2>1. UNCHANGED pc /\ \A p \in Proc : pc[p] = "unborn"
    BY <1>4 DEF ShmGet, Main, IInv, MainInv
  <2>2. QED BY <2>1 DEF Writing, Proc
<1>5. ASSUME NEW p \in Proc, Fork(p) \/ Wait(p) \/ Kill(p)
      PROVE  LetterInv'
  BY <1>1, <1>5 DEF Fork, Wait, Kill, TypeOK, Writing
<1>6. ASSUME NEW p \in Readers, Reader(p)
      PROVE  LetterInv'
  BY <1>1, <1>6 DEF Reader, ReadDir, ReadBusy, ReadWait, ReadClear, ReadAwake,
                    ReadWakeNext, Read, ReadStop, ReadLast, ReadWakeWriter,
                    Call, Set, Move, Goto, TypeOK, Writing
<1>7. ASSUME NEW p \in Writers, WriteDir(p) \/ WriteAwake(p)
      PROVE  LetterInv'
  <2>1. semval["ACT_W"] = 0
    BY <1>7 DEF WriteDir, WriteAwake, Call, Semop, Blocks, write_dir, write_awake
  <2>2. \A q \in Proc : pc[q] \notin Writing
    BY <2>1, NobodyWrites
  <2>3. pc' = [pc EXCEPT ![p] = "write"]
    BY <1>7 DEF WriteDir, WriteAwake, Call, Goto
  <2>4. QED BY <2>2, <2>3 DEF TypeOK, Writing, Proc
<1>8. ASSUME NEW p \in Writers, Write(p)
      PROVE  LetterInv'
  <2>1. pc[p] = "write" /\ pc' = [pc EXCEPT ![p] = "sent"] /\ letter' = p
    BY <1>8 DEF Write, Goto
  <2>2. \A q \in Proc \ {p} : pc[q] \notin Writing
    BY <2>1 DEF Writing, Proc
  <2>3. QED BY <2>1, <2>2 DEF TypeOK, Writing, Proc
<1>9. ASSUME NEW p \in Writers,
             \/ WriteBusy(p) \/ WriteWait(p) \/ WriteClear(p) \/ Sent(p)
             \/ WriteWhoWaits(p) \/ WriteWakeReader(p) \/ WriteWakeWriter(p)
             \/ WriteStop(p)
      PROVE  LetterInv'
  BY <1>1, <1>9 DEF WriteBusy, WriteWait, WriteClear, Sent, WriteWhoWaits,
                    WriteWakeReader, WriteWakeWriter, WriteStop,
                    Call, Set, Move, Goto, TypeOK, Writing
<1>10. QED
  BY <1>2, <1>3, <1>4, <1>5, <1>6, <1>7, <1>8, <1>9 DEF Next, Parent, Writer

-----------------------------------------------------------------------------
(* The invariant holds at the start.                                       *)
LEMMA InitInv == Init => IInv
<1> SUFFICES ASSUME Init PROVE IInv OBVIOUS
<1> USE LimitsAssumption DEF Init
<1>1. TypeOK
  BY DEF TypeOK, NoUndo
<1>2. PcOK /\ MainInv
  BY DEF PcOK, MainInv, Proc
<1>3. \A s \in Counters : At(Counted(s)) = {}
  BY DEF At, Counters, Counted, Reading, Writing, ReadWaiting, WriteWaiting
<1>4. CountInv
  <2>1. \A s \in Counters : In("unborn", s) = 0
    BY DEF In, Counted, Reading, Writing, ReadWaiting, WriteWaiting
  <2>2. \A s \in Counters :
          semval[s] = 0 /\ \A p \in Proc : pc[p] = "unborn" /\ semadj[p][s] = 0
    BY DEF NoUndo, Counters, Sem
  <2>3. \A s \in Counters : Cardinality(At(Counted(s))) = 0
    BY <1>3, FS_EmptySet
  <2>4. QED BY <2>1, <2>2, <2>3 DEF CountInv
<1>5. TokenInv
  BY DEF TokenInv, NoUndo, Tokens, Sem
<1>6. LetterInv
  BY DEF LetterInv, WritersExclude, WriterPrintsItsLetter, At, Writing, Proc
<1>7. QED BY <1>1, <1>2, <1>4, <1>5, <1>6 DEF IInv

(* Every step preserves the invariant.                                     *)
LEMMA Step == IInv /\ [Next]_vars => IInv'
BY SemStep, RestStep, LetterStep DEF IInv, SemInv

(* The invariant of the program.                                           *)
LEMMA Invariance == Spec => []IInv
BY InitInv, Step, PTL DEF Spec

(* Type correctness: no semaphore and no adjustment leaves its range.      *)
THEOREM TypeCorrect == Spec => []TypeOK
<1>1. IInv => TypeOK BY DEF IInv
<1>2. QED BY Invariance, <1>1, PTL

(* No two writers are between start_write and the end of stop_write.       *)
THEOREM WritersExclusion == Spec => []WritersExclude
<1>1. IInv => WritersExclude BY DEF IInv, LetterInv
<1>2. QED BY Invariance, <1>1, PTL

(* The four counters are exact, also after any number of deaths.           *)
THEOREM ExactCounters == Spec => []CountsExact
<1>1. IInv => CountsExact
  BY DEF IInv, CountInv, CountsExact, Counters, Counted
<1>2. QED BY Invariance, <1>1, PTL

(* One token of each kind at most, also after any number of deaths.        *)
THEOREM SingleToken == Spec => []OneToken
<1>1. IInv => OneToken BY DEF IInv, TokenInv, OneToken, Tokens
<1>2. QED BY Invariance, <1>1, PTL

(* write_func prints the letter it stored.                                 *)
THEOREM PrintsItsLetter == Spec => []WriterPrintsItsLetter
<1>1. IInv => WriterPrintsItsLetter BY DEF IInv, LetterInv
<1>2. QED BY Invariance, <1>1, PTL

(* No semop fails with ERANGE, so the exits of the code behind one are     *)
(* never taken.                                                            *)
THEOREM SemopsInRange == Spec => []NeverOutOfRange
<1>1. IInv => NeverOutOfRange
  <2> SUFFICES ASSUME IInv, NEW p \in Proc
               PROVE  ~OutOfRange(p, SemopOf(p))
    BY DEF NeverOutOfRange
  <2> DEFINE ops == SemopOf(p)
  <2>1. /\ ops.dec \subseteq Sem /\ ops.inc \subseteq Counters
        /\ ops.dec \cap ops.inc = {}
        /\ \A s \in ops.inc : In(pc[p], s) = 0
        /\ \A s \in ops.dec \cap Counters : In(pc[p], s) = 1
    <3> USE DEF SemopOf, Sem, Counters, In, Counted,
                Reading, Writing, ReadWaiting, WriteWaiting
    <3>1. CASE pc[p] = "rdir" BY <3>1 DEF read_dir
    <3>2. CASE pc[p] = "rwait" BY <3>2 DEF read_wait
    <3>3. CASE pc[p] = "rawake" BY <3>3 DEF read_awake
    <3>4. CASE pc[p] = "rstop" BY <3>4 DEF read_stop
    <3>5. CASE pc[p] = "wdir" BY <3>5 DEF write_dir
    <3>6. CASE pc[p] = "wwait" BY <3>6 DEF write_wait
    <3>7. CASE pc[p] = "wawake" BY <3>7 DEF write_awake
    <3>8. CASE pc[p] = "wstop" BY <3>8 DEF write_stop
    <3>9. CASE pc[p] \notin {"rdir", "rwait", "rawake", "rstop",
                            "wdir", "wwait", "wawake", "wstop"}
      <4>1. ops = [zero |-> {}, dec |-> {}, inc |-> {}]
        BY <3>9
      <4>2. QED BY <4>1
    <3>10. QED
      BY <3>1, <3>2, <3>3, <3>4, <3>5, <3>6, <3>7, <3>8, <3>9
  <2> HIDE DEF ops
  <2> SUFFICES ASSUME NEW s \in ops.dec \cup ops.inc,
                      s \in ops.dec => semval[s] > 0
               PROVE  /\ ~ (semval[s] + Delta(ops, s) > SEMVMX)
                      /\ ~ (semadj[p][s] - Delta(ops, s) < -SEMAEM - 1)
                      /\ ~ (semadj[p][s] - Delta(ops, s) > SEMAEM)
    BY DEF OutOfRange, ops
  <2>2. semval[s] \in 0 .. SEMVMX /\ SEMVMX \in Nat /\ SEMAEM \in Nat
        /\ SEMAEM >= 1 /\ s \in Sem
    BY <2>1, LimitsAssumption DEF IInv, TypeOK, Counters, Sem
  <2>3. CASE s \in ops.inc
    <3>1. Delta(ops, s) = 1 /\ s \in Counters
      BY <2>1, <2>3 DEF Delta
    <3>2. semadj[p][s] = 0
      BY <2>1, <2>3, <3>1 DEF IInv, CountInv
    <3>3. Cardinality(At(Counted(s))) < Cardinality(Proc)
      <4>1. At(Counted(s)) \subseteq Proc \ {p}
        BY <2>1, <2>3 DEF At, In
      <4>2. Cardinality(Proc \ {p}) = Cardinality(Proc) - 1
            /\ IsFiniteSet(Proc \ {p})
        BY ProcFinite, FS_RemoveElement
      <4>3. /\ Cardinality(Proc) \in Nat /\ Cardinality(At(Counted(s))) \in Nat
            /\ Cardinality(At(Counted(s))) <= Cardinality(Proc \ {p})
        BY <4>1, <4>2, ProcFinite, FS_Subset, FS_CardinalityType
      <4>4. QED BY <4>2, <4>3
    <3>4. semval[s] < SEMVMX
      <4>1. Cardinality(Proc) <= SEMVMX /\ Cardinality(Proc) \in Nat
            /\ Cardinality(At(Counted(s))) \in Nat
        BY LimitsAssumption, ProcFinite, FS_CardinalityType DEF Proc
      <4>2. semval[s] = Cardinality(At(Counted(s)))
        BY <3>1 DEF IInv, CountInv
      <4>3. QED BY <2>2, <3>3, <4>1, <4>2
    <3>5. QED BY <2>2, <3>1, <3>2, <3>4
  <2>4. CASE s \in ops.dec
    <3>1. Delta(ops, s) = -1
      BY <2>1, <2>4 DEF Delta
    <3>2. semadj[p][s] \in -1 .. 0
      <4>1. CASE s \in Counters
        BY <2>1, <2>4, <4>1 DEF IInv, CountInv
      <4>2. CASE s \in Tokens
        <5>1. semval[s] = 1 /\ semadj[p][s] \in 0 .. 1
              /\ (semadj[p][s] = 1 => semval[s] = 0)
          BY <2>4, <4>2 DEF IInv, TokenInv
        <5>2. QED BY <5>1
      <4>3. QED BY <2>2, <4>1, <4>2 DEF Sem, Counters, Tokens
    <3>3. QED BY <2>2, <3>1, <3>2
  <2>5. QED BY <2>3, <2>4
<1>2. QED BY Invariance, <1>1, PTL

(* The counters are exact, tokens single and semops in range, together.    *)
THEOREM ExactSemaphores == Spec => []SemaphoresExact
<1> QED BY ExactCounters, SingleToken, SemopsInRange, PTL DEF SemaphoresExact

(* A reader starts only while nobody writes.                               *)
THEOREM ReaderStart == Spec => ReaderStartsWithoutWriter
<1>1. ASSUME IInv, [Next]_vars
      PROVE  [\A p \in Readers :
                 pc[p] \notin Reading /\ pc'[p] \in Reading
                   => At(Writing) = {}]_vars
  <2> SUFFICES ASSUME Next, NEW p \in Readers,
                      pc[p] \notin Reading, pc'[p] \in Reading
               PROVE  At(Writing) = {}
    BY <1>1
  <2> TypeOK /\ PcOK BY <1>1 DEF IInv
  <2> USE ProcAssumption DEF Proc, Reading
  <2>1. \A q \in Writers : ~Writer(q)
    <3>1. ASSUME NEW q \in Writers, Writer(q)
          PROVE  pc'[p] = pc[p]
      <4>1. q # p
        OBVIOUS
      <4>2. \E l : pc' = [pc EXCEPT ![q] = l]
        BY <3>1 DEF Writer, WriteDir, WriteBusy, WriteWait, WriteClear,
                    WriteAwake, Write, Sent, WriteWhoWaits, WriteWakeReader,
                    WriteWakeWriter, WriteStop, Call, Set, Move, Goto
      <4>3. QED BY <4>1, <4>2 DEF TypeOK
    <3>2. QED BY <3>1
  <2>2. ~Parent /\ \A q \in Proc : ~Kill(q)
    BY DEF Parent, Fails, SemGet, ShmGet, Fork, Wait, RemoveSem, RemoveShm,
           Kill, TypeOK
  <2>3. PICK q \in Readers : Reader(q)
    BY <2>1, <2>2 DEF Next
  <2>4. ReadDir(q) \/ ReadAwake(q)
    BY <2>3 DEF Reader, ReadDir, ReadBusy, ReadWait, ReadClear, ReadAwake,
                ReadWakeNext, Read, ReadStop, ReadLast, ReadWakeWriter,
                Call, Set, Move, Goto, TypeOK
  <2>5. semval["ACT_W"] = 0
    BY <2>4 DEF ReadDir, ReadAwake, Call, Semop, Blocks, read_dir, read_awake
  <2>6. QED BY <1>1, <2>5, NobodyWrites
<1>2. QED BY Invariance, <1>1, PTL DEF Spec, ReaderStartsWithoutWriter
=============================================================================
