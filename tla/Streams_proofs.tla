---------------------------- MODULE Streams_proofs -----------------------------
(***************************************************************************)
(* Proofs about Streams, for any even number of letters and any buffer     *)
(* that takes less than the file and at least half of it.                  *)
(***************************************************************************)
EXTENDS Streams, SequenceTheorems, TLAPS

Labels ==
  {"none", "create", "open", "get", "put", "close", "done", "failed", "gone"}
Record == [by : Sides, letter : 1 .. N]

(* The letters that side t has printed, and those in its buffer.           *)
Printed(t) ==
  {l \in 1 .. N : \E k \in DOMAIN out : out[k].by = t /\ out[k].letter = l}
Values(s) == {s[k] : k \in DOMAIN s}
Got(t) == Printed(t) \cup Values(buff[t])
Increasing(s) == \A j, k \in DOMAIN s : j < k => s[j] < s[k]

(* No letters move before the file is open, and there is one side until    *)
(* pthread_create.                                                         *)
PcInv ==
  /\ \A t \in Sides :
       /\ prog \in Writing => pc[t] # "get"
       /\ prog \notin Writing => pc[t] \notin {"put", "close"}
  /\ pc[1] = "create" \/ (prog = "th1" /\ pc[1] = "open") => pc[2] = "none"

(* Whatever has been read is in a buffer or printed.                       *)
Total == Len(out) + (Len(buff[1]) + Len(buff[2]))

LenInv ==
  prog \notin Writing =>
    /\ file = <<>>
    /\ Total = IF prog \in Shared THEN offset[1] ELSE offset[1] + offset[2]

(* A side prints the letters of its buffer in order, and all of them.      *)
BuffInv ==
  prog \notin Writing =>
    /\ InOrder
    /\ \A t \in Sides :
         /\ Increasing(buff[t])
         /\ \A l \in Printed(t), m \in Values(buff[t]) : l < m
         /\ pc[t] = "done" => buff[t] = <<>> /\ offset[Fd(t)] = N

(* With one offset every letter up to it has gone to one side only ...     *)
SharedInv ==
  prog \in Shared =>
    Got(1) \cup Got(2) = 1 .. offset[1] /\ Got(1) \cap Got(2) = {}

(* ... and with two each side gets them all.                               *)
TwiceInv ==
  prog \in {"main2", "th2"} =>
    \A t \in Sides : Got(t) = 1 .. offset[t]

(* A FILE that writes holds every other letter, from its first one on.     *)
WriteInv ==
  prog \in Writing =>
    /\ out = <<>>
    /\ \A t \in Sides :
         /\ \A k \in DOMAIN buff[t] : buff[t][k] = 2 * k - 2 + t
         /\ i[t] = 2 * Len(buff[t]) + t /\ i[t] <= N + t
         /\ pc[t] \in {"none", "create", "open", "put"} => i[t] <= N
         /\ pc[t] \in {"close", "done"} => i[t] = N + t

(* Nothing is written behind the close that counts.                        *)
FileInv ==
  /\ prog = "main3" /\ pc[1] = "done" => pc[2] = "done" /\ file = Half(1)
  /\ prog = "th3" /\ Done => file \in {Half(1), Half(2)}
  /\ prog = "th3" /\ pc[1] = "done" /\ pc[2] \in {"open", "failed"} =>
       file = Half(1)

IInv ==
  /\ TypeOK /\ PcInv /\ LenInv /\ BuffInv /\ SharedInv /\ TwiceInv
  /\ WriteInv /\ FileInv

-----------------------------------------------------------------------------
(* Sequences                                                               *)

LEMMA SeqFacts ==
  ASSUME NEW S, NEW s \in Seq(S)
  PROVE  /\ Len(s) \in Nat /\ DOMAIN s = 1 .. Len(s)
         /\ \A k \in 1 .. Len(s) : s[k] \in S
         /\ Values(s) \subseteq S
         /\ (s = <<>>) <=> (Len(s) = 0)
         /\ s = <<>> => Values(s) = {}
<1>1. /\ Len(s) \in Nat /\ DOMAIN s = 1 .. Len(s)
      /\ \A k \in 1 .. Len(s) : s[k] \in S
      /\ (s = <<>>) <=> (Len(s) = 0)
  BY LenProperties, ElementOfSeq, EmptySeq
<1>2. Values(s) \subseteq S
  BY <1>1 DEF Values
<1>3. s = <<>> => Values(s) = {}
  BY <1>1 DEF Values
<1> QED BY <1>1, <1>2, <1>3

LEMMA TailFacts ==
  ASSUME NEW n \in Nat, NEW s \in Seq(1 .. n), s # <<>>
  PROVE  /\ Tail(s) \in Seq(1 .. n) /\ Len(Tail(s)) = Len(s) - 1
         /\ Head(s) = s[1] /\ Head(s) \in 1 .. n
         /\ \A k \in 1 .. Len(s) - 1 : Tail(s)[k] = s[k + 1]
         /\ Values(s) = Values(Tail(s)) \cup {Head(s)}
         /\ Increasing(s) => /\ Increasing(Tail(s))
                             /\ \A l \in Values(Tail(s)) : Head(s) < l
<1> DEFINE r == Tail(s)
<1>1. /\ r \in Seq(1 .. n) /\ Len(r) = Len(s) - 1
      /\ Head(s) = s[1] /\ Head(s) \in 1 .. n
      /\ \A k \in 1 .. Len(s) - 1 : r[k] = s[k + 1]
  BY HeadTailProperties
<1>2. /\ Len(s) \in Nat \ {0} /\ DOMAIN s = 1 .. Len(s)
      /\ DOMAIN r = 1 .. Len(s) - 1
      /\ \A k \in 1 .. Len(s) : s[k] \in 1 .. n
  BY <1>1, SeqFacts
<1> HIDE DEF r
<1>3. Values(s) = Values(r) \cup {s[1]}
  <2>1. ASSUME NEW k \in 1 .. Len(s) PROVE s[k] = s[1] \/ s[k] \in Values(r)
    <3>1. CASE k # 1
      <4>1. k - 1 \in 1 .. Len(s) - 1 /\ (k - 1) + 1 = k
        BY <1>2, <3>1
      <4>2. r[k - 1] = s[k]
        BY <1>1, <4>1
      <4> QED BY <1>2, <4>1, <4>2 DEF Values
    <3> QED BY <3>1
  <2>2. ASSUME NEW k \in 1 .. Len(s) - 1 PROVE r[k] \in Values(s)
    <3>1. k + 1 \in 1 .. Len(s)
      BY <1>2
    <3> QED BY <1>1, <1>2, <3>1 DEF Values
  <2>3. 1 \in DOMAIN s
    BY <1>2
  <2> QED BY <1>2, <2>1, <2>2, <2>3 DEF Values
<1>4. ASSUME Increasing(s)
      PROVE  Increasing(r) /\ \A l \in Values(r) : s[1] < l
  <2>1. ASSUME NEW j \in 1 .. Len(s) - 1, NEW k \in 1 .. Len(s) - 1, j < k
        PROVE  r[j] < r[k]
    <3>1. j + 1 \in 1 .. Len(s) /\ k + 1 \in 1 .. Len(s) /\ j + 1 < k + 1
      BY <1>2, <2>1
    <3> QED BY <1>1, <1>2, <1>4, <3>1 DEF Increasing
  <2>2. ASSUME NEW k \in 1 .. Len(s) - 1 PROVE s[1] < r[k]
    <3>1. k + 1 \in 1 .. Len(s) /\ 1 \in 1 .. Len(s) /\ 1 < k + 1
      BY <1>2
    <3> QED BY <1>1, <1>2, <1>4, <3>1 DEF Increasing
  <2> QED BY <1>2, <2>1, <2>2 DEF Increasing, Values
<1> QED BY <1>1, <1>3, <1>4 DEF r

LEMMA LettersFacts ==
  ASSUME NEW n \in Nat, NEW from \in 1 .. n, NEW to \in from .. n
  PROVE  /\ Letters(from, to) \in Seq(1 .. n)
         /\ Len(Letters(from, to)) = to - from + 1
         /\ \A k \in 1 .. to - from + 1 : Letters(from, to)[k] = from + k - 1
         /\ Increasing(Letters(from, to))
         /\ Values(Letters(from, to)) = from .. to
<1> DEFINE s == Letters(from, to)
           m == to - from + 1
<1>1. m \in Nat /\ \A k \in 1 .. m : from + k - 1 \in 1 .. n
  OBVIOUS
<1>2. s = [k \in 1 .. m |-> from + k - 1]
  BY DEF Letters
<1>3. s \in Seq(1 .. n) /\ Len(s) = m /\ DOMAIN s = 1 .. m
      /\ \A k \in 1 .. m : s[k] = from + k - 1
  <2>1. s \in [1 .. m -> 1 .. n]
    BY <1>1, <1>2
  <2>2. s \in Seq(1 .. n)
    BY <1>1, <2>1
  <2> QED BY <1>1, <1>2, <2>1, <2>2, LenProperties
<1> HIDE DEF s
<1>4. Increasing(s)
  BY <1>1, <1>3 DEF Increasing
<1>5. Values(s) = from .. to
  <2>1. ASSUME NEW l \in from .. to PROVE l \in Values(s)
    <3>1. l - from + 1 \in 1 .. m /\ from + (l - from + 1) - 1 = l
      OBVIOUS
    <3> QED BY <1>3, <3>1 DEF Values
  <2>2. ASSUME NEW k \in 1 .. m PROVE s[k] \in from .. to
    BY <1>3
  <2> QED BY <1>3, <2>1, <2>2 DEF Values
<1> QED BY <1>3, <1>4, <1>5 DEF s

-----------------------------------------------------------------------------
(* What a step does                                                        *)

LEMMA HalfSize == N \div 2 \in Nat /\ 2 * (N \div 2) = N /\ N \in Nat /\ N > 1
BY SizesAssumption

LEMMA OtherSide ==
  ASSUME NEW t \in Sides
  PROVE  Other(t) \in Sides /\ Other(t) # t /\ \A s \in Sides : s = t \/ s = Other(t)
BY DEF Other, Sides

LEMMA PassFacts ==
  ASSUME TypeOK, NEW t \in Sides, NEW from, NEW to \in Labels, Pass(t, from, to)
  PROVE  /\ pc' \in [Sides -> Labels] /\ turn' \in Sides /\ prog' = prog
         /\ pc[t] = from /\ pc'[t] = to /\ pc'[Other(t)] = pc[Other(t)]
         /\ prog \in Threaded \/ turn = t
         /\ turn' = IF pc[Other(t)] = "done" THEN t ELSE Other(t)
<1>1. pc \in [Sides -> Labels]
  BY DEF TypeOK, Labels
<1> QED BY <1>1, OtherSide DEF Pass, May

LEMMA BothSides ==
  ASSUME NEW t \in Sides, NEW f \in [Sides -> Int]
  PROVE  f[1] + f[2] = f[t] + f[Other(t)]
<1>1. CASE t = 1 /\ Other(t) = 2
  BY <1>1 DEF Sides
<1>2. CASE t = 2 /\ Other(t) = 1
  BY <1>2 DEF Sides
<1> QED BY <1>1, <1>2 DEF Sides, Other

LEMMA SumStep ==
  ASSUME NEW t \in Sides, NEW f \in [Sides -> Nat], NEW g \in [Sides -> Nat],
         NEW k \in Int, g[t] = f[t] + k, g[Other(t)] = f[Other(t)],
         NEW n \in Nat, NEW m \in Int
  PROVE  /\ n + (f[1] + f[2]) \in Nat
         /\ (n + m) + (g[1] + g[2]) = (n + (f[1] + f[2])) + m + k
         /\ (n + m) + (g[1] + g[2]) >= n + m
<1>1. CASE t = 1 /\ Other(t) = 2
  BY <1>1 DEF Sides
<1>2. CASE t = 2 /\ Other(t) = 1
  BY <1>2 DEF Sides
<1> QED BY <1>1, <1>2 DEF Sides, Other

(* How many letters there are outside the file.                            *)
LEMMA TotalStep ==
  ASSUME TypeOK, NEW t \in Sides, buff' \in [Sides -> Seq(1 .. N)],
         buff'[Other(t)] = buff[Other(t)],
         NEW k \in Int, Len(buff'[t]) = Len(buff[t]) + k,
         NEW m \in Int, Len(out') = Len(out) + m
  PROVE  /\ Total \in Nat /\ Total' = Total + m + k
         /\ Total' >= Len(out')
<1> DEFINE f == [s \in Sides |-> Len(buff[s])]
           g == [s \in Sides |-> Len(buff'[s])]
           n == Len(out)
<1>1. buff \in [Sides -> Seq(1 .. N)] /\ n \in Nat
  BY SeqFacts DEF TypeOK
<1>2. \A s \in Sides : Len(buff[s]) \in Nat /\ Len(buff'[s]) \in Nat
  BY <1>1, SeqFacts
<1>3. f \in [Sides -> Nat] /\ g \in [Sides -> Nat]
  BY <1>2
<1>4. /\ Total = n + (f[1] + f[2]) /\ Total' = (n + m) + (g[1] + g[2])
      /\ g[t] = f[t] + k /\ g[Other(t)] = f[Other(t)]
  BY DEF Total, Sides, Other
<1> HIDE DEF f, g, n
<1>5. /\ n + (f[1] + f[2]) \in Nat
      /\ (n + m) + (g[1] + g[2]) = (n + (f[1] + f[2])) + m + k
      /\ (n + m) + (g[1] + g[2]) >= n + m
  BY <1>1, <1>3, <1>4, SumStep, ZenonT(60)
<1> QED BY <1>4, <1>5 DEF n

(* A full buffer replaces all that is in the file; a shorter one does not  *)
(* make it longer than a full one.                                         *)
LEMMA FlushedFacts ==
  ASSUME TypeOK, NEW t \in Sides, Len(buff[t]) <= N \div 2
  PROVE  /\ Flushed(t) \in Seq(1 .. N) /\ Len(Flushed(t)) <= N \div 2
         /\ Len(buff[t]) = N \div 2 => Flushed(t) = buff[t]
<1> DEFINE b == buff[t]
           rest == SubSeq(file, Len(b) + 1, Len(file))
<1>1. b \in Seq(1 .. N) /\ Len(b) \in Nat /\ Len(b) <= N \div 2 /\ file \in Seq(1 .. N)
      /\ Len(file) \in Nat /\ Len(file) <= N \div 2
      /\ \A k \in 1 .. Len(file) : file[k] \in 1 .. N
  BY SeqFacts DEF TypeOK
<1>2. \A k \in Len(b) + 1 .. Len(file) : file[k] \in 1 .. N
  BY <1>1
<1>3. /\ rest \in Seq(1 .. N)
      /\ Len(rest) = IF Len(b) + 1 <= Len(file) THEN Len(file) - Len(b) ELSE 0
  <2> DEFINE m == Len(b) + 1
             n == Len(file)
  <2>1. m \in Int /\ n \in Int /\ \A k \in m .. n : file[k] \in 1 .. N
    BY <1>1, <1>2
  <2> HIDE DEF m, n
  <2>2. /\ SubSeq(file, m, n) \in Seq(1 .. N)
        /\ Len(SubSeq(file, m, n)) = IF m <= n THEN n - m + 1 ELSE 0
    BY <2>1, SubSeqProperties
  <2>3. m <= n => n - m + 1 = Len(file) - Len(b)
    BY <1>1 DEF m, n
  <2> QED BY <2>2, <2>3 DEF m, n
<1>4. Flushed(t) = b \o rest
  BY DEF Flushed
<1> HIDE DEF b, rest
<1>5. b \o rest \in Seq(1 .. N) /\ Len(b \o rest) = Len(b) + Len(rest)
  BY <1>1, <1>3, ConcatProperties
<1>6. Len(b) = N \div 2 => rest = <<>>
  BY <1>1, <1>3, SeqFacts, HalfSize
<1>7. Len(b \o rest) <= N \div 2
  BY <1>1, <1>3, <1>5, HalfSize
<1>8. rest = <<>> => b \o rest = b
  BY <1>1, ConcatEmptySeq
<1> QED BY <1>4, <1>5, <1>6, <1>7, <1>8 DEF b

(* What a FILE holds never gets longer than half of the alphabet.          *)
LEMMA WriteLen ==
  ASSUME IInv, prog \in Writing, NEW t \in Sides
  PROVE  /\ Len(buff[t]) \in Nat /\ Len(buff[t]) <= N \div 2
         /\ pc[t] \in {"close", "done"} => Len(buff[t]) = N \div 2
<1>1. Len(buff[t]) \in Nat
  BY SeqFacts DEF IInv, TypeOK
<1> DEFINE m == Len(buff[t])
<1>2. i[t] = 2 * m + t /\ i[t] <= N + t /\ t \in Nat
      /\ (pc[t] \in {"close", "done"} => i[t] = N + t)
  BY DEF IInv, WriteInv, Sides
<1>3. i[t] \in Nat
  BY DEF IInv, TypeOK
<1> HIDE DEF m
<1>4. m \in Nat => 2 * m <= N /\ (i[t] = N + t => 2 * m = N)
  BY <1>2, HalfSize
<1>5. m \in Nat /\ 2 * m <= N => m <= N \div 2
  BY HalfSize
<1>6. m \in Nat /\ 2 * m = N => m = N \div 2
  BY HalfSize
<1> QED BY <1>1, <1>2, <1>4, <1>5, <1>6 DEF m

LEMMA PrintedAppend ==
  ASSUME TypeOK, NEW t \in Sides, NEW h \in 1 .. N,
         out' = Append(out, [by |-> t, letter |-> h])
  PROVE  /\ out' \in Seq(Record) /\ Len(out') = Len(out) + 1
         /\ \A k \in 1 .. Len(out) : out'[k] = out[k]
         /\ out'[Len(out) + 1] = [by |-> t, letter |-> h]
         /\ \A s \in Sides :
              Printed(s)' = IF s = t THEN Printed(s) \cup {h} ELSE Printed(s)
<1> DEFINE o == [by |-> t, letter |-> h]
<1>1. out \in Seq(Record) /\ o \in Record
  BY DEF TypeOK, Record
<1>2. /\ out' \in Seq(Record) /\ Len(out') = Len(out) + 1
      /\ \A k \in 1 .. Len(out) : out'[k] = out[k]
      /\ out'[Len(out) + 1] = o
  BY <1>1, AppendProperties
<1>3. Len(out) \in Nat /\ DOMAIN out = 1 .. Len(out)
      /\ DOMAIN out' = 1 .. Len(out) + 1
  BY <1>1, <1>2, SeqFacts
<1>4. o.by = t /\ o.letter = h
  OBVIOUS
<1> HIDE DEF o
<1>5. ASSUME NEW s \in Sides
      PROVE  Printed(s)' = IF s = t THEN Printed(s) \cup {h} ELSE Printed(s)
  <2>1. ASSUME NEW l \in 1 .. N
        PROVE  (\E k \in DOMAIN out' : out'[k].by = s /\ out'[k].letter = l)
               <=> \/ \E k \in DOMAIN out : out[k].by = s /\ out[k].letter = l
                   \/ s = t /\ l = h
    <3>1. ASSUME NEW k \in DOMAIN out'
          PROVE  k \in DOMAIN out \/ k = Len(out) + 1
      BY <1>3
    <3>2. DOMAIN out \subseteq DOMAIN out' /\ Len(out) + 1 \in DOMAIN out'
      BY <1>3
    <3> QED BY <1>2, <1>3, <1>4, <3>1, <3>2
  <2> QED BY <2>1 DEF Printed
<1> QED BY <1>2, <1>5 DEF o

-----------------------------------------------------------------------------
(* The invariant                                                           *)

LEMMA NothingPrinted ==
  out = <<>> => DOMAIN out = {} /\ \A t \in Sides : Printed(t) = {}
BY EmptySeq, LenProperties DEF Printed

LEMMA InitInv == Init => IInv
<1> SUFFICES ASSUME Init PROVE IInv
  OBVIOUS
<1> USE HalfSize DEF Init
<1>1. /\ \A S : <<>> \in Seq(S)
      /\ Len(<<>>) = 0
  BY EmptySeq
<1>2. TypeOK
  <2>1. pc \in [Sides -> Labels]
    BY DEF Labels
  <2>2. offset \in [Sides -> 0 .. N] /\ i \in [Sides -> 1 .. N + 2]
    BY DEF Sides
  <2>3. turn \in Sides
    BY DEF Sides
  <2> QED BY <1>1, <2>1, <2>2, <2>3 DEF TypeOK, Labels
<1>3. PcInv /\ FileInv
  BY DEF PcInv, FileInv, Done, Threaded, Writing, Sides
<1>4. \A t \in Sides : buff[t] = <<>> /\ DOMAIN buff[t] = {} /\ offset[t] = 0
                       /\ Values(buff[t]) = {} /\ i[t] = t /\ pc[t] # "done"
  BY <1>1, SeqFacts DEF Values
<1>5. \A t \in Sides : Printed(t) = {} /\ DOMAIN out = {}
  BY NothingPrinted
<1>6. 1 \in Sides /\ 2 \in Sides /\ 1 .. 0 = {}
  BY DEF Sides
<1>7. LenInv
  BY <1>1, <1>4, <1>6 DEF LenInv, Total
<1>8. BuffInv
  BY <1>4, <1>5 DEF BuffInv, InOrder, Increasing
<1>9. SharedInv /\ TwiceInv
  BY <1>4, <1>5, <1>6 DEF SharedInv, TwiceInv, Got
<1>10. WriteInv
  <2>1. ASSUME NEW t \in Sides
        PROVE  i[t] = 2 * Len(buff[t]) + t /\ i[t] <= N
    BY <1>1, <1>4 DEF Sides
  <2>2. \A t \in Sides : N <= N + t
    BY DEF Sides
  <2> QED BY <1>4, <2>1, <2>2 DEF WriteInv, Sides
<1> QED BY <1>2, <1>3, <1>7, <1>8, <1>9, <1>10 DEF IInv

(* The sides are opened, created or given up without a letter moving.      *)
LEMMA ReadKept ==
  ASSUME IInv, prog \notin Writing,
         UNCHANGED <<prog, offset, buff, i, out, file>>,
         \A t \in Sides : pc'[t] = "done" => pc[t] = "done"
  PROVE  (LenInv /\ BuffInv /\ SharedInv /\ TwiceInv /\ WriteInv /\ FileInv)'
<1>1. \A t \in Sides : Printed(t)' = Printed(t)
  BY DEF Printed
<1>2. LenInv'
  BY DEF IInv, LenInv, Total
<1>3. BuffInv'
  BY <1>1 DEF IInv, BuffInv, InOrder, Fd
<1>4. SharedInv'
  <2>1. 1 \in Sides /\ 2 \in Sides
    BY DEF Sides
  <2> QED BY <1>1, <2>1 DEF IInv, SharedInv, Got
<1>5. TwiceInv'
  BY <1>1 DEF IInv, TwiceInv, Got
<1>6. WriteInv' /\ FileInv'
  BY DEF WriteInv, FileInv, Writing
<1> QED BY <1>2, <1>3, <1>4, <1>5, <1>6

LEMMA WriteVacuous ==
  ASSUME prog' \in Writing
  PROVE  (LenInv /\ BuffInv /\ SharedInv /\ TwiceInv)'
BY DEF LenInv, BuffInv, SharedInv, TwiceInv, Writing, Shared

LEMMA ReturnInv ==
  ASSUME IInv, Return
  PROVE  IInv'
<1>1. prog' = prog /\ UNCHANGED <<offset, buff, i, out>>
      /\ \A t \in Sides : pc'[t] = "gone"
  BY DEF Return
<1>2. TypeOK'
  <2>1. 2 \in Sides /\ pc' \in [Sides -> Labels]
    BY DEF Return, Sides, Labels
  <2>2. prog = "th3" => Flushed(2) \in Seq(1 .. N) /\ Len(Flushed(2)) <= N \div 2
    BY <2>1, WriteLen, FlushedFacts DEF IInv, Writing
  <2>3. file' \in Seq(1 .. N) /\ Len(file') <= N \div 2
    BY <2>2 DEF Return, IInv, TypeOK
  <2> QED BY <2>1, <2>3 DEF Return, IInv, TypeOK, Labels
<1>3. PcInv'
  BY <1>1 DEF PcInv, Sides
<1>4. CASE prog \notin Writing
  <2>1. file' = file
    BY <1>4 DEF Return, Writing
  <2> QED BY <1>1, <1>2, <1>3, <1>4, <2>1, ReadKept DEF IInv
<1>5. CASE prog \in Writing
  <2>1. WriteInv'
    BY <1>1, <1>5 DEF IInv, WriteInv
  <2>2. FileInv'
    BY <1>1 DEF FileInv, Done, Sides
  <2> QED BY <1>1, <1>2, <1>3, <1>5, <2>1, <2>2, WriteVacuous DEF IInv
<1> QED BY <1>4, <1>5

LEMMA CreateInv ==
  ASSUME IInv, CreateThread
  PROVE  IInv'
<1> USE DEF CreateThread
<1>1. pc' \in [Sides -> Labels] /\ pc'[1] \in {"get", "open"} /\ pc'[2] = "open"
      /\ (prog = "th1" <=> pc'[1] = "get")
  BY DEF Sides, Labels
<1>2. \A t \in Sides : pc[t] \in {"create", "none"}
  BY DEF IInv, PcInv, Sides
<1>3. TypeOK'
  BY <1>1 DEF IInv, TypeOK, Labels
<1>4. PcInv'
  BY <1>1 DEF IInv, PcInv, Sides, Writing
<1>5. \A t \in Sides : pc'[t] \in {"get", "open"}
  BY <1>1 DEF Sides
<1>6. CASE prog \notin Writing
  BY <1>3, <1>4, <1>5, <1>6, ReadKept DEF IInv
<1>7. CASE prog \in Writing
  <2>1. WriteInv'
    BY <1>2, <1>5, <1>7 DEF IInv, WriteInv
  <2>2. FileInv'
    BY <1>1 DEF FileInv, Done, Sides
  <2> QED BY <1>3, <1>4, <1>7, <2>1, <2>2, WriteVacuous DEF IInv
<1> QED BY <1>6, <1>7

LEMMA ThreadFailsInv ==
  ASSUME IInv, ThreadFails
  PROVE  IInv'
<1> USE DEF ThreadFails
<1>1. /\ pc' \in [Sides -> Labels] /\ 2 \in Sides
      /\ pc[2] = "open" /\ pc'[2] = "failed" /\ pc'[1] = pc[1]
  BY DEF IInv, TypeOK, Sides, Labels
<1>2. \A t \in Sides : pc'[t] = pc[t] \/ pc'[t] = "failed"
  BY <1>1 DEF Sides
<1>3. TypeOK'
  BY <1>1 DEF IInv, TypeOK, Labels
<1>4. PcInv'
  BY <1>1, <1>2 DEF IInv, PcInv
<1>5. CASE prog \notin Writing
  BY <1>2, <1>3, <1>4, <1>5, ReadKept DEF IInv
<1>6. CASE prog \in Writing
  <2>1. WriteInv'
    BY <1>2, <1>6 DEF IInv, WriteInv
  <2>2. FileInv'
    BY <1>1 DEF IInv, FileInv, Done, Half
  <2> QED BY <1>3, <1>4, <1>6, <2>1, <2>2, WriteVacuous DEF IInv
<1> QED BY <1>5, <1>6

LEMMA OpenInv ==
  ASSUME IInv, NEW t \in Sides, Open(t)
  PROVE  IInv'
<1> DEFINE to == IF prog = "th1" /\ t = 1 THEN "create"
                 ELSE IF prog \in Writing THEN "put" ELSE "get"
<1>1. to \in Labels /\ Pass(t, "open", to)
      /\ UNCHANGED <<prog, offset, buff, i, out>>
  BY DEF Open, Pass, Labels
<1> HIDE DEF to
<1>2. /\ pc' \in [Sides -> Labels] /\ turn' \in Sides
      /\ pc[t] = "open" /\ pc'[t] = to /\ pc'[Other(t)] = pc[Other(t)]
  BY <1>1, PassFacts DEF IInv
<1>3. \A s \in Sides : s = t \/ s = Other(t)
  BY OtherSide
<1>4. TypeOK'
  <2>1. file' = file \/ file' = <<>>
    BY DEF Open
  <2>2. <<>> \in Seq(1 .. N) /\ Len(<<>>) <= N \div 2
    BY EmptySeq, HalfSize
  <2>3. file' \in Seq(1 .. N) /\ Len(file') <= N \div 2
    BY <2>1, <2>2 DEF IInv, TypeOK
  <2> QED BY <1>1, <1>2, <2>3 DEF IInv, TypeOK, Labels
<1>5. PcInv'
  <2>1. \A s \in Sides : /\ prog \in Writing => pc'[s] # "get"
                         /\ prog \notin Writing => pc'[s] \notin {"put", "close"}
    BY <1>2, <1>3 DEF IInv, PcInv, to
  <2>2. pc'[1] = "create" \/ (prog = "th1" /\ pc'[1] = "open") => pc'[2] = "none"
    BY <1>2 DEF IInv, PcInv, Sides, Other, to
  <2> QED BY <1>1, <2>1, <2>2 DEF PcInv
<1>6. CASE prog \notin Writing
  <2>1. \A s \in Sides : pc'[s] = "done" => pc[s] = "done"
    BY <1>2, <1>3 DEF to
  <2>2. file' = file
    BY <1>6 DEF Open
  <2> QED BY <1>1, <1>4, <1>5, <1>6, <2>1, <2>2, ReadKept DEF IInv
<1>7. CASE prog \in Writing
  <2>1. to = "put"
    BY <1>7 DEF to, Writing
  <2>2. WriteInv'
    BY <1>1, <1>2, <1>3, <1>7, <2>1 DEF IInv, WriteInv
  <2>3. FileInv'
    BY <1>1, <1>2, <2>1 DEF IInv, FileInv, Done, Sides, Other
  <2> QED BY <1>1, <1>4, <1>5, <1>7, <2>2, <2>3, WriteVacuous DEF IInv
<1> QED BY <1>6, <1>7

LEMMA ReadVacuous ==
  ASSUME prog' \notin Writing
  PROVE  (WriteInv /\ FileInv)'
BY DEF WriteInv, FileInv, Writing

(* The loop of the FILEs that write ends with half of the alphabet in each *)
(* buffer.                                                                 *)
LEMMA PutInv ==
  ASSUME IInv, NEW t \in Sides, Put(t)
  PROVE  IInv'
<1> DEFINE to == IF i[t] + 2 > N THEN "close" ELSE "put"
           m == Len(buff[t])
<1>1. to \in {"close", "put"} /\ Pass(t, "put", to)
      /\ UNCHANGED <<prog, offset, out, file>>
      /\ buff' = [buff EXCEPT ![t] = Append(@, i[t])]
      /\ i' = [i EXCEPT ![t] = @ + 2]
  BY DEF Put, Pass
<1>0. i[t] + 2 > N => to = "close"
  OBVIOUS
<1>2. /\ pc' \in [Sides -> Labels] /\ turn' \in Sides
      /\ pc[t] = "put" /\ pc'[t] = to /\ pc'[Other(t)] = pc[Other(t)]
  BY <1>1, PassFacts DEF IInv, Labels
<1>3. Other(t) \in Sides /\ Other(t) # t /\ \A s \in Sides : s = t \/ s = Other(t)
  BY OtherSide
<1>4. prog \in Writing /\ prog' \in Writing
  BY <1>1, <1>2 DEF IInv, PcInv
<1>5. /\ i[t] \in 1 .. N /\ i[t] = 2 * m + t /\ m \in Nat
      /\ \A k \in 1 .. m : buff[t][k] = 2 * k - 2 + t
      /\ buff[t] \in Seq(1 .. N)
  <2>1. i[t] \in 1 .. N + 2 /\ i[t] <= N /\ i[t] = 2 * m + t
        /\ \A k \in DOMAIN buff[t] : buff[t][k] = 2 * k - 2 + t
    BY <1>2, <1>4 DEF IInv, TypeOK, WriteInv
  <2>2. buff[t] \in Seq(1 .. N)
    BY DEF IInv, TypeOK
  <2> QED BY <2>1, <2>2, SeqFacts, HalfSize
<1>6. /\ buff'[t] = Append(buff[t], i[t]) /\ i'[t] = i[t] + 2
      /\ buff'[Other(t)] = buff[Other(t)] /\ i'[Other(t)] = i[Other(t)]
  BY <1>1, <1>3 DEF IInv, TypeOK
<1>7. /\ buff'[t] \in Seq(1 .. N) /\ Len(buff'[t]) = m + 1
      /\ DOMAIN buff'[t] = 1 .. m + 1
      /\ \A k \in 1 .. m : buff'[t][k] = buff[t][k]
      /\ buff'[t][m + 1] = i[t]
  <2>1. /\ buff'[t] \in Seq(1 .. N) /\ Len(buff'[t]) = m + 1
        /\ \A k \in 1 .. m : buff'[t][k] = buff[t][k]
        /\ buff'[t][m + 1] = i[t]
    BY <1>5, <1>6, AppendProperties
  <2> QED BY <2>1, SeqFacts
<1> HIDE DEF to, m
<1>8. TypeOK'
  <2>1. buff' \in [Sides -> Seq(1 .. N)]
    BY <1>1, <1>6, <1>7 DEF IInv, TypeOK
  <2>2. i' \in [Sides -> 1 .. N + 2]
    <3>1. i[t] + 2 \in 1 .. N + 2
      BY <1>5, HalfSize
    <3> QED BY <1>1, <3>1 DEF IInv, TypeOK
  <2> QED BY <1>1, <1>2, <2>1, <2>2 DEF IInv, TypeOK, Labels
<1>9. PcInv'
  BY <1>1, <1>2, <1>3, <1>4 DEF IInv, PcInv, Sides, Writing
<1>10. WriteInv'
  <2>1. ASSUME NEW k \in DOMAIN buff'[t] PROVE buff'[t][k] = 2 * k - 2 + t
    <3>1. k \in 1 .. m \/ k = m + 1
      BY <1>5, <1>7
    <3>2. t \in Int
      BY DEF Sides
    <3> QED BY <1>5, <1>7, <3>1, <3>2
  <2>2. i'[t] = 2 * Len(buff'[t]) + t
    BY <1>5, <1>6, <1>7 DEF Sides
  <2>3. /\ i'[t] <= N + t
        /\ i[t] + 2 > N => i'[t] = N + t
        /\ ~(i[t] + 2 > N) => i'[t] <= N
    <3>1. t \in {1, 2} /\ 2 * m + t <= N /\ i'[t] = 2 * m + t + 2
      BY <1>5, <1>6 DEF Sides
    <3>2. PICK h \in Nat : N = 2 * h
      BY HalfSize
    <3> QED BY <1>5, <3>1, <3>2
  <2>4. /\ pc'[t] \in {"none", "create", "open", "put"} => i'[t] <= N
        /\ pc'[t] \in {"close", "done"} => i'[t] = N + t
    BY <1>0, <1>1, <1>2, <2>3 DEF to
  <2>5. \A s \in Sides :
          /\ \A k \in DOMAIN buff'[s] : buff'[s][k] = 2 * k - 2 + s
          /\ i'[s] = 2 * Len(buff'[s]) + s /\ i'[s] <= N + s
          /\ pc'[s] \in {"none", "create", "open", "put"} => i'[s] <= N
          /\ pc'[s] \in {"close", "done"} => i'[s] = N + s
    <3> SUFFICES ASSUME NEW s \in Sides, s # t
                 PROVE  /\ \A k \in DOMAIN buff'[s] : buff'[s][k] = 2 * k - 2 + s
                        /\ i'[s] = 2 * Len(buff'[s]) + s /\ i'[s] <= N + s
                        /\ pc'[s] \in {"none", "create", "open", "put"} => i'[s] <= N
                        /\ pc'[s] \in {"close", "done"} => i'[s] = N + s
      BY <2>1, <2>2, <2>3, <2>4
    <3>1. buff'[s] = buff[s] /\ i'[s] = i[s] /\ pc'[s] = pc[s]
      BY <1>2, <1>3, <1>6
    <3> QED BY <1>4, <3>1 DEF IInv, WriteInv
  <2> QED BY <1>1, <1>4, <2>5 DEF IInv, WriteInv
<1>11. FileInv'
  BY <1>1, <1>2, <1>3 DEF IInv, FileInv, Done, Half, Sides
<1> QED BY <1>4, <1>8, <1>9, <1>10, <1>11, WriteVacuous DEF IInv

(* A close leaves in the file what was in the buffer and nothing else.     *)
LEMMA CloseInv ==
  ASSUME IInv, NEW t \in Sides, Close(t)
  PROVE  IInv'
<1>1. /\ pc[t] = "close" /\ pc' = [pc EXCEPT ![t] = "done"]
      /\ prog = "main3" /\ t = 1 => pc[2] = "done"
      /\ file' = Flushed(t)
      /\ UNCHANGED <<prog, turn, offset, buff, i, out>>
  BY DEF Close
<1>2. Other(t) \in Sides /\ Other(t) # t /\ \A s \in Sides : s = t \/ s = Other(t)
  BY OtherSide
<1>3. /\ pc' \in [Sides -> Labels] /\ pc'[t] = "done" /\ pc'[Other(t)] = pc[Other(t)]
  BY <1>1, <1>2 DEF IInv, TypeOK, Labels
<1>4. prog \in Writing /\ prog' \in Writing
  BY <1>1 DEF IInv, PcInv
<1>5. /\ file' = buff[t] /\ file' \in Seq(1 .. N) /\ Len(file') <= N \div 2
      /\ Len(buff[t]) = N \div 2
  BY <1>1, <1>4, WriteLen, FlushedFacts DEF IInv
<1>6. file' = Half(t)
  <2>1. /\ buff[t] \in [1 .. N \div 2 -> 1 .. N]
        /\ DOMAIN buff[t] = 1 .. N \div 2
    BY <1>5, LenProperties DEF IInv, TypeOK
  <2>2. \A k \in 1 .. N \div 2 : buff[t][k] = 2 * k - 2 + t
    BY <1>4, <2>1 DEF IInv, WriteInv
  <2> QED BY <1>5, <2>1, <2>2 DEF Half
<1>7. TypeOK'
  BY <1>1, <1>3, <1>5 DEF IInv, TypeOK, Labels
<1>8. PcInv'
  BY <1>1, <1>2, <1>3, <1>4 DEF IInv, PcInv, Sides, Writing
<1>9. WriteInv'
  <2>1. \A s \in Sides : pc'[s] = pc[s] \/ (s = t /\ pc'[s] = "done")
    BY <1>2, <1>3
  <2> QED BY <1>1, <1>4, <2>1 DEF IInv, WriteInv
<1>10. FileInv'
  <2>1. Half(1)' = Half(1) /\ Half(2)' = Half(2)
    BY DEF Half
  <2>2. prog' = "main3" /\ pc'[1] = "done" => pc'[2] = "done" /\ file' = Half(1)
    BY <1>1, <1>2, <1>3, <1>6 DEF IInv, FileInv, Sides, Other
  <2>3. file' \in {Half(1), Half(2)}
    BY <1>6 DEF Sides
  <2>4. pc'[1] = "done" /\ pc'[2] \in {"open", "failed"} => file' = Half(1)
    BY <1>3, <1>6 DEF Sides
  <2> QED BY <2>1, <2>2, <2>3, <2>4 DEF FileInv
<1> QED BY <1>4, <1>7, <1>8, <1>9, <1>10, WriteVacuous DEF IInv

-----------------------------------------------------------------------------
(* Reading                                                                 *)

LEMMA GotBound ==
  ASSUME IInv, prog \notin Writing, NEW t \in Sides
  PROVE  /\ Fd(t) \in Sides /\ offset[Fd(t)] \in 0 .. N
         /\ Got(t) \subseteq 1 .. offset[Fd(t)]
         /\ prog \in Shared => Fd(t) = 1
         /\ prog \notin Shared => Fd(t) = t /\ prog \in {"main2", "th2"}
<1>1. /\ prog \in Shared => Fd(t) = 1
      /\ prog \notin Shared => Fd(t) = t /\ prog \in {"main2", "th2"}
  BY DEF IInv, TypeOK, Fd, Programs, Writing, Shared
<1>2. Fd(t) \in Sides
  BY <1>1 DEF Sides
<1>3. offset[Fd(t)] \in 0 .. N
  BY <1>2 DEF IInv, TypeOK
<1>4. CASE prog \in Shared
  BY <1>1, <1>2, <1>3, <1>4 DEF IInv, SharedInv, Sides
<1>5. CASE prog \notin Shared
  BY <1>1, <1>2, <1>3, <1>5 DEF IInv, TwiceInv
<1> QED BY <1>1, <1>2, <1>3, <1>4, <1>5

(* A block begins where the last one of the descriptor ended, so that the  *)
(* letters in it are new.                                                  *)
LEMMA FillFacts ==
  ASSUME IInv, NEW t \in Sides, Fill(t)
  PROVE  /\ prog \notin Writing /\ pc[t] = "get" /\ buff[t] = <<>>
         /\ UNCHANGED <<prog, pc, i, out, file>>
         /\ offset[Fd(t)] < N
         /\ Block(Fd(t)) \in offset[Fd(t)] + 1 .. N
         /\ offset' = [offset EXCEPT ![Fd(t)] = Block(Fd(t))]
         /\ buff' \in [Sides -> Seq(1 .. N)]
         /\ buff'[t] = Letters(offset[Fd(t)] + 1, Block(Fd(t)))
         /\ buff'[Other(t)] = buff[Other(t)]
         /\ Len(buff'[t]) = Block(Fd(t)) - offset[Fd(t)]
         /\ Increasing(buff'[t])
         /\ Values(buff'[t]) = offset[Fd(t)] + 1 .. Block(Fd(t))
<1>1. /\ pc[t] = "get" /\ buff[t] = <<>> /\ offset[Fd(t)] < N
      /\ UNCHANGED <<prog, i, out, file>>
      /\ offset' = [offset EXCEPT ![Fd(t)] = Block(Fd(t))]
      /\ buff' = [buff EXCEPT ![t] = Letters(offset[Fd(t)] + 1, Block(Fd(t)))]
  BY DEF Fill, May, Pass
<1>2. prog \notin Writing
  BY <1>1 DEF IInv, PcInv
<1>3. pc' = pc
  <2>1. pc \in [Sides -> Labels]
    BY DEF IInv, TypeOK, Labels
  <2> QED BY <1>1, <2>1 DEF Fill, Pass
<1>4. Fd(t) \in Sides /\ offset[Fd(t)] \in 0 .. N
  BY <1>2, GotBound
<1>5. Block(Fd(t)) \in offset[Fd(t)] + 1 .. N
  <2>1. BufSize \in Nat \ {0}
    BY SizesAssumption
  <2> QED BY <1>1, <1>4, <2>1, HalfSize DEF Block
<1> DEFINE from == offset[Fd(t)] + 1
           to == Block(Fd(t))
<1>6. from \in 1 .. N /\ to \in from .. N /\ N \in Nat
  BY <1>1, <1>4, <1>5, HalfSize
<1>7. to - from + 1 = Block(Fd(t)) - offset[Fd(t)]
  BY <1>4, <1>5
<1> HIDE DEF from, to
<1>8. /\ Letters(from, to) \in Seq(1 .. N) /\ Len(Letters(from, to)) = to - from + 1
      /\ Increasing(Letters(from, to)) /\ Values(Letters(from, to)) = from .. to
  BY <1>6, LettersFacts
<1>9. /\ buff' \in [Sides -> Seq(1 .. N)] /\ buff'[t] = Letters(from, to)
      /\ buff'[Other(t)] = buff[Other(t)]
  BY <1>1, <1>8, OtherSide DEF IInv, TypeOK, from, to
<1> QED BY <1>1, <1>2, <1>3, <1>5, <1>7, <1>8, <1>9 DEF from, to

LEMMA FillInv ==
  ASSUME IInv, NEW t \in Sides, Fill(t)
  PROVE  IInv'
<1> DEFINE d == Fd(t)
           o == offset[d]
           b == Block(d)
<1>1. /\ prog \notin Writing /\ pc[t] = "get" /\ buff[t] = <<>>
      /\ UNCHANGED <<prog, pc, i, out, file>>
      /\ o < N /\ b \in o + 1 .. N
      /\ offset' = [offset EXCEPT ![d] = b]
      /\ buff' \in [Sides -> Seq(1 .. N)]
      /\ buff'[Other(t)] = buff[Other(t)]
      /\ Len(buff'[t]) = b - o
      /\ Increasing(buff'[t])
      /\ Values(buff'[t]) = o + 1 .. b
  BY FillFacts
<1>2. /\ d \in Sides /\ o \in 0 .. N /\ Got(t) \subseteq 1 .. o
      /\ prog \in Shared => d = 1
      /\ prog \notin Shared => d = t /\ prog \in {"main2", "th2"}
  BY <1>1, GotBound
<1>3. Other(t) \in Sides /\ Other(t) # t /\ \A s \in Sides : s = t \/ s = Other(t)
  BY OtherSide
<1> HIDE DEF d, o, b
<1>4. /\ \A s \in Sides : Fd(s)' = Fd(s)
      /\ offset' \in [Sides -> 0 .. N]
      /\ offset'[d] = b /\ \A s \in Sides : s # d => offset'[s] = offset[s]
  BY <1>1, <1>2 DEF IInv, TypeOK, Fd
<1>5. TypeOK'
  <2>1. turn' \in Sides
    BY <1>3 DEF Fill, Pass, IInv, TypeOK
  <2> QED BY <1>1, <1>4, <2>1 DEF IInv, TypeOK
<1>6. PcInv'
  BY <1>1 DEF IInv, PcInv
<1>7. /\ \A s \in Sides : Printed(s)' = Printed(s)
      /\ Got(t)' = Got(t) \cup (o + 1 .. b)
      /\ Got(Other(t))' = Got(Other(t))
  <2>1. \A s \in Sides : Printed(s)' = Printed(s)
    BY <1>1 DEF Printed
  <2>2. Values(buff[t]) = {}
    BY <1>1, SeqFacts DEF IInv, TypeOK
  <2> QED BY <1>1, <1>3, <2>1, <2>2 DEF Got
<1>8. LenInv'
  <2>1. file' = <<>>
    BY <1>1 DEF IInv, LenInv
  <2>2. Total \in Nat /\ Total' = Total + (b - o)
    <3> DEFINE k == b - o
    <3>1. k \in Int /\ Len(buff'[t]) = Len(buff[t]) + k
      BY <1>1, <1>2, EmptySeq
    <3>2. 0 \in Int /\ Len(out) \in Int /\ Len(out') = Len(out) + 0
      BY <1>1, SeqFacts DEF IInv, TypeOK
    <3> HIDE DEF k
    <3>3. Total \in Nat /\ Total' = Total + 0 + k
      BY <1>1, <3>1, <3>2, TotalStep DEF IInv
    <3> QED BY <3>1, <3>3 DEF k
  <2>3. CASE prog \in Shared
    <3>1. Total = o
      BY <1>1, <1>2, <2>3 DEF IInv, LenInv, o
    <3>2. Total' = b
      BY <1>1, <1>2, <2>2, <3>1
    <3> QED BY <1>1, <1>2, <1>4, <2>1, <2>3, <3>2 DEF LenInv
  <2>4. CASE prog \notin Shared
    <3>1. Total = offset[1] + offset[2]
      BY <1>1, <2>4 DEF IInv, LenInv
    <3>2. o = offset[t] /\ offset'[t] = b /\ offset'[Other(t)] = offset[Other(t)]
      BY <1>2, <1>3, <1>4, <2>4 DEF o
    <3>3. offset \in [Sides -> Int] /\ offset' \in [Sides -> Int]
      BY <1>4, HalfSize DEF IInv, TypeOK
    <3>4. /\ offset[1] + offset[2] = offset[t] + offset[Other(t)]
          /\ offset'[1] + offset'[2] = offset'[t] + offset'[Other(t)]
      BY <3>3, BothSides
    <3>5. offset[Other(t)] \in Int /\ o \in Int /\ b \in Int
      BY <1>1, <1>2, <1>3, <3>3
    <3>6. Total' = offset'[1] + offset'[2]
      BY <2>2, <3>1, <3>2, <3>4, <3>5
    <3> QED BY <1>1, <2>1, <2>4, <3>6 DEF LenInv
  <2> QED BY <2>3, <2>4
<1>9. BuffInv'
  <2>1. InOrder'
    BY <1>1 DEF IInv, BuffInv, InOrder
  <2>2. \A l \in Printed(t)', m \in Values(buff'[t]) : l < m
    BY <1>1, <1>2, <1>7 DEF Got
  <2>3. /\ Increasing(buff'[Other(t)])
        /\ \A l \in Printed(Other(t))', m \in Values(buff'[Other(t)]) : l < m
    BY <1>1, <1>3, <1>7 DEF IInv, BuffInv
  <2>4. ASSUME NEW s \in Sides, pc'[s] = "done"
        PROVE  buff'[s] = <<>> /\ offset'[Fd(s)'] = N
    <3>1. s = Other(t) /\ buff[s] = <<>> /\ offset[Fd(s)] = N
      BY <1>1, <1>3, <2>4 DEF IInv, BuffInv
    <3>2. Fd(s) # d /\ Fd(s) \in Sides
      BY <1>1, <1>2, <3>1, GotBound DEF o
    <3> QED BY <1>1, <1>4, <3>1, <3>2
  <2> QED BY <1>1, <1>3, <2>1, <2>2, <2>3, <2>4 DEF BuffInv
<1>10. SharedInv'
  <2> SUFFICES ASSUME prog \in Shared PROVE SharedInv'
    BY <1>1 DEF SharedInv
  <2>1. Got(1) \cup Got(2) = 1 .. o /\ Got(1) \cap Got(2) = {}
    BY <1>2 DEF IInv, SharedInv, o
  <2>2. /\ (1 .. o) \cup (o + 1 .. b) = 1 .. b
        /\ (1 .. o) \cap (o + 1 .. b) = {}
    BY <1>1, <1>2
  <2>3. /\ Got(1)' \cup Got(2)' = (Got(1) \cup Got(2)) \cup (o + 1 .. b)
        /\ Got(1)' \cap Got(2)' = {}
    BY <1>3, <1>7, <2>1, <2>2 DEF Sides, Other
  <2> QED BY <1>2, <1>4, <2>1, <2>2, <2>3 DEF SharedInv
<1>11. TwiceInv'
  <2> SUFFICES ASSUME prog \in {"main2", "th2"}, NEW s \in Sides
               PROVE  Got(s)' = 1 .. offset'[s]
    BY <1>1 DEF TwiceInv
  <2>1. d = t /\ Got(s) = 1 .. offset[s]
    BY <1>2 DEF IInv, TwiceInv, Shared
  <2>2. CASE s = t
    <3>1. (1 .. o) \cup (o + 1 .. b) = 1 .. b
      BY <1>1, <1>2
    <3>2. Got(t) = 1 .. o /\ offset'[t] = b
      BY <1>4, <2>1, <2>2 DEF o
    <3> QED BY <1>7, <2>2, <3>1, <3>2
  <2>3. CASE s # t
    BY <1>3, <1>4, <1>7, <2>1, <2>3
  <2> QED BY <2>2, <2>3
<1> QED BY <1>1, <1>5, <1>6, <1>8, <1>9, <1>10, <1>11, ReadVacuous DEF IInv

(* A letter goes from the front of the buffer to the end of the output.    *)
LEMMA PutOutFacts ==
  ASSUME IInv, NEW t \in Sides, PutOut(t)
  PROVE  /\ prog \notin Writing /\ buff[t] # <<>>
         /\ pc[t] = "get" /\ pc' = pc /\ UNCHANGED <<prog, offset, i, file>>
         /\ prog \in Threaded \/ turn = t
         /\ turn' = IF pc[Other(t)] = "done" THEN t ELSE Other(t)
         /\ out' \in Seq(Record) /\ Len(out') = Len(out) + 1
         /\ \A k \in 1 .. Len(out) : out'[k] = out[k]
         /\ out'[Len(out) + 1] = [by |-> t, letter |-> buff[t][1]]
         /\ \A s \in Sides :
              Printed(s)' = IF s = t THEN Printed(s) \cup {buff[t][1]} ELSE Printed(s)
         /\ buff' \in [Sides -> Seq(1 .. N)]
         /\ buff'[Other(t)] = buff[Other(t)]
         /\ Len(buff'[t]) = Len(buff[t]) - 1
         /\ \A k \in 1 .. Len(buff[t]) - 1 : buff'[t][k] = buff[t][k + 1]
         /\ Values(buff[t]) = Values(buff'[t]) \cup {buff[t][1]}
         /\ Increasing(buff'[t]) /\ \A l \in Values(buff'[t]) : buff[t][1] < l
<1>1. /\ buff[t] # <<>> /\ Pass(t, "get", "get")
      /\ out' = Append(out, [by |-> t, letter |-> Head(buff[t])])
      /\ buff' = [buff EXCEPT ![t] = Tail(@)]
      /\ UNCHANGED <<prog, offset, i, file>>
  BY DEF PutOut, Pass
<1>2. /\ pc[t] = "get" /\ pc' = pc
      /\ prog \in Threaded \/ turn = t
      /\ turn' = IF pc[Other(t)] = "done" THEN t ELSE Other(t)
  <2>1. pc \in [Sides -> Labels]
    BY DEF IInv, TypeOK, Labels
  <2> QED BY <1>1, <2>1 DEF Pass, May
<1>3. prog \notin Writing
  BY <1>2 DEF IInv, PcInv
<1>4. N \in Nat /\ buff[t] \in Seq(1 .. N) /\ Increasing(buff[t])
  BY <1>3, HalfSize DEF IInv, TypeOK, BuffInv
<1>5. /\ Tail(buff[t]) \in Seq(1 .. N) /\ Len(Tail(buff[t])) = Len(buff[t]) - 1
      /\ Head(buff[t]) = buff[t][1] /\ buff[t][1] \in 1 .. N
      /\ \A k \in 1 .. Len(buff[t]) - 1 : Tail(buff[t])[k] = buff[t][k + 1]
      /\ Values(buff[t]) = Values(Tail(buff[t])) \cup {buff[t][1]}
      /\ Increasing(Tail(buff[t]))
      /\ \A l \in Values(Tail(buff[t])) : buff[t][1] < l
  <2> DEFINE b == buff[t]
  <2>1. N \in Nat /\ b \in Seq(1 .. N) /\ Increasing(b) /\ b # <<>>
    BY <1>1, <1>4
  <2> HIDE DEF b
  <2>2. /\ Tail(b) \in Seq(1 .. N) /\ Len(Tail(b)) = Len(b) - 1
        /\ Head(b) = b[1] /\ Head(b) \in 1 .. N
        /\ \A k \in 1 .. Len(b) - 1 : Tail(b)[k] = b[k + 1]
        /\ Values(b) = Values(Tail(b)) \cup {Head(b)}
        /\ Increasing(Tail(b)) /\ \A l \in Values(Tail(b)) : Head(b) < l
    BY <2>1, TailFacts
  <2> QED BY <2>2 DEF b
<1>6. /\ buff'[t] = Tail(buff[t]) /\ buff'[Other(t)] = buff[Other(t)]
      /\ buff' \in [Sides -> Seq(1 .. N)]
  BY <1>1, <1>5, OtherSide DEF IInv, TypeOK
<1>7. /\ out' \in Seq(Record) /\ Len(out') = Len(out) + 1
      /\ \A k \in 1 .. Len(out) : out'[k] = out[k]
      /\ out'[Len(out) + 1] = [by |-> t, letter |-> buff[t][1]]
      /\ \A s \in Sides :
           Printed(s)' = IF s = t THEN Printed(s) \cup {buff[t][1]} ELSE Printed(s)
  BY <1>1, <1>5, PrintedAppend DEF IInv
<1> QED BY <1>1, <1>2, <1>3, <1>5, <1>6, <1>7

LEMMA PutOutInv ==
  ASSUME IInv, NEW t \in Sides, PutOut(t)
  PROVE  IInv'
<1> DEFINE h == buff[t][1]
<1>1. /\ prog \notin Writing /\ buff[t] # <<>>
      /\ pc[t] = "get" /\ pc' = pc /\ UNCHANGED <<prog, offset, i, file>>
      /\ turn' = IF pc[Other(t)] = "done" THEN t ELSE Other(t)
      /\ out' \in Seq(Record) /\ Len(out') = Len(out) + 1
      /\ \A k \in 1 .. Len(out) : out'[k] = out[k]
      /\ out'[Len(out) + 1] = [by |-> t, letter |-> h]
      /\ \A s \in Sides : Printed(s)' = IF s = t THEN Printed(s) \cup {h} ELSE Printed(s)
      /\ buff' \in [Sides -> Seq(1 .. N)]
      /\ buff'[Other(t)] = buff[Other(t)]
      /\ Len(buff'[t]) = Len(buff[t]) - 1
      /\ Values(buff[t]) = Values(buff'[t]) \cup {h}
      /\ Increasing(buff'[t]) /\ \A l \in Values(buff'[t]) : h < l
  BY PutOutFacts
<1>2. Other(t) \in Sides /\ Other(t) # t /\ \A s \in Sides : s = t \/ s = Other(t)
  BY OtherSide
<1> HIDE DEF h
<1>3. \A s \in Sides : Got(s)' = Got(s) /\ Fd(s)' = Fd(s)
  BY <1>1, <1>2 DEF Got, Fd
<1>4. /\ Len(out) \in Nat /\ \A s \in Sides : Len(buff[s]) \in Nat
      /\ \A s \in Sides : offset[s] \in 0 .. N
      /\ DOMAIN out = 1 .. Len(out) /\ DOMAIN out' = 1 .. Len(out) + 1
      /\ \A k \in 1 .. Len(out) : out[k] \in Record
  <2>1. out \in Seq(Record) /\ \A s \in Sides : buff[s] \in Seq(1 .. N)
    BY DEF IInv, TypeOK, Record
  <2>2. \A s \in Sides : offset[s] \in 0 .. N
    BY DEF IInv, TypeOK
  <2> QED BY <1>1, <2>1, <2>2, SeqFacts
<1>5. LenInv' /\ Len(out') <= 2 * N
  <2>1. Total \in Nat /\ Total' = Total + 1 + (-1) /\ Total' >= Len(out')
    <3>1. 1 \in Int /\ -1 \in Int /\ Len(buff'[t]) = Len(buff[t]) + (-1)
      BY <1>1, <1>4
    <3> QED BY <1>1, <3>1, TotalStep DEF IInv
  <2>2. Total' = Total
    BY <2>1
  <2>3. Total <= offset[1] + offset[2]
    BY <1>1, <1>4 DEF IInv, LenInv, Sides
  <2>4. offset[1] + offset[2] <= 2 * N /\ offset[1] + offset[2] \in Nat
    BY <1>4, HalfSize DEF Sides
  <2>5. Len(out') <= 2 * N
    BY <1>1, <1>4, <2>1, <2>2, <2>3, <2>4, HalfSize
  <2> QED BY <1>1, <2>2, <2>5 DEF IInv, LenInv
<1>6. TypeOK'
  <2>1. turn' \in Sides
    BY <1>1, <1>2
  <2> QED BY <1>1, <1>5, <2>1 DEF IInv, TypeOK, Record
<1>7. PcInv'
  BY <1>1 DEF IInv, PcInv
<1>8. BuffInv'
  <2>1. InOrder'
    <3> SUFFICES ASSUME NEW j \in DOMAIN out', NEW k \in DOMAIN out',
                        out'[j].by = out'[k].by, j < k
                 PROVE  out'[j].letter < out'[k].letter
      BY DEF InOrder
    <3>1. j \in 1 .. Len(out) /\ j \in DOMAIN out /\ out'[j] = out[j]
      BY <1>1, <1>4
    <3>2. CASE k = Len(out) + 1
      <4>1. out[j].by = t /\ out[j].letter \in 1 .. N /\ out'[k].letter = h
        BY <1>1, <1>4, <3>1, <3>2 DEF Record
      <4>2. out[j].letter \in Printed(t) /\ h \in Values(buff[t])
        BY <1>1, <3>1, <4>1 DEF Printed
      <4> QED BY <1>1, <3>1, <4>1, <4>2 DEF IInv, BuffInv
    <3>3. CASE k # Len(out) + 1
      <4>1. k \in DOMAIN out /\ out'[k] = out[k]
        BY <1>1, <1>4, <3>3
      <4>2. InOrder
        BY <1>1 DEF IInv, BuffInv
      <4> QED BY <3>1, <4>1, <4>2 DEF InOrder
    <3> QED BY <3>2, <3>3
  <2>2. \A l \in Printed(t)', m \in Values(buff'[t]) : l < m
    BY <1>1 DEF IInv, BuffInv
  <2>3. /\ Increasing(buff'[Other(t)])
        /\ \A l \in Printed(Other(t))', m \in Values(buff'[Other(t)]) : l < m
    BY <1>1, <1>2 DEF IInv, BuffInv
  <2>4. ASSUME NEW s \in Sides, pc'[s] = "done"
        PROVE  buff'[s] = <<>> /\ offset'[Fd(s)'] = N
    <3>1. s = Other(t)
      BY <1>1, <1>2, <2>4
    <3> QED BY <1>1, <1>3, <2>4, <3>1 DEF IInv, BuffInv
  <2> QED BY <1>1, <1>2, <2>1, <2>2, <2>3, <2>4 DEF BuffInv
<1>9. SharedInv' /\ TwiceInv'
  BY <1>1, <1>3 DEF IInv, SharedInv, TwiceInv, Sides
<1> QED BY <1>1, <1>5, <1>6, <1>7, <1>8, <1>9, ReadVacuous DEF IInv

LEMMA AtEndInv ==
  ASSUME IInv, NEW t \in Sides, AtEnd(t)
  PROVE  IInv'
<1>1. /\ buff[t] = <<>> /\ offset[Fd(t)] = N /\ Pass(t, "get", "done")
      /\ UNCHANGED <<prog, offset, buff, i, out, file>>
  BY DEF AtEnd, Pass
<1>2. /\ pc' \in [Sides -> Labels] /\ turn' \in Sides
      /\ pc[t] = "get" /\ pc'[t] = "done" /\ pc'[Other(t)] = pc[Other(t)]
  BY <1>1, PassFacts DEF IInv, Labels
<1>3. \A s \in Sides : s = t \/ s = Other(t)
  BY OtherSide
<1>4. prog \notin Writing
  BY <1>2 DEF IInv, PcInv
<1>5. TypeOK'
  BY <1>1, <1>2 DEF IInv, TypeOK, Labels
<1>6. PcInv'
  BY <1>1, <1>2, <1>3, <1>4 DEF IInv, PcInv, Sides, Other
<1>7. \A s \in Sides : Printed(s)' = Printed(s) /\ Fd(s)' = Fd(s)
  BY <1>1 DEF Printed, Fd
<1>8. LenInv'
  BY <1>1 DEF IInv, LenInv, Total
<1>9. BuffInv'
  BY <1>1, <1>2, <1>3, <1>7 DEF IInv, BuffInv, InOrder
<1>10. SharedInv' /\ TwiceInv'
  BY <1>1, <1>7 DEF IInv, SharedInv, TwiceInv, Got, Sides
<1> QED BY <1>1, <1>4, <1>5, <1>6, <1>8, <1>9, <1>10, ReadVacuous DEF IInv

LEMMA StutterInv ==
  ASSUME IInv, UNCHANGED vars
  PROVE  IInv'
<1> USE DEF vars
<1>1. TypeOK' /\ PcInv'
  BY DEF IInv, TypeOK, PcInv
<1>2. CASE prog \notin Writing
  BY <1>1, <1>2, ReadKept DEF IInv
<1>3. CASE prog \in Writing
  <2>1. WriteInv' /\ FileInv'
    BY DEF IInv, WriteInv, FileInv, Done, Half
  <2> QED BY <1>1, <1>3, <2>1, WriteVacuous DEF IInv
<1> QED BY <1>2, <1>3

LEMMA NextInv == IInv /\ [Next]_vars => IInv'
<1> SUFFICES ASSUME IInv, [Next]_vars PROVE IInv'
  OBVIOUS
<1>1. CASE CreateThread \/ CreateFails \/ ThreadFails
  BY <1>1, CreateInv, ReturnInv, ThreadFailsInv DEF CreateFails
<1>2. ASSUME NEW t \in Sides, Side(t) PROVE IInv'
  <2>1. CASE Open(t) \/ OpenFails(t)
    BY <2>1, OpenInv, ReturnInv DEF OpenFails
  <2>2. CASE Fill(t) \/ PutOut(t) \/ AtEnd(t)
    BY <2>2, FillInv, PutOutInv, AtEndInv
  <2>3. CASE Put(t) \/ Close(t)
    BY <2>3, PutInv, CloseInv
  <2> QED BY <1>2, <2>1, <2>2, <2>3 DEF Side
<1>3. CASE UNCHANGED vars
  BY <1>3, StutterInv
<1> QED BY <1>1, <1>2, <1>3 DEF Next

LEMMA Invariance == Spec => []IInv
<1> QED BY InitInv, NextInv, PTL DEF Spec

-----------------------------------------------------------------------------
(* The order in the programs with one thread                               *)

(* main1: where the two sides are, given what they do next, whose turn it  *)
(* is, how much has been read and how much is in each buffer.  Side 1 is   *)
(* one letter ahead in the turn of side 2, until one of them has printed   *)
(* its whole buffer.                                                       *)
Alternate(p1, p2, tn, o, x1, x2) ==
  /\ p1 \in {"open", "get", "done"} /\ p2 \in {"open", "get", "done"}
  /\ x1 <= BufSize /\ x2 <= N - BufSize
  /\ o \in {0, BufSize, N}
  /\ o = 0 => x1 = 0 /\ x2 = 0
  /\ o = BufSize => x2 = 0
  /\ p1 = "open" => p2 = "open" /\ tn = 1
  /\ p2 = "open" => o = 0
  /\ tn = 1 => p2 # "open" \/ p1 = "open"
  /\ tn = 1 /\ p2 # "done" => \/ o = 0
                              \/ o = BufSize /\ x1 = BufSize
                              \/ o = N /\ x1 - x2 = 2 * BufSize - N
  /\ tn = 2 /\ p2 # "open" /\ p1 # "done" =>
       \/ o = BufSize /\ x1 = BufSize - 1
       \/ o = N /\ x1 - x2 = 2 * BufSize - N - 1
  /\ p1 = "done" => o = N /\ x1 = 0 /\ x2 = 0
  /\ p2 = "done" => o = N /\ x2 = 0 /\ x1 <= 2 * BufSize - N

(* main2: both read, then both print.                                      *)
Both(p1, p2, tn, o1, o2, x1, x2) ==
  /\ p1 \in {"open", "get", "done"} /\ p2 \in {"open", "get", "done"}
  /\ x1 <= 1 /\ x2 <= 1
  /\ p1 = "open" => p2 = "open" /\ tn = 1
  /\ p2 = "open" => o1 = 0 /\ o2 = 0 /\ x1 = 0 /\ x2 = 0
  /\ tn = 1 => p2 # "open" \/ p1 = "open"
  /\ tn = 1 => o1 = o2 /\ x1 = x2
  /\ tn = 2 /\ p2 # "open" /\ p1 # "done" =>
       \/ o1 = o2 /\ x1 = 0 /\ x2 = 1
       \/ o1 = o2 + 1 /\ x1 = 1 /\ x2 = 0
  /\ p2 = "done" => p1 = "done"
  /\ p1 = "done" => o1 = N /\ o2 = N /\ x1 = 0 /\ x2 = 0

(* The letters of a buffer end with top.                                   *)
EndsWith(s, top) == \A k \in DOMAIN s : s[k] = top - Len(s) + k

OrderInv ==
  /\ prog = "main1" /\ pc[1] # "gone" =>
       /\ Alternate(pc[1], pc[2], turn, offset[1], Len(buff[1]), Len(buff[2]))
       /\ EndsWith(buff[1], BufSize) /\ EndsWith(buff[2], N)
  /\ prog = "main2" /\ pc[1] # "gone" =>
       /\ Both(pc[1], pc[2], turn, offset[1], offset[2], Len(buff[1]), Len(buff[2]))
       /\ EndsWith(buff[1], offset[1]) /\ EndsWith(buff[2], offset[2])
  /\ prog \in {"main1", "main2"} /\ pc[1] = "gone" => pc[2] = "gone"
  /\ OneThreadOrder

(* The letter that main1 prints as its k-th.                               *)
Nth1(k) ==
  IF k > 2 * (N - BufSize) THEN k - (N - BufSize)
  ELSE IF k % 2 = 1 THEN (k + 1) \div 2 ELSE BufSize + k \div 2

LEMMA Halves ==
  ASSUME NEW m \in Nat
  PROVE  /\ (2 * m + 1) % 2 = 1 /\ (2 * m) % 2 = 0
         /\ (2 * m + 1) \div 2 = m /\ (2 * m) \div 2 = m
OBVIOUS

LEMMA Nth1Odd ==
  ASSUME NEW m \in Nat, m <= N - BufSize
  PROVE  Nth1(2 * m + 1) = m + 1
<1>1. N \in Nat /\ BufSize \in Nat
  BY SizesAssumption
<1>2. CASE m = N - BufSize
  BY <1>1, <1>2 DEF Nth1
<1>3. CASE m < N - BufSize
  <2>1. ~(2 * m + 1 > 2 * (N - BufSize))
    BY <1>1, <1>3
  <2>2. (2 * m + 1) % 2 = 1 /\ (2 * m + 1) + 1 = 2 * (m + 1) /\ m + 1 \in Nat
    BY Halves
  <2>3. (2 * (m + 1)) \div 2 = m + 1
    BY <2>2, Halves
  <2> QED BY <2>1, <2>2, <2>3 DEF Nth1
<1> QED BY <1>1, <1>2, <1>3

LEMMA Nth1Even ==
  ASSUME NEW m \in Nat, m <= N - BufSize
  PROVE  Nth1(2 * m) = BufSize + m
<1>1. N \in Nat /\ BufSize \in Nat
  BY SizesAssumption
<1>2. ~(2 * m > 2 * (N - BufSize))
  BY <1>1
<1>3. (2 * m) % 2 = 0 /\ (2 * m) \div 2 = m
  BY Halves
<1> QED BY <1>2, <1>3 DEF Nth1

(* Side 1 of main1 prints a letter.                                        *)
LEMMA Alternate1 ==
  ASSUME NEW p2, NEW o \in Nat, NEW x1 \in Nat \ {0}, NEW x2 \in Nat,
         Alternate("get", p2, 1, o, x1, x2)
  PROVE  /\ Alternate("get", p2, IF p2 = "done" THEN 1 ELSE 2, o, x1 - 1, x2)
         /\ Nth1(o - x1 - x2 + 1) = BufSize - x1 + 1
<1>0. N \in Nat /\ BufSize \in Nat /\ BufSize < N /\ N <= 2 * BufSize
  BY SizesAssumption
<1>1. Alternate("get", p2, IF p2 = "done" THEN 1 ELSE 2, o, x1 - 1, x2)
  BY <1>0 DEF Alternate
<1>2. CASE p2 # "done"
  <2> DEFINE m == BufSize - x1
  <2>1. o - x1 - x2 + 1 = 2 * m + 1 /\ m \in Nat /\ m <= N - BufSize
        /\ BufSize - x1 + 1 = m + 1
    BY <1>0, <1>2 DEF Alternate
  <2> HIDE DEF m
  <2> QED BY <1>1, <2>1, Nth1Odd
<1>3. CASE p2 = "done"
  <2>1. x1 <= 2 * BufSize - N /\ o = N /\ x2 = 0
    BY <1>0, <1>3 DEF Alternate
  <2> QED BY <1>0, <1>1, <2>1 DEF Nth1
<1> QED BY <1>1, <1>2, <1>3

(* Side 2 of main1 does.                                                   *)
LEMMA Alternate2 ==
  ASSUME NEW p1, NEW o \in Nat, NEW x1 \in Nat, NEW x2 \in Nat \ {0},
         Alternate(p1, "get", 2, o, x1, x2)
  PROVE  /\ Alternate(p1, "get", IF p1 = "done" THEN 2 ELSE 1, o, x1, x2 - 1)
         /\ Nth1(o - x1 - x2 + 1) = N - x2 + 1
<1>0. N \in Nat /\ BufSize \in Nat /\ BufSize < N /\ N <= 2 * BufSize
  BY SizesAssumption
<1>1. p1 # "done" /\ o = N /\ x1 - x2 = 2 * BufSize - N - 1
      /\ x1 <= BufSize /\ x2 <= N - BufSize
  BY <1>0 DEF Alternate
<1>2. Alternate(p1, "get", IF p1 = "done" THEN 2 ELSE 1, o, x1, x2 - 1)
  BY <1>0, <1>1 DEF Alternate
<1> DEFINE m == N - BufSize - x2 + 1
<1>3. o - x1 - x2 + 1 = 2 * m /\ m \in Nat /\ m <= N - BufSize
      /\ N - x2 + 1 = BufSize + m
  BY <1>0, <1>1
<1> HIDE DEF m
<1> QED BY <1>2, <1>3, Nth1Even

(* Both sides of main2.                                                    *)
LEMMA BothPrint ==
  ASSUME NEW p1, NEW p2, NEW o1 \in Nat, NEW o2 \in Nat,
         NEW x1 \in Nat, NEW x2 \in Nat
  PROVE  /\ p1 = "get" /\ x1 > 0 /\ Both(p1, p2, 1, o1, o2, x1, x2) =>
              /\ p2 # "done" /\ Both(p1, p2, 2, o1, o2, x1 - 1, x2)
              /\ ((o1 + o2 - x1 - x2 + 1) + 1) \div 2 = o1 /\ x1 = 1
         /\ p2 = "get" /\ x2 > 0 /\ Both(p1, p2, 2, o1, o2, x1, x2) =>
              /\ p1 # "done" /\ Both(p1, p2, 1, o1, o2, x1, x2 - 1)
              /\ ((o1 + o2 - x1 - x2 + 1) + 1) \div 2 = o2 /\ x2 = 1
<1>1. ASSUME p1 = "get", x1 > 0, Both(p1, p2, 1, o1, o2, x1, x2)
      PROVE  /\ p2 # "done" /\ Both(p1, p2, 2, o1, o2, x1 - 1, x2)
             /\ ((o1 + o2 - x1 - x2 + 1) + 1) \div 2 = o1 /\ x1 = 1
  <2>1. p2 # "done" /\ x1 = 1 /\ x2 = 1 /\ o1 = o2
    BY <1>1 DEF Both
  <2>2. Both(p1, p2, 2, o1, o2, x1 - 1, x2)
    BY <1>1, <2>1 DEF Both
  <2>3. (o1 + o2 - x1 - x2 + 1) + 1 = 2 * o1
    BY <2>1
  <2> QED BY <2>1, <2>2, <2>3, Halves
<1>2. ASSUME p2 = "get", x2 > 0, Both(p1, p2, 2, o1, o2, x1, x2)
      PROVE  /\ p1 # "done" /\ Both(p1, p2, 1, o1, o2, x1, x2 - 1)
             /\ ((o1 + o2 - x1 - x2 + 1) + 1) \div 2 = o2 /\ x2 = 1
  <2>1. p1 # "done" /\ x1 = 0 /\ x2 = 1 /\ o1 = o2
    BY <1>2 DEF Both
  <2>2. Both(p1, p2, 1, o1, o2, x1, x2 - 1)
    BY <1>2, <2>1 DEF Both
  <2>3. (o1 + o2 - x1 - x2 + 1) + 1 = 2 * o2 + 1
    BY <2>1
  <2> QED BY <2>1, <2>2, <2>3, Halves
<1> QED BY <1>1, <1>2

(* The other steps of main1, and of main2.                                 *)
LEMMA AlternateSteps ==
  ASSUME NEW p1, NEW p2, NEW o \in 0 .. N, NEW x1 \in Nat, NEW x2 \in Nat
  PROVE  /\ Alternate("open", p2, 1, o, x1, x2) =>
              p2 # "done" /\ Alternate("get", p2, 2, o, x1, x2)
         /\ Alternate(p1, "open", 2, o, x1, x2) =>
              p1 # "done" /\ Alternate(p1, "get", 1, o, x1, x2)
         /\ Alternate("get", p2, 1, o, 0, x2) /\ o < N =>
              o = 0 /\ Alternate("get", p2, 1, BufSize, BufSize, x2)
         /\ Alternate(p1, "get", 2, o, x1, 0) /\ o < N =>
              o = BufSize /\ Alternate(p1, "get", 2, N, x1, N - BufSize)
         /\ Alternate("get", p2, 1, N, 0, x2) =>
              Alternate("done", p2, IF p2 = "done" THEN 1 ELSE 2, N, 0, x2)
         /\ Alternate(p1, "get", 2, N, x1, 0) =>
              Alternate(p1, "done", IF p1 = "done" THEN 2 ELSE 1, N, x1, 0)
<1>0. N \in Nat /\ BufSize \in Nat /\ BufSize < N /\ N <= 2 * BufSize
  BY SizesAssumption
<1>1. Alternate("open", p2, 1, o, x1, x2) =>
        p2 # "done" /\ Alternate("get", p2, 2, o, x1, x2)
  BY <1>0 DEF Alternate
<1>2. Alternate(p1, "open", 2, o, x1, x2) =>
        p1 # "done" /\ Alternate(p1, "get", 1, o, x1, x2)
  BY <1>0 DEF Alternate
<1>3. Alternate("get", p2, 1, o, 0, x2) /\ o < N =>
        o = 0 /\ Alternate("get", p2, 1, BufSize, BufSize, x2)
  BY <1>0 DEF Alternate
<1>4. Alternate(p1, "get", 2, o, x1, 0) /\ o < N =>
        o = BufSize /\ Alternate(p1, "get", 2, N, x1, N - BufSize)
  BY <1>0 DEF Alternate
<1>5. Alternate("get", p2, 1, N, 0, x2) =>
        Alternate("done", p2, IF p2 = "done" THEN 1 ELSE 2, N, 0, x2)
  BY <1>0 DEF Alternate
<1>6. Alternate(p1, "get", 2, N, x1, 0) =>
        Alternate(p1, "done", IF p1 = "done" THEN 2 ELSE 1, N, x1, 0)
  BY <1>0 DEF Alternate
<1> QED BY <1>1, <1>2, <1>3, <1>4, <1>5, <1>6

LEMMA BothSteps ==
  ASSUME NEW p1, NEW p2, NEW o1 \in 0 .. N, NEW o2 \in 0 .. N,
         NEW x1 \in Nat, NEW x2 \in Nat
  PROVE  /\ Both("open", p2, 1, o1, o2, x1, x2) =>
              p2 # "done" /\ Both("get", p2, 2, o1, o2, x1, x2)
         /\ Both(p1, "open", 2, o1, o2, x1, x2) =>
              p1 # "done" /\ Both(p1, "get", 1, o1, o2, x1, x2)
         /\ Both("get", p2, 1, o1, o2, 0, x2) /\ o1 < N =>
              p2 # "done" /\ Both("get", p2, 2, o1 + 1, o2, 1, x2)
         /\ Both(p1, "get", 2, o1, o2, x1, 0) /\ o2 < N =>
              p1 # "done" /\ Both(p1, "get", 1, o1, o2 + 1, x1, 1)
         /\ Both("get", p2, 1, N, o2, 0, x2) =>
              p2 # "done" /\ Both("done", p2, 2, N, o2, 0, x2)
         /\ Both(p1, "get", 2, o1, N, x1, 0) =>
              p1 = "done" /\ Both(p1, "done", 2, o1, N, x1, 0)
<1>0. N \in Nat /\ N > 0
  BY HalfSize
<1>1. Both("open", p2, 1, o1, o2, x1, x2) =>
        p2 # "done" /\ Both("get", p2, 2, o1, o2, x1, x2)
  BY <1>0 DEF Both
<1>2. Both(p1, "open", 2, o1, o2, x1, x2) =>
        p1 # "done" /\ Both(p1, "get", 1, o1, o2, x1, x2)
  BY <1>0 DEF Both
<1>3. Both("get", p2, 1, o1, o2, 0, x2) /\ o1 < N =>
        p2 # "done" /\ Both("get", p2, 2, o1 + 1, o2, 1, x2)
  BY <1>0 DEF Both
<1>4. Both(p1, "get", 2, o1, o2, x1, 0) /\ o2 < N =>
        p1 # "done" /\ Both(p1, "get", 1, o1, o2 + 1, x1, 1)
  BY <1>0 DEF Both
<1>5. Both("get", p2, 1, N, o2, 0, x2) =>
        p2 # "done" /\ Both("done", p2, 2, N, o2, 0, x2)
  BY <1>0 DEF Both
<1>6. Both(p1, "get", 2, o1, N, x1, 0) =>
        p1 = "done" /\ Both(p1, "done", 2, o1, N, x1, 0)
  BY <1>0 DEF Both
<1> QED BY <1>1, <1>2, <1>3, <1>4, <1>5, <1>6

(* What the steps of a program with one thread have in common.             *)
LEMMA OneThreadStep ==
  ASSUME IInv, OrderInv, prog \in {"main1", "main2"}, NEW t \in Sides,
         Open(t) \/ Fill(t) \/ PutOut(t) \/ AtEnd(t)
  PROVE  /\ prog' = prog /\ turn = t
         /\ pc[1] # "gone" /\ pc'[Other(t)] = pc[Other(t)]
         /\ pc' \in [Sides -> Labels]
         /\ offset[1] \in 0 .. N /\ offset[2] \in 0 .. N
         /\ Len(buff[1]) \in Nat /\ Len(buff[2]) \in Nat /\ Len(out) \in Nat
         /\ pc[t] \in {"open", "get"} /\ pc'[t] \in {"get", "done"}
         /\ Fd(t) = IF prog = "main1" THEN 1 ELSE t
<1>1. prog \notin Writing /\ prog \notin Threaded
  BY DEF Writing, Threaded
<1>2. /\ prog' = prog /\ turn = t /\ pc[t] \in {"open", "get"}
      /\ pc'[t] \in {"get", "done"} /\ pc'[Other(t)] = pc[Other(t)]
      /\ pc' \in [Sides -> Labels]
  <2>1. CASE Open(t)
    <3>1. Pass(t, "open", "get")
      BY <1>1, <2>1 DEF Open, Threaded
    <3> QED BY <1>1, <3>1, PassFacts DEF IInv, Labels
  <2>2. CASE Fill(t)
    <3>1. prog' = prog /\ pc' = pc /\ pc[t] = "get"
      BY <2>2, FillFacts
    <3>2. turn = t
      BY <1>1, <2>2 DEF Fill, May
    <3> QED BY <3>1, <3>2 DEF IInv, TypeOK, Labels
  <2>3. CASE PutOut(t)
    <3>1. prog' = prog /\ pc' = pc /\ pc[t] = "get"
          /\ (prog \in Threaded \/ turn = t)
      BY <2>3, PutOutFacts
    <3> QED BY <1>1, <3>1 DEF IInv, TypeOK, Labels
  <2>4. CASE AtEnd(t)
    <3>1. Pass(t, "get", "done")
      BY <2>4 DEF AtEnd
    <3> QED BY <1>1, <3>1, PassFacts DEF IInv, Labels
  <2> QED BY <2>1, <2>2, <2>3, <2>4
<1>3. pc[1] # "gone"
  BY <1>1, <1>2 DEF OrderInv, Sides
<1>4. /\ offset[1] \in 0 .. N /\ offset[2] \in 0 .. N
      /\ buff[1] \in Seq(1 .. N) /\ buff[2] \in Seq(1 .. N)
      /\ out \in Seq(Record)
  BY DEF IInv, TypeOK, Sides, Record
<1>5. Len(buff[1]) \in Nat /\ Len(buff[2]) \in Nat /\ Len(out) \in Nat
  BY <1>4, SeqFacts
<1>6. Fd(t) = IF prog = "main1" THEN 1 ELSE t
  BY DEF Fd, Shared
<1> QED BY <1>2, <1>3, <1>4, <1>5, <1>6

(* Opening and ending move no letter.                                      *)
LEMMA OpenOrder ==
  ASSUME IInv, OrderInv, prog \in {"main1", "main2"}, NEW t \in Sides,
         Open(t) \/ AtEnd(t)
  PROVE  OrderInv'
<1> DEFINE o1 == offset[1]
           o2 == offset[2]
           x1 == Len(buff[1])
           x2 == Len(buff[2])
<1>1. /\ prog' = prog /\ turn = t /\ pc[1] # "gone" /\ pc'[Other(t)] = pc[Other(t)]
      /\ o1 \in 0 .. N /\ o2 \in 0 .. N /\ x1 \in Nat /\ x2 \in Nat
      /\ pc'[t] \in {"get", "done"} /\ Fd(t) = IF prog = "main1" THEN 1 ELSE t
  BY OneThreadStep
<1>2. UNCHANGED <<offset, buff, out>>
  BY DEF Open, AtEnd
<1>3. /\ \/ pc[t] = "open" /\ pc'[t] = "get"
         \/ pc[t] = "get" /\ pc'[t] = "done" /\ Len(buff[t]) = 0 /\ offset[Fd(t)] = N
      /\ turn' = IF pc[Other(t)] = "done" THEN t ELSE Other(t)
  <2>1. CASE Open(t)
    <3>1. Pass(t, "open", "get")
      BY <2>1 DEF Open, Writing
    <3> QED BY <3>1, PassFacts DEF IInv, Labels
  <2>2. CASE AtEnd(t)
    <3>1. Pass(t, "get", "done") /\ buff[t] = <<>> /\ offset[Fd(t)] = N
      BY <2>2 DEF AtEnd
    <3> QED BY <3>1, PassFacts, EmptySeq DEF IInv, Labels
  <2> QED BY <2>1, <2>2
<1>4. OneThreadOrder'
  BY <1>1, <1>2 DEF OrderInv, OneThreadOrder
<1>5. pc'[1] # "gone"
  BY <1>1 DEF Sides, Other
<1>6. ASSUME prog = "main1"
      PROVE  /\ Alternate(pc'[1], pc'[2], turn', o1, x1, x2)
             /\ EndsWith(buff[1], BufSize) /\ EndsWith(buff[2], N)
  <2>1. /\ Alternate(pc[1], pc[2], turn, o1, x1, x2)
        /\ EndsWith(buff[1], BufSize) /\ EndsWith(buff[2], N)
    BY <1>1, <1>6 DEF OrderInv
  <2> HIDE DEF o1, x1, x2
  <2>2. CASE t = 1
    <3>1. turn = 1 /\ pc'[2] = pc[2] /\ turn' = IF pc[2] = "done" THEN 1 ELSE 2
      BY <1>1, <1>3, <2>2 DEF Other
    <3>2. \/ pc[1] = "open" /\ pc'[1] = "get"
          \/ pc[1] = "get" /\ pc'[1] = "done" /\ x1 = 0 /\ o1 = N
      BY <1>1, <1>3, <1>6, <2>2 DEF x1, o1
    <3> QED BY <1>1, <2>1, <3>1, <3>2, AlternateSteps
  <2>3. CASE t = 2
    <3>1. turn = 2 /\ pc'[1] = pc[1] /\ turn' = IF pc[1] = "done" THEN 2 ELSE 1
      BY <1>1, <1>3, <2>3 DEF Other
    <3>2. \/ pc[2] = "open" /\ pc'[2] = "get"
          \/ pc[2] = "get" /\ pc'[2] = "done" /\ x2 = 0 /\ o1 = N
      BY <1>1, <1>3, <1>6, <2>3 DEF x2, o1
    <3> QED BY <1>1, <2>1, <3>1, <3>2, AlternateSteps
  <2> QED BY <2>2, <2>3 DEF Sides
<1>7. ASSUME prog = "main2"
      PROVE  /\ Both(pc'[1], pc'[2], turn', o1, o2, x1, x2)
             /\ EndsWith(buff[1], o1) /\ EndsWith(buff[2], o2)
  <2>1. /\ Both(pc[1], pc[2], turn, o1, o2, x1, x2)
        /\ EndsWith(buff[1], o1) /\ EndsWith(buff[2], o2)
    BY <1>1, <1>7 DEF OrderInv
  <2> HIDE DEF o1, o2, x1, x2
  <2>2. CASE t = 1
    <3>1. turn = 1 /\ pc'[2] = pc[2] /\ turn' = IF pc[2] = "done" THEN 1 ELSE 2
      BY <1>1, <1>3, <2>2 DEF Other
    <3>2. \/ pc[1] = "open" /\ pc'[1] = "get"
          \/ pc[1] = "get" /\ pc'[1] = "done" /\ x1 = 0 /\ o1 = N
      BY <1>1, <1>3, <1>7, <2>2 DEF x1, o1
    <3> QED BY <1>1, <2>1, <3>1, <3>2, BothSteps
  <2>3. CASE t = 2
    <3>1. turn = 2 /\ pc'[1] = pc[1] /\ turn' = IF pc[1] = "done" THEN 2 ELSE 1
      BY <1>1, <1>3, <2>3 DEF Other
    <3>2. \/ pc[2] = "open" /\ pc'[2] = "get"
          \/ pc[2] = "get" /\ pc'[2] = "done" /\ x2 = 0 /\ o2 = N
      BY <1>1, <1>3, <1>7, <2>3 DEF x2, o2
    <3> QED BY <1>1, <2>1, <3>1, <3>2, BothSteps
  <2> QED BY <2>2, <2>3 DEF Sides
<1> QED BY <1>1, <1>2, <1>4, <1>5, <1>6, <1>7 DEF OrderInv

LEMMA LettersEnd ==
  ASSUME NEW n \in Nat, NEW o \in Nat, NEW b \in o + 1 .. n
  PROVE  EndsWith(Letters(o + 1, b), b)
<1> DEFINE s == Letters(o + 1, b)
<1>1. o + 1 \in 1 .. n /\ b \in o + 1 .. n /\ b - (o + 1) + 1 = b - o
  OBVIOUS
<1>2. /\ s \in Seq(1 .. n) /\ Len(s) = b - o
      /\ \A k \in 1 .. b - o : s[k] = (o + 1) + k - 1
  BY <1>1, LettersFacts
<1>3. DOMAIN s = 1 .. b - o
  BY <1>2, SeqFacts
<1> HIDE DEF s
<1>4. \A k \in 1 .. b - o : (o + 1) + k - 1 = b - (b - o) + k
  OBVIOUS
<1>5. EndsWith(s, b)
  BY <1>2, <1>3, <1>4 DEF EndsWith
<1> QED BY <1>5 DEF s

(* Side 1 of main1 reads a whole buffer and side 2 the rest; in main2 each *)
(* side reads a letter and passes the turn.                                *)
LEMMA FillOrder ==
  ASSUME IInv, OrderInv, prog \in {"main1", "main2"}, NEW t \in Sides, Fill(t)
  PROVE  OrderInv'
<1> DEFINE o1 == offset[1]
           o2 == offset[2]
           x1 == Len(buff[1])
           x2 == Len(buff[2])
<1>1. /\ prog' = prog /\ turn = t /\ pc[1] # "gone"
      /\ o1 \in 0 .. N /\ o2 \in 0 .. N /\ x1 \in Nat /\ x2 \in Nat
      /\ Fd(t) = IF prog = "main1" THEN 1 ELSE t
  BY OneThreadStep
<1>2. /\ pc[t] = "get" /\ pc' = pc /\ out' = out /\ buff[t] = <<>>
      /\ offset[Fd(t)] < N /\ Block(Fd(t)) \in offset[Fd(t)] + 1 .. N
      /\ offset' = [offset EXCEPT ![Fd(t)] = Block(Fd(t))]
      /\ buff'[t] = Letters(offset[Fd(t)] + 1, Block(Fd(t)))
      /\ buff'[Other(t)] = buff[Other(t)]
      /\ Len(buff'[t]) = Block(Fd(t)) - offset[Fd(t)]
  BY FillFacts
<1>3. Len(buff[t]) = 0
  BY <1>2, EmptySeq
<1>4. OneThreadOrder'
  BY <1>1, <1>2 DEF OrderInv, OneThreadOrder
<1>5. Fd(t) \in Sides /\ offset[Fd(t)] \in Nat /\ N \in Nat
  BY <1>1, HalfSize DEF Sides
<1>6. EndsWith(buff'[t], Block(Fd(t)))
  <2> DEFINE o == offset[Fd(t)]
             b == Block(Fd(t))
  <2>1. N \in Nat /\ o \in Nat /\ b \in o + 1 .. N /\ buff'[t] = Letters(o + 1, b)
    BY <1>2, <1>5
  <2> HIDE DEF o, b
  <2>2. EndsWith(Letters(o + 1, b), b)
    BY <2>1, LettersEnd
  <2> QED BY <2>1, <2>2 DEF b
<1>7. offset \in [Sides -> 0 .. N]
  BY DEF IInv, TypeOK
<1>8. N \in Nat /\ BufSize \in Nat /\ BufSize < N /\ N <= 2 * BufSize
  BY SizesAssumption
<1>9. ASSUME prog = "main1"
      PROVE  /\ Alternate(pc[1], pc[2], turn', offset'[1], Len(buff'[1]), Len(buff'[2]))
             /\ EndsWith(buff'[1], BufSize) /\ EndsWith(buff'[2], N)
  <2>1. /\ Alternate(pc[1], pc[2], turn, o1, x1, x2)
        /\ EndsWith(buff[1], BufSize) /\ EndsWith(buff[2], N)
    BY <1>1, <1>9 DEF OrderInv
  <2>2. turn' = turn /\ Fd(t) = 1
    BY <1>1, <1>9 DEF Fill, Shared
  <2>3. Block(1) = IF o1 + BufSize > N THEN N ELSE o1 + BufSize
    BY <1>9 DEF Block, Shared
  <2>4. offset'[1] = Block(1) /\ o1 < N /\ Len(buff'[t]) = Block(1) - o1
    BY <1>2, <1>7, <2>2 DEF Sides
  <2>5. EndsWith(buff'[t], Block(1))
    BY <1>6, <2>2
  <2> DEFINE y1 == Len(buff'[1])
             y2 == Len(buff'[2])
  <2>6. CASE t = 1
    <3>1. pc[1] = "get" /\ turn = 1 /\ x1 = 0 /\ buff'[2] = buff[2] /\ y2 = x2
          /\ y1 = Block(1) - o1
      BY <1>1, <1>2, <1>3, <2>4, <2>6 DEF Other
    <3> HIDE DEF o1, x1, x2, y1, y2
    <3>2. o1 = 0 /\ Alternate("get", pc[2], 1, BufSize, BufSize, x2)
      BY <1>1, <2>1, <2>4, <3>1, AlternateSteps
    <3>3. Block(1) = BufSize /\ y1 = BufSize
      BY <1>8, <2>3, <3>1, <3>2
    <3> QED BY <2>1, <2>2, <2>4, <2>5, <2>6, <3>1, <3>2, <3>3 DEF y1, y2
  <2>7. CASE t = 2
    <3>1. pc[2] = "get" /\ turn = 2 /\ x2 = 0 /\ buff'[1] = buff[1] /\ y1 = x1
          /\ y2 = Block(1) - o1
      BY <1>1, <1>2, <1>3, <2>4, <2>7 DEF Other
    <3> HIDE DEF o1, x1, x2, y1, y2
    <3>2. o1 = BufSize /\ Alternate(pc[1], "get", 2, N, x1, N - BufSize)
      <4>1. Alternate(pc[1], "get", 2, o1, x1, 0) /\ o1 < N
        BY <2>1, <2>4, <3>1
      <4>2. o1 \in 0 .. N /\ x1 \in Nat /\ 0 \in Nat
        BY <1>1
      <4> QED BY <4>1, <4>2, AlternateSteps
    <3>3. Block(1) = N /\ y2 = N - BufSize
      BY <1>8, <2>3, <3>1, <3>2
    <3> QED BY <2>1, <2>2, <2>4, <2>5, <2>7, <3>1, <3>2, <3>3 DEF y1, y2
  <2> QED BY <2>6, <2>7 DEF Sides
<1>10. ASSUME prog = "main2"
       PROVE  /\ Both(pc[1], pc[2], turn', offset'[1], offset'[2],
                      Len(buff'[1]), Len(buff'[2]))
              /\ EndsWith(buff'[1], offset'[1]) /\ EndsWith(buff'[2], offset'[2])
  <2>1. /\ Both(pc[1], pc[2], turn, o1, o2, x1, x2)
        /\ EndsWith(buff[1], o1) /\ EndsWith(buff[2], o2)
    BY <1>1, <1>10 DEF OrderInv
  <2>2. Fd(t) = t /\ turn' = IF pc[Other(t)] = "done" THEN t ELSE Other(t)
    BY <1>1, <1>10 DEF Fill, Pass, Shared
  <2>3. Block(t) = IF offset[t] + 1 > N THEN N ELSE offset[t] + 1
    BY <1>10 DEF Block, Shared
  <2>4. /\ offset[t] < N /\ offset[t] \in Nat
        /\ offset'[t] = Block(t) /\ offset'[Other(t)] = offset[Other(t)]
        /\ Len(buff'[t]) = Block(t) - offset[t]
    BY <1>2, <1>5, <1>7, <2>2, OtherSide
  <2>5. offset'[t] = offset[t] + 1 /\ Len(buff'[t]) = 1
    <3> DEFINE o == offset[t]
               y == Len(buff'[t])
    <3>1. o \in Nat /\ o < N /\ y = Block(t) - o
          /\ Block(t) = (IF o + 1 > N THEN N ELSE o + 1)
      BY <2>3, <2>4
    <3> HIDE DEF o, y
    <3>2. Block(t) = o + 1 /\ y = 1
      BY <1>8, <3>1
    <3> QED BY <2>4, <3>2 DEF o, y
  <2>6. EndsWith(buff'[t], offset'[t])
    BY <1>6, <2>2, <2>4
  <2> DEFINE y1 == Len(buff'[1])
             y2 == Len(buff'[2])
  <2>7. CASE t = 1
    <3>1. /\ pc[1] = "get" /\ turn = 1 /\ x1 = 0 /\ buff'[2] = buff[2] /\ y2 = x2
          /\ y1 = 1 /\ offset'[1] = o1 + 1 /\ offset'[2] = o2 /\ o1 < N
          /\ turn' = IF pc[2] = "done" THEN 1 ELSE 2
      BY <1>1, <1>2, <1>3, <2>2, <2>4, <2>5, <2>7 DEF Other
    <3> HIDE DEF o1, o2, x1, x2, y1, y2
    <3>2. pc[2] # "done" /\ Both("get", pc[2], 2, o1 + 1, o2, 1, x2)
      BY <1>1, <2>1, <3>1, BothSteps
    <3>3. EndsWith(buff'[1], offset'[1]) /\ EndsWith(buff'[2], offset'[2])
      BY <2>1, <2>6, <2>7, <3>1
    <3> QED BY <3>1, <3>2, <3>3 DEF y1, y2
  <2>8. CASE t = 2
    <3>1. /\ pc[2] = "get" /\ turn = 2 /\ x2 = 0 /\ buff'[1] = buff[1] /\ y1 = x1
          /\ y2 = 1 /\ offset'[2] = o2 + 1 /\ offset'[1] = o1 /\ o2 < N
          /\ turn' = IF pc[1] = "done" THEN 2 ELSE 1
      BY <1>1, <1>2, <1>3, <2>2, <2>4, <2>5, <2>8 DEF Other
    <3> HIDE DEF o1, o2, x1, x2, y1, y2
    <3>2. pc[1] # "done" /\ Both(pc[1], "get", 1, o1, o2 + 1, x1, 1)
      BY <1>1, <2>1, <3>1, BothSteps
    <3>3. EndsWith(buff'[1], offset'[1]) /\ EndsWith(buff'[2], offset'[2])
      BY <2>1, <2>6, <2>8, <3>1
    <3> QED BY <3>1, <3>2, <3>3 DEF y1, y2
  <2> QED BY <2>7, <2>8 DEF Sides
<1> QED BY <1>1, <1>2, <1>4, <1>9, <1>10 DEF OrderInv

LEMMA TailEnd ==
  ASSUME NEW n \in Nat, NEW r \in Seq(1 .. n), NEW s \in Seq(1 .. n), s # <<>>,
         Len(r) = Len(s) - 1, \A k \in 1 .. Len(s) - 1 : r[k] = s[k + 1],
         NEW top \in Nat, EndsWith(s, top)
  PROVE  EndsWith(r, top) /\ s[1] = top - Len(s) + 1
<1> DEFINE m == Len(s)
<1>1. m \in Nat \ {0} /\ DOMAIN s = 1 .. m /\ DOMAIN r = 1 .. m - 1 /\ Len(r) = m - 1
      /\ \A k \in 1 .. m - 1 : r[k] = s[k + 1]
  BY SeqFacts
<1>2. \A k \in 1 .. m : s[k] = top - m + k
  BY <1>1 DEF EndsWith
<1> HIDE DEF m
<1>3. ASSUME NEW k \in 1 .. m - 1 PROVE r[k] = top - (m - 1) + k
  <2>1. k + 1 \in 1 .. m
    BY <1>1
  <2>2. s[k + 1] = top - m + (k + 1)
    BY <1>2, <2>1
  <2> QED BY <1>1, <2>2
<1>4. EndsWith(r, top)
  BY <1>1, <1>3 DEF EndsWith
<1>5. s[1] = top - m + 1
  BY <1>1, <1>2
<1> QED BY <1>4, <1>5 DEF m

(* The letter that is printed is the one whose turn it is.                 *)
LEMMA PutOutOrder ==
  ASSUME IInv, OrderInv, prog \in {"main1", "main2"}, NEW t \in Sides, PutOut(t)
  PROVE  OrderInv'
<1> DEFINE o1 == offset[1]
           o2 == offset[2]
           x1 == Len(buff[1])
           x2 == Len(buff[2])
           n == Len(out)
           h == buff[t][1]
<1>1. /\ prog' = prog /\ turn = t /\ pc[1] # "gone"
      /\ o1 \in 0 .. N /\ o2 \in 0 .. N /\ x1 \in Nat /\ x2 \in Nat /\ n \in Nat
  BY OneThreadStep
<1>2. /\ pc[t] = "get" /\ pc' = pc /\ offset' = offset /\ buff[t] # <<>>
      /\ turn' = IF pc[Other(t)] = "done" THEN t ELSE Other(t)
      /\ out' \in Seq(Record) /\ Len(out') = n + 1
      /\ \A k \in 1 .. n : out'[k] = out[k]
      /\ out'[n + 1] = [by |-> t, letter |-> h]
      /\ buff'[Other(t)] = buff[Other(t)]
      /\ buff'[t] \in Seq(1 .. N)
      /\ Len(buff'[t]) = Len(buff[t]) - 1
      /\ \A k \in 1 .. Len(buff[t]) - 1 : buff'[t][k] = buff[t][k + 1]
  BY PutOutFacts
<1>3. buff[t] \in Seq(1 .. N) /\ N \in Nat /\ BufSize \in Nat
  BY SizesAssumption DEF IInv, TypeOK
<1>4. Len(buff[t]) \in Nat \ {0}
  BY <1>2, <1>3, SeqFacts
<1>5. ASSUME NEW top \in Nat, EndsWith(buff[t], top)
      PROVE  EndsWith(buff'[t], top) /\ h = top - Len(buff[t]) + 1
  <2> DEFINE r == buff'[t]
             s == buff[t]
  <2>1. /\ N \in Nat /\ r \in Seq(1 .. N) /\ s \in Seq(1 .. N) /\ s # <<>>
        /\ Len(r) = Len(s) - 1 /\ \A k \in 1 .. Len(s) - 1 : r[k] = s[k + 1]
        /\ EndsWith(s, top)
    BY <1>2, <1>3, <1>5
  <2> HIDE DEF r, s
  <2>2. EndsWith(r, top) /\ s[1] = top - Len(s) + 1
    BY <2>1, TailEnd
  <2> QED BY <2>2 DEF r, s
<1>6. DOMAIN out = 1 .. n /\ DOMAIN out' = 1 .. n + 1
  BY <1>2, SeqFacts DEF IInv, TypeOK
<1>7. [by |-> t, letter |-> h].letter = h
  OBVIOUS
<1> HIDE DEF h, n, o1, o2, x1, x2
<1>8. ASSUME prog = "main1"
      PROVE  /\ Alternate(pc[1], pc[2], turn', o1, Len(buff'[1]), Len(buff'[2]))
             /\ EndsWith(buff'[1], BufSize) /\ EndsWith(buff'[2], N)
             /\ h = Nth1(n + 1)
  <2>1. /\ Alternate(pc[1], pc[2], turn, o1, x1, x2)
        /\ EndsWith(buff[1], BufSize) /\ EndsWith(buff[2], N)
    BY <1>1, <1>8 DEF OrderInv, o1, x1, x2
  <2>2. n + (x1 + x2) = o1
    BY <1>8 DEF IInv, LenInv, Total, Writing, Shared, n, x1, x2, o1
  <2>3. n + 1 = o1 - x1 - x2 + 1 /\ o1 \in Nat
    BY <1>1, <2>2
  <2> DEFINE y1 == Len(buff'[1])
             y2 == Len(buff'[2])
  <2>4. CASE t = 1
    <3>1. pc[1] = "get" /\ turn = 1 /\ buff'[2] = buff[2] /\ y2 = x2
          /\ y1 = x1 - 1 /\ x1 \in Nat \ {0}
          /\ turn' = IF pc[2] = "done" THEN 1 ELSE 2
      BY <1>1, <1>2, <1>4, <2>4 DEF Other, x1, x2
    <3>2. EndsWith(buff'[1], BufSize) /\ h = BufSize - x1 + 1
      BY <1>3, <1>5, <2>1, <2>4 DEF x1
    <3> HIDE DEF y1, y2
    <3>3. /\ Alternate("get", pc[2], IF pc[2] = "done" THEN 1 ELSE 2, o1, x1 - 1, x2)
          /\ Nth1(o1 - x1 - x2 + 1) = BufSize - x1 + 1
      BY <1>1, <2>1, <2>3, <3>1, Alternate1
    <3> QED BY <2>1, <2>3, <3>1, <3>2, <3>3 DEF y1, y2
  <2>5. CASE t = 2
    <3>1. pc[2] = "get" /\ turn = 2 /\ buff'[1] = buff[1] /\ y1 = x1
          /\ y2 = x2 - 1 /\ x2 \in Nat \ {0}
          /\ turn' = IF pc[1] = "done" THEN 2 ELSE 1
      BY <1>1, <1>2, <1>4, <2>5 DEF Other, x1, x2
    <3>2. EndsWith(buff'[2], N) /\ h = N - x2 + 1
      BY <1>3, <1>5, <2>1, <2>5 DEF x2
    <3> HIDE DEF y1, y2
    <3>3. /\ Alternate(pc[1], "get", IF pc[1] = "done" THEN 2 ELSE 1, o1, x1, x2 - 1)
          /\ Nth1(o1 - x1 - x2 + 1) = N - x2 + 1
      BY <1>1, <2>1, <2>3, <3>1, Alternate2
    <3> QED BY <2>1, <2>3, <3>1, <3>2, <3>3 DEF y1, y2
  <2> QED BY <2>4, <2>5 DEF Sides
<1>9. ASSUME prog = "main2"
       PROVE  /\ Both(pc[1], pc[2], turn', o1, o2, Len(buff'[1]), Len(buff'[2]))
              /\ EndsWith(buff'[1], o1) /\ EndsWith(buff'[2], o2)
              /\ h = ((n + 1) + 1) \div 2
  <2>1. /\ Both(pc[1], pc[2], turn, o1, o2, x1, x2)
        /\ EndsWith(buff[1], o1) /\ EndsWith(buff[2], o2)
    BY <1>1, <1>9 DEF OrderInv, o1, o2, x1, x2
  <2>2. n + (x1 + x2) = o1 + o2
    BY <1>9 DEF IInv, LenInv, Total, Writing, Shared, n, x1, x2, o1, o2
  <2>3. n + 1 = o1 + o2 - x1 - x2 + 1 /\ o1 \in Nat /\ o2 \in Nat
    BY <1>1, <2>2
  <2> DEFINE y1 == Len(buff'[1])
             y2 == Len(buff'[2])
  <2>4. CASE t = 1
    <3>1. pc[1] = "get" /\ turn = 1 /\ buff'[2] = buff[2] /\ y2 = x2
          /\ y1 = x1 - 1 /\ x1 > 0
          /\ turn' = IF pc[2] = "done" THEN 1 ELSE 2
      BY <1>1, <1>2, <1>4, <2>4 DEF Other, x1, x2
    <3>2. EndsWith(buff'[1], o1) /\ h = o1 - x1 + 1
      BY <1>5, <2>1, <2>3, <2>4 DEF x1
    <3> HIDE DEF y1, y2
    <3>3. /\ pc[2] # "done" /\ Both(pc[1], pc[2], 2, o1, o2, x1 - 1, x2)
          /\ ((o1 + o2 - x1 - x2 + 1) + 1) \div 2 = o1 /\ x1 = 1
      <4>1. Both(pc[1], pc[2], 1, o1, o2, x1, x2)
        BY <2>1, <3>1
      <4> QED BY <1>1, <2>3, <3>1, <4>1, BothPrint
    <3>4. h = o1
      BY <2>3, <3>2, <3>3
    <3> QED BY <2>1, <2>3, <3>1, <3>2, <3>3, <3>4 DEF y1, y2
  <2>5. CASE t = 2
    <3>1. pc[2] = "get" /\ turn = 2 /\ buff'[1] = buff[1] /\ y1 = x1
          /\ y2 = x2 - 1 /\ x2 > 0
          /\ turn' = IF pc[1] = "done" THEN 2 ELSE 1
      BY <1>1, <1>2, <1>4, <2>5 DEF Other, x1, x2
    <3>2. EndsWith(buff'[2], o2) /\ h = o2 - x2 + 1
      BY <1>5, <2>1, <2>3, <2>5 DEF x2
    <3> HIDE DEF y1, y2
    <3>3. /\ pc[1] # "done" /\ Both(pc[1], pc[2], 1, o1, o2, x1, x2 - 1)
          /\ ((o1 + o2 - x1 - x2 + 1) + 1) \div 2 = o2 /\ x2 = 1
      <4>1. Both(pc[1], pc[2], 2, o1, o2, x1, x2)
        BY <2>1, <3>1
      <4> QED BY <1>1, <2>3, <3>1, <4>1, BothPrint
    <3>4. h = o2
      BY <2>3, <3>2, <3>3
    <3> QED BY <2>1, <2>3, <3>1, <3>2, <3>3, <3>4 DEF y1, y2
  <2> QED BY <2>4, <2>5 DEF Sides
<1>10. OneThreadOrder'
  <2> SUFFICES ASSUME NEW k \in 1 .. n + 1
               PROVE  /\ prog = "main1" => out'[k].letter = Nth1(k)
                      /\ prog = "main2" => out'[k].letter = (k + 1) \div 2
    BY <1>1, <1>6 DEF OneThreadOrder, Nth1
  <2>1. CASE k = n + 1
    BY <1>2, <1>7, <1>8, <1>9, <2>1
  <2>2. CASE k # n + 1
    <3>1. k \in 1 .. n
      BY <1>1, <2>2
    <3>2. out'[k] = out[k] /\ k \in DOMAIN out
      BY <1>2, <1>6, <3>1
    <3> QED BY <3>2 DEF OrderInv, OneThreadOrder, Nth1
  <2> QED BY <2>1, <2>2
<1> QED BY <1>1, <1>2, <1>8, <1>9, <1>10 DEF OrderInv, o1, o2

LEMMA OrderInit == Init => OrderInv
<1> SUFFICES ASSUME Init PROVE OrderInv
  OBVIOUS
<1> USE DEF Init
<1>1. Len(<<>>) = 0 /\ DOMAIN (<<>>) = {}
  BY EmptySeq, LenProperties
<1>2. /\ turn = 1 /\ offset[1] = 0 /\ offset[2] = 0
      /\ buff[1] = <<>> /\ buff[2] = <<>> /\ out = <<>>
      /\ Len(buff[1]) = 0 /\ Len(buff[2]) = 0
      /\ prog \notin Threaded => pc[1] = "open" /\ pc[2] = "open"
  BY <1>1 DEF Sides
<1>3. EndsWith(buff[1], BufSize) /\ EndsWith(buff[2], N)
      /\ EndsWith(buff[1], offset[1]) /\ EndsWith(buff[2], offset[2])
  BY <1>1, <1>2 DEF EndsWith
<1>4. Alternate("open", "open", 1, 0, 0, 0) /\ Both("open", "open", 1, 0, 0, 0, 0)
  BY SizesAssumption DEF Alternate, Both
<1>5. OneThreadOrder
  BY <1>1, <1>2 DEF OneThreadOrder
<1>6. prog \in {"main1", "main2"} => prog \notin Threaded
  BY DEF Threaded
<1> HIDE DEF Init
<1> QED BY <1>2, <1>3, <1>4, <1>5, <1>6 DEF OrderInv

LEMMA OrderNext == IInv /\ OrderInv /\ [Next]_vars => OrderInv'
<1> SUFFICES ASSUME IInv, OrderInv, [Next]_vars PROVE OrderInv'
  OBVIOUS
<1>1. CASE prog \notin {"main1", "main2"}
  <2>1. prog' = prog
    BY DEF Next, Side, CreateThread, CreateFails, Return, ThreadFails, Open, OpenFails,
           Fill, PutOut, AtEnd, Put, Close, Pass, vars
  <2> QED BY <1>1, <2>1 DEF OrderInv, OneThreadOrder
<1>2. CASE prog \in {"main1", "main2"}
  <2>1. CASE UNCHANGED vars
    BY <2>1 DEF vars, OrderInv, OneThreadOrder
  <2>2. CASE CreateThread \/ CreateFails
    <3>1. pc[1] = "create"
      BY <2>2 DEF CreateThread, CreateFails
    <3> QED BY <1>2, <3>1 DEF OrderInv, Alternate, Both
  <2>3. CASE ThreadFails
    BY <1>2, <2>3 DEF ThreadFails
  <2>4. ASSUME NEW t \in Sides, Side(t) PROVE OrderInv'
    <3>1. CASE Open(t) \/ AtEnd(t)
      BY <1>2, <3>1, OpenOrder
    <3>2. CASE OpenFails(t)
      <4>1. pc' = [s \in Sides |-> "gone"] /\ prog' = prog /\ out' = out
        BY <3>2 DEF OpenFails, Return
      <4> QED BY <4>1 DEF OrderInv, OneThreadOrder, Sides
    <3>3. CASE Fill(t)
      BY <1>2, <3>3, FillOrder
    <3>4. CASE PutOut(t)
      BY <1>2, <3>4, PutOutOrder
    <3>5. CASE Put(t) \/ Close(t)
      <4>1. pc[t] \in {"put", "close"}
        BY <3>5 DEF Put, Close, Pass, May
      <4> QED BY <1>2, <4>1 DEF IInv, PcInv, Writing
    <3> QED BY <2>4, <3>1, <3>2, <3>3, <3>4, <3>5 DEF Side
  <2> QED BY <2>1, <2>2, <2>3, <2>4 DEF Next
<1> QED BY <1>1, <1>2

LEMMA OrderInvariance == Spec => []OrderInv
<1> QED BY OrderInit, OrderNext, Invariance, PTL DEF Spec

-----------------------------------------------------------------------------
(* Theorems                                                                *)

(* The offsets stay in the file and the buffers in the alphabet, and       *)
(* neither the output nor out.txt grows beyond the letters there are.      *)
THEOREM TypeCorrect == Spec => []TypeOK
<1>1. IInv => TypeOK
  BY DEF IInv
<1> QED BY <1>1, Invariance, PTL

(* A letter that was printed is at one place of the output.                *)
LEMMA PrintedAt ==
  ASSUME IInv
  PROVE  /\ DOMAIN out = 1 .. Len(out) /\ Len(out) \in Nat
         /\ \A k \in DOMAIN out : /\ out[k].by \in Sides /\ out[k].letter \in 1 .. N
                                  /\ out[k] = [by |-> out[k].by, letter |-> out[k].letter]
                                  /\ out[k].letter \in Printed(out[k].by)
<1>1. /\ DOMAIN out = 1 .. Len(out) /\ Len(out) \in Nat
      /\ \A k \in DOMAIN out : out[k] \in Record
  <2>1. out \in Seq(Record)
    BY DEF IInv, TypeOK, Record
  <2> QED BY <2>1, SeqFacts
<1>2. ASSUME NEW k \in DOMAIN out
      PROVE  /\ out[k].by \in Sides /\ out[k].letter \in 1 .. N
             /\ out[k] = [by |-> out[k].by, letter |-> out[k].letter]
             /\ out[k].letter \in Printed(out[k].by)
  <2>1. /\ out[k].by \in Sides /\ out[k].letter \in 1 .. N
        /\ out[k] = [by |-> out[k].by, letter |-> out[k].letter]
    BY <1>1 DEF Record
  <2> QED BY <2>1 DEF Printed
<1> QED BY <1>1, <1>2

LEMMA SharedLetters == IInv => LettersShared
<1> SUFFICES ASSUME IInv, prog \in Shared PROVE LettersShared
  BY DEF LettersShared
<1>1. prog \notin Writing
  BY DEF Writing, Shared
<1>2. InOrder
  BY <1>1 DEF IInv, BuffInv
<1>3. Got(1) \cup Got(2) = 1 .. offset[1] /\ Got(1) \cap Got(2) = {}
  BY DEF IInv, SharedInv
<1>4. ASSUME NEW j \in DOMAIN out, NEW k \in DOMAIN out, out[j].letter = out[k].letter
      PROVE  j = k
  <2>1. /\ out[j].by \in Sides /\ out[k].by \in Sides
        /\ out[j].letter \in Got(out[j].by) /\ out[j].letter \in Got(out[k].by)
        /\ out[j].letter \in 1 .. N
    BY <1>4, PrintedAt DEF Got
  <2>2. out[j].by = out[k].by
    BY <1>3, <2>1 DEF Sides
  <2>3. j \in Nat /\ k \in Nat
    BY PrintedAt
  <2> QED BY <1>2, <1>4, <2>1, <2>2, <2>3 DEF InOrder
<1>5. ASSUME Done, NEW l \in 1 .. N
      PROVE  \E k \in DOMAIN out : out[k].letter = l
  <2>1. \A t \in Sides : buff[t] = <<>> /\ offset[Fd(t)] = N
    BY <1>1, <1>5 DEF IInv, BuffInv, Done
  <2>2. offset[1] = N
    BY <2>1 DEF Fd, Sides
  <2>3. \A t \in Sides : Values(buff[t]) = {}
    BY <2>1, SeqFacts DEF IInv, TypeOK
  <2>4. l \in Printed(1) \/ l \in Printed(2)
    BY <1>3, <2>2, <2>3 DEF Got, Sides
  <2> QED BY <2>4 DEF Printed
<1> QED BY <1>2, <1>4, <1>5 DEF LettersShared

LEMMA TwiceLetters == IInv => LettersTwice
<1> SUFFICES ASSUME IInv, prog \in {"main2", "th2"} PROVE LettersTwice
  BY DEF LettersTwice
<1>1. prog \notin Writing /\ prog \notin Shared
  BY DEF Writing, Shared
<1>2. InOrder
  BY <1>1 DEF IInv, BuffInv
<1>3. \A t \in Sides : Got(t) = 1 .. offset[t] /\ offset[t] \in 0 .. N
  BY DEF IInv, TwiceInv, TypeOK
<1>4. ASSUME NEW t \in Sides, NEW l \in Printed(t)
      PROVE  \E k \in DOMAIN out : out[k] = [by |-> t, letter |-> l]
  <2>1. PICK k \in DOMAIN out : out[k].by = t /\ out[k].letter = l
    BY <1>4 DEF Printed
  <2> QED BY <2>1, PrintedAt
<1>5. ASSUME NEW k \in DOMAIN out, NEW l \in 1 .. out[k].letter - 1
      PROVE  \E j \in 1 .. k - 1 : out[j] = [by |-> out[k].by, letter |-> l]
  <2> DEFINE t == out[k].by
             m == out[k].letter
  <2>1. t \in Sides /\ m \in 1 .. N /\ m \in Printed(t)
    BY PrintedAt
  <2>2. l \in 1 .. m - 1
    OBVIOUS
  <2> HIDE DEF t, m
  <2>3. m \in 1 .. offset[t] /\ offset[t] \in Nat
    BY <1>3, <2>1 DEF Got
  <2>4. l \in Got(t) /\ l < m
    BY <1>3, <2>1, <2>2, <2>3
  <2>5. l \notin Values(buff[t])
    <3>1. \A v \in Values(buff[t]) : m < v
      BY <1>1, <2>1 DEF IInv, BuffInv
    <3> QED BY <2>1, <2>2, <3>1
  <2>6. l \in Printed(t)
    BY <2>4, <2>5 DEF Got
  <2>7. PICK j \in DOMAIN out : out[j] = [by |-> t, letter |-> l]
    BY <1>4, <2>1, <2>6
  <2>8. out[j].by = t /\ out[j].letter = l
    BY <2>7
  <2>9. DOMAIN out = 1 .. Len(out) /\ Len(out) \in Nat
    BY PrintedAt
  <2>10. j # k /\ ~(k < j)
    BY <1>2, <2>1, <2>4, <2>8 DEF InOrder, t, m
  <2>11. j \in 1 .. k - 1
    BY <2>9, <2>10
  <2> QED BY <2>7, <2>11 DEF t
<1>6. ASSUME NEW t \in Sides, pc[t] = "done"
      PROVE  \E k \in DOMAIN out : out[k] = [by |-> t, letter |-> N]
  <2>1. buff[t] = <<>> /\ offset[Fd(t)] = N /\ Fd(t) = t
    BY <1>1, <1>6 DEF IInv, BuffInv, Fd
  <2>2. Values(buff[t]) = {}
    BY <2>1, SeqFacts DEF IInv, TypeOK
  <2>3. N \in 1 .. offset[t]
    BY <2>1, HalfSize
  <2>4. N \in Printed(t)
    BY <1>3, <2>2, <2>3 DEF Got
  <2> QED BY <1>4, <2>4
<1> QED BY <1>2, <1>5, <1>6 DEF LettersTwice

(* Each letter is printed once through a shared descriptor and twice       *)
(* through two, by each side in order; with one thread, in the one order   *)
(* that the buffers give.                                                  *)
THEOREM LettersComplete == Spec => []LettersPrinted
<1>1. IInv /\ OrderInv => LettersPrinted
  BY SharedLetters, TwiceLetters DEF LettersPrinted, OrderInv
<1> QED BY <1>1, Invariance, OrderInvariance, PTL

(* out.txt ends with the letters of one FILE only, of the one that is      *)
(* closed last.                                                            *)
THEOREM LastCloseStays == Spec => []LastCloseWins
<1>1. IInv => LastCloseWins
  <2> SUFFICES ASSUME IInv PROVE LastCloseWins
    OBVIOUS
  <2>1. Done /\ prog = "main3" => file = Half(1)
    BY DEF IInv, FileInv, Done, Sides
  <2>2. Done /\ prog = "th3" => file \in {Half(1), Half(2)}
    BY DEF IInv, FileInv
  <2>3. pc = <<"done", "failed">> /\ prog = "th3" => file = Half(1)
    BY DEF IInv, FileInv
  <2> QED BY <2>1, <2>2, <2>3 DEF LastCloseWins
<1> QED BY <1>1, Invariance, PTL
=============================================================================
