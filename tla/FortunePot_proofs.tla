--------------------------- MODULE FortunePot_proofs ---------------------------
(***************************************************************************)
(* Proofs about FortunePot, for any number of readers, any size of the pot *)
(* and any writes.                                                         *)
(***************************************************************************)
EXTENDS FortunePot, WellFoundedInduction, TLAPS

(* What the arithmetic needs of TypeOK, without its bounds.                *)
NatInv ==
  /\ version \in {"fortune", "seq"}
  /\ module \in {"out", "allocated", "created", "in"}
  /\ full \subseteq Places
  /\ cookie_index \in Nat /\ next_fortune \in Nat
  /\ wpc \in {"idle", "copy", "add", "mark", "strcat", "step", "end"}
  /\ len \in {0} \cup Lens
  /\ rpc \in [Readers -> {"closed", "read"} \cup InCall]
  /\ ln \in [Readers -> Nat]

(* Nobody is in a call while there is no file; new pots are empty.         *)
FreshInv ==
  /\ module \in {"out", "allocated"} =>
       wpc = "idle" /\ \A r \in Readers : rpc[r] = "closed"
  /\ module = "allocated" =>
       full = {} /\ cookie_index = 0 /\ next_fortune = 0

(* The pot is as the module's own calls have left it since it was empty.   *)
Own ==
  /\ ~oops
  /\ \/ module = "created" /\ version = "seq"
     \/ module = "in" /\ (version = "seq" \/ ~early)

(* Until a write has come to its end, the end of the one before it is      *)
(* still there.                                                            *)
EndInv ==
  Own /\ wpc \in {"idle", "copy", "add"} /\ cookie_index > 0 =>
    cookie_index - 1 \notin full

(* The last place of the pot holds '\0', whatever failed writes have left  *)
(* behind cookie_index, until cookie_index itself comes there.             *)
LastInv ==
  Own /\ MAX - 1 \in full =>
    \/ cookie_index >= MAX
    \/ wpc = "add" /\ cookie_index + len = MAX

(* A reader on its own begins before cookie_index, which only grows.       *)
ReadInv ==
  Own /\ version = "fortune" /\ ~mixed =>
    /\ \A q, r \in Readers : rpc[q] \in InCall /\ rpc[r] \in InCall => q = r
    /\ \A r \in Readers : rpc[r] = "len" => next_fortune < cookie_index

IInv == NatInv /\ FreshInv /\ EndInv /\ LastInv /\ ReadInv

(* Only a write that begins inside the pot gets to its next step, so that  *)
(* cookie_index leaves the pot by the length of add_str at most.           *)
BoundInv ==
  /\ TypeOK
  /\ wpc = "add" => len = 0 \/ cookie_index + len <= MAX
  /\ wpc \in {"strcat", "step"} => cookie_index <= MAX

(* In "seq": what is finished ends with '\0', and the message that my_write *)
(* is about to finish has none.                                            *)
WriterInv ==
  /\ wpc \notin {"mark", "strcat", "step"}
  /\ Finished > 0 => Finished - 1 \notin full
  /\ wpc = "add" => cookie_index .. cookie_index + len - 1 \subseteq full
  /\ wpc = "end" => len <= cookie_index /\ Finished .. cookie_index - 1 \subseteq full

(* A message begins at place k; it does not fit in the first buffer.       *)
Begins(k) == k = 0 \/ k - 1 \notin full
Long(k) == k .. k + Room \subseteq full

(* One reader at a time goes from beginning to beginning; between printing *)
(* and stepping it has shown the message that it will step over.           *)
ShowInv ==
  /\ \A q, r \in Readers : rpc[q] \in InCall /\ rpc[r] \in InCall => q = r
  /\ next_fortune <= Finished /\ Begins(next_fortune)
  /\ \A k \in 0 .. next_fortune - 1 : Begins(k) => k \in shown \/ Long(k)
  /\ \A r \in Readers :
       /\ rpc[r] = "len" /\ next_fortune < Finished /\ next_fortune \in full =>
            next_fortune \in shown \/ Long(next_fortune)
       /\ rpc[r] = "advance" /\ ln[r] > 0 =>
            /\ next_fortune + ln[r] < Finished
            /\ next_fortune + ln[r] \notin full
            /\ next_fortune .. next_fortune + ln[r] - 1 \subseteq full
            /\ next_fortune \in shown \/ Long(next_fortune)

SeqInv == version = "seq" /\ Own /\ ~mixed => WriterInv /\ ShowInv

-----------------------------------------------------------------------------

LEMMA Lengths ==
  ASSUME NEW n \in {0} \cup Lens
  PROVE  n \in Nat
BY SizesAssumption DEF AddSize

(* Nul finds the first '\0', and in the pot if there is one.               *)
LEMMA NulFinds ==
  ASSUME full \subseteq Places, NEW k \in Nat
  PROVE  /\ Nul(k) \in Nat /\ Nul(k) >= k
         /\ Nul(k) \notin full /\ k .. Nul(k) - 1 \subseteq full
         /\ \A z \in Places : z >= k /\ z \notin full => Nul(k) \in Places
<1> USE SizesAssumption
<1>1. CASE k >= MAX
  BY <1>1 DEF Nul, Places
<1>2. CASE k < MAX
  <2> DEFINE S == {n \in k .. MAX : n \notin full}
             IsEnd(n) == n \notin full /\ k .. n - 1 \subseteq full
  <2>1. S \subseteq Nat /\ MAX \in S
    BY <1>2 DEF Places
  <2>2. PICK m \in S : \A n \in S : <<n, m>> \notin OpToRel(<, Nat)
    <3> HIDE DEF S
    <3> QED BY <2>1, NatLessThanWellFounded, WFMin, Zenon
  <2>3. \A n \in S : m <= n
    <3> SUFFICES ASSUME NEW n \in S, n < m PROVE FALSE
      BY <2>1
    <3>1. <<n, m>> \in Nat \X Nat /\ <<n, m>>[1] < <<n, m>>[2]
      BY <2>1
    <3>2. <<n, m>> \in OpToRel(<, Nat)
      BY <3>1 DEF OpToRel
    <3> QED BY <2>2, <3>2
  <2>4. m \in k .. MAX /\ IsEnd(m)
    BY <2>3
  <2>5. Nul(k) = CHOOSE n \in k .. MAX : IsEnd(n)
    BY <1>2 DEF Nul
  <2>6. Nul(k) \in k .. MAX /\ IsEnd(Nul(k))
    <3> HIDE DEF IsEnd
    <3> QED BY <2>4, <2>5
  <2> QED BY <1>2, <2>6 DEF Places
<1> QED BY <1>1, <1>2

LEMMA InitInv == Init => IInv
BY SizesAssumption DEF Init, IInv, NatInv, FreshInv, EndInv, LastInv, ReadInv,
   Own, Busy, InCall, Places

(* Loading and unloading.                                                  *)
LEMMA LoadInv ==
  ASSUME IInv, Allocate \/ Create \/ CreateFails \/ Reset \/ Exit
  PROVE  IInv'
<1> USE SizesAssumption DEF IInv, pot, writer, reader, seen
<1>1. CASE Allocate
  BY <1>1 DEF Allocate, NatInv, FreshInv, EndInv, LastInv, ReadInv, Own, Busy,
     Places
<1>2. CASE Create
  BY <1>2 DEF Create, NatInv, FreshInv, EndInv, LastInv, ReadInv, Own, Busy,
     Places
<1>3. CASE CreateFails
  BY <1>3 DEF CreateFails, NatInv, FreshInv, EndInv, LastInv, ReadInv, Own, Busy
<1>4. CASE Reset
  <2>1. NatInv' /\ FreshInv'
    BY <1>4 DEF Reset, NatInv, FreshInv
  <2>2. CASE version = "seq"
    <3>1. /\ UNCHANGED <<version, cookie_index, full, wpc, len, oops>>
          /\ module = "created"
      BY <1>4, <2>2 DEF Reset
    <3>2. Own' => Own
      BY <2>2, <3>1 DEF Own
    <3>3. EndInv' /\ LastInv'
      BY <3>1, <3>2 DEF EndInv, LastInv
    <3>4. ReadInv'
      BY <2>2, <3>1 DEF ReadInv
    <3> QED BY <2>1, <3>3, <3>4
  <2>3. CASE version = "fortune"
    <3>1. /\ full' = full /\ version' = version /\ cookie_index' = 0
          /\ early' = (Busy \/ full # {}) /\ rpc' = rpc
      BY <1>4, <2>3 DEF Reset
    <3>2. Own' => full = {} /\ \A r \in Readers : rpc[r] \notin InCall
      BY <2>3, <3>1 DEF Own, Busy
    <3> QED BY <2>1, <3>1, <3>2 DEF EndInv, LastInv, ReadInv, InCall
  <2> QED BY <2>1, <2>2, <2>3 DEF NatInv
<1>5. CASE Exit
  BY <1>5 DEF Exit, NatInv, FreshInv, EndInv, LastInv, ReadInv, Own, Busy,
     InCall
<1> QED BY <1>1, <1>2, <1>3, <1>4, <1>5

(* The writer: what it does to the pot.                                    *)
LEMMA WriteInv ==
  ASSUME IInv, WriteCall \/ Write
  PROVE  IInv'
<1> USE SizesAssumption DEF IInv, pot, writer, reader, seen
<1>1. module \in {"created", "in"} /\ module' = module
      /\ UNCHANGED <<version, next_fortune, rpc, ln, early>>
  <2>1. CASE WriteCall
    BY <2>1 DEF WriteCall, Visible
  <2>2. CASE Write
    <3>1. wpc # "idle" /\ module' = module
      BY <2>2 DEF Write, Copy, CopyFails, AddLength, Mark, Strcat, AddStep,
         Terminate
    <3>2. module \in {"created", "in"}
      BY <3>1 DEF FreshInv, Busy, NatInv
    <3>3. UNCHANGED <<version, next_fortune, rpc, ln, early>>
      BY <2>2 DEF Write, Copy, CopyFails, AddLength, Mark, Strcat, AddStep,
         Terminate
    <3> QED BY <3>1, <3>2, <3>3
  <2> QED BY <2>1, <2>2
<1>2. len \in Nat /\ MAX \in Nat
  BY Lengths DEF NatInv
<1>3. NatInv' /\ cookie_index' >= cookie_index
  <2>1. CASE WriteCall
    BY <1>1, <2>1 DEF WriteCall, NatInv
  <2>2. CASE Copy \/ CopyFails
    <3>1. /\ cookie_index' = cookie_index /\ len' \in {0, len}
          /\ wpc' \in {"idle", "add"}
      BY <2>2 DEF Copy, CopyFails, WriterDies
    <3>2. full' \subseteq Places
      <4>1. CASE Copy
        BY <4>1 DEF Copy, NatInv
      <4>2. CASE CopyFails
        BY <1>2, <4>2 DEF CopyFails, NatInv, Places
      <4> QED BY <2>2, <4>1, <4>2
    <3> QED BY <1>1, <3>1, <3>2 DEF NatInv
  <2>3. CASE AddLength \/ AddStep
    BY <1>1, <1>2, <2>3 DEF AddLength, AddStep, NatInv, AddSize
  <2>4. CASE Mark \/ Strcat \/ Terminate
    <3>1. /\ cookie_index' = cookie_index /\ len' \in {0, len}
          /\ wpc' \in {"idle", "strcat", "step"} /\ full' \subseteq Places
      <4>1. CASE Mark
        BY <4>1 DEF Mark, WriterDies, NatInv
      <4>2. CASE Strcat
        <5>1. Nul(0) \in Nat
          BY NulFinds DEF NatInv
        <5>2. \/ full' = full \cup ((Nul(0) .. Nul(0) + AddLen - 1) \cap Places)
              \/ /\ Nul(0) + AddLen \in Places
                 /\ full' = (full \cup (Nul(0) .. Nul(0) + AddLen - 1))
                              \ {Nul(0) + AddLen}
          BY <4>2 DEF Strcat
        <5>3. full' \subseteq Places
          <6>1. Nul(0) + AddLen \in Places =>
                  Nul(0) .. Nul(0) + AddLen - 1 \subseteq Places
            BY <5>1 DEF Places, AddLen
          <6>2. full \subseteq Places
            BY DEF NatInv
          <6> QED BY <5>2, <6>1, <6>2
        <5> QED BY <4>2, <5>3 DEF Strcat, WriterDies
      <4>3. CASE Terminate
        BY <4>3 DEF Terminate, NatInv
      <4> QED BY <2>4, <4>1, <4>2, <4>3
    <3> QED BY <1>1, <3>1 DEF NatInv
  <2> QED BY <2>1, <2>2, <2>3, <2>4 DEF Write
<1>4. FreshInv'
  BY <1>1 DEF FreshInv
<1>5. Own' => Own
  BY <1>1 DEF Own, WriteCall, Write, Copy, CopyFails, AddLength, Mark, Strcat,
     AddStep, Terminate, WriterDies
<1>6. ReadInv'
  <2>1. mixed => mixed'
    BY Zenon DEF WriteCall, Write, Copy, CopyFails, AddLength, Mark, Strcat,
       AddStep, Terminate
  <2> QED BY <1>1, <1>3, <1>5, <2>1 DEF ReadInv, NatInv
<1>7. EndInv' /\ LastInv'
  <2> SUFFICES ASSUME Own' PROVE EndInv' /\ LastInv'
    BY DEF EndInv, LastInv
  <2>1. CASE WriteCall
    BY <1>5, <2>1 DEF WriteCall, EndInv, LastInv
  <2>2. CASE Copy
    BY <1>2, <1>5, <2>2 DEF Copy, WriterDies, Own, EndInv, LastInv, Places,
       NatInv
  <2>3. CASE CopyFails
    BY <1>2, <1>5, <2>3 DEF CopyFails, EndInv, LastInv, NatInv
  <2>4. CASE AddLength
    BY <1>2, <1>5, <2>4 DEF AddLength, EndInv, LastInv, NatInv
  <2>5. CASE Mark
    BY <1>5, <2>5 DEF Mark, WriterDies, Own, EndInv, LastInv, NatInv
  <2>6. CASE Strcat
    <3>1. Nul(0) \in Nat /\ wpc = "strcat" /\ wpc' = "step"
          /\ cookie_index' = cookie_index
      BY <2>6, NulFinds DEF Strcat, WriterDies, Own, NatInv
    <3>2. /\ Nul(0) + AddLen \in Places
          /\ full' = (full \cup (Nul(0) .. Nul(0) + AddLen - 1))
                       \ {Nul(0) + AddLen}
      BY <2>6 DEF Strcat, WriterDies, Own
    <3>3. MAX - 1 \in full' => MAX - 1 \in full
      BY <3>1, <3>2 DEF Places, AddLen
    <3> QED BY <1>5, <3>1, <3>3 DEF EndInv, LastInv
  <2>7. CASE AddStep
    BY <1>5, <2>7 DEF AddStep, EndInv, LastInv, NatInv, AddSize
  <2>8. CASE Terminate
    BY <1>5, <2>8 DEF Terminate, EndInv, LastInv, NatInv
  <2> QED BY <2>1, <2>2, <2>3, <2>4, <2>5, <2>6, <2>7, <2>8 DEF Write
<1> QED BY <1>3, <1>4, <1>6, <1>7

(* The readers change nothing of the pot but next_fortune.                 *)
LEMMA ReaderInv ==
  ASSUME IInv, NEW r \in Readers, Open(r) \/ Read(r)
  PROVE  IInv'
<1> USE SizesAssumption DEF IInv, pot, writer, reader, seen
<1>1. UNCHANGED <<version, module, full, cookie_index, wpc, len, early>>
  BY DEF Open, Read, ReadNothing, ReadCall, Show, Strlen, Advance
<1>2. Own' => Own
  BY <1>1 DEF Own, Open, Read, ReadNothing, ReadCall, Show, Strlen, Advance,
     ReaderDies
<1>3. EndInv' /\ LastInv'
  BY <1>1, <1>2 DEF EndInv, LastInv
<1>4. Nul(next_fortune) \in Nat /\ Nul(next_fortune) >= next_fortune
  BY NulFinds DEF NatInv
<1>5. NatInv'
  <2>1. CASE Open(r) \/ ReadNothing(r) \/ ReadCall(r)
    BY <2>1 DEF Open, ReadNothing, ReadCall, Closed, NatInv, InCall
  <2>2. CASE Show(r)
    BY <2>2 DEF Show, ReaderDies, Closed, NatInv, InCall
  <2>3. CASE Strlen(r)
    BY <1>4, <2>3 DEF Strlen, ReaderDies, Closed, NatInv, InCall
  <2>4. CASE Advance(r)
    BY <2>4 DEF Advance, Step, Closed, NatInv, InCall
  <2> QED BY <2>1, <2>2, <2>3, <2>4 DEF Read
<1>6. FreshInv'
  <2>1. module \in {"created", "in"}
    <3>1. Visible \/ rpc[r] # "closed"
      BY DEF Open, Read, ReadNothing, ReadCall, Show, Strlen, Advance
    <3> QED BY <3>1 DEF Visible, FreshInv, NatInv
  <2> QED BY <1>1, <2>1 DEF FreshInv
<1>7. ReadInv'
  <2> SUFFICES ASSUME Own', version = "fortune", ~mixed'
               PROVE  /\ \A p, q \in Readers :
                           rpc'[p] \in InCall /\ rpc'[q] \in InCall => p = q
                      /\ \A q \in Readers :
                           rpc'[q] = "len" => next_fortune' < cookie_index
    BY <1>1 DEF ReadInv
  <2>1. ~mixed /\ \A q \in Readers \ {r} : rpc'[q] = rpc[q]
    <3>1. ~mixed
      BY Zenon DEF Open, Read, ReadNothing, ReadCall, Show, Strlen, Advance
    <3>2. \E l : rpc' = [rpc EXCEPT ![r] = l]
      BY DEF Open, Read, ReadNothing, ReadCall, Show, Strlen, Advance, Closed,
         ReaderDies
    <3> QED BY <3>1, <3>2 DEF NatInv
  <2>2. /\ \A p, q \in Readers : rpc[p] \in InCall /\ rpc[q] \in InCall => p = q
        /\ \A q \in Readers : rpc[q] = "len" => next_fortune < cookie_index
    BY <1>2, <2>1 DEF ReadInv
  <2>3. CASE Open(r) \/ ReadNothing(r)
    <3>1. rpc'[r] \notin InCall /\ next_fortune' = next_fortune
      BY <2>3 DEF Open, ReadNothing, Closed, NatInv, InCall
    <3> QED BY <2>1, <2>2, <3>1 DEF InCall
  <2>4. CASE ReadCall(r)
    <3>1. /\ \A q \in Readers \ {r} : rpc[q] \notin InCall
          /\ next_fortune' = next_fortune /\ ~(next_fortune >= cookie_index)
      BY <2>4 DEF ReadCall, Overlaps, AtEnd
    <3>2. next_fortune < cookie_index
      BY <3>1 DEF NatInv
    <3> QED BY <2>1, <3>1, <3>2 DEF InCall
  <2>5. CASE Strlen(r)
    <3>1. /\ rpc[r] \in InCall /\ next_fortune' = next_fortune
          /\ rpc'[r] # "len"
      BY <2>5 DEF Strlen, ReaderDies, Closed, NatInv, InCall
    <3> QED BY <2>1, <2>2, <3>1 DEF InCall
  <2>6. CASE Advance(r)
    <3>1. rpc[r] \in InCall /\ rpc'[r] \notin InCall
      BY <2>6 DEF Advance, Closed, NatInv, InCall
    <3> QED BY <2>1, <2>2, <3>1 DEF InCall
  <2>7. ~Show(r)
    BY DEF Show
  <2> QED BY <2>3, <2>4, <2>5, <2>6, <2>7 DEF Read
<1> QED BY <1>3, <1>5, <1>6, <1>7

LEMMA NextInv == IInv /\ [Next]_vars => IInv'
<1>1. IInv /\ UNCHANGED vars => IInv'
  BY DEF vars, pot, writer, reader, seen, IInv, NatInv, FreshInv, EndInv,
     LastInv, ReadInv, Own, Busy
<1> QED BY <1>1, LoadInv, WriteInv, ReaderInv DEF Next

LEMMA Invariance == Spec => []IInv
<1> QED BY InitInv, NextInv, PTL DEF Spec

(* A finished write ends with '\0', and nothing takes that away.           *)
THEOREM EveryCookieEnds == Spec => []CookiesEnd
<1>1. IInv => CookiesEnd
  BY DEF IInv, EndInv, Own, CookiesEnd, Sound
<1> QED BY <1>1, Invariance, PTL

(* strlen does not leave the pot while there is room for one more write.   *)
THEOREM ReadsStayInPot == Spec => []ReadsEndInPot
<1>1. IInv => ReadsEndInPot
  <2> SUFFICES ASSUME IInv, NEW r \in Readers, version = "fortune", Sound,
                      ~mixed, rpc[r] = "len", cookie_index + AddSize <= MAX
               PROVE  Nul(next_fortune) \in Places
    BY DEF ReadsEndInPot
  <2> USE SizesAssumption
  <2>1. Own /\ next_fortune < cookie_index /\ next_fortune \in Nat
        /\ cookie_index \in Nat /\ full \subseteq Places
    BY DEF Sound, Own, IInv, ReadInv, NatInv
  <2>2. \E z \in Places : z >= next_fortune /\ z \notin full
    <3>1. CASE MAX - 1 \notin full
      BY <2>1, <3>1 DEF Places, AddSize
    <3>2. CASE MAX - 1 \in full
      BY <2>1, <3>2 DEF Places, AddSize, IInv, LastInv, EndInv
    <3> QED BY <3>1, <3>2
  <2> QED BY <2>1, <2>2, NulFinds
<1> QED BY <1>1, Invariance, PTL

-----------------------------------------------------------------------------

LEMMA BoundStep == IInv /\ BoundInv /\ [Next]_vars => BoundInv'
<1> SUFFICES ASSUME IInv, BoundInv, [Next]_vars PROVE BoundInv'
  OBVIOUS
<1> USE SizesAssumption DEF BoundInv, pot, writer, reader, seen
<1> USE DEF TypeOK
<1>0. len \in Nat /\ NatInv /\ NatInv'
  <2>1. IInv'
    BY NextInv
  <2> QED BY <2>1, Lengths DEF IInv
<1>1. ASSUME NEW n \in {0, cookie_index}
      PROVE  /\ n \in 0 .. MAX + AddSize
             /\ wpc = "add" => len = 0 \/ n + len <= MAX
             /\ wpc \in {"strcat", "step"} => n <= MAX
  <2>1. 0 \in 0 .. MAX + AddSize /\ 0 <= MAX
    BY DEF AddSize
  <2>2. cookie_index + len <= MAX => 0 + len <= MAX
    BY <1>0 DEF NatInv
  <2> QED BY <2>1, <2>2
<1>2. CASE UNCHANGED vars
  BY <1>2 DEF vars
<1>3. CASE Allocate \/ Create \/ CreateFails \/ Exit
  <2>1. cookie_index' \in {0, cookie_index} /\ next_fortune' \in {0, next_fortune}
        /\ UNCHANGED <<version, wpc, len, ln, writes>>
    BY <1>3 DEF Allocate, Create, CreateFails, Exit
  <2>2. {oops', early', mixed'} \subseteq BOOLEAN /\ shown' \subseteq Places
    BY <1>3 DEF Allocate, Create, CreateFails, Exit
  <2>3. f_pos' \in [Readers -> 0 .. MAX + 1]
    BY <1>3 DEF Allocate, Create, CreateFails, Exit
  <2> QED
    <3>1. /\ cookie_index' \in 0 .. MAX + AddSize
          /\ wpc = "add" => len = 0 \/ cookie_index' + len <= MAX
          /\ wpc \in {"strcat", "step"} => cookie_index' <= MAX
      BY <1>1, <2>1
    <3> QED BY <1>0, <2>1, <2>2, <2>3, <3>1 DEF NatInv
<1>4. CASE Reset
  <2>1. cookie_index' \in {0, cookie_index}
        /\ UNCHANGED <<wpc, len, ln, f_pos, writes, shown>>
    BY <1>4 DEF Reset
  <2>2. {oops', early', mixed'} \subseteq BOOLEAN
    BY <1>4 DEF Reset
  <2> QED
    <3>1. /\ cookie_index' \in 0 .. MAX + AddSize
          /\ wpc = "add" => len = 0 \/ cookie_index' + len <= MAX
          /\ wpc \in {"strcat", "step"} => cookie_index' <= MAX
      BY <1>1, <2>1
    <3> QED BY <1>0, <2>1, <2>2, <3>1 DEF NatInv
<1>5. CASE WriteCall
  <2>1. /\ wpc' = "copy" /\ cookie_index' = cookie_index
        /\ writes' = writes + 1 /\ writes < MaxWrites
        /\ UNCHANGED <<ln, f_pos, oops, early, mixed, shown>>
    BY <1>5 DEF WriteCall
  <2> QED BY <1>0, <2>1 DEF NatInv
<1>6. CASE Write
  <2>1. /\ UNCHANGED <<ln, f_pos, early, shown, writes>>
        /\ {oops', mixed'} \subseteq BOOLEAN
    BY <1>6 DEF Write, Copy, CopyFails, AddLength, Mark, Strcat, AddStep,
       Terminate, WriterDies
  <2>2. /\ cookie_index' \in 0 .. MAX + AddSize
        /\ wpc' = "add" => len' = 0 \/ cookie_index' + len' <= MAX
        /\ wpc' \in {"strcat", "step"} => cookie_index' <= MAX
    <3>1. CASE Copy
      <4>1. cookie_index' = cookie_index /\ wpc' \in {"add", "idle"}
        BY <3>1 DEF Copy, WriterDies
      <4>2. wpc' = "add" =>
              len' = len /\ cookie_index .. cookie_index + len - 1 \subseteq Places
        BY <3>1 DEF Copy, WriterDies
      <4>3. cookie_index .. cookie_index + len - 1 \subseteq Places /\ len > 0 =>
              cookie_index + len <= MAX
        <5>1. len > 0 => cookie_index + len - 1 \in cookie_index .. cookie_index + len - 1
          BY <1>0
        <5> QED BY <1>0, <5>1 DEF Places
      <4> QED BY <1>0, <4>1, <4>2, <4>3
    <3>2. CASE CopyFails
      BY <3>2 DEF CopyFails
    <3>3. CASE AddLength
      BY <1>0, <3>3 DEF AddLength, AddSize
    <3>4. CASE Mark
      BY <3>4 DEF Mark, WriterDies, Places
    <3>5. CASE Strcat
      BY <3>5 DEF Strcat, WriterDies
    <3>6. CASE AddStep
      BY <3>6 DEF AddStep, AddSize
    <3>7. CASE Terminate
      BY <3>7 DEF Terminate
    <3> QED BY <1>6, <3>1, <3>2, <3>3, <3>4, <3>5, <3>6, <3>7 DEF Write
  <2> QED BY <1>0, <2>1, <2>2 DEF NatInv
<1>7. ASSUME NEW r \in Readers, Open(r) \/ Read(r) PROVE BoundInv'
  <2>1. UNCHANGED <<cookie_index, wpc, len, writes, early>>
    BY <1>7 DEF Open, Read, ReadNothing, ReadCall, Show, Strlen, Advance
  <2>2. {oops', mixed'} \subseteq BOOLEAN
    BY <1>7 DEF Open, Read, ReadNothing, ReadCall, Show, Strlen, Advance,
       ReaderDies
  <2>3. ln' \in [Readers -> 0 .. MAX]
    <3>1. CASE Strlen(r)
      <4>1. Nul(next_fortune) >= next_fortune /\ Nul(next_fortune) \in Nat
        BY NulFinds
      <4>2. \/ ln' = ln
            \/ /\ Nul(next_fortune) \in Places
               /\ ln' = [ln EXCEPT ![r] = Nul(next_fortune) - next_fortune]
        BY <3>1, Zenon DEF Strlen
      <4>3. Nul(next_fortune) \in Places => Nul(next_fortune) - next_fortune \in 0 .. MAX
        BY <4>1 DEF Places
      <4> QED BY <4>2, <4>3
    <3>2. CASE Advance(r)
      BY <3>2 DEF Advance
    <3> QED BY <1>7, <3>1, <3>2 DEF Open, Read, ReadNothing, ReadCall, Show
  <2>4. f_pos' \in [Readers -> 0 .. MAX + 1]
    <3>1. \E n \in 0 .. MAX + 1 : f_pos' \in {f_pos, [f_pos EXCEPT ![r] = n]}
      BY <1>7 DEF Open, Read, ReadNothing, ReadCall, Show, Strlen, Advance,
         Closed, ReaderDies, Step
    <3> QED BY <3>1
  <2>5. shown' \subseteq Places
    BY <1>7 DEF Open, Read, ReadNothing, ReadCall, Show, Strlen, Advance
  <2> QED BY <1>0, <2>1, <2>2, <2>3, <2>4, <2>5 DEF NatInv
<1> QED BY <1>2, <1>3, <1>4, <1>5, <1>6, <1>7 DEF Next

(* Every variable stays in its range: cookie_index gets behind the pot by  *)
(* no more than the length of add_str.                                     *)
THEOREM TypeCorrect == Spec => []TypeOK
<1>1. ASSUME Init PROVE BoundInv
  <2>1. {oops, early, mixed} \subseteq BOOLEAN
    BY <1>1 DEF Init
  <2> QED
    BY <1>1, <2>1, SizesAssumption DEF Init, BoundInv, TypeOK, AddSize, InCall
<1>2. IInv /\ BoundInv /\ [Next]_vars => BoundInv'
  BY BoundStep
<1>3. BoundInv => TypeOK
  BY DEF BoundInv
<1> QED BY <1>1, <1>2, <1>3, Invariance, PTL DEF Spec

-----------------------------------------------------------------------------

(* A message that has its '\0' before place z is Long whatever becomes of  *)
(* the places from z on.                                                   *)
LEMMA LongKept ==
  ASSUME NEW z \in Nat, NEW k \in Nat, k < z, z - 1 \notin full,
         \A j \in 0 .. z - 1 : j \in full => j \in full',
         Long(k)
  PROVE  Long(k)'
<1> USE SizesAssumption
<1>1. k + Room < z
  BY DEF Long
<1> QED BY <1>1 DEF Long

(* What a step of the writer must leave alone for the readers.             *)
LEMMA ShowKept ==
  ASSUME NatInv, WriterInv, ShowInv,
         UNCHANGED <<next_fortune, rpc, ln, shown>>,
         Finished \in Nat, Finished' \in Nat, Finished' >= Finished,
         \A j \in 0 .. Finished - 1 : j \in full <=> j \in full',
         Finished' = Finished \/
           \A r \in Readers : rpc[r] = "len" => next_fortune < Finished
  PROVE  ShowInv'
<1>1. next_fortune \in Nat /\ next_fortune <= Finished /\ ln \in [Readers -> Nat]
  BY DEF NatInv, ShowInv
<1>2. ASSUME NEW k \in 0 .. next_fortune PROVE Begins(k)' <=> Begins(k)
  BY <1>1, <1>2 DEF Begins
<1>3. ASSUME NEW k \in Nat, k < Finished, Long(k) PROVE Long(k)'
  BY <1>3, LongKept DEF WriterInv
<1>4. next_fortune' <= Finished' /\ Begins(next_fortune)'
  BY <1>1, <1>2 DEF ShowInv, Begins
<1>5. ASSUME NEW k \in 0 .. next_fortune - 1, Begins(k)'
      PROVE  k \in shown \/ Long(k)'
  <2>1. k \in 0 .. next_fortune /\ k \in Nat /\ k < Finished
    BY <1>1
  <2> QED BY <1>2, <1>3, <1>5, <2>1 DEF ShowInv
<1>6. ASSUME NEW r \in Readers, rpc[r] = "len", next_fortune < Finished',
             next_fortune \in full'
      PROVE  next_fortune \in shown \/ Long(next_fortune)'
  <2>1. next_fortune < Finished /\ next_fortune \in full
    BY <1>1, <1>6
  <2> QED BY <1>1, <1>3, <1>6, <2>1 DEF ShowInv
<1>7. ASSUME NEW r \in Readers, rpc[r] = "advance", ln[r] > 0
      PROVE  /\ next_fortune + ln[r] < Finished'
             /\ next_fortune + ln[r] \notin full'
             /\ next_fortune .. next_fortune + ln[r] - 1 \subseteq full'
             /\ next_fortune \in shown \/ Long(next_fortune)'
  <2>1. /\ next_fortune + ln[r] < Finished
        /\ next_fortune + ln[r] \notin full
        /\ next_fortune .. next_fortune + ln[r] - 1 \subseteq full
        /\ next_fortune \in shown \/ Long(next_fortune)
    BY <1>7 DEF ShowInv
  <2>2. ln[r] \in Nat
    BY <1>1
  <2>3. next_fortune < Finished
    BY <1>1, <2>1, <2>2
  <2>4. next_fortune \in shown \/ Long(next_fortune)'
    BY <1>1, <1>3, <2>1, <2>3
  <2> QED BY <1>1, <2>1, <2>2, <2>4
<1> QED BY <1>4, <1>5, <1>6, <1>7 DEF ShowInv, Begins, Long

(* Loading: a new pot is empty.                                            *)
LEMMA SeqLoad ==
  ASSUME IInv, SeqInv, Allocate \/ Create \/ CreateFails \/ Reset \/ Exit
  PROVE  SeqInv'
<1> USE DEF IInv, pot, writer, reader, seen
<1> SUFFICES ASSUME version' = "seq", Own', ~mixed'
             PROVE  WriterInv' /\ ShowInv'
  BY DEF SeqInv
<1>1. Create \/ Reset
  BY DEF Own, Allocate, CreateFails, Exit
<1>2. CASE Create
  <2>1. /\ full' = {} /\ cookie_index' = 0 /\ next_fortune' = 0 /\ wpc' = "idle"
        /\ \A r \in Readers : rpc'[r] = "closed"
    BY <1>2 DEF Create, FreshInv
  <2> QED
    BY <2>1 DEF WriterInv, ShowInv, Finished, Begins, InCall
<1>3. CASE Reset
  <2>1. /\ UNCHANGED <<full, cookie_index, next_fortune, wpc, len, rpc, ln, shown>>
        /\ version = "seq" /\ module = "created" /\ ~oops /\ ~mixed
    BY <1>3 DEF Reset, Own
  <2>2. WriterInv /\ ShowInv
    BY <2>1 DEF SeqInv, Own
  <2> QED BY <2>1, <2>2 DEF WriterInv, ShowInv, Finished, Begins, Long
<1> QED BY <1>1, <1>2, <1>3

(* The writer leaves alone what is finished; and it finishes a message     *)
(* only while no reader is about to take the length of it.                 *)
LEMMA SeqWrite ==
  ASSUME IInv, SeqInv, WriteCall \/ Write
  PROVE  SeqInv'
<1> USE SizesAssumption DEF pot, writer, reader, seen
<1> SUFFICES ASSUME version' = "seq", Own', ~mixed'
             PROVE  WriterInv' /\ ShowInv'
  BY DEF SeqInv
<1>1. UNCHANGED <<next_fortune, rpc, ln, shown, version, module, early>>
  BY DEF WriteCall, Write, Copy, CopyFails, AddLength, Mark, Strcat, AddStep,
     Terminate
<1>2. ~oops /\ ~mixed
  <2>1. ~oops'
    BY DEF Own
  <2>2. ~oops
    BY <2>1 DEF WriteCall, Write, Copy, CopyFails, AddLength, Mark, Strcat,
       AddStep, Terminate, WriterDies
  <2>3. ~mixed
    BY Zenon DEF WriteCall, Write, Copy, CopyFails, AddLength, Mark, Strcat,
       AddStep, Terminate
  <2> QED BY <2>2, <2>3
<1>3. WriterInv /\ ShowInv /\ NatInv
  BY <1>1, <1>2 DEF SeqInv, IInv, Own
<1>4. len \in Nat /\ cookie_index \in Nat /\ full \subseteq Places
  BY <1>3, Lengths DEF NatInv
<1>5. Finished \in Nat
  BY <1>3, <1>4 DEF Finished, WriterInv
<1>6. ~oops'
  BY DEF Own
<1>7. /\ WriterInv' /\ Finished' \in Nat /\ Finished' >= Finished
      /\ \A j \in 0 .. Finished - 1 : j \in full <=> j \in full'
      /\ Finished' = Finished \/
           \A r \in Readers : rpc[r] = "len" => next_fortune < Finished
  <2>1. CASE WriteCall
    BY <1>3, <1>4, <2>1 DEF WriteCall, WriterInv, Finished
  <2>2. CASE Copy
    <3>1. /\ wpc = "copy" /\ wpc' = "add" /\ UNCHANGED <<len, cookie_index>>
          /\ full' = full \cup cookie_index .. cookie_index + len - 1
      BY <1>6, <2>2 DEF Copy, WriterDies
    <3> QED BY <1>3, <1>4, <3>1 DEF WriterInv, Finished
  <2>3. CASE CopyFails
    <3>1. /\ wpc = "copy" /\ wpc' = "idle" /\ UNCHANGED cookie_index
          /\ \E n \in 0 .. len - 1 :
               full' = (full \ (cookie_index .. cookie_index + len - 1))
                         \cup cookie_index .. cookie_index + n - 1
      BY <2>3 DEF CopyFails
    <3> QED BY <1>3, <1>4, <3>1 DEF WriterInv, Finished
  <2>4. CASE AddLength
    <3>1. /\ wpc = "add" /\ wpc' = "end" /\ UNCHANGED <<len, full>>
          /\ cookie_index' = cookie_index + len
      BY <1>1, <2>4 DEF AddLength
    <3> QED BY <1>3, <1>4, <3>1 DEF WriterInv, Finished
  <2>5. CASE Terminate
    <3>1. /\ wpc = "end" /\ wpc' = "idle" /\ UNCHANGED cookie_index
          /\ full' = full \ {cookie_index - 1} /\ ~Overtaken
      BY <2>5 DEF Terminate
    <3>2. len > 0 => \A r \in Readers : rpc[r] = "len" => next_fortune < Finished
      BY <1>1, <1>3, <1>5, <3>1 DEF Overtaken, NatInv
    <3>3. Finished = cookie_index - len /\ Finished' = cookie_index
      BY <3>1 DEF Finished
    <3>4. len = 0 /\ cookie_index > 0 => cookie_index - 1 \notin full
      BY <1>3, <1>4, <3>3 DEF WriterInv
    <3> QED BY <1>3, <1>4, <1>5, <3>1, <3>2, <3>3, <3>4 DEF WriterInv
  <2>6. ~Mark /\ ~Strcat /\ ~AddStep
    BY <1>3 DEF Mark, Strcat, AddStep, WriterInv
  <2> QED BY <2>1, <2>2, <2>3, <2>4, <2>5, <2>6 DEF Write
<1> QED BY <1>1, <1>3, <1>5, <1>7, ShowKept

(* A reader on its own: what it prints is what it steps over.              *)
LEMMA SeqRead ==
  ASSUME IInv, SeqInv, NEW r \in Readers, Open(r) \/ Read(r)
  PROVE  SeqInv'
<1> USE SizesAssumption DEF pot, writer, reader, seen
<1> SUFFICES ASSUME version' = "seq", Own', ~mixed'
             PROVE  WriterInv' /\ ShowInv'
  BY DEF SeqInv
<1>1. UNCHANGED <<version, module, full, cookie_index, wpc, len, early>>
  BY DEF Open, Read, ReadNothing, ReadCall, Show, Strlen, Advance
<1>2. ~oops /\ ~mixed /\ ~oops'
  <2>1. ~oops'
    BY DEF Own
  <2>2. ~oops
    BY <2>1 DEF Open, Read, ReadNothing, ReadCall, Show, Strlen, Advance,
       ReaderDies
  <2>3. ~mixed
    BY Zenon DEF Open, Read, ReadNothing, ReadCall, Show, Strlen, Advance
  <2> QED BY <2>1, <2>2, <2>3
<1>3. WriterInv /\ ShowInv /\ NatInv
  BY <1>1, <1>2 DEF SeqInv, IInv, Own
<1>4. WriterInv' /\ Finished' = Finished
  BY <1>1, <1>3 DEF WriterInv, Finished
<1>5. Finished \in Nat /\ next_fortune \in Nat /\ ln \in [Readers -> Nat]
  BY <1>3, Lengths DEF Finished, WriterInv, NatInv
<1>6. \E l : rpc' = [rpc EXCEPT ![r] = l]
  BY DEF Open, Read, ReadNothing, ReadCall, Show, Strlen, Advance, Closed,
     ReaderDies
<1>7. \A q \in Readers \ {r} : rpc'[q] = rpc[q]
  BY <1>3, <1>6 DEF NatInv
<1>8. /\ Nul(next_fortune) \in Nat /\ Nul(next_fortune) >= next_fortune
      /\ Nul(next_fortune) \notin full
      /\ next_fortune .. Nul(next_fortune) - 1 \subseteq full
  BY <1>3, <1>5, NulFinds DEF NatInv
<1>9. CASE Open(r) \/ ReadNothing(r)
  <2>1. UNCHANGED <<next_fortune, ln, shown>> /\ rpc'[r] \notin InCall
    BY <1>3, <1>9 DEF Open, ReadNothing, Closed, NatInv, InCall
  <2> QED BY <1>1, <1>3, <1>4, <1>7, <2>1 DEF ShowInv, Begins, Long, InCall
<1>10. ASSUME \A q \in Readers \ {r} : rpc[q] \notin InCall,
              next_fortune' <= Finished /\ Begins(next_fortune'),
              \A k \in 0 .. next_fortune' - 1 : Begins(k) => k \in shown' \/ Long(k),
              rpc'[r] = "len" /\ next_fortune' < Finished
                /\ next_fortune' \in full =>
                  next_fortune' \in shown' \/ Long(next_fortune'),
              rpc'[r] = "advance" /\ ln'[r] > 0 =>
                /\ next_fortune' + ln'[r] < Finished
                /\ next_fortune' + ln'[r] \notin full
                /\ next_fortune' .. next_fortune' + ln'[r] - 1 \subseteq full
                /\ next_fortune' \in shown' \/ Long(next_fortune')
       PROVE  ShowInv'
  <2>1. \A q \in Readers \ {r} : rpc'[q] \notin {"len", "advance"}
    BY <1>7, <1>10 DEF InCall
  <2>2. \A p, q \in Readers : rpc'[p] \in InCall /\ rpc'[q] \in InCall => p = q
    BY <1>7, <1>10
  <2> QED BY <1>1, <1>4, <1>10, <2>1, <2>2 DEF ShowInv, Begins, Long
<1>11. rpc[r] \in InCall => \A q \in Readers \ {r} : rpc[q] \notin InCall
  BY <1>3 DEF ShowInv
<1>12. /\ next_fortune <= Finished /\ Begins(next_fortune)
       /\ \A k \in 0 .. next_fortune - 1 : Begins(k) => k \in shown \/ Long(k)
  BY <1>3 DEF ShowInv
<1>13. CASE Show(r)
  <2>1. \A q \in Readers \ {r} : rpc[q] \notin InCall
    <3>1. (rpc[r] = "read" /\ ~Overlaps(r)) \/ rpc[r] = "again"
      BY <1>13, Zenon DEF Show
    <3> QED BY <1>11, <3>1 DEF Overlaps, InCall
  <2>2. /\ next_fortune' = next_fortune /\ rpc'[r] = "len"
        /\ \/ /\ Nul(next_fortune) - next_fortune > Room
              /\ shown' = shown
           \/ shown' = shown \cup ({next_fortune} \cap full)
    <3>1. ~ReaderDies(r)
      BY <1>2 DEF ReaderDies
    <3> QED BY <1>3, <1>13, <3>1 DEF Show, NatInv
  <2>3. next_fortune \in full => next_fortune \in shown' \/ Long(next_fortune)
    BY <1>5, <1>8, <2>2 DEF Long
  <2>4. rpc'[r] # "advance" /\ shown \subseteq shown'
    BY <2>2
  <2> QED BY <1>4, <1>10, <1>12, <2>1, <2>2, <2>3, <2>4
<1>14. CASE Strlen(r)
  <2>1. /\ rpc[r] = "len" /\ rpc'[r] = "advance" /\ shown' = shown
        /\ next_fortune' = next_fortune
        /\ ln'[r] = Nul(next_fortune) - next_fortune
    <3>1. ~ReaderDies(r)
      BY <1>2 DEF ReaderDies
    <3> QED BY <1>3, <1>5, <1>14, <3>1 DEF Strlen, NatInv
  <2>2. ~Unfinished
    BY <1>1, <1>14, Zenon DEF Strlen
  <2>3. ASSUME ln'[r] > 0
        PROVE  /\ Nul(next_fortune) < Finished /\ next_fortune \in full
               /\ next_fortune < Finished
    <3>1. next_fortune \in full
      BY <1>5, <1>8, <2>1, <2>3
    <3>2. next_fortune < Finished
      BY <1>5, <2>2, <3>1 DEF Unfinished
    <3>3. Finished - 1 \notin full
      BY <1>3, <1>5, <3>2 DEF WriterInv
    <3>4. Nul(next_fortune) <= Finished - 1
      BY <1>5, <1>8, <3>2, <3>3
    <3> QED BY <1>5, <1>8, <3>1, <3>2, <3>4
  <2>4. next_fortune \in full /\ next_fortune < Finished =>
          next_fortune \in shown \/ Long(next_fortune)
    BY <1>3, <2>1 DEF ShowInv
  <2>5. next_fortune + ln'[r] = Nul(next_fortune)
    BY <1>5, <1>8, <2>1
  <2>6. ln'[r] > 0 =>
          /\ next_fortune + ln'[r] < Finished
          /\ next_fortune + ln'[r] \notin full
          /\ next_fortune .. next_fortune + ln'[r] - 1 \subseteq full
          /\ next_fortune \in shown \/ Long(next_fortune)
    <3>1. SUFFICES ASSUME ln'[r] > 0
                   PROVE  /\ next_fortune + ln'[r] < Finished
                          /\ next_fortune + ln'[r] \notin full
                          /\ next_fortune .. next_fortune + ln'[r] - 1 \subseteq full
                          /\ next_fortune \in shown \/ Long(next_fortune)
      OBVIOUS
    <3> QED BY <1>5, <1>8, <2>1, <2>3, <2>4, <2>5, <3>1
  <2>7. \A q \in Readers \ {r} : rpc[q] \notin InCall
    BY <1>11, <2>1 DEF InCall
  <2> QED BY <1>4, <1>10, <1>12, <2>1, <2>6, <2>7
<1>15. CASE Advance(r)
  <2>1. /\ rpc[r] = "advance" /\ rpc'[r] \notin {"len", "advance"}
        /\ shown' = shown /\ next_fortune' = next_fortune + Step(r)
    BY <1>1, <1>3, <1>15 DEF Advance, NatInv
  <2>2. next_fortune' = IF ln[r] = 0 THEN next_fortune
                        ELSE next_fortune + ln[r] + 1
    BY <1>1, <1>5, <2>1 DEF Step
  <2>3. ln[r] # 0 =>
          /\ next_fortune + ln[r] < Finished
          /\ next_fortune + ln[r] \notin full
          /\ next_fortune .. next_fortune + ln[r] - 1 \subseteq full
          /\ next_fortune \in shown \/ Long(next_fortune)
    BY <1>3, <1>5, <2>1 DEF ShowInv
  <2>4. next_fortune' <= Finished /\ Begins(next_fortune')
    <3>1. CASE ln[r] = 0
      BY <1>1, <1>12, <2>2, <3>1 DEF Begins
    <3>2. CASE ln[r] # 0
      BY <1>1, <1>5, <2>2, <2>3, <3>2 DEF Begins
    <3> QED BY <3>1, <3>2
  <2>5. ASSUME NEW k \in 0 .. next_fortune' - 1, Begins(k)
        PROVE  k \in shown' \/ Long(k)
    <3>1. CASE k < next_fortune
      BY <1>5, <1>12, <2>1, <2>5, <3>1
    <3>2. CASE k = next_fortune
      BY <1>5, <2>1, <2>2, <2>3, <3>2
    <3>3. CASE k > next_fortune
      <4>1. ln[r] # 0 /\ k <= next_fortune + ln[r]
        BY <1>5, <2>2, <2>5, <3>3
      <4>2. k - 1 \in next_fortune .. next_fortune + ln[r] - 1
        BY <1>5, <3>3, <4>1
      <4>3. k - 1 \in full /\ k # 0
        BY <1>5, <2>3, <3>3, <4>1, <4>2
      <4> QED BY <2>5, <4>3 DEF Begins
    <3> QED BY <1>5, <3>1, <3>2, <3>3
  <2>6. \A q \in Readers \ {r} : rpc[q] \notin InCall
    BY <1>11, <2>1 DEF InCall
  <2> QED BY <1>4, <1>10, <2>1, <2>4, <2>5, <2>6
<1>16. ~ReadCall(r)
  BY <1>1 DEF ReadCall
<1> QED BY <1>4, <1>9, <1>13, <1>14, <1>15, <1>16 DEF Read

LEMMA SeqInvariance == Spec => []SeqInv
<1>1. Init => SeqInv
  BY DEF Init, SeqInv, Own
<1>2. IInv /\ SeqInv /\ UNCHANGED vars => SeqInv'
  BY DEF vars, pot, writer, reader, seen, SeqInv, Own, WriterInv, ShowInv,
     Finished, Begins, Long
<1>3. IInv /\ SeqInv /\ [Next]_vars => SeqInv'
  BY <1>2, SeqLoad, SeqWrite, SeqRead DEF Next
<1> QED BY <1>1, <1>3, Invariance, PTL DEF Spec

(* my_show never skips a message that fits in seq_file's first buffer, for *)
(* any size of the pot and any writes.                                     *)
THEOREM EveryMessageShown == Spec => []MessagesShown
<1>1. IInv /\ SeqInv => MessagesShown
  <2> SUFFICES ASSUME IInv, SeqInv, version = "seq", Sound, ~mixed
               PROVE  /\ next_fortune \in Beginnings
                      /\ \A k \in Beginnings :
                           k < next_fortune /\ Nul(k) - k <= Room => k \in shown
    BY DEF MessagesShown
  <2> USE SizesAssumption
  <2>1. WriterInv /\ ShowInv /\ NatInv
    BY DEF SeqInv, Own, Sound, IInv
  <2>2. /\ next_fortune <= cookie_index /\ Begins(next_fortune)
        /\ next_fortune \in Nat /\ cookie_index \in Nat /\ full \subseteq Places
    BY <2>1, Lengths DEF ShowInv, Finished, WriterInv, NatInv
  <2>3. next_fortune \in Beginnings
    BY <2>2 DEF Beginnings, Begins
  <2>4. ASSUME NEW k \in Beginnings, k < next_fortune, Nul(k) - k <= Room
        PROVE  k \in shown
    <3>1. k \in Nat /\ Begins(k)
      BY <2>2 DEF Beginnings, Begins
    <3>2. Nul(k) \notin full /\ Nul(k) \in k .. k + Room
      BY <2>2, <2>4, <3>1, NulFinds
    <3> QED BY <2>1, <2>2, <2>4, <3>1, <3>2 DEF ShowInv, Long
  <2> QED BY <2>3, <2>4
<1> QED BY <1>1, Invariance, SeqInvariance, PTL
=============================================================================
