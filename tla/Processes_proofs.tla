---------------------------- MODULE Processes_proofs ---------------------------
(***************************************************************************)
(* Proofs about Processes, for any number of signals and kills.            *)
(***************************************************************************)
EXTENDS Processes, SequenceTheorems, TLAPS

(* The parent forks one child after the other, waits for each of them and  *)
(* only then reads.                                                        *)
ParentInv ==
  /\ pc[Parent] \in {"signal", "pipe", "fork1", "fork2", "wait", "read", "close",
                    "exit", "killed"}
  /\ pc[Parent] \in {"signal", "pipe", "fork1"} => pc[1] = "none" /\ pc[2] = "none"
  /\ pc[Parent] = "fork2" => pc[2] = "none"
  /\ pc[Parent] \in {"signal", "pipe", "fork1", "fork2"} => reaped = {}
  /\ pc[Parent] = "wait" => reaped # Children
  /\ pc[Parent] \in {"read", "close"} => prog \in Piped /\ reaped = Children

(* Each message is once in the pipe or with the parent, if it was sent.    *)
Has(q, c) == \E k \in 1 .. Len(q) : q[k] = c
Distinct(q) == \A j, k \in 1 .. Len(q) : q[j] = q[k] => j = k

MessageInv ==
  /\ got \in Seq(Children) /\ pipe \in Seq(Children)
  /\ Distinct(got \o pipe)
  /\ \A c \in Children : pc[c] \in {"none", "write"} => ~Has(got \o pipe, c)
  /\ \A c \in Children : pc[c] = "write" => prog \in Piped
  /\ prog \notin Piped => got = <<>> /\ pipe = <<>>

(* How far the parent has come with its two reads.                         *)
ReadInv ==
  /\ pc[Parent] \notin {"read", "close", "exit", "killed"} => got = <<>>
  /\ pc[Parent] = "read" => Len(got) <= 1
  /\ pc[Parent] = "close" => Len(got) = 2

IInv == TypeOK /\ ParentInv /\ MessageInv /\ ReadInv

-----------------------------------------------------------------------------
(* Sequences.                                                              *)

(* A read moves a message from one side to the other and loses none.       *)
LEMMA ReadKeeps ==
  ASSUME NEW S, NEW s \in Seq(S), NEW t \in Seq(S), t # <<>>
  PROVE  /\ Append(s, Head(t)) \in Seq(S) /\ Tail(t) \in Seq(S)
         /\ Len(Append(s, Head(t))) = Len(s) + 1
         /\ Append(s, Head(t)) \o Tail(t) = s \o t
<1> DEFINE a == Append(s, Head(t))
           u == Tail(t)
<1>1. /\ Len(s) \in Nat /\ Len(t) \in Nat \ {0} /\ Head(t) \in S
      /\ t[1] = Head(t)
  BY LenProperties, EmptySeq, HeadTailProperties
<1>2. /\ a \in Seq(S) /\ Len(a) = Len(s) + 1
      /\ \A k \in 1 .. Len(s) : a[k] = s[k]
      /\ a[Len(s) + 1] = t[1]
  BY <1>1, AppendProperties
<1>3. /\ u \in Seq(S) /\ Len(u) = Len(t) - 1
      /\ \A k \in 1 .. Len(t) - 1 : u[k] = t[k + 1]
  BY HeadTailProperties
<1> HIDE DEF a, u
<1>4. /\ s \o t \in Seq(S) /\ a \o u \in Seq(S)
      /\ Len(s \o t) = Len(s) + Len(t) /\ Len(a \o u) = Len(a) + Len(u)
      /\ \A k \in 1 .. Len(s) + Len(t) :
           (s \o t)[k] = IF k <= Len(s) THEN s[k] ELSE t[k - Len(s)]
      /\ \A k \in 1 .. Len(a) + Len(u) :
           (a \o u)[k] = IF k <= Len(a) THEN a[k] ELSE u[k - Len(a)]
  BY <1>2, <1>3, ConcatProperties
<1>5. Len(a) + Len(u) = Len(s) + Len(t)
  BY <1>1, <1>2, <1>3
<1>6. ASSUME NEW k \in 1 .. Len(s) + Len(t) PROVE (a \o u)[k] = (s \o t)[k]
  <2>1. CASE k <= Len(s)
    BY <1>1, <1>2, <1>4, <1>5, <2>1
  <2>2. CASE k = Len(s) + 1
    <3>1. k - Len(s) = 1 /\ k <= Len(a) /\ ~(k <= Len(s))
      BY <1>1, <1>2, <2>2
    <3> QED BY <1>2, <1>4, <1>5, <2>2, <3>1
  <2>3. CASE k > Len(s) + 1
    <3>1. /\ k - Len(a) \in 1 .. Len(t) - 1 /\ (k - Len(a)) + 1 = k - Len(s)
          /\ ~(k <= Len(a)) /\ ~(k <= Len(s))
      BY <1>1, <1>2, <2>3
    <3> QED BY <1>3, <1>4, <1>5, <3>1
  <2>4. k <= Len(s) \/ k = Len(s) + 1 \/ k > Len(s) + 1
    BY <1>1
  <2> QED BY <2>1, <2>2, <2>3, <2>4
<1>7. a \o u = s \o t
  BY <1>4, <1>5, <1>6, SeqEqual
<1> QED BY <1>2, <1>3, <1>7 DEF a, u

(* A write puts one more at the end.                                       *)
LEMMA WriteAdds ==
  ASSUME NEW S, NEW s \in Seq(S), NEW t \in Seq(S), NEW x \in S
  PROVE  /\ Append(t, x) \in Seq(S) /\ s \o Append(t, x) \in Seq(S)
         /\ s \o t \in Seq(S) /\ Len(s \o t) \in Nat
         /\ Len(s \o Append(t, x)) = Len(s \o t) + 1
         /\ \A k \in 1 .. Len(s \o t) : (s \o Append(t, x))[k] = (s \o t)[k]
         /\ (s \o Append(t, x))[Len(s \o t) + 1] = x
<1> DEFINE a == Append(t, x)
<1>1. /\ a \in Seq(S) /\ Len(a) = Len(t) + 1
      /\ \A k \in 1 .. Len(t) : a[k] = t[k]
      /\ a[Len(t) + 1] = x /\ Len(s) \in Nat /\ Len(t) \in Nat
  BY AppendProperties, LenProperties
<1> HIDE DEF a
<1>2. /\ s \o t \in Seq(S) /\ s \o a \in Seq(S)
      /\ Len(s \o t) = Len(s) + Len(t) /\ Len(s \o a) = Len(s) + Len(a)
      /\ \A k \in 1 .. Len(s) + Len(t) :
           (s \o t)[k] = IF k <= Len(s) THEN s[k] ELSE t[k - Len(s)]
      /\ \A k \in 1 .. Len(s) + Len(a) :
           (s \o a)[k] = IF k <= Len(s) THEN s[k] ELSE a[k - Len(s)]
  BY <1>1, ConcatProperties
<1>3. ASSUME NEW k \in 1 .. Len(s \o t) PROVE (s \o a)[k] = (s \o t)[k]
  <2>1. CASE k <= Len(s)
    BY <1>1, <1>2, <2>1
  <2>2. CASE k > Len(s)
    <3>1. k - Len(s) \in 1 .. Len(t) /\ k \in 1 .. Len(s) + Len(a)
          /\ k \in 1 .. Len(s) + Len(t) /\ ~(k <= Len(s))
      BY <1>1, <1>2, <2>2
    <3> QED BY <1>1, <1>2, <3>1
  <2> QED BY <1>1, <1>2, <2>1, <2>2
<1>4. (s \o a)[Len(s) + Len(t) + 1] = x
  <2>1. /\ Len(s) + Len(t) + 1 \in 1 .. Len(s) + Len(a)
        /\ ~(Len(s) + Len(t) + 1 <= Len(s))
        /\ (Len(s) + Len(t) + 1) - Len(s) = Len(t) + 1
    BY <1>1
  <2> QED BY <1>1, <1>2, <2>1
<1>5. Len(s \o a) = Len(s \o t) + 1 /\ Len(s \o t) \in Nat
  BY <1>1, <1>2
<1> QED BY <1>1, <1>2, <1>3, <1>4, <1>5 DEF a

LEMMA ShortSequences ==
  ASSUME NEW S, NEW s \in Seq(S), NEW t \in Seq(S)
  PROVE  /\ Len(s) <= 1 /\ s # <<>> => Len(s) = 1
         /\ Len(s) = 2 => /\ DOMAIN s = {1, 2} /\ s[1] \in S /\ s[2] \in S
                          /\ 1 \in 1 .. Len(s \o t) /\ 2 \in 1 .. Len(s \o t)
                          /\ (s \o t)[1] = s[1] /\ (s \o t)[2] = s[2]
<1>1. /\ Len(s) \in Nat /\ DOMAIN s = 1 .. Len(s) /\ Len(t) \in Nat
      /\ \A k \in 1 .. Len(s) : s[k] \in S
      /\ s # <<>> => Len(s) # 0
  BY LenProperties, EmptySeq, ElementOfSeq
<1>2. /\ Len(s \o t) = Len(s) + Len(t)
      /\ \A k \in 1 .. Len(s) + Len(t) :
           (s \o t)[k] = IF k <= Len(s) THEN s[k] ELSE t[k - Len(s)]
  BY ConcatProperties
<1>3. Len(s) <= 1 /\ s # <<>> => Len(s) = 1
  BY <1>1
<1>4. ASSUME Len(s) = 2
      PROVE  /\ DOMAIN s = {1, 2} /\ s[1] \in S /\ s[2] \in S
             /\ 1 \in 1 .. Len(s \o t) /\ 2 \in 1 .. Len(s \o t)
             /\ (s \o t)[1] = s[1] /\ (s \o t)[2] = s[2]
  <2>1. 1 .. Len(s) = {1, 2}
    BY <1>4
  <2>2. /\ 1 \in 1 .. Len(s) + Len(t) /\ 2 \in 1 .. Len(s) + Len(t)
        /\ 1 <= Len(s) /\ 2 <= Len(s)
    BY <1>1, <1>4
  <2>3. (s \o t)[1] = s[1] /\ (s \o t)[2] = s[2]
    BY <1>2, <2>2
  <2> QED BY <1>1, <1>2, <2>1, <2>2, <2>3
<1> QED BY <1>3, <1>4

(* There are two children, so no more than two messages.                   *)
LEMMA AtMostTwo ==
  ASSUME NEW q \in Seq(Children), Distinct(q)
  PROVE  Len(q) \in 0 .. 2 /\ q \in BoundedSeq(Children, 2)
<1>1. Len(q) \in Nat /\ q \in [1 .. Len(q) -> Children]
  BY LenProperties
<1>2. Len(q) <= 2
  <2> SUFFICES ASSUME Len(q) >= 3 PROVE FALSE
    BY <1>1
  <2>1. /\ 1 \in 1 .. Len(q) /\ 2 \in 1 .. Len(q) /\ 3 \in 1 .. Len(q)
    BY <1>1
  <2>2. q[1] \in Children /\ q[2] \in Children /\ q[3] \in Children
    BY <1>1, <2>1
  <2>3. q[1] # q[2] /\ q[1] # q[3] /\ q[2] # q[3]
    BY <2>1 DEF Distinct
  <2> QED BY <2>2, <2>3 DEF Children
<1> QED BY <1>1, <1>2 DEF BoundedSeq, SeqOf

-----------------------------------------------------------------------------
(* The steps.                                                              *)

LEMMA Family ==
  /\ Parent \in Proc /\ 1 \in Proc /\ 2 \in Proc /\ Children \subseteq Proc
  /\ 1 \in Children /\ 2 \in Children /\ Parent \notin Children
  /\ \A c \in Children : c = 1 \/ c = 2
  /\ \A p \in Proc : p = Parent \/ p \in Children
BY DEF Proc, Parent, Children

LEMMA InitInv == Init => IInv
<1> SUFFICES ASSUME Init PROVE IInv
  OBVIOUS
<1>1. /\ pc \in [Proc -> {"none", "signal", "pipe", "fork1"}]
      /\ pc[1] = "none" /\ pc[2] = "none"
      /\ pc[Parent] \in {"signal", "pipe", "fork1"}
  BY DEF Init, Proc, Parent, Children
<1>2. got = <<>> /\ pipe = <<>> /\ <<>> \in Seq(Children)
      /\ got \o pipe = <<>> /\ Len(got \o pipe) = 0
  <2>1. <<>> \in Seq(Children) /\ Len(<<>>) = 0
    BY EmptySeq
  <2> QED BY <2>1, ConcatEmptySeq DEF Init
<1>3. Distinct(got \o pipe) /\ \A c \in Children : ~Has(got \o pipe, c)
  BY <1>2 DEF Distinct, Has
<1>4. TypeOK
  <2>1. got \o pipe \in BoundedSeq(Children, 2)
    BY <1>2, <1>3, AtMostTwo
  <2>2. pc \in [Proc -> Calls]
    BY <1>1 DEF Calls
  <2>3. 0 \in 0 .. MaxSignals /\ 0 \in 0 .. MaxKills
    BY BoundsAssumption
  <2> QED BY <1>2, <2>1, <2>2, <2>3 DEF TypeOK, Init
<1>5. ParentInv /\ ReadInv
  BY <1>1, <1>2 DEF ParentInv, ReadInv, Init, Children
<1>6. MessageInv
  BY <1>1, <1>2, <1>3 DEF MessageInv, Children
<1> QED BY <1>4, <1>5, <1>6 DEF IInv

(* Steps that leave the pipe alone: a process goes on, ends or is killed,  *)
(* and no child gets to its write but by fork.                             *)
LEMMA QuietMessages ==
  ASSUME IInv, UNCHANGED <<prog, got, pipe>>,
         \A c \in Children :
           /\ pc'[c] = "none" => pc[c] = "none"
           /\ pc'[c] = "write" =>
                pc[c] = "write" \/ (pc[c] = "none" /\ prog \in Piped)
  PROVE  MessageInv' /\ got' \o pipe' = got \o pipe
BY DEF IInv, MessageInv, Has, Distinct

(* A step of one process p from call l to call m.                          *)
Moves(p, l, m) == pc[p] = l /\ pc' = [pc EXCEPT ![p] = m]

LEMMA GotoMoves ==
  ASSUME IInv, NEW p \in Proc, NEW l, NEW m, Moves(p, l, m)
  PROVE  pc'[p] = m /\ \A q \in Proc \ {p} : pc'[q] = pc[q]
BY DEF IInv, TypeOK, Moves

(* A process that ends or is killed, or does one of the calls that nothing *)
(* else depends on.                                                        *)
LEMMA QuietStep ==
  ASSUME IInv, NEW p \in Proc, NEW l, NEW m \in Calls, Moves(p, l, m),
         UNCHANGED <<prog, got, pipe, reaped>>, l \notin {"none", "exit", "killed"},
         \/ m \in {"exit", "killed"}
         \/ p \in Children /\ m \notin {"none", "write"}
         \/ p = Parent /\ l = "signal" /\ m = "pipe"
         \/ p = Parent /\ l = "pipe" /\ m = "fork1"
         \/ m = l,
         PPID' \in [Children -> {Parent, Reaper, NoId}],
         send_flag' \in [Proc -> BOOLEAN], pending' \in [Proc -> BOOLEAN],
         report' \in {"none", "set", "not set"},
         signals' \in 0 .. MaxSignals, kills' \in 0 .. MaxKills
  PROVE  IInv'
<1> USE DEF IInv
<1>1. pc'[p] = m /\ pc[p] = l /\ (\A q \in Proc \ {p} : pc'[q] = pc[q])
      /\ pc' \in [Proc -> Calls]
  BY GotoMoves DEF Moves, TypeOK
<1>2. p \in Children \/ p = Parent
  BY Family
<1>3. MessageInv' /\ got' \o pipe' = got \o pipe
  <2>1. ASSUME NEW c \in Children
        PROVE  /\ pc'[c] = "none" => pc[c] = "none"
               /\ pc'[c] = "write" => pc[c] = "write"
    BY <1>1, Family
  <2> QED BY <2>1, QuietMessages
<1>4. TypeOK'
  <2>1. \A c \in Children : Ended(c) => Ended(c)'
    BY <1>1, Family DEF Ended
  <2> QED BY <1>1, <1>3, <2>1 DEF TypeOK
<1>5. \/ pc'[Parent] \in {pc[Parent], "exit", "killed"}
      \/ pc[Parent] = "signal" /\ pc'[Parent] = "pipe"
      \/ pc[Parent] = "pipe" /\ pc'[Parent] = "fork1"
  BY <1>1, <1>2, Family
<1>6. \A c \in Children : pc[c] = "none" => pc'[c] = "none"
  BY <1>1, Family
<1>7. ParentInv'
  BY <1>5, <1>6, Family DEF ParentInv
<1>8. ReadInv'
  BY <1>5 DEF ReadInv
<1> QED BY <1>3, <1>4, <1>7, <1>8

(* The calls of the parent before it forks, and after it has read.         *)
LEMMA QuietParent ==
  ASSUME IInv,
         \/ SetHandler \/ MakePipe \/ Close(Parent)
         \/ \E c \in Children : ForkFails(c)
  PROVE  IInv'
<1> USE DEF IInv
<1>1. \E l, m \in Calls :
        /\ Moves(Parent, l, m)
        /\ l \notin {"none", "exit", "killed"}
        /\ \/ m \in {"exit", "killed"}
           \/ l = "signal" /\ m = "pipe"
           \/ l = "pipe" /\ m = "fork1"
  <2>1. CASE SetHandler
    BY <2>1 DEF SetHandler, Goto, Moves, Calls
  <2>2. CASE MakePipe
    BY <2>2 DEF MakePipe, Goto, Moves, Calls
  <2>3. CASE Close(Parent)
    BY <2>3 DEF Close, Goto, Moves, Calls
  <2>4. ASSUME NEW c \in Children, ForkFails(c)
        PROVE  Moves(Parent, ForkCall(c), "exit") /\ ForkCall(c) \in {"fork1", "fork2"}
    BY <2>4, Family DEF ForkFails, Goto, Moves, ForkCall
  <2> QED BY <2>1, <2>2, <2>3, <2>4 DEF Calls
<1>2. UNCHANGED <<prog, data, env>>
  BY DEF SetHandler, MakePipe, Close, ForkFails, Goto
<1> QED BY <1>1, <1>2, Family, QuietStep DEF data, env, TypeOK

(* The calls of a child but its write.                                     *)
LEMMA QuietChild ==
  ASSUME IInv, NEW c \in Children,
         \/ NotePpid(c) \/ LeaveLoop(c) \/ Return(c) \/ Exec(c)
         \/ Wake(c) \/ Report(c) \/ Close(c)
  PROVE  IInv'
<1> USE DEF IInv
<1>1. \E l, m \in Calls :
        /\ Moves(c, l, m)
        /\ l \notin {"none", "exit", "killed"} /\ m \notin {"none", "write"}
  BY DEF NotePpid, LeaveLoop, Return, Exec, Wake, Report, Close, Goto, Moves,
     Calls
<1>2. UNCHANGED <<prog, env, send_flag, got, pipe, reaped>>
  BY DEF NotePpid, LeaveLoop, Return, Exec, Wake, Report, Close, Goto, data
<1>3. /\ PPID' \in [Children -> {Parent, Reaper, NoId}]
      /\ report' \in {"none", "set", "not set"}
  BY DEF NotePpid, LeaveLoop, Return, Exec, Wake, Report, Close, data, Getppid,
     TypeOK
<1> QED BY <1>1, <1>2, <1>3, Family, QuietStep DEF env, TypeOK

(* Signals: caught, deadly, and a kill; and the sending of one.            *)
LEMMA SignalInv ==
  ASSUME IInv, NEW p \in Proc, Handle(p) \/ Interrupted(p) \/ Kill(p)
  PROVE  IInv'
<1> USE BoundsAssumption DEF IInv
<1>1. pc[p] \notin {"none", "exit", "killed"} /\ pc[p] \in Calls
  BY DEF Handle, Interrupted, Kill, Alive, Ended, TypeOK
<1>2. UNCHANGED <<prog, PPID, got, pipe, reaped, report>>
  BY DEF Handle, Interrupted, Kill, Die, data
<1>3. /\ send_flag' \in [Proc -> BOOLEAN] /\ pending' \in [Proc -> BOOLEAN]
      /\ signals' \in 0 .. MaxSignals /\ kills' \in 0 .. MaxKills
  <2>1. /\ signals' = signals
        /\ \/ kills' = kills
           \/ kills < MaxKills /\ kills' = kills + 1
    <3>1. CASE Handle(p)
      BY <3>1 DEF Handle
    <3>2. CASE Interrupted(p)
      BY <3>2 DEF Interrupted, Die
    <3>3. CASE Kill(p)
      BY <3>3 DEF Kill, Die
    <3> QED BY <3>1, <3>2, <3>3
  <2>2. send_flag' = send_flag \/ send_flag' = [send_flag EXCEPT ![p] = TRUE]
    BY DEF Handle, Interrupted, Kill, Die, data
  <2>3. pending' = [pending EXCEPT ![p] = FALSE]
    BY DEF Handle, Interrupted, Kill, Die
  <2>4. signals \in 0 .. MaxSignals /\ kills \in 0 .. MaxKills
    BY DEF TypeOK
  <2>5. signals' \in 0 .. MaxSignals /\ kills' \in 0 .. MaxKills
    BY <2>1, <2>4
  <2> QED BY <2>2, <2>3, <2>5 DEF TypeOK
<1>4. \E m \in Calls :
        /\ Moves(p, pc[p], m)
        /\ m \in {"exit", "killed"} \/ m = pc[p] \/ (p \in Children /\ m = "flag")
  <2>1. CASE Handle(p)
    <3>1. pc' = [pc EXCEPT ![p] = IF pc[p] = "sleep" THEN "flag" ELSE pc[p]]
      BY <2>1 DEF Handle
    <3>2. pc[p] = "sleep" => p \in Children
      BY Family DEF ParentInv
    <3> QED BY <1>1, <3>1, <3>2 DEF Moves, Calls
  <2>2. CASE Interrupted(p) \/ Kill(p)
    BY <2>2 DEF Interrupted, Kill, Die, Moves, Calls
  <2> QED BY <2>1, <2>2
<1> QED BY <1>1, <1>2, <1>3, <1>4, QuietStep DEF TypeOK

LEMMA CtrlCInv ==
  ASSUME IInv, CtrlC
  PROVE  IInv'
<1> USE DEF IInv
<1>1. /\ UNCHANGED <<prog, pc, PPID, send_flag, pipe, got, reaped, report, kills>>
      /\ signals < MaxSignals /\ signals' = signals + 1
      /\ pending' \in [Proc -> BOOLEAN]
  BY DEF CtrlC, data, TypeOK
<1>2. TypeOK'
  <2>1. signals \in 0 .. MaxSignals
    BY DEF TypeOK
  <2>2. signals' \in 0 .. MaxSignals
    BY <1>1, <2>1, BoundsAssumption
  <2> QED BY <1>1, <2>2 DEF TypeOK, Ended
<1> QED BY <1>1, <1>2 DEF ParentInv, MessageInv, ReadInv, Has, Distinct

(* fork: the new child has sent nothing.                                   *)
LEMMA ForkInv ==
  ASSUME IInv, NEW c \in Children, Fork(c)
  PROVE  IInv'
<1> USE DEF IInv
<1>1. /\ pc[c] = "none" /\ pc[Parent] = ForkCall(c)
      /\ ForkCall(c) \in {"fork1", "fork2"}
  BY Family DEF Fork, ForkCall, ParentInv
<1>2. /\ pc'[c] = FirstCall
      /\ pc'[Parent] = IF c = 1 THEN "fork2" ELSE AfterForks
      /\ \A q \in Proc \ {c, Parent} : pc'[q] = pc[q]
      /\ UNCHANGED <<prog, PPID, got, pipe, reaped, report, pending, signals, kills>>
      /\ send_flag' \in [Proc -> BOOLEAN]
  BY Family DEF Fork, TypeOK, env
<1>3. /\ FirstCall \in {"getppid", "return", "exec", "write"}
      /\ FirstCall = "write" => prog \in Piped
      /\ AfterForks \in {"exit", "wait"}
  <2>1. prog \in Programs
    BY DEF TypeOK
  <2> QED BY <2>1 DEF FirstCall, AfterForks, Programs, Piped
<1>4. pc' \in [Proc -> Calls]
  BY <1>2, <1>3, Family DEF Fork, TypeOK, Calls
<1>5. MessageInv' /\ got' \o pipe' = got \o pipe
  <2>1. ASSUME NEW d \in Children
        PROVE  /\ pc'[d] = "none" => pc[d] = "none"
               /\ pc'[d] = "write" =>
                    pc[d] = "write" \/ (pc[d] = "none" /\ prog \in Piped)
    <3>1. CASE d = c
      BY <1>1, <1>2, <1>3, <3>1
    <3>2. CASE d # c
      BY <1>2, <3>2, Family
    <3> QED BY <3>1, <3>2
  <2> QED BY <1>2, <2>1, QuietMessages
<1>6. reaped = {}
  BY <1>1 DEF ParentInv
<1>7. TypeOK'
  BY <1>2, <1>4, <1>5, <1>6 DEF TypeOK
<1>8. ParentInv'
  <2>1. CASE c = 1
    <3>1. pc'[Parent] = "fork2" /\ pc[2] = "none" /\ pc'[2] = pc[2]
      BY <1>1, <1>2, <2>1, Family DEF ParentInv, ForkCall
    <3> QED BY <1>2, <1>6, <3>1 DEF ParentInv
  <2>2. CASE c = 2
    <3>1. pc'[Parent] \in {"exit", "wait"} /\ reaped # Children
      BY <1>2, <1>3, <1>6, <2>2, Family
    <3> QED BY <1>2, <1>6, <3>1 DEF ParentInv
  <2> QED BY <2>1, <2>2, Family
<1>9. ReadInv'
  <2>1. got = <<>>
    BY <1>1 DEF ReadInv
  <2>2. pc'[Parent] \in {"fork2", "exit", "wait"}
    BY <1>2, <1>3
  <2> QED BY <1>2, <2>1, <2>2 DEF ReadInv
<1> QED BY <1>5, <1>7, <1>8, <1>9

(* wait: the second one that returns ends the waiting.                     *)
LEMMA WaitInv ==
  ASSUME IInv, Wait
  PROVE  IInv'
<1> USE DEF IInv
<1>1. PICK c \in Children \ reaped :
        /\ Ended(c)
        /\ pc[Parent] = "wait"
        /\ pc' = [pc EXCEPT ![Parent] = IF reaped = {} THEN "wait" ELSE AfterWaits]
        /\ reaped' = reaped \cup {c}
        /\ UNCHANGED <<prog, PPID, send_flag, pipe, got, report, pending, signals, kills>>
  BY DEF Wait, Goto, env
<1>2. /\ pc'[Parent] = IF reaped = {} THEN "wait" ELSE AfterWaits
      /\ \A d \in Children : pc'[d] = pc[d]
      /\ AfterWaits \in {"read", "exit"} /\ (AfterWaits = "read" => prog \in Piped)
      /\ pc' \in [Proc -> Calls]
  BY <1>1, Family DEF AfterWaits, TypeOK, Calls
<1>3. reaped' \subseteq {d \in Children : Ended(d)'}
  BY <1>1, <1>2 DEF TypeOK, Ended
<1>4. MessageInv' /\ got' \o pipe' = got \o pipe
  BY <1>1, <1>2, QuietMessages
<1>5. TypeOK'
  BY <1>1, <1>2, <1>3, <1>4 DEF TypeOK
<1>6. ParentInv'
  <2>1. reaped = {} => reaped' # Children
    BY <1>1, Family
  <2>2. reaped # {} => reaped' = Children
    <3>1. reaped \subseteq Children
      BY DEF TypeOK
    <3> QED BY <1>1, <3>1, Family
  <2> QED BY <1>1, <1>2, <2>1, <2>2 DEF ParentInv
<1>7. ReadInv'
  BY <1>1, <1>2, EmptySeq DEF ReadInv
<1> QED BY <1>4, <1>5, <1>6, <1>7

(* read: a message goes from the pipe to the parent.                       *)
LEMMA ReadStep ==
  ASSUME IInv, Read
  PROVE  IInv'
<1> USE DEF IInv
<1>1. /\ pipe # <<>> /\ pc[Parent] = "read"
      /\ pc' = [pc EXCEPT ![Parent] = IF got = <<>> THEN "read" ELSE "close"]
      /\ got' = Append(got, Head(pipe)) /\ pipe' = Tail(pipe)
      /\ UNCHANGED <<prog, PPID, send_flag, reaped, report, pending, signals, kills>>
  BY DEF Read, Goto, env
<1>2. got \in Seq(Children) /\ pipe \in Seq(Children)
  BY DEF MessageInv
<1>3. /\ got' \in Seq(Children) /\ pipe' \in Seq(Children)
      /\ Len(got') = Len(got) + 1 /\ got' \o pipe' = got \o pipe
  BY <1>1, <1>2, ReadKeeps
<1>4. /\ pc'[Parent] = IF got = <<>> THEN "read" ELSE "close"
      /\ \A d \in Children : pc'[d] = pc[d]
      /\ pc' \in [Proc -> Calls]
  BY <1>1, Family DEF TypeOK, Calls
<1>5. prog \in Piped /\ reaped = Children
  BY <1>1 DEF ParentInv
<1>6. MessageInv'
  <2>1. /\ Distinct(got' \o pipe')
        /\ \A c \in Children : pc[c] \in {"none", "write"} =>
                               ~Has(got' \o pipe', c)
    BY <1>3 DEF MessageInv
  <2>2. \A c \in Children : pc'[c] = "write" => prog' \in Piped
    BY <1>1, <1>5
  <2> QED BY <1>1, <1>3, <1>4, <1>5, <2>1, <2>2 DEF MessageInv
<1>7. TypeOK'
  BY <1>1, <1>3, <1>4, <1>5 DEF TypeOK, Ended
<1>8. ParentInv'
  BY <1>1, <1>4, <1>5 DEF ParentInv
<1>9. ReadInv'
  <2>1. Len(got) <= 1 /\ Len(got) \in Nat
    BY <1>1, <1>2, LenProperties DEF ReadInv
  <2>2. got = <<>> => Len(got) = 0
    BY EmptySeq
  <2>3. got # <<>> => Len(got) = 1
    BY <1>2, <2>1, ShortSequences
  <2> QED BY <1>3, <1>4, <2>2, <2>3 DEF ReadInv
<1> QED BY <1>6, <1>7, <1>8, <1>9

(* write: a message that was nowhere is now in the pipe.                   *)
LEMMA WriteInv ==
  ASSUME IInv, NEW c \in Children, Write(c)
  PROVE  IInv'
<1> USE DEF IInv
<1> DEFINE q == got \o pipe
           r == got \o Append(pipe, c)
<1>1. /\ pc[c] = "write" /\ pipe' = Append(pipe, c)
      /\ pc' = [pc EXCEPT ![c] = IF Sleeps(c) THEN "sleep" ELSE "close"]
      /\ UNCHANGED <<prog, PPID, send_flag, got, reaped, report, pending, signals, kills>>
  BY DEF Write, Goto, env
<1>2. got \in Seq(Children) /\ pipe \in Seq(Children)
  BY DEF MessageInv
<1>3. /\ pipe' \in Seq(Children) /\ r \in Seq(Children) /\ Len(q) \in Nat
      /\ Len(r) = Len(q) + 1
      /\ \A k \in 1 .. Len(q) : r[k] = q[k]
      /\ r[Len(q) + 1] = c
  BY <1>1, <1>2, WriteAdds
<1>4. got' \o pipe' = r
  BY <1>1
<1>5. /\ pc'[c] \in {"sleep", "close"}
      /\ \A p \in Proc \ {c} : pc'[p] = pc[p]
      /\ pc'[Parent] = pc[Parent] /\ pc' \in [Proc -> Calls]
  BY <1>1, Family DEF TypeOK, Calls
<1>6. Distinct(q) /\ ~Has(q, c) /\ prog \in Piped
  BY <1>1 DEF MessageInv
<1> HIDE DEF q, r
<1>7. Distinct(r) /\ \A d \in Children \ {c} : Has(r, d) => Has(q, d)
  <2>1. \A k \in 1 .. Len(r) : k \in 1 .. Len(q) \/ k = Len(q) + 1
    BY <1>3
  <2> QED BY <1>3, <1>6, <2>1 DEF Distinct, Has
<1>8. MessageInv'
  <2>1. ASSUME NEW d \in Children, pc'[d] \in {"none", "write"}
        PROVE  ~Has(r, d)
    <3>1. d # c /\ pc[d] = pc'[d]
      BY <1>5, <2>1, Family
    <3> QED BY <1>7, <2>1, <3>1 DEF MessageInv, q
  <2> QED BY <1>1, <1>2, <1>3, <1>4, <1>6, <1>7, <2>1 DEF MessageInv
<1>9. TypeOK'
  <2>1. got' \o pipe' \in BoundedSeq(Children, 2)
    BY <1>3, <1>4, <1>7, AtMostTwo
  <2>2. \A d \in Children : Ended(d) => Ended(d)'
    BY <1>1, <1>5, Family DEF Ended
  <2> QED BY <1>1, <1>5, <1>6, <2>1, <2>2 DEF TypeOK
<1>10. ParentInv' /\ ReadInv'
  <2>1. \A d \in Children : pc[d] = "none" => pc'[d] = "none"
    BY <1>1, <1>5, Family
  <2> QED BY <1>1, <1>5, <2>1, Family DEF ParentInv, ReadInv
<1> QED BY <1>8, <1>9, <1>10

LEMMA Invariance == Spec => []IInv
<1>1. IInv /\ UNCHANGED vars => IInv'
  BY DEF vars, data, env, IInv, TypeOK, ParentInv, MessageInv, ReadInv, Has,
     Distinct, Ended
<1>2. IInv /\ Next => IInv'
  BY QuietParent, ForkInv, WaitInv, ReadStep, QuietChild, WriteInv, SignalInv,
     CtrlCInv
  DEF Next, ParentStep, ChildStep, SignalStep
<1> QED BY InitInv, <1>1, <1>2, PTL DEF Spec

-----------------------------------------------------------------------------
(* What was not sent.                                                      *)

(* A child with a pipe ends only behind its write, unless it is killed.    *)
SentInv ==
  prog \in Piped => \A c \in Children :
    /\ pc[c] \in {"none", "write", "sleep", "flag", "close", "exit", "killed"}
    /\ pc[c] \in {"sleep", "flag", "close", "exit"} => Has(got \o pipe, c)

(* No step loses a message.                                                *)
LEMMA MessagesStay ==
  ASSUME IInv, Next, NEW c \in Children, Has(got \o pipe, c)
  PROVE  Has(got' \o pipe', c)
<1>1. got \in Seq(Children) /\ pipe \in Seq(Children)
  BY DEF IInv, MessageInv
<1>2. CASE Read
  <2>1. pipe # <<>> /\ got' = Append(got, Head(pipe)) /\ pipe' = Tail(pipe)
    BY <1>2 DEF Read
  <2>2. got' \o pipe' = got \o pipe
    BY <1>1, <2>1, ReadKeeps
  <2> QED BY <2>2
<1>3. ASSUME NEW d \in Children, Write(d) PROVE Has(got' \o pipe', c)
  <2> DEFINE q == got \o pipe
             r == got \o Append(pipe, d)
  <2>1. got' \o pipe' = r
    BY <1>3 DEF Write
  <2>2. /\ Len(q) \in Nat /\ Len(r) = Len(q) + 1
        /\ \A k \in 1 .. Len(q) : r[k] = q[k]
    BY <1>1, WriteAdds
  <2>3. Has(q, c)
    OBVIOUS
  <2> HIDE DEF q, r
  <2>4. Has(r, c)
    BY <2>2, <2>3 DEF Has
  <2> QED BY <2>1, <2>4
<1>4. CASE ~Read /\ \A d \in Children : ~Write(d)
  <2>1. UNCHANGED <<got, pipe>>
    BY <1>4 DEF Next, ParentStep, ChildStep, SignalStep, SetHandler, MakePipe,
       Fork, ForkFails, Wait, Close, NotePpid, LeaveLoop, Return, Exec, Wake,
       Report, CtrlC, Handle, Interrupted, Kill, Die, data
  <2> QED BY <2>1
<1> QED BY <1>2, <1>3, <1>4

(* Where a step of the program takes a child that has a pipe.              *)
LEMMA ChildMoves ==
  ASSUME IInv, SentInv, Next, NEW c \in Children, prog \in Piped
  PROVE  \/ pc'[c] = pc[c] \/ pc'[c] = "killed"
         \/ pc[c] = "none" /\ pc'[c] = "write"
         \/ Write(c) /\ pc'[c] \in {"sleep", "close"}
         \/ /\ pc[c] \in {"sleep", "flag", "close"}
            /\ pc'[c] \in {"flag", "close", "exit"}
<1> USE DEF IInv
<1>1. CASE SetHandler \/ MakePipe \/ Wait \/ Read \/ Close(Parent)
           \/ \E d \in Children : ForkFails(d)
  <2>1. \E m : pc' = [pc EXCEPT ![Parent] = m]
    BY <1>1 DEF SetHandler, MakePipe, Wait, Read, Close, ForkFails, Goto
  <2> QED BY <2>1, Family DEF TypeOK
<1>2. ASSUME NEW d \in Children, Fork(d)
      PROVE  pc'[c] = pc[c] \/ (pc[c] = "none" /\ pc'[c] = "write")
  <2>1. pc[d] = "none"
    BY <1>2, Family DEF Fork, ForkCall, ParentInv
  <2>2. FirstCall = "write"
    BY DEF FirstCall, Piped
  <2>3. pc' = [pc EXCEPT ![Parent] = IF d = 1 THEN "fork2" ELSE AfterForks,
                         ![d] = "write"]
    BY <1>2, <2>2 DEF Fork
  <2> QED BY <2>1, <2>3, Family DEF TypeOK
<1>3. ASSUME NEW d \in Children, Write(d)
      PROVE  pc'[c] = pc[c] \/ (Write(c) /\ pc'[c] \in {"sleep", "close"})
  <2>1. pc' = [pc EXCEPT ![d] = IF Sleeps(d) THEN "sleep" ELSE "close"]
    BY <1>3 DEF Write, Goto
  <2> QED BY <1>3, <2>1, Family DEF TypeOK
<1>4. ASSUME NEW d \in Children,
             NotePpid(d) \/ LeaveLoop(d) \/ Return(d) \/ Exec(d)
      PROVE  FALSE
  <2>1. pc[d] \in {"getppid", "loop", "return", "exec"}
    BY <1>4 DEF NotePpid, LeaveLoop, Return, Exec, Goto
  <2> QED BY <2>1 DEF SentInv
<1>5. ASSUME NEW d \in Children, Wake(d) \/ Report(d) \/ Close(d)
      PROVE  \/ pc'[c] = pc[c]
             \/ /\ pc[c] \in {"sleep", "flag", "close"}
                /\ pc'[c] \in {"flag", "close", "exit"}
  <2>1. /\ pc[d] \in {"sleep", "flag", "close"}
        /\ \E m \in {"flag", "close", "exit"} : pc' = [pc EXCEPT ![d] = m]
    BY <1>5 DEF Wake, Report, Close, Goto
  <2> QED BY <2>1, Family DEF TypeOK
<1>6. ASSUME NEW p \in Proc, Handle(p)
      PROVE  pc'[c] = pc[c] \/ (pc[c] = "sleep" /\ pc'[c] = "flag")
  <2>1. pc' = [pc EXCEPT ![p] = IF pc[p] = "sleep" THEN "flag" ELSE pc[p]]
    BY <1>6 DEF Handle
  <2> QED BY <2>1, Family DEF TypeOK
<1>7. ASSUME NEW p \in Proc, Interrupted(p) \/ Kill(p)
      PROVE  pc'[c] = pc[c] \/ pc'[c] = "killed"
  <2>1. pc' = [pc EXCEPT ![p] = "killed"]
    BY <1>7 DEF Interrupted, Kill, Die
  <2> QED BY <2>1, Family DEF TypeOK
<1>8. CtrlC => pc'[c] = pc[c]
  BY DEF CtrlC
<1> QED BY <1>1, <1>2, <1>3, <1>4, <1>5, <1>6, <1>7, <1>8
     DEF Next, ParentStep, ChildStep, SignalStep

LEMMA SentStep ==
  ASSUME IInv, SentInv, [Next]_vars
  PROVE  SentInv'
<1>1. CASE UNCHANGED vars
  BY <1>1 DEF vars, data, SentInv, Has
<1>2. CASE Next
  <2>1. prog' = prog
    BY <1>2 DEF Next, ParentStep, ChildStep, SignalStep, SetHandler, MakePipe,
       Fork, ForkFails, Wait, Read, Close, NotePpid, LeaveLoop, Return, Exec,
       Write, Wake, Report, CtrlC, Handle, Interrupted, Kill, Die, Goto
  <2> SUFFICES ASSUME prog \in Piped, NEW c \in Children
               PROVE  /\ pc'[c] \in {"none", "write", "sleep", "flag", "close",
                                     "exit", "killed"}
                      /\ pc'[c] \in {"sleep", "flag", "close", "exit"} =>
                           Has(got' \o pipe', c)
    BY <2>1 DEF SentInv
  <2>2. Write(c) => Has(got' \o pipe', c)
    <3>1. got \in Seq(Children) /\ pipe \in Seq(Children)
      BY DEF IInv, MessageInv
    <3> DEFINE q == got \o pipe
               r == got \o Append(pipe, c)
    <3>2. Len(q) \in Nat /\ Len(r) = Len(q) + 1 /\ r[Len(q) + 1] = c
      BY <3>1, WriteAdds
    <3>3. Write(c) => got' \o pipe' = r
      BY DEF Write
    <3> HIDE DEF q, r
    <3>4. Has(r, c)
      BY <3>2 DEF Has
    <3> QED BY <3>3, <3>4
  <2>3. Has(got \o pipe, c) => Has(got' \o pipe', c)
    BY <1>2, MessagesStay
  <2> QED BY <1>2, <2>2, <2>3, ChildMoves DEF SentInv
<1> QED BY <1>1, <1>2

LEMMA SentInvariance == Spec => []SentInv
<1>1. Init => SentInv
  BY Family DEF Init, SentInv, Proc
<1> QED BY <1>1, SentStep, Invariance, PTL DEF Spec

(* Whatever is signalled or killed, there are never more than two messages *)
(* on the way, and wait returns only children that have ended.             *)
THEOREM TypeCorrect == Spec => []TypeOK
<1> QED BY Invariance, PTL DEF IInv

(* The two reads of the parent return the two messages, one each; no child *)
(* that could still write is left when it reads, and it waits for ever in  *)
(* read only if a child was killed before it wrote.                        *)
THEOREM ParentReadsBoth == Spec => []BothMessages
<1>1. IInv /\ SentInv => BothMessages
  <2> SUFFICES ASSUME IInv, SentInv PROVE BothMessages
    OBVIOUS
  <2> USE DEF IInv
  <2>1. ASSUME pc[Parent] = "close" PROVE ToSet(got) = Children
    <3>1. Len(got) = 2 /\ got \in Seq(Children) /\ pipe \in Seq(Children)
      BY <2>1 DEF ReadInv, MessageInv
    <3>2. DOMAIN got = {1, 2} /\ got[1] \in Children /\ got[2] \in Children
      BY <3>1, ShortSequences
    <3>3. got[1] # got[2]
      <4>1. /\ 1 \in 1 .. Len(got \o pipe) /\ 2 \in 1 .. Len(got \o pipe)
            /\ (got \o pipe)[1] = got[1] /\ (got \o pipe)[2] = got[2]
        BY <3>1, ShortSequences
      <4> QED BY <4>1 DEF MessageInv, Distinct
    <3>4. ToSet(got) = {got[1], got[2]}
      BY <3>2 DEF ToSet
    <3> QED BY <3>2, <3>3, <3>4 DEF Children
  <2>2. pc[Parent] = "read" => \A c \in Children : Ended(c)
    BY DEF ParentInv, TypeOK
  <2>3. ASSUME pc[Parent] = "read", pipe = <<>> PROVE Unsent
    <3>1. /\ got \in Seq(Children) /\ Len(got) <= 1 /\ Len(got) \in Nat
          /\ got \o pipe = got
      BY <2>3, LenProperties, ConcatEmptySeq DEF ReadInv, MessageInv
    <3>2. PICK c \in Children : ~Has(got, c)
      <4>1. \A j, k \in 1 .. Len(got) : j = k
        BY <3>1
      <4> QED BY <4>1 DEF Has, Children
    <3>3. c \notin ToSet(got)
      <4>1. DOMAIN got = 1 .. Len(got)
        BY <3>1, LenProperties
      <4> QED BY <3>2, <4>1 DEF ToSet, Has
    <3>4. prog \in Piped /\ pc[c] \in {"exit", "killed"}
      BY <2>2, <2>3 DEF ParentInv, Ended
    <3>5. pc[c] = "killed"
      BY <3>1, <3>2, <3>4 DEF SentInv
    <3> QED BY <3>1, <3>3, <3>5 DEF Unsent
  <2> QED BY <2>1, <2>2, <2>3 DEF BothMessages
<1> QED BY <1>1, Invariance, SentInvariance, PTL
=============================================================================
