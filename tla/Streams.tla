------------------------------- MODULE Streams --------------------------------
(***************************************************************************)
(* sem_6/lab5: six programs that read or write one file in two ways at     *)
(* once, each in a version with one thread and in one with two.            *)
(*   main1, th1  read alph.txt through two FILEs made from one descriptor  *)
(*   main2, th2  read alph.txt with read through two descriptors           *)
(*   main3, th3  write every other letter of the alphabet to out.txt       *)
(*               through two FILEs, each with a descriptor of its own      *)
(*                                                                         *)
(* Side 1 is fs1, fd1 and main, side 2 is fs2, fd2 and thread_f.  In the   *)
(* versions with one thread turn says which side's statement comes next.   *)
(* A letter is its number in the alphabet.                                 *)
(*                                                                         *)
(* An operator that is named after another one, with a suffix, and that    *)
(* Next does not use is a fault the properties are known to catch.         *)
(***************************************************************************)
EXTENDS Integers, Sequences

CONSTANTS
  N,       (* the letters: 26                                               *)
  BufSize  (* what setvbuf gives a FILE that reads: 20                      *)

(* Each FILE that writes gets as many letters as the other.                *)
ASSUME SizesAssumption ==
  /\ N \in Nat /\ BufSize \in Nat
  /\ N % 2 = 0 /\ BufSize < N /\ N <= 2 * BufSize

Sides == {1, 2}
Other(t) == 3 - t

Programs == {"main1", "th1", "main2", "th2", "main3", "th3"}
Threaded == {"th1", "th2", "th3"}
Writing == {"main3", "th3"}
Shared == {"main1", "th1"}      (* one descriptor, so one offset            *)

VARIABLES
  prog,     (* the program that was started                                 *)
  pc,       (* pc[t]: what side t does next                                 *)
  turn,
  offset,   (* offset[d]: how much was read through descriptor d            *)
  buff,     (* buff[t]: the letters in the FILE's buffer, or in c1 and c2   *)
  i,        (* i[t]: the next letter that a FILE which writes gets          *)
  out,      (* what has been printed: which letter, by which side           *)
  file      (* what out.txt holds                                           *)

vars == <<prog, pc, turn, offset, buff, i, out, file>>

Letters(from, to) == [k \in 1 .. to - from + 1 |-> from + k - 1]
Fd(t) == IF prog \in Shared THEN 1 ELSE t

Init ==
  /\ prog \in Programs
  /\ pc = [t \in Sides |-> IF prog \notin Threaded THEN "open"
                           ELSE IF t = 2 THEN "none"
                           ELSE IF prog = "th1" THEN "open" ELSE "create"]
  /\ turn = 1
  /\ offset = [d \in Sides |-> 0]
  /\ buff = [t \in Sides |-> <<>>]
  /\ i = [t \in Sides |-> t]
  /\ out = <<>> /\ file = <<>>

May(t, from) == pc[t] = from /\ (prog \in Threaded \/ turn = t)

(* Side t has done its statement, and the other side has the next one.     *)
Pass(t, from, to) ==
  /\ May(t, from)
  /\ pc' = [pc EXCEPT ![t] = to]
  /\ turn' = IF pc[Other(t)] = "done" THEN t ELSE Other(t)
  /\ UNCHANGED prog

-----------------------------------------------------------------------------
(* Opening                                                                 *)

(* open, or fopen, which makes the file empty; for side 2 of the programs  *)
(* with one descriptor only fdopen.                                        *)
Open(t) ==
  /\ Pass(t, "open", IF prog = "th1" /\ t = 1 THEN "create"
                     ELSE IF prog \in Writing THEN "put" ELSE "get")
  /\ file' = IF prog \in Writing THEN <<>> ELSE file
  /\ UNCHANGED <<offset, buff, i, out>>

CreateThread ==
  /\ pc[1] = "create"
  /\ pc' = <<IF prog = "th1" THEN "get" ELSE "open", "open">>
  /\ UNCHANGED <<prog, turn, offset, buff, i, out, file>>

(* A FILE writes when it is closed, from the start of the file: what       *)
(* another one has put there is overwritten as far as the letters go.      *)
Flushed_at_end(t) == file \o buff[t]
Flushed(t) == buff[t] \o SubSeq(file, Len(buff[t]) + 1, Len(file))

(* main returns: the process ends with all its threads, and exit writes    *)
(* what is in the FILEs.                                                   *)
Return ==
  /\ pc' = [t \in Sides |-> "gone"]
  /\ file' = IF prog = "th3" /\ pc[2] \in {"put", "close"} THEN Flushed(2) ELSE file
  /\ UNCHANGED <<prog, turn, offset, buff, i, out>>

CreateFails == pc[1] = "create" /\ Return

OpenFails(t) ==
  /\ May(t, "open") /\ ~(prog \in Shared /\ t = 2)
  /\ prog \in Threaded => t = 1
  /\ Return

(* thread_f returns -1.                                                    *)
ThreadFails ==
  /\ prog \in {"th2", "th3"} /\ pc[2] = "open"
  /\ pc' = [pc EXCEPT ![2] = "failed"]
  /\ UNCHANGED <<prog, turn, offset, buff, i, out, file>>

-----------------------------------------------------------------------------
(* Reading: fscanf fills the buffer when it is empty; read takes a letter. *)

Block_past_end(d) == offset[d] + (IF prog \in Shared THEN BufSize ELSE 1)
Block(d) ==
  LET most == IF prog \in Shared THEN BufSize ELSE 1 IN
    IF offset[d] + most > N THEN N ELSE offset[d] + most

Fill(t) ==
  /\ May(t, "get") /\ buff[t] = <<>> /\ offset[Fd(t)] < N
  /\ buff' = [buff EXCEPT ![t] = Letters(offset[Fd(t)] + 1, Block(Fd(t)))]
  /\ offset' = [offset EXCEPT ![Fd(t)] = Block(Fd(t))]
  /\ IF prog \in Shared THEN UNCHANGED <<prog, pc, turn>> ELSE Pass(t, "get", "get")
  /\ UNCHANGED <<i, out, file>>

PutOut(t) ==
  /\ buff[t] # <<>>
  /\ Pass(t, "get", "get")
  /\ out' = Append(out, [by |-> t, letter |-> Head(buff[t])])
  /\ buff' = [buff EXCEPT ![t] = Tail(@)]
  /\ UNCHANGED <<offset, i, file>>

(* The side that is not at its end goes on alone.                          *)
AtEnd_other_too(t) ==
  /\ buff[t] = <<>> /\ offset[Fd(t)] = N
  /\ May(t, "get")
  /\ pc' = IF prog \in Threaded THEN [pc EXCEPT ![t] = "done"]
           ELSE [s \in Sides |-> "done"]
  /\ UNCHANGED <<prog, turn, offset, buff, i, out, file>>

AtEnd(t) ==
  /\ buff[t] = <<>> /\ offset[Fd(t)] = N
  /\ Pass(t, "get", "done")
  /\ UNCHANGED <<offset, buff, i, out, file>>

-----------------------------------------------------------------------------
(* Writing: the letters stay in the FILE's buffer, which is longer.        *)

Put(t) ==
  /\ Pass(t, "put", IF i[t] + 2 > N THEN "close" ELSE "put")
  /\ buff' = [buff EXCEPT ![t] = Append(@, i[t])]
  /\ i' = [i EXCEPT ![t] = @ + 2]
  /\ UNCHANGED <<offset, out, file>>

(* main3 closes fd2 first.                                                 *)
Close(t) ==
  /\ pc[t] = "close"
  /\ prog = "main3" /\ t = 1 => pc[2] = "done"
  /\ pc' = [pc EXCEPT ![t] = "done"]
  /\ file' = Flushed(t)
  /\ UNCHANGED <<prog, turn, offset, buff, i, out>>

Side(t) ==
  \/ Open(t) \/ OpenFails(t)
  \/ Fill(t) \/ PutOut(t) \/ AtEnd(t)
  \/ Put(t) \/ Close(t)

Next ==
  \/ CreateThread \/ CreateFails \/ ThreadFails
  \/ \E t \in Sides : Side(t)

Spec == Init /\ [][Next]_vars

-----------------------------------------------------------------------------
(* Properties                                                              *)

TypeOK ==
  /\ prog \in Programs
  /\ pc \in [Sides -> {"none", "create", "open", "get", "put", "close",
                       "done", "failed", "gone"}]
  /\ turn \in Sides
  /\ offset \in [Sides -> 0 .. N]
  /\ buff \in [Sides -> Seq(1 .. N)]
  /\ i \in [Sides -> 1 .. N + 2]
  /\ out \in Seq([by : Sides, letter : 1 .. N]) /\ Len(out) <= 2 * N
  /\ file \in Seq(1 .. N) /\ Len(file) <= N \div 2

Done == \A t \in Sides : pc[t] = "done"

(* Two FILEs on one descriptor share the file between them: each letter is *)
(* printed by one of them, by each in order, and at the end none is        *)
(* missing, whichever thread filled its buffer when.                       *)
InOrder ==
  \A j, k \in DOMAIN out :
    out[j].by = out[k].by /\ j < k => out[j].letter < out[k].letter

LettersShared ==
  prog \in Shared =>
    /\ InOrder
    /\ \A j, k \in DOMAIN out : out[j].letter = out[k].letter => j = k
    /\ Done => \A l \in 1 .. N : \E k \in DOMAIN out : out[k].letter = l

(* Two descriptors do not: each side prints the whole file in order, no    *)
(* letter before all smaller ones.                                         *)
LettersTwice ==
  prog \in {"main2", "th2"} =>
    /\ InOrder
    /\ \A k \in DOMAIN out : \A l \in 1 .. out[k].letter - 1 :
         \E j \in 1 .. k - 1 : out[j] = [by |-> out[k].by, letter |-> l]
    /\ \A t \in Sides : pc[t] = "done" =>
         \E k \in DOMAIN out : out[k] = [by |-> t, letter |-> N]

(* With one thread the order is known: in main1 the letters of the two     *)
(* buffers alternate, and the rest of fs1 follows; in main2 each letter    *)
(* comes twice.                                                            *)
OneThreadOrder ==
  /\ prog = "main1" => \A k \in DOMAIN out :
       out[k].letter = IF k > 2 * (N - BufSize) THEN k - (N - BufSize)
                       ELSE IF k % 2 = 1 THEN (k + 1) \div 2
                       ELSE BufSize + k \div 2
  /\ prog = "main2" => \A k \in DOMAIN out : out[k].letter = (k + 1) \div 2

(* So no letter of the file is lost, or printed by the wrong side, however *)
(* the sides take turns.                                                   *)
LettersPrinted == LettersShared /\ LettersTwice /\ OneThreadOrder

(* What the FILE that is closed last holds is all that out.txt has in the  *)
(* end; the letters of the two are never mixed.                            *)
Half(t) == [k \in 1 .. N \div 2 |-> 2 * k - 2 + t]

LastCloseWins ==
  /\ Done /\ prog = "main3" => file = Half(1)
  /\ Done /\ prog = "th3" => file \in {Half(1), Half(2)}
  /\ pc = <<"done", "failed">> /\ prog = "th3" => file = Half(1)
=============================================================================
