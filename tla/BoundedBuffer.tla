---------------------------- MODULE BoundedBuffer ----------------------------
(***************************************************************************)
(* What the producers and consumers of sem_5/lab3_1 promise together: the  *)
(* letters go round the alphabet, each one is put into a queue of bounded  *)
(* length exactly once and taken out of it exactly once, in order.         *)
(***************************************************************************)
EXTENDS Integers, Sequences

CONSTANTS
  Capacity, (* the most letters the queue holds  *)
  Letters   (* letters are 1 .. Letters          *)

VARIABLES
  queue,    (* letters put and not yet taken     *)
  next,     (* the letter the next Put puts      *)
  taken     (* the letter taken last             *)

bufferVars == <<queue, next, taken>>

Succ(c) == IF c >= Letters THEN 1 ELSE c + 1

Init ==
  /\ queue = <<>>
  /\ next = 1
  /\ taken = Letters

Put ==
  /\ Len(queue) < Capacity
  /\ queue' = Append(queue, next)
  /\ next' = Succ(next)
  /\ UNCHANGED taken

Get ==
  /\ queue # <<>>
  /\ taken' = Head(queue)
  /\ queue' = Tail(queue)
  /\ UNCHANGED next

Next == Put \/ Get

Spec == Init /\ [][Next]_bufferVars
=============================================================================
