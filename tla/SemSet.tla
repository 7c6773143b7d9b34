------------------------------- MODULE SemSet -------------------------------
(***************************************************************************)
(* A System V semaphore set, as the programs of sem_5/lab3_1 and           *)
(* sem_5/lab3_2 use it.  The kernel is not part of the repository: this    *)
(* module is the part of semop(2), semctl(2) and process exit that those   *)
(* programs rely on.                                                       *)
(*                                                                         *)
(* Every sembuf of the two programs changes its semaphore by +1 or -1, or  *)
(* waits for it to be zero, and every one carries SEM_UNDO.  An array of   *)
(* sembufs is the record [zero, dec, inc] of the semaphores it tests for   *)
(* zero, decrements and increments; semop applies it all or not at all.    *)
(***************************************************************************)
EXTENDS Integers

CONSTANTS
  Sem,    (* the semaphores of the set                                *)
  Proc,   (* the processes that operate on it                         *)
  SEMVMX, (* largest value of a semaphore (32767 on Linux)            *)
  SEMAEM  (* largest undo adjustment of a process (32767 on Linux)    *)

VARIABLES
  semval, (* semval[s]: the value of semaphore s                      *)
  semadj  (* semadj[p][s]: what the exit of p adds to semaphore s     *)

Delta(ops, s) ==
  IF s \in ops.inc THEN 1 ELSE IF s \in ops.dec THEN -1 ELSE 0

(* The kernel would put the caller to sleep, or answer EAGAIN.             *)
Blocks(ops) ==
  \/ \E s \in ops.zero : semval[s] # 0
  \/ \E s \in ops.dec : semval[s] = 0

(* ERANGE.  The kernel evaluates an array from its first sembuf on; in the *)
(* arrays of the two programs only the first one can leave the range, so   *)
(* that it does not itself block is all that has to come before.           *)
OutOfRange(p, ops) ==
  \E s \in ops.dec \cup ops.inc :
    /\ s \in ops.dec => semval[s] > 0
    /\ \/ semval[s] + Delta(ops, s) > SEMVMX
       \/ semadj[p][s] - Delta(ops, s) < -SEMAEM - 1
       \/ semadj[p][s] - Delta(ops, s) > SEMAEM

(* semop(2) returns 0 and has done the whole array.                        *)
Semop(p, ops) ==
  /\ ~Blocks(ops)
  /\ ~OutOfRange(p, ops)
  /\ semval' = [s \in Sem |-> semval[s] + Delta(ops, s)]
  /\ semadj' = [semadj EXCEPT
                  ![p] = [s \in Sem |-> semadj[p][s] - Delta(ops, s)]]

(* semctl(SETVAL) also forgets every process's adjustment of s.            *)
SetVal(s, v) ==
  /\ semval' = [semval EXCEPT ![s] = v]
  /\ semadj' = [q \in Proc |-> [semadj[q] EXCEPT ![s] = 0]]

Clamp(v) == IF v < 0 THEN 0 ELSE IF v > SEMVMX THEN SEMVMX ELSE v

(* The exit of p, by exit(3) or by a signal: its adjustments are applied.  *)
ExitUndo(p) ==
  /\ semval' = [s \in Sem |-> Clamp(semval[s] + semadj[p][s])]
  /\ semadj' = [semadj EXCEPT ![p] = [s \in Sem |-> 0]]

NoUndo == [p \in Proc |-> [s \in Sem |-> 0]]
=============================================================================
