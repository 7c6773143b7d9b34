---------------------------- MODULE Daemon_proofs -----------------------------
(***************************************************************************)
(* Proofs about Daemon, for any number of starts of the program.           *)
(***************************************************************************)
EXTENDS Daemon, TLAPS

(* The two calls after pthread_sigmask are those made with all signals     *)
(* blocked.                                                                *)
MaskInv == \A p \in Daemons : masked[p] <=> pc[p] \in {"create", "serve"}

IInv == TypeOK /\ OneDaemon /\ FileNamesNoOther /\ MaskInv

(* No process is NoOne, and the contents of the lock file can be told      *)
(* apart.                                                                  *)
LEMMA Names ==
  ASSUME NEW p \in Daemons
  PROVE  p # NoOne /\ p # Empty /\ p # Absent
BY NamesAssumption

(* sigwait returns a signal that is pending.                               *)
LEMMA LowestIsPending ==
  ASSUME NEW S \in SUBSET Signals, S # {}
  PROVE  Lowest(S) \in S
<1> DEFINE Low(s) == s \in S /\ \A t \in S : s <= t
<1>0. \A t \in S : t = 1 \/ t = 10 \/ t = 15
  BY DEF Signals, HUP, TERM, USR1
<1>1. \E s : Low(s)
  <2>1. CASE 1 \in S
    BY <2>1, <1>0
  <2>2. CASE 1 \notin S /\ 10 \in S
    BY <2>2, <1>0
  <2>3. CASE 1 \notin S /\ 10 \notin S
    <3>1. 15 \in S
      BY <2>3, <1>0
    <3> QED BY <2>3, <3>1, <1>0
  <2> QED BY <2>1, <2>2, <2>3
<1> QED BY <1>1 DEF Lowest

LEMMA InitInv == Init => IInv
BY NamesAssumption
   DEF Init, IInv, TypeOK, OneDaemon, FileNamesNoOther, MaskInv, Starting,
       Locked, Ended

LEMMA NextInv == IInv /\ [Next]_vars => IInv'
<1> SUFFICES ASSUME IInv, [Next]_vars PROVE IInv'
  OBVIOUS
<1> USE DEF IInv, Starting, Locked, Ended
<1>0. CASE UNCHANGED vars
  BY <1>0 DEF TypeOK, OneDaemon, FileNamesNoOther, MaskInv, vars, sigVars
<1> SUFFICES ASSUME NEW p \in Daemons,
                    \/ Start(p) \/ Step(p) \/ Fails(p)
                    \/ \E s \in Signals : Signal(p, s)
                    \/ Kill(p)
             PROVE  IInv'
  BY <1>0 DEF Next
(* The end of a process, whatever it was doing.                            *)
<1>e. ASSUME NEW how \in Ended, End(p, how), Live(p) PROVE IInv'
  <2>1. TypeOK'
    BY <1>e DEF End, TypeOK, Signals
  <2>2. OneDaemon'
    BY <1>e, Names DEF End, OneDaemon, TypeOK
  <2>3. FileNamesNoOther' /\ MaskInv'
    BY <1>e DEF End, FileNamesNoOther, MaskInv, TypeOK
  <2> QED BY <2>1, <2>2, <2>3
(* A call that does not touch the lock, its file, the mask or the signals. *)
<1>q. ASSUME NEW from, NEW to,
             Goto(p, from, to),
             \/ from \in {"off"} \cup Starting /\ to \in Starting
             \/ from = "default" /\ to = "mask"
             \/ from = "create" /\ to = "serve",
             hup' \in [Daemons -> {"default", "ignore"}],
             UNCHANGED <<sigVars, lock, file>>
      PROVE  IInv'
  <2>1. TypeOK'
    BY <1>q DEF Goto, TypeOK, sigVars
  <2>2. OneDaemon' /\ FileNamesNoOther' /\ MaskInv'
    BY <1>q DEF Goto, OneDaemon, FileNamesNoOther, MaskInv, TypeOK, sigVars
  <2> QED BY <2>1, <2>2
<1>1. CASE Start(p)
  BY <1>1, <1>q DEF Start, TypeOK
<1>2. CASE Fork(p)
  BY <1>2, <1>q DEF Fork, TypeOK
<1>4. CASE Ignore(p)
  BY <1>4, <1>q DEF Ignore, TypeOK
<1>5. CASE Files(p)
  BY <1>5, <1>q DEF Files, TypeOK
<1>6. CASE Open(p)
  <2>1. TypeOK'
    BY <1>6 DEF Open, Goto, TypeOK, sigVars
  <2>2. OneDaemon' /\ MaskInv'
    BY <1>6 DEF Open, Goto, OneDaemon, MaskInv, TypeOK, sigVars
  <2>3. FileNamesNoOther'
    BY <1>6, Names DEF Open, Goto, FileNamesNoOther, TypeOK
  <2> QED BY <2>1, <2>2, <2>3
<1>7. CASE LockFile(p)
  <2>1. TypeOK' /\ MaskInv'
    BY <1>7 DEF LockFile, Goto, TypeOK, MaskInv, sigVars
  <2>2. OneDaemon' /\ FileNamesNoOther'
    BY <1>7, Names
    DEF LockFile, Granted, Goto, OneDaemon, FileNamesNoOther, TypeOK
  <2> QED BY <2>1, <2>2
<1>8. CASE AlreadyRunning(p)
  BY <1>8, <1>e DEF AlreadyRunning, Live
<1>9. CASE Truncate(p)
  <2>1. TypeOK' /\ MaskInv'
    BY <1>9 DEF Truncate, Goto, TypeOK, MaskInv, sigVars
  <2>2. OneDaemon' /\ FileNamesNoOther'
    BY <1>9 DEF Truncate, Goto, OneDaemon, FileNamesNoOther, TypeOK
  <2> QED BY <2>1, <2>2
<1>10. CASE Write(p)
  <2>1. TypeOK' /\ MaskInv'
    BY <1>10 DEF Write, Goto, TypeOK, MaskInv, sigVars
  <2>2. OneDaemon'
    BY <1>10 DEF Write, Goto, OneDaemon, TypeOK
  <2>3. \A q \in Daemons \ {p} : pc[q] \notin Locked
    BY <1>10 DEF Write, Goto, OneDaemon
  <2>4. FileNamesNoOther'
    BY <1>10, <2>3 DEF Write, Goto, FileNamesNoOther, TypeOK
  <2> QED BY <2>1, <2>2, <2>4
<1>11. CASE Default(p)
  BY <1>11, <1>q DEF Default, TypeOK
<1>12. CASE Mask(p)
  <2>1. TypeOK' /\ MaskInv'
    BY <1>12 DEF Mask, Goto, TypeOK, MaskInv
  <2>2. OneDaemon' /\ FileNamesNoOther'
    BY <1>12 DEF Mask, Goto, OneDaemon, FileNamesNoOther, TypeOK
  <2> QED BY <2>1, <2>2
<1>13. CASE Create(p)
  BY <1>13, <1>q DEF Create, TypeOK
<1>14. CASE Fails(p)
  BY <1>14, <1>e DEF Fails, Live
<1>15. CASE SigWait(p)
  <2>1. Lowest(pending[p]) \in Signals
    BY <1>15, LowestIsPending DEF SigWait, TypeOK
  <2>2. TypeOK'
    BY <1>15, <2>1 DEF SigWait, TypeOK
  <2>3. OneDaemon' /\ FileNamesNoOther' /\ MaskInv'
    BY <1>15 DEF SigWait, OneDaemon, FileNamesNoOther, MaskInv
  <2> QED BY <2>2, <2>3
<1>16. CASE Log(p)
  BY <1>16 DEF Log, TypeOK, OneDaemon, FileNamesNoOther, MaskInv
<1>17. CASE Terminate(p)
  BY <1>17, <1>e DEF Terminate, Live
<1>18. ASSUME NEW s \in Signals, Signal(p, s) PROVE IInv'
  <2>1. CASE End(p, "killed") /\ Live(p)
    BY <2>1, <1>e
  <2>2. CASE /\ Live(p) /\ masked[p]
             /\ pending' = [pending EXCEPT ![p] = @ \cup {s}]
             /\ UNCHANGED <<pc, hup, masked, signo, lock, file>>
    BY <2>2 DEF TypeOK, OneDaemon, FileNamesNoOther, MaskInv
  <2> QED BY <1>18, <2>1, <2>2 DEF Signal
<1>19. CASE Kill(p)
  BY <1>19, <1>e DEF Kill
<1> QED
  BY <1>1, <1>2, <1>4, <1>5, <1>6, <1>7, <1>8, <1>9, <1>10, <1>11,
     <1>12, <1>13, <1>14, <1>15, <1>16, <1>17, <1>18, <1>19 DEF Step

LEMMA Invariance == Spec => []IInv
<1> QED BY InitInv, NextInv, PTL DEF Spec

(* The state keeps its types; only a process that has blocked its signals  *)
(* has some pending, and only a serving one deals with one.                *)
THEOREM TypeCorrect == Spec => []TypeOK
<1> QED BY Invariance, PTL DEF IInv

(* However many times the program is started, at most one process gets     *)
(* past already_running, and the lock never outlives it.                   *)
THEOREM SingleDaemon == Spec => []OneDaemon
<1> QED BY Invariance, PTL DEF IInv

(* From ftruncate on, the lock file names the daemon or nobody.            *)
THEOREM FileIsCurrent == Spec => []FileNamesNoOther
<1> QED BY Invariance, PTL DEF IInv

(* The id a daemon wrote stays in the file as long as the daemon has the   *)
(* lock, whatever the programs do that are started meanwhile.              *)
THEOREM IdStays == Spec => IdStaysInFile
<1> DEFINE Kept(p) == file = p /\ pc'[p] \in Locked \ {"truncate", "write"}
                        => file' = p
<1>1. ASSUME IInv, [Next]_vars, NEW p \in Daemons PROVE Kept(p)
  <2> SUFFICES ASSUME file = p, pc'[p] \in Locked \ {"truncate", "write"},
                      file' # p
               PROVE  FALSE
    OBVIOUS
  <2>1. PICK q \in Daemons : Open(q) \/ Truncate(q) \/ Write(q)
    BY <1>1
    DEF Next, vars, Start, Step, Fails, Signal, Kill, Fork, Ignore,
        Files, LockFile, AlreadyRunning, Default, Mask, Create, SigWait, Log,
        Terminate, End
  <2>2. ~Open(q)
    BY Names DEF Open
  <2>3. pc[q] \in {"truncate", "write"} /\ pc'[q] \in {"write", "default"}
    BY <1>1, <2>1, <2>2 DEF Truncate, Write, Goto, IInv, TypeOK
  <2>4. q # p
    BY <1>1, <2>1, <2>2 DEF Truncate, Write, Goto, IInv, TypeOK
  <2>5. pc[p] \in Locked
    BY <1>1, <2>1, <2>2, <2>4 DEF Truncate, Write, Goto, IInv, TypeOK
  <2> QED BY <1>1, <2>3, <2>4, <2>5 DEF IInv, OneDaemon, Locked
<1>2. IInv /\ [Next]_vars => [\A p \in Daemons : Kept(p)]_vars
  BY <1>1
<1> QED BY <1>2, Invariance, PTL DEF Spec, IdStaysInFile

(* Once the signals are blocked, none of them kills the daemon.            *)
THEOREM SignalsHarmless == Spec => SignalsDoNotKill
<1>1. ASSUME IInv, [Next]_vars, NEW p \in Daemons,
             pc[p] \in {"create", "serve"}
      PROVE  pc'[p] # "killed"
  <2> SUFFICES ASSUME pc'[p] = "killed" PROVE FALSE
    OBVIOUS
  <2>1. masked[p]
    BY <1>1 DEF IInv, MaskInv
  <2>2. PICK q \in Daemons, s \in Signals : Signal(q, s) /\ ~masked[q]
    BY <1>1
    DEF Next, vars, Start, Step, Fails, Signal, Kill, Fork, Ignore,
        Files, Open, LockFile, AlreadyRunning, Truncate, Write, Default, Mask,
        Create, SigWait, Log, Terminate, End, Goto, IInv, TypeOK
  <2> QED BY <1>1, <2>1, <2>2 DEF Signal, End, IInv, TypeOK
<1>2. IInv /\ [Next]_vars
        => [\A p \in Daemons :
              pc[p] \in {"create", "serve"} => pc'[p] # "killed"]_vars
  BY <1>1
<1> QED BY <1>2, Invariance, PTL DEF Spec, SignalsDoNotKill
=============================================================================
