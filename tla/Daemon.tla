------------------------------- MODULE Daemon ---------------------------------
(***************************************************************************)
(* sem_6/lab1/main.c: a program that makes itself a daemon, takes the lock *)
(* on /var/run/daemon.pid, writes its process id there and then lets one   *)
(* thread take all signals with sigwait.  The program is started any       *)
(* number of times; anyone may send signals to it.                         *)
(*                                                                         *)
(* pc[p] is the call that the p-th start of the program makes next.  The   *)
(* parent, which exits right after the fork, keeps no state.               *)
(*                                                                         *)
(* An operator that is named after another one, with a suffix, and that    *)
(* Next does not use is a fault the properties are known to catch.         *)
(***************************************************************************)
EXTENDS Integers, FiniteSets

CONSTANT Daemons   (* the starts of the program *)

HUP == 1
TERM == 15
USR1 == 10         (* SIGUSR1, for every signal thr_fn has no case for      *)
Signals == {HUP, USR1, TERM}

NoSignal == 0
NoOne == "no one"  (* nobody holds the lock                                 *)
Empty == "empty"   (* the lock file exists, with nothing in it              *)
Absent == "absent" (* there is no lock file                                 *)

ASSUME NamesAssumption == {NoOne, Empty, Absent} \cap Daemons = {}

VARIABLES
  pc,        (* pc[p]: where p is                                           *)
  hup,       (* hup[p]: what SIGHUP does to p                               *)
  masked,    (* masked[p]: all signals are blocked                          *)
  pending,   (* pending[p]: the blocked signals that came                   *)
  signo,     (* signo[p]: the signal the thread deals with                  *)
  lock,      (* the kernel's: who has the write lock on LOCKFILE            *)
  file       (* LOCKFILE: whose process id it holds                         *)

sigVars == <<masked, pending, signo>>
vars == <<pc, hup, sigVars, lock, file>>

Starting == {"fork", "ignore", "files", "open", "lock"}
Locked == {"truncate", "write", "default", "mask", "create", "serve"}
Ended == {"gone", "killed"}   (* killed: by a signal it had not blocked     *)

Live(p) == pc[p] \in Starting \cup Locked

Init ==
  /\ pc = [p \in Daemons |-> "off"]
  /\ hup = [p \in Daemons |-> "default"]
  /\ masked = [p \in Daemons |-> FALSE]
  /\ pending = [p \in Daemons |-> {}]
  /\ signo = [p \in Daemons |-> NoSignal]
  /\ lock = NoOne
  /\ file \in {Absent, Empty}

(* The end of a process: the kernel drops its lock and its signals, and    *)
(* what was set for the process is gone with it.                           *)
End(p, how) ==
  /\ pc' = [pc EXCEPT ![p] = how]
  /\ pending' = [pending EXCEPT ![p] = {}]
  /\ signo' = [signo EXCEPT ![p] = NoSignal]
  /\ hup' = [hup EXCEPT ![p] = "default"]
  /\ masked' = [masked EXCEPT ![p] = FALSE]
  /\ lock' = IF lock = p THEN NoOne ELSE lock
  /\ UNCHANGED file

Goto(p, from, to) == pc[p] = from /\ pc' = [pc EXCEPT ![p] = to]

-----------------------------------------------------------------------------
(* deamonize                                                               *)

Start(p) ==
  /\ Goto(p, "off", "fork")
  /\ UNCHANGED <<hup, sigVars, lock, file>>

(* The process that goes on is the child; the parent ends at once.  If     *)
(* fork fails that is only reported: the program goes on in the process it *)
(* was started in, whose setsid may fail too.                              *)
Fork(p) ==
  /\ Goto(p, "fork", "ignore")
  /\ UNCHANGED <<hup, sigVars, lock, file>>

Ignore(p) ==
  /\ Goto(p, "ignore", "files")
  /\ hup' = [hup EXCEPT ![p] = "ignore"]
  /\ UNCHANGED <<sigVars, lock, file>>

(* chdir, the closing of all descriptors and the three of /dev/null.       *)
Files(p) ==
  /\ Goto(p, "files", "open")
  /\ UNCHANGED <<hup, sigVars, lock, file>>

-----------------------------------------------------------------------------
(* already_running                                                         *)

Open_truncates(p) ==
  /\ Goto(p, "open", "lock")
  /\ file' = Empty
  /\ UNCHANGED <<hup, sigVars, lock>>

Open(p) ==
  /\ Goto(p, "open", "lock")
  /\ file' = IF file = Absent THEN Empty ELSE file
  /\ UNCHANGED <<hup, sigVars, lock>>

Granted_shared(p) == TRUE
Granted(p) == lock = NoOne

LockFile(p) ==
  /\ Granted(p)
  /\ Goto(p, "lock", "truncate")
  /\ lock' = p
  /\ UNCHANGED <<hup, sigVars, file>>

AlreadyRunning_waits(p) == FALSE /\ UNCHANGED vars

AlreadyRunning(p) ==
  /\ pc[p] = "lock" /\ ~Granted(p)
  /\ End(p, "gone")

Truncate_not(p) ==
  /\ Goto(p, "truncate", "write")
  /\ UNCHANGED <<hup, sigVars, lock, file>>

Truncate(p) ==
  /\ Goto(p, "truncate", "write")
  /\ file' = Empty
  /\ UNCHANGED <<hup, sigVars, lock>>

(* Nobody looks at what write returns.                                     *)
Write(p) ==
  /\ Goto(p, "write", "default")
  /\ file' \in {file, p}
  /\ UNCHANGED <<hup, sigVars, lock>>

-----------------------------------------------------------------------------
(* main, after already_running                                             *)

Default(p) ==
  /\ Goto(p, "default", "mask")
  /\ hup' = [hup EXCEPT ![p] = "default"]
  /\ UNCHANGED <<sigVars, lock, file>>

Mask(p) ==
  /\ Goto(p, "mask", "create")
  /\ masked' = [masked EXCEPT ![p] = TRUE]
  /\ UNCHANGED <<hup, pending, signo, lock, file>>

(* The thread inherits the mask; main only waits for it in pthread_join.   *)
Create(p) ==
  /\ Goto(p, "create", "serve")
  /\ UNCHANGED <<hup, sigVars, lock, file>>

(* An error that ends the program: the descriptors are not 0, 1 and 2,     *)
(* open, fcntl, sigaction, pthread_sigmask, pthread_create, sigwait or     *)
(* pthread_join fails.                                                     *)
Fails(p) ==
  /\ pc[p] \in {"files", "open", "lock", "default", "mask", "create", "serve"}
  /\ End(p, "gone")

-----------------------------------------------------------------------------
(* thr_fn: sigwait takes the pending signal with the lowest number.        *)

Lowest(S) == CHOOSE s \in S : \A t \in S : s <= t

SigWait(p) ==
  /\ pc[p] = "serve" /\ signo[p] = NoSignal /\ pending[p] # {}
  /\ signo' = [signo EXCEPT ![p] = Lowest(pending[p])]
  /\ pending' = [pending EXCEPT ![p] = @ \ {Lowest(pending[p])}]
  /\ UNCHANGED <<pc, hup, masked, lock, file>>

(* SIGHUP and the unknown signals are written to the log.                  *)
Log(p) ==
  /\ pc[p] = "serve" /\ signo[p] \in {HUP, USR1}
  /\ signo' = [signo EXCEPT ![p] = NoSignal]
  /\ UNCHANGED <<pc, hup, masked, pending, lock, file>>

Terminate_goes_on(p) ==
  /\ pc[p] = "serve" /\ signo[p] = TERM
  /\ signo' = [signo EXCEPT ![p] = NoSignal]
  /\ UNCHANGED <<pc, hup, masked, pending, lock, file>>

Terminate(p) ==
  /\ pc[p] = "serve" /\ signo[p] = TERM
  /\ End(p, "gone")

-----------------------------------------------------------------------------
(* The kernel: a signal that is blocked waits; one that is neither blocked *)
(* nor ignored ends the process, and SIGKILL always does.                  *)

Signal(p, s) ==
  /\ Live(p)
  /\ \/ /\ masked[p]
        /\ pending' = [pending EXCEPT ![p] = @ \cup {s}]
        /\ UNCHANGED <<pc, hup, masked, signo, lock, file>>
     \/ /\ ~masked[p] /\ (s = HUP => hup[p] = "default")
        /\ End(p, "killed")

Kill(p) ==
  /\ Live(p)
  /\ End(p, "gone")

Step(p) ==
  \/ Fork(p) \/ Ignore(p) \/ Files(p)
  \/ Open(p) \/ LockFile(p) \/ AlreadyRunning(p) \/ Truncate(p) \/ Write(p)
  \/ Default(p) \/ Mask(p) \/ Create(p)
  \/ SigWait(p) \/ Log(p) \/ Terminate(p)

Next ==
  \E p \in Daemons :
    \/ Start(p)
    \/ Step(p)
    \/ Fails(p)
    \/ \E s \in Signals : Signal(p, s)
    \/ Kill(p)

(* A process that can run is scheduled; nothing makes it be started, fail  *)
(* or be sent a signal.                                                    *)
Spec == Init /\ [][Next]_vars /\ \A p \in Daemons : WF_vars(Step(p))

-----------------------------------------------------------------------------
(* Properties                                                              *)

TypeOK ==
  /\ pc \in [Daemons -> {"off"} \cup Starting \cup Locked \cup Ended]
  /\ hup \in [Daemons -> {"default", "ignore"}]
  /\ masked \in [Daemons -> BOOLEAN]
  /\ pending \in [Daemons -> SUBSET Signals]
  /\ signo \in [Daemons -> {NoSignal} \cup Signals]
  /\ \A p \in Daemons :
       /\ pending[p] # {} => masked[p]
       /\ signo[p] # NoSignal => pc[p] = "serve"
  /\ lock \in Daemons \cup {NoOne}
  /\ file \in Daemons \cup {Absent, Empty}

(* However the starts of the program and the ends of its processes fall    *)
(* together, the process that got past already_running is the one that     *)
(* holds the lock: there is at most one, and the lock does not outlive it. *)
OneDaemon ==
  \A p \in Daemons : pc[p] \in Locked <=> lock = p

(* Once a daemon has emptied the lock file, it never names a process that  *)
(* ran before, even if the write of its own id failed.                     *)
FileNamesNoOther ==
  \A p \in Daemons :
    pc[p] \in Locked \ {"truncate"} => file \in {p, Empty}

(* A program that finds the daemon running leaves its id in the lock file  *)
(* alone, although it has opened the file before it knows.                 *)
IdStaysInFile ==
  [][\A p \in Daemons : file = p /\ pc'[p] \in Locked \ {"truncate", "write"}
       => file' = p]_vars

(* No signal kills a daemon that has come as far as creating its thread:   *)
(* it ends when the thread takes a SIGTERM, with SIGKILL, or by failing.   *)
SignalsDoNotKill ==
  [][\A p \in Daemons :
       pc[p] \in {"create", "serve"} => pc'[p] # "killed"]_vars

(* A program that is started becomes the daemon or ends: it never waits    *)
(* for the lock.                                                           *)
NeverWaits ==
  \A p \in Daemons : pc[p] = "fork" ~> pc[p] \in {"serve"} \cup Ended

(* SIGTERM ends the daemon, unless signals with a lower number keep coming *)
(* for ever.                                                               *)
TermEnds ==
  \A p \in Daemons :
    \/ pc[p] = "serve" /\ TERM \in pending[p] ~> pc[p] \in Ended
    \/ []<>(pending[p] \cap {HUP, USR1} # {})
=============================================================================
