------------------------------ MODULE Processes -------------------------------
(***************************************************************************)
(* sem_5/lab2: five small programs, each a parent that forks two children. *)
(*   prog1  the children poll getppid until their parent has gone          *)
(*   wait   the parent waits for both                                      *)
(*   prog3  so it does, and each child executes another program            *)
(*   prog4  each child sends a message through a pipe, which the parent    *)
(*          reads after it has waited                                      *)
(*   prog5  as prog4, with a handler for SIGINT that sets send_flag; the   *)
(*          first child sleeps and then reports the flag                   *)
(*                                                                         *)
(* Whoever sits at the terminal may press Ctrl-C, which sends SIGINT to    *)
(* the parent and its children, and any process may be killed.  The calls  *)
(* wait and read go on after a signal that was caught (SA_RESTART, as      *)
(* signal() sets it); sleep ends early.                                    *)
(*                                                                         *)
(* An operator that is named after another one, with a suffix, and that    *)
(* Next does not use is a fault the properties are known to catch.         *)
(***************************************************************************)
EXTENDS Naturals, Sequences, SequencesExt

CONSTANTS
  MaxSignals,   (* bound: how often Ctrl-C is pressed                       *)
  MaxKills      (* bound: processes that are killed otherwise               *)

ASSUME BoundsAssumption == MaxSignals \in Nat /\ MaxKills \in Nat

Parent == 0
Children == {1, 2}
Proc == {Parent} \cup Children
Programs == {"prog1", "wait", "prog3", "prog4", "prog5"}
Piped == {"prog4", "prog5"}

VARIABLES
  prog,       (* the program that was started                               *)
  pc,         (* pc[p]: the call that process p makes next                  *)
  PPID,       (* PPID[c]: the parent's id, as a child of prog1 knows it     *)
  send_flag,  (* send_flag[p]: a copy of its own in every process           *)
  pipe,       (* the messages in the pipe, named by the child               *)
  got,        (* what the parent has read from it                           *)
  reaped,     (* the children that wait has returned                        *)
  pending,    (* pending[p]: a SIGINT has been sent to p                    *)
  report,     (* what the first child of prog5 prints of its flag           *)
  signals, kills

data == <<PPID, send_flag, pipe, got, reaped, report>>
env == <<pending, signals, kills>>
vars == <<prog, pc, data, env>>

Reaper == 9      (* init, or whoever adopts an orphan                       *)
NoId == 10
Ended(p) == pc[p] \in {"exit", "killed"}
Alive(p) == pc[p] # "none" /\ ~Ended(p)

Init ==
  /\ prog \in Programs
  /\ pc = [p \in Proc |-> IF p # Parent THEN "none"
                          ELSE CASE prog = "prog5" -> "signal"
                                 [] prog = "prog4" -> "pipe"
                                 [] OTHER -> "fork1"]
  /\ PPID = [c \in Children |-> NoId]
  /\ send_flag = [p \in Proc |-> FALSE]
  /\ pipe = <<>> /\ got = <<>> /\ reaped = {}
  /\ pending = [p \in Proc |-> FALSE]
  /\ report = "none"
  /\ signals = 0 /\ kills = 0

(* A process takes a signal that was sent to it before its next call.      *)
Goto(p, from, to) ==
  /\ pc[p] = from /\ ~pending[p]
  /\ pc' = [pc EXCEPT ![p] = to]
  /\ UNCHANGED <<prog, env>>

-----------------------------------------------------------------------------
(* The parent                                                              *)

SetHandler ==
  /\ Goto(Parent, "signal", "pipe")
  /\ UNCHANGED data

MakePipe ==
  /\ \E to \in {"fork1", "exit"} : Goto(Parent, "pipe", to)
  /\ UNCHANGED data

ForkCall(c) == <<"fork1", "fork2">>[c]

(* What a child does first, and what the parent does after its last fork.  *)
FirstCall ==
  CASE prog = "prog1" -> "getppid"
    [] prog = "wait" -> "return"
    [] prog = "prog3" -> "exec"
    [] prog \in Piped -> "write"

AfterForks == IF prog = "prog1" THEN "exit" ELSE "wait"

(* The child has a copy of send_flag, and none of the pending signals.     *)
Fork(c) ==
  /\ pc[Parent] = ForkCall(c) /\ ~pending[Parent]
  /\ pc' = [pc EXCEPT ![Parent] = IF c = 1 THEN "fork2" ELSE AfterForks,
                      ![c] = FirstCall]
  /\ send_flag' = [send_flag EXCEPT ![c] = send_flag[Parent]]
  /\ UNCHANGED <<prog, env, PPID, pipe, got, reaped, report>>

(* The children forked so far go on without their parent.                  *)
ForkFails(c) ==
  /\ Goto(Parent, ForkCall(c), "exit")
  /\ UNCHANGED data

AfterWaits == IF prog \in Piped THEN "read" ELSE "exit"

Wait_for_one ==
  /\ Goto(Parent, "wait", AfterWaits)
  /\ \E c \in Children : Ended(c) /\ reaped' = {c}
  /\ UNCHANGED <<PPID, send_flag, pipe, got, report>>

Wait ==
  \E c \in Children \ reaped :
    /\ Ended(c)
    /\ Goto(Parent, "wait", IF reaped = {} THEN "wait" ELSE AfterWaits)
    /\ reaped' = reaped \cup {c}
    /\ UNCHANGED <<PPID, send_flag, pipe, got, report>>

(* An empty pipe is never at its end for the parent, which holds the       *)
(* writing end itself: read waits.                                         *)
Read_same ==
  /\ pipe # <<>>
  /\ Goto(Parent, "read", IF got = <<>> THEN "read" ELSE "close")
  /\ got' = Append(got, Head(pipe))
  /\ UNCHANGED <<PPID, send_flag, pipe, reaped, report>>

Read ==
  /\ pipe # <<>>
  /\ Goto(Parent, "read", IF got = <<>> THEN "read" ELSE "close")
  /\ got' = Append(got, Head(pipe))
  /\ pipe' = Tail(pipe)
  /\ UNCHANGED <<PPID, send_flag, reaped, report>>

Close(p) ==
  /\ Goto(p, "close", "exit")
  /\ UNCHANGED data

-----------------------------------------------------------------------------
(* The children                                                            *)

Getppid == IF Ended(Parent) THEN Reaper ELSE Parent

NotePpid(c) ==
  /\ Goto(c, "getppid", "loop")
  /\ PPID' = [PPID EXCEPT ![c] = Getppid]
  /\ UNCHANGED <<send_flag, pipe, got, reaped, report>>

Leaves_at_reaper(c) == PPID[c] = Getppid

(* The loop that polls getppid ends when the answer has changed.           *)
Leaves(c) == PPID[c] # Getppid

LeaveLoop(c) ==
  /\ Leaves(c)
  /\ Goto(c, "loop", "exit")
  /\ UNCHANGED data

Return(c) ==
  /\ Goto(c, "return", "exit")
  /\ UNCHANGED data

(* demo1 and demo2 print three lines and end; a failed execl ends too.     *)
Exec(c) ==
  /\ \E to \in {"return", "exit"} : Goto(c, "exec", to)
  /\ UNCHANGED data

Sleeps(c) == prog = "prog5" /\ c = 1

(* A write to fd[0] fails, and the child returns.                          *)
Write_to_read_end(c) ==
  /\ Goto(c, "write", "exit")
  /\ UNCHANGED data

Write(c) ==
  /\ Goto(c, "write", IF Sleeps(c) THEN "sleep" ELSE "close")
  /\ pipe' = Append(pipe, c)
  /\ UNCHANGED <<PPID, send_flag, got, reaped, report>>

Wake(c) ==
  /\ Goto(c, "sleep", "flag")
  /\ UNCHANGED data

(* The flag is read after sleep has returned, with no call in between.     *)
Report(c) ==
  /\ pc[c] = "flag"
  /\ pc' = [pc EXCEPT ![c] = "close"]
  /\ report' = IF send_flag[c] THEN "set" ELSE "not set"
  /\ UNCHANGED <<prog, env, PPID, send_flag, pipe, got, reaped>>

-----------------------------------------------------------------------------
(* Signals                                                                 *)

(* While the parent lives the terminal belongs to it and its children.     *)
CtrlC ==
  /\ signals < MaxSignals /\ Alive(Parent)
  /\ pending' = [p \in Proc |-> pending[p] \/ Alive(p)]
  /\ signals' = signals + 1
  /\ UNCHANGED <<prog, pc, data, kills>>

(* The handler is lost when another program is executed, but only prog5    *)
(* has one, and its children execute none.                                 *)
Catches(p) == prog = "prog5" /\ pc[p] # "signal"

(* send_msg.                                                               *)
Handle_in_parent(p) ==
  /\ pending[p] /\ Alive(p) /\ Catches(p)
  /\ send_flag' = [send_flag EXCEPT ![Parent] = TRUE]
  /\ pc' = [pc EXCEPT ![p] = IF @ = "sleep" THEN "flag" ELSE @]
  /\ pending' = [pending EXCEPT ![p] = FALSE]
  /\ UNCHANGED <<prog, PPID, pipe, got, reaped, report, signals, kills>>

Handle(p) ==
  /\ pending[p] /\ Alive(p) /\ Catches(p)
  /\ send_flag' = [send_flag EXCEPT ![p] = TRUE]
  /\ pc' = [pc EXCEPT ![p] = IF @ = "sleep" THEN "flag" ELSE @]
  /\ pending' = [pending EXCEPT ![p] = FALSE]
  /\ UNCHANGED <<prog, PPID, pipe, got, reaped, report, signals, kills>>

Die(p) ==
  /\ pc' = [pc EXCEPT ![p] = "killed"]
  /\ pending' = [pending EXCEPT ![p] = FALSE]
  /\ UNCHANGED <<prog, data, signals>>

Interrupted(p) ==
  /\ pending[p] /\ Alive(p) /\ ~Catches(p)
  /\ Die(p)
  /\ UNCHANGED kills

Kill(p) ==
  /\ Alive(p) /\ kills < MaxKills
  /\ Die(p)
  /\ kills' = kills + 1

ParentStep ==
  \/ SetHandler \/ MakePipe
  \/ \E c \in Children : Fork(c) \/ ForkFails(c)
  \/ Wait \/ Read \/ Close(Parent)

ChildStep(c) ==
  \/ NotePpid(c) \/ LeaveLoop(c) \/ Return(c) \/ Exec(c)
  \/ Write(c) \/ Wake(c) \/ Report(c) \/ Close(c)

SignalStep(p) == Handle(p) \/ Interrupted(p)

Next ==
  \/ ParentStep
  \/ \E c \in Children : ChildStep(c)
  \/ \E p \in Proc : SignalStep(p) \/ Kill(p)
  \/ CtrlC

(* Every process runs, and takes its signals.                              *)
Spec ==
  /\ Init /\ [][Next]_vars
  /\ WF_vars(ParentStep)
  /\ \A c \in Children : WF_vars(ChildStep(c))
  /\ \A p \in Proc : WF_vars(SignalStep(p))

-----------------------------------------------------------------------------
(* Properties                                                              *)

Calls ==
  {"none", "signal", "pipe", "fork1", "fork2", "wait", "read", "close",
   "getppid", "loop", "return", "exec", "write", "sleep", "flag", "exit",
   "killed"}

(* In particular: no message is in two places, and a pipe is used only by  *)
(* the programs that made one.                                             *)
TypeOK ==
  /\ prog \in Programs
  /\ pc \in [Proc -> Calls]
  /\ PPID \in [Children -> {Parent, Reaper, NoId}]
  /\ send_flag \in [Proc -> BOOLEAN]
  /\ got \o pipe \in BoundedSeq(Children, 2)
  /\ prog \notin Piped => got = <<>> /\ pipe = <<>>
  /\ reaped \subseteq {c \in Children : Ended(c)}
  /\ pending \in [Proc -> BOOLEAN]
  /\ report \in {"none", "set", "not set"}
  /\ signals \in 0 .. MaxSignals /\ kills \in 0 .. MaxKills

Unsent == \E c \in Children : pc[c] = "killed" /\ c \notin ToSet(got \o pipe)

(* A parent that comes to its end has read both messages, each once.  When *)
(* it reads, everything that will ever be in the pipe is there: it finds   *)
(* no message only if a child was killed before it wrote.                  *)
BothMessages ==
  /\ pc[Parent] = "close" => ToSet(got) = Children
  /\ pc[Parent] = "read" =>
       (\A c \in Children : Ended(c)) /\ (pipe = <<>> => Unsent)

(* A parent that started ends, although it waits twice and reads twice     *)
(* from a pipe that it keeps open itself: unless a child was killed, and   *)
(* then only if it had not written.                                        *)
ParentEnds ==
  <>[](Ended(Parent) \/ (prog \in Piped /\ Unsent))

(* A child ends, also when its parent went before it or was killed; but a  *)
(* child of prog1 whose parent had gone when it first asked for its id     *)
(* never sees it change.                                                   *)
ChildrenEnd ==
  \A c \in Children : Alive(c) ~> (Ended(c) \/ PPID[c] = Reaper)

(* A Ctrl-C that comes while the first child of prog5 writes or sleeps is  *)
(* in its report, if it lives to make one.                                 *)
CtrlCReported ==
  (pending[1] /\ prog = "prog5" /\ pc[1] \in {"write", "sleep"}) ~>
    (report = "set" \/ pc[1] = "killed")
=============================================================================
