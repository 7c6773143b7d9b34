----------------------------- MODULE FortunePot -------------------------------
(***************************************************************************)
(* Two modules that keep a pot of cookies behind a /proc file.  Each write *)
(* adds a cookie, each cat of the file takes one out.                      *)
(*   "fortune"  sem_6/lab4_2/main.c: read and write of its own             *)
(*   "seq"      sem_6/lab4_seq_file/main.c: my_show under seq_file; the    *)
(*              pot is str, cookie_index and next_fortune are write_index  *)
(*              and read_index                                             *)
(*                                                                         *)
(* One process writes and several read, each time with a file of its own;  *)
(* nothing in the modules keeps their calls apart, nor apart from the      *)
(* loading of the module.  Of the pot only the places that do not hold '\0'*)
(* are kept, since the modules look for nothing else in it.  The copying   *)
(* of a block, strcat, strlen and the printing of a string are single      *)
(* steps.                                                                  *)
(*                                                                         *)
(* The pot is vmalloc'ed: the pages on both sides of it are not mapped,    *)
(* and a call that touches them is killed by the kernel (an "oops").       *)
(*                                                                         *)
(* An operator that is named after another one, with a suffix, and that    *)
(* Next does not use is a fault the properties are known to catch.         *)
(***************************************************************************)
EXTENDS Integers, FiniteSets

CONSTANTS
  Readers,    (* the processes that read                                    *)
  MAX,        (* MAX_COOKIE_LENGTH, the size of the pot: PAGE_SIZE          *)
  ULong,      (* one more than the largest unsigned long                    *)
  Room,       (* the longest string that fits in seq_file's first buffer    *)
  Lens,       (* how much is written at a time                              *)
  MaxWrites   (* bound: the writes                                          *)

AddLen == 6     (* strlen(add_str)                                          *)
AddSize == 7    (* what fortune_write adds to cookie_index for it           *)

ASSUME SizesAssumption ==
  /\ MAX \in Nat \ {0} /\ MaxWrites \in Nat
  /\ Room \in 1 .. MAX
  /\ Lens \subseteq 0 .. MAX + AddSize
  /\ ULong \in Nat /\ ULong > 2 * (MAX + AddSize)

VARIABLES
  version,       (* which of the two modules it is                          *)
  module,        (* how far the loading is                                  *)
  full,          (* the places of the pot that do not hold '\0'             *)
  cookie_index, next_fortune,
  wpc, len,      (* the call of write and its argument                      *)
  rpc, ln,       (* the calls of read and their local variable              *)
  f_pos,         (* each reader's position in its file                      *)
  oops,          (* a call touched a place outside the pot                  *)
  early,         (* a call was under way when cookie_index was reset        *)
  mixed,         (* readers got into each other's way, or into the writer's *)
  shown,         (* the places at which a message began that was shown      *)
  writes         (* writes so far                                           *)

pot == <<full, cookie_index, next_fortune>>
writer == <<wpc, len, writes>>
reader == <<rpc, ln, f_pos>>
seen == <<mixed, shown>>
vars == <<version, module, pot, writer, reader, oops, early, seen>>

Places == 0 .. MAX - 1
InCall == {"len", "advance", "again"}

Init ==
  /\ version \in {"fortune", "seq"}
  /\ module = "out"
  /\ full = {} /\ cookie_index = 0 /\ next_fortune = 0
  /\ wpc = "idle" /\ len = 0 /\ writes = 0
  /\ rpc = [r \in Readers |-> "closed"]
  /\ ln = [r \in Readers |-> 0] /\ f_pos = [r \in Readers |-> 0]
  /\ oops = FALSE /\ early = FALSE /\ mixed = FALSE /\ shown = {}

(* The file in /proc is there: its operations may be called.               *)
Visible == module \in {"created", "in"}

(* The messages in front of this place are finished.                      *)
Finished == IF wpc = "end" THEN cookie_index - len ELSE cookie_index

(* Where the first '\0' from place k on is; MAX or more: outside the pot.  *)
Nul(k) ==
  IF k >= MAX THEN k
  ELSE CHOOSE n \in k .. MAX : n \notin full /\ k .. n - 1 \subseteq full

-----------------------------------------------------------------------------
(* Loading and unloading                                                   *)

(* vmalloc and memset.                                                     *)
Allocate ==
  /\ module = "out"
  /\ module' = "allocated"
  /\ full' = {} /\ cookie_index' = 0 /\ next_fortune' = 0
  /\ UNCHANGED <<version, writer, reader, oops, early, seen>>

(* proc_create; the directory and the link do not matter to the pot.       *)
Create ==
  /\ module = "allocated"
  /\ module' = "created"
  /\ UNCHANGED <<version, pot, writer, reader, oops, early, seen>>

CreateFails ==
  /\ module = "allocated"
  /\ module' = "out"
  /\ UNCHANGED <<version, pot, writer, reader, oops, early, seen>>

Busy == wpc # "idle" \/ \E r \in Readers : rpc[r] \in InCall

(* fortune_init sets the indices before there is a file.                   *)
Reset ==
  /\ module = "created"
  /\ module' = "in"
  /\ IF version = "fortune"
     THEN /\ cookie_index' = 0 /\ next_fortune' = 0
          /\ early' = (Busy \/ full # {})
     ELSE UNCHANGED <<cookie_index, next_fortune, early>>
  /\ UNCHANGED <<version, full, writer, reader, oops, seen>>

(* remove_proc_entry waits for the calls under way, for ever if one of     *)
(* them was killed; later calls fail.                                      *)
Exit ==
  /\ module = "in" /\ ~Busy /\ ~oops
  /\ module' = "out"
  /\ rpc' = [r \in Readers |-> "closed"]
  /\ f_pos' = [r \in Readers |-> 0]
  /\ early' = FALSE /\ mixed' = FALSE /\ shown' = {}
  /\ UNCHANGED <<version, pot, writer, ln, oops>>

-----------------------------------------------------------------------------
(* fortune_write and my_write                                              *)

WriterDies == wpc' = "idle" /\ len' = 0 /\ oops' = TRUE

(* The int free_space becomes an unsigned long when it is compared;        *)
(* my_write does not ask.                                                  *)
Accepts(n) ==
  version = "fortune" => ((MAX - cookie_index) + 1) % ULong >= n + 1

WriteCall ==
  /\ wpc = "idle" /\ Visible /\ writes < MaxWrites
  /\ \E n \in Lens :
       /\ Accepts(n)
       /\ len' = n
  /\ wpc' = "copy" /\ writes' = writes + 1
  /\ UNCHANGED <<version, module, pot, reader, oops, early, seen>>

(* copy_from_user; if it meets a bad page it leaves zeros behind what it   *)
(* copied, and the call ends.                                              *)
Copy ==
  /\ wpc = "copy"
  /\ LET block == cookie_index .. cookie_index + len - 1 IN
       IF block \subseteq Places
       THEN /\ full' = full \cup block
            /\ wpc' = "add"
            /\ UNCHANGED <<len, oops>>
       ELSE /\ full' = full \cup (block \cap Places)
            /\ WriterDies
  /\ UNCHANGED <<version, module, cookie_index, next_fortune, writes, reader,
                 early, seen>>

CopyFails ==
  /\ wpc = "copy"
  /\ cookie_index + len <= MAX
  /\ \E n \in 0 .. len - 1 :
       full' = (full \ (cookie_index .. cookie_index + len - 1))
                 \cup cookie_index .. cookie_index + n - 1
  /\ wpc' = "idle" /\ len' = 0
  /\ UNCHANGED <<version, module, cookie_index, next_fortune, writes, reader,
                 oops, early, seen>>

AddLength_and_step ==
  /\ wpc = "add"
  /\ cookie_index' = cookie_index + len + AddSize
  /\ wpc' = IF version = "fortune" THEN "mark" ELSE "end"
  /\ UNCHANGED <<version, module, full, next_fortune, len, writes, reader, oops,
                 early, seen>>

AddLength ==
  /\ wpc = "add"
  /\ cookie_index' = cookie_index + len
  /\ wpc' = IF version = "fortune" THEN "mark" ELSE "end"
  /\ UNCHANGED <<version, module, full, next_fortune, len, writes, reader, oops,
                 early, seen>>

(* cookie_pot[cookie_index - 1] = '_'                                      *)
Mark ==
  /\ wpc = "mark"
  /\ IF cookie_index - 1 \in Places
     THEN /\ full' = full \cup {cookie_index - 1}
          /\ wpc' = "strcat"
          /\ UNCHANGED <<len, oops>>
     ELSE WriterDies /\ UNCHANGED full
  /\ UNCHANGED <<version, module, cookie_index, next_fortune, writes, reader,
                 early, seen>>

(* strcat puts add_str behind the first cookie of the pot.                 *)
Strcat ==
  /\ wpc = "strcat"
  /\ LET end == Nul(0)
         block == end .. end + AddLen - 1 IN
       IF end + AddLen \in Places
       THEN /\ full' = (full \cup block) \ {end + AddLen}
            /\ wpc' = "step"
            /\ UNCHANGED <<len, oops>>
       ELSE /\ full' = full \cup (block \cap Places)
            /\ WriterDies
  /\ UNCHANGED <<version, module, cookie_index, next_fortune, writes, reader,
                 early, seen>>

AddStep ==
  /\ wpc = "step"
  /\ cookie_index' = cookie_index + AddSize
  /\ wpc' = "end"
  /\ UNCHANGED <<version, module, full, next_fortune, len, writes, reader, oops,
                 early, seen>>

(* cookie_pot[cookie_index - 1] = 0                                        *)
Terminate_next ==
  /\ wpc = "end"
  /\ full' = full \ {cookie_index}
  /\ wpc' = "idle" /\ len' = 0
  /\ UNCHANGED <<version, module, cookie_index, next_fortune, writes, reader,
                 oops, early, seen>>

(* my_show has printed the empty string behind the last message, and will  *)
(* take the length of the message that is written there.                   *)
Overtaken ==
  version = "seq" /\ len > 0 /\ next_fortune >= Finished
  /\ \E r \in Readers : rpc[r] = "len"

Terminate ==
  /\ wpc = "end"
  /\ full' = full \ {cookie_index - 1}
  /\ wpc' = "idle" /\ len' = 0
  /\ oops' = (oops \/ cookie_index - 1 \notin Places)
  /\ mixed' = (mixed \/ Overtaken)
  /\ UNCHANGED <<version, module, cookie_index, next_fortune, writes, reader,
                 early, shown>>

Write ==
  \/ Copy \/ CopyFails \/ AddLength \/ Mark \/ Strcat \/ AddStep \/ Terminate

-----------------------------------------------------------------------------
(* cat: open, read until it returns 0, close.                              *)

Open(r) ==
  /\ rpc[r] = "closed" /\ Visible
  /\ rpc' = [rpc EXCEPT ![r] = "read"]
  /\ UNCHANGED <<version, module, pot, writer, ln, f_pos, oops, early, seen>>

Closed(r) ==
  /\ rpc' = [rpc EXCEPT ![r] = "closed"]
  /\ f_pos' = [f_pos EXCEPT ![r] = 0]

AtEnd_without_index(r) ==
  version = "fortune" /\ (cookie_index = 0 \/ f_pos[r] > 0)
AtEnd(r) ==
  IF version = "fortune"
  THEN cookie_index = 0 \/ f_pos[r] > 0 \/ next_fortune >= cookie_index
  ELSE f_pos[r] > 0

ReadNothing(r) ==
  /\ rpc[r] = "read" /\ AtEnd(r)
  /\ Closed(r)
  /\ UNCHANGED <<version, module, pot, writer, ln, oops, early, seen>>

Overlaps(r) ==
  rpc[r] = "read" /\ \E q \in Readers \ {r} : rpc[q] \in InCall

(* my_show takes a string for a message that my_write has not finished,    *)
(* or that it gave up after a part of it.                                  *)
Unfinished == next_fortune >= Finished /\ next_fortune \in full

(* fortune_read                                                            *)
ReadCall(r) ==
  /\ version = "fortune"
  /\ rpc[r] = "read" /\ ~AtEnd(r)
  /\ rpc' = [rpc EXCEPT ![r] = "len"]
  /\ mixed' = (mixed \/ Overlaps(r))
  /\ UNCHANGED <<version, module, pot, writer, ln, f_pos, oops, early, shown>>

ReaderDies(r) == Closed(r) /\ oops' = TRUE

(* seq_read calls my_show, and once more with a larger buffer if what it   *)
(* printed did not fit; the first output is dropped.                       *)
Show(r) ==
  /\ version = "seq"
  /\ (rpc[r] = "read" /\ ~AtEnd(r)) \/ rpc[r] = "again"
  /\ mixed' = (mixed \/ Overlaps(r) \/ Unfinished)
  /\ IF Nul(next_fortune) \notin Places
     THEN ReaderDies(r) /\ UNCHANGED shown
     ELSE /\ rpc' = [rpc EXCEPT ![r] = "len"]
          /\ IF rpc[r] = "read" /\ Nul(next_fortune) - next_fortune > Room
             THEN UNCHANGED <<f_pos, shown>>
             ELSE /\ f_pos' = [f_pos EXCEPT ![r] = 1]
                  /\ shown' = shown \cup ({next_fortune} \cap full)
          /\ UNCHANGED oops
  /\ UNCHANGED <<version, module, pot, writer, ln, early>>

(* strlen, and copy_to_user in fortune_read.                               *)
Strlen(r) ==
  /\ rpc[r] = "len"
  /\ mixed' = (mixed \/ (version = "seq" /\ Unfinished))
  /\ IF Nul(next_fortune) \in Places
     THEN /\ ln' = [ln EXCEPT ![r] = Nul(next_fortune) - next_fortune]
          /\ rpc' = [rpc EXCEPT ![r] = "advance"]
          /\ UNCHANGED <<f_pos, oops>>
     ELSE ReaderDies(r) /\ UNCHANGED ln
  /\ UNCHANGED <<version, module, pot, writer, early, shown>>

(* A string of length 0 ends the cat of fortune_read too, but is counted;  *)
(* my_show does not go past it.                                            *)
Step_not_past_end(r) == ln[r]
Step(r) == IF version = "seq" /\ ln[r] = 0 THEN 0 ELSE ln[r] + 1

Advance(r) ==
  /\ rpc[r] = "advance"
  /\ next_fortune' = next_fortune + Step(r)
  /\ IF version = "fortune"
     THEN IF ln[r] = 0
          THEN Closed(r)
          ELSE /\ rpc' = [rpc EXCEPT ![r] = "read"]
               /\ f_pos' = [f_pos EXCEPT ![r] = Step(r)]
     ELSE /\ rpc' = [rpc EXCEPT ![r] = IF f_pos[r] = 0 THEN "again" ELSE "read"]
          /\ UNCHANGED f_pos
  /\ ln' = [ln EXCEPT ![r] = 0]
  /\ UNCHANGED <<version, module, full, cookie_index, writer, oops, early, seen>>

Read(r) ==
  \/ ReadNothing(r) \/ ReadCall(r) \/ Show(r) \/ Strlen(r) \/ Advance(r)

Next ==
  \/ Allocate \/ Create \/ CreateFails \/ Reset \/ Exit
  \/ WriteCall \/ Write
  \/ \E r \in Readers : Open(r) \/ Read(r)

Spec == Init /\ [][Next]_vars

-----------------------------------------------------------------------------
(* Properties                                                              *)

TypeOK ==
  /\ version \in {"fortune", "seq"}
  /\ module \in {"out", "allocated", "created", "in"}
  /\ full \subseteq Places
  /\ cookie_index \in 0 .. MAX + AddSize
  /\ next_fortune \in Nat
  /\ wpc \in {"idle", "copy", "add", "mark", "strcat", "step", "end"}
  /\ len \in {0} \cup Lens /\ writes \in 0 .. MaxWrites
  /\ rpc \in [Readers -> {"closed", "read"} \cup InCall]
  /\ ln \in [Readers -> 0 .. MAX] /\ f_pos \in [Readers -> 0 .. MAX + 1]
  /\ {oops, early, mixed} \subseteq BOOLEAN
  /\ shown \subseteq Places

(* A call that is under way while the module is being loaded finds the     *)
(* indices reset under it; and one that touched a place outside the pot    *)
(* has been killed half-way.                                               *)
Sound == module = "in" /\ ~early /\ ~oops

(* Between two writes the last place before cookie_index holds '\0',       *)
(* whatever failed writes have left behind it.                             *)
CookiesEnd ==
  Sound /\ wpc = "idle" /\ cookie_index > 0 => cookie_index - 1 \notin full

(* As long as there is room for another add_str, strlen in fortune_read    *)
(* finds the end of the string before the end of the pot, also in the      *)
(* middle of a write; not if two readers read at the same time.            *)
ReadsEndInPot ==
  \A r \in Readers :
    /\ version = "fortune" /\ Sound /\ ~mixed
    /\ rpc[r] = "len" /\ cookie_index + AddSize <= MAX
    => Nul(next_fortune) \in Places

(* my_show goes from one message to the next: read_index is at the         *)
(* beginning of one or behind the last, and every message before it has    *)
(* been shown, but for those that did not fit in the first buffer.  It is  *)
(* not so when two readers show at the same time, when the message is      *)
(* shown that my_write is about to write or has failed to write, or when   *)
(* it is finished between the printing and the taking of its length.       *)
Beginnings == {0} \cup {k + 1 : k \in (0 .. cookie_index - 1) \ full}

MessagesShown ==
  version = "seq" /\ Sound /\ ~mixed =>
    /\ next_fortune \in Beginnings
    /\ \A k \in Beginnings :
         k < next_fortune /\ Nul(k) - k <= Room => k \in shown

(* What the message "cookie_pot is overflowed" stands for: a write that    *)
(* does not fit is refused, so that none leaves the pot.                   *)
RefusesOverflow ==
  version = "fortune" /\ module = "in" /\ ~early => ~oops
=============================================================================
