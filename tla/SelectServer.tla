----------------------------- MODULE SelectServer -----------------------------
(***************************************************************************)
(* sem_6/lab6_2: a server that multiplexes its clients with select, and    *)
(* the clients, each of which sends its message every two seconds.  The    *)
(* kernel's part is the accept queue, the bytes under way in each          *)
(* connection, the numbering of descriptors and the clock.                 *)
(*                                                                         *)
(* Time passes in ticks of one second.  A client sleeps exactly as long as *)
(* it asks for; the server may be up to MaxLag ticks late with what select *)
(* would report.                                                           *)
(*                                                                         *)
(* An operator that is named after another one, with a suffix, and that    *)
(* Next does not use is a fault the properties are known to catch.         *)
(***************************************************************************)
EXTENDS Integers, Sequences, FiniteSets, SequencesExt

CONSTANTS
  Clients,
  CLIENT_N,   (* 5: slots of the server, and its backlog                   *)
  Messages,   (* 10: sends of a client                                     *)
  MsgSize,    (* bytes of a message                                        *)
  BUF_SIZE,   (* 64: bytes of the server's buffer                          *)
  SLEEP,      (* 2: seconds between two sends                              *)
  TIMEOUT,    (* 10: seconds select waits                                  *)
  MaxLag      (* bound: seconds the server may work without a pause        *)

ASSUME SizesAssumption ==
  /\ {CLIENT_N, Messages, MsgSize, BUF_SIZE, SLEEP} \subseteq Nat \ {0}
  /\ TIMEOUT \in Nat /\ MaxLag \in Nat

(* The client's period is well below the server's patience.                *)
ASSUME PeriodAssumption == TIMEOUT > SLEEP

VARIABLES
  server,       (* where the server is                                     *)
  client_sock,  (* its slots: descriptors, 0 for none                      *)
  conn,         (* conn[fd]: the client behind an open descriptor          *)
  sock_set,     (* what select reported ready                              *)
  i,            (* the slot the loop is at                                 *)
  left,         (* seconds until select times out                          *)
  lag,          (* seconds the server has worked without a pause           *)
  received,     (* received[c]: bytes of c the server has printed          *)
  queue,        (* connections that wait for accept                        *)
  unread,       (* unread[c]: bytes of c that wait for recvfrom            *)
  client,       (* where each client is                                    *)
  sent,         (* messages each client has sent                           *)
  timer         (* seconds each client still sleeps                        *)

servVars == <<server, client_sock, conn, sock_set, i, left, lag, received>>
clientVars == <<client, sent, timer>>
vars == <<servVars, queue, unread, clientVars>>

Slots == 1 .. CLIENT_N
sock == 3                      (* the listening socket's descriptor        *)
Fd == sock + 1 .. sock + 1 + CLIENT_N
Nobody == "nobody"

ASSUME ClientsAssumption == Nobody \notin Clients

Init ==
  /\ server = "start"
  /\ client_sock = [k \in Slots |-> 0]
  /\ conn = [fd \in Fd |-> Nobody]
  /\ sock_set = {}
  /\ i = 1 /\ left = TIMEOUT /\ lag = 0
  /\ received = [c \in Clients |-> 0]
  /\ queue = <<>>
  /\ unread = [c \in Clients |-> 0]
  /\ client = [c \in Clients |-> "input"]
  /\ sent = [c \in Clients |-> 0]
  /\ timer = [c \in Clients |-> 0]

Up == server \in {"select", "accept", "recv"}
Open == {fd \in Fd : conn[fd] # Nobody}
Watched == {client_sock[k] : k \in Slots} \ {0}

(* What select finds readable: a connection in the accept queue, bytes, or *)
(* the end of a connection.                                                *)
Eof(c) == client[c] = "closed"
Readable(fd) == unread[conn[fd]] > 0 \/ Eof(conn[fd])
Ready ==
  {fd \in Watched : Readable(fd)} \cup (IF queue # <<>> THEN {sock} ELSE {})

-----------------------------------------------------------------------------
(* The server ends: the kernel closes all its descriptors.                 *)

End(how) ==
  /\ server' = how
  /\ conn' = [fd \in Fd |-> Nobody]
  /\ queue' = <<>>
  /\ sock_set' = {}
  /\ i' = 1 /\ left' = TIMEOUT /\ lag' = 0
  /\ unread' = [c \in Clients |-> 0]
  /\ UNCHANGED <<client_sock, received, clientVars>>

Listen ==
  /\ server = "start"
  /\ server' = "select"
  /\ UNCHANGED <<client_sock, conn, sock_set, i, left, lag, received, queue,
                 unread, clientVars>>

(* socket, bind, listen, select or accept fails.                           *)
Fails ==
  /\ server \in {"start", "select", "accept"}
  /\ End("failed")

(* SIGINT ends the server between any two of its calls.                    *)
Interrupt ==
  /\ Up
  /\ End("interrupted")

SelectTimeout ==
  /\ server = "select" /\ left = 0 /\ Ready = {}
  /\ End("timeout")

SelectReady ==
  /\ server = "select" /\ Ready # {}
  /\ sock_set' = Ready
  /\ server' = IF sock \in Ready THEN "accept" ELSE "recv"
  /\ i' = 1
  /\ UNCHANGED <<client_sock, conn, left, lag, received, queue, unread, clientVars>>

(* empty_socket: the first slot that is 0, or NULL, and the write through  *)
(* NULL ends the server.                                                   *)
Empty == {k \in Slots : client_sock[k] = 0}

Accept ==
  /\ server = "accept" /\ Empty # {}
  /\ LET new_sock == Min(Fd \ Open) IN
       /\ client_sock' = [client_sock EXCEPT ![Min(Empty)] = new_sock]
       /\ conn' = [conn EXCEPT ![new_sock] = Head(queue)]
  /\ queue' = Tail(queue)
  /\ server' = "recv"
  /\ UNCHANGED <<sock_set, i, left, lag, received, unread, clientVars>>

AcceptOverfull ==
  /\ server = "accept" /\ Empty = {}
  /\ End("crashed")

(* One turn of the loop over the slots; after the last one the timeval is  *)
(* set up again for the next select.                                       *)
NextSlot_old_timeval ==
  /\ server' = IF i = CLIENT_N THEN "select" ELSE "recv"
  /\ i' = IF i = CLIENT_N THEN 1 ELSE i + 1
  /\ sock_set' = IF i = CLIENT_N THEN {} ELSE sock_set
  /\ left' = left

NextSlot_past_end ==
  /\ server' = IF i > CLIENT_N THEN "select" ELSE "recv"
  /\ i' = IF i > CLIENT_N THEN 1 ELSE i + 1
  /\ UNCHANGED <<sock_set, left>>

NextSlot ==
  /\ server' = IF i = CLIENT_N THEN "select" ELSE "recv"
  /\ i' = IF i = CLIENT_N THEN 1 ELSE i + 1
  /\ sock_set' = IF i = CLIENT_N THEN {} ELSE sock_set
  /\ left' = IF i = CLIENT_N THEN TIMEOUT ELSE left

Selected_any == client_sock[i] # 0
Selected == client_sock[i] # 0 /\ client_sock[i] \in sock_set

Skip ==
  /\ server = "recv" /\ ~Selected
  /\ NextSlot
  /\ UNCHANGED <<client_sock, conn, lag, received, queue, unread, clientVars>>

(* recvfrom returns what has arrived, as much as the buffer holds.  When   *)
(* that fills it the terminator overwrites the byte behind: as the build   *)
(* lays out main's frame, one of the timeval that the next turn sets up    *)
(* again, so that the server goes on.                                      *)
Bytes(c) == Min({unread[c], BUF_SIZE})

Recv ==
  /\ server = "recv" /\ Selected
  /\ LET c == conn[client_sock[i]] IN
       /\ unread[c] > 0
       /\ received' = [received EXCEPT ![c] = @ + Bytes(c)]
       /\ unread' = [unread EXCEPT ![c] = @ - Bytes(c)]
  /\ NextSlot
  /\ UNCHANGED <<client_sock, conn, lag, queue, clientVars>>

Disconnected_keeps_slot ==
  /\ server = "recv" /\ Selected
  /\ LET c == conn[client_sock[i]] IN unread[c] = 0 /\ Eof(c)
  /\ conn' = [conn EXCEPT ![client_sock[i]] = Nobody]
  /\ NextSlot
  /\ UNCHANGED <<client_sock, lag, received, queue, unread, clientVars>>

Disconnected_not_closed ==
  /\ server = "recv" /\ Selected
  /\ LET c == conn[client_sock[i]] IN unread[c] = 0 /\ Eof(c)
  /\ NextSlot
  /\ UNCHANGED <<client_sock, conn, lag, received, queue, unread, clientVars>>

Disconnected_early ==
  /\ server = "recv" /\ Selected
  /\ Eof(conn[client_sock[i]])
  /\ conn' = [conn EXCEPT ![client_sock[i]] = Nobody]
  /\ client_sock' = [client_sock EXCEPT ![i] = 0]
  /\ NextSlot
  /\ UNCHANGED <<lag, received, queue, unread, clientVars>>

Disconnected ==
  /\ server = "recv" /\ Selected
  /\ LET c == conn[client_sock[i]] IN unread[c] = 0 /\ Eof(c)
  /\ conn' = [conn EXCEPT ![client_sock[i]] = Nobody]
  /\ client_sock' = [client_sock EXCEPT ![i] = 0]
  /\ NextSlot
  /\ UNCHANGED <<lag, received, queue, unread, clientVars>>

Server ==
  \/ SelectTimeout \/ SelectReady
  \/ Accept \/ AcceptOverfull
  \/ Skip \/ Recv \/ Disconnected

-----------------------------------------------------------------------------
(* The clients.                                                            *)

(* connect is refused when nobody listens; with a full accept queue it     *)
(* waits.                                                                  *)
Connect(c) ==
  /\ client[c] = "input"
  /\ IF Up
     THEN /\ Len(queue) <= CLIENT_N
          /\ queue' = Append(queue, c)
          /\ client' = [client EXCEPT ![c] = "loop"]
     ELSE /\ client' = [client EXCEPT ![c] = "refused"]
          /\ UNCHANGED queue
  /\ UNCHANGED <<servVars, unread, sent, timer>>

Send_no_sleep(c) ==
  /\ Up /\ client[c] = "loop" /\ timer[c] = 0 /\ sent[c] < Messages
  /\ sent' = [sent EXCEPT ![c] = @ + 1]
  /\ unread' = [unread EXCEPT ![c] = @ + MsgSize]
  /\ UNCHANGED <<servVars, queue, client, timer>>

Send(c) ==
  /\ Up /\ client[c] = "loop" /\ timer[c] = 0 /\ sent[c] < Messages
  /\ sent' = [sent EXCEPT ![c] = @ + 1]
  /\ unread' = [unread EXCEPT ![c] = @ + MsgSize]
  /\ timer' = [timer EXCEPT ![c] = SLEEP]
  /\ UNCHANGED <<servVars, queue, client>>

(* The server has gone: a send is answered with ECONNRESET or SIGPIPE.  A  *)
(* first one that still goes through reaches nobody; how long the client   *)
(* sleeps does not matter any more.                                        *)
SendFails(c) ==
  /\ client[c] = "loop" /\ sent[c] < Messages
  /\ ~Up
  /\ client' = [client EXCEPT ![c] = "closed"]
  /\ timer' = [timer EXCEPT ![c] = 0]
  /\ UNCHANGED <<servVars, queue, unread, sent>>

(* After the last sleep; or earlier, when the user ends the client.        *)
Close(c) ==
  /\ client[c] = "loop"
  /\ client' = [client EXCEPT ![c] = "closed"]
  /\ timer' = [timer EXCEPT ![c] = 0]
  /\ UNCHANGED <<servVars, queue, unread, sent>>

Client(c) == Connect(c) \/ Send(c) \/ SendFails(c) \/ Close(c)

-----------------------------------------------------------------------------
(* The clock: no client oversleeps, and the server is behind for at most   *)
(* MaxLag seconds.                                                         *)

Behind == Up /\ (server # "select" \/ Ready # {})

Tick ==
  /\ \A c \in Clients : client[c] = "loop" => timer[c] > 0
  /\ \/ Behind /\ lag < MaxLag /\ lag' = lag + 1 /\ UNCHANGED left
     \/ ~Behind /\ server = "select" /\ left > 0
          /\ left' = left - 1 /\ lag' = 0
  /\ timer' = [c \in Clients |-> IF timer[c] > 0 THEN timer[c] - 1 ELSE 0]
  /\ UNCHANGED <<server, client_sock, conn, sock_set, i, received, queue,
                 unread, client, sent>>

Next ==
  \/ Listen \/ Fails \/ Interrupt
  \/ Server
  \/ \E c \in Clients : Client(c)
  \/ Tick

(* The server is never stopped for good, and time goes on.                 *)
Spec == Init /\ [][Next]_vars /\ WF_vars(Server) /\ WF_vars(Tick)

-----------------------------------------------------------------------------
(* Properties                                                              *)

TypeOK ==
  /\ server \in {"start", "select", "accept", "recv", "timeout", "failed",
                 "crashed", "interrupted"}
  /\ client_sock \in [Slots -> {0} \cup Fd]
  /\ conn \in [Fd -> Clients \cup {Nobody}]
  /\ sock_set \subseteq Fd \cup {sock}
  /\ i \in Slots /\ left \in 0 .. TIMEOUT /\ lag \in 0 .. MaxLag
  /\ received \in [Clients -> 0 .. Messages * MsgSize]
  /\ queue \in Seq(Clients)
  /\ unread \in [Clients -> 0 .. Messages * MsgSize]
  /\ client \in [Clients -> {"input", "loop", "refused", "closed"}]
  /\ sent \in [Clients -> 0 .. Messages]
  /\ timer \in [Clients -> 0 .. SLEEP]

(* The sockets of the clients block, and one that was accepted after the   *)
(* select may have a descriptor that was in use before.  Still the server  *)
(* never waits in recvfrom or finds nothing to accept.                     *)
NeverBlocks ==
  /\ server = "recv" /\ Selected =>
       conn[client_sock[i]] # Nobody /\ Readable(client_sock[i])
  /\ server = "accept" => queue # <<>>

(* Every descriptor that is open is in exactly one slot, and a slot never  *)
(* keeps one that was closed.                                              *)
SlotsAreOpen ==
  Up =>
    /\ Open = Watched
    /\ \A k, m \in Slots :
         client_sock[k] = client_sock[m] => k = m \/ client_sock[k] = 0

(* char buf[BUF_SIZE], which recvfrom may fill, and buf[bytes] = '\0' ask   *)
(* that recvfrom never does.  The code does not hold to it: two messages   *)
(* of a client that come together, or one as long as the buffer, fill it.  *)
TerminatorInside ==
  server = "recv" /\ Selected => Bytes(conn[client_sock[i]]) < BUF_SIZE

(* What the code does hold to, since a client sleeps between two sends and *)
(* recvfrom empties what has come: with messages shorter than the buffer   *)
(* it is full only when the server has worked for a whole period of the    *)
(* clients without a pause.                                                *)
FullOnlyWhenLate ==
  server = "recv" /\ Selected /\ Bytes(conn[client_sock[i]]) = BUF_SIZE
    => MsgSize >= BUF_SIZE \/ lag >= SLEEP

(* select never times out while a client is connected: its messages come   *)
(* in time, since each turn starts with the full interval again.           *)
TimeoutOnlyWhenAlone ==
  [][server # "timeout" /\ server' = "timeout"
       => \A c \in Clients : client[c] # "loop"]_vars

(* The server lets go of a client, or gives up waiting, only when it has   *)
(* printed all that was sent, also the last bytes before the client closed *)
(* and those that arrived behind the buffer's end.                         *)
Connected == {conn[fd] : fd \in Open} \cup Range(queue)

NothingLost ==
  [][\A c \in Connected :
       Up' \/ server' = "timeout" =>
         received[c] = sent[c] * MsgSize \/ c \in Connected']_vars

(* A server that is left alone closes by itself: the end of a connection   *)
(* does not stay in its sets, where select would report it for ever.       *)
EventuallyEnds ==
  <>[](\A c \in Clients : client[c] # "loop") => <>[]~Up
=============================================================================
