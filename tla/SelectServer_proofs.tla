-------------------------- MODULE SelectServer_proofs --------------------------
(***************************************************************************)
(* Proofs about SelectServer, for any number of clients, slots, messages   *)
(* and bytes.                                                              *)
(***************************************************************************)
EXTENDS SelectServer, FiniteSetTheorems, TLAPS

(* What a client has sent is printed or waits to be.                       *)
CountInv ==
  \A c \in Clients :
    /\ received[c] + unread[c] <= sent[c] * MsgSize
    /\ Up => received[c] + unread[c] = sent[c] * MsgSize

(* Before the server listens nothing has happened.                         *)
StartInv ==
  /\ server = "start" =>
       /\ \A c \in Clients : sent[c] = 0 /\ received[c] = 0 /\ unread[c] = 0
       /\ \A k \in Slots : client_sock[k] = 0
       /\ client \in [Clients -> {"input", "refused"}]
  /\ ~Up => Open = {} /\ queue = <<>>
  /\ server = "accept" => i = 1

(* A client has one connection, in the accept queue or behind one          *)
(* descriptor, and that only after it called connect.                      *)
InQueue(c) == \E k \in 1 .. Len(queue) : queue[k] = c

ConnInv ==
  /\ \A fd, ge \in Open : conn[fd] = conn[ge] => fd = ge
  /\ \A k, m \in 1 .. Len(queue) : queue[k] = queue[m] => k = m
  /\ \A fd \in Open : ~InQueue(conn[fd])
  /\ \A c \in Clients : client[c] \in {"input", "refused"} =>
       ~InQueue(c) /\ \A fd \in Open : conn[fd] # c

(* What select found readable is so until the loop has come to its slot:   *)
(* before accept all of it is still in the slots, so that a descriptor     *)
(* accepted later is not taken for a readable one.                         *)
ReadyInv ==
  /\ server = "accept" =>
       /\ queue # <<>>
       /\ sock_set \subseteq Watched \cup {sock}
  /\ server \in {"accept", "recv"} =>
       \A k \in Slots :
         k >= i /\ client_sock[k] # 0 /\ client_sock[k] \in sock_set
           => Readable(client_sock[k])

IInv ==
  TypeOK /\ CountInv /\ StartInv /\ ConnInv /\ SlotsAreOpen /\ ReadyInv

-----------------------------------------------------------------------------

(* A set of natural numbers has a smallest element.                        *)
LEMMA MinIsIn ==
  ASSUME NEW S \in SUBSET Nat, S # {}
  PROVE  Min(S) \in S /\ \A n \in S : Min(S) <= n
<1>1. PICK m \in S : \A n \in S : <<n, m>> \notin OpToRel(<, Nat)
  BY NatLessThanWellFounded, WFMin, Zenon
<1>2. \A n \in S : m <= n
  <2> SUFFICES ASSUME NEW n \in S, n < m PROVE FALSE
    OBVIOUS
  <2>1. <<n, m>> \in Nat \X Nat /\ <<n, m>>[1] < <<n, m>>[2]
    OBVIOUS
  <2>2. <<n, m>> \in OpToRel(<, Nat)
    BY <2>1 DEF OpToRel
  <2> QED BY <1>1, <2>2
<1> QED BY <1>2 DEF Min

(* A number of messages more is their bytes more.                          *)
LEMMA Times ==
  ASSUME NEW a \in Nat, NEW b \in Nat, NEW m \in Nat
  PROVE  /\ a * m \in Nat /\ (a + 1) * m = a * m + m
         /\ a <= b => a * m <= b * m
OBVIOUS

(* What an interval holds.                                                 *)
LEMMA IntervalSize ==
  ASSUME NEW a \in Nat, NEW b \in Nat, a <= b
  PROVE  IsFiniteSet(a .. b) /\ Cardinality(a .. b) = b - a + 1
BY FS_Interval

LEMMA MoreDescriptors ==
  /\ IsFiniteSet(Fd) /\ IsFiniteSet(Slots)
  /\ Cardinality(Slots) < Cardinality(Fd)
<1>1. CLIENT_N \in Nat /\ CLIENT_N >= 1
  BY SizesAssumption
<1>2. IsFiniteSet(1 .. CLIENT_N) /\ Cardinality(1 .. CLIENT_N) = CLIENT_N
  BY <1>1, IntervalSize
<1>3. IsFiniteSet(4 .. 4 + CLIENT_N)
      /\ Cardinality(4 .. 4 + CLIENT_N) = CLIENT_N + 1
  BY <1>1, IntervalSize
<1>4. Slots = 1 .. CLIENT_N /\ Fd = 4 .. 4 + CLIENT_N
  BY <1>1 DEF Slots, Fd, sock
<1> QED BY <1>1, <1>2, <1>3, <1>4

(* There are more descriptors than slots, so one is always free, and it is *)
(* in no slot.                                                             *)
LEMMA FreeDescriptor ==
  ASSUME TypeOK, Up, SlotsAreOpen
  PROVE  /\ Min(Fd \ Open) \in Fd /\ Min(Fd \ Open) \notin Open
         /\ Min(Fd \ Open) \notin Watched
<1>1. CASE Fd \subseteq Watched
  <2>2. \A fd \in Fd : \E k \in Slots : client_sock[k] = fd
    BY <1>1 DEF Watched
  <2> DEFINE f == [fd \in Fd |-> CHOOSE k \in Slots : client_sock[k] = fd]
  <2>3. f \in [Fd -> Slots] /\ \A fd \in Fd : client_sock[f[fd]] = fd
    BY <2>2
  <2>4. \E x, y \in Fd : x # y /\ f[x] = f[y]
    <3> HIDE DEF f
    <3> QED BY <2>3, MoreDescriptors, FS_PigeonHole
  <2> QED BY <2>3, <2>4
<1>2. CASE ~(Fd \subseteq Watched)
  <2>1. Fd \ Open \in SUBSET Nat /\ Fd \ Open # {} /\ Open = Watched
    BY <1>2 DEF SlotsAreOpen, Fd, sock
  <2> QED BY <2>1, MinIsIn
<1> QED BY <1>1, <1>2

LEMMA InitInv == Init => IInv
<1> SUFFICES ASSUME Init PROVE IInv
  OBVIOUS
<1> USE SizesAssumption
<1>1. TypeOK
  BY Times DEF Init, TypeOK, Slots
<1>2. CountInv
  BY Times DEF Init, CountInv, Up
<1>3. StartInv
  BY DEF Init, StartInv, Up, Open
<1>4. ConnInv
  BY DEF Init, ConnInv, Open, InQueue
<1>5. SlotsAreOpen /\ ReadyInv
  BY DEF Init, SlotsAreOpen, ReadyInv, Up
<1> QED BY <1>1, <1>2, <1>3, <1>4, <1>5 DEF IInv

(* The server ends.                                                        *)
LEMMA EndInv ==
  ASSUME IInv, NEW how \in {"timeout", "failed", "crashed", "interrupted"},
         End(how)
  PROVE  IInv'
<1> USE SizesAssumption DEF End, clientVars
<1>1. TypeOK'
  BY Times DEF IInv, TypeOK, Slots
<1>2. CountInv'
  BY DEF IInv, TypeOK, CountInv, Up
<1>3. StartInv' /\ ConnInv' /\ SlotsAreOpen' /\ ReadyInv'
  BY DEF StartInv, ConnInv, InQueue, SlotsAreOpen, ReadyInv, Up, Open
<1> QED BY <1>1, <1>2, <1>3 DEF IInv

(* The steps of the server that look at no client.                         *)
LEMMA ListenInv ==
  ASSUME IInv, Listen
  PROVE  IInv'
<1> USE SizesAssumption DEF Listen, clientVars, IInv
<1>1. TypeOK'
  BY DEF TypeOK
<1>4. CountInv'
  <2> SUFFICES ASSUME NEW c \in Clients
               PROVE  received[c] + unread[c] = sent[c] * MsgSize
    BY DEF CountInv, TypeOK
  <2>1. sent[c] = 0 /\ received[c] = 0 /\ unread[c] = 0
    BY DEF StartInv
  <2>2. 0 * MsgSize = 0
    OBVIOUS
  <2> QED BY <2>1, <2>2
<1>2. StartInv' /\ ConnInv' /\ ReadyInv'
  BY DEF StartInv, ConnInv, InQueue, ReadyInv, Up, Open
<1>3. SlotsAreOpen'
  BY DEF StartInv, SlotsAreOpen, Up, Open, Watched
<1> QED BY <1>1, <1>2, <1>3, <1>4

LEMMA SelectInv ==
  ASSUME IInv, SelectReady
  PROVE  IInv'
<1> USE SizesAssumption DEF SelectReady, clientVars, IInv
<1>1. TypeOK'
  <2>1. Ready \subseteq Fd \cup {sock}
    BY DEF TypeOK, Ready, Watched
  <2>2. 1 \in Slots
    BY DEF Slots
  <2> QED BY <2>1, <2>2 DEF TypeOK
<1>2. CountInv' /\ StartInv' /\ ConnInv'
  BY DEF CountInv, StartInv, ConnInv, InQueue, Up, Open
<1>3. SlotsAreOpen'
  BY DEF SlotsAreOpen, Up, Open, Watched
<1>4. ReadyInv'
  BY DEF ReadyInv, Ready, Readable, Eof, Watched, sock, TypeOK, Fd
<1> QED BY <1>1, <1>2, <1>3, <1>4

(* The connection that accept takes from the queue gets a free descriptor, *)
(* which is in no slot and not among those that select reported.           *)
LEMMA AcceptInv ==
  ASSUME IInv, Accept
  PROVE  IInv'
<1> USE DEF IInv
<1> DEFINE new == Min(Fd \ Open)
           slot == Min(Empty)
           c == Head(queue)
<1>1. /\ Up /\ Up' /\ queue # <<>> /\ queue \in Seq(Clients) /\ i = 1
      /\ server = "accept" /\ server' = "recv"
      /\ client_sock' = [client_sock EXCEPT ![slot] = new]
      /\ conn' = [conn EXCEPT ![new] = c] /\ queue' = Tail(queue)
      /\ UNCHANGED <<sock_set, i, left, lag, received, unread, clientVars>>
  BY DEF Accept, Up, ReadyInv, StartInv, TypeOK
<1>2. new \in Fd /\ new \notin Open /\ new \notin Watched
  BY <1>1, FreeDescriptor
<1>3. slot \in Slots /\ client_sock[slot] = 0
  <2>1. Empty \in SUBSET Nat /\ Empty # {}
    BY DEF Accept, Empty, Slots
  <2> QED BY <2>1, MinIsIn DEF Empty
<1>4. /\ c \in Clients /\ Tail(queue) \in Seq(Clients)
      /\ Len(Tail(queue)) = Len(queue) - 1 /\ Len(queue) \in Nat \ {0}
      /\ \A k \in 1 .. Len(queue) - 1 :
           k + 1 \in 1 .. Len(queue) /\ Tail(queue)[k] = queue[k + 1]
      /\ c = queue[1] /\ 1 \in 1 .. Len(queue)
  BY <1>1
<1> HIDE DEF new, slot, c
<1>5. TypeOK'
  BY <1>1, <1>2, <1>3, <1>4 DEF TypeOK, clientVars
<1>6. CountInv'
  BY <1>1 DEF CountInv, clientVars, Up
<1>7. StartInv'
  BY <1>1 DEF StartInv, Up
<1>8. /\ Open' = Open \cup {new} /\ conn'[new] = c
      /\ \A fd \in Open : conn'[fd] = conn[fd]
  BY <1>1, <1>2, <1>4, ClientsAssumption DEF Open, TypeOK
<1>9. ASSUME NEW k \in 1 .. Len(queue')
      PROVE  queue'[k] # c /\ \E m \in 1 .. Len(queue) : queue[m] = queue'[k]
  BY <1>1, <1>4 DEF ConnInv
<1>10. InQueue(c)
  BY <1>4 DEF InQueue
<1>11. ConnInv'
  <2>1. \A fd, ge \in Open' : conn'[fd] = conn'[ge] => fd = ge
    BY <1>8, <1>10 DEF ConnInv
  <2>2. \A k, m \in 1 .. Len(queue') : queue'[k] = queue'[m] => k = m
    BY <1>1, <1>4 DEF ConnInv
  <2>3. \A fd \in Open', k \in 1 .. Len(queue') : queue'[k] # conn'[fd]
    <3> SUFFICES ASSUME NEW fd \in Open', NEW k \in 1 .. Len(queue'),
                        queue'[k] = conn'[fd]
                 PROVE  FALSE
      OBVIOUS
    <3>1. PICK m \in 1 .. Len(queue) : queue[m] = queue'[k]
      BY <1>9
    <3>2. fd # new
      BY <1>8, <1>9
    <3>3. fd \in Open /\ conn[fd] = queue[m]
      BY <1>8, <3>1, <3>2
    <3> QED BY <3>3 DEF ConnInv, InQueue
  <2>4. ASSUME NEW d \in Clients, client'[d] \in {"input", "refused"}
        PROVE  /\ \A k \in 1 .. Len(queue') : queue'[k] # d
               /\ \A fd \in Open' : conn'[fd] # d
    <3>1. ~InQueue(d) /\ \A fd \in Open : conn[fd] # d
      BY <1>1, <2>4 DEF ConnInv, clientVars
    <3>2. d # c
      BY <1>10, <3>1
    <3>3. \A k \in 1 .. Len(queue') : queue'[k] # d
      BY <1>9, <3>1 DEF InQueue
    <3>4. ASSUME NEW fd \in Open' PROVE conn'[fd] # d
      BY <1>8, <3>1, <3>2
    <3> QED BY <3>3, <3>4
  <2> QED BY <2>1, <2>2, <2>3, <2>4 DEF ConnInv, InQueue
<1>12. SlotsAreOpen'
  <2>1. client_sock'[slot] = new
        /\ \A k \in Slots \ {slot} : client_sock'[k] = client_sock[k]
    BY <1>1, <1>3 DEF TypeOK
  <2>2. Watched' = Watched \cup {new}
    BY <1>2, <1>3, <2>1 DEF Watched, Fd, sock
  <2>3. \A k \in Slots \ {slot} : client_sock[k] # new
    BY <1>2 DEF Watched, Fd, sock
  <2> QED BY <1>1, <1>8, <2>1, <2>2, <2>3 DEF SlotsAreOpen
<1>13. ReadyInv'
  <2>1. new \notin sock_set
    BY <1>1, <1>2 DEF ReadyInv, Fd, sock
  <2> SUFFICES ASSUME NEW k \in Slots, client_sock'[k] # 0,
                      client_sock'[k] \in sock_set
               PROVE  Readable(client_sock[k])'
    BY <1>1 DEF ReadyInv
  <2>2. client_sock'[k] = client_sock[k]
    BY <1>1, <1>3, <2>1 DEF TypeOK
  <2>3. k >= i
    BY <1>1 DEF Slots
  <2>4. Readable(client_sock[k])
    BY <1>1, <2>2, <2>3 DEF ReadyInv
  <2>5. client_sock[k] \in Open
    BY <1>1, <2>2 DEF SlotsAreOpen, Watched
  <2> QED BY <1>1, <1>8, <2>2, <2>4, <2>5 DEF Readable, Eof, clientVars
<1> QED BY <1>5, <1>6, <1>7, <1>11, <1>12, <1>13

(* The loop goes to the next slot or, after the last one, back to select.  *)
LEMMA NextSlotStep ==
  ASSUME TypeOK, server = "recv", NextSlot
  PROVE  /\ i' \in Slots /\ left' \in 0 .. TIMEOUT /\ Up /\ Up'
         /\ sock_set' \subseteq sock_set
         /\ server' \in {"select", "recv"}
         /\ server' = "recv" => i' = i + 1
<1> USE SizesAssumption
<1>1. i' \in Slots /\ (server' = "recv" => i' = i + 1)
  BY DEF NextSlot, TypeOK, Slots
<1>2. left' \in 0 .. TIMEOUT /\ sock_set' \subseteq sock_set
  BY DEF NextSlot, TypeOK
<1>3. server' \in {"select", "recv"}
  BY DEF NextSlot
<1> QED BY <1>1, <1>2, <1>3 DEF Up

LEMMA SkipInv ==
  ASSUME IInv, Skip
  PROVE  IInv'
<1> USE DEF IInv
<1>1. /\ server = "recv" /\ Up /\ Up' /\ server' \in {"select", "recv"}
      /\ i' \in Slots /\ left' \in 0 .. TIMEOUT /\ i \in Slots
      /\ sock_set' \subseteq sock_set /\ (server' = "recv" => i' = i + 1)
      /\ UNCHANGED <<client_sock, conn, lag, received, queue, unread, clientVars>>
  BY NextSlotStep DEF Skip, TypeOK
<1>2. TypeOK' /\ CountInv' /\ StartInv'
  BY <1>1 DEF TypeOK, CountInv, StartInv, clientVars
<1>3. ConnInv' /\ SlotsAreOpen'
  BY <1>1 DEF ConnInv, InQueue, SlotsAreOpen, Open, Watched, clientVars
<1>4. ReadyInv'
  BY <1>1 DEF ReadyInv, Readable, Eof, clientVars, Slots
<1> QED BY <1>2, <1>3, <1>4

(* A selected slot holds an open descriptor, whose client is its own.      *)
LEMMA SelectedSlot ==
  ASSUME IInv, server = "recv", Selected
  PROVE  /\ client_sock[i] \in Fd /\ client_sock[i] \in Open
         /\ conn[client_sock[i]] \in Clients /\ Readable(client_sock[i])
         /\ \A k \in Slots \ {i} : client_sock[k] # client_sock[i]
         /\ \A fd \in Open \ {client_sock[i]} :
              conn[fd] # conn[client_sock[i]]
<1> USE DEF IInv
<1>1. i \in Slots /\ client_sock[i] # 0 /\ Up /\ i >= i
  BY DEF Selected, Up, TypeOK, Slots
<1>2. client_sock[i] \in Open
  BY <1>1 DEF SlotsAreOpen, Watched
<1>3. Readable(client_sock[i])
  BY <1>1 DEF ReadyInv, Selected
<1> QED BY <1>1, <1>2, <1>3 DEF SlotsAreOpen, ConnInv, Open, TypeOK

(* recvfrom returns no more than has arrived.                              *)
LEMMA BytesBound ==
  ASSUME TypeOK, NEW c \in Clients
  PROVE  Bytes(c) \in Nat /\ Bytes(c) <= unread[c] /\ unread[c] \in Nat
<1>1. {unread[c], BUF_SIZE} \in SUBSET Nat
  BY SizesAssumption DEF TypeOK
<1> QED BY <1>1, MinIsIn DEF Bytes

(* recvfrom: other slots belong to other clients, so what they found       *)
(* readable stays so.                                                      *)
LEMMA RecvInv ==
  ASSUME IInv, Recv
  PROVE  IInv'
<1> USE SizesAssumption DEF IInv
<1> DEFINE c == conn[client_sock[i]]
           n == Bytes(c)
<1>1. /\ server = "recv" /\ Selected /\ Up /\ Up' /\ i' \in Slots
      /\ server' \in {"select", "recv"} /\ left' \in 0 .. TIMEOUT /\ i \in Slots
      /\ sock_set' \subseteq sock_set /\ (server' = "recv" => i' = i + 1)
      /\ unread[c] > 0
      /\ received' = [received EXCEPT ![c] = @ + n]
      /\ unread' = [unread EXCEPT ![c] = @ - n]
      /\ UNCHANGED <<client_sock, conn, lag, queue, clientVars>>
  BY NextSlotStep DEF Recv, TypeOK
<1>2. /\ c \in Clients /\ client_sock[i] \in Open
      /\ \A k \in Slots \ {i} : client_sock[k] # client_sock[i]
      /\ \A fd \in Open \ {client_sock[i]} : conn[fd] # c
  BY <1>1, SelectedSlot
<1>3. n \in Nat /\ n <= unread[c] /\ unread[c] \in Nat /\ received[c] \in Nat
  BY <1>2, BytesBound DEF TypeOK
<1> HIDE DEF c, n
<1>4. \A d \in Clients :
        received'[d] \in Nat /\ unread'[d] \in Nat
        /\ received'[d] + unread'[d] = received[d] + unread[d]
  <2>1. received'[c] = received[c] + n /\ unread'[c] = unread[c] - n
    BY <1>1, <1>2 DEF TypeOK
  <2>2. \A d \in Clients \ {c} :
          /\ received'[d] = received[d] /\ unread'[d] = unread[d]
          /\ received[d] \in Nat /\ unread[d] \in Nat
    BY <1>1 DEF TypeOK
  <2> QED BY <1>3, <2>1, <2>2
<1>5. CountInv'
  BY <1>1, <1>4 DEF CountInv, clientVars
<1>6. TypeOK'
  <2>1. ASSUME NEW d \in Clients
        PROVE  received'[d] \in 0 .. Messages * MsgSize
               /\ unread'[d] \in 0 .. Messages * MsgSize
    <3>1. sent[d] \in Nat /\ sent[d] <= Messages
      BY DEF TypeOK
    <3>2. sent[d] * MsgSize \in Nat /\ Messages * MsgSize \in Nat
          /\ sent[d] * MsgSize <= Messages * MsgSize
      BY <3>1, Times
    <3>3. received'[d] + unread'[d] <= sent[d] * MsgSize
      BY <1>1, <1>5 DEF CountInv, clientVars
    <3> QED BY <1>4, <3>2, <3>3
  <2>2. received' \in [Clients -> 0 .. Messages * MsgSize]
        /\ unread' \in [Clients -> 0 .. Messages * MsgSize]
    BY <1>1, <2>1 DEF TypeOK
  <2> QED BY <1>1, <2>2 DEF TypeOK, clientVars
<1>7. StartInv' /\ ConnInv' /\ SlotsAreOpen'
  BY <1>1 DEF StartInv, ConnInv, InQueue, SlotsAreOpen, Open, Watched,
     clientVars, Up
<1>8. ReadyInv'
  <2> SUFFICES ASSUME server' = "recv", NEW k \in Slots, k >= i',
                      client_sock[k] # 0, client_sock[k] \in sock_set
               PROVE  Readable(client_sock[k])'
    BY <1>1 DEF ReadyInv
  <2>1. k \in Slots \ {i} /\ k >= i
    BY <1>1 DEF Slots
  <2>2. Readable(client_sock[k])
    BY <1>1, <2>1 DEF ReadyInv
  <2>3. client_sock[k] \in Open \ {client_sock[i]}
    BY <1>1, <1>2, <2>1 DEF SlotsAreOpen, Watched
  <2>4. conn[client_sock[k]] # c /\ conn[client_sock[k]] \in Clients
    BY <1>2, <2>3 DEF Open, TypeOK
  <2> QED BY <1>1, <2>2, <2>4 DEF Readable, Eof, clientVars, TypeOK
<1> QED BY <1>5, <1>6, <1>7, <1>8

(* close: the descriptor leaves its slot and is open no more.              *)
LEMMA DisconnectedInv ==
  ASSUME IInv, Disconnected
  PROVE  IInv'
<1> USE DEF IInv
<1> DEFINE gone == client_sock[i]
<1>1. /\ server = "recv" /\ Selected /\ Up /\ Up' /\ i' \in Slots
      /\ server' \in {"select", "recv"} /\ left' \in 0 .. TIMEOUT /\ i \in Slots
      /\ sock_set' \subseteq sock_set /\ (server' = "recv" => i' = i + 1)
      /\ conn' = [conn EXCEPT ![gone] = Nobody]
      /\ client_sock' = [client_sock EXCEPT ![i] = 0]
      /\ UNCHANGED <<lag, received, queue, unread, clientVars>>
  BY NextSlotStep DEF Disconnected, TypeOK
<1>2. /\ gone \in Fd /\ gone \in Open
      /\ \A k \in Slots \ {i} : client_sock[k] # gone
  BY <1>1, SelectedSlot
<1> HIDE DEF gone
<1>3. TypeOK' /\ CountInv'
  BY <1>1, <1>2 DEF TypeOK, CountInv, clientVars
<1>4. Open' = Open \ {gone} /\ \A fd \in Open \ {gone} : conn'[fd] = conn[fd]
  BY <1>1, <1>2 DEF TypeOK, Open
<1>5. client_sock'[i] = 0
      /\ \A k \in Slots \ {i} : client_sock'[k] = client_sock[k]
  BY <1>1 DEF TypeOK
<1>6. StartInv' /\ ConnInv'
  BY <1>1, <1>4 DEF StartInv, ConnInv, InQueue, clientVars
<1>7. SlotsAreOpen'
  <2>1. Watched' = Watched \ {gone}
    BY <1>1, <1>2, <1>5 DEF Watched, gone
  <2> QED BY <1>1, <1>4, <1>5, <2>1 DEF SlotsAreOpen
<1>8. ReadyInv'
  <2> SUFFICES ASSUME server' = "recv", NEW k \in Slots, k >= i',
                      client_sock'[k] # 0, client_sock'[k] \in sock_set
               PROVE  Readable(client_sock[k])'
    BY <1>1 DEF ReadyInv
  <2>1. k \in Slots \ {i} /\ k >= i
    BY <1>1 DEF Slots
  <2>2. Readable(client_sock[k]) /\ client_sock[k] \in Open \ {gone}
    BY <1>1, <1>2, <1>5, <2>1 DEF ReadyInv, SlotsAreOpen, Watched
  <2> QED BY <1>1, <1>4, <1>5, <2>1, <2>2 DEF Readable, Eof, clientVars
<1> QED BY <1>3, <1>6, <1>7, <1>8

(* The clients and the clock: what is readable stays readable.             *)
LEMMA ConnectInv ==
  ASSUME IInv, NEW c \in Clients, Connect(c)
  PROVE  IInv'
<1> USE DEF IInv, servVars
<1>1. /\ client[c] = "input" /\ ~InQueue(c) /\ \A fd \in Open : conn[fd] # c
      /\ UNCHANGED <<servVars, unread, sent, timer>>
      /\ queue \in Seq(Clients) /\ Len(queue) \in Nat
  BY DEF Connect, ConnInv, TypeOK
<1>2. CountInv' /\ Up' = Up /\ Open' = Open /\ SlotsAreOpen'
  BY <1>1 DEF CountInv, Up, Open, SlotsAreOpen, Watched
<1>3. CASE ~Up
  <2>1. client' = [client EXCEPT ![c] = "refused"] /\ queue' = queue
    BY <1>3 DEF Connect
  <2>2. TypeOK' /\ StartInv'
    BY <1>1, <1>2, <1>3, <2>1 DEF TypeOK, StartInv
  <2>3. ConnInv'
    BY <1>1, <1>2, <2>1 DEF ConnInv, InQueue, TypeOK
  <2>4. ReadyInv'
    BY <1>1, <1>3, <2>1 DEF ReadyInv, Up
  <2> QED BY <1>2, <2>2, <2>3, <2>4
<1>4. CASE Up
  <2>1. client' = [client EXCEPT ![c] = "loop"] /\ queue' = Append(queue, c)
    BY <1>4 DEF Connect
  <2>2. /\ queue' \in Seq(Clients) /\ Len(queue') = Len(queue) + 1
        /\ queue' # <<>> /\ queue'[Len(queue) + 1] = c
        /\ \A k \in 1 .. Len(queue) : queue'[k] = queue[k]
    BY <1>1, <2>1
  <2>3. TypeOK' /\ StartInv'
    BY <1>1, <1>2, <1>4, <2>1, <2>2 DEF TypeOK, StartInv, Up
  <2>4. ConnInv'
    <3>1. \A k \in 1 .. Len(queue') :
            \/ k \in 1 .. Len(queue) /\ queue'[k] = queue[k]
            \/ k = Len(queue) + 1 /\ queue'[k] = c
      BY <1>1, <2>2
    <3>2. \A k, m \in 1 .. Len(queue') : queue'[k] = queue'[m] => k = m
      BY <1>1, <3>1 DEF ConnInv, InQueue
    <3>3. \A fd \in Open, k \in 1 .. Len(queue') : queue'[k] # conn[fd]
      BY <1>1, <3>1 DEF ConnInv, InQueue
    <3>4. ASSUME NEW d \in Clients, client'[d] \in {"input", "refused"}
          PROVE  /\ \A k \in 1 .. Len(queue') : queue'[k] # d
                 /\ \A fd \in Open : conn[fd] # d
      <4>1. d # c /\ client[d] \in {"input", "refused"}
        BY <2>1, <3>4 DEF TypeOK
      <4> QED BY <3>1, <4>1 DEF ConnInv, InQueue
    <3> QED BY <1>1, <1>2, <3>2, <3>3, <3>4 DEF ConnInv, InQueue
  <2>5. ReadyInv'
    <3>1. ASSUME NEW k \in Slots, client_sock[k] # 0, Readable(client_sock[k])
          PROVE  Readable(client_sock[k])'
      <4>1. client_sock[k] \in Open /\ conn[client_sock[k]] # c
        BY <1>1, <1>4, <3>1 DEF SlotsAreOpen, Watched
      <4>2. conn[client_sock[k]] \in Clients
        BY <4>1 DEF Open, TypeOK
      <4> QED BY <1>1, <2>1, <3>1, <4>1, <4>2 DEF Readable, Eof, TypeOK
    <3> QED BY <1>1, <2>2, <3>1 DEF ReadyInv, Watched
  <2> QED BY <1>2, <2>3, <2>4, <2>5
<1> QED BY <1>3, <1>4

LEMMA SendInv ==
  ASSUME IInv, NEW c \in Clients, Send(c)
  PROVE  IInv'
<1> USE SizesAssumption DEF IInv, servVars
<1>1. /\ Up /\ client[c] = "loop" /\ sent[c] < Messages /\ sent[c] \in Nat
      /\ sent' = [sent EXCEPT ![c] = @ + 1]
      /\ unread' = [unread EXCEPT ![c] = @ + MsgSize]
      /\ timer' = [timer EXCEPT ![c] = SLEEP]
      /\ UNCHANGED <<servVars, queue, client>> /\ MsgSize \in Nat \ {0}
      /\ Messages \in Nat
  BY DEF Send, TypeOK
<1>2. /\ sent'[c] = sent[c] + 1 /\ unread'[c] = unread[c] + MsgSize
      /\ (sent[c] + 1) * MsgSize = sent[c] * MsgSize + MsgSize
      /\ (sent[c] + 1) * MsgSize <= Messages * MsgSize
      /\ sent[c] * MsgSize \in Nat /\ Messages * MsgSize \in Nat
      /\ unread[c] \in Nat /\ received[c] \in Nat
      /\ received[c] + unread[c] = sent[c] * MsgSize
  <2>1. (sent[c] + 1) * MsgSize <= Messages * MsgSize
        /\ (sent[c] + 1) * MsgSize = sent[c] * MsgSize + MsgSize
        /\ sent[c] * MsgSize \in Nat /\ Messages * MsgSize \in Nat
    <3>1. sent[c] + 1 \in Nat /\ sent[c] + 1 <= Messages
      BY <1>1
    <3> QED BY <1>1, <3>1, Times
  <2>2. unread[c] \in Nat /\ received[c] \in Nat
    BY <2>1 DEF TypeOK
  <2> QED BY <1>1, <2>1, <2>2 DEF CountInv, TypeOK
<1>3. \A d \in Clients \ {c} : sent'[d] = sent[d] /\ unread'[d] = unread[d]
  BY <1>1 DEF TypeOK
<1>4. CountInv'
  <2> SUFFICES ASSUME NEW d \in Clients
               PROVE  received'[d] + unread'[d] = sent'[d] * MsgSize
    BY <1>1, <1>2 DEF CountInv, Up, TypeOK
  <2>1. CASE d = c
    BY <1>1, <1>2, <2>1
  <2>2. CASE d # c
    BY <1>1, <1>3, <2>2 DEF CountInv
  <2> QED BY <2>1, <2>2
<1>5. TypeOK'
  <2>1. unread'[c] \in 0 .. Messages * MsgSize /\ sent'[c] \in 0 .. Messages
    BY <1>1, <1>2
  <2>2. unread' \in [Clients -> 0 .. Messages * MsgSize]
        /\ sent' \in [Clients -> 0 .. Messages]
        /\ timer' \in [Clients -> 0 .. SLEEP]
    BY <1>1, <2>1 DEF TypeOK
  <2> QED BY <1>1, <2>2 DEF TypeOK
<1>6. StartInv'
  BY <1>1 DEF StartInv, Open, Up
<1>8. ConnInv' /\ SlotsAreOpen'
  BY <1>1 DEF ConnInv, InQueue, SlotsAreOpen, Open, Watched, Up
<1>7. ReadyInv'
  <2>1. \A d \in Clients : unread[d] > 0 => unread'[d] > 0
    BY <1>1, <1>2, <1>3
  <2>2. ASSUME NEW k \in Slots, client_sock[k] # 0, Readable(client_sock[k])
        PROVE  Readable(client_sock[k])'
    <3>1. conn[client_sock[k]] \in Clients
      BY <1>1, <2>2 DEF SlotsAreOpen, Watched, Open, TypeOK
    <3> QED BY <1>1, <2>1, <2>2, <3>1 DEF Readable, Eof
  <2> QED BY <1>1, <2>2 DEF ReadyInv, Watched
<1> QED BY <1>4, <1>5, <1>6, <1>7, <1>8

LEMMA LeaveInv ==
  ASSUME IInv, NEW c \in Clients, SendFails(c) \/ Close(c)
  PROVE  IInv'
<1> USE SizesAssumption DEF IInv, servVars
<1>1. /\ client[c] = "loop" /\ client' = [client EXCEPT ![c] = "closed"]
      /\ timer' = [timer EXCEPT ![c] = 0]
      /\ UNCHANGED <<servVars, queue, unread, sent>>
  BY DEF SendFails, Close
<1>2. TypeOK' /\ CountInv'
  BY <1>1 DEF TypeOK, CountInv, Up
<1>3. StartInv'
  BY <1>1 DEF StartInv, Open, Up, TypeOK
<1>4. SlotsAreOpen' /\ Open' = Open /\ Watched' = Watched
  BY <1>1 DEF SlotsAreOpen, Open, Watched, Up
<1>5. ConnInv'
  BY <1>1, <1>4 DEF ConnInv, InQueue, TypeOK
<1>6. ASSUME NEW d \in Clients, Eof(d) PROVE Eof(d)'
  BY <1>1, <1>6 DEF Eof, TypeOK
<1>7. ReadyInv'
  <2>1. ASSUME Up, NEW k \in Slots, client_sock[k] # 0,
               Readable(client_sock[k])
        PROVE  Readable(client_sock[k])'
    <3>1. conn[client_sock[k]] \in Clients
      BY <2>1 DEF SlotsAreOpen, Watched, Open, TypeOK
    <3> QED BY <1>1, <1>6, <2>1, <3>1 DEF Readable
  <2> QED BY <1>1, <1>4, <2>1 DEF ReadyInv, Up
<1> QED BY <1>2, <1>3, <1>4, <1>5, <1>7

LEMMA TickInv ==
  ASSUME IInv, Tick
  PROVE  IInv'
<1> USE SizesAssumption DEF IInv
<1>1. /\ left' \in 0 .. TIMEOUT /\ lag' \in 0 .. MaxLag
      /\ timer' \in [Clients -> 0 .. SLEEP]
      /\ UNCHANGED <<server, client_sock, conn, sock_set, i, received, queue,
                     unread, client, sent>>
  BY DEF Tick, TypeOK
<1>2. TypeOK' /\ CountInv' /\ StartInv'
  BY <1>1 DEF TypeOK, CountInv, StartInv, Open, Up
<1>3. ConnInv' /\ SlotsAreOpen'
  BY <1>1 DEF ConnInv, InQueue, SlotsAreOpen, Open, Watched, Up
<1>4. ReadyInv'
  BY <1>1 DEF ReadyInv, Readable, Eof, Watched
<1> QED BY <1>2, <1>3, <1>4

LEMMA NextInv == IInv /\ [Next]_vars => IInv'
<1> SUFFICES ASSUME IInv, [Next]_vars PROVE IInv'
  OBVIOUS
<1>1. CASE \E how \in {"timeout", "failed", "crashed", "interrupted"} : End(how)
  BY <1>1, EndInv
<1>2. CASE Fails \/ Interrupt \/ SelectTimeout \/ AcceptOverfull
  BY <1>1, <1>2 DEF Fails, Interrupt, SelectTimeout, AcceptOverfull
<1>3. CASE Listen \/ SelectReady \/ Accept \/ Skip \/ Recv \/ Disconnected \/ Tick
  BY <1>3, ListenInv, SelectInv, AcceptInv, SkipInv, RecvInv, DisconnectedInv,
     TickInv
<1>4. CASE \E c \in Clients : Client(c)
  BY <1>4, ConnectInv, SendInv, LeaveInv DEF Client
<1>5. CASE UNCHANGED vars
  BY <1>5 DEF vars, servVars, clientVars, IInv, TypeOK, CountInv, StartInv,
     ConnInv, InQueue, SlotsAreOpen, ReadyInv, Readable, Eof, Open, Watched, Up
<1> QED BY <1>2, <1>3, <1>4, <1>5 DEF Next, Server

LEMMA Invariance == Spec => []IInv
<1> QED BY InitInv, NextInv, PTL DEF Spec

(* Every variable stays in its range: in particular no client's bytes are  *)
(* printed twice.                                                          *)
THEOREM TypeCorrect == Spec => []TypeOK
<1> QED BY Invariance, PTL DEF IInv

(* What is open is in the slots, each descriptor once.                     *)
THEOREM SlotsOpen == Spec => []SlotsAreOpen
<1> QED BY Invariance, PTL DEF IInv

(* The server waits in no call but select, although its sockets block and  *)
(* descriptors are used again.                                             *)
THEOREM ServerNeverBlocks == Spec => []NeverBlocks
<1>1. IInv => NeverBlocks
  BY SelectedSlot DEF IInv, NeverBlocks, ReadyInv, Open, TypeOK
<1> QED BY <1>1, Invariance, PTL

(* Who is connected stays so until the server has seen the end.            *)
LEMMA StaysConnected ==
  ASSUME IInv, Next, NEW c \in Connected, Up'
  PROVE  c \in Connected' \/ (Eof(c) /\ unread[c] = 0)
<1> USE SizesAssumption DEF IInv
<1>1. /\ c \in Clients /\ queue \in Seq(Clients)
      /\ \/ \E fd \in Open : conn[fd] = c
         \/ \E k \in 1 .. Len(queue) : queue[k] = c
  <2>1. /\ queue \in Seq(Clients) /\ DOMAIN queue = 1 .. Len(queue)
        /\ \A k \in 1 .. Len(queue) : queue[k] \in Clients
    BY DEF TypeOK
  <2>2. \A fd \in Open : conn[fd] \in Clients
    BY DEF Open, TypeOK
  <2>3. c \in {conn[fd] : fd \in Open} \/ c \in {queue[k] : k \in DOMAIN queue}
    BY DEF Connected, Range
  <2> QED BY <2>1, <2>2, <2>3
<1>2. Up
  BY <1>1 DEF StartInv
<1>5. CASE Disconnected
  <2>1. /\ unread[conn[client_sock[i]]] = 0 /\ queue' = queue
        /\ Eof(conn[client_sock[i]])
        /\ conn' = [conn EXCEPT ![client_sock[i]] = Nobody]
    BY <1>5 DEF Disconnected
  <2>2. CASE c = conn[client_sock[i]]
    BY <2>1, <2>2
  <2>3. CASE \E fd \in Open : conn[fd] = c /\ fd # client_sock[i]
    <3>1. PICK fd \in Open : conn[fd] = c /\ fd # client_sock[i]
      BY <2>3
    <3>2. fd \in Open' /\ conn'[fd] = c
      BY <2>1, <3>1 DEF Open, TypeOK
    <3> QED BY <3>2 DEF Connected
  <2>4. CASE \E k \in 1 .. Len(queue) : queue[k] = c
    BY <1>1, <2>1, <2>4 DEF Connected, Range
  <2> QED BY <1>1, <2>2, <2>3, <2>4
<1>6. CASE Accept
  <2> DEFINE new == Min(Fd \ Open)
  <2>1. /\ conn' = [conn EXCEPT ![new] = Head(queue)]
        /\ queue' = Tail(queue) /\ queue # <<>>
    BY <1>6 DEF Accept, ReadyInv
  <2>2. new \in Fd /\ new \notin Open
    BY <1>2, FreeDescriptor
  <2> HIDE DEF new
  <2>3. conn'[new] = queue[1] /\ queue[1] \in Clients
        /\ \A fd \in Open : conn'[fd] = conn[fd]
    BY <1>1, <2>1, <2>2 DEF TypeOK, Open
  <2>4. Open' = Open \cup {new}
    BY <2>1, <2>2, <2>3, ClientsAssumption DEF TypeOK, Open
  <2>5. CASE \E fd \in Open : conn[fd] = c
    BY <2>3, <2>4, <2>5 DEF Connected
  <2>6. CASE c = queue[1]
    BY <2>3, <2>4, <2>6 DEF Connected
  <2>7. CASE \E k \in 2 .. Len(queue) : queue[k] = c
    <3>1. PICK k \in 2 .. Len(queue) : queue[k] = c
      BY <2>7
    <3>2. k - 1 \in 1 .. Len(queue') /\ queue'[k - 1] = c /\ queue' \in Seq(Clients)
      BY <1>1, <2>1, <3>1
    <3> QED BY <3>2 DEF Connected, Range
  <2> QED BY <1>1, <2>5, <2>6, <2>7
<1>7. CASE \E d \in Clients : Client(d)
  <2>1. conn' = conn /\ (queue' = queue \/ \E d \in Clients : queue' = Append(queue, d))
    BY <1>7 DEF Client, Connect, Send, SendFails, Close, servVars
  <2>2. /\ queue' \in Seq(Clients) /\ Len(queue) <= Len(queue')
        /\ \A k \in 1 .. Len(queue) : k \in 1 .. Len(queue') /\ queue'[k] = queue[k]
    <3>1. CASE queue' = queue
      BY <1>1, <3>1
    <3>2. ASSUME NEW d \in Clients, queue' = Append(queue, d) PROVE <2>2
      BY <1>1, <3>2
    <3> QED BY <2>1, <3>1, <3>2
  <2> QED BY <1>1, <2>1, <2>2 DEF Connected, Range, Open
<1>8. CASE Listen \/ SelectReady \/ Skip \/ Recv \/ Tick
  BY <1>8 DEF Listen, SelectReady, Skip, Recv, Tick, Connected, Range, Open
<1>9. ~Fails /\ ~Interrupt /\ ~SelectTimeout /\ ~AcceptOverfull
  BY DEF Fails, Interrupt, SelectTimeout, AcceptOverfull, End, Up
<1> QED BY <1>5, <1>6, <1>7, <1>8, <1>9 DEF Next, Server

(* select finds nothing exactly when nobody has anything for it.           *)
LEMMA NothingReady ==
  ASSUME IInv, Up, Ready = {}
  PROVE  queue = <<>> /\ \A fd \in Open : ~Readable(fd)
BY DEF IInv, SlotsAreOpen, Ready

LEMMA KeptStep ==
  ASSUME IInv, Next, NEW c \in Connected, Up' \/ server' = "timeout"
  PROVE  received[c] = sent[c] * MsgSize \/ c \in Connected'
<1> USE SizesAssumption DEF IInv
<1>1. /\ c \in Clients
      /\ queue # <<>> \/ \E fd \in Open : conn[fd] = c
  <2>1. queue \in Seq(Clients) /\ \A fd \in Open : conn[fd] \in Clients
    BY DEF Open, TypeOK
  <2>2. \/ \E fd \in Open : conn[fd] = c
        \/ \E k \in DOMAIN queue : queue[k] = c
    BY DEF Connected, Range
  <2>3. (\E k \in DOMAIN queue : queue[k] = c) => c \in Clients /\ queue # <<>>
    BY <2>1
  <2> QED BY <2>1, <2>2, <2>3
<1>2. Up /\ received[c] + unread[c] = sent[c] * MsgSize
  BY <1>1 DEF StartInv, CountInv
<1>3. received[c] \in Nat /\ unread[c] \in Nat
  BY <1>1 DEF TypeOK
<1>4. unread[c] = 0 \/ c \in Connected'
  <2>1. CASE Up'
    BY <2>1, StaysConnected
  <2>2. CASE ~Up'
    <3>1. SelectTimeout
      BY <1>2, <2>2 DEF Next, Server, Listen, Fails, Interrupt, SelectReady,
         Accept, AcceptOverfull, Skip, Recv, Disconnected, NextSlot, Client,
         Connect, Send, SendFails, Close, Tick, End, Up, servVars
    <3>2. queue = <<>> /\ \A fd \in Open : ~Readable(fd)
      BY <1>2, <3>1, NothingReady DEF SelectTimeout
    <3> QED BY <1>1, <1>3, <3>2 DEF Readable
  <2> QED BY <2>1, <2>2
<1> QED BY <1>2, <1>3, <1>4

(* A client's connection ends, or the server's waiting, only when all that *)
(* was sent has been printed.                                              *)
THEOREM NoByteLost == Spec => NothingLost
<1> DEFINE Kept == \A c \in Connected :
                     Up' \/ server' = "timeout" =>
                       received[c] = sent[c] * MsgSize \/ c \in Connected'
<1>1. ASSUME IInv, Next PROVE Kept
  BY <1>1, KeptStep
<1>2. IInv /\ [Next]_vars => [Kept]_vars
  BY <1>1
<1> QED BY <1>2, Invariance, PTL DEF Spec, NothingLost

-----------------------------------------------------------------------------

(* A client that has not closed is connected; and as long as there is      *)
(* nothing for select, its next message is due at least TIMEOUT - SLEEP    *)
(* seconds before select gives up.                                         *)
TimeInv ==
  /\ Up => \A c \in Clients : client[c] = "loop" => c \in Connected
  /\ server = "select" =>
       Ready # {} \/ \A c \in Clients : client[c] = "loop" =>
                       left >= TIMEOUT - SLEEP + timer[c]

LEMMA TimeStep == IInv /\ IInv' /\ TimeInv /\ [Next]_vars => TimeInv'
<1> SUFFICES ASSUME IInv, IInv', TimeInv, [Next]_vars PROVE TimeInv'
  OBVIOUS
<1> USE SizesAssumption
<1> TypeOK /\ TypeOK'
  BY DEF IInv
<1>1. CASE UNCHANGED vars
  BY <1>1 DEF vars, servVars, clientVars, TimeInv, Up, Connected, Range, Open,
     Ready, Readable, Eof, Watched
<1>2. CASE Next
  <2>1. ASSUME Up', NEW c \in Clients, client'[c] = "loop"
        PROVE  c \in Connected'
    <3>1. CASE Up /\ client[c] = "loop"
      BY <1>2, <2>1, <3>1, StaysConnected DEF TimeInv, Eof
    <3>2. CASE ~Up
      <4>1. Listen
        BY <1>2, <2>1, <3>2 DEF Next, Server, Fails, Interrupt, SelectTimeout,
           SelectReady, Accept, AcceptOverfull, Skip, Recv, Disconnected,
           Client, Connect, Send, SendFails, Close, Tick, End, Up, servVars
      <4> QED BY <2>1, <4>1 DEF Listen, IInv, StartInv, clientVars
    <3>3. CASE Up /\ client[c] # "loop"
      <4>1. queue' = Append(queue, c)
        BY <1>2, <2>1, <3>3 DEF Next, Server, Listen, Fails, Interrupt,
           SelectTimeout, SelectReady, Accept, AcceptOverfull, Skip, Recv,
           Disconnected, Client, Connect, Send, SendFails, Close, Tick, End,
           Up, servVars, clientVars, TypeOK
      <4>2. Len(queue) + 1 \in DOMAIN queue' /\ queue'[Len(queue) + 1] = c
        <5>1. queue \in Seq(Clients)
          BY DEF TypeOK
        <5> QED BY <4>1, <5>1
      <4> QED BY <4>2 DEF Connected, Range
    <3> QED BY <3>1, <3>2, <3>3
  <2>2. ASSUME server' = "select", Ready' = {},
               NEW c \in Clients, client'[c] = "loop"
        PROVE  left' >= TIMEOUT - SLEEP + timer'[c]
    <3>1. Up' /\ queue' = <<>> /\ \A fd \in Open' : ~Readable(fd)'
      BY <2>2 DEF IInv, SlotsAreOpen, Ready, Up
    <3>2. CASE Listen
      BY <2>2, <3>2 DEF Listen, IInv, StartInv, clientVars
    <3>3. CASE Skip \/ Recv \/ Disconnected
      <4>1. left' = TIMEOUT /\ timer' = timer
        BY <2>2, <3>3 DEF Skip, Recv, Disconnected, NextSlot, clientVars
      <4> QED BY <4>1 DEF TypeOK
    <3>4. ASSUME NEW d \in Clients, Connect(d) PROVE FALSE
      <4>1. queue' = Append(queue, d)
        BY <2>2, <3>4 DEF Connect, Up, servVars
      <4>2. queue \in Seq(Clients)
        BY DEF TypeOK
      <4> QED BY <3>1, <4>1, <4>2
    <3>5. ASSUME NEW d \in Clients, Send(d) PROVE FALSE
      <4>1. /\ Up /\ client[d] = "loop" /\ unread'[d] > 0
            /\ queue' = queue /\ conn' = conn
        BY <3>5 DEF Send, servVars, TypeOK
      <4>2. d \in Connected
        BY <4>1 DEF TimeInv
      <4>3. \E fd \in Open : conn[fd] = d
        BY <3>1, <4>1, <4>2 DEF Connected, Range
      <4> QED BY <3>1, <4>1, <4>3 DEF Readable, Open
    <3>6. ASSUME NEW d \in Clients, SendFails(d) \/ Close(d)
          PROVE  left' >= TIMEOUT - SLEEP + timer'[c]
      <4>1. /\ client' = [client EXCEPT ![d] = "closed"]
            /\ timer' = [timer EXCEPT ![d] = 0]
            /\ UNCHANGED <<servVars, queue, unread, sent>>
        BY <3>6 DEF SendFails, Close
      <4>2. client[c] = "loop" /\ timer'[c] = timer[c] /\ left' = left
            /\ server = "select"
        BY <2>2, <4>1 DEF TypeOK, servVars
      <4>3. \A e \in Clients : Eof(e) => Eof(e)'
        BY <4>1 DEF Eof, TypeOK
      <4>4. Ready = {}
        <5>1. Up /\ UNCHANGED <<conn, unread, Open, queue>>
          BY <4>1, <4>2 DEF Up, Open, servVars
        <5>2. \A fd \in Open : conn[fd] \in Clients
          BY DEF Open, TypeOK
        <5>3. \A fd \in Open : ~Readable(fd)
          BY <3>1, <4>3, <5>1, <5>2 DEF Readable
        <5> QED BY <3>1, <5>1, <5>3 DEF IInv, SlotsAreOpen, Ready
      <4> QED BY <4>2, <4>4 DEF TimeInv
    <3>7. CASE Tick
      <4>1. /\ server = "select" /\ client[c] = "loop" /\ timer[c] > 0
            /\ Ready = {} /\ left' = left - 1 /\ timer'[c] = timer[c] - 1
        <5>1. Ready' = Ready
          BY <3>7 DEF Tick, Ready, Readable, Eof, Watched
        <5> QED BY <2>2, <3>7, <5>1 DEF Tick, Behind
      <4>2. left >= TIMEOUT - SLEEP + timer[c]
        BY <4>1 DEF TimeInv
      <4>3. left \in Int /\ timer[c] \in Int /\ TIMEOUT \in Int /\ SLEEP \in Int
        BY DEF TypeOK
      <4> QED BY <4>1, <4>2, <4>3
    <3>8. ~Fails /\ ~Interrupt /\ ~SelectTimeout /\ ~AcceptOverfull
          /\ ~SelectReady /\ ~Accept
      BY <2>2 DEF Fails, Interrupt, SelectTimeout, AcceptOverfull, SelectReady,
         Accept, End
    <3> QED BY <1>2, <3>2, <3>3, <3>4, <3>5, <3>6, <3>7, <3>8
            DEF Next, Server, Client
  <2> QED BY <2>1, <2>2 DEF TimeInv
<1> QED BY <1>1, <1>2

LEMMA TimeInvariance == Spec => []TimeInv
<1>1. Init => TimeInv
  BY DEF Init, TimeInv, Up
<1> QED BY <1>1, Invariance, TimeStep, PTL DEF Spec

(* select gives up only when all clients have gone.                        *)
THEOREM TimeoutAlone == Spec => TimeoutOnlyWhenAlone
<1> DEFINE Alone == server # "timeout" /\ server' = "timeout"
                      => \A c \in Clients : client[c] # "loop"
<1>1. ASSUME IInv, TimeInv, Next PROVE Alone
  <2> SUFFICES ASSUME server # "timeout", server' = "timeout",
                      NEW c \in Clients, client[c] = "loop"
               PROVE  FALSE
    OBVIOUS
  <2>1. SelectTimeout
    BY <1>1 DEF Next, Server, Listen, Fails, Interrupt, SelectReady,
       Accept, AcceptOverfull, Skip, Recv, Disconnected, NextSlot, Client,
       Connect, Send, SendFails, Close, Tick, End, servVars
  <2>2. 0 >= TIMEOUT - SLEEP + timer[c] /\ timer[c] \in Nat
    BY <1>1, <2>1 DEF SelectTimeout, TimeInv, IInv, TypeOK
  <2> QED BY <2>2, SizesAssumption, PeriodAssumption
<1>2. IInv /\ TimeInv /\ [Next]_vars => [Alone]_vars
  BY <1>1
<1> QED BY <1>2, Invariance, TimeInvariance, PTL DEF Spec, TimeoutOnlyWhenAlone

-----------------------------------------------------------------------------

(* When something of a client waits, the client is connected.              *)
UnreadInv == \A c \in Clients : Up /\ unread[c] > 0 => c \in Connected

(* The time until its next message and the time that the server has worked *)
(* without a pause then make a whole period; and with more than a message  *)
(* waiting the server alone has worked so long.                            *)
PeriodInv ==
  \A c \in Clients :
    /\ ~Up \/ client[c] \in {"input", "refused"} => unread[c] = 0
    /\ client[c] = "loop" /\ unread[c] > 0 => timer[c] + lag >= SLEEP
    /\ unread[c] > MsgSize => lag >= SLEEP

LagInv == UnreadInv /\ PeriodInv

(* A connected client that has something unread is found by select.        *)
LEMMA UnreadIsReady ==
  ASSUME IInv, LagInv, Up, Ready = {}, NEW c \in Clients
  PROVE  unread[c] = 0
<1>1. unread[c] \in Nat
  BY DEF IInv, TypeOK
<1>2. SUFFICES ASSUME unread[c] > 0 PROVE FALSE
  BY <1>1
<1>3. c \in Connected
  BY <1>2 DEF LagInv, UnreadInv
<1>4. queue = <<>> /\ \A fd \in Open : ~Readable(fd)
  BY NothingReady
<1>5. \E fd \in Open : conn[fd] = c
  BY <1>3, <1>4 DEF Connected, Range
<1> QED BY <1>2, <1>4, <1>5 DEF Readable

(* Who is connected and has something unread stays connected.              *)
LEMMA UnreadStays ==
  ASSUME IInv, TimeInv, LagInv, Next, Up', NEW c \in Clients, unread'[c] > 0
  PROVE  c \in Connected'
<1> USE SizesAssumption
<1>1. TypeOK
  BY DEF IInv
<1>2. CASE Up /\ unread[c] > 0
  BY <1>2, StaysConnected DEF LagInv, UnreadInv
<1>3. CASE ~Up
  <2>1. Listen
    BY <1>3 DEF Next, Server, Fails, Interrupt, SelectTimeout,
       SelectReady, Accept, AcceptOverfull, Skip, Recv, Disconnected,
       Client, Connect, Send, SendFails, Close, Tick, End, Up, servVars
  <2> QED BY <2>1 DEF Listen, IInv, StartInv
<1>4. CASE Up /\ ~(unread[c] > 0)
  <2>1. unread[c] = 0
    BY <1>1, <1>4 DEF TypeOK
  <2>2. ~Recv
    <3> SUFFICES ASSUME Recv PROVE FALSE
      OBVIOUS
    <3> DEFINE d == conn[client_sock[i]]
               n == Bytes(d)
    <3>1. server = "recv" /\ Selected /\ unread[d] > 0
          /\ unread' = [unread EXCEPT ![d] = @ - n]
      BY DEF Recv
    <3> HIDE DEF d, n
    <3>2. c # d /\ unread'[c] = unread[c]
      BY <1>1, <2>1, <3>1 DEF TypeOK
    <3> QED BY <2>1, <3>2
  <2>3. unread' # unread
    BY <2>1
  <2>4. ~\E how \in {"timeout", "failed", "crashed", "interrupted"} : End(how)
    BY DEF End, Up
  <2>5. \E d \in Clients : Send(d)
    BY <2>2, <2>3, <2>4 DEF Next, Server, Listen, Fails, Interrupt,
       SelectTimeout, SelectReady, Accept, AcceptOverfull, Skip, Disconnected,
       Client, Connect, SendFails, Close, Tick
  <2>6. Send(c)
    <3>1. PICK d \in Clients : Send(d)
      BY <2>5
    <3>2. d # c => unread'[c] = unread[c]
      BY <1>1, <3>1 DEF Send, TypeOK
    <3> QED BY <2>1, <3>1, <3>2
  <2>7. client[c] = "loop" /\ UNCHANGED <<servVars, queue>>
    BY <2>6 DEF Send
  <2>8. c \in Connected
    BY <1>4, <2>7 DEF TimeInv
  <2> QED BY <2>7, <2>8 DEF Connected, Range, Open, servVars
<1> QED BY <1>2, <1>3, <1>4

(* While the server has worked for less than a period it finds a client's  *)
(* last message gone or its next one not due.                              *)
LEMMA LagStep == IInv /\ IInv' /\ LagInv /\ [Next]_vars => PeriodInv'
<1> SUFFICES ASSUME IInv, IInv', LagInv, [Next]_vars PROVE PeriodInv'
  OBVIOUS
<1> USE SizesAssumption
<1> TypeOK /\ TypeOK'
  BY DEF IInv
<1> PeriodInv
  BY DEF LagInv
<1>0. MsgSize \in Nat /\ SLEEP \in Nat /\ lag \in Nat
      /\ \A c \in Clients : unread[c] \in Nat /\ timer[c] \in Nat
  BY DEF TypeOK
<1>1. CASE UNCHANGED vars
  BY <1>1 DEF vars, servVars, clientVars, PeriodInv, Up
<1>2. CASE Listen \/ SelectReady \/ Accept \/ Skip
  <2>1. /\ UNCHANGED <<lag, unread, client, timer>>
        /\ Up' /\ (Up \/ \A c \in Clients : unread[c] = 0)
    BY <1>2 DEF Listen, SelectReady, Accept, Skip, NextSlot, clientVars, Up,
       IInv, StartInv
  <2> QED BY <2>1 DEF PeriodInv
<1>3. ASSUME NEW how, End(how) PROVE PeriodInv'
  <2>1. \A c \in Clients : unread'[c] = 0
    BY <1>3 DEF End
  <2> QED BY <1>0, <2>1 DEF PeriodInv
<1>4. CASE Fails \/ Interrupt \/ SelectTimeout \/ AcceptOverfull
  BY <1>3, <1>4 DEF Fails, Interrupt, SelectTimeout, AcceptOverfull
<1>5. CASE Recv
  <2>1. /\ Up /\ Up' /\ UNCHANGED <<lag, client, timer>>
        /\ \A c \in Clients : unread'[c] <= unread[c] /\ unread'[c] \in Nat
    <3> DEFINE c == conn[client_sock[i]]
               n == Bytes(c)
    <3>1. /\ server = "recv" /\ Selected /\ unread[c] > 0
          /\ unread' = [unread EXCEPT ![c] = @ - n]
          /\ UNCHANGED <<lag, client, timer>> /\ Up /\ Up'
      BY <1>5 DEF Recv, NextSlot, Up, clientVars
    <3>2. c \in Clients
      BY <3>1, SelectedSlot
    <3>3. n \in Nat /\ n <= unread[c]
      BY <3>2, BytesBound
    <3> HIDE DEF c, n
    <3>4. \A d \in Clients : unread'[d] = IF d = c THEN unread[c] - n ELSE unread[d]
      BY <3>1, <3>2 DEF TypeOK
    <3> QED BY <1>0, <3>1, <3>3, <3>4
  <2> QED BY <1>0, <2>1 DEF PeriodInv
<1>6. CASE Disconnected
  BY <1>6 DEF Disconnected, NextSlot, PeriodInv, Up, clientVars
<1>7. ASSUME NEW c \in Clients, Connect(c) PROVE PeriodInv'
  <2>1. /\ UNCHANGED <<Up, lag, unread, timer>> /\ unread[c] = 0
        /\ \A d \in Clients \ {c} : client'[d] = client[d]
    BY <1>7 DEF Connect, servVars, Up, PeriodInv, TypeOK
  <2> QED BY <1>0, <2>1 DEF PeriodInv
<1>8. ASSUME NEW c \in Clients, Send(c) PROVE PeriodInv'
  <2>1. /\ Up /\ Up' /\ lag' = lag /\ client' = client /\ client[c] = "loop"
        /\ timer[c] = 0 /\ timer'[c] = SLEEP /\ unread'[c] = unread[c] + MsgSize
        /\ \A d \in Clients \ {c} :
             unread'[d] = unread[d] /\ timer'[d] = timer[d]
    BY <1>8 DEF Send, servVars, Up, TypeOK
  <2>2. unread[c] > 0 => lag >= SLEEP
    BY <1>0, <2>1 DEF PeriodInv
  <2>3. unread'[c] > MsgSize => lag >= SLEEP
    BY <1>0, <2>1, <2>2
  <2>4. timer'[c] + lag >= SLEEP
    BY <1>0, <2>1
  <2> QED BY <2>1, <2>3, <2>4 DEF PeriodInv
<1>9. ASSUME NEW c \in Clients, SendFails(c) \/ Close(c) PROVE PeriodInv'
  <2>1. /\ UNCHANGED <<Up, lag, unread>> /\ client[c] = "loop"
        /\ client'[c] = "closed"
        /\ \A d \in Clients \ {c} :
             client'[d] = client[d] /\ timer'[d] = timer[d]
    BY <1>9 DEF SendFails, Close, servVars, Up, TypeOK
  <2> QED BY <2>1 DEF PeriodInv
<1>10. CASE Tick
  <2>1. /\ Up /\ Up' /\ unread' = unread /\ client' = client
        /\ \A c \in Clients :
             client[c] = "loop" => timer[c] > 0 /\ timer'[c] = timer[c] - 1
    BY <1>10 DEF Tick, Behind, Up
  <2>2. CASE lag' = lag + 1
    BY <1>0, <2>1, <2>2 DEF PeriodInv
  <2>3. CASE Ready = {}
    <3>1. \A c \in Clients : unread'[c] = 0
      BY <2>1, <2>3, UnreadIsReady
    <3> QED BY <1>0, <3>1 DEF PeriodInv
  <2> QED BY <1>10, <2>2, <2>3 DEF Tick, Behind, Up
<1> QED
  BY <1>1, <1>2, <1>4, <1>5, <1>6, <1>7, <1>8, <1>9, <1>10
  DEF Next, Server, Client

LEMMA LagInvariance == Spec => []LagInv
<1>1. Init => LagInv
  BY SizesAssumption DEF Init, LagInv, UnreadInv, PeriodInv, Up
<1>2. IInv /\ IInv' /\ TimeInv /\ LagInv /\ [Next]_vars => LagInv'
  <2> SUFFICES ASSUME IInv, IInv', TimeInv, LagInv, [Next]_vars PROVE LagInv'
    OBVIOUS
  <2>1. PeriodInv'
    BY LagStep
  <2>2. ASSUME NEW c \in Clients, Up', unread'[c] > 0 PROVE c \in Connected'
    <3>1. CASE Next
      BY <2>2, <3>1, UnreadStays
    <3>2. CASE UNCHANGED vars
      BY <2>2, <3>2 DEF vars, servVars, clientVars, Up, LagInv, UnreadInv,
         Connected, Range, Open
    <3> QED BY <3>1, <3>2
  <2> QED BY <2>1, <2>2 DEF LagInv, UnreadInv
<1> QED BY <1>1, <1>2, Invariance, TimeInvariance, PTL DEF Spec

(* recvfrom fills the buffer, so that buf[bytes] lies behind it, only when *)
(* the server has worked for a whole period of the clients without a       *)
(* pause, or when one message is as long as the buffer: for any number of  *)
(* clients and messages, and however late the server may be.               *)
THEOREM FullWhenLate == Spec => []FullOnlyWhenLate
<1>1. ASSUME IInv, LagInv PROVE FullOnlyWhenLate
  <2> DEFINE c == conn[client_sock[i]]
             n == Bytes(c)
  <2> SUFFICES ASSUME server = "recv", Selected, n = BUF_SIZE
               PROVE  MsgSize >= BUF_SIZE \/ lag >= SLEEP
    BY DEF FullOnlyWhenLate
  <2>1. c \in Clients
    BY <1>1, SelectedSlot
  <2>2. n <= unread[c] /\ unread[c] \in Nat
    BY <1>1, <2>1, BytesBound DEF IInv, TypeOK
  <2>3. unread[c] > MsgSize => lag >= SLEEP
    BY <1>1, <2>1 DEF LagInv, PeriodInv
  <2> HIDE DEF c, n
  <2> QED BY <2>2, <2>3, SizesAssumption
<1> QED BY <1>1, Invariance, LagInvariance, PTL
=============================================================================
