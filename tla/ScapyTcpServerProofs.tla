------------------------ MODULE ScapyTcpServerProofs ------------------------
(***************************************************************************)
(* For any number of connections, any buffer, response and patience: the   *)
(* safety properties of ScapyTcpServer, from its inductive invariant.      *)
(***************************************************************************)
EXTENDS ScapyTcpServer, SequenceTheorems, TLAPS

-----------------------------------------------------------------------------
(* The packet buffer.                                                      *)

\* The constants, one by one.
LEMMA Constants ==
    /\ Cap \in Nat /\ Cap > 0
    /\ Segments \in Nat /\ Segments > 0
    /\ MaxTries \in Nat /\ MaxTries > 0
    /\ None \notin Conn /\ None \notin Packet
    /\ 0 \in 0..Segments /\ 0 \in 0..MaxTries
BY ServerAssumption, NoneAssumption

\* A list given element by element is a sequence.
LEMMA ListIsSeq ==
    ASSUME NEW S, NEW n \in Nat, NEW f \in [1..n -> S]
    PROVE  f \in Seq(S) /\ Len(f) = n
<1>1. f \in Seq(S) BY SeqDef
<1>2. Len(f) \in Nat /\ DOMAIN f = 1..Len(f) BY <1>1, LenProperties
<1>3. 1..Len(f) = 1..n BY <1>2
<1>4. n > 0 => n \in 1..Len(f) BY <1>3
<1>5. Len(f) > 0 => Len(f) \in 1..n BY <1>2, <1>3
<1> QED BY <1>1, <1>2, <1>4, <1>5

\* A packet p is q with its marks changed, and not made current.
Kin(p, q) ==
    /\ p.of = q.of /\ p.kind = q.kind /\ p.n = q.n
    /\ p.cur => q.cur

\* Marking a packet leaves it what it is.
LEMMA MarksKeep ==
    ASSUME NEW p \in Packet, NEW b \in BOOLEAN
    PROVE  /\ Aged(p, b) \in Packet /\ Kin(Aged(p, b), p)
           /\ Past(p) \in Packet /\ Kin(Past(p), p) /\ ~Past(p).cur
<1>1. p # None BY Constants
<1>2. Aged(p, b) = [p EXCEPT !.old = b] BY <1>1 DEF Aged
<1>3. Aged(p, b) \in Packet /\ Kin(Aged(p, b), p) BY <1>2 DEF Packet, Kin
<1>4. /\ Aged(p, FALSE) = [p EXCEPT !.old = FALSE]
      /\ Aged(p, FALSE) \in Packet /\ Aged(p, FALSE) # None
  BY <1>1, Constants DEF Aged, Packet
<1>5. Past(p) = [Aged(p, FALSE) EXCEPT !.cur = FALSE]
  BY <1>4 DEF Past, Renumbered
<1>6. Past(p) \in Packet /\ Kin(Past(p), p) /\ ~Past(p).cur
  BY <1>4, <1>5 DEF Packet, Kin
<1> QED BY <1>3, <1>6

\* What a wait marks when it begins or ends stays what it is.
LEMMA MarkAllKeeps ==
    ASSUME TypeOK, NEW b \in BOOLEAN, MarkAll(b)
    PROVE  /\ buffer' \in Seq(Packet) /\ Len(buffer') <= Cap
           /\ held' \in Packet \cup {None}
           /\ \A p \in Captured' : \E q \in Captured : Kin(p, q)
<1> USE DEF TypeOK
<1>1. Len(buffer) \in Nat /\ \A i \in 1..Len(buffer) : buffer[i] \in Packet
  OBVIOUS
<1>2. /\ buffer' = [i \in 1..Len(buffer) |-> Aged(buffer[i], b)]
      /\ held' = Aged(held, b)
  BY DEF MarkAll
<1>3. \A i \in 1..Len(buffer) :
          buffer'[i] \in Packet /\ Kin(buffer'[i], buffer[i])
  BY <1>1, <1>2, MarksKeep
<1>4. buffer' \in [1..Len(buffer) -> Packet] BY <1>2, <1>3
<1>5. buffer' \in Seq(Packet) /\ Len(buffer') = Len(buffer)
  BY <1>1, <1>4, ListIsSeq
<1>6. /\ held = None => held' = None
      /\ held # None => held' \in Packet /\ Kin(held', held)
  BY <1>2, MarksKeep DEF Aged
<1> QED BY <1>3, <1>5, <1>6 DEF Captured

\* The same of the random number that replaces the last one; and then no packet
\* is current.
LEMMA RenumberKeeps ==
    ASSUME TypeOK, TakeSyn
    PROVE  /\ buffer' \in Seq(Packet) /\ Len(buffer') <= Cap
           /\ held' \in Packet \cup {None}
           /\ \A p \in Captured' : ~p.cur /\ \E q \in Captured : Kin(p, q)
<1> USE DEF TypeOK
<1>1. Len(buffer) \in Nat /\ \A i \in 1..Len(buffer) : buffer[i] \in Packet
  OBVIOUS
<1>2. /\ buffer' = [i \in 1..Len(buffer) |-> Past(buffer[i])]
      /\ held' = Past(held)
  BY DEF TakeSyn
<1>3. \A i \in 1..Len(buffer) :
          buffer'[i] \in Packet /\ Kin(buffer'[i], buffer[i]) /\ ~buffer'[i].cur
  BY <1>1, <1>2, MarksKeep
<1>4. buffer' \in [1..Len(buffer) -> Packet] BY <1>2, <1>3
<1>5. buffer' \in Seq(Packet) /\ Len(buffer') = Len(buffer)
  BY <1>1, <1>4, ListIsSeq
<1>6. /\ held = None => held' = None
      /\ held # None => held' \in Packet /\ Kin(held', held) /\ ~held'.cur
  BY <1>2, MarksKeep DEF Past, Aged, Renumbered
<1> QED BY <1>3, <1>5, <1>6 DEF Captured

\* Storing a packet keeps it, but for the oldest when the buffer is full.
LEMMA StoreKeeps ==
    ASSUME TypeOK, Store \/ StoreOwn
    PROVE  /\ buffer' \in Seq(Packet) /\ Len(buffer') <= Cap
           /\ held' \in Packet \cup {None}
           /\ Captured' \subseteq Captured
<1> USE DEF TypeOK
<1>1. CASE Store
  <2> DEFINE b == Append(buffer, held)
  <2>1. held \in Packet /\ held' = None BY <1>1 DEF Store
  <2>2. /\ b \in Seq(Packet) /\ Len(b) = Len(buffer) + 1
        /\ \A i \in 1..Len(b) : b[i] \in Captured
    BY <1>1, <2>1 DEF Captured, Store
  <2> HIDE DEF b
  <2>3. buffer' = Kept(b) BY <1>1 DEF Store, b
  <2>4. CASE Len(b) > Cap
    <3>1. buffer' = Tail(b) BY <2>3, <2>4 DEF Kept
    <3>2. /\ b # <<>> /\ Len(b) \in Nat /\ Tail(b) \in Seq(Packet)
          /\ Len(Tail(b)) = Len(b) - 1
          /\ \A i \in 1..Len(Tail(b)) : i + 1 \in 1..Len(b) /\ Tail(b)[i] = b[i + 1]
      BY <2>2, <2>4, Constants
    <3>3. Len(buffer') <= Cap BY <2>2, <3>1, <3>2, Constants
    <3>4. \A i \in 1..Len(buffer') : buffer'[i] \in Captured
      BY <2>2, <3>1, <3>2
    <3>5. Captured' = {buffer'[i] : i \in 1..Len(buffer')}
      BY <2>1 DEF Captured
    <3>6. Captured' \subseteq Captured BY <3>4, <3>5
    <3> QED BY <2>1, <3>1, <3>2, <3>3, <3>6
  <2>5. CASE ~(Len(b) > Cap)
    <3>1. buffer' = b BY <2>3, <2>5 DEF Kept
    <3> QED BY <2>1, <2>2, <2>5, <3>1, Constants DEF Captured
  <2> QED BY <2>4, <2>5
<1>2. CASE StoreOwn
  <2>1. buffer # <<>> /\ buffer' = Tail(buffer) /\ held' = held
    BY <1>2 DEF StoreOwn
  <2>2. buffer \in Seq(Packet) /\ Len(buffer) \in Nat OBVIOUS
  <2> HIDE DEF TypeOK
  <2>3. /\ Tail(buffer) \in Seq(Packet) /\ Len(Tail(buffer)) = Len(buffer) - 1
        /\ \A i \in 1..Len(Tail(buffer)) :
              i + 1 \in 1..Len(buffer) /\ Tail(buffer)[i] = buffer[i + 1]
    BY <2>1, <2>2
  <2>4. held' \in Packet \cup {None} /\ Len(buffer) <= Cap
    BY <2>1 DEF TypeOK
  <2> QED BY <2>1, <2>2, <2>3, <2>4, Constants DEF Captured
<1> QED BY <1>1, <1>2

\* What a client sends is the one packet more.
LEMMA TransmitAdds ==
    ASSUME TypeOK, NEW c \in Conn, NEW k \in {"syn", "ack", "get", "fin", "rst"},
           NEW n \in 0..Segments, NEW cur \in BOOLEAN, Transmit(c, k, n, cur)
    PROVE  /\ held' \in Packet /\ buffer' = buffer
           /\ finSeen' \in BOOLEAN
           /\ UNCHANGED <<pc, running, client, seq, tries, gaveUp>>
           /\ \A p \in Captured' :
                 \/ p \in Captured
                 \/ p.of = c /\ p.kind = k /\ p.n = n /\ p.cur = cur
<1> DEFINE new == [of |-> c, kind |-> k, n |-> n, cur |-> cur, old |-> FALSE]
<1>1. /\ held' = new /\ buffer' = buffer
      /\ UNCHANGED <<pc, running, client, seq, tries, gaveUp>>
  BY DEF Transmit
<1>2. new \in Packet BY DEF Packet
<1>3. finSeen' \in BOOLEAN BY DEF Transmit, TypeOK
<1>4. new.of = c /\ new.kind = k /\ new.n = n /\ new.cur = cur OBVIOUS
<1> HIDE DEF new
<1> QED BY <1>1, <1>2, <1>3, <1>4 DEF Captured

-----------------------------------------------------------------------------
(* Types.                                                                  *)

\* What the server sends is a reply on its way to its client.
LEMMA EmitTypes ==
    ASSUME TypeOK, client \in Conn, NEW k \in {"synack", "data", "finack"},
           NEW n \in 0..Segments, Emit(k, n)
    PROVE  /\ inbox' \in [Conn -> Reply \cup {None}]
           /\ inbox'[client] = [kind |-> k, n |-> n, cur |-> TRUE]
           /\ \A c \in Conn : c # client => inbox'[c] = inbox[c]
<1> DEFINE r == [kind |-> k, n |-> n, cur |-> TRUE]
<1>1. r \in Reply BY DEF Reply
<1> HIDE DEF r
<1>2. inbox' = [inbox EXCEPT ![client] = r] BY DEF Emit, r
<1>3. inbox'[client] = r BY <1>2 DEF TypeOK
<1> QED BY <1>1, <1>2, <1>3 DEF TypeOK, r

\* A reply that is not current any more is still a reply.
LEMMA RenumberTypes ==
    ASSUME TypeOK, TakeSyn
    PROVE  /\ inbox' \in [Conn -> Reply \cup {None}]
           /\ \A c \in Conn : inbox'[c] # None =>
                 /\ inbox[c] # None /\ ~inbox'[c].cur
                 /\ inbox'[c].kind = inbox[c].kind /\ inbox'[c].n = inbox[c].n
<1>1. inbox' = [c \in Conn |-> Renumbered(inbox[c])] BY DEF TakeSyn
<1>2. ASSUME NEW c \in Conn, inbox[c] # None
      PROVE  /\ inbox'[c] \in Reply /\ ~inbox'[c].cur
             /\ inbox'[c].kind = inbox[c].kind /\ inbox'[c].n = inbox[c].n
  <2>1. inbox[c] \in Reply BY <1>2 DEF TypeOK
  <2>2. inbox'[c] = [inbox[c] EXCEPT !.cur = FALSE]
    BY <1>1, <1>2 DEF Renumbered
  <2> QED BY <2>1, <2>2 DEF Reply
<1>3. ASSUME NEW c \in Conn, inbox[c] = None PROVE inbox'[c] = None
  BY <1>1, <1>3 DEF Renumbered
<1> QED BY <1>1, <1>2, <1>3

\* The client that gets an answer is noted as a flag.
LEMMA AnswersTypes ==
    ASSUME TypeOK, NEW c \in Conn, Answers(c) PROVE answered' \in BOOLEAN
BY DEF Answers, TypeOK

\* The steps of the sniffer and the signal handler keep the types.
LEMMA SnifferTypes == TypeOK /\ (Store \/ StoreOwn \/ Signal) => TypeOK'
<1> SUFFICES ASSUME TypeOK, Store \/ StoreOwn \/ Signal PROVE TypeOK'
  OBVIOUS
<1>1. CASE Store \/ StoreOwn
  <2>1. /\ buffer' \in Seq(Packet) /\ Len(buffer') <= Cap
        /\ held' \in Packet \cup {None}
    BY <1>1, StoreKeeps
  <2>2. UNCHANGED <<run, clients, history>> BY <1>1 DEF Store, StoreOwn
  <2> QED BY <2>1, <2>2 DEF TypeOK, run, clients, history
<1>2. CASE Signal
  <2>1. running' \in BOOLEAN BY <1>2 DEF Signal
  <2> QED BY <1>2, <2>1 DEF Signal, TypeOK, sniffer, clients, history
<1> QED BY <1>1, <1>2

\* So do those of the main thread.
LEMMA ServerTypes ==
    TypeOK /\ Engaged /\ Counted /\ (Server \/ SendRaises) => TypeOK'
<1> SUFFICES ASSUME TypeOK, Engaged, Counted, Server \/ SendRaises
             PROVE  TypeOK'
  OBVIOUS
<1> USE DEF Polling, Serving
<1>1. CASE TakeSyn
  <2>1. client' \in Conn
    <3>1. PICK i \in Synced : client' = buffer[i].of BY <1>1 DEF TakeSyn
    <3>2. i \in 1..Len(buffer) BY <3>1 DEF Synced, Seen
    <3>3. buffer[i] \in Packet BY <3>2 DEF TypeOK
    <3> QED BY <3>1, <3>3 DEF Packet
  <2>2. base' \in [Conn -> {"none", "current", "past"}]
    BY <1>1 DEF TakeSyn, TypeOK
  <2> QED
    BY <1>1, <2>1, <2>2, RenumberKeeps, RenumberTypes
       DEF TakeSyn, TypeOK, history
<1>2. CASE PollSyn
  BY <1>2, MarkAllKeeps DEF PollSyn, Begin, TypeOK, clients, history
<1>3. CASE SendSynAck
  <2>1. client \in Conn BY <1>3 DEF SendSynAck, Engaged, InCycle
  <2>2. inbox' \in [Conn -> Reply \cup {None}]
    BY <1>3, <2>1, EmitTypes, Constants DEF SendSynAck
  <2> QED BY <1>3, <2>2 DEF SendSynAck, TypeOK, sniffer, history
<1>4. CASE FindPacket
  <2>1. pc' \in {"get", "request", "segment"}
    BY <1>4 DEF FindPacket, AfterWait
  <2>2. seq' \in 0..Segments
    <3>1. pc' = "segment" => pc \in {"data", "dataPoll"}
      BY <1>4 DEF FindPacket, AfterWait
    <3> QED BY <1>4, <3>1, Constants DEF FindPacket, Counted, TypeOK
  <2> QED
    BY <1>4, <2>1, <2>2, MarkAllKeeps
       DEF FindPacket, End, TypeOK, clients, history
<1>5. CASE PollPacket
  <2>1. pc' \in {"ackPoll", "getPoll", "dataPoll"} BY <1>5 DEF PollPacket
  <2> QED
    BY <1>5, <2>1, MarkAllKeeps
       DEF PollPacket, Begin, TypeOK, clients, history
<1>6. CASE Timeout
  BY <1>6, MarkAllKeeps, Constants DEF Timeout, NextCycle, End, TypeOK, clients
<1>7. CASE DataTimeout
  <2>1. seq' \in 0..Segments
    BY <1>7, Constants DEF DataTimeout, Counted, TypeOK
  <2> QED
    BY <1>7, <2>1, MarkAllKeeps
       DEF DataTimeout, End, TypeOK, clients, history
<1>8. CASE SendAck BY <1>8 DEF SendAck, TypeOK, sniffer, clients, history
<1>9. CASE SendSegment
  <2>1. client \in Conn BY <1>9 DEF SendSegment, Engaged, InCycle
  <2>2. inbox' \in [Conn -> Reply \cup {None}]
    BY <1>9, <2>1, EmitTypes DEF SendSegment, TypeOK
  <2>3. /\ pc' \in {"data", "finNext"} /\ seq' \in 0..Segments
        /\ tries' \in 0..MaxTries
    BY <1>9, Constants DEF SendSegment, TypeOK
  <2> QED BY <1>9, <2>2, <2>3 DEF SendSegment, TypeOK, sniffer, history
<1>10. CASE Sniff BY <1>10 DEF Sniff, TypeOK, sniffer, clients, history
<1>11. CASE SniffTimeout
  <2>1. tries' \in 0..MaxTries
    BY <1>11, Constants DEF SniffTimeout, Counted, TypeOK
  <2> QED BY <1>11, <2>1 DEF SniffTimeout, TypeOK, sniffer, clients, history
<1>12. CASE SendFinAck
  <2>1. client \in Conn BY <1>12 DEF SendFinAck, Engaged, InCycle
  <2>2. inbox' \in [Conn -> Reply \cup {None}]
    BY <1>12, <2>1, EmitTypes, Constants DEF SendFinAck
  <2> QED BY <1>12, <2>2, Constants DEF SendFinAck, NextCycle, TypeOK, sniffer
<1>13. CASE NoFin \/ SendRaises
  BY <1>13, Constants DEF NoFin, SendRaises, NextCycle, TypeOK, sniffer, clients
<1>14. CASE Break BY <1>14 DEF Break, TypeOK, sniffer, clients, history
<1> QED
  BY <1>1, <1>2, <1>3, <1>4, <1>5, <1>6, <1>7, <1>8, <1>9, <1>10, <1>11, <1>12,
     <1>13, <1>14 DEF Server

\* And those of the clients.
LEMMA ClientTypes ==
    ASSUME TypeOK, Counted, NEW c \in Conn, Client(c) PROVE TypeOK'
<1>0. /\ rcv[c] \in 0..Segments /\ inbox[c] \in Reply \cup {None}
      /\ 0 \in 0..Segments
  BY Constants DEF TypeOK
<1> DEFINE Sent ==
      /\ held' \in Packet /\ buffer' = buffer /\ finSeen' \in BOOLEAN
      /\ UNCHANGED <<pc, running, client, seq, tries, gaveUp>>
<1>1. CASE SendSyn(c)
  <2>1. Transmit(c, "syn", 0, FALSE) BY <1>1 DEF SendSyn
  <2>2. Sent BY <1>0, <2>1, TransmitAdds
  <2>3. state' \in [Conn -> {"away", "synSent", "established", "closing", "closed"}]
    BY <1>1 DEF SendSyn, TypeOK
  <2> QED BY <1>1, <2>2, <2>3 DEF SendSyn, TypeOK
<1>2. CASE SendGet(c)
  <2> DEFINE cur == base[c] = "current"
  <2>1. Transmit(c, "get", rcv[c], cur) /\ cur \in BOOLEAN BY <1>2 DEF SendGet
  <2> HIDE DEF cur
  <2>2. Sent BY <1>0, <2>1, TransmitAdds
  <2>3. asked' \in [Conn -> BOOLEAN] BY <1>2 DEF SendGet, TypeOK
  <2> QED BY <1>2, <2>2, <2>3 DEF SendGet, TypeOK
<1>3. CASE SendFin(c)
  <2> DEFINE cur == base[c] = "current"
  <2>1. Transmit(c, "fin", rcv[c], cur) /\ cur \in BOOLEAN BY <1>3 DEF SendFin
  <2> HIDE DEF cur
  <2>2. Sent BY <1>0, <2>1, TransmitAdds
  <2>3. state' \in [Conn -> {"away", "synSent", "established", "closing", "closed"}]
    BY <1>3 DEF SendFin, TypeOK
  <2> QED BY <1>3, <2>2, <2>3 DEF SendFin, TypeOK
<1>4. CASE Abandon(c)
  BY <1>0, <1>4 DEF Abandon, Forgets, TypeOK, run, sniffer, history
<1>5. CASE OnSynAck(c)
  <2>1. inbox[c] \in Reply /\ Transmit(c, "ack", 0, inbox[c].cur)
    BY <1>0, <1>5 DEF OnSynAck, Arrives
  <2>2. inbox[c].cur \in BOOLEAN /\ answered' \in BOOLEAN
    BY <1>5, <2>1, AnswersTypes DEF Reply, OnSynAck
  <2>3. inbox' \in [Conn -> Reply \cup {None}]
    BY <1>5 DEF OnSynAck, Arrives, TypeOK
  <2>4. base' \in [Conn -> {"none", "current", "past"}]
    BY <1>5 DEF OnSynAck, TypeOK
  <2> QED
    BY <1>0, <1>5, <2>1, <2>2, <2>3, <2>4, TransmitAdds DEF OnSynAck, TypeOK
<1>6. CASE OnData(c)
  <2>1. inbox[c] \in Reply /\ Transmit(c, "ack", rcv'[c], inbox[c].cur)
    BY <1>0, <1>6 DEF OnData, Arrives
  <2>2. inbox[c].cur \in BOOLEAN BY <2>1 DEF Reply
  <2>3. inbox' \in [Conn -> Reply \cup {None}]
    BY <1>6 DEF OnData, Arrives, TypeOK
  <2>4. inbox[c].n < Segments BY <1>6 DEF OnData, Arrives, Counted
  <2>5. /\ rcv' \in [Conn -> 0..Segments] /\ rcv'[c] \in 0..Segments
    BY <1>0, <1>6, <2>4, Constants DEF OnData, TypeOK
  <2>6. Sent BY <2>1, <2>2, <2>5, TransmitAdds
  <2> QED BY <1>6, <2>3, <2>5, <2>6 DEF OnData, TypeOK
<1>7. CASE OnFinAck(c)
  <2>1. inbox' \in [Conn -> Reply \cup {None}]
    BY <1>7 DEF OnFinAck, Arrives, TypeOK
  <2> QED
    BY <1>0, <1>7, <2>1 DEF OnFinAck, Forgets, TypeOK, run, sniffer, history
<1>8. CASE OnStale(c)
  <2> DEFINE m == IF inbox[c].kind = "data" THEN inbox[c].n + 1 ELSE 0
  <2>1. inbox[c] \in Reply /\ Transmit(c, "rst", m, inbox[c].cur)
    BY <1>0, <1>8 DEF OnStale
  <2>2. inbox[c].cur \in BOOLEAN /\ answered' \in BOOLEAN
    BY <1>8, <2>1, AnswersTypes DEF Reply, OnStale
  <2>3. inbox' \in [Conn -> Reply \cup {None}] BY <1>8 DEF OnStale, TypeOK
  <2>4. m \in 0..Segments
    <3>1. inbox[c].n \in 0..Segments BY <2>1 DEF Reply
    <3>2. inbox[c].kind = "data" => inbox[c].n < Segments
      BY <1>8 DEF OnStale, Counted
    <3> QED BY <1>0, <3>1, <3>2, Constants
  <2> HIDE DEF m
  <2> QED
    BY <1>0, <1>8, <2>1, <2>2, <2>3, <2>4, TransmitAdds DEF OnStale, TypeOK
<1> QED
  BY <1>1, <1>2, <1>3, <1>4, <1>5, <1>6, <1>7, <1>8 DEF Client

LEMMA TypeStep == IInv /\ [Next]_vars => TypeOK'
<1>1. TypeOK /\ UNCHANGED vars => TypeOK'
  BY DEF TypeOK, vars, run, sniffer, clients, history
<1> QED
  BY <1>1, SnifferTypes, ServerTypes, ClientTypes DEF IInv, Next

-----------------------------------------------------------------------------
(* What the steps have in common.                                          *)

\* What the server and its sniffer do adds no packet, and does not reach into the
\* clients; a cycle goes on with its client, or ends.
LEMMA ServerFrame ==
    ASSUME TypeOK, Store \/ StoreOwn \/ Signal \/ Server \/ SendRaises
    PROVE  /\ UNCHANGED <<state, asked, rcv>>
           /\ \A p \in Captured' : \E q \in Captured : Kin(p, q)
           /\ \/ TakeSyn
              \/ pc' \notin InCycle
              \/ /\ pc \in InCycle
                 /\ UNCHANGED <<client, answered, base>>
<1> USE DEF Polling, Serving, InCycle, clients, history
<1>0. /\ \A p \in Captured : Kin(p, p)
      /\ UNCHANGED sniffer => Captured' = Captured
  BY DEF Kin, Captured, sniffer
<1>1. CASE Store \/ StoreOwn
  <2>1. UNCHANGED <<run, clients, history>> BY <1>1 DEF Store, StoreOwn
  <2>2. \A p \in Captured' : \E q \in Captured : Kin(p, q)
    BY <1>0, <1>1, StoreKeeps
  <2> QED BY <2>1, <2>2 DEF run
<1>2. CASE Signal BY <1>0, <1>2 DEF Signal
<1>3. CASE TakeSyn BY <1>3, RenumberKeeps DEF TakeSyn
<1>4. CASE PollSyn BY <1>4, MarkAllKeeps DEF PollSyn, Begin
<1>5. CASE FindPacket
  <2>1. pc \in InCycle BY <1>5 DEF FindPacket
  <2> QED BY <1>5, <2>1, MarkAllKeeps DEF FindPacket, End
<1>6. CASE PollPacket
  <2>1. pc \in InCycle BY <1>6 DEF PollPacket
  <2> QED BY <1>6, <2>1, MarkAllKeeps DEF PollPacket, Begin
<1>7. CASE Timeout BY <1>7, MarkAllKeeps DEF Timeout, NextCycle, End
<1>8. CASE DataTimeout
  <2>1. pc \in InCycle BY <1>8 DEF DataTimeout
  <2> QED BY <1>8, <2>1, MarkAllKeeps DEF DataTimeout, End
<1>9. CASE SendSynAck \/ SendAck \/ SendSegment \/ Sniff \/ SniffTimeout
  BY <1>0, <1>9 DEF SendSynAck, SendAck, SendSegment, Sniff, SniffTimeout
<1>10. CASE SendFinAck \/ NoFin \/ SendRaises \/ Break
  BY <1>0, <1>10 DEF SendFinAck, NoFin, SendRaises, Break, NextCycle
<1> QED
  BY <1>1, <1>2, <1>3, <1>4, <1>5, <1>6, <1>7, <1>8, <1>9, <1>10 DEF Server

\* A client's step leaves the server where it is; what was sent, answered or
\* closed stays so, and a client that is not closed has no less than before.
LEMMA ClientFrame ==
    ASSUME TypeOK, NEW c \in Conn, Client(c)
    PROVE  /\ UNCHANGED <<pc, client, seq, tries, gaveUp>>
           /\ answered => answered'
           /\ \A d \in Conn :
                 /\ asked[d] => asked'[d]
                 /\ state'[d] # "closed" =>
                       state[d] # "closed" /\ rcv[d] <= rcv'[d]
                 /\ inbox'[d] # None => inbox'[d] = inbox[d]
<1> USE DEF TypeOK, run, history, Transmit
<1>0. \A d \in Conn : rcv[d] \in Int OBVIOUS
<1>1. CASE SendSyn(c) \/ SendFin(c) BY <1>0, <1>1 DEF SendSyn, SendFin
<1>2. CASE SendGet(c) BY <1>0, <1>2 DEF SendGet
<1>3. CASE Abandon(c) BY <1>0, <1>3 DEF Abandon, Forgets
<1>4. CASE OnSynAck(c) BY <1>0, <1>4 DEF OnSynAck, Arrives, Answers
<1>5. CASE OnData(c) BY <1>0, <1>5 DEF OnData, Arrives
<1>6. CASE OnFinAck(c) BY <1>0, <1>6 DEF OnFinAck, Arrives, Forgets
<1>7. CASE OnStale(c) BY <1>0, <1>7 DEF OnStale, Answers
<1> QED BY <1>1, <1>2, <1>3, <1>4, <1>5, <1>6, <1>7 DEF Client

\* The packet a wait ends with is in the buffer and is what it looks for.
LEMMA WaitFinds ==
    ASSUME TypeOK, FindPacket
    PROVE  \E p \in Captured :
              /\ p \in Packet /\ Mine(p)
              /\ pc' = "get" => p.kind # "syn" /\ p.cur
              /\ pc' = "request" => p.kind = "get"
              /\ pc' = "segment" => p.kind # "syn" /\ p.n = seq + 1
<1>1. PICK i \in Seen : Found(buffer[i]) BY DEF FindPacket
<1>2. i \in 1..Len(buffer) BY DEF Seen
<1>3. buffer[i] \in Packet /\ buffer[i] \in Captured
  BY <1>2 DEF TypeOK, Captured
<1>4. CASE pc \in {"ack", "ackPoll"}
  <2>1. pc' = "get" /\ IsHandshakeAck(buffer[i])
    BY <1>1, <1>4 DEF Found, FindPacket, AfterWait
  <2> QED BY <1>3, <2>1 DEF IsHandshakeAck, HasAck
<1>5. CASE pc \in {"get", "getPoll"}
  <2>1. pc' = "request" /\ IsGet(buffer[i])
    BY <1>1, <1>5 DEF Found, FindPacket, AfterWait
  <2> QED BY <1>3, <2>1 DEF IsGet
<1>6. CASE pc \in {"data", "dataPoll"}
  <2>1. pc' = "segment" /\ IsDataAck(buffer[i])
    BY <1>1, <1>6 DEF Found, FindPacket, AfterWait
  <2> QED BY <1>3, <2>1 DEF IsDataAck, HasAck
<1> QED BY <1>4, <1>5, <1>6 DEF FindPacket

\* Only packets are captured.
LEMMA CapturedArePackets == TypeOK => Captured \subseteq Packet
BY DEF TypeOK, Captured

-----------------------------------------------------------------------------
(* The conjuncts of IInv, one after the other.                             *)

\* The server's steps, for the lemmas below.
Serves == Store \/ StoreOwn \/ Signal \/ Server \/ SendRaises

LEMMA StepIsOneOf ==
    [Next]_vars => Serves \/ (\E c \in Conn : Client(c)) \/ UNCHANGED vars
BY DEF Next, Serves

\* A response is sent to a client that has asked.
LEMMA EngagedStep == IInv /\ [Next]_vars => Engaged'
<1> SUFFICES ASSUME IInv, [Next]_vars PROVE Engaged'
  OBVIOUS
<1> USE DEF Engaged
<1>0. /\ TypeOK /\ Engaged /\ Truthful
      /\ Responding \subseteq InCycle
  BY DEF IInv, Responding, InCycle, Serving
<1>1. CASE Serves
  <2>1. CASE TakeSyn
    <3>1. pc' = "answer" BY <2>1 DEF TakeSyn
    <3>2. pc' \notin Responding BY <3>1 DEF Responding
    <3>3. client' \in Conn
      <4>1. PICK i \in Synced : client' = buffer[i].of BY <2>1 DEF TakeSyn
      <4>2. buffer[i] \in Packet BY <1>0 DEF Synced, Seen, TypeOK
      <4> QED BY <4>1, <4>2 DEF Packet
    <3> QED BY <3>2, <3>3
  <2>2. CASE ~TakeSyn /\ pc' \in InCycle
    <3>1. pc \in InCycle /\ UNCHANGED <<client, asked>>
      BY <1>0, <1>1, <2>2, ServerFrame DEF Serves
    <3>2. CASE FindPacket
      <4>1. PICK p \in Captured : /\ Mine(p)
                                  /\ pc' = "request" => p.kind = "get"
        BY <1>0, <3>2, WaitFinds
      <4>2. pc' = "request" => asked[client]
        BY <1>0, <4>1 DEF Truthful, Mine
      <4>3. pc' \in Responding => pc' = "request" \/ pc \in Responding
        BY <3>2 DEF FindPacket, AfterWait, Responding
      <4> QED BY <1>0, <3>1, <4>2, <4>3
    <3>3. CASE ~FindPacket
      <4>1. pc' \in Responding => pc \in Responding
        BY <1>1, <2>2, <3>3
           DEF Serves, Server, Store, StoreOwn, Signal, run, PollSyn,
               SendSynAck, PollPacket, Timeout, NextCycle, SendAck, SendSegment,
               DataTimeout, Sniff, SniffTimeout, SendFinAck, NoFin, Break,
               SendRaises, Responding
      <4> QED BY <1>0, <3>1, <4>1
    <3> QED BY <3>2, <3>3
  <2>3. CASE pc' \notin InCycle BY <1>0, <2>3
  <2> QED BY <2>1, <2>2, <2>3
<1>2. ASSUME NEW c \in Conn, Client(c) PROVE Engaged'
  BY <1>0, <1>2, ClientFrame
<1>3. CASE UNCHANGED vars BY <1>0, <1>3 DEF vars, run, clients
<1> QED BY <1>1, <1>2, <1>3, StepIsOneOf

\* The counters stay below their limits where the code goes on with them.
LEMMA CountedStep == IInv /\ [Next]_vars => Counted'
<1> SUFFICES ASSUME IInv, [Next]_vars PROVE Counted'
  OBVIOUS
<1>0. TypeOK /\ Counted /\ Engaged BY DEF IInv
<1>1. /\ seq \in Nat /\ Segments \in Nat /\ Segments > 0
      /\ tries \in Nat /\ MaxTries \in Nat
  BY <1>0, Constants DEF TypeOK
<1> DEFINE Sequence ==
      /\ pc \notin Responding \ {"request"} => seq = 0
      /\ pc = "segment" => seq < Segments
      /\ pc \in {"data", "dataPoll"} => seq + 1 < Segments
      /\ pc = "fin" => tries < MaxTries
    Inboxes == \A c \in Conn :
      inbox[c] # None /\ inbox[c].kind = "data" => inbox[c].n < Segments
<1>2. Sequence /\ Inboxes BY <1>0 DEF Counted
<1>3. CASE Serves
  <2>1. CASE TakeSyn
    <3>1. Sequence' BY <1>1, <1>2, <2>1 DEF TakeSyn, Responding
    <3>2. Inboxes' BY <1>0, <1>2, <2>1, RenumberTypes
    <3> QED BY <3>1, <3>2 DEF Counted
  <2>2. CASE FindPacket
    <3>1. /\ pc' = AfterWait(pc) /\ inbox' = inbox /\ tries' = tries
          /\ seq' = IF pc' = "segment" THEN seq + 1 ELSE seq
          /\ pc \in {"ack", "get", "data", "ackPoll", "getPoll", "dataPoll"}
      BY <2>2 DEF FindPacket, clients
    <3>2. Sequence' BY <1>1, <1>2, <3>1 DEF AfterWait, Responding
    <3> QED BY <1>2, <3>1, <3>2 DEF Counted
  <2>3. CASE DataTimeout
    <3>1. Sequence' BY <1>1, <1>2, <2>3 DEF DataTimeout, Responding
    <3> QED BY <1>2, <2>3, <3>1 DEF DataTimeout, clients, Counted
  <2>4. CASE SendSegment
    <3>1. client \in Conn BY <1>0, <2>4 DEF SendSegment, Engaged, InCycle, Serving
    <3>2. Emit("data", seq) /\ seq \in 0..Segments
      BY <1>0, <2>4 DEF SendSegment, TypeOK
    <3>3. /\ inbox'[client] = [kind |-> "data", n |-> seq, cur |-> TRUE]
          /\ \A d \in Conn : d # client => inbox'[d] = inbox[d]
      BY <1>0, <3>1, <3>2, EmitTypes
    <3>4. seq < Segments BY <1>2, <2>4 DEF SendSegment
    <3>5. Inboxes' BY <1>2, <3>3, <3>4
    <3>6. Sequence' BY <1>1, <1>2, <2>4 DEF SendSegment, Responding
    <3> QED BY <3>5, <3>6 DEF Counted
  <2>5. CASE SendSynAck \/ SendFinAck
    <3>1. client \in Conn
      BY <1>0, <2>5 DEF SendSynAck, SendFinAck, Engaged, InCycle, Serving
    <3>2. PICK k \in {"synack", "finack"} : Emit(k, 0)
      BY <2>5 DEF SendSynAck, SendFinAck
    <3>3. /\ inbox'[client] = [kind |-> k, n |-> 0, cur |-> TRUE]
          /\ \A d \in Conn : d # client => inbox'[d] = inbox[d]
      BY <1>0, <3>1, <3>2, EmitTypes, Constants
    <3>4. inbox'[client].kind # "data" BY <3>2, <3>3
    <3>5. Inboxes' BY <1>2, <3>3, <3>4
    <3>6. Sequence'
      BY <1>1, <1>2, <2>5 DEF SendSynAck, SendFinAck, NextCycle, Responding
    <3> QED BY <3>5, <3>6 DEF Counted
  <2>6. CASE Sniff \/ SniffTimeout \/ SendAck \/ PollPacket \/ PollSyn \/ Break
    <3>1. Sequence'
      BY <1>1, <1>2, <2>6
         DEF Sniff, SniffTimeout, SendAck, PollPacket, PollSyn, Break, Responding
    <3> QED
      BY <1>2, <2>6, <3>1
         DEF Sniff, SniffTimeout, SendAck, PollPacket, PollSyn, Break, clients,
             Counted
  <2>7. CASE Timeout \/ NoFin \/ SendRaises
    <3>1. Sequence'
      BY <1>1, <2>7 DEF Timeout, NoFin, SendRaises, NextCycle, Responding
    <3> QED BY <1>2, <2>7, <3>1 DEF Timeout, NoFin, SendRaises, clients, Counted
  <2>8. CASE Store \/ StoreOwn \/ Signal
    BY <1>2, <2>8 DEF Store, StoreOwn, Signal, run, clients, Counted
  <2> QED
    BY <1>3, <2>1, <2>2, <2>3, <2>4, <2>5, <2>6, <2>7, <2>8 DEF Serves, Server
<1>4. ASSUME NEW c \in Conn, Client(c) PROVE Counted'
  BY <1>0, <1>2, <1>4, ClientFrame DEF Counted
<1>5. CASE UNCHANGED vars BY <1>2, <1>5 DEF vars, run, clients, Counted
<1> QED BY <1>3, <1>4, <1>5, StepIsOneOf

\* The server's other steps put a packet on its way to its client at most.
LEMMA EmitsToClient ==
    ASSUME TypeOK, Engaged, Serves, ~TakeSyn
    PROVE  \A d \in Conn : \/ inbox'[d] = inbox[d]
                           \/ /\ d = client /\ inbox'[d].cur
                              /\ pc = "segment" \/ inbox'[d].kind # "data"
<1>1. CASE SendSegment
  <2>1. client \in Conn /\ pc = "segment"
    BY <1>1 DEF SendSegment, Engaged, InCycle, Serving
  <2>2. Emit("data", seq) /\ seq \in 0..Segments
    BY <1>1 DEF SendSegment, TypeOK
  <2>3. /\ inbox'[client] = [kind |-> "data", n |-> seq, cur |-> TRUE]
        /\ \A d \in Conn : d # client => inbox'[d] = inbox[d]
    BY <2>1, <2>2, EmitTypes
  <2> QED BY <2>1, <2>3
<1>2. CASE SendSynAck \/ SendFinAck
  <2>1. client \in Conn
    BY <1>2 DEF SendSynAck, SendFinAck, Engaged, InCycle, Serving
  <2>2. PICK k \in {"synack", "finack"} : Emit(k, 0)
    BY <1>2 DEF SendSynAck, SendFinAck
  <2>3. /\ inbox'[client] = [kind |-> k, n |-> 0, cur |-> TRUE]
        /\ \A d \in Conn : d # client => inbox'[d] = inbox[d]
    BY <2>1, <2>2, EmitTypes, Constants
  <2> QED BY <2>2, <2>3
<1>3. CASE ~(SendSegment \/ SendSynAck \/ SendFinAck)
  <2>1. inbox' = inbox
    BY <1>3 DEF Serves, Server, Store, StoreOwn, Signal, SendRaises, PollSyn,
                FindPacket, PollPacket, Timeout, SendAck, DataTimeout, Sniff,
                SniffTimeout, NoFin, Break, clients
  <2> QED BY <2>1
<1> QED BY <1>1, <1>2, <1>3

\* A random number is known to the client it was picked for.
LEMMA OwnNumberStep == IInv /\ [Next]_vars => OwnNumber'
<1> SUFFICES ASSUME IInv, [Next]_vars, (pc \in InCycle)', NEW d \in Conn
             PROVE  /\ base'[d] = "current" => d = client' /\ answered'
                    /\ inbox'[d] # None /\ inbox'[d].cur => d = client'
  BY DEF OwnNumber
<1>0. TypeOK /\ Engaged /\ OwnNumber BY DEF IInv
<1>1. CASE TakeSyn
  <2>1. base'[d] # "current" BY <1>1 DEF TakeSyn
  <2> QED BY <1>0, <1>1, <2>1, RenumberTypes
<1>2. CASE Serves /\ ~TakeSyn
  <2>1. pc \in InCycle /\ UNCHANGED <<client, answered, base>>
    BY <1>0, <1>2, ServerFrame DEF Serves
  <2>2. inbox'[d] = inbox[d] \/ d = client BY <1>0, <1>2, EmitsToClient
  <2> QED BY <1>0, <2>1, <2>2 DEF OwnNumber
<1>3. ASSUME NEW c \in Conn, Client(c)
      PROVE  /\ base'[d] = "current" => d = client' /\ answered'
             /\ inbox'[d] # None /\ inbox'[d].cur => d = client'
  <2>1. /\ UNCHANGED <<pc, client>> /\ (answered => answered')
        /\ inbox'[d] # None => inbox'[d] = inbox[d]
    BY <1>0, <1>3, ClientFrame
  <2>2. /\ base[d] = "current" => d = client /\ answered
        /\ inbox[d] # None /\ inbox[d].cur => d = client
    BY <1>0, <2>1 DEF OwnNumber
  <2>3. CASE OnSynAck(c) /\ d = c
    <3>1. /\ base'[c] = "current" => inbox[c].cur
          /\ inbox[c] # None /\ (c = client /\ inbox[c].cur => answered')
      BY <1>0, <2>3 DEF OnSynAck, Arrives, Answers, TypeOK
    <3> QED BY <2>1, <2>2, <2>3, <3>1
  <2>4. CASE ~(OnSynAck(c) /\ d = c)
    <3>1. base'[d] = base[d] \/ base'[d] = "none"
      BY <1>0, <1>3, <2>4
         DEF Client, SendSyn, SendGet, SendFin, Abandon, Forgets, OnSynAck,
             OnData, OnFinAck, OnStale, TypeOK
    <3> QED BY <2>1, <2>2, <3>1
  <2> QED BY <2>3, <2>4
<1>4. CASE UNCHANGED vars
  BY <1>0, <1>4 DEF vars, run, clients, history, OwnNumber
<1> QED BY <1>1, <1>2, <1>3, <1>4, StepIsOneOf

\* What a client sends is so when it is sent.
LEMMA SentIsTruthful ==
    ASSUME TypeOK, Counted, OwnNumber, NEW c \in Conn, Client(c),
           NEW p \in Captured', p \notin Captured
    PROVE  /\ p.of = c
           /\ p.kind = "get" => asked'[c]
           /\ p.kind # "syn" /\ state'[c] # "closed" => p.n <= rcv'[c]
           /\ pc \in InCycle /\ p.cur => answered'
<1> DEFINE Sends(k, n, cur) ==
      p.of = c /\ p.kind = k /\ p.n = n /\ p.cur = cur
<1>0. /\ rcv[c] \in 0..Segments /\ rcv[c] <= rcv[c]
      /\ inbox[c] \in Reply \cup {None} /\ 0 \in 0..Segments
      /\ base[c] = "current" /\ pc \in InCycle => answered
  BY Constants DEF TypeOK, OwnNumber
<1>1. ASSUME NEW k \in {"syn", "ack", "get", "fin", "rst"},
             NEW n \in 0..Segments, NEW cur \in BOOLEAN, Transmit(c, k, n, cur)
      PROVE  Sends(k, n, cur)
  <2>1. p \in Captured \/ Sends(k, n, cur) BY <1>1, TransmitAdds
  <2> QED BY <2>1
<1>2. CASE SendSyn(c)
  <2>1. Transmit(c, "syn", 0, FALSE) BY <1>2 DEF SendSyn
  <2>2. Sends("syn", 0, FALSE) BY <1>0, <1>1, <2>1
  <2> QED BY <2>2
<1>3. CASE SendGet(c)
  <2> DEFINE cur == base[c] = "current"
  <2>1. Transmit(c, "get", rcv[c], cur) /\ cur \in BOOLEAN BY <1>3 DEF SendGet
  <2>2. cur /\ pc \in InCycle => answered BY <1>0
  <2> HIDE DEF cur
  <2>3. Sends("get", rcv[c], cur) BY <1>0, <1>1, <2>1
  <2>4. asked'[c] /\ UNCHANGED <<rcv, answered>>
    BY <1>3 DEF SendGet, TypeOK
  <2> QED BY <1>0, <2>2, <2>3, <2>4
<1>4. CASE SendFin(c)
  <2> DEFINE cur == base[c] = "current"
  <2>1. Transmit(c, "fin", rcv[c], cur) /\ cur \in BOOLEAN BY <1>4 DEF SendFin
  <2>2. cur /\ pc \in InCycle => answered BY <1>0
  <2> HIDE DEF cur
  <2>3. Sends("fin", rcv[c], cur) BY <1>0, <1>1, <2>1
  <2>4. UNCHANGED <<rcv, answered>> BY <1>4 DEF SendFin
  <2> QED BY <1>0, <2>2, <2>3, <2>4
<1>5. CASE OnSynAck(c)
  <2>1. /\ inbox[c] \in Reply /\ Transmit(c, "ack", 0, inbox[c].cur)
        /\ rcv' = rcv /\ Answers(c)
    BY <1>0, <1>5 DEF OnSynAck, Arrives
  <2>2. inbox[c].cur \in BOOLEAN /\ inbox[c] # None
    BY <1>5, <2>1 DEF Reply, OnSynAck, Arrives
  <2>3. Sends("ack", 0, inbox[c].cur) BY <1>0, <1>1, <2>1, <2>2
  <2>4. pc \in InCycle /\ inbox[c].cur => answered'
    BY <2>1, <2>2 DEF Answers, OwnNumber
  <2>5. 0 <= rcv[c] BY <1>0
  <2> QED BY <2>1, <2>3, <2>4, <2>5
<1>6. CASE OnData(c)
  <2>1. /\ inbox[c] \in Reply /\ Transmit(c, "ack", rcv'[c], inbox[c].cur)
        /\ answered' = answered /\ inbox[c].cur = (base[c] = "current")
    BY <1>0, <1>6 DEF OnData, Arrives
  <2>2. inbox[c].cur \in BOOLEAN BY <2>1 DEF Reply
  <2>3. inbox[c].n < Segments BY <1>6 DEF OnData, Arrives, Counted
  <2>4. rcv'[c] \in 0..Segments
    BY <1>0, <1>6, <2>3, Constants DEF OnData, TypeOK
  <2>5. Sends("ack", rcv'[c], inbox[c].cur)
    BY <1>1, <2>1, <2>2, <2>4
  <2>6. p.cur => base[c] = "current" BY <2>1, <2>5
  <2>7. rcv'[c] <= rcv'[c] BY <2>4, Constants
  <2> QED BY <1>0, <2>1, <2>5, <2>6, <2>7
<1>7. CASE OnStale(c)
  <2> DEFINE m == IF inbox[c].kind = "data" THEN inbox[c].n + 1 ELSE 0
  <2>1. /\ inbox[c] \in Reply /\ Transmit(c, "rst", m, inbox[c].cur)
        /\ state'[c] = "closed" /\ Answers(c) /\ inbox[c] # None
    BY <1>0, <1>7 DEF OnStale
  <2>2. inbox[c].cur \in BOOLEAN BY <2>1 DEF Reply
  <2>3. m \in 0..Segments
    <3>1. inbox[c].n \in 0..Segments BY <2>1 DEF Reply
    <3>2. inbox[c].kind = "data" => inbox[c].n < Segments
      BY <2>1 DEF Counted
    <3> QED BY <1>0, <3>1, <3>2, Constants
  <2> HIDE DEF m
  <2>4. Sends("rst", m, inbox[c].cur) BY <1>1, <2>1, <2>2, <2>3
  <2>5. pc \in InCycle /\ inbox[c].cur => answered'
    BY <2>1 DEF Answers, OwnNumber
  <2> QED BY <2>1, <2>4, <2>5
<1>8. CASE Abandon(c) \/ OnFinAck(c)
  <2>1. Captured' = Captured
    BY <1>8 DEF Abandon, OnFinAck, sniffer, Captured
  <2> QED BY <2>1
<1> QED BY <1>2, <1>3, <1>4, <1>5, <1>6, <1>7, <1>8 DEF Client

\* What a packet says stays so while it waits in the buffer.
LEMMA TruthfulStep == IInv /\ [Next]_vars => Truthful'
<1> DEFINE True(p) ==
      /\ p.kind = "get" => asked[p.of]
      /\ p.kind # "syn" /\ state[p.of] # "closed" => p.n <= rcv[p.of]
      /\ pc \in InCycle /\ p.cur => answered
<1> SUFFICES ASSUME IInv, [Next]_vars, NEW p \in Captured' PROVE True(p)'
  BY DEF Truthful
<1>0. /\ TypeOK /\ Counted /\ OwnNumber
      /\ \A q \in Captured : q \in Packet /\ True(q)
  BY CapturedArePackets DEF IInv, Truthful
<1>1. CASE Serves
  <2>1. /\ UNCHANGED <<state, asked, rcv>>
        /\ \E q \in Captured : Kin(p, q)
        /\ \/ TakeSyn
           \/ pc' \notin InCycle
           \/ pc \in InCycle /\ answered' = answered
    BY <1>0, <1>1, ServerFrame DEF Serves
  <2>2. TakeSyn => ~p.cur BY <1>0, RenumberKeeps
  <2>3. PICK q \in Captured : Kin(p, q) BY <2>1
  <2> QED BY <1>0, <2>1, <2>2, <2>3 DEF Kin
<1>2. ASSUME NEW c \in Conn, Client(c) PROVE True(p)'
  <2>1. /\ UNCHANGED <<pc, client>> /\ (answered => answered')
        /\ \A d \in Conn :
              /\ asked[d] => asked'[d]
              /\ state'[d] # "closed" =>
                    state[d] # "closed" /\ rcv[d] <= rcv'[d]
    BY <1>0, <1>2, ClientFrame
  <2>2. CASE p \in Captured
    <3>1. p \in Packet /\ True(p) BY <1>0, <2>2
    <3>2. p.of \in Conn /\ p.n \in Nat BY <3>1, Constants DEF Packet
    <3>3. TypeOK' BY TypeStep
    <3>4. rcv[p.of] \in Int /\ rcv'[p.of] \in Int
      BY <1>0, <3>2, <3>3 DEF TypeOK
    <3> QED BY <2>1, <3>1, <3>2, <3>4
  <2>3. CASE p \notin Captured BY <1>0, <1>2, <2>1, <2>3, SentIsTruthful
  <2> QED BY <2>2, <2>3
<1>3. CASE UNCHANGED vars
  <2>1. Captured' = Captured BY <1>3 DEF vars, sniffer, Captured
  <2> QED BY <1>0, <1>3, <2>1 DEF vars, run, clients, history
<1> QED BY <1>1, <1>2, <1>3, StepIsOneOf

\* The handshake ends on a packet with this cycle's number: its client has got
\* the SYN/ACK, however old the other packets of the buffer are.
LEMMA HandshakeStep == IInv /\ [Next]_vars => HandshakeIsCurrent'
<1> SUFFICES ASSUME IInv, [Next]_vars, (pc \in Serving)' PROVE answered'
  BY DEF HandshakeIsCurrent
<1>0. /\ TypeOK /\ Truthful /\ HandshakeIsCurrent
      /\ Serving \subseteq InCycle
  BY DEF IInv, InCycle
<1>1. CASE TakeSyn BY <1>1 DEF TakeSyn, Serving
<1>2. CASE Serves /\ ~TakeSyn
  <2>1. pc \in InCycle /\ answered' = answered
    BY <1>0, <1>2, ServerFrame DEF Serves
  <2>2. CASE FindPacket
    <3>1. PICK p \in Captured : pc' = "get" => p.kind # "syn" /\ p.cur
      BY <1>0, <2>2, WaitFinds
    <3>2. pc' = "get" => answered BY <1>0, <2>1, <3>1 DEF Truthful
    <3>3. pc' # "get" => pc \in Serving
      BY <2>2 DEF FindPacket, AfterWait, Serving
    <3> QED BY <1>0, <2>1, <3>2, <3>3 DEF HandshakeIsCurrent
  <2>3. CASE ~FindPacket
    <3>1. pc \in Serving
      BY <1>2, <2>3
         DEF Serves, Server, Store, StoreOwn, Signal, run, PollSyn, SendSynAck,
             PollPacket, Timeout, NextCycle, SendAck, SendSegment, DataTimeout,
             Sniff, SniffTimeout, SendFinAck, NoFin, Break, SendRaises, Serving
    <3> QED BY <1>0, <2>1, <3>1 DEF HandshakeIsCurrent
  <2> QED BY <2>2, <2>3
<1>3. ASSUME NEW c \in Conn, Client(c) PROVE answered'
  BY <1>0, <1>3, ClientFrame DEF HandshakeIsCurrent
<1>4. CASE UNCHANGED vars
  BY <1>0, <1>4 DEF vars, run, history, HandshakeIsCurrent
<1> QED BY <1>1, <1>2, <1>3, <1>4, StepIsOneOf

\* The response goes to the client whose GET was found.
LEMMA DataAfterGetStep == IInv /\ [Next]_vars => DataAfterGet'
<1> SUFFICES ASSUME IInv, [Next]_vars, NEW d \in Conn,
                    rcv'[d] > 0 \/ (inbox'[d] # None /\ inbox'[d].kind = "data")
             PROVE  asked'[d]
  BY DEF DataAfterGet
<1>0. TypeOK /\ Engaged /\ Counted /\ DataAfterGet BY DEF IInv
<1>1. CASE TakeSyn
  <2>1. UNCHANGED <<asked, rcv>> BY <1>1 DEF TakeSyn
  <2> QED BY <1>0, <1>1, <2>1, RenumberTypes DEF DataAfterGet
<1>2. CASE Serves /\ ~TakeSyn
  <2>1. UNCHANGED <<asked, rcv>> BY <1>0, <1>2, ServerFrame DEF Serves
  <2>2. \/ inbox'[d] = inbox[d]
        \/ d = client /\ (pc = "segment" \/ inbox'[d].kind # "data")
    BY <1>0, <1>2, EmitsToClient
  <2>3. pc = "segment" => asked[client] BY <1>0 DEF Engaged, Responding
  <2> QED BY <1>0, <2>1, <2>2, <2>3 DEF DataAfterGet
<1>3. ASSUME NEW c \in Conn, Client(c) PROVE asked'[d]
  <2>1. /\ asked[d] => asked'[d]
        /\ inbox'[d] # None => inbox'[d] = inbox[d]
    BY <1>0, <1>3, ClientFrame
  <2>2. \/ rcv'[d] = rcv[d] \/ rcv'[d] = 0
        \/ inbox[d] # None /\ inbox[d].kind = "data"
    BY <1>0, <1>3
       DEF Client, SendSyn, SendGet, SendFin, Abandon, Forgets, OnSynAck, OnData,
           OnFinAck, OnStale, Arrives, TypeOK
  <2> QED BY <1>0, <2>1, <2>2 DEF DataAfterGet
<1>4. CASE UNCHANGED vars BY <1>0, <1>4 DEF vars, clients, DataAfterGet
<1> QED BY <1>1, <1>2, <1>3, <1>4, StepIsOneOf

\* A wait that does not time out ends on an acknowledgment of the segment it
\* waits for, and an acknowledgment is sent by a client that has the segment.
LEMMA StopAndWaitStep == IInv /\ [Next]_vars => StopAndWait'
<1> SUFFICES ASSUME IInv, [Next]_vars, (pc \in {"segment", "data", "dataPoll"})',
                    ~gaveUp', state'[client'] # "closed"
             PROVE  rcv'[client'] >= seq'
  BY DEF StopAndWait
<1>0. TypeOK /\ Engaged /\ Counted /\ Truthful /\ StopAndWait BY DEF IInv
<1>1. CASE Serves
  <2>1. /\ UNCHANGED <<state, rcv>> /\ pc \in InCycle /\ client' = client
        /\ client \in Conn /\ rcv[client] \in 0..Segments
    <3>1. pc' \in InCycle /\ ~TakeSyn BY DEF InCycle, Serving, TakeSyn
    <3> QED BY <1>0, <1>1, <3>1, ServerFrame DEF Serves, Engaged, TypeOK
  <2>2. CASE FindPacket
    <3>1. PICK p \in Captured :
             /\ p \in Packet /\ Mine(p)
             /\ pc' = "segment" => p.kind # "syn" /\ p.n = seq + 1
      BY <1>0, <2>2, WaitFinds
    <3>2. pc' = "segment" /\ seq' = seq + 1
      BY <2>2 DEF FindPacket, AfterWait
    <3>3. p.n <= rcv[p.of] BY <1>0, <2>1, <3>1, <3>2 DEF Truthful, Mine
    <3> QED BY <2>1, <3>1, <3>2, <3>3, Constants DEF Mine, Packet
  <2>3. CASE SendAck
    <3>1. seq' = seq /\ pc = "request" BY <2>3 DEF SendAck
    <3>2. seq = 0 BY <1>0, <3>1 DEF Counted, Responding
    <3> QED BY <2>1, <3>1, <3>2, Constants
  <2>4. CASE ~(FindPacket \/ SendAck)
    <3>1. /\ seq' = seq /\ gaveUp' = gaveUp
          /\ pc \in {"segment", "data", "dataPoll"}
      BY <1>1, <2>4
         DEF Serves, Server, Store, StoreOwn, Signal, run, history, TakeSyn,
             PollSyn, SendSynAck, PollPacket, Timeout, NextCycle, SendSegment,
             DataTimeout, Sniff, SniffTimeout, SendFinAck, NoFin, Break,
             SendRaises
    <3> QED BY <1>0, <2>1, <3>1 DEF StopAndWait
  <2> QED BY <2>2, <2>3, <2>4
<1>2. ASSUME NEW c \in Conn, Client(c) PROVE rcv'[client'] >= seq'
  <2>1. client \in Conn /\ UNCHANGED <<pc, client, seq, gaveUp>>
    BY <1>0, <1>2, ClientFrame DEF Engaged, InCycle, Serving
  <2>2. state[client] # "closed" /\ rcv[client] <= rcv'[client]
    BY <1>0, <1>2, <2>1, ClientFrame
  <2>3. TypeOK' BY TypeStep
  <2>4. rcv[client] \in Int /\ rcv'[client] \in Int /\ seq \in Int
    BY <1>0, <2>1, <2>3 DEF TypeOK
  <2>5. rcv[client] >= seq BY <1>0, <2>1, <2>2 DEF StopAndWait
  <2> QED BY <2>1, <2>2, <2>4, <2>5
<1>3. CASE UNCHANGED vars
  BY <1>0, <1>3 DEF vars, run, clients, history, StopAndWait
<1> QED BY <1>1, <1>2, <1>3, StepIsOneOf

-----------------------------------------------------------------------------
(* The theorems.                                                           *)

LEMMA InitInvariant == Init => IInv
<1> SUFFICES ASSUME Init PROVE IInv
  OBVIOUS
<1> USE Constants DEF Init
<1>1. /\ running \in BOOLEAN /\ finSeen \in BOOLEAN
      /\ answered \in BOOLEAN /\ gaveUp \in BOOLEAN
  BY Zenon
<1>2. buffer \in Seq(Packet) /\ Len(buffer) = 0 OBVIOUS
<1>3. TypeOK BY <1>1, <1>2 DEF TypeOK
<1>4. Captured = {} BY <1>2 DEF Captured
<1>5. /\ Engaged /\ Counted /\ OwnNumber /\ Truthful
      /\ HandshakeIsCurrent /\ DataAfterGet /\ StopAndWait
  BY <1>4 DEF Engaged, Counted, OwnNumber, Truthful, HandshakeIsCurrent,
              DataAfterGet, StopAndWait, InCycle, Responding, Serving
<1> QED BY <1>3, <1>5 DEF IInv

LEMMA Invariance == Spec => []IInv
<1>1. IInv /\ [Next]_vars => IInv'
  BY TypeStep, EngagedStep, CountedStep, OwnNumberStep, TruthfulStep,
     HandshakeStep, DataAfterGetStep, StopAndWaitStep
     DEF IInv
<1> QED BY <1>1, InitInvariant, PTL DEF Spec

\* The buffer never holds more than Cap packets, and every variable keeps its
\* type.
THEOREM Types == Spec => []TypeOK
<1>1. IInv => TypeOK BY DEF IInv
<1> QED BY <1>1, Invariance, PTL

\* No ACK of an earlier connection, or of an earlier cycle, opens this one: the
\* client that is served has got the SYN/ACK of this cycle.
THEOREM HandshakesAreCurrent == Spec => []HandshakeIsCurrent
<1>1. IInv => HandshakeIsCurrent BY DEF IInv
<1> QED BY <1>1, Invariance, PTL

\* A response only goes to, and only reaches, clients that sent a GET.
THEOREM DataIsAskedFor == Spec => []DataAfterGet
<1>1. IInv => DataAfterGet BY DEF IInv
<1> QED BY <1>1, Invariance, PTL

\* Unless a wait times out or the client closes, each segment is sent when the
\* client has all that were sent before it.
THEOREM SegmentsWait == Spec => []StopAndWait
<1>1. IInv => StopAndWait BY DEF IInv
<1> QED BY <1>1, Invariance, PTL

=============================================================================
