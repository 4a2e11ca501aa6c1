--------------------------- MODULE ScapyTcpServer ---------------------------
(***************************************************************************)
(* lwip/rcvwnd_issue/scripts/scapy_tcp_server.py: a TCP server made of     *)
(* packets.  One thread sniffs the port and keeps the last packets in a    *)
(* buffer; the main thread serves one connection at a time, finding each   *)
(* packet it waits for by polling that buffer.                             *)
(*                                                                         *)
(* Two comparisons are kept as one bit each.  A wait skips what was stamped*)
(* before it began: `old' is set on every packet stamped so far when a wait*)
(* begins to poll, and cleared when it ends.  Sequence numbers are offsets,*)
(* in segments, from the random one the server picks for each SYN: `cur' is*)
(* cleared everywhere when it picks another.  They do not wrap here.       *)
(***************************************************************************)
EXTENDS Integers, Sequences

CONSTANTS
    Conn,       \* the client connections: address and port
    None,       \* no connection, no packet
    Cap,        \* packets the buffer keeps, 100
    Segments,   \* segments of the response, 3
    MaxTries    \* max_timeouts of _wait_for_fin(), 120

ASSUME ServerAssumption ==
    /\ None \notin Conn
    /\ {Cap, Segments, MaxTries} \subseteq Nat \ {0}

VARIABLES
    pc,         \* where run() is
    running,    \* the flag the signal handler clears
    client,     \* client_ip and client_port
    seq,        \* self.seq, in segments after the handshake
    tries,      \* timeout_count
    finSeen,    \* the sniff() of _wait_for_fin() has a FIN
    buffer,     \* global_packets, oldest first
    held,       \* the packet the callback has stamped and not yet stored
    state,      \* per connection: the client's TCP state
    base,       \* per connection: the server's initial number it knows
    asked,      \* per connection: the GET has been sent
    rcv,        \* per connection: segments received
    inbox,      \* per connection: the server's packet on its way
    answered,   \* the client has got the SYN/ACK of this cycle (history)
    gaveUp      \* the server has stopped waiting for a data ACK (history)

run == <<pc, running, client, seq, tries, finSeen>>
sniffer == <<buffer, held>>
clients == <<state, base, asked, rcv, inbox>>
history == <<answered, gaveUp>>
vars == <<run, sniffer, clients, history>>

Packet == [of : Conn, kind : {"syn", "ack", "get", "fin", "rst"},
           n : 0..Segments, cur : BOOLEAN, old : BOOLEAN]
Reply == [kind : {"synack", "data", "finack"}, n : 0..Segments, cur : BOOLEAN]

ASSUME NoneAssumption == None \notin Packet

\* The four waits that poll the buffer; a connection being served.
Polling == {"synPoll", "ackPoll", "getPoll", "dataPoll"}
Serving == {"get", "getPoll", "request", "segment", "data", "dataPoll",
            "fin", "finNext"}

TypeOK ==
    /\ pc \in {"syn", "answer", "ack", "stopped"} \cup Polling \cup Serving
    /\ running \in BOOLEAN
    /\ client \in Conn \cup {None}
    /\ seq \in 0..Segments
    /\ tries \in 0..MaxTries
    /\ finSeen \in BOOLEAN
    /\ buffer \in Seq(Packet) /\ Len(buffer) <= Cap
    /\ held \in Packet \cup {None}
    /\ state \in [Conn -> {"away", "synSent", "established", "closing", "closed"}]
    /\ base \in [Conn -> {"none", "current", "past"}]
    /\ asked \in [Conn -> BOOLEAN]
    /\ rcv \in [Conn -> 0..Segments]
    /\ inbox \in [Conn -> Reply \cup {None}]
    /\ answered \in BOOLEAN /\ gaveUp \in BOOLEAN

Init ==
    /\ pc = "syn" /\ running = TRUE /\ client = None
    /\ seq = 0 /\ tries = 0 /\ finSeen = FALSE
    /\ buffer = <<>> /\ held = None
    /\ state = [c \in Conn |-> "away"]
    /\ base = [c \in Conn |-> "none"]
    /\ asked = [c \in Conn |-> FALSE]
    /\ rcv = [c \in Conn |-> 0]
    /\ inbox = [c \in Conn |-> None]
    /\ answered = FALSE /\ gaveUp = FALSE

-----------------------------------------------------------------------------
(* The sniffer thread: _global_packet_callback().                          *)

\* Stored under the lock, after it was stamped outside it; the oldest packet
\* makes room.
Kept(b) == IF Len(b) > Cap THEN Tail(b) ELSE b

Store ==
    /\ held # None
    /\ buffer' = Kept(Append(buffer, held))
    /\ held' = None
    /\ UNCHANGED <<run, clients, history>>

\* The server's own packets are captured too: they show in the room they take.
StoreOwn ==
    /\ buffer # <<>>
    /\ buffer' = Tail(buffer)
    /\ UNCHANGED <<run, held, clients, history>>

-----------------------------------------------------------------------------
(* The main thread: what it looks for.                                     *)

Mine(p) == p.of = client
HasAck(p) == p.kind # "syn"

IsSyn(p) == p.kind = "syn"

\* No payload, and the number after the SYN/ACK's.  Mutant: no number.
IsAnyAck(p) == Mine(p) /\ HasAck(p) /\ p.kind # "get"
IsHandshakeAck(p) ==
    Mine(p) /\ HasAck(p) /\ p.kind # "get" /\ p.cur /\ p.n = 0

\* A payload with GET in it, whatever its number.  Mutant: anybody's.
IsAnyGet(p) == p.kind = "get"
IsGet(p) == Mine(p) /\ p.kind = "get"

\* Any packet that acknowledges the segment just sent.  Mutant: the one before.
IsLastAck(p) == Mine(p) /\ HasAck(p) /\ p.cur /\ p.n = seq
IsDataAck(p) == Mine(p) /\ HasAck(p) /\ p.cur /\ p.n = seq + 1

\* The packets a wait may choose from: all that are stored when it begins, and
\* whenever it polls those stamped since.
Seen == {i \in 1..Len(buffer) : pc \in Polling => ~buffer[i].old}

Synced == {i \in Seen : IsSyn(buffer[i])}
Found(p) ==
    CASE pc \in {"ack", "ackPoll"} -> IsHandshakeAck(p)
      [] pc \in {"get", "getPoll"} -> IsGet(p)
      [] pc \in {"data", "dataPoll"} -> IsDataAck(p)

\* A wait begins to poll: every packet stamped so far is older.  It ends.
Aged(p, b) == IF p = None THEN None ELSE [p EXCEPT !.old = b]
MarkAll(b) ==
    /\ buffer' = [i \in 1..Len(buffer) |-> Aged(buffer[i], b)]
    /\ held' = Aged(held, b)
Begin == MarkAll(TRUE)
End == MarkAll(FALSE)

-----------------------------------------------------------------------------
(* The main thread: run().                                                 *)

\* The head of the loop, and the end of the calls of the cycle before.
NextCycle ==
    /\ pc' = "syn" /\ client' = None
    /\ seq' = 0 /\ tries' = 0 /\ finSeen' = FALSE
    /\ answered' = FALSE /\ gaveUp' = FALSE

\* The server's random number is another one from now on.
Renumbered(p) == IF p = None THEN None ELSE [p EXCEPT !.cur = FALSE]
Past(p) == Renumbered(Aged(p, FALSE))

\* _wait_for_syn() returns the connection of the most recent SYN.
TakeSyn ==
    /\ pc \in {"syn", "synPoll"} /\ running
    /\ \E i \in Synced :
          (\A j \in Synced : j <= i) /\ client' = buffer[i].of
    /\ pc' = "answer"
    /\ buffer' = [i \in 1..Len(buffer) |-> Past(buffer[i])]
    /\ held' = Past(held)
    /\ base' = [c \in Conn |-> IF base[c] = "none" THEN "none" ELSE "past"]
    /\ inbox' = [c \in Conn |-> Renumbered(inbox[c])]
    /\ UNCHANGED <<running, seq, tries, finSeen, state, asked, rcv, history>>

PollSyn ==
    /\ pc = "syn" /\ running
    /\ Synced = {}
    /\ pc' = "synPoll"
    /\ Begin
    /\ UNCHANGED <<running, client, seq, tries, finSeen, clients, history>>

\* What the server sends replaces what was still on its way.
Emit(kind, n) ==
    inbox' = [inbox EXCEPT ![client] = [kind |-> kind, n |-> n, cur |-> TRUE]]

SendSynAck ==
    /\ pc = "answer" /\ running
    /\ Emit("synack", 0)
    /\ pc' = "ack"
    /\ UNCHANGED <<running, client, seq, tries, finSeen, sniffer,
                   state, base, asked, rcv, history>>

\* _wait_for_ack(), _wait_for_get() and _wait_for_data_ack() find it ...
AfterWait(p) ==
    CASE p \in {"ack", "ackPoll"} -> "get"
      [] p \in {"get", "getPoll"} -> "request"
      [] p \in {"data", "dataPoll"} -> "segment"

FindPacket ==
    /\ pc \in {"ack", "get", "data", "ackPoll", "getPoll", "dataPoll"}
    /\ pc = "get" => running
    /\ \E i \in Seen : Found(buffer[i])
    /\ pc' = AfterWait(pc)
    /\ seq' = IF pc' = "segment" THEN seq + 1 ELSE seq
    /\ End
    /\ UNCHANGED <<running, client, tries, finSeen, clients, history>>

\* ... or, when it is not stored yet, begin to poll.
PollPacket ==
    /\ pc \in {"ack", "get", "data"}
    /\ pc = "get" => running
    /\ \A i \in Seen : ~Found(buffer[i])
    /\ pc' = CASE pc = "ack" -> "ackPoll"
               [] pc = "get" -> "getPoll"
               [] pc = "data" -> "dataPoll"
    /\ Begin
    /\ UNCHANGED <<running, client, seq, tries, finSeen, clients, history>>

\* Ten seconds have passed, or the server is told to stop: the cycle ends.
\* Mutant: the wait for the GET has no limit.
TimeoutOfAck ==
    /\ pc = "ackPoll"
    /\ NextCycle
    /\ End
    /\ UNCHANGED <<running, clients>>
Timeout ==
    /\ pc \in {"ackPoll", "getPoll"}
    /\ NextCycle
    /\ End
    /\ UNCHANGED <<running, clients>>

\* `Failed to receive ACK for segment, continuing anyway'.
DataTimeout ==
    /\ pc = "dataPoll"
    /\ pc' = "segment"
    /\ seq' = seq + 1
    /\ gaveUp' = TRUE
    /\ End
    /\ UNCHANGED <<running, client, tries, finSeen, clients, answered>>

\* _send_ack(), which tells the client nothing new; _send_http_response() begins.
SendAck ==
    /\ pc = "request" /\ running
    /\ pc' = "segment"
    /\ UNCHANGED <<running, client, seq, tries, finSeen, sniffer, clients, history>>

\* One segment; only the last one is not waited for.
SendSegment ==
    /\ pc = "segment"
    /\ Emit("data", seq)
    /\ \/ seq + 1 < Segments /\ pc' = "data" /\ UNCHANGED <<seq, tries>>
       \/ seq + 1 = Segments /\ pc' = "finNext" /\ seq' = seq + 1 /\ tries' = 0
    /\ UNCHANGED <<running, client, finSeen, sniffer,
                   state, base, asked, rcv, history>>

\* The loop of _wait_for_fin(): half a second of sniff() each time.
Sniff ==
    /\ pc = "finNext" /\ running /\ tries < MaxTries
    /\ pc' = "fin"
    /\ finSeen' = FALSE
    /\ UNCHANGED <<running, client, seq, tries, sniffer, clients, history>>

\* A FIN between two of them is not seen.
SniffTimeout ==
    /\ pc = "fin" /\ ~finSeen
    /\ pc' = "finNext" /\ tries' = tries + 1
    /\ UNCHANGED <<running, client, seq, finSeen, sniffer, clients, history>>

SendFinAck ==
    /\ pc = "fin" /\ finSeen
    /\ Emit("finack", 0)
    /\ NextCycle
    /\ UNCHANGED <<running, sniffer, state, base, asked, rcv>>

\* `No FIN received, closing'.
NoFin ==
    /\ pc = "finNext" /\ (~running \/ tries = MaxTries)
    /\ NextCycle
    /\ UNCHANGED <<running, sniffer, clients>>

\* A send() raises: logged, and the next cycle begins.
SendRaises ==
    /\ pc \in {"answer", "request", "segment"} \/ (pc = "fin" /\ finSeen)
    /\ NextCycle
    /\ UNCHANGED <<running, sniffer, clients>>

\* The checks of self.running.
Break ==
    /\ ~running /\ pc \in {"syn", "synPoll", "answer", "get", "request"}
    /\ pc' = "stopped"
    /\ UNCHANGED <<running, client, seq, tries, finSeen, sniffer, clients, history>>

\* _signal_handler().
Signal ==
    /\ running
    /\ running' = FALSE
    /\ UNCHANGED <<pc, client, seq, tries, finSeen, sniffer, clients, history>>

Server ==
    \/ TakeSyn \/ PollSyn \/ SendSynAck \/ FindPacket \/ PollPacket \/ Timeout
    \/ SendAck \/ SendSegment \/ DataTimeout
    \/ Sniff \/ SniffTimeout \/ SendFinAck \/ NoFin \/ Break

-----------------------------------------------------------------------------
(* The clients and their TCP.  A packet is stamped as it is sent.          *)

Transmit(c, kind, n, cur) ==
    /\ held = None
    /\ held' = [of |-> c, kind |-> kind, n |-> n, cur |-> cur, old |-> FALSE]
    /\ finSeen' = (finSeen \/ (pc = "fin" /\ kind = "fin" /\ client = c))
    /\ UNCHANGED <<pc, running, client, seq, tries, buffer, gaveUp>>

\* A SYN, and the same again while it is not answered.
SendSyn(c) ==
    /\ state[c] \in {"away", "synSent"}
    /\ state' = [state EXCEPT ![c] = "synSent"]
    /\ Transmit(c, "syn", 0, FALSE)
    /\ UNCHANGED <<base, asked, rcv, inbox, answered>>

SendGet(c) ==
    /\ state[c] = "established" /\ ~asked[c]
    /\ asked' = [asked EXCEPT ![c] = TRUE]
    /\ Transmit(c, "get", rcv[c], base[c] = "current")
    /\ UNCHANGED <<state, base, rcv, inbox, answered>>

\* Sent once: its retransmissions are left out.
SendFin(c) ==
    /\ state[c] = "established"
    /\ state' = [state EXCEPT ![c] = "closing"]
    /\ Transmit(c, "fin", rcv[c], base[c] = "current")
    /\ UNCHANGED <<base, asked, rcv, inbox, answered>>

\* The server's packet arrives; one that is lost stays until another comes.
Arrives(c, kind) ==
    /\ inbox[c] # None /\ inbox[c].kind = kind
    /\ inbox' = [inbox EXCEPT ![c] = None]
Answers(c) == answered' = (answered \/ (c = client /\ inbox[c].cur))

OnSynAck(c) ==
    /\ Arrives(c, "synack") /\ state[c] = "synSent"
    /\ state' = [state EXCEPT ![c] = "established"]
    /\ base' = [base EXCEPT ![c] = IF inbox[c].cur THEN "current" ELSE "past"]
    /\ Answers(c)
    /\ Transmit(c, "ack", 0, inbox[c].cur)
    /\ UNCHANGED <<asked, rcv>>

\* The next segment; a copy of an earlier one is acknowledged again.
OnData(c) ==
    /\ Arrives(c, "data") /\ state[c] = "established"
    /\ inbox[c].cur = (base[c] = "current") /\ inbox[c].n <= rcv[c]
    /\ rcv' = [rcv EXCEPT ![c] = IF inbox[c].n = @ THEN @ + 1 ELSE @]
    /\ Transmit(c, "ack", rcv'[c], inbox[c].cur)
    /\ UNCHANGED <<state, base, asked, answered>>

Forgets(c) ==
    /\ state' = [state EXCEPT ![c] = "closed"]
    /\ base' = [base EXCEPT ![c] = "none"]
    /\ rcv' = [rcv EXCEPT ![c] = 0]

OnFinAck(c) ==
    /\ Arrives(c, "finack") /\ state[c] = "closing"
    /\ Forgets(c)
    /\ UNCHANGED <<run, sniffer, asked, history>>

\* The client's program ends; what its TCP sends then is lost.
Abandon(c) ==
    /\ state[c] = "established"
    /\ Forgets(c)
    /\ UNCHANGED <<run, sniffer, asked, inbox, history>>

\* A connection the client does not have any more is reset; lwIP's resets
\* acknowledge what they answer.
OnStale(c) ==
    /\ inbox[c] # None /\ state[c] = "closed"
    /\ inbox' = [inbox EXCEPT ![c] = None]
    /\ Answers(c)
    /\ LET r == inbox[c] IN
       Transmit(c, "rst", IF r.kind = "data" THEN r.n + 1 ELSE 0, r.cur)
    /\ UNCHANGED <<state, base, asked, rcv>>

Client(c) ==
    \/ SendSyn(c) \/ SendGet(c) \/ SendFin(c) \/ Abandon(c)
    \/ OnSynAck(c) \/ OnData(c) \/ OnFinAck(c) \/ OnStale(c)

Next ==
    \/ Store \/ StoreOwn
    \/ Server \/ SendRaises \/ Signal
    \/ \E c \in Conn : Client(c)

\* The main thread goes on; nothing is assumed of the sniffer or the clients.
Spec == Init /\ [][Next]_vars /\ WF_vars(Server)

-----------------------------------------------------------------------------

\* Whatever older packets the buffer holds, a connection is served only after
\* its client has got the SYN/ACK of this very cycle (lines 186-206).
HandshakeIsCurrent == pc \in Serving => answered

\* Data goes only to a client that has sent a GET, although GETs of several
\* connections share the buffer and their numbers are not compared.
DataAfterGet ==
    \A c \in Conn :
        rcv[c] > 0 \/ (inbox[c] # None /\ inbox[c].kind = "data") => asked[c]

\* `Wait for ACK before sending next segment' (line 371): unless a wait has
\* timed out or the client is closed, it has all the segments sent before.
StopAndWait ==
    pc \in {"segment", "data", "dataPoll"} /\ ~gaveUp /\ state[client] # "closed"
        => rcv[client] >= seq

\* Whatever is lost, the server comes back for the next SYN; and it stops when it
\* is told to, whatever it is waiting for.
AlwaysReturns ==
    /\ pc = "answer" ~> pc \in {"syn", "stopped"}
    /\ ~running ~> pc = "stopped"

-----------------------------------------------------------------------------
(* The inductive invariant of the proofs.                                  *)

InCycle == {"answer", "ack", "ackPoll"} \cup Serving
Responding == {"request", "segment", "data", "dataPoll", "finNext", "fin"}

\* There is a client from its SYN on, and its GET from the answer to it on.
Engaged ==
    /\ pc \in InCycle => client \in Conn
    /\ pc \in Responding => asked[client]

\* The response is sent segment by segment, and waited for a bounded time.
Counted ==
    /\ pc \notin Responding \ {"request"} => seq = 0
    /\ pc = "segment" => seq < Segments
    /\ pc \in {"data", "dataPoll"} => seq + 1 < Segments
    /\ pc = "fin" => tries < MaxTries
    /\ \A c \in Conn :
          inbox[c] # None /\ inbox[c].kind = "data" => inbox[c].n < Segments

\* Only the client of this cycle has, or is about to get, its random number.
OwnNumber ==
    pc \in InCycle =>
        \A c \in Conn :
            /\ base[c] = "current" => c = client /\ answered
            /\ inbox[c] # None /\ inbox[c].cur => c = client

\* A packet, however old, says what was so when it was sent and is so still.
Captured == {buffer[i] : i \in 1..Len(buffer)} \cup ({held} \ {None})
Truthful ==
    \A p \in Captured :
        /\ p.kind = "get" => asked[p.of]
        /\ p.kind # "syn" /\ state[p.of] # "closed" => p.n <= rcv[p.of]
        /\ pc \in InCycle /\ p.cur => answered

IInv ==
    /\ TypeOK
    /\ Engaged /\ Counted /\ OwnNumber /\ Truthful
    /\ HandshakeIsCurrent /\ DataAfterGet /\ StopAndWait

=============================================================================
