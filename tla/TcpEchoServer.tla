----------------------------- MODULE TcpEchoServer -----------------------------
(***************************************************************************)
(* lwip-intro/sockets/tcp_server.c: one task, one non-blocking listener,   *)
(* a fixed array of client sockets and one receive buffer for all of them. *)
(* The task accepts at most one client per round, then serves every slot:  *)
(* what it receives from a client it echoes to it.                         *)
(*                                                                         *)
(* A client's bytes are numbered from 1.  A socket is named by its client, *)
(* as a descriptor leaves its slot in the step that closes it.             *)
(***************************************************************************)
EXTENDS Integers, Sequences

CONSTANTS
    Client,     \* the clients, each connects once
    Invalid,    \* INVALID_SOCK
    MaxSocks,   \* max_socks, CONFIG_LWIP_MAX_SOCKETS - 1
    BufSize,    \* sizeof(rx_buffer), 128
    Window,     \* bytes a client's socket takes before send() says EAGAIN
    Bytes,      \* bound of the model: bytes each client sends
    MaxAgain    \* bound of the model: no EAGAIN more once one client has met so many

ASSUME EchoAssumption ==
    /\ Invalid \notin Client
    /\ {MaxSocks, BufSize, Window} \subseteq Nat \ {0}
    /\ Bytes \in [Client -> Nat]
    /\ MaxAgain \in Nat

VARIABLES
    pc,         \* where the task is
    slot,       \* the serving loop's index i
    sock,       \* the array of sockets
    rx,         \* rx_buffer: the owner and number of each byte
    len,        \* bytes of the last recv()
    to_write,   \* socket_send()'s local
    backlog,    \* clients the stack holds for accept(), oldest first
    conn,       \* per client: its connection, as the server sees it
    peer,       \* per client: up, has shut down its side, or has reset
    sent,       \* per client: bytes it has sent
    taken,      \* per client: bytes the server has received from it
    echoed,     \* per client: the bytes sent to it, in order
    room,       \* per client: bytes its socket takes now
    refused     \* per client: EAGAINs of send() to it (history)

server == <<pc, slot, sock, rx, len, to_write>>
client == <<backlog, conn, peer, sent, taken, echoed, room, refused>>
vars == <<server, client>>

Slot == 1..MaxSocks
\* Memory before the start of rx_buffer, or never written.
Stray == [of |-> Invalid, n |-> 0]
Byte == {Stray} \cup UNION {[of : {c}, n : 1..Bytes[c]] : c \in Client}
Least(a, b) == IF a < b THEN a ELSE b

TypeOK ==
    /\ pc \in {"setup", "accept", "serve", "send", "stopped"}
    /\ slot \in Slot
    /\ sock \in [Slot -> Client \cup {Invalid}]
    /\ rx \in [1..BufSize -> Byte]
    /\ len \in 0..BufSize
    /\ to_write \in 0..BufSize + MaxAgain
    /\ backlog \in Seq(Client)
    /\ conn \in [Client -> {"away", "backlog", "open", "closed"}]
    /\ peer \in [Client -> {"up", "fin", "reset"}]
    /\ sent \in [Client -> Nat] /\ taken \in [Client -> Nat]
    /\ \A c \in Client : taken[c] <= sent[c] /\ sent[c] <= Bytes[c]
    /\ echoed \in [Client -> Seq(Byte)]
    /\ room \in [Client -> 0..Window]
    /\ refused \in [Client -> 0..MaxAgain]

Init ==
    /\ pc = "setup"
    /\ slot = 1
    /\ sock = [i \in Slot |-> Invalid]
    /\ rx = [i \in 1..BufSize |-> Stray]
    /\ len = 0
    /\ to_write = 0
    /\ backlog = <<>>
    /\ conn = [c \in Client |-> "away"]
    /\ peer = [c \in Client |-> "up"]
    /\ sent = [c \in Client |-> 0]
    /\ taken = [c \in Client |-> 0]
    /\ echoed = [c \in Client |-> <<>>]
    /\ room = [c \in Client |-> Window]
    /\ refused = [c \in Client |-> 0]

-----------------------------------------------------------------------------
(* Start, accept and the error exit.                                       *)

\* The error label: the listener and every socket in the array are closed;
\* clients in the backlog are dropped with the listener.
CloseAll(s) ==
    /\ conn' = [c \in Client |->
                  IF conn[c] = "backlog" \/ \E i \in Slot : s[i] = c
                  THEN "closed" ELSE conn[c]]
    /\ pc' = "stopped"
    /\ backlog' = <<>>

\* getaddrinfo(), socket(), fcntl(), bind() or listen() fails, or none does.
SetupFails ==
    /\ pc = "setup"
    /\ CloseAll(sock)
    /\ UNCHANGED <<slot, sock, rx, len, to_write,
                   peer, sent, taken, echoed, room, refused>>
Setup ==
    /\ pc = "setup"
    /\ pc' = "accept"
    /\ UNCHANGED <<slot, sock, rx, len, to_write, client>>

\* The first free slot.
FirstFree(i) == sock[i] = Invalid /\ \A j \in 1..i - 1 : sock[j] # Invalid

\* accept() gives the oldest pending connection to the first free slot.
Accept ==
    /\ pc = "accept" /\ backlog # <<>>
    /\ \E i \in Slot :
          /\ FirstFree(i)
          /\ sock' = [sock EXCEPT ![i] = Head(backlog)]
    /\ conn' = [conn EXCEPT ![Head(backlog)] = "open"]
    /\ backlog' = Tail(backlog)
    /\ pc' = "serve"
    /\ slot' = 1
    /\ UNCHANGED <<rx, len, to_write, peer, sent, taken, echoed, room, refused>>

\* No slot is free, or accept() says EWOULDBLOCK.
NoAccept ==
    /\ pc = "accept"
    /\ backlog = <<>> \/ ~\E i \in Slot : FirstFree(i)
    /\ pc' = "serve"
    /\ slot' = 1
    /\ UNCHANGED <<sock, rx, len, to_write, client>>

\* accept() fails otherwise, or fcntl() on the socket it gave: `goto error'.
AcceptFails ==
    /\ pc = "accept"
    /\ \E i \in Slot :
          /\ FirstFree(i)
          /\ \/ sock' = sock
             \/ backlog # <<>> /\ sock' = [sock EXCEPT ![i] = Head(backlog)]
    /\ CloseAll(sock')
    /\ UNCHANGED <<slot, rx, len, to_write,
                   peer, sent, taken, echoed, room, refused>>

-----------------------------------------------------------------------------
(* The round over the slots.                                               *)

NextSlot ==
    IF slot < MaxSocks THEN pc' = "serve" /\ slot' = slot + 1
    ELSE pc' = "accept" /\ UNCHANGED slot

\* close() and INVALID_SOCK.  Mutant: only INVALID_SOCK.
ForgetSlot ==
    /\ sock' = [sock EXCEPT ![slot] = Invalid]
    /\ NextSlot
    /\ UNCHANGED <<rx, len, client>>
CloseSlot ==
    /\ sock' = [sock EXCEPT ![slot] = Invalid]
    /\ conn' = [conn EXCEPT ![sock[slot]] = "closed"]
    /\ NextSlot
    /\ UNCHANGED <<rx, len, backlog, peer, sent, taken, echoed, room, refused>>

SkipSlot ==
    /\ pc = "serve" /\ sock[slot] = Invalid
    /\ NextSlot
    /\ UNCHANGED <<sock, rx, len, to_write, client>>

\* recv() gives what has arrived, as much as the buffer takes.
Receive ==
    LET c == sock[slot]
        n == Least(BufSize, sent[c] - taken[c])
    IN  /\ pc = "serve" /\ c # Invalid
        /\ peer[c] # "reset" /\ n > 0
        /\ rx' = [k \in 1..BufSize |->
                     IF k <= n THEN [of |-> c, n |-> taken[c] + k] ELSE rx[k]]
        /\ taken' = [taken EXCEPT ![c] = @ + n]
        /\ len' = n
        /\ to_write' = n
        /\ pc' = "send"
        /\ UNCHANGED <<slot, sock, backlog, conn, peer, sent, echoed, room, refused>>

ReceiveNothing ==
    LET c == sock[slot] IN
    /\ pc = "serve" /\ c # Invalid
    /\ peer[c] # "reset" /\ sent[c] = taken[c]
    /\ NextSlot
    /\ UNCHANGED <<sock, rx, len, to_write, client>>

ReceiveFails ==
    /\ pc = "serve" /\ sock[slot] # Invalid
    /\ peer[sock[slot]] = "reset"
    /\ CloseSlot
    /\ UNCHANGED to_write

\* Byte k of data, counted from 1; rx_buffer begins there.
DataAt(k) == IF k \in 1..BufSize THEN rx[k] ELSE Stray

\* data + (len - to_write).  Mutants: the start of the buffer each time; the
\* bytes after what is left.
FromStart == 0
PastLeft == to_write
Offset == len - to_write

\* One send() of socket_send()'s loop: as much as the socket takes.
Send ==
    LET c == sock[slot]
        written == Least(to_write, room[c])
    IN  /\ pc = "send" /\ to_write > 0
        /\ peer[c] # "reset" /\ written > 0
        /\ echoed' = [echoed EXCEPT
                        ![c] = @ \o [k \in 1..written |-> DataAt(Offset + k)]]
        /\ room' = [room EXCEPT ![c] = @ - written]
        /\ to_write' = to_write - written
        /\ UNCHANGED <<pc, slot, sock, rx, len,
                       backlog, conn, peer, sent, taken, refused>>

\* `to_write -= written' with written = -1 when the socket takes nothing.
SendAgain ==
    LET c == sock[slot] IN
    /\ pc = "send" /\ to_write > 0
    /\ peer[c] # "reset" /\ room[c] = 0
    /\ \A d \in Client : refused[d] < MaxAgain
    /\ to_write' = to_write + 1
    /\ refused' = [refused EXCEPT ![c] = @ + 1]
    /\ UNCHANGED <<pc, slot, sock, rx, len,
                   backlog, conn, peer, sent, taken, echoed, room>>

SendFails ==
    /\ pc = "send" /\ to_write > 0
    /\ peer[sock[slot]] = "reset"
    /\ CloseSlot
    /\ to_write' = 0

SendDone ==
    /\ pc = "send" /\ to_write = 0
    /\ NextSlot
    /\ UNCHANGED <<sock, rx, len, to_write, client>>

Task ==
    \/ Setup \/ Accept \/ NoAccept
    \/ SkipSlot \/ Receive \/ ReceiveNothing \/ ReceiveFails
    \/ Send \/ SendAgain \/ SendFails \/ SendDone

-----------------------------------------------------------------------------
(* The clients.                                                            *)

Connect(c) ==
    /\ pc \notin {"setup", "stopped"} /\ conn[c] = "away"
    /\ conn' = [conn EXCEPT ![c] = "backlog"]
    /\ backlog' = Append(backlog, c)
    /\ UNCHANGED <<server, peer, sent, taken, echoed, room, refused>>

Connected(c) == conn[c] \in {"backlog", "open"}

Put(c) ==
    /\ Connected(c) /\ peer[c] = "up" /\ sent[c] < Bytes[c]
    /\ sent' = [sent EXCEPT ![c] = @ + 1]
    /\ UNCHANGED <<server, backlog, conn, peer, taken, echoed, room, refused>>

\* The client reads: its socket takes bytes again.
Read(c) ==
    /\ Connected(c) /\ peer[c] # "reset" /\ room[c] < Window
    /\ room' = [room EXCEPT ![c] = Window]
    /\ UNCHANGED <<server, backlog, conn, peer, sent, taken, echoed, refused>>

Leave(c, how) ==
    /\ Connected(c) /\ peer[c] \in {"up", "fin"} /\ peer[c] # how
    /\ peer' = [peer EXCEPT ![c] = how]
    /\ UNCHANGED <<server, backlog, conn, sent, taken, echoed, room, refused>>

Next ==
    \/ Task
    \/ SetupFails
    \/ AcceptFails
    \/ \E c \in Client :
          Connect(c) \/ Put(c) \/ Read(c) \/ Leave(c, "fin") \/ Leave(c, "reset")

\* The task runs; nothing is assumed of the clients.
Spec == Init /\ [][Next]_vars /\ WF_vars(Task)

-----------------------------------------------------------------------------

\* The array holds the open connections, each once: none is forgotten open,
\* kept after its close or served from two slots, also after an error exit.
SlotsAreOpen ==
    /\ pc # "stopped" =>
          \A c \in Client : conn[c] = "open" <=> \E i \in Slot : sock[i] = c
    /\ pc = "stopped" => \A c \in Client : ~Connected(c)
    /\ \A i, j \in Slot : sock[i] = sock[j] /\ sock[i] # Invalid => i = j

\* rx_buffer is shared, yet no client gets a byte of another one, nor one
\* left in the buffer by an earlier recv().
NoCrossTalk ==
    \A c \in Client : \A k \in 1..Len(echoed[c]) :
        echoed[c][k].of \in {c, Invalid}

\* What is still to be echoed of what was received.
Owed(c) == IF pc = "send" /\ sock[slot] = c THEN to_write ELSE 0

\* Until a send() to it says EAGAIN a client gets its own bytes back: each
\* once, in order, across partial writes and interleaved clients.
EchoExact ==
    \A c \in Client : refused[c] = 0 /\ conn[c] = "open" =>
        /\ Len(echoed[c]) = taken[c] - Owed(c)
        /\ \A k \in 1..Len(echoed[c]) : echoed[c][k] = [of |-> c, n |-> k]

\* Every client goes on reading what is sent to it, as long as it is connected.
AllRead ==
    \A d \in Client : []<>(room[d] > 0 \/ peer[d] = "reset" \/ ~Connected(d))


\* `blocks until all bytes got sent' (line 110): whatever send() says.
EchoComplete ==
    \A c \in Client : conn[c] = "open" =>
        \A k \in 1..Len(echoed[c]) : echoed[c][k] = [of |-> c, n |-> k]

-----------------------------------------------------------------------------
(* The inductive invariant of the proofs.                                  *)

\* The backlog holds the pending clients, each once.
Pending ==
    /\ \A i, j \in 1..Len(backlog) : backlog[i] = backlog[j] => i = j
    /\ \A c \in Client :
          conn[c] = "backlog" <=> \E i \in 1..Len(backlog) : backlog[i] = c

\* While socket_send() runs the buffer begins with what was received last from
\* the client of the slot; only EAGAINs make more of it to be written.
Sending ==
    IF pc = "send"
    THEN LET c == sock[slot] IN
         /\ c # Invalid
         /\ 0 < len /\ len <= taken[c]
         /\ \A k \in 1..len : rx[k] = [of |-> c, n |-> taken[c] - len + k]
         /\ to_write <= len + refused[c]
    ELSE to_write = 0

\* Nothing was received from, or echoed to, a client not accepted yet.
Untouched ==
    \A c \in Client : conn[c] \in {"away", "backlog"} =>
        taken[c] = 0 /\ echoed[c] = <<>>

IInv ==
    /\ TypeOK /\ Pending /\ Sending /\ Untouched
    /\ SlotsAreOpen /\ NoCrossTalk /\ EchoExact

=============================================================================
