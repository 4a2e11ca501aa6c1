------------------------------ MODULE TcpClients ------------------------------
(***************************************************************************)
(* The TCP client programs, which are variations of one loop: socket(),    *)
(* connect(), send() and recv() until an error, close(), and again.        *)
(*                                                                         *)
(*   intro    lwip-intro/sockets/tcp_client.c, tcp_client_task             *)
(*   once     lwip-intro/sockets/socket_examples.c, tcp_client_task        *)
(*   shared   socket_examples.c, sock_echo and sock_data on one socket     *)
(*   v4, v6   lwip_output_hooks, with the filter around ip4/ip6_output_if  *)
(*   window   lwip/rcvwnd_issue/tcp_client, one reply per connection       *)
(*   eventfd  devcon22/demo_3_sockets, connect() that a lost link cuts off *)
(***************************************************************************)
EXTENDS Integers, FiniteSets

CONSTANTS
    Program,    \* the programs looked at
    None,       \* no descriptor
    Sockets,    \* the descriptors of the stack
    Buf,        \* sizeof(rx_buffer) of window
    Expected,   \* EXPECTED_RESPONSE_SIZE
    Batch,      \* BATCH
    MaxAttempts,\* max_attempts
    Window,     \* what the stack keeps for recv()
    Sizes,      \* sizes of a reply
    Losses      \* bound of the model: link losses signalled

ASSUME ClientAssumption ==
    /\ Program \subseteq {"intro", "once", "shared", "v4", "v6", "window", "eventfd"}
    /\ None \notin Sockets
    /\ {Buf, Expected, Batch, MaxAttempts, Window, Losses} \subseteq Nat \ {0}
    /\ Expected >= Buf
    /\ Sizes \subseteq Nat

VARIABLES
    prog,       \* the program that runs, its configuration:
    filtered,   \*   CONFIG_EXAMPLE_IP4_OUTPUT_DROP_TCP, ..IP6..
    netifs,     \*   kinds of address found on the interfaces
    usable,     \*   those the build accepts
    pc,         \* where the task is
    sock,       \* its sock
    open,       \* open descriptors
    conn,       \* the connection of sock
    unread,     \* bytes the stack has for recv()
    size, left, \* bytes of the server's reply, and how many it has still to send
    total, attempts,    \* total_received, receive_attempts of window
    data,       \* the thread of sock_data()
    fd,         \* disconnect_fd has been created
    counter,    \* its value
    ready,      \* what select() has found: the signal, the socket
    losses      \* see Losses

config == <<prog, filtered, netifs, usable>>
reply == <<size, left>>
received == <<total, attempts>>
signal == <<fd, counter, losses>>
vars == <<config, pc, sock, open, conn, unread, reply, received, data, signal, ready>>

TypeOK ==
    /\ prog \in Program
    /\ filtered \in BOOLEAN
    /\ {netifs, usable} \subseteq SUBSET {"loopback", "scoped", "other"}
    /\ pc \in {"boot", "head", "choose", "connect", "connecting", "select", "selected",
               "send", "recv", "close", "stopped"}
    /\ sock \in Sockets \cup {None}
    /\ open \subseteq Sockets
    /\ conn \in {"none", "syn", "up", "fin", "refused", "lost"}
    /\ unread \in 0..Window
    /\ size \in Sizes /\ left \in 0..size
    /\ total \in 0..Buf - 1
    /\ attempts \in 0..MaxAttempts
    /\ data \in {"off", "on"}
    /\ fd \in BOOLEAN
    /\ {counter, losses} \subseteq 0..Losses
    /\ ready \subseteq {"signal", "socket"}

\* Addresses of an interface that may be taken.  get_src_iface(): first byte above
\* one; choose_netif(): global, unique local or link-local.
UsableLinux == {"scoped", "other"}
UsableIdf == {"scoped"}

Init ==
    /\ prog \in Program
    /\ filtered \in (IF prog \in {"v4", "v6"} THEN BOOLEAN ELSE {FALSE})
    /\ netifs \in (IF prog = "v6" THEN SUBSET {"loopback", "scoped", "other"} ELSE {{}})
    /\ usable \in (IF prog = "v6" THEN {UsableLinux, UsableIdf} ELSE {{}})
    /\ pc = IF prog = "eventfd" THEN "boot" ELSE "head"
    /\ sock = None
    /\ open = {}
    /\ conn = "none"
    /\ unread = 0
    /\ size \in Sizes /\ left = size
    /\ total = 0 /\ attempts = 0
    /\ data = "off"
    /\ fd = FALSE
    /\ counter = 0
    /\ losses = 0
    /\ ready = {}

Goto(p) == pc' = p

----------------------------------------------------------------------------
\* The server and the stack.

\* ip4_output_filter(), ip6_output_filter(): ERR_OK.  A SYN that the filter
\* drops is never answered.
OutputOk == ~filtered

Establish ==
    /\ conn = "syn"
    /\ OutputOk
    /\ conn' \in {"up", "refused"}
    /\ left' = size
    /\ UNCHANGED <<config, pc, sock, open, unread, size, received, data, signal, ready>>

\* Servers of window send their reply; the others answer as they like.
ServerSends ==
    /\ conn = "up"
    /\ unread < Window
    /\ unread' = unread + 1
    /\ IF prog = "window" THEN left > 0 /\ left' = left - 1 ELSE UNCHANGED left
    /\ UNCHANGED <<config, pc, sock, open, conn, size, received, data, signal, ready>>

ServerCloses ==
    /\ conn = "up"
    /\ prog = "window" => left = 0
    /\ conn' = "fin"
    /\ UNCHANGED <<config, pc, sock, open, unread, reply, received, data, signal, ready>>

\* A reset, an answer to what is sent to a closed socket, or a dead peer.
ConnectionLost ==
    /\ conn \in {"up", "fin"}
    /\ conn' = "lost"
    /\ unread' \in {0, unread}
    /\ UNCHANGED <<config, pc, sock, open, reply, received, data, signal, ready>>

\* eth_event_handler() on ETHERNET_EVENT_DISCONNECTED.  It is registered before
\* the descriptor is made: an early signal goes to descriptor 0.
LinkDown ==
    /\ prog = "eventfd"
    /\ losses < Losses
    /\ losses' = losses + 1
    /\ counter' = IF fd THEN counter + 1 ELSE counter
    /\ UNCHANGED <<config, pc, sock, open, conn, unread, reply, received, data, fd, ready>>

World == Establish \/ ServerSends \/ ServerCloses \/ ConnectionLost \/ LinkDown

----------------------------------------------------------------------------
\* The task.

\* app_main of eventfd: example_connect() has returned.
CreateFd ==
    /\ pc = "boot"
    /\ fd' = TRUE
    /\ Goto("head")
    /\ UNCHANGED <<config, sock, open, conn, unread, reply, received, data, counter, losses, ready>>

\* socket(): the lowest free descriptor.
Socket ==
    /\ pc = "head"
    /\ \E s \in Sockets \ open :
        /\ \A t \in Sockets \ open : s <= t
        /\ sock' = s
        /\ open' = open \cup {s}
    /\ Goto(IF prog = "v6" THEN "choose" ELSE "connect")
    /\ UNCHANGED <<config, conn, unread, reply, received, data, signal, ready>>

\* socket() fails: the loop ends.
NoSocket ==
    /\ pc = "head"
    /\ Goto("stopped")
    /\ UNCHANGED <<config, sock, open, conn, unread, reply, received, data, signal, ready>>

\* Without an interface the loop ends.
ChooseNetif ==
    /\ pc = "choose"
    /\ Goto(IF netifs \cap usable # {} THEN "connect" ELSE "stopped")
    /\ UNCHANGED <<config, sock, open, conn, unread, reply, received, data, signal, ready>>

\* connect() sends the SYN; with O_NONBLOCK it returns EINPROGRESS.
Connect ==
    /\ pc = "connect"
    /\ conn' = "syn"
    /\ Goto(IF prog = "eventfd" THEN "select" ELSE "connecting")
    /\ UNCHANGED <<config, sock, open, unread, reply, received, data, signal, ready>>

\* Once connected, shared starts its second thread, and window begins a reply.
Connected ==
    /\ conn # "syn" /\ conn # "refused"
    /\ Goto("send")
    /\ data' = IF prog = "shared" THEN "on" ELSE "off"
    /\ total' = 0 /\ attempts' = 0
    /\ UNCHANGED <<config, sock, open, conn, unread, reply, signal>>

ConnectReturns == pc = "connecting" /\ Connected /\ UNCHANGED ready

\* Refused, or no answer: the loop ends, and the descriptor stays open; nobody looks
\* at its connection again.
GivesUp ==
    /\ Goto("stopped")
    /\ conn' = "none" /\ unread' = 0
    /\ UNCHANGED <<config, sock, open, reply, received, data, signal>>

ConnectFails ==
    /\ pc = "connecting"
    /\ conn \in {"refused", "syn"}
    /\ GivesUp
    /\ UNCHANGED ready

\* select() returns with what it found at that moment, or with nothing after ten
\* seconds; signals that come later do not change it.
SelectReturns ==
    /\ pc = "select"
    /\ ready' = {r \in {"signal", "socket"} :
                    (r = "signal" /\ counter > 0) \/ (r = "socket" /\ conn # "syn")}
    /\ Goto("selected")
    /\ UNCHANGED <<config, sock, open, conn, unread, reply, received, data, signal>>

\* The socket is writable, and disconnect_fd was not.  Mutant: whatever it was.
WritableFirst == pc = "selected" /\ "socket" \in ready
Writable == pc = "selected" /\ "socket" \in ready /\ "signal" \notin ready

\* getsockopt() tells of no error: the connection is up, or its end is not known yet.
SelectConnected == Writable /\ Connected /\ ready' = {}

\* The time-out, or an error that getsockopt() tells of.
SelectFails ==
    /\ pc = "selected" /\ "signal" \notin ready
    /\ "socket" \in ready => conn \in {"refused", "lost"}
    /\ GivesUp
    /\ ready' = {}

CloseSocket ==
    /\ open' = open \ {sock}
    /\ sock' = None
    /\ conn' = "none"
    /\ unread' = 0

\* FD_ISSET(disconnect_fd).  Nobody reads it, so that select() will find it again.
SelectSignalled ==
    /\ pc = "selected" /\ "signal" \in ready
    /\ CloseSocket
    /\ Goto("head")
    /\ ready' = {}
    /\ UNCHANGED <<config, reply, received, data, signal>>

\* eventfd closes after what it sends, the others wait for an answer.
Send ==
    /\ pc = "send"
    /\ conn # "lost"
    /\ Goto(IF prog = "eventfd" THEN "close" ELSE "recv")
    /\ UNCHANGED <<config, sock, open, conn, unread, reply, received, data, signal, ready>>

\* An error of send() or recv().  Mutant: tried again.
Retry(p) == p
OnError(p) ==
    CASE prog = "shared" -> "stopped"
      [] p = "send" /\ prog \in {"window", "eventfd"} -> "stopped"
      [] OTHER -> "close"

SendFails ==
    /\ pc = "send"
    /\ conn = "lost"
    /\ Goto(OnError("send"))
    /\ UNCHANGED <<config, sock, open, conn, unread, reply, received, data, signal, ready>>

\* recv() of an echo client: what was received is logged; zero too.
ReceiveEcho ==
    /\ pc = "recv"
    /\ prog # "window"
    /\ \/ \E len \in 1..unread : unread' = unread - len
       \/ unread = 0 /\ conn = "fin" /\ UNCHANGED unread
    /\ Goto("send")
    /\ UNCHANGED <<config, sock, open, conn, reply, received, data, signal, ready>>

\* recv() of window: room is kept for the final zero.
Room == Buf - total - 1
BytesToReceive == IF Room < Batch THEN Room ELSE Batch

\* The loop goes on after len bytes.  Mutant: a short read ends it.
FullRead(len) == total' < Expected /\ attempts' < MaxAttempts /\ total' < Buf - 1 /\ len = BytesToReceive
GoesOn(len) == total' < Expected /\ attempts' < MaxAttempts /\ total' < Buf - 1

ReceiveReply ==
    /\ pc = "recv"
    /\ prog = "window"
    /\ attempts' = attempts + 1
    /\ \/ \E len \in 1..unread :
            /\ len <= BytesToReceive
            /\ unread' = unread - len
            /\ total' = total + len
            /\ Goto(IF GoesOn(len) THEN "recv" ELSE "close")
       \/ /\ unread = 0 /\ conn = "fin"
          /\ Goto("close")
          /\ UNCHANGED <<unread, total>>
    /\ UNCHANGED <<config, sock, open, conn, reply, data, signal, ready>>

ReceiveFails ==
    /\ pc = "recv"
    /\ conn = "lost"
    /\ attempts' = IF prog = "window" THEN attempts + 1 ELSE attempts
    /\ Goto(OnError("recv"))
    /\ UNCHANGED <<config, sock, open, conn, unread, reply, total, data, signal, ready>>

\* shutdown() and close().  Mutant: the first only.
ShutdownOnly ==
    /\ sock' = None
    /\ conn' = "none"
    /\ unread' = 0
    /\ UNCHANGED open
Shutdown == CloseSocket

\* once has cleared run.
Close ==
    /\ pc = "close"
    /\ Shutdown
    /\ Goto(IF prog = "once" THEN "stopped" ELSE "head")
    /\ UNCHANGED <<config, reply, received, data, signal, ready>>

Task ==
    \/ CreateFd \/ Socket \/ NoSocket \/ ChooseNetif \/ Connect \/ ConnectReturns
    \/ ConnectFails \/ SelectReturns \/ SelectConnected \/ SelectFails \/ SelectSignalled
    \/ Send \/ SendFails \/ ReceiveEcho \/ ReceiveReply \/ ReceiveFails \/ Close

\* sock_data(): it sends on the socket of the other thread until an error.
DataEnds ==
    /\ data = "on"
    /\ conn = "lost"
    /\ data' = "off"
    /\ UNCHANGED <<config, pc, sock, open, conn, unread, reply, received, signal, ready>>

Next == World \/ Task \/ DataEnds

\* The task is scheduled, and connect() gives up in the end; nothing is assumed
\* of the server or of the link.
Spec == Init /\ [][Next]_vars /\ WF_vars(Task)

----------------------------------------------------------------------------

\* The descriptor of one connection is closed before the next is made, whichever
\* way the connection ended: a client that comes back never runs out of them.
OneDescriptor ==
    /\ pc \in {"boot", "head"} => open = {}
    /\ open \subseteq {sock}

\* The reply that window has when it closes is whole, as far as it fits, however
\* the stack cuts it up and however small its window is; only the limit of
\* attempts or a lost connection cuts it short.  The final zero fits.
ReplyIsWhole ==
    /\ total < Buf
    /\ prog = "window" /\ pc = "close" /\ conn # "lost" =>
        \/ total = size \/ total = Buf - 1
        \/ attempts = MaxAttempts

\* A client that says "restarting" comes back to its loop from every lost
\* connection, also from one lost while it was in the middle of an exchange.
LossRestarts ==
    (prog \in {"intro", "v4", "v6"} /\ conn = "lost") ~> pc = "head"

\* A link loss that was signalled is not forgotten.  While it finds a connection in
\* progress, before select() returns, the program goes back to its loop: it neither
\* waits for an answer nor ends.  One that comes after select() has returned is found by
\* the select() of the next connection, unless the program ends by this one.
LossIsSeen ==
    /\ (prog = "eventfd" /\ counter > 0 /\ pc \in {"connect", "select"}) ~> pc = "head"
    /\ (prog = "eventfd" /\ counter > 0) ~> ("signal" \in ready \/ pc = "stopped")

----------------------------------------------------------------------------
(* The inductive invariant behind ReplyIsWhole.                            *)

Counts == {size, left, unread, total, attempts} \subseteq Nat

\* There is a connection while it is used, and no data without one; window has
\* another attempt as long as it receives.
Placed ==
    /\ pc \in {"send", "recv", "close"} => conn \in {"up", "fin", "lost"}
    /\ pc \in {"boot", "head", "choose", "connect"} => conn = "none"
    /\ pc \in {"connecting", "select", "selected"} => conn \in {"syn", "refused", "up", "fin", "lost"}
    /\ conn \in {"none", "syn", "refused"} => unread = 0
    /\ prog = "window" /\ pc \in {"send", "recv"} => attempts < MaxAttempts

\* What is left in the server and in the stack makes up the reply with what
\* window has of it.
Conserved ==
    prog = "window" /\ conn \in {"up", "fin"} =>
        /\ left + unread + (IF pc \in {"send", "recv", "close"} THEN total ELSE 0) = size
        /\ conn = "fin" => left = 0

IInv == Counts /\ Placed /\ Conserved /\ ReplyIsWhole

=============================================================================
