---------------------------- MODULE PthreadServer ----------------------------
(***************************************************************************)
(* async_server_pthread.c: the accept loop starts a detached thread for    *)
(* each client.  The threads share one heap copy of the file, which the    *)
(* accept loop frees when accept() fails.                                  *)
(***************************************************************************)
EXTENDS Integers, Sequences

CONSTANTS
    Conn,       \* the client connections, each made once
    Fd,         \* the socket descriptors accept() can return
    None,       \* no connection
    FileSize,   \* fsize
    ChunkSize   \* CHUNK_SIZE, 100

ASSUME ServerAssumption ==
    /\ None \notin Conn
    /\ FileSize \in Nat
    /\ ChunkSize \in Nat \ {0}

VARIABLES
    acceptor,   \* the accept loop: None in accept(), a connection it has
                \* accepted and starts a thread for, or "done"
    fileData,   \* file_data: "allocated" or "freed"
    pc,         \* per connection: where its thread is
    offset,     \* the thread's loop variable
    fd,         \* cargs->client_fd
    sock,       \* per descriptor: the connection behind it, or None
    peer,       \* the client: reading, its window full, or gone
    wire        \* the segments that reached the client, in order

vars == <<acceptor, fileData, pc, offset, fd, sock, peer, wire>>

StatusOf(p) ==
    IF p \in {"unseen", "refused", "closed"} THEN p ELSE "open"

Service ==
    INSTANCE FileService WITH
        status <- [c \in Conn |-> StatusOf(pc[c])],
        gone <- [c \in Conn |-> peer[c] = "gone"]

\* Bytes of the freed block after the heap has used it for something else.
Garbage == [from |-> FileSize + 1, len |-> ChunkSize]

Started == {"header", "test", "chunk", "nap"}
HoldsFd == Started \cup {"accepted", "orphan"}

TypeOK ==
    /\ acceptor \in Conn \cup {None, "done"}
    /\ fileData \in {"allocated", "freed"}
    /\ pc \in [Conn -> HoldsFd \cup {"unseen", "refused", "closed"}]
    /\ offset \in [Conn -> Nat]
    /\ fd \in [Conn -> Fd \cup {None}]
    /\ sock \in [Fd -> Conn \cup {None}]
    /\ peer \in [Conn -> {"reading", "stalled", "gone"}]
    /\ wire \in [Conn -> Seq(Service!Segment)]

Init ==
    /\ acceptor = None
    /\ fileData = "allocated"
    /\ pc = [c \in Conn |-> "unseen"]
    /\ offset = [c \in Conn |-> 0]
    /\ fd = [c \in Conn |-> None]
    /\ sock = [f \in Fd |-> None]
    /\ peer = [c \in Conn |-> "reading"]
    /\ wire = [c \in Conn |-> <<>>]

-----------------------------------------------------------------------------
(* async_server(): the accept loop.                                        *)

Accept(c, f) ==
    /\ acceptor = None /\ pc[c] = "unseen" /\ sock[f] = None
    /\ acceptor' = c
    /\ pc' = [pc EXCEPT ![c] = "accepted"]
    /\ fd' = [fd EXCEPT ![c] = f]
    /\ sock' = [sock EXCEPT ![f] = c]
    /\ UNCHANGED <<fileData, offset, peer, wire>>

PthreadCreate(c) ==
    /\ acceptor = c /\ pc[c] = "accepted"
    /\ pc' = [pc EXCEPT ![c] = "header"]
    /\ acceptor' = None
    /\ UNCHANGED <<fileData, offset, fd, sock, peer, wire>>

\* The result is not looked at: nobody will serve or close this client.
PthreadCreateFails(c) ==
    /\ acceptor = c /\ pc[c] = "accepted"
    /\ pc' = [pc EXCEPT ![c] = "orphan"]
    /\ acceptor' = None
    /\ UNCHANGED <<fileData, offset, fd, sock, peer, wire>>

\* Any error of accept() ends the loop, and file_data is freed whoever still
\* reads it.
LoopEnds ==
    /\ acceptor = None
    /\ acceptor' = "done"
    /\ fileData' = "freed"
    /\ UNCHANGED <<offset, fd, sock, peer, wire>>

\* The connection is dropped: no descriptor or no memory for it, or aborted.
AcceptFails(c) ==
    /\ pc[c] = "unseen"
    /\ pc' = [pc EXCEPT ![c] = "refused"]
    /\ LoopEnds

\* An error of the listening socket, with no connection.
ListenerFails == LoopEnds /\ UNCHANGED pc

-----------------------------------------------------------------------------
(* handle_client(): one thread for each connection.                        *)

\* send() on the descriptor: delivered to whoever is behind it, or failed with
\* its result ignored; while that client's window is full it does not return.
Send(f, seg) ==
    LET c == sock[f] IN
    IF c = None \/ peer[c] = "gone" THEN UNCHANGED wire
    ELSE /\ peer[c] = "reading"
         /\ wire' = [wire EXCEPT ![c] = Append(@, seg)]

SendHeader(c) ==
    /\ pc[c] = "header"
    /\ Send(fd[c], Service!Header)
    /\ pc' = [pc EXCEPT ![c] = "test"]
    /\ UNCHANGED <<acceptor, fileData, offset, fd, sock, peer>>

\* offset < size.  Mutant: whole chunks only, the last short one is not sent.
MoreWholeChunks(c) == offset[c] + ChunkSize <= FileSize
More(c) == offset[c] < FileSize

LoopTest(c) ==
    /\ pc[c] = "test" /\ More(c)
    /\ pc' = [pc EXCEPT ![c] = "chunk"]
    /\ UNCHANGED <<acceptor, fileData, offset, fd, sock, peer, wire>>

\* What the thread reads at data + offset.
ChunkRead(c) ==
    {Service!ChunkAt(offset[c])}
        \cup IF fileData = "freed" THEN {Garbage} ELSE {}

\* Mutant: one client at a time, from its first chunk to its close().
SendChunkInTurn(c) ==
    /\ pc[c] = "chunk"
    /\ \A d \in Conn \ {c} : offset[d] = 0 \/ pc[d] = "closed"
    /\ \E seg \in ChunkRead(c) : Send(fd[c], seg)
    /\ pc' = [pc EXCEPT ![c] = "nap"]
    /\ UNCHANGED <<acceptor, fileData, offset, fd, sock, peer>>
SendChunk(c) ==
    /\ pc[c] = "chunk"
    /\ \E seg \in ChunkRead(c) : Send(fd[c], seg)
    /\ pc' = [pc EXCEPT ![c] = "nap"]
    /\ UNCHANGED <<acceptor, fileData, offset, fd, sock, peer>>

\* sleep(1) returns.
Wake(c) ==
    /\ pc[c] = "nap"
    /\ offset' = [offset EXCEPT ![c] = @ + ChunkSize]
    /\ pc' = [pc EXCEPT ![c] = "test"]
    /\ UNCHANGED <<acceptor, fileData, fd, sock, peer, wire>>

\* close(fd), free(cargs) and the end of the thread.  Mutant: closes only
\* the connection of a client that is still there.
CloseUnlessGone(c) ==
    /\ pc[c] = "test" /\ ~More(c)
    /\ pc' = [pc EXCEPT ![c] = "closed"]
    /\ sock' = IF peer[c] = "gone" THEN sock ELSE [sock EXCEPT ![fd[c]] = None]
    /\ UNCHANGED <<acceptor, fileData, offset, fd, peer, wire>>
Close(c) ==
    /\ pc[c] = "test" /\ ~More(c)
    /\ pc' = [pc EXCEPT ![c] = "closed"]
    /\ sock' = [sock EXCEPT ![fd[c]] = None]
    /\ UNCHANGED <<acceptor, fileData, offset, fd, peer, wire>>

Thread(c) == SendHeader(c) \/ LoopTest(c) \/ SendChunk(c) \/ Wake(c) \/ Close(c)

-----------------------------------------------------------------------------

\* The clients: the window fills, drains, or the connection is reset.
PeerMoves(c, from, to) ==
    /\ pc[c] \in HoldsFd /\ peer[c] \in from
    /\ peer' = [peer EXCEPT ![c] = to]
    /\ UNCHANGED <<acceptor, fileData, pc, offset, fd, sock, wire>>

Stall(c) == PeerMoves(c, {"reading"}, "stalled")
Drain(c) == PeerMoves(c, {"stalled"}, "reading")
Vanish(c) == PeerMoves(c, {"reading", "stalled"}, "gone")

Next ==
    \/ ListenerFails
    \/ \E c \in Conn :
        \/ \E f \in Fd : Accept(c, f)
        \/ PthreadCreate(c) \/ PthreadCreateFails(c)
        \/ AcceptFails(c)
        \/ Thread(c)
        \/ Stall(c) \/ Drain(c) \/ Vanish(c)

\* Every thread is scheduled; nothing is assumed of the clients.
Fairness ==
    \A c \in Conn : SF_vars(Thread(c)) /\ WF_vars(PthreadCreate(c))

Spec == Init /\ [][Next]_vars /\ Fairness

-----------------------------------------------------------------------------

\* Until accept() fails and the file is freed, the server is a FileService.
ImplementsWhileAllocated ==
    /\ Service!ServiceInit
    /\ [][fileData = "allocated" => Service!ServiceNext]_(Service!serviceVars)

\* A thread's descriptor is its own connection's, and a descriptor is in use
\* only for a connection being served or orphaned by pthread_create().
OwnSocket ==
    /\ \A c \in Conn : pc[c] \in HoldsFd => fd[c] \in Fd /\ sock[fd[c]] = c
    /\ \A f \in Fd : sock[f] # None =>
          pc[sock[f]] \in HoldsFd /\ fd[sock[f]] = f

\* A client with a thread that always reads is served to the end, whatever
\* the other clients, and the accept loop, do.
ReadersFinished ==
    \A c \in Conn :
        [](peer[c] = "reading") => (pc[c] = "header" ~> pc[c] = "closed")

-----------------------------------------------------------------------------
(* The inductive invariant of the proofs.                                  *)

\* Nothing was sent before the thread's header.
Fresh ==
    \A c \in Conn :
        pc[c] \in {"unseen", "refused", "accepted", "orphan", "header"} =>
            wire[c] = <<>> /\ offset[c] = 0

\* A chunk starts inside the file.
Bounded == \A c \in Conn : pc[c] \in {"chunk", "nap"} => offset[c] < FileSize

\* What a client that has not gone received follows its thread's offset.
Progress(c) ==
    /\ pc[c] \in {"test", "chunk"} =>
          /\ wire[c] # <<>>
          /\ Service!Received(wire[c]) =
                IF offset[c] < FileSize THEN offset[c] ELSE FileSize
    /\ pc[c] = "nap" =>
          /\ wire[c] # <<>>
          /\ Service!Received(wire[c]) = Service!End(Service!ChunkAt(offset[c]))

IInv ==
    /\ TypeOK /\ OwnSocket /\ Fresh /\ Bounded
    /\ fileData = "allocated" => \A c \in Conn : peer[c] # "gone" => Progress(c)

=============================================================================
