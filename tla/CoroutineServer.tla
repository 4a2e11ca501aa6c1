--------------------------- MODULE CoroutineServer ---------------------------
(***************************************************************************)
(* async_server_coroutines.cpp: the accept loop starts a coroutine for     *)
(* each client on its own thread; from its first co_await on, the coroutine*)
(* lives on the worker of the EventLoop, which does its (blocking) sends   *)
(* and its sleeps.  A coroutine handle is named by its connection.         *)
(***************************************************************************)
EXTENDS EventLoop

CONSTANTS
    Conn,       \* the client connections, each made once
    Fd,         \* the socket descriptors accept() can return
    FileSize,   \* file_size; index.html is embedded and not empty
    ChunkSize,  \* chunk_size, 100
    Delay       \* the ticks of Sleep{200ms}

ASSUME ServerAssumption ==
    /\ Task = Conn
    /\ FileSize \in Nat \ {0}
    /\ ChunkSize \in Nat \ {0}
    /\ Delay \in Nat \ {0}

VARIABLES
    acceptor,   \* the accept loop: in accept(), or about to notify
    pc,         \* per connection: the co_await its coroutine is suspended at
    offset,     \* the coroutine's loop variable
    fd,         \* its parameter client_sock
    sock,       \* per descriptor: the connection behind it, or None
    peer,       \* the client: reading, its window full, or gone
    wire,       \* the segments that reached the client, in order
    since       \* ticks since its last send, up to Delay (history)

serverVars == <<acceptor, pc, offset, fd, sock, peer, wire, since>>
vars == <<loopVars, serverVars>>

StatusOf(p) ==
    CASE p = "unseen" -> "unseen"
      [] p = "refused" -> "refused"
      [] p = "closed" -> "closed"
      [] OTHER -> "open"

Service ==
    INSTANCE FileService WITH
        status <- [c \in Conn |-> StatusOf(pc[c])],
        gone <- [c \in Conn |-> peer[c] = "gone"]

Live(c) == pc[c] \in {"header", "chunk", "nap"}

TypeOK ==
    /\ LoopTypeOK
    /\ acceptor \in {"accept", "notify"}
    /\ pc \in [Conn -> {"unseen", "refused", "header", "chunk", "nap", "closed"}]
    /\ offset \in [Conn -> Nat]
    /\ fd \in [Conn -> Fd \cup {None}]
    /\ sock \in [Fd -> Conn \cup {None}]
    /\ peer \in [Conn -> {"reading", "stalled", "gone"}]
    /\ wire \in [Conn -> Seq(Service!Segment)]
    /\ since \in [Conn -> 0..Delay]

Init ==
    /\ LoopInit
    /\ acceptor = "accept"
    /\ pc = [c \in Conn |-> "unseen"]
    /\ offset = [c \in Conn |-> 0]
    /\ fd = [c \in Conn |-> None]
    /\ sock = [f \in Fd |-> None]
    /\ peer = [c \in Conn |-> "reading"]
    /\ wire = [c \in Conn |-> <<>>]
    /\ since = [c \in Conn |-> Delay]

-----------------------------------------------------------------------------
(* The accept loop.                                                        *)

\* accept() returns a free descriptor; the coroutine runs on this thread up to
\* its first co_await, whose await_suspend pushes it on the queue.
Accept(c, f) ==
    /\ acceptor = "accept" /\ pc[c] = "unseen" /\ sock[f] = None
    /\ pc' = [pc EXCEPT ![c] = "header"]
    /\ fd' = [fd EXCEPT ![c] = f]
    /\ sock' = [sock EXCEPT ![f] = c]
    /\ Push(c)
    /\ acceptor' = "notify"
    /\ UNCHANGED <<scheduled, running, worker, current, alarm, signalled,
                   offset, peer, wire, since>>

\* The rest of post(): the worker may already have taken the task.
AcceptNotify ==
    /\ acceptor = "notify"
    /\ Notify
    /\ acceptor' = "accept"
    /\ UNCHANGED <<immediate, scheduled, running, worker, current, alarm,
                   pc, offset, fd, sock, peer, wire, since>>

\* Out of sockets, or because the client has gone, accept() fails; the loop
\* goes on.
AcceptFails(c) ==
    /\ acceptor = "accept" /\ pc[c] = "unseen"
    /\ pc' = [pc EXCEPT ![c] = "refused"]
    /\ UNCHANGED <<loopVars, acceptor, offset, fd, sock, peer, wire, since>>

-----------------------------------------------------------------------------
(* The coroutines, on the worker thread.                                   *)

\* co_await of an AsyncSend: the notification reaches nobody, as the worker
\* itself posts.
AwaitSend(c, off) ==
    /\ pc' = [pc EXCEPT ![c] = "chunk"]
    /\ offset' = [offset EXCEPT ![c] = off]
    /\ Push(c)
    /\ UNCHANGED <<scheduled, sock>>

\* co_await Sleep.  Mutant: yields without a delay.
AwaitNothing(c) ==
    /\ pc' = [pc EXCEPT ![c] = "nap"]
    /\ Push(c)
    /\ UNCHANGED <<scheduled, offset, sock>>
AwaitSleep(c) ==
    /\ pc' = [pc EXCEPT ![c] = "nap"]
    /\ PushDelayed(c, Delay)
    /\ UNCHANGED <<immediate, offset, sock>>

\* close() at the end of the coroutine.  Mutant: forgotten.
LeakSocket(c) ==
    /\ pc' = [pc EXCEPT ![c] = "closed"]
    /\ UNCHANGED <<immediate, scheduled, offset, sock>>
CloseSocket(c) ==
    /\ pc' = [pc EXCEPT ![c] = "closed"]
    /\ sock' = [sock EXCEPT ![fd[c]] = None]
    /\ UNCHANGED <<immediate, scheduled, offset>>

\* The head of the for loop.  Mutant: whole chunks only.
LoopHeadWholeChunks(c, off) ==
    IF off + ChunkSize <= FileSize THEN AwaitSend(c, off) ELSE CloseSocket(c)
LoopHead(c, off) ==
    IF off < FileSize THEN AwaitSend(c, off) ELSE CloseSocket(c)

Outgoing(c) ==
    IF pc[c] = "header" THEN Service!Header ELSE Service!ChunkAt(offset[c])

\* send() on the descriptor: delivered to whoever is behind it, or failed with
\* its result ignored; while that client's window is full it does not return.
Send(f, seg) ==
    LET c == sock[f] IN
    IF c = None \/ peer[c] = "gone" THEN UNCHANGED <<wire, since>>
    ELSE /\ peer[c] = "reading"
         /\ wire' = [wire EXCEPT ![c] = Append(@, seg)]
         /\ since' = [since EXCEPT ![c] = 0]

\* The task of an AsyncSend: send, resume the coroutine to its next co_await.
RunSend(c) ==
    /\ worker = "run" /\ current = c /\ pc[c] \in {"header", "chunk"}
    /\ Send(fd[c], Outgoing(c))
    /\ \/ pc[c] = "header" /\ LoopHead(c, 0)
       \/ pc[c] = "chunk" /\ AwaitSleep(c)
    /\ FinishTask
    /\ UNCHANGED <<running, alarm, signalled, acceptor, fd, peer>>

\* The task of a Sleep: resume the coroutine to the next chunk, or its end.
RunWake(c) ==
    /\ worker = "run" /\ current = c /\ pc[c] = "nap"
    /\ LoopHead(c, offset[c] + ChunkSize)
    /\ FinishTask
    /\ UNCHANGED <<running, alarm, signalled, acceptor, fd, peer, wire, since>>

-----------------------------------------------------------------------------

Worker == (WorkerStep \/ WakeSpuriously) /\ UNCHANGED serverVars

Clock ==
    /\ Tick
    /\ since' = [c \in Conn |-> IF since[c] < Delay THEN since[c] + 1 ELSE Delay]
    /\ UNCHANGED <<acceptor, pc, offset, fd, sock, peer, wire>>

\* The clients: the window fills, drains, or the connection is reset.
PeerMoves(c, from, to) ==
    /\ Live(c) /\ peer[c] \in from
    /\ peer' = [peer EXCEPT ![c] = to]
    /\ UNCHANGED <<loopVars, acceptor, pc, offset, fd, sock, wire, since>>

Stall(c) == PeerMoves(c, {"reading"}, "stalled")
Drain(c) == PeerMoves(c, {"stalled"}, "reading")
Vanish(c) == PeerMoves(c, {"reading", "stalled"}, "gone")

Next ==
    \/ \E c \in Conn, f \in Fd : Accept(c, f)
    \/ \E c \in Conn : AcceptFails(c)
    \/ AcceptNotify
    \/ \E c \in Conn : RunSend(c) \/ RunWake(c)
    \/ Worker
    \/ Clock
    \/ \E c \in Conn : Stall(c) \/ Drain(c) \/ Vanish(c)

\* Both threads run and the clock advances.  A blocked send() returns when
\* its window keeps reopening: strong fairness, as TCP retries it.
ServerFairness ==
    /\ WF_vars(AcceptNotify)
    /\ WF_vars(WorkerStep /\ UNCHANGED serverVars)
    /\ WF_vars(Clock)
    /\ \A c \in Conn : SF_vars(RunSend(c)) /\ WF_vars(RunWake(c))

\* No client leaves its window full for ever.
PeerFairness == \A c \in Conn : WF_vars(Drain(c))

ServerSpec == Init /\ [][Next]_vars /\ ServerFairness
Spec == ServerSpec /\ PeerFairness

-----------------------------------------------------------------------------

\* The server is a FileService: what each client receives, and when its
\* connection is closed, is as promised.
Implements == Service!ServiceSpec

\* However the coroutines interleave, a client receives the header and a prefix
\* of the file, and no byte of it is skipped, repeated or from past its end.
InOrder == Service!InOrder

\* A connection is closed with the whole file sent, unless its client has gone.
ClosedComplete == Service!ClosedComplete

Queued(c) == {i \in 1..Len(immediate) : immediate[i] = c}
Timers(c) == {e \in scheduled : e.task = c}

\* A suspended coroutine has exactly one resumption outstanding, in the place
\* its co_await put it, and a finished one has none: h.resume() is never
\* called twice for one suspension nor on a destroyed frame.
OneResumption ==
    /\ \A i, j \in 1..Len(immediate) : immediate[i] = immediate[j] => i = j
    /\ \A e1, e2 \in scheduled : e1.task = e2.task => e1 = e2
    /\ \A c \in Conn :
        /\ Queued(c) # {} => pc[c] \in {"header", "chunk"} /\ current # c
        /\ Timers(c) # {} => pc[c] = "nap" /\ current # c
        /\ current = c => Live(c)
        /\ Live(c) => Queued(c) # {} \/ Timers(c) # {} \/ current = c

\* A live coroutine's descriptor is its own connection's: it never sends to,
\* or closes, the socket of a later client that got the same number.
OwnSocket ==
    /\ \A c \in Conn : Live(c) => fd[c] \in Fd /\ sock[fd[c]] = c
    /\ \A f \in Fd : sock[f] # None => Live(sock[f]) /\ fd[sock[f]] = f

\* The waits ignore the heap (EventLoop's MayGoOn), yet no timer is overslept:
\* wait() is entered only with an empty heap and wait_until() with the
\* earliest deadline, and no timer is added while the worker sleeps.
NeverOversleeps ==
    /\ worker = "wait" => scheduled = {}
    /\ worker = "waitUntil" =>
          scheduled # {} /\ \A e \in scheduled : alarm <= e.left

\* The worker never sleeps on a queued task unless a wake-up is coming.
NoLostWakeup ==
    Asleep /\ immediate # <<>> => signalled \/ acceptor = "notify"

\* Two chunks to one client are at least Delay apart.
ChunkSpacing ==
    [][\A c \in Conn :
          wire'[c] # wire[c] /\ Len(wire[c]) > 1 => since[c] = Delay]_vars

\* Every accepted client is served to the end and its socket closed.
EveryClientFinished ==
    \A c \in Conn : pc[c] = "header" ~> pc[c] = "closed"

-----------------------------------------------------------------------------
(* The inductive invariant behind the safety properties.                   *)

\* A coroutine in its loop has an offset inside the file.
Bounded == \A c \in Conn : pc[c] \in {"chunk", "nap"} => offset[c] < FileSize

\* The worker has a task exactly while it runs it.
Working == worker = "run" <=> current # None

\* Nothing is sent before the header.
Fresh == \A c \in Conn : pc[c] \in {"unseen", "refused", "header"} => wire[c] = <<>>

\* What a client that stays has received, by where its coroutine is.
Progress ==
    \A c \in Conn : peer[c] # "gone" =>
        CASE pc[c] = "chunk" ->
                wire[c] # <<>> /\ Service!Received(wire[c]) = offset[c]
          [] pc[c] = "nap" ->
                /\ wire[c] # <<>>
                /\ Service!Received(wire[c]) = Service!End(Service!ChunkAt(offset[c]))
          [] pc[c] = "closed" -> Service!Complete(wire[c])
          [] OTHER -> TRUE

\* The time since the last chunk and the time left to sleep make up the delay.
Spaced(c) ==
    /\ pc[c] = "chunk" /\ Len(wire[c]) > 1 => since[c] = Delay
    /\ pc[c] = "nap" /\ current = c => since[c] = Delay
    /\ pc[c] = "nap" =>
          \A e \in Timers(c) : since[c] = Delay \/ since[c] + e.left >= Delay

Spacing == \A c \in Conn : Spaced(c)

IInv ==
    /\ TypeOK /\ Bounded /\ Working
    /\ OneResumption /\ OwnSocket
    /\ NeverOversleeps /\ NoLostWakeup
    /\ Fresh /\ Progress /\ Spacing

=============================================================================
