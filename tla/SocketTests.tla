------------------------------ MODULE SocketTests ------------------------------
(***************************************************************************)
(* The socket tests of lwip-intro/sockets: socket_examples.c and           *)
(* tcp_client.c.  A test is a list of calls, each with the results it goes *)
(* on with; what another result leads to is the test's: an assertion that  *)
(* fails, a break, a return.  Threads share the descriptors of the stack.  *)
(***************************************************************************)
EXTENDS Integers, Sequences

CONSTANTS
    Test,       \* the tests looked at
    Unset,      \* a variable that was never written
    Fd,         \* the descriptors of the stack, numbers
    Binds       \* how many ports tcp_bind_test() binds: 100, 1000

ASSUME TestAssumption ==
    /\ Test \subseteq {"nonblocking", "testrecv", "twoselects", "bind", "bind_open",
                       "async", "block"}
    /\ Fd \subseteq Nat /\ Unset \notin Fd
    /\ Binds \in Nat \ {0}

Waiters == {"h1", "h2", "h3", "h4"}
Threads == {"main", "tcpip", "thread"} \cup Waiters

\* The socket variables: s, s1 and s2 of the tests, and sock_array.
S == 0
S1 == Binds + 1
S2 == Binds + 2
Names == 0..Binds + 2

----------------------------------------------------------------------------
\* The tests.

\* A call on a socket variable, or about a thread; the results it goes on with;
\* what was returned before for it to be made at all.
Any == {"ok", "fail", "inprogress", "ebadf", "again", "data", "eof",
        "none", "read", "write", "error"}
When(before, do, on, want) == [do |-> do, on |-> on, want |-> want, last |-> before]
Call(do, on, want) == When(Any, do, on, want)

Asserts == {"nonblocking", "testrecv", "twoselects"}

\* sockex_nonblocking_connect().
BlockingConnect ==
    << Call("socket", S, {"ok"}), Call("connect", S, {"ok"}),
       Call("send", S, {"ok"}), Call("close", S, {"ok"}) >>
CloseBeforeConnected ==
    << Call("socket", S, {"ok"}), Call("nonblock", S, {"ok"}),
       Call("connect", S, {"inprogress"}), Call("close", S, {"ok"}),
       Call("close", S, {"ebadf"}) >>
SelectUntilConnected ==
    << Call("socket", S, {"ok"}), Call("nonblock", S, {"ok"}),
       Call("connect", S, {"inprogress"}), Call("send", S, {"inprogress"}),
       Call("poll", S, {"none"}), Call("poll", S, {"none"}),
       Call("select", S, {"write"}), Call("poll", S, {"write"}),
       Call("send", S, {"ok"}), Call("close", S, {"ok"}) >>
InvalidAddress ==
    << Call("socket", S, {"ok"}), Call("nonblock", S, {"ok"}),
       Call("connect_invalid", S, {"inprogress"}), Call("send", S, {"inprogress"}),
       Call("poll", S, {"none"}), Call("select", S, {"error"}),
       Call("close", S, {"ok"}) >>

\* sockex_testrecv(): half a request, which is not answered, then the rest.
TestRecv ==
    << Call("socket", S, {"ok"}), Call("connect", S, {"ok"}),
       Call("send", S, {"ok"}), Call("recv_timeout", S, {"again"}),
       Call("send", S, {"ok"}), Call("recv_timeout", S, {"data"}),
       Call("select_read", S, {"read"}), Call("recv_timeout", S, Any),
       When({"data"}, "recv_timeout", S, {"eof"}), Call("close", S, {"ok"}) >>

\* sockex_testtwoselects(): h1 is about s1, the others about s2.
SocketOf(w) == IF w = "h1" THEN S1 ELSE S2
TwoSelects ==
    << Call("socket", S1, {"ok"}), Call("socket", S2, {"ok"}),
       Call("connect", S1, {"ok"}), Call("connect", S2, {"ok"}),
       Call("send", S1, {"ok"}), Call("send", S2, {"ok"}),
       Call("spawn", "h2", Any), Call("spawn", "h1", Any),
       Call("spawn", "h4", Any), Call("spawn", "h3", Any),
       Call("wait", "h1", Any), Call("wait", "h2", Any),
       Call("wait", "h3", Any), Call("wait", "h4", Any),
       Call("close", S1, {"ok"}), Call("close", S2, {"ok"}) >>
SelectWaiter(w) == << Call("select_waiter", SocketOf(w), {"none"}) >>

\* tcp_bind_test(), of socket_examples.c and of tcp_client.c, which never closes.
BindAll == [i \in 1..2 * Binds |->
    IF i % 2 = 1 THEN Call("socket", S, {"ok"}) ELSE Call("bind", i \div 2, {"ok"})]
CloseAll == [i \in 1..Binds |-> Call("close", i, Any)]

\* tcp_async_connect(), and its thread that does not block.
AsyncConnect ==
    << Call("socket", S, {"ok"}), Call("spawn", "thread", Any),
       Call("close", S, Any), Call("wait", "thread", Any) >>
NonBlockSockThread ==
    << Call("nonblock", S, {"ok"}), Call("connect", S, {"ok", "inprogress"}),
       When({"inprogress"}, "select_write", S, {"write"}),
       When({"write"}, "getsockopt", S, {"ok"}),
       Call("recv", S, {"again", "inprogress"}),
       Call("select_recv", S, {"read", "error"}),
       When({"read"}, "recv", S, Any), Call("getsockopt", S, {"ok"}) >>
\* The one that does.
BlockSockThread ==
    << Call("connect", S, {"ok"}), Call("setsockopt", S, {"ok"}),
       Call("setsockopt", S, {"ok"}), Call("recv", S, Any) >>

TestOf(t) ==
    CASE t = "nonblocking" -> BlockingConnect \o CloseBeforeConnected
                                  \o SelectUntilConnected \o InvalidAddress
      [] t = "testrecv" -> TestRecv
      [] t = "twoselects" -> TwoSelects
      [] t = "bind" -> BindAll \o CloseAll
      [] t = "bind_open" -> BindAll
      [] t \in {"async", "block"} -> AsyncConnect

\* main(): the test waits until test_init() has run on the stack's thread.
StartUp == << Call("spawn", "tcpip", Any), Call("wait", "tcpip", Any) >>
TestInit == << Call("netif_up", S, Any) >>

ScriptOf(t, thread) ==
    CASE thread = "main" -> StartUp \o TestOf(t)
      [] thread = "tcpip" -> TestInit
      [] thread \in Waiters -> SelectWaiter(thread)
      [] OTHER -> IF t = "block" THEN BlockSockThread ELSE NonBlockSockThread

VARIABLES
    test,       \* the test that runs
    at,         \* per thread: the call it is at, 0 before it starts
    returned,   \* per thread: what its last call returned
    aborted,    \* the calls whose assertion failed
    var,        \* the socket variables and sock_array
    netif,      \* the default netif is up
    conn,       \* per descriptor: its connection
    nonblock,   \* per descriptor: O_NONBLOCK
    unread,     \* per descriptor: packets for recv()
    asked,      \* per descriptor: calls of send(), two of which are a request
    left        \* per descriptor: packets the server has still to send

stack == <<conn, nonblock, unread, asked, left>>
threads == <<at, returned, aborted>>
testsVars == <<test, threads, var, netif, stack>>

Script(t) == ScriptOf(test, t)
Started(t) == at[t] # 0
Ended(t) == at[t] > Len(Script(t))
At(t) == Script(t)[at[t]]
Open == {f \in Fd : conn[f] # "free"}

TestsTypeOK ==
    /\ test \in Test
    /\ at \in [Threads -> Nat]
    /\ returned \in [Threads -> Any]
    /\ var \in [Names -> Fd \cup {Unset}]
    /\ netif \in BOOLEAN
    /\ conn \in [Fd -> {"free", "idle", "syn", "invalid", "up", "fin", "dead"}]
    /\ nonblock \in [Fd -> BOOLEAN]
    /\ unread \in [Fd -> 0..2] /\ asked \in [Fd -> 0..2] /\ left \in [Fd -> 0..2]

TestsInit ==
    /\ test \in Test
    /\ at = [t \in Threads |-> IF t = "main" THEN 1 ELSE 0]
    /\ returned = [t \in Threads |-> "ok"]
    /\ aborted = {}
    /\ var = [n \in Names |-> Unset]
    /\ netif = FALSE
    /\ conn = [f \in Fd |-> "free"]
    /\ nonblock = [f \in Fd |-> FALSE]
    /\ unread = [f \in Fd |-> 0]
    /\ asked = [f \in Fd |-> 0]
    /\ left = [f \in Fd |-> 0]

----------------------------------------------------------------------------
\* The stack and the servers.  The tests that assert ask for a good HTTP server:
\* it accepts, answers whole requests only, and then closes.

Good == test \in Asserts
Answers(f) == Good => asked[f] = 2

Establish(f) ==
    /\ conn[f] = "syn"
    /\ \E c \in {"up"} \cup (IF Good THEN {} ELSE {"dead"}) : conn' = [conn EXCEPT ![f] = c]
    /\ \E n \in 1..2 : left' = [left EXCEPT ![f] = n]
    /\ UNCHANGED <<test, threads, var, netif, nonblock, unread, asked>>

\* The SYNs to nobody run out.
GiveUp(f) ==
    /\ conn[f] = "invalid"
    /\ conn' = [conn EXCEPT ![f] = "dead"]
    /\ UNCHANGED <<test, threads, var, netif, nonblock, unread, asked, left>>

Respond(f) ==
    /\ conn[f] = "up" /\ Answers(f)
    /\ left[f] > 0
    /\ left' = [left EXCEPT ![f] = @ - 1]
    /\ unread' = [unread EXCEPT ![f] = @ + 1]
    /\ UNCHANGED <<test, threads, var, netif, conn, nonblock, asked>>

ServerCloses(f) ==
    /\ conn[f] = "up" /\ Answers(f)
    /\ left[f] = 0
    /\ conn' = [conn EXCEPT ![f] = "fin"]
    /\ UNCHANGED <<test, threads, var, netif, nonblock, unread, asked, left>>

\* What select() and poll() find, of the kinds that were asked for.  A test that
\* expects to write asserts that there is no error and nothing to read.
Ready(f) ==
    (IF unread[f] > 0 \/ conn[f] \in {"fin", "dead"} THEN {"read"} ELSE {})
        \cup (IF conn[f] \in {"up", "fin", "dead"} THEN {"write"} ELSE {})
        \cup (IF conn[f] = "dead" THEN {"error"} ELSE {})
Found(r) == IF "error" \in r THEN "error" ELSE IF "read" \in r THEN "read"
            ELSE IF "write" \in r THEN "write" ELSE "none"
Kinds(do) ==
    CASE do \in {"select_read", "select_recv"} -> {"read", "error"}
      [] do = "select_write" -> {"write"}
      [] OTHER -> {"read", "write", "error"}

\* The first argument of select(), which looks at the descriptors below it: the
\* waiters of sockex_testtwoselects() leave their own out.  Mutant: they do not.
NfdsPastIt(do, f) == f + 1
Nfds(do, f) == IF do = "select_waiter" THEN f ELSE f + 1

\* What a call on descriptor f may return now; {} when it waits.
\* select() with a time-out, poll(), recv() with SO_RCVTIMEO or O_NONBLOCK: none
\* or again.  A descriptor closed under select() wakes it or lets it run out.
\* Mutant: the time-out is not passed on.
SelectWaits(do, f) ==
    LET r == Ready(f) \cap Kinds(do) IN
    CASE conn[f] = "free" -> {"ebadf", "none"} \cup Kinds(do)
      [] conn[f] # "free" /\ r # {} /\ f < Nfds(do, f) -> {Found(r)}
      [] OTHER -> IF do = "poll" THEN {"none"} ELSE {}
SelectReturns(do, f) ==
    LET r == Ready(f) \cap Kinds(do) IN
    CASE conn[f] = "free" -> {"ebadf", "none"} \cup Kinds(do)
      [] conn[f] # "free" /\ r # {} /\ f < Nfds(do, f) -> {Found(r)}
      [] OTHER -> IF do = "select" THEN {} ELSE {"none"}

ReceiveReturns(do, f) ==
    IF unread[f] > 0 THEN {"data"}
    ELSE CASE conn[f] = "fin" -> {"eof"}
           [] conn[f] = "dead" -> {"fail"}
           [] OTHER -> IF do = "recv_timeout" \/ nonblock[f] THEN {"again"} ELSE {}

\* connect() once the SYN is out.
ConnectReturns(f) ==
    IF nonblock[f] THEN {"inprogress"}
    ELSE CASE conn[f] = "up" -> {"ok"}
           [] conn[f] = "fin" -> {"ok"}
           [] conn[f] = "dead" -> {"fail"}
           [] OTHER -> {}

Returns(do, f) ==
    CASE do \in {"select", "poll", "select_read", "select_write", "select_recv",
                 "select_waiter"} -> SelectReturns(do, f)
      [] conn[f] = "free" -> {"ebadf"}
      [] do \in {"recv", "recv_timeout"} -> ReceiveReturns(do, f)
      [] do \in {"connect", "connect_invalid"} -> ConnectReturns(f)
      [] do = "send" -> CASE conn[f] \in {"syn", "invalid"} -> {"inprogress"}
                          [] conn[f] = "dead" -> {"fail"}
                          [] OTHER -> {"ok"}
      [] do = "getsockopt" -> IF conn[f] = "dead" THEN {"fail"} ELSE {"ok"}
      [] do = "bind" -> {"ok", "fail"}
      [] OTHER -> {"ok"}

----------------------------------------------------------------------------
\* The threads.

\* Where a result that was not asked for leads: tcp_bind_test() breaks, to the
\* second loop if there is one; the others return.  Mutant: it returns, too.
ReturnAtOnce(t) == Len(Script(t)) + 1
Otherwise(t) ==
    IF test \in {"bind", "bind_open"}
    THEN Len(StartUp) + Len(BindAll) + 1
    ELSE Len(Script(t)) + 1

\* Thread t is done with its call; an assertion ends the program.
Return(t, r) ==
    /\ returned' = [returned EXCEPT ![t] = r]
    /\ IF r \in At(t).want
       THEN at' = [at EXCEPT ![t] = @ + 1] /\ UNCHANGED aborted
       ELSE IF test \in Asserts
       THEN aborted' = {At(t)} /\ UNCHANGED at
       ELSE at' = [at EXCEPT ![t] = Otherwise(t)] /\ UNCHANGED aborted

Calls(t, do) ==
    /\ aborted = {}
    /\ Started(t) /\ ~Ended(t)
    /\ returned[t] \in At(t).last
    /\ At(t).do \in do

\* if (ret > 0), if (errno == EINPROGRESS) and the like.
LeaveOut(t) ==
    /\ aborted = {}
    /\ Started(t) /\ ~Ended(t)
    /\ returned[t] \notin At(t).last
    /\ at' = [at EXCEPT ![t] = @ + 1]
    /\ UNCHANGED <<test, returned, aborted, var, netif, stack>>

\* socket(): the lowest free descriptor, if there is one.
Socket(t) ==
    /\ Calls(t, {"socket"})
    /\ \E f \in Fd \ Open :
        /\ \A g \in Fd \ Open : f <= g
        /\ var' = [var EXCEPT ![At(t).on] = f]
        /\ conn' = [conn EXCEPT ![f] = "idle"]
        /\ nonblock' = [nonblock EXCEPT ![f] = FALSE]
        /\ unread' = [unread EXCEPT ![f] = 0]
        /\ asked' = [asked EXCEPT ![f] = 0]
    /\ Return(t, "ok")
    /\ UNCHANGED <<test, netif, left>>

NoSocket(t) ==
    /\ Calls(t, {"socket"})
    /\ Open = Fd
    /\ Return(t, "fail")
    /\ UNCHANGED <<test, var, netif, stack>>

\* connect() sends its SYN.
SendSyn(t) ==
    /\ Calls(t, {"connect", "connect_invalid"})
    /\ LET f == var[At(t).on] IN
        /\ conn[f] = "idle"
        /\ conn' = [conn EXCEPT ![f] = IF At(t).do = "connect" THEN "syn" ELSE "invalid"]
        /\ IF nonblock[f] THEN Return(t, "inprogress") ELSE UNCHANGED threads
    /\ UNCHANGED <<test, var, netif, nonblock, unread, asked, left>>

\* Every other call on an open or a closed descriptor.
OnSocket(t) ==
    /\ Calls(t, {"connect", "connect_invalid", "nonblock", "send", "recv", "recv_timeout",
                 "poll", "select", "select_read", "select_write", "select_recv",
                 "select_waiter", "getsockopt", "setsockopt", "bind"})
    /\ LET c == At(t)
           f == IF c.do = "bind" THEN var[S] ELSE var[c.on]
       IN
        /\ c.do \in {"connect", "connect_invalid"} => conn[f] # "idle"
        /\ \E r \in Returns(c.do, f) :
            /\ Return(t, r)
            /\ var' = IF c.do = "bind" /\ r = "ok" THEN [var EXCEPT ![c.on] = f] ELSE var
            /\ nonblock' = [nonblock EXCEPT ![f] = @ \/ (c.do = "nonblock" /\ r = "ok")]
            /\ asked' = [asked EXCEPT ![f] =
                            IF c.do = "send" /\ r = "ok" THEN @ + 1 ELSE @]
            /\ IF r = "data"
               THEN \E k \in 1..unread[f] : unread' = [unread EXCEPT ![f] = @ - k]
               ELSE UNCHANGED unread
    /\ UNCHANGED <<test, netif, conn, left>>

\* close(); of an entry of sock_array that was never written, any number.
Close(t) ==
    /\ Calls(t, {"close"})
    /\ \E f \in IF var[At(t).on] = Unset THEN Fd ELSE {var[At(t).on]} :
        IF conn[f] = "free"
        THEN Return(t, "ebadf") /\ UNCHANGED conn
        ELSE Return(t, "ok") /\ conn' = [conn EXCEPT ![f] = "free"]
    /\ UNCHANGED <<test, var, netif, nonblock, unread, asked, left>>

\* sys_thread_new(), pthread_create(), tcpip_init().
Spawn(t) ==
    /\ Calls(t, {"spawn"})
    /\ at' = [at EXCEPT ![t] = @ + 1, ![At(t).on] = 1]
    /\ UNCHANGED <<test, returned, aborted, var, netif, stack>>

\* sys_sem_wait() for what the thread does last, or pthread_join().  Mutant: the
\* semaphore is not waited for.
NoWait(w) == TRUE
Signalled(w) == Ended(w)

Wait(t) ==
    /\ Calls(t, {"wait"})
    /\ Signalled(At(t).on)
    /\ Return(t, "ok")
    /\ UNCHANGED <<test, var, netif, stack>>

\* test_init() and test_netif_init().
NetifUp(t) ==
    /\ Calls(t, {"netif_up"})
    /\ netif' = TRUE
    /\ Return(t, "ok")
    /\ UNCHANGED <<test, var, stack>>

Run(t) ==
    \/ LeaveOut(t) \/ Socket(t) \/ NoSocket(t) \/ SendSyn(t) \/ OnSocket(t)
    \/ Close(t) \/ Spawn(t) \/ Wait(t) \/ NetifUp(t)

Stack(f) == Establish(f) \/ GiveUp(f) \/ Respond(f) \/ ServerCloses(f)

TestsNext == (\E t \in Threads : Run(t)) \/ \E f \in Fd : Stack(f)

\* Threads are scheduled; the stack ends every attempt to connect.
TestsSpec ==
    /\ TestsInit /\ [][TestsNext]_testsVars
    /\ \A t \in Threads : WF_testsVars(Run(t))
    /\ \A f \in Fd : WF_testsVars(Establish(f)) /\ WF_testsVars(GiveUp(f))

----------------------------------------------------------------------------

\* The calls whose assertions ask for speed.  Of this machine: "only works if it is
\* fast enough".  Of the server: a second "should be enough" for its response, and
\* then, though no comment says so, the time-outs of select() and of the last recv()
\* for the rest of it and for its closing.
AskForSpeed ==
    {Call("send", S, {"inprogress"}), Call("poll", S, {"none"})}
        \cup {TestRecv[i] : i \in {6, 7, 9}}

\* However the threads, the stack and a good server interleave, no assertion of
\* the tests fails but for those: connections come up and select() tells so, an
\* invalid address ends in an error, every waiter runs into its time-out.
AssertsHold == aborted \subseteq AskForSpeed

\* A test leaves no descriptor open behind it, also when it breaks off half-way.
\* Two exceptions: the socket that tcp_bind_test() could not bind, and the
\* tcp_bind_test() of tcp_client.c, which closes none.
Unbound == {var[S]} \ {var[i] : i \in 1..Binds}
NothingLeft ==
    Ended("main") /\ test # "bind_open" =>
        Open \subseteq IF test = "bind" THEN Unbound ELSE {}

\* Nothing is used before it is there or after it has gone: no socket before the
\* netif is up, and no waiter of sockex_testtwoselects() waits on a socket that
\* main has closed.  The thread of tcp_async_connect() is excepted: main closes its
\* socket under it without waiting for it.
UsedInTime ==
    /\ Open # {} => netif
    /\ \A w \in Waiters : Started(w) /\ ~Ended(w) => var[SocketOf(w)] \in Open

\* main() returns from every test, also when it closes the socket under a thread
\* that it then joins; the thread that blocks in recv() may keep it.
MainReturns == test # "block" => <>(Ended("main") \/ aborted # {})

----------------------------------------------------------------------------
(* The inductive invariant of the proofs of NothingLeft and UsedInTime.    *)

Shaped ==
    /\ test \in Test
    /\ at \in [Threads -> Nat] /\ Started("main")
    /\ returned \in [Threads -> Any]
    /\ var \in [Names -> Fd \cup {Unset}]
    /\ conn \in [Fd -> {"free", "idle", "syn", "invalid", "up", "fin", "dead"}]

\* The test begins once test_init() has run.
Booted ==
    /\ at["tcpip"] > 1 => netif
    /\ at["main"] > 2 => at["tcpip"] > 1
    /\ at["main"] <= 3 => Open = {}

\* The waiters of sockex_testtwoselects() run between their start and the closing
\* of what they wait for.
TwoSockets ==
    test = "twoselects" =>
        /\ Open = (IF at["main"] \in 4..17 THEN {var[S1]} ELSE {})
                     \cup (IF at["main"] \in 5..18 THEN {var[S2]} ELSE {})
        /\ at["main"] \in 5..17 => var[S1] # var[S2]
        /\ \A w \in Waiters : at["main"] <= 9 => ~Started(w)
        /\ at["main"] > 13 => Ended("h1")
        /\ at["main"] > 14 => Ended("h2")
        /\ at["main"] > 15 => Ended("h3")
        /\ at["main"] > 16 => Ended("h4")

NoWaiters == test # "twoselects" => \A w \in Waiters : ~Started(w)

\* Between which calls the tests with one socket at a time have it open.
Holding ==
    CASE test = "nonblocking" -> (4..6) \cup (8..10) \cup (13..21) \cup (23..28)
      [] test = "testrecv" -> 4..12
      [] OTHER -> 4..5

OneSocket ==
    test \in {"nonblocking", "testrecv", "async", "block"} =>
        /\ \A f \in Open : f = var[S]
        /\ at["main"] \notin Holding => Open = {}

\* What tcp_bind_test() has opened is in sock_array until its turn to be closed
\* comes, or is being bound, or could not be.
Bound(f) == \E i \in 1..Binds : var[i] = f
Binding ==
    test = "bind" =>
        /\ at["main"] <= 2 * Binds + 2 =>
              /\ \A i \in 1..Binds : 2 * i >= at["main"] - 2 => var[i] = Unset
              /\ at["main"] % 2 = 1 => \A f \in Open : Bound(f)
        /\ \A f \in Open :
              \/ f = var[S] /\ ~Bound(f)
              \/ \E i \in 1..Binds : var[i] = f /\ at["main"] <= 2 * Binds + 2 + i

TestsInv == Shaped /\ Booted /\ TwoSockets /\ NoWaiters /\ OneSocket /\ Binding

----------------------------------------------------------------------------
(* The invariant of the proof of AssertsHold: what the socket of a test is *)
(* like at each of main's calls, while a good server is behind it.         *)

\* No thread but those of its list takes part in a test that asserts, and nothing is
\* heard of a server before it was asked.
Unheard ==
    /\ unread \in [Fd -> Nat] /\ asked \in [Fd -> Nat] /\ nonblock \in [Fd -> BOOLEAN]
    /\ ~Started("thread")
    /\ \A f \in Open :
          /\ conn[f] \in {"idle", "syn", "invalid"} => unread[f] = 0
          /\ asked[f] < 2 => unread[f] = 0 /\ conn[f] # "fin"

\* A socket that may be connected, that is, and where connect() blocks.
Connectable(f) == conn[f] \in {"idle", "syn", "up", "fin"}
Accepted(f) == conn[f] \in {"up", "fin"}
Blocking(f) == ~nonblock[f]

NonblockingAt(j, f) ==
    /\ j \in Holding => f \in Open
    /\ j = 4 => Connectable(f) /\ Blocking(f)
    /\ j \in {5, 19, 20} => Accepted(f)
    /\ j \in {8, 9, 13, 14, 23, 24} => conn[f] = "idle"
    /\ j \in {9, 14, 24} => ~Blocking(f)
    /\ j \in 15..18 => conn[f] \in {"syn", "up", "fin"}
    /\ j \in 25..27 => conn[f] \in {"invalid", "dead"}

\* Nothing is sent before poll() has found the connection.
Unasked(j, f) == aborted = {} /\ j \in 13..19 => asked[f] = 0

TestRecvAt(j, f) ==
    /\ j \in Holding => f \in Open
    /\ j = 4 => Connectable(f) /\ Blocking(f)
    /\ j \in 5..7 => Accepted(f)
    /\ j \in {4, 5} => asked[f] = 0
    /\ j \in {6, 7} => asked[f] = 1

TwoSelectsAt(j, f1, f2) ==
    /\ j \in 4..5 => Connectable(f1) /\ Blocking(f1)
    /\ j \in 5..6 => Connectable(f2) /\ Blocking(f2)
    /\ j \in 6..7 => Accepted(f1)
    /\ j \in 7..8 => Accepted(f2)

AssertsInv ==
    /\ AssertsHold
    /\ test \in Asserts => Unheard
    /\ test = "nonblocking" => NonblockingAt(at["main"], var[S])
    /\ test = "nonblocking" => Unasked(at["main"], var[S])
    /\ test = "testrecv" => TestRecvAt(at["main"], var[S])
    /\ test = "twoselects" => TwoSelectsAt(at["main"], var[S1], var[S2])

=============================================================================
