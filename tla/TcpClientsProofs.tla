---------------------------- MODULE TcpClientsProofs ----------------------------
(***************************************************************************)
(* TcpClients for every size of its buffer, batch and reply: descriptors   *)
(* are not leaked, and a reply is received whole.                          *)
(***************************************************************************)
EXTENDS TcpClients, TLAPS

\* A client that reconnects closes one descriptor before it asks for the next, so
\* that socket() never runs out of them for it.
THEOREM NoDescriptorLeaks == Spec => []OneDescriptor
<1>1. Init => OneDescriptor
  BY DEF Init, OneDescriptor
<1>2. OneDescriptor /\ [Next]_vars => OneDescriptor'
  <2> SUFFICES ASSUME OneDescriptor, [Next]_vars PROVE OneDescriptor'
    OBVIOUS
  <2> USE DEF OneDescriptor, Goto, config, reply, received, signal
  <2>1. CASE World
    BY <2>1 DEF World, Establish, ServerSends, ServerCloses, ConnectionLost, LinkDown
  <2>2. CASE Socket
    BY <2>2 DEF Socket
  <2>3. CASE CreateFd \/ NoSocket \/ ChooseNetif
    BY <2>3 DEF CreateFd, NoSocket, ChooseNetif
  <2>4. CASE Connect \/ ConnectReturns \/ SelectReturns \/ SelectConnected
    BY <2>4 DEF Connect, ConnectReturns, SelectReturns, SelectConnected, Writable, Connected
  <2>10. CASE ConnectFails \/ SelectFails
    BY <2>10 DEF ConnectFails, SelectFails, GivesUp
  <2>5. CASE Send \/ SendFails
    BY <2>5 DEF Send, SendFails, OnError
  <2>6. CASE ReceiveEcho \/ ReceiveReply \/ ReceiveFails
    BY <2>6 DEF ReceiveEcho, ReceiveReply, ReceiveFails, OnError
  <2>7. CASE SelectSignalled \/ Close
    BY <2>7 DEF SelectSignalled, Close, Shutdown, CloseSocket
  <2>8. CASE DataEnds
    BY <2>8 DEF DataEnds
  <2>9. CASE UNCHANGED vars
    BY <2>9 DEF vars
  <2> QED
    BY <2>1, <2>2, <2>3, <2>4, <2>5, <2>6, <2>7, <2>8, <2>9, <2>10 DEF Next, Task
<1> QED
  BY <1>1, <1>2, PTL DEF Spec

----------------------------------------------------------------------------

\* The invariant holds at first.
LEMMA Initially == Init => IInv
BY ClientAssumption DEF Init, IInv, Counts, Placed, Conserved, ReplyIsWhole

\* What the server and the stack do keeps the reply together.
LEMMA WorldStep == IInv /\ World => IInv'
<1> SUFFICES ASSUME IInv, World PROVE IInv'
  OBVIOUS
<1> USE ClientAssumption DEF IInv, Counts, Placed, Conserved, ReplyIsWhole,
            config, reply, received, signal
<1>1. CASE Establish
  BY <1>1 DEF Establish
<1>2. CASE ServerSends
  BY <1>2 DEF ServerSends
<1>3. CASE ServerCloses
  BY <1>3 DEF ServerCloses
<1>4. CASE ConnectionLost
  BY <1>4 DEF ConnectionLost
<1>5. CASE LinkDown
  BY <1>5 DEF LinkDown
<1> QED
  BY <1>1, <1>2, <1>3, <1>4, <1>5 DEF World

\* A batch fits, and the loop ends for one of three reasons.
LEMMA ReplyStep == IInv /\ ReceiveReply => IInv'
<1> SUFFICES ASSUME IInv, ReceiveReply PROVE IInv'
  OBVIOUS
<1> USE ClientAssumption DEF IInv, Counts, Placed, Conserved, ReplyIsWhole,
            config, reply, signal, Goto
<1>1. ASSUME NEW len \in 1..unread, len <= BytesToReceive,
             unread' = unread - len, total' = total + len,
             Goto(IF GoesOn(len) THEN "recv" ELSE "close")
      PROVE  IInv'
  <2>1. /\ attempts' = attempts + 1 /\ prog = "window" /\ pc = "recv"
        /\ UNCHANGED <<prog, conn, size, left>>
    BY DEF ReceiveReply
  <2>2. total' <= Buf - 1
    BY <1>1 DEF BytesToReceive, Room
  <2>3. attempts' \in Nat /\ total' \in Nat /\ unread' \in Nat /\ attempts' <= MaxAttempts
    BY <1>1, <2>1
  <2>4. pc' = IF GoesOn(len) THEN "recv" ELSE "close"
    BY <1>1, Zenon
  <2>5. \/ pc' = "recv" /\ attempts' < MaxAttempts
        \/ pc' = "close" /\ (attempts' >= MaxAttempts \/ total' >= Buf - 1)
    BY <2>2, <2>3, <2>4 DEF GoesOn
  <2>6. left' + unread' + total' = size'
          \/ conn \notin {"up", "fin"}
    BY <1>1, <2>1
  <2> QED
    BY <2>1, <2>2, <2>3, <2>4, <2>5, <2>6
<1>2. ASSUME unread = 0, conn = "fin", Goto("close"), UNCHANGED <<unread, total>>
      PROVE  IInv'
  BY <1>2 DEF ReceiveReply
<1> QED
  BY <1>1, <1>2 DEF ReceiveReply

\* The other steps of the programs.
LEMMA TaskStep == IInv /\ (Task \/ DataEnds) => IInv'
<1> SUFFICES ASSUME IInv, Task \/ DataEnds PROVE IInv'
  OBVIOUS
<1> USE ClientAssumption DEF IInv, Counts, Placed, Conserved, ReplyIsWhole,
            config, reply, received, signal, Goto
<1>1. CASE CreateFd \/ Socket \/ NoSocket \/ ChooseNetif
  BY <1>1 DEF CreateFd, Socket, NoSocket, ChooseNetif
<1>2. CASE ConnectFails \/ SelectFails
  BY <1>2 DEF ConnectFails, SelectFails, GivesUp
<1>3. CASE ConnectReturns \/ SelectConnected
  BY <1>3 DEF ConnectReturns, SelectConnected, Writable, Connected
<1>4. CASE Connect \/ SelectReturns
  BY <1>4 DEF Connect, SelectReturns
<1>5. CASE SelectSignalled \/ Close
  BY <1>5 DEF SelectSignalled, Close, Shutdown, CloseSocket
<1>6. CASE Send \/ SendFails
  BY <1>6 DEF Send, SendFails, OnError
<1>7. CASE ReceiveEcho
  BY <1>7 DEF ReceiveEcho
<1>8. CASE ReceiveFails
  BY <1>8 DEF ReceiveFails, OnError
<1>9. CASE ReceiveReply
  BY <1>9, ReplyStep
<1>10. CASE DataEnds
  BY <1>10 DEF DataEnds
<1> QED
  BY <1>1, <1>2, <1>3, <1>4, <1>5, <1>6, <1>7, <1>8, <1>9, <1>10 DEF Task

\* The invariant is one.
LEMMA Invariant == Spec => []IInv
<1>1. IInv /\ [Next]_vars => IInv'
  <2> SUFFICES ASSUME IInv, [Next]_vars PROVE IInv'
    OBVIOUS
  <2>1. CASE UNCHANGED vars
    BY <2>1 DEF vars, config, reply, received, signal, IInv, Counts, Placed, Conserved, ReplyIsWhole
  <2> QED
    BY <2>1, WorldStep, TaskStep DEF Next
<1> QED
  BY Initially, <1>1, PTL DEF Spec

\* The reply that tcp_client_v4.c of rcvwnd_issue has when it closes is whole, as
\* far as its buffer takes it, whatever the sizes of buffer, batch and window.
THEOREM WholeReply == Spec => []ReplyIsWhole
<1>1. IInv => ReplyIsWhole
  BY DEF IInv
<1> QED
  BY <1>1, Invariant, PTL

----------------------------------------------------------------------------

\* What the invariant says of the counters of window, with their limits.
LEMMA Limits ==
    IInv => /\ total \in 0..Buf - 1 /\ unread \in Nat /\ attempts \in Nat
            /\ prog = "window" /\ pc \in {"send", "recv"} => attempts + 1 \in 0..MaxAttempts
BY ClientAssumption DEF IInv, Counts, Placed, ReplyIsWhole

\* What is signalled was lost.
Signals == counter <= losses

\* Type correctness: the stack keeps no more than its window, the reply stays within
\* the buffer, and window within its attempts.
THEOREM Types == Spec => []TypeOK
<1>1. Init => TypeOK /\ Signals
  <2> SUFFICES ASSUME Init PROVE TypeOK /\ Signals
    OBVIOUS
  <2>1. prog \in Program /\ filtered \in BOOLEAN
    BY DEF Init
  <2>2. {netifs, usable} \subseteq SUBSET {"loopback", "scoped", "other"}
    BY DEF Init, UsableLinux, UsableIdf
  <2>3. pc \in {"boot", "head"} /\ 0 \in 0..Window /\ 0 \in 0..Buf - 1
          /\ 0 \in 0..MaxAttempts /\ 0 \in 0..Losses
    BY ClientAssumption DEF Init
  <2>4. size \in Sizes /\ left \in 0..size
    BY ClientAssumption DEF Init
  <2>5. /\ sock = None /\ open = {} /\ conn = "none" /\ data = "off" /\ fd = FALSE
        /\ ready = {}
    BY DEF Init
  <2>6. /\ unread = 0 /\ total = 0 /\ attempts = 0
        /\ {counter, losses} \subseteq 0..Losses /\ Signals
    BY <2>3 DEF Init, Signals
  <2> QED BY <2>1, <2>2, <2>3, <2>4, <2>5, <2>6 DEF TypeOK
<1>2. TypeOK /\ Signals /\ IInv /\ IInv' /\ [Next]_vars => TypeOK' /\ Signals'
  <2> SUFFICES ASSUME TypeOK, Signals, IInv, IInv', [Next]_vars PROVE TypeOK' /\ Signals'
    OBVIOUS
  <2>1. /\ total \in 0..Buf - 1 /\ unread \in Nat
        /\ total' \in 0..Buf - 1 /\ unread' \in Nat
        /\ prog = "window" /\ pc = "recv" => attempts + 1 \in 0..MaxAttempts
    <3>1. total' \in 0..Buf - 1 /\ unread' \in Nat
      BY ClientAssumption DEF IInv, Counts, ReplyIsWhole
    <3> QED BY <3>1, Limits
  <2> USE ClientAssumption DEF TypeOK, Signals, config, reply, received, signal, Goto
  <2>2. CASE Establish \/ ServerCloses \/ ConnectionLost
    <3>1. size \in Nat /\ 0 \in 0..Window
      OBVIOUS
    <3>2. CASE Establish
      BY <3>1, <3>2 DEF Establish
    <3>3. CASE ServerCloses
      BY <3>3 DEF ServerCloses
    <3>4. CASE ConnectionLost
      BY <3>1, <3>4 DEF ConnectionLost
    <3> QED BY <2>2, <3>2, <3>3, <3>4
  <2>3. CASE ServerSends
    BY <2>3 DEF ServerSends
  <2>4. CASE LinkDown
    BY <2>4 DEF LinkDown
  <2>5. CASE CreateFd \/ Socket \/ NoSocket \/ ChooseNetif
    <3>1. CASE CreateFd
      BY <3>1 DEF CreateFd
    <3>2. CASE Socket
      BY <3>2 DEF Socket
    <3>3. CASE NoSocket \/ ChooseNetif
      BY <3>3 DEF NoSocket, ChooseNetif
    <3> QED BY <2>5, <3>1, <3>2, <3>3
  <2>6. CASE Connect
    BY <2>6 DEF Connect
  <2>15. CASE SelectReturns
    BY <2>15 DEF SelectReturns
  <2>16. CASE ConnectFails \/ SelectFails
    <3>1. ready' \subseteq {"signal", "socket"}
      BY <2>16 DEF ConnectFails, SelectFails
    <3>2. /\ pc' = "stopped" /\ conn' = "none" /\ unread' = 0
          /\ UNCHANGED <<prog, filtered, netifs, usable, sock, open, size, left>>
          /\ UNCHANGED <<total, attempts, data, fd, counter, losses>>
      BY <2>16 DEF ConnectFails, SelectFails, GivesUp
    <3> QED BY <3>1, <3>2
  <2>7. CASE ConnectReturns \/ SelectConnected
    <3>1. ready' \subseteq {"signal", "socket"}
      BY <2>7 DEF ConnectReturns, SelectConnected
    <3>2. /\ data' \in {"off", "on"} /\ pc' = "send"
          /\ UNCHANGED <<prog, filtered, netifs, usable, sock, open, conn, unread, size, left>>
          /\ UNCHANGED <<fd, counter, losses>> /\ total' = 0 /\ attempts' = 0
      BY <2>7 DEF ConnectReturns, SelectConnected, Connected
    <3> QED BY <3>1, <3>2
  <2>8. CASE SelectSignalled \/ Close
    <3>1. ready' \subseteq {"signal", "socket"}
      BY <2>8 DEF SelectSignalled, Close
    <3>2. /\ sock' = None /\ open' \subseteq Sockets /\ conn' = "none" /\ unread' = 0
          /\ pc' \in {"head", "stopped"}
          /\ UNCHANGED <<prog, filtered, netifs, usable, size, left, total, attempts>>
          /\ UNCHANGED <<data, fd, counter, losses>>
      BY <2>8 DEF SelectSignalled, Close, Shutdown, CloseSocket
    <3> QED BY <3>1, <3>2
  <2>9. CASE Send \/ SendFails
    BY <2>9 DEF Send, SendFails, OnError
  <2>10. CASE ReceiveEcho
    BY <2>10 DEF ReceiveEcho
  <2>11. CASE ReceiveReply
    <3>1. unread' <= unread /\ attempts' = attempts + 1 /\ pc' \in {"recv", "close"}
      BY <2>1, <2>11 DEF ReceiveReply
    <3> QED BY <2>1, <2>11, <3>1 DEF ReceiveReply
  <2>12. CASE ReceiveFails
    BY <2>1, <2>12 DEF ReceiveFails, OnError
  <2>13. CASE DataEnds
    BY <2>13 DEF DataEnds
  <2>14. CASE UNCHANGED vars
    BY <2>14 DEF vars
  <2> QED
    BY <2>2, <2>3, <2>4, <2>5, <2>6, <2>7, <2>8, <2>9, <2>10, <2>11, <2>12, <2>13, <2>14,
       <2>15, <2>16
    DEF Next, World, Task
<1> QED
  BY <1>1, <1>2, Invariant, PTL DEF Spec

=============================================================================
