------------------------- MODULE PthreadServerProofs -------------------------
(***************************************************************************)
(* For any number of clients and descriptors, any file and chunk size: the *)
(* safety properties of PthreadServer, from its inductive invariant, and   *)
(* that it implements FileService for as long as the file is allocated.    *)
(***************************************************************************)
EXTENDS PthreadServer, TLAPS

-----------------------------------------------------------------------------
(* Sending.                                                                *)

\* What a thread may read at its offset is a segment.
LEMMA ChunkIsSegment ==
    ASSUME TypeOK, Bounded, NEW c \in Conn, pc[c] = "chunk",
           NEW seg \in ChunkRead(c)
    PROVE  seg \in Service!Segment
<1> USE ServerAssumption
<1>1. offset[c] \in Nat /\ offset[c] < FileSize BY DEF TypeOK, Bounded
<1>2. Service!ChunkAt(offset[c]) \in Service!Segment
  BY <1>1 DEF Service!ChunkAt, Service!Segment
<1>3. Garbage \in Service!Segment BY DEF Garbage, Service!Segment
<1> QED BY <1>2, <1>3 DEF ChunkRead

\* The header is one too.
LEMMA HeaderIsSegment == Service!Header \in Service!Segment
BY DEF Service!Header, Service!Segment

\* A thread that sends reaches its own client, unless that client is gone.
LEMMA SendsToItsClient ==
    ASSUME TypeOK, OwnSocket, NEW c \in Conn, pc[c] \in HoldsFd,
           NEW seg \in Service!Segment, Send(fd[c], seg)
    PROVE  /\ \/ peer[c] = "gone" /\ UNCHANGED wire
              \/ /\ peer[c] = "reading"
                 /\ wire' = [wire EXCEPT ![c] = Append(@, seg)]
           /\ wire' \in [Conn -> Seq(Service!Segment)]
<1>1. sock[fd[c]] = c /\ c # None BY ServerAssumption DEF OwnSocket
<1>2. CASE peer[c] = "gone" BY <1>1, <1>2 DEF Send, TypeOK
<1>3. CASE peer[c] # "gone"
  <2>1. /\ peer[c] = "reading"
        /\ wire' = [wire EXCEPT ![c] = Append(@, seg)]
    BY <1>1, <1>3 DEF Send
  <2>2. wire[c] \in Seq(Service!Segment) BY DEF TypeOK
  <2>3. Append(wire[c], seg) \in Seq(Service!Segment) BY <2>2
  <2>4. wire' \in [Conn -> Seq(Service!Segment)] BY <2>1, <2>3 DEF TypeOK
  <2> QED BY <2>1, <2>4
<1> QED BY <1>2, <1>3

\* What is received after one more segment.
LEMMA ReceivedAppend ==
    ASSUME NEW w \in Seq(Service!Segment), NEW seg \in Service!Segment
    PROVE  /\ Append(w, seg) # <<>>
           /\ Service!Received(Append(w, seg)) = Service!End(seg)
<1>1. /\ Len(Append(w, seg)) = Len(w) + 1
      /\ Append(w, seg)[Len(w) + 1] = seg
      /\ Append(w, seg) # <<>>
  OBVIOUS
<1> QED BY <1>1 DEF Service!Received

-----------------------------------------------------------------------------
(* The conjuncts of IInv, one after the other.                             *)

LEMMA TypeStep == IInv /\ [Next]_vars => TypeOK'
<1> SUFFICES ASSUME IInv, [Next]_vars PROVE TypeOK'
  OBVIOUS
<1> USE ServerAssumption DEF IInv, TypeOK, HoldsFd, Started
<1>1. ASSUME NEW c \in Conn, NEW f \in Fd, Accept(c, f) PROVE TypeOK'
  BY <1>1 DEF Accept
<1>2. ASSUME NEW c \in Conn, PthreadCreate(c) \/ PthreadCreateFails(c)
      PROVE  TypeOK'
  BY <1>2 DEF PthreadCreate, PthreadCreateFails
<1>3. ASSUME NEW c \in Conn, AcceptFails(c) PROVE TypeOK'
  BY <1>3 DEF AcceptFails, LoopEnds
<1>10. CASE ListenerFails BY <1>10 DEF ListenerFails, LoopEnds
<1>4. ASSUME NEW c \in Conn, SendHeader(c) PROVE TypeOK'
  <2>1. wire' \in [Conn -> Seq(Service!Segment)]
    BY <1>4, HeaderIsSegment, SendsToItsClient DEF SendHeader
  <2> QED BY <1>4, <2>1 DEF SendHeader
<1>5. ASSUME NEW c \in Conn, SendChunk(c) PROVE TypeOK'
  <2>1. wire' \in [Conn -> Seq(Service!Segment)]
    BY <1>5, ChunkIsSegment, SendsToItsClient DEF SendChunk
  <2> QED BY <1>5, <2>1 DEF SendChunk
<1>6. ASSUME NEW c \in Conn, LoopTest(c) \/ Wake(c) PROVE TypeOK'
  <2>1. CASE LoopTest(c) BY <2>1 DEF LoopTest
  <2>2. CASE Wake(c)
    <3>1. offset' \in [Conn -> Nat] /\ pc' = [pc EXCEPT ![c] = "test"]
      BY <2>2 DEF Wake
    <3> QED BY <2>2, <3>1 DEF Wake
  <2> QED BY <1>6, <2>1, <2>2
<1>7. ASSUME NEW c \in Conn, Close(c) PROVE TypeOK'
  BY <1>7 DEF Close
<1>8. ASSUME NEW c \in Conn, Stall(c) \/ Drain(c) \/ Vanish(c) PROVE TypeOK'
  BY <1>8 DEF Stall, Drain, Vanish, PeerMoves
<1>9. CASE UNCHANGED vars BY <1>9 DEF vars
<1> QED
  BY <1>1, <1>2, <1>3, <1>4, <1>5, <1>6, <1>7, <1>8, <1>9, <1>10
     DEF Next, Thread

\* A descriptor belongs to one connection that is served, or orphaned.
LEMMA OwnSocketStep == IInv /\ [Next]_vars => OwnSocket'
<1> SUFFICES ASSUME IInv, [Next]_vars PROVE OwnSocket'
  OBVIOUS
<1> USE ServerAssumption DEF IInv, TypeOK, OwnSocket, HoldsFd, Started
<1>1. CASE UNCHANGED <<fd, sock>> /\ \A d \in Conn : pc[d] \in HoldsFd <=> pc'[d] \in HoldsFd
  BY <1>1
<1>2. ASSUME NEW c \in Conn, NEW f \in Fd, Accept(c, f) PROVE OwnSocket'
  BY <1>2 DEF Accept
<1>3. ASSUME NEW c \in Conn, PthreadCreate(c) \/ PthreadCreateFails(c)
      PROVE  OwnSocket'
  BY <1>1, <1>3 DEF PthreadCreate, PthreadCreateFails
<1>4. ASSUME NEW c \in Conn, AcceptFails(c) PROVE OwnSocket'
  BY <1>1, <1>4 DEF AcceptFails, LoopEnds
<1>9. CASE ListenerFails BY <1>1, <1>9 DEF ListenerFails, LoopEnds
<1>5. ASSUME NEW c \in Conn,
             SendHeader(c) \/ LoopTest(c) \/ SendChunk(c) \/ Wake(c)
      PROVE  OwnSocket'
  BY <1>1, <1>5 DEF SendHeader, LoopTest, SendChunk, Wake
<1>6. ASSUME NEW c \in Conn, Close(c) PROVE OwnSocket'
  BY <1>6 DEF Close
<1>7. ASSUME NEW c \in Conn, Stall(c) \/ Drain(c) \/ Vanish(c)
      PROVE  OwnSocket'
  BY <1>1, <1>7 DEF Stall, Drain, Vanish, PeerMoves
<1>8. CASE UNCHANGED vars BY <1>1, <1>8 DEF vars
<1> QED
  BY <1>2, <1>3, <1>4, <1>5, <1>6, <1>7, <1>8, <1>9 DEF Next, Thread

\* A send touches only the wire of its own client.
LEMMA SendsToNobodyElse ==
    ASSUME IInv, NEW c \in Conn, SendHeader(c) \/ SendChunk(c)
    PROVE  \A d \in Conn \ {c} : wire'[d] = wire[d]
<1> USE DEF IInv
<1>1. pc[c] \in HoldsFd BY DEF SendHeader, SendChunk, HoldsFd, Started
<1>2. PICK seg \in Service!Segment : Send(fd[c], seg)
  BY HeaderIsSegment, ChunkIsSegment DEF SendHeader, SendChunk
<1>3. wire' = wire \/ wire' = [wire EXCEPT ![c] = Append(@, seg)]
  BY <1>1, <1>2, SendsToItsClient
<1> QED BY <1>3 DEF TypeOK

LEMMA FreshStep == IInv /\ [Next]_vars => Fresh'
<1> SUFFICES ASSUME IInv, [Next]_vars PROVE Fresh'
  OBVIOUS
<1> USE DEF IInv, TypeOK, Fresh
<1>1. ASSUME NEW c \in Conn, NEW f \in Fd, Accept(c, f) PROVE Fresh'
  BY <1>1 DEF Accept
<1>2. ASSUME NEW c \in Conn, PthreadCreate(c) \/ PthreadCreateFails(c)
      PROVE  Fresh'
  BY <1>2 DEF PthreadCreate, PthreadCreateFails
<1>3. ASSUME NEW c \in Conn, AcceptFails(c) PROVE Fresh'
  BY <1>3 DEF AcceptFails, LoopEnds
<1>8. CASE ListenerFails BY <1>8 DEF ListenerFails, LoopEnds
<1>4. ASSUME NEW c \in Conn, SendHeader(c) \/ SendChunk(c) PROVE Fresh'
  <2>1. \A d \in Conn \ {c} : wire'[d] = wire[d] BY <1>4, SendsToNobodyElse
  <2> QED BY <1>4, <2>1 DEF SendHeader, SendChunk
<1>5. ASSUME NEW c \in Conn, LoopTest(c) \/ Wake(c) \/ Close(c) PROVE Fresh'
  BY <1>5 DEF LoopTest, Wake, Close
<1>6. ASSUME NEW c \in Conn, Stall(c) \/ Drain(c) \/ Vanish(c) PROVE Fresh'
  BY <1>6 DEF Stall, Drain, Vanish, PeerMoves
<1>7. CASE UNCHANGED vars BY <1>7 DEF vars
<1> QED
  BY <1>1, <1>2, <1>3, <1>4, <1>5, <1>6, <1>7, <1>8 DEF Next, Thread

\* The loop's test keeps the offset of a chunk inside the file.
LEMMA BoundedStep == IInv /\ [Next]_vars => Bounded'
<1> SUFFICES ASSUME IInv, [Next]_vars PROVE Bounded'
  OBVIOUS
<1> USE ServerAssumption DEF IInv, TypeOK, Bounded
<1>1. ASSUME NEW c \in Conn, NEW f \in Fd, Accept(c, f) PROVE Bounded'
  BY <1>1 DEF Accept
<1>2. ASSUME NEW c \in Conn, PthreadCreate(c) \/ PthreadCreateFails(c)
      PROVE  Bounded'
  BY <1>2 DEF PthreadCreate, PthreadCreateFails
<1>3. ASSUME NEW c \in Conn, AcceptFails(c) PROVE Bounded'
  BY <1>3 DEF AcceptFails, LoopEnds
<1>9. CASE ListenerFails BY <1>9 DEF ListenerFails, LoopEnds
<1>4. ASSUME NEW c \in Conn, SendHeader(c) \/ SendChunk(c) PROVE Bounded'
  BY <1>4 DEF SendHeader, SendChunk
<1>5. ASSUME NEW c \in Conn, LoopTest(c) PROVE Bounded'
  BY <1>5 DEF LoopTest, More
<1>6. ASSUME NEW c \in Conn, Wake(c) \/ Close(c) PROVE Bounded'
  BY <1>6 DEF Wake, Close
<1>7. ASSUME NEW c \in Conn, Stall(c) \/ Drain(c) \/ Vanish(c) PROVE Bounded'
  BY <1>7 DEF Stall, Drain, Vanish, PeerMoves
<1>8. CASE UNCHANGED vars BY <1>8 DEF vars
<1> QED
  BY <1>1, <1>2, <1>3, <1>4, <1>5, <1>6, <1>7, <1>8, <1>9 DEF Next, Thread

\* While the file is allocated, what a client received follows its thread's
\* offset; a freed file is never allocated again.
InStep == fileData = "allocated" => \A c \in Conn : peer[c] # "gone" => Progress(c)

LEMMA ProgressStep == IInv /\ [Next]_vars => InStep'
<1> SUFFICES ASSUME IInv, [Next]_vars, fileData = "allocated",
                    NEW d \in Conn, peer'[d] # "gone"
             PROVE  Progress(d)'
  BY DEF InStep, Next, Accept, PthreadCreate, PthreadCreateFails, AcceptFails,
         ListenerFails, LoopEnds,
         Thread, SendHeader, LoopTest, SendChunk, Wake, Close,
         Stall, Drain, Vanish, PeerMoves, vars
<1> USE ServerAssumption DEF IInv, TypeOK, Progress
<1>1. ASSUME peer' = peer,
             pc'[d] = pc[d], offset'[d] = offset[d], wire'[d] = wire[d]
      PROVE  Progress(d)'
  BY <1>1
<1>2. ASSUME NEW c \in Conn, NEW f \in Fd, Accept(c, f) PROVE Progress(d)'
  BY <1>2 DEF Accept
<1>3. ASSUME NEW c \in Conn, PthreadCreate(c) \/ PthreadCreateFails(c)
      PROVE  Progress(d)'
  BY <1>3 DEF PthreadCreate, PthreadCreateFails
<1>4. ASSUME NEW c \in Conn, AcceptFails(c) PROVE Progress(d)'
  BY <1>4 DEF AcceptFails, LoopEnds
<1>12. CASE ListenerFails BY <1>1, <1>12 DEF ListenerFails, LoopEnds
<1>5. ASSUME NEW c \in Conn, SendHeader(c) PROVE Progress(d)'
  <2>1. CASE d # c BY <1>1, <1>5, <2>1, SendsToNobodyElse DEF SendHeader
  <2>2. CASE d = c
    <3>1. /\ pc'[c] = "test" /\ offset'[c] = offset[c] /\ offset[c] = 0
          /\ Send(fd[c], Service!Header) /\ pc[c] \in HoldsFd
          /\ peer[c] # "gone"
      BY <1>5, <2>2 DEF SendHeader, Fresh, HoldsFd, Started
    <3>2. wire'[c] = Append(wire[c], Service!Header)
      BY <3>1, HeaderIsSegment, SendsToItsClient
    <3>3. wire'[c] # <<>> /\ Service!Received(wire'[c]) = Service!End(Service!Header)
      BY <3>2, HeaderIsSegment, ReceivedAppend
    <3>4. Service!End(Service!Header) = 0 BY DEF Service!End, Service!Header
    <3> QED BY <2>2, <3>1, <3>3, <3>4
  <2> QED BY <2>1, <2>2
<1>6. ASSUME NEW c \in Conn, LoopTest(c) PROVE Progress(d)'
  BY <1>6 DEF LoopTest
<1>7. ASSUME NEW c \in Conn, SendChunk(c) PROVE Progress(d)'
  <2>1. CASE d # c BY <1>1, <1>7, <2>1, SendsToNobodyElse DEF SendChunk
  <2>2. CASE d = c
    <3> DEFINE seg == Service!ChunkAt(offset[c])
    <3>1. /\ pc'[c] = "nap" /\ offset'[c] = offset[c]
          /\ pc[c] = "chunk" /\ pc[c] \in HoldsFd /\ peer[c] # "gone"
      BY <1>7, <2>2 DEF SendChunk, HoldsFd, Started
    <3>2. Send(fd[c], seg) /\ seg \in ChunkRead(c)
      BY <1>7 DEF SendChunk, ChunkRead
    <3>3. seg \in Service!Segment BY <3>1, <3>2, ChunkIsSegment
    <3> HIDE DEF seg
    <3>4. wire'[c] = Append(wire[c], seg) BY <3>1, <3>2, <3>3, SendsToItsClient
    <3>5. wire'[c] # <<>> /\ Service!Received(wire'[c]) = Service!End(seg)
      BY <3>3, <3>4, ReceivedAppend
    <3> QED BY <2>2, <3>1, <3>5 DEF seg
  <2> QED BY <2>1, <2>2
<1>8. ASSUME NEW c \in Conn, Wake(c) PROVE Progress(d)'
  <2>1. CASE d # c BY <1>1, <1>8, <2>1 DEF Wake
  <2>2. CASE d = c
    <3>1. /\ pc'[c] = "test" /\ offset'[c] = offset[c] + ChunkSize
          /\ wire' = wire /\ peer[c] # "gone" /\ pc[c] = "nap"
      BY <1>8, <2>2 DEF Wake
    <3>2. /\ wire[c] # <<>>
          /\ Service!Received(wire[c]) = Service!End(Service!ChunkAt(offset[c]))
      BY <3>1
    <3>3. Service!End(Service!ChunkAt(offset[c])) =
             IF offset[c] + ChunkSize < FileSize THEN offset[c] + ChunkSize ELSE FileSize
      BY <3>1 DEF Service!End, Service!ChunkAt, Bounded
    <3> QED BY <2>2, <3>1, <3>2, <3>3
  <2> QED BY <2>1, <2>2
<1>9. ASSUME NEW c \in Conn, Close(c) PROVE Progress(d)'
  BY <1>9 DEF Close
<1>10. ASSUME NEW c \in Conn, Stall(c) \/ Drain(c) \/ Vanish(c)
       PROVE  Progress(d)'
  BY <1>10 DEF Stall, Drain, Vanish, PeerMoves
<1>11. CASE UNCHANGED vars BY <1>1, <1>11 DEF vars
<1> QED
  BY <1>2, <1>3, <1>4, <1>5, <1>6, <1>7, <1>8, <1>9, <1>10, <1>11, <1>12
     DEF Next, Thread

-----------------------------------------------------------------------------
(* The safety theorems.                                                    *)

LEMMA Invariance == Spec => []IInv
<1>1. Init => IInv
  <2> SUFFICES ASSUME Init PROVE IInv
    OBVIOUS
  <2> USE ServerAssumption DEF Init
  <2>1. TypeOK BY DEF TypeOK, HoldsFd, Started
  <2>2. OwnSocket /\ Fresh /\ Bounded
    BY DEF OwnSocket, Fresh, Bounded, HoldsFd, Started
  <2>3. \A c \in Conn : Progress(c) BY DEF Progress
  <2> QED BY <2>1, <2>2, <2>3 DEF IInv
<1>2. IInv /\ [Next]_vars => IInv'
  BY TypeStep, OwnSocketStep, FreshStep, BoundedStep, ProgressStep
     DEF IInv, InStep
<1> QED BY <1>1, <1>2, PTL DEF Spec

\* The types of the threads, their descriptors and what the clients received.
THEOREM Types == Spec => []TypeOK
<1>1. IInv => TypeOK BY DEF IInv
<1> QED BY <1>1, Invariance, PTL

\* No thread sends to, or closes, the socket of another client, although
\* descriptors are used again as soon as they are closed.
THEOREM SocketsOwned == Spec => []OwnSocket
<1>1. IInv => OwnSocket BY DEF IInv
<1> QED BY <1>1, Invariance, PTL

-----------------------------------------------------------------------------
(* The refinement.                                                         *)

bStatus == [c \in Conn |-> StatusOf(pc[c])]
bGone == [c \in Conn |-> peer[c] = "gone"]

LEMMA StatusValues ==
    /\ StatusOf("unseen") = "unseen" /\ StatusOf("refused") = "refused"
    /\ StatusOf("closed") = "closed"
    /\ \A p \in HoldsFd : StatusOf(p) = "open"
BY DEF StatusOf, HoldsFd, Started

\* What changes the status of one connection only.
LEMMA StatusOnly ==
    ASSUME NEW c \in Conn, NEW p, TypeOK, pc' = [pc EXCEPT ![c] = p], peer' = peer
    PROVE  /\ bStatus' = [bStatus EXCEPT ![c] = StatusOf(p)]
           /\ bGone' = bGone
<1>1. bStatus' = [d \in Conn |-> IF d = c THEN StatusOf(p) ELSE StatusOf(pc[d])]
  BY DEF bStatus, TypeOK
<1> QED BY <1>1 DEF bStatus, bGone

\* The service does not see a thread go from one statement to the next.
LEMMA StillOpen ==
    ASSUME NEW c \in Conn, NEW p \in HoldsFd, TypeOK, pc[c] \in HoldsFd,
           pc' = [pc EXCEPT ![c] = p], peer' = peer
    PROVE  bStatus' = bStatus /\ bGone' = bGone
<1>1. bStatus' = [bStatus EXCEPT ![c] = "open"] /\ bGone' = bGone
  BY StatusOnly, StatusValues
<1>2. bStatus[c] = "open" /\ bStatus = [d \in Conn |-> StatusOf(pc[d])]
  BY StatusValues DEF bStatus
<1> QED BY <1>1, <1>2

LEMMA ServiceStutters ==
    ASSUME bStatus' = bStatus, bGone' = bGone, wire' = wire
    PROVE  UNCHANGED Service!serviceVars
BY DEF Service!serviceVars, bStatus, bGone

\* A thread that sends the segment the service says is next delivers it.
LEMMA SendDelivers ==
    ASSUME IInv, NEW c \in Conn, pc[c] \in HoldsFd,
           NEW seg \in Service!Segment, Send(fd[c], seg),
           peer[c] # "gone" => /\ seg = Service!NextSegment(wire[c])
                               /\ ~Service!Complete(wire[c]),
           bStatus' = bStatus, bGone' = bGone
    PROVE  Service!Deliver(c) \/ UNCHANGED Service!serviceVars
<1>1. CASE peer[c] = "gone"
  BY <1>1, SendsToItsClient, ServiceStutters DEF IInv
<1>2. CASE peer[c] # "gone"
  <2>1. wire' = [wire EXCEPT ![c] = Append(@, Service!NextSegment(@))]
    BY <1>2, SendsToItsClient DEF IInv
  <2>2. bStatus[c] = "open" /\ ~bGone[c]
    BY <1>2, StatusValues DEF bStatus, bGone
  <2>3. Service!Deliver(c)
    BY <1>2, <2>1, <2>2 DEF Service!Deliver, bStatus, bGone
  <2> QED BY <2>3
<1> QED BY <1>1, <1>2

\* Until the file is freed every step is a step of the service or invisible
\* to it, the failing accept() that frees it included.
LEMMA StepRefines ==
    IInv /\ [Next]_vars =>
        [fileData = "allocated" => Service!ServiceNext]_(Service!serviceVars)
<1> SUFFICES ASSUME IInv, [Next]_vars, fileData = "allocated"
             PROVE  [Service!ServiceNext]_(Service!serviceVars)
  OBVIOUS
<1> USE ServerAssumption DEF IInv
<1>1. ASSUME NEW c \in Conn, NEW f \in Fd, Accept(c, f) PROVE Service!Open(c)
  <2>1. bStatus' = [bStatus EXCEPT ![c] = "open"] /\ bGone' = bGone
    BY <1>1, StatusOnly, StatusValues DEF Accept, HoldsFd
  <2>2. bStatus[c] = "unseen" BY <1>1, StatusValues DEF Accept, bStatus
  <2> QED BY <1>1, <2>1, <2>2 DEF Service!Open, Accept, bStatus, bGone
<1>2. ASSUME NEW c \in Conn, AcceptFails(c) PROVE Service!Refuse(c)
  <2>1. bStatus' = [bStatus EXCEPT ![c] = "refused"] /\ bGone' = bGone
    BY <1>2, StatusOnly, StatusValues DEF AcceptFails, LoopEnds
  <2>2. bStatus[c] = "unseen" BY <1>2, StatusValues DEF AcceptFails, bStatus
  <2> QED BY <1>2, <2>1, <2>2 DEF Service!Refuse, AcceptFails, LoopEnds, bStatus, bGone
<1>3. ASSUME NEW c \in Conn,
             \/ PthreadCreate(c) \/ PthreadCreateFails(c)
             \/ LoopTest(c) \/ Wake(c)
      PROVE  UNCHANGED Service!serviceVars
  <2>1. PICK p \in HoldsFd : /\ pc[c] \in HoldsFd /\ pc' = [pc EXCEPT ![c] = p]
                             /\ UNCHANGED <<peer, wire>>
    BY <1>3 DEF PthreadCreate, PthreadCreateFails, LoopTest, Wake, HoldsFd, Started
  <2> QED BY <2>1, StillOpen, ServiceStutters
<1>4. ASSUME NEW c \in Conn, SendHeader(c)
      PROVE  Service!Deliver(c) \/ UNCHANGED Service!serviceVars
  <2>1. pc[c] \in HoldsFd /\ "test" \in HoldsFd /\ pc' = [pc EXCEPT ![c] = "test"]
        /\ peer' = peer /\ Send(fd[c], Service!Header)
    BY <1>4 DEF SendHeader, HoldsFd, Started
  <2>2. bStatus' = bStatus /\ bGone' = bGone BY <2>1, StillOpen
  <2>3. wire[c] = <<>> BY <1>4 DEF SendHeader, Fresh
  <2>4. /\ Service!Header = Service!NextSegment(wire[c])
        /\ ~Service!Complete(wire[c])
    BY <2>3 DEF Service!NextSegment, Service!Complete
  <2> QED BY <2>1, <2>2, <2>4, HeaderIsSegment, SendDelivers
<1>5. ASSUME NEW c \in Conn, SendChunk(c)
      PROVE  Service!Deliver(c) \/ UNCHANGED Service!serviceVars
  <2> DEFINE seg == Service!ChunkAt(offset[c])
  <2>1. pc[c] \in HoldsFd /\ "nap" \in HoldsFd /\ pc' = [pc EXCEPT ![c] = "nap"]
        /\ peer' = peer /\ pc[c] = "chunk"
    BY <1>5 DEF SendChunk, HoldsFd, Started
  <2>2. Send(fd[c], seg) /\ seg \in ChunkRead(c)
    BY <1>5 DEF SendChunk, ChunkRead
  <2>3. seg \in Service!Segment BY <2>1, <2>2, ChunkIsSegment
  <2>4. bStatus' = bStatus /\ bGone' = bGone BY <2>1, StillOpen
  <2>5. ASSUME peer[c] # "gone"
        PROVE  seg = Service!NextSegment(wire[c]) /\ ~Service!Complete(wire[c])
    <3>1. /\ wire[c] # <<>> /\ offset[c] < FileSize
          /\ Service!Received(wire[c]) = offset[c]
      BY <2>1, <2>5 DEF Progress, Bounded
    <3> QED BY <3>1 DEF Service!NextSegment, Service!Complete, TypeOK
  <2> QED BY <2>1, <2>2, <2>3, <2>4, <2>5, SendDelivers
<1>6. ASSUME NEW c \in Conn, Close(c) PROVE Service!Close(c)
  <2>1. /\ pc[c] = "test" /\ ~(offset[c] < FileSize)
        /\ pc' = [pc EXCEPT ![c] = "closed"] /\ UNCHANGED <<peer, wire>>
    BY <1>6 DEF Close, More
  <2>2. bStatus' = [bStatus EXCEPT ![c] = "closed"] /\ bGone' = bGone
    BY <2>1, StatusOnly, StatusValues
  <2>3. bStatus[c] = "open" BY <2>1, StatusValues DEF bStatus, HoldsFd, Started
  <2>4. peer[c] # "gone" => Service!Complete(wire[c])
    BY <2>1 DEF Progress, Service!Complete
  <2>5. bGone[c] \/ Service!Complete(wire[c]) BY <2>4 DEF bGone
  <2> QED BY <2>1, <2>2, <2>3, <2>5 DEF Service!Close, bStatus, bGone
<1>7. ASSUME NEW c \in Conn, Stall(c) \/ Drain(c)
      PROVE  UNCHANGED Service!serviceVars
  <2>1. UNCHANGED <<pc, wire>> BY <1>7 DEF Stall, Drain, PeerMoves
  <2>2. \A d \in Conn : (peer'[d] = "gone") <=> (peer[d] = "gone")
    BY <1>7 DEF Stall, Drain, PeerMoves, TypeOK
  <2>3. bGone' = bGone BY <2>2 DEF bGone
  <2> QED BY <2>1, <2>3, ServiceStutters DEF bStatus
<1>8. ASSUME NEW c \in Conn, Vanish(c) PROVE Service!Leave(c)
  <2>1. /\ pc[c] \in HoldsFd /\ peer[c] # "gone" /\ UNCHANGED <<pc, wire>>
        /\ peer' = [peer EXCEPT ![c] = "gone"]
    BY <1>8 DEF Vanish, PeerMoves
  <2>2. bStatus[c] = "open" /\ ~bGone[c] /\ bStatus' = bStatus
    BY <2>1, StatusValues DEF bStatus, bGone
  <2>3. \A d \in Conn : (peer'[d] = "gone") = (d = c \/ peer[d] = "gone")
    BY <2>1 DEF TypeOK
  <2>4. bGone' = [bGone EXCEPT ![c] = TRUE] BY <2>3 DEF bGone
  <2> QED BY <2>1, <2>2, <2>4 DEF Service!Leave, bStatus, bGone
<1>9. CASE UNCHANGED vars
  BY <1>9, ServiceStutters DEF vars, bStatus, bGone
<1>10. ASSUME ListenerFails PROVE UNCHANGED Service!serviceVars
  BY <1>10, ServiceStutters DEF ListenerFails, LoopEnds, bStatus, bGone
<1> QED
  BY <1>1, <1>2, <1>3, <1>4, <1>5, <1>6, <1>7, <1>8, <1>9, <1>10
     DEF Next, Thread, Service!ServiceNext

LEMMA InitRefines == Init => Service!ServiceInit
BY DEF Init, Service!ServiceInit, StatusOf

\* Until accept() fails and the file is freed, the threads implement the file
\* service, whatever their interleaving.
THEOREM Refinement == Spec => ImplementsWhileAllocated
BY InitRefines, Invariance, StepRefines, PTL DEF Spec, ImplementsWhileAllocated

-----------------------------------------------------------------------------
(* What is proved of the service holds of the server until then.           *)

Proved ==
    INSTANCE FileServiceProofs WITH
        status <- [c \in Conn |-> StatusOf(pc[c])],
        gone <- [c \in Conn |-> peer[c] = "gone"]

\* While the file is allocated every client has received the header and a
\* prefix of it, in order, and was closed only with all of it.
PromiseWhileAllocated ==
    fileData = "allocated" => Service!InOrder /\ Service!ClosedComplete

THEOREM ServicePromise == Spec => []PromiseWhileAllocated
<1> DEFINE P == fileData = "allocated" => Proved!ServiceInv
<1>1. Proved!Parameters BY ServerAssumption DEF Proved!Parameters
<1>2. Init => P
  <2>1. Service!ServiceInit => Proved!ServiceInit
    BY DEF Service!ServiceInit, Proved!ServiceInit
  <2> QED BY <1>1, <2>1, InitRefines, Proved!ServiceBegins
<1>3. IInv /\ P /\ [Next]_vars => P'
  <2> SUFFICES ASSUME IInv, P, [Next]_vars, fileData' = "allocated"
               PROVE  Proved!ServiceInv'
    OBVIOUS
  <2>1. fileData = "allocated"
    BY DEF Next, Accept, PthreadCreate, PthreadCreateFails, AcceptFails,
           ListenerFails, LoopEnds, Thread, SendHeader, LoopTest, SendChunk, Wake, Close,
           Stall, Drain, Vanish, PeerMoves, vars
  <2>2. [Service!ServiceNext]_(Service!serviceVars) BY <2>1, StepRefines
  <2>3. [Proved!ServiceNext]_(Proved!serviceVars)
    BY <2>2
       DEF Service!ServiceNext, Service!serviceVars,
           Service!Open, Service!Refuse, Service!Deliver, Service!Leave,
           Service!Close, Service!NextSegment, Service!Header, Service!ChunkAt,
           Service!Received, Service!End, Service!Complete,
           Proved!ServiceNext, Proved!serviceVars,
           Proved!Open, Proved!Refuse, Proved!Deliver, Proved!Leave,
           Proved!Close, Proved!NextSegment, Proved!Header, Proved!ChunkAt,
           Proved!Received, Proved!End, Proved!Complete
  <2> QED BY <1>1, <2>1, <2>3, Proved!ServiceStep
<1>4. P => PromiseWhileAllocated
  BY DEF PromiseWhileAllocated, Proved!ServiceInv,
         Service!InOrder, Service!Tiles, Service!Header, Service!End,
         Service!Received, Proved!InOrder, Proved!Tiles, Proved!Header,
         Proved!End, Proved!Received, Service!ClosedComplete,
         Service!Complete, Proved!ClosedComplete, Proved!Complete
<1> QED BY <1>2, <1>3, <1>4, Invariance, PTL DEF Spec

=============================================================================
