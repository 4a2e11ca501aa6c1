------------------------ MODULE CoroutineServerProofs ------------------------
(***************************************************************************)
(* For any number of clients and descriptors, any file, chunk and delay:   *)
(* the safety properties of CoroutineServer, from its inductive invariant, *)
(* and that it implements FileService.                                     *)
(***************************************************************************)
EXTENDS CoroutineServer, TLAPS

-----------------------------------------------------------------------------
(* Types.                                                                  *)

\* A step of the worker thread or of the clock keeps the loop's types.
LEMMA LoopTypes ==
    ASSUME LoopTypeOK, WorkerStep \/ WakeSpuriously \/ Tick
    PROVE  LoopTypeOK'
<1> USE LoopAssumption DEF LoopTypeOK, ScheduledTask
<1>1. CASE CheckRunning BY <1>1 DEF CheckRunning
<1>2. CASE TakeImmediate BY <1>2 DEF TakeImmediate
<1>3. CASE TakeDue BY <1>3 DEF TakeDue, Earliest
<1>4. CASE Sleep
  <2>1. alarm' \in Int BY <1>4 DEF Sleep, Earliest
  <2>2. worker' \in {"check", "wait", "waitUntil"} /\ signalled' = FALSE
    BY <1>4 DEF Sleep
  <2> QED BY <1>4, <2>1, <2>2, Zenon DEF Sleep
<1>5. CASE WakeNotified \/ WakeOnTime \/ WakeSpuriously
  <2>1. alarm' \in Int
    BY <1>5 DEF WakeNotified, WakeOnTime, WakeSpuriously, LeaveSleep
  <2>2. worker' \in {"check", worker} /\ signalled' = FALSE
    BY <1>5, Zenon DEF WakeNotified, WakeOnTime, WakeSpuriously, LeaveSleep
  <2>3. UNCHANGED <<immediate, scheduled, running, current>>
    BY <1>5 DEF WakeNotified, WakeOnTime, WakeSpuriously, LeaveSleep
  <2> QED BY <2>1, <2>2, <2>3, Zenon
<1>6. CASE Tick BY <1>6 DEF Tick
<1> QED BY <1>1, <1>2, <1>3, <1>4, <1>5, <1>6 DEF WorkerStep

\* One pass of the for loop's head keeps the types of what it changes.
LEMMA LoopHeadTypes ==
    ASSUME TypeOK, NEW c \in Conn, Live(c), NEW off \in Nat, LoopHead(c, off)
    PROVE  /\ pc' \in [Conn -> {"unseen", "refused", "header", "chunk", "nap", "closed"}]
           /\ offset' \in [Conn -> Nat]
           /\ sock' \in [Fd -> Conn \cup {None}]
           /\ immediate' \in Seq(Task)
           /\ scheduled' = scheduled
<1> USE ServerAssumption DEF TypeOK, LoopTypeOK
<1>1. CASE AwaitSend(c, off) BY <1>1 DEF AwaitSend, Push
<1>2. CASE CloseSocket(c) BY <1>2 DEF CloseSocket
<1> QED BY <1>1, <1>2 DEF LoopHead

\* send() keeps the types when what it sends is a segment.
LEMMA SendTypes ==
    ASSUME TypeOK, NEW f \in Fd, NEW seg \in Service!Segment, Send(f, seg)
    PROVE  /\ wire' \in [Conn -> Seq(Service!Segment)]
           /\ since' \in [Conn -> 0..Delay]
<1> USE ServerAssumption DEF TypeOK
<1> DEFINE c == sock[f]
<1>1. CASE c = None \/ peer[c] = "gone" BY <1>1 DEF Send
<1>2. CASE ~(c = None \/ peer[c] = "gone")
  <2>1. c \in Conn BY <1>2
  <2>2. /\ wire' = [wire EXCEPT ![c] = Append(@, seg)]
        /\ since' = [since EXCEPT ![c] = 0]
    BY <1>2 DEF Send
  <2>3. Append(wire[c], seg) \in Seq(Service!Segment) BY <2>1
  <2>4. wire' \in [Conn -> Seq(Service!Segment)] BY <2>1, <2>2, <2>3
  <2>5. since' \in [Conn -> 0..Delay] BY <2>1, <2>2
  <2> QED BY <2>4, <2>5
<1> QED BY <1>1, <1>2

-----------------------------------------------------------------------------
(* The conjuncts of IInv, one after the other.                             *)

\* What a coroutine sends is a segment.
LEMMA OutgoingIsSegment ==
    ASSUME TypeOK, Bounded, NEW c \in Conn, pc[c] \in {"header", "chunk"}
    PROVE  Outgoing(c) \in Service!Segment
BY ServerAssumption
   DEF TypeOK, Bounded, Outgoing, Service!Segment, Service!Header, Service!ChunkAt

LEMMA TypeStep == IInv /\ [Next]_vars => TypeOK'
<1> SUFFICES ASSUME IInv, [Next]_vars PROVE TypeOK'
  OBVIOUS
<1> USE LoopAssumption, ServerAssumption DEF IInv, TypeOK
<1>1. ASSUME NEW c \in Conn, NEW f \in Fd, Accept(c, f) PROVE TypeOK'
  BY <1>1 DEF Accept, Push, LoopTypeOK
<1>2. ASSUME NEW c \in Conn, AcceptFails(c) PROVE TypeOK'
  BY <1>2 DEF AcceptFails, loopVars, LoopTypeOK
<1>3. CASE AcceptNotify
  <2>1. signalled' \in BOOLEAN BY <1>3 DEF AcceptNotify, Notify, Asleep
  <2> QED BY <1>3, <2>1 DEF AcceptNotify, LoopTypeOK
<1>4. ASSUME NEW c \in Conn, RunSend(c) PROVE TypeOK'
  <2>1. Live(c) /\ fd[c] \in Fd BY <1>4 DEF RunSend, OwnSocket, Live
  <2>2. /\ wire' \in [Conn -> Seq(Service!Segment)]
        /\ since' \in [Conn -> 0..Delay]
    BY <1>4, <2>1, SendTypes, OutgoingIsSegment DEF RunSend
  <2>3. CASE LoopHead(c, 0)
    BY <1>4, <2>1, <2>2, <2>3, LoopHeadTypes DEF RunSend, FinishTask, LoopTypeOK
  <2>4. CASE AwaitSleep(c)
    <3>1. scheduled' \in SUBSET ScheduledTask
      BY <2>4 DEF AwaitSleep, PushDelayed, ScheduledTask, LoopTypeOK
    <3> QED
      BY <1>4, <2>2, <2>4, <3>1 DEF RunSend, FinishTask, AwaitSleep, LoopTypeOK
  <2> QED BY <1>4, <2>3, <2>4 DEF RunSend
<1>5. ASSUME NEW c \in Conn, RunWake(c) PROVE TypeOK'
  <2>1. Live(c) /\ offset[c] + ChunkSize \in Nat BY <1>5 DEF RunWake, Live
  <2> QED BY <1>5, <2>1, LoopHeadTypes DEF RunWake, FinishTask, LoopTypeOK
<1>6. CASE Worker
  BY <1>6, LoopTypes DEF Worker, serverVars
<1>7. CASE Clock
  <2>1. LoopTypeOK' BY <1>7, LoopTypes DEF Clock
  <2>2. since' \in [Conn -> 0..Delay] BY <1>7 DEF Clock
  <2> QED BY <1>7, <2>1, <2>2 DEF Clock
<1>8. ASSUME NEW c \in Conn, Stall(c) \/ Drain(c) \/ Vanish(c) PROVE TypeOK'
  BY <1>8 DEF Stall, Drain, Vanish, PeerMoves, loopVars, LoopTypeOK
<1>9. CASE UNCHANGED vars
  BY <1>9 DEF vars, loopVars, serverVars, LoopTypeOK
<1> QED BY <1>1, <1>2, <1>3, <1>4, <1>5, <1>6, <1>7, <1>8, <1>9 DEF Next

\* The offset stays inside the file while the loop goes on.
LEMMA BoundedStep == IInv /\ [Next]_vars => Bounded'
<1> SUFFICES ASSUME IInv, [Next]_vars PROVE Bounded'
  OBVIOUS
<1> USE ServerAssumption DEF IInv, TypeOK, Bounded
<1>1. ASSUME NEW c \in Conn, NEW f \in Fd, Accept(c, f) PROVE Bounded'
  BY <1>1 DEF Accept
<1>2. ASSUME NEW c \in Conn, AcceptFails(c) PROVE Bounded'
  BY <1>2 DEF AcceptFails
<1>3. ASSUME NEW c \in Conn, RunSend(c) PROVE Bounded'
  BY <1>3 DEF RunSend, LoopHead, AwaitSend, AwaitSleep, CloseSocket
<1>4. ASSUME NEW c \in Conn, RunWake(c) PROVE Bounded'
  BY <1>4 DEF RunWake, LoopHead, AwaitSend, CloseSocket
<1>5. CASE UNCHANGED <<pc, offset>> BY <1>5
<1>6. CASE AcceptNotify \/ Worker \/ Clock \/ UNCHANGED vars
  BY <1>5, <1>6 DEF AcceptNotify, Worker, Clock, serverVars, vars
<1>7. ASSUME NEW c \in Conn, Stall(c) \/ Drain(c) \/ Vanish(c) PROVE Bounded'
  BY <1>5, <1>7 DEF Stall, Drain, Vanish, PeerMoves
<1> QED BY <1>1, <1>2, <1>3, <1>4, <1>6, <1>7 DEF Next

\* The worker holds a task exactly while it is in "run".
LEMMA WorkingStep == IInv /\ [Next]_vars => Working'
<1> SUFFICES ASSUME IInv, [Next]_vars PROVE Working'
  OBVIOUS
<1> USE LoopAssumption, ServerAssumption DEF IInv, Working
<1>1. CASE UNCHANGED <<worker, current>> BY <1>1
<1>2. ASSUME NEW c \in Conn, NEW f \in Fd, Accept(c, f) PROVE Working'
  BY <1>1, <1>2 DEF Accept
<1>3. ASSUME NEW c \in Conn, AcceptFails(c) PROVE Working'
  BY <1>1, <1>3 DEF AcceptFails, loopVars
<1>4. ASSUME NEW c \in Conn, RunSend(c) \/ RunWake(c) PROVE Working'
  BY <1>4 DEF RunSend, RunWake, FinishTask
<1>5. CASE Worker
  <2>1. CASE TakeImmediate
    <3>1. current' \in Task BY <2>1 DEF TakeImmediate, TypeOK, LoopTypeOK
    <3> QED BY <2>1, <3>1 DEF TakeImmediate
  <2>2. CASE TakeDue
    <3>1. current' \in Task
      BY <2>2 DEF TakeDue, Earliest, TypeOK, LoopTypeOK, ScheduledTask
    <3> QED BY <2>2, <3>1 DEF TakeDue
  <2>3. CASE CheckRunning BY <2>3 DEF CheckRunning
  <2>4. CASE Sleep
    <3>1. worker' \in {"check", "wait", "waitUntil"} BY <2>4, Zenon DEF Sleep
    <3> QED BY <2>4, <3>1 DEF Sleep
  <2>5. CASE WakeNotified \/ WakeOnTime \/ WakeSpuriously
    BY <2>5 DEF WakeNotified, WakeOnTime, WakeSpuriously, LeaveSleep, Asleep
  <2> QED BY <1>5, <2>1, <2>2, <2>3, <2>4, <2>5 DEF Worker, WorkerStep
<1>6. CASE AcceptNotify \/ Clock \/ UNCHANGED vars
  BY <1>1, <1>6 DEF AcceptNotify, Clock, Tick, loopVars, vars
<1>7. ASSUME NEW c \in Conn, Stall(c) \/ Drain(c) \/ Vanish(c) PROVE Working'
  BY <1>1, <1>7 DEF Stall, Drain, Vanish, PeerMoves, loopVars
<1> QED BY <1>2, <1>3, <1>4, <1>5, <1>6, <1>7 DEF Next

\* A descriptor belongs to one live coroutine.
LEMMA OwnSocketStep == IInv /\ [Next]_vars => OwnSocket'
<1> SUFFICES ASSUME IInv, [Next]_vars PROVE OwnSocket'
  OBVIOUS
<1> USE LoopAssumption, ServerAssumption DEF IInv, TypeOK, OwnSocket, Live
<1>1. CASE UNCHANGED <<pc, fd, sock>> BY <1>1
<1>2. ASSUME NEW c \in Conn, NEW f \in Fd, Accept(c, f) PROVE OwnSocket'
  BY <1>2 DEF Accept
<1>3. ASSUME NEW c \in Conn, AcceptFails(c) PROVE OwnSocket'
  BY <1>3 DEF AcceptFails
<1>4. ASSUME NEW c \in Conn, RunSend(c) \/ RunWake(c) PROVE OwnSocket'
  <2>1. Live(c) /\ fd' = fd BY <1>4 DEF RunSend, RunWake
  <2>2. CASE CloseSocket(c) BY <2>1, <2>2 DEF CloseSocket
  <2>3. ASSUME NEW off, AwaitSend(c, off) PROVE OwnSocket'
    BY <2>1, <2>3 DEF AwaitSend
  <2>4. CASE AwaitSleep(c) BY <2>1, <2>4 DEF AwaitSleep
  <2> QED BY <1>4, <2>2, <2>3, <2>4 DEF RunSend, RunWake, LoopHead
<1>5. CASE AcceptNotify \/ Worker \/ Clock \/ UNCHANGED vars
  BY <1>1, <1>5 DEF AcceptNotify, Worker, Clock, serverVars, vars
<1>6. ASSUME NEW c \in Conn, Stall(c) \/ Drain(c) \/ Vanish(c) PROVE OwnSocket'
  BY <1>1, <1>6 DEF Stall, Drain, Vanish, PeerMoves
<1> QED BY <1>2, <1>3, <1>4, <1>5, <1>6 DEF Next

\* The worker sleeps without a limit only when no timer runs, and never past
\* the earliest one: timers are added by the worker itself, so not while it
\* sleeps.
LEMMA NeverOversleepsStep == IInv /\ [Next]_vars => NeverOversleeps'
<1> SUFFICES ASSUME IInv, [Next]_vars PROVE NeverOversleeps'
  OBVIOUS
<1> USE LoopAssumption, ServerAssumption DEF IInv, NeverOversleeps
<1>1. CASE UNCHANGED <<worker, scheduled, alarm>> BY <1>1
<1>2. ASSUME NEW c \in Conn, NEW f \in Fd, Accept(c, f) PROVE NeverOversleeps'
  BY <1>1, <1>2 DEF Accept
<1>3. ASSUME NEW c \in Conn, AcceptFails(c) PROVE NeverOversleeps'
  BY <1>1, <1>3 DEF AcceptFails, loopVars
<1>4. ASSUME NEW c \in Conn, RunSend(c) \/ RunWake(c) PROVE NeverOversleeps'
  BY <1>4 DEF RunSend, RunWake, FinishTask
<1>5. CASE Worker
  <2>1. CASE CheckRunning BY <2>1 DEF CheckRunning
  <2>2. CASE TakeImmediate BY <2>2 DEF TakeImmediate
  <2>3. CASE TakeDue BY <2>3 DEF TakeDue
  <2>4. CASE Sleep
    <3>1. CASE MayGoOn BY <2>4, <3>1 DEF Sleep
    <3>2. CASE ~MayGoOn /\ scheduled = {} BY <2>4, <3>2 DEF Sleep
    <3>3. CASE ~MayGoOn /\ scheduled # {}
      <4>1. worker' = "waitUntil" /\ scheduled' = scheduled
        BY <2>4, <3>3 DEF Sleep
      <4>2. \E e \in Earliest : alarm' = e.left BY <2>4, <3>3 DEF Sleep
      <4>3. \A e \in scheduled : alarm' <= e.left BY <4>2 DEF Earliest
      <4> QED BY <3>3, <4>1, <4>3
    <3> QED BY <3>1, <3>2, <3>3
  <2>5. CASE WakeNotified \/ WakeOnTime \/ WakeSpuriously
    BY <2>5 DEF WakeNotified, WakeOnTime, WakeSpuriously, LeaveSleep
  <2> QED BY <1>5, <2>1, <2>2, <2>3, <2>4, <2>5 DEF Worker, WorkerStep
<1>6. CASE Clock
  <2>1. \A e \in scheduled : e.left \in Int
    BY DEF TypeOK, LoopTypeOK, ScheduledTask
  <2>2. alarm \in Int BY DEF TypeOK, LoopTypeOK
  <2>3. /\ worker' = worker /\ scheduled # {}
        /\ scheduled' = {[task |-> e.task, left |-> e.left - 1] : e \in scheduled}
        /\ worker = "waitUntil" => alarm' = alarm - 1
    BY <1>6 DEF Clock, Tick
  <2>4. worker = "waitUntil" => \A e \in scheduled' : alarm' <= e.left
    BY <2>1, <2>2, <2>3
  <2>5. scheduled' # {} BY <2>3
  <2> QED BY <2>3, <2>4, <2>5
<1>7. CASE AcceptNotify \/ UNCHANGED vars
  BY <1>1, <1>7 DEF AcceptNotify, loopVars, vars
<1>8. ASSUME NEW c \in Conn, Stall(c) \/ Drain(c) \/ Vanish(c)
      PROVE  NeverOversleeps'
  BY <1>1, <1>8 DEF Stall, Drain, Vanish, PeerMoves, loopVars
<1> QED BY <1>2, <1>3, <1>4, <1>5, <1>6, <1>7, <1>8 DEF Next

\* A task pushed while the worker sleeps comes with a notification.
LEMMA NoLostWakeupStep == IInv /\ [Next]_vars => NoLostWakeup'
<1> SUFFICES ASSUME IInv, [Next]_vars PROVE NoLostWakeup'
  OBVIOUS
<1> USE LoopAssumption, ServerAssumption DEF IInv, NoLostWakeup, Asleep
<1>1. CASE UNCHANGED <<worker, immediate, signalled, acceptor>> BY <1>1
<1>2. ASSUME NEW c \in Conn, NEW f \in Fd, Accept(c, f) PROVE NoLostWakeup'
  BY <1>2 DEF Accept
<1>3. ASSUME NEW c \in Conn, AcceptFails(c) PROVE NoLostWakeup'
  BY <1>1, <1>3 DEF AcceptFails, loopVars
<1>4. ASSUME NEW c \in Conn, RunSend(c) \/ RunWake(c) PROVE NoLostWakeup'
  BY <1>4 DEF RunSend, RunWake, FinishTask
<1>5. CASE Worker
  <2>1. CASE CheckRunning BY <2>1 DEF CheckRunning
  <2>2. CASE TakeImmediate BY <2>2 DEF TakeImmediate
  <2>3. CASE TakeDue BY <2>3 DEF TakeDue
  <2>4. CASE Sleep BY <2>4 DEF Sleep
  <2>5. CASE WakeNotified BY <1>5, <2>5 DEF WakeNotified, LeaveSleep, MayGoOn
  <2>6. CASE WakeOnTime \/ WakeSpuriously
    BY <2>6 DEF WakeOnTime, WakeSpuriously, LeaveSleep
  <2> QED BY <1>5, <2>1, <2>2, <2>3, <2>4, <2>5, <2>6 DEF Worker, WorkerStep
<1>6. CASE AcceptNotify BY <1>6 DEF AcceptNotify, Notify
<1>7. CASE Clock \/ UNCHANGED vars
  BY <1>1, <1>7 DEF Clock, Tick, loopVars, serverVars, vars
<1>8. ASSUME NEW c \in Conn, Stall(c) \/ Drain(c) \/ Vanish(c)
      PROVE  NoLostWakeup'
  BY <1>1, <1>8 DEF Stall, Drain, Vanish, PeerMoves, loopVars
<1> QED BY <1>2, <1>3, <1>4, <1>5, <1>6, <1>7, <1>8 DEF Next

(* Where a coroutine's resumption is, with the quantifiers named.          *)

NoRepeats(q) == \A i, j \in 1..Len(q) : q[i] = q[j] => i = j
Has(q, c) == \E i \in 1..Len(q) : q[i] = c
OneTimer(s) == \A e1, e2 \in s : e1.task = e2.task => e1 = e2
Timed(s, c) == \E e \in s : e.task = c

\* Pushing what is not queued keeps the queue free of repetitions, and adds
\* only it.
LEMMA PushUnique ==
    ASSUME NEW q \in Seq(Conn), NEW x \in Conn, NoRepeats(q), ~Has(q, x)
    PROVE  /\ NoRepeats(Append(q, x))
           /\ \A c : Has(Append(q, x), c) <=> c = x \/ Has(q, c)
<1> DEFINE r == Append(q, x)
<1>1. /\ Len(q) \in Nat /\ Len(r) = Len(q) + 1
      /\ r[Len(q) + 1] = x /\ \A i \in 1..Len(q) : r[i] = q[i]
  OBVIOUS
<1>2. \A i \in 1..Len(r) : i \in 1..Len(q) \/ i = Len(q) + 1 BY <1>1
<1> HIDE DEF r
<1>3. NoRepeats(r)
  <2> SUFFICES ASSUME NEW i \in 1..Len(r), NEW j \in 1..Len(r), r[i] = r[j]
               PROVE  i = j
    BY DEF NoRepeats
  <2>1. CASE i \in 1..Len(q) /\ j \in 1..Len(q) BY <1>1, <2>1 DEF NoRepeats
  <2>2. CASE i = Len(q) + 1 /\ j \in 1..Len(q) BY <1>1, <2>2 DEF Has
  <2>3. CASE i \in 1..Len(q) /\ j = Len(q) + 1 BY <1>1, <2>3 DEF Has
  <2> QED BY <1>2, <2>1, <2>2, <2>3
<1>4. ASSUME NEW c PROVE Has(r, c) <=> c = x \/ Has(q, c)
  BY <1>1, <1>2 DEF Has
<1> QED BY <1>3, <1>4 DEF r

\* Popping keeps it so too, and removes only the head.
LEMMA PopUnique ==
    ASSUME NEW q \in Seq(Conn), q # <<>>, NoRepeats(q)
    PROVE  /\ Head(q) \in Conn /\ Has(q, Head(q))
           /\ NoRepeats(Tail(q))
           /\ \A c : Has(Tail(q), c) <=> c # Head(q) /\ Has(q, c)
<1> DEFINE r == Tail(q)
<1>1. /\ Len(q) \in Nat \ {0} /\ Len(r) = Len(q) - 1
      /\ Head(q) = q[1] /\ Head(q) \in Conn
      /\ \A i \in 1..Len(r) : r[i] = q[i + 1]
  OBVIOUS
<1> HIDE DEF r
<1>2. NoRepeats(r)
  <2> SUFFICES ASSUME NEW i \in 1..Len(r), NEW j \in 1..Len(r), r[i] = r[j]
               PROVE  i = j
    BY DEF NoRepeats
  <2>1. i + 1 \in 1..Len(q) /\ j + 1 \in 1..Len(q) /\ q[i + 1] = q[j + 1]
    BY <1>1
  <2>2. i + 1 = j + 1 BY <2>1 DEF NoRepeats
  <2> QED BY <2>2
<1>3. ASSUME NEW c, NEW i \in 1..Len(r), r[i] = c
      PROVE  c # q[1] /\ Has(q, c)
  <2>1. i + 1 \in 1..Len(q) /\ i + 1 # 1 /\ q[i + 1] = c /\ 1 \in 1..Len(q)
    BY <1>1, <1>3
  <2> QED BY <2>1 DEF NoRepeats, Has
<1>4. ASSUME NEW c, c # q[1], NEW k \in 1..Len(q), q[k] = c
      PROVE  Has(r, c)
  <2>1. k - 1 \in 1..Len(r) /\ r[k - 1] = q[(k - 1) + 1] BY <1>1, <1>4
  <2> QED BY <1>1, <1>4, <2>1 DEF Has
<1>5. Has(q, Head(q)) BY <1>1 DEF Has
<1>6. \A c : Has(r, c) <=> c # Head(q) /\ Has(q, c)
  BY <1>1, <1>3, <1>4 DEF Has
<1> QED BY <1>1, <1>2, <1>5, <1>6 DEF r

\* Resetting a timer's remaining time does not change which there are.
LEMMA TickTimers ==
    ASSUME NEW s \in SUBSET ScheduledTask, OneTimer(s), NEW t,
           t = {[task |-> e.task, left |-> e.left - 1] : e \in s}
    PROVE  OneTimer(t) /\ \A c : Timed(t, c) <=> Timed(s, c)
<1>1. \A e \in t : \E d \in s : e = [task |-> d.task, left |-> d.left - 1]
  OBVIOUS
<1>2. ASSUME NEW d \in s PROVE \E e \in t : e.task = d.task
  <2> DEFINE e == [task |-> d.task, left |-> d.left - 1]
  <2>1. e \in t /\ e.task = d.task OBVIOUS
  <2> QED BY <2>1
<1>3. \A e \in t : \E d \in s : e.task = d.task BY <1>1
<1>4. ASSUME NEW e1 \in t, NEW e2 \in t, e1.task = e2.task PROVE e1 = e2
  <2>1. PICK d1 \in s : e1 = [task |-> d1.task, left |-> d1.left - 1] BY <1>1
  <2>2. PICK d2 \in s : e2 = [task |-> d2.task, left |-> d2.left - 1] BY <1>1
  <2>3. d1 = d2 BY <1>4, <2>1, <2>2 DEF OneTimer
  <2> QED BY <2>1, <2>2, <2>3
<1> QED BY <1>2, <1>3, <1>4 DEF OneTimer, Timed

Placed(c) ==
    /\ Has(immediate, c) => pc[c] \in {"header", "chunk"} /\ current # c
    /\ Timed(scheduled, c) => pc[c] = "nap" /\ current # c
    /\ current = c => Live(c)
    /\ Live(c) => Has(immediate, c) \/ Timed(scheduled, c) \/ current = c

Resumptions ==
    /\ NoRepeats(immediate)
    /\ OneTimer(scheduled)
    /\ \A c \in Conn : Placed(c)

LEMMA Restated == OneResumption <=> Resumptions
<1>1. ASSUME NEW c \in Conn PROVE Queued(c) # {} <=> Has(immediate, c)
  BY DEF Queued, Has
<1>2. ASSUME NEW c \in Conn PROVE Timers(c) # {} <=> Timed(scheduled, c)
  BY DEF Timers, Timed
<1> QED
  BY <1>1, <1>2, Zenon DEF OneResumption, Resumptions, Placed, NoRepeats, OneTimer

\* A suspended coroutine is in exactly one of the queue, the heap and the
\* worker's hands.
LEMMA OneResumptionStep == IInv /\ [Next]_vars => OneResumption'
<1> SUFFICES ASSUME IInv, [Next]_vars PROVE Resumptions'
  BY Restated, PTL
<1> USE LoopAssumption, ServerAssumption DEF Resumptions, Placed, Live
<1>0. /\ Resumptions /\ Working
      /\ immediate \in Seq(Conn) /\ scheduled \in SUBSET ScheduledTask
      /\ pc \in [Conn -> {"unseen", "refused", "header", "chunk", "nap", "closed"}]
      /\ current \in Conn \cup {None}
  BY Restated DEF IInv, TypeOK, LoopTypeOK
<1>1. CASE UNCHANGED <<immediate, scheduled, current, pc>> BY <1>0, <1>1
<1>2. ASSUME NEW c \in Conn, NEW f \in Fd, Accept(c, f) PROVE Resumptions'
  <2>1. ~Has(immediate, c) BY <1>0, <1>2 DEF Accept
  <2>2. /\ immediate' = Append(immediate, c)
        /\ pc' = [pc EXCEPT ![c] = "header"]
        /\ scheduled' = scheduled /\ current' = current /\ current # c
    BY <1>0, <1>2 DEF Accept, Push
  <2>3. /\ NoRepeats(immediate')
        /\ \A d : Has(immediate', d) <=> d = c \/ Has(immediate, d)
    BY <1>0, <2>1, <2>2, PushUnique
  <2>4. ASSUME NEW d \in Conn PROVE Placed(d)'
    <3>1. CASE d = c BY <1>0, <1>2, <2>2, <2>3, <3>1 DEF Accept
    <3>2. CASE d # c BY <1>0, <2>2, <2>3, <3>2
    <3> QED BY <3>1, <3>2
  <2> QED BY <1>0, <2>2, <2>3, <2>4
<1>3. ASSUME NEW c \in Conn, AcceptFails(c) PROVE Resumptions'
  BY <1>0, <1>3 DEF AcceptFails, loopVars
<1>4. ASSUME NEW c \in Conn, RunSend(c) \/ RunWake(c) PROVE Resumptions'
  <2>1. /\ current = c /\ current' = None
        /\ ~Has(immediate, c) /\ ~Timed(scheduled, c)
    BY <1>0, <1>4 DEF RunSend, RunWake, FinishTask
  <2>2. ASSUME NEW off, AwaitSend(c, off) PROVE Resumptions'
    <3>1. /\ immediate' = Append(immediate, c) /\ scheduled' = scheduled
          /\ pc' = [pc EXCEPT ![c] = "chunk"]
      BY <2>2 DEF AwaitSend, Push
    <3>2. /\ NoRepeats(immediate')
          /\ \A d : Has(immediate', d) <=> d = c \/ Has(immediate, d)
      BY <1>0, <2>1, <3>1, PushUnique
    <3> QED BY <1>0, <2>1, <3>1, <3>2
  <2>3. CASE AwaitSleep(c)
    <3> DEFINE e == [task |-> c, left |-> Delay]
    <3>1. /\ immediate' = immediate /\ scheduled' = scheduled \cup {e}
          /\ pc' = [pc EXCEPT ![c] = "nap"]
      BY <2>3 DEF AwaitSleep, PushDelayed
    <3>2. e.task = c OBVIOUS
    <3> HIDE DEF e
    <3>3. /\ OneTimer(scheduled')
          /\ \A d : Timed(scheduled', d) <=> d = c \/ Timed(scheduled, d)
      BY <1>0, <2>1, <3>1, <3>2 DEF OneTimer, Timed
    <3> QED BY <1>0, <2>1, <3>1, <3>3
  <2>4. CASE CloseSocket(c) BY <1>0, <2>1, <2>4 DEF CloseSocket
  <2> QED BY <1>4, <2>2, <2>3, <2>4 DEF RunSend, RunWake, LoopHead
<1>5. CASE Worker
  <2>1. CASE TakeImmediate
    <3>1. /\ immediate # <<>> /\ current = None /\ scheduled' = scheduled
          /\ current' = Head(immediate) /\ immediate' = Tail(immediate)
          /\ pc' = pc
      BY <1>0, <1>5, <2>1 DEF TakeImmediate, Working, Worker, serverVars
    <3>2. /\ current' \in Conn /\ Has(immediate, current')
          /\ NoRepeats(immediate')
          /\ \A d : Has(immediate', d) <=> d # current' /\ Has(immediate, d)
      BY <1>0, <3>1, PopUnique
    <3> QED BY <1>0, <3>1, <3>2
  <2>2. CASE TakeDue
    <3>1. PICK e \in scheduled : current' = e.task /\ scheduled' = scheduled \ {e}
      BY <2>2 DEF TakeDue, Earliest
    <3>2. current = None /\ immediate' = immediate /\ pc' = pc /\ e.task \in Conn
      BY <1>0, <1>5, <2>2 DEF TakeDue, Working, Worker, serverVars, ScheduledTask
    <3>3. /\ OneTimer(scheduled') /\ Timed(scheduled, current')
          /\ \A d : Timed(scheduled', d) <=> d # current' /\ Timed(scheduled, d)
      BY <1>0, <3>1 DEF OneTimer, Timed
    <3> QED BY <1>0, <3>1, <3>2, <3>3
  <2>3. CASE CheckRunning \/ Sleep \/ WakeNotified \/ WakeOnTime \/ WakeSpuriously
    <3>1. UNCHANGED <<immediate, scheduled, current>>
      BY <2>3 DEF CheckRunning, Sleep, WakeNotified, WakeOnTime, WakeSpuriously,
                  LeaveSleep
    <3> QED BY <1>1, <1>5, <3>1 DEF Worker, serverVars
  <2> QED BY <1>5, <2>1, <2>2, <2>3 DEF Worker, WorkerStep
<1>6. CASE Clock
  <2>1. /\ UNCHANGED <<immediate, current, pc>>
        /\ scheduled' = {[task |-> e.task, left |-> e.left - 1] : e \in scheduled}
    BY <1>6 DEF Clock, Tick
  <2>2. OneTimer(scheduled') /\ \A d : Timed(scheduled', d) <=> Timed(scheduled, d)
    BY <1>0, <2>1, TickTimers
  <2> QED BY <1>0, <2>1, <2>2
<1>7. CASE AcceptNotify \/ UNCHANGED vars
  BY <1>1, <1>7 DEF AcceptNotify, loopVars, serverVars, vars
<1>8. ASSUME NEW c \in Conn, Stall(c) \/ Drain(c) \/ Vanish(c)
      PROVE  Resumptions'
  BY <1>1, <1>8 DEF Stall, Drain, Vanish, PeerMoves, loopVars
<1> QED BY <1>2, <1>3, <1>4, <1>5, <1>6, <1>7, <1>8 DEF Next

-----------------------------------------------------------------------------
(* What the clients receive.                                               *)

\* A coroutine that sends reaches its own client, unless that client is gone.
LEMMA SendsToItsClient ==
    ASSUME TypeOK, OwnSocket, NEW c \in Conn, RunSend(c)
    PROVE  \/ peer[c] = "gone" /\ UNCHANGED <<wire, since>>
           \/ /\ peer[c] = "reading"
              /\ wire' = [wire EXCEPT ![c] = Append(@, Outgoing(c))]
              /\ since' = [since EXCEPT ![c] = 0]
<1>1. sock[fd[c]] = c /\ c # None
  BY LoopAssumption, ServerAssumption DEF RunSend, OwnSocket, Live
<1> QED BY <1>1 DEF RunSend, Send

LEMMA FreshStep == IInv /\ [Next]_vars => Fresh'
<1> SUFFICES ASSUME IInv, [Next]_vars PROVE Fresh'
  OBVIOUS
<1> USE DEF IInv, TypeOK, Fresh
<1>1. CASE UNCHANGED <<pc, wire>> BY <1>1
<1>2. ASSUME NEW c \in Conn, NEW f \in Fd, Accept(c, f) PROVE Fresh'
  BY <1>2 DEF Accept
<1>3. ASSUME NEW c \in Conn, AcceptFails(c) PROVE Fresh'
  BY <1>3 DEF AcceptFails
<1>4. ASSUME NEW c \in Conn, RunSend(c) PROVE Fresh'
  <2>1. \A d \in Conn \ {c} : wire'[d] = wire[d] /\ pc'[d] = pc[d]
    BY <1>4, SendsToItsClient
       DEF RunSend, LoopHead, AwaitSend, AwaitSleep, CloseSocket
  <2>2. pc'[c] \in {"chunk", "nap", "closed"}
    BY <1>4 DEF RunSend, LoopHead, AwaitSend, AwaitSleep, CloseSocket
  <2> QED BY <2>1, <2>2
<1>5. ASSUME NEW c \in Conn, RunWake(c) PROVE Fresh'
  BY <1>5 DEF RunWake, LoopHead, AwaitSend, CloseSocket
<1>6. CASE AcceptNotify \/ Worker \/ Clock \/ UNCHANGED vars
  BY <1>1, <1>6 DEF AcceptNotify, Worker, Clock, serverVars, vars
<1>7. ASSUME NEW c \in Conn, Stall(c) \/ Drain(c) \/ Vanish(c) PROVE Fresh'
  BY <1>1, <1>7 DEF Stall, Drain, Vanish, PeerMoves
<1> QED BY <1>2, <1>3, <1>4, <1>5, <1>6, <1>7 DEF Next

\* What is received after one more segment.
LEMMA ReceivedAppend ==
    ASSUME NEW w \in Seq(Service!Segment), NEW seg \in Service!Segment
    PROVE  /\ Append(w, seg) # <<>>
           /\ Service!Received(Append(w, seg)) = Service!End(seg)
<1>1. /\ Len(Append(w, seg)) = Len(w) + 1
      /\ Append(w, seg)[Len(w) + 1] = seg
      /\ Append(w, seg) # <<>>
  OBVIOUS
<1> QED BY <1>1 DEF Service!Received

\* What has been received follows the offset of the coroutine's loop.
LEMMA ProgressStep == IInv /\ [Next]_vars => Progress'
<1> SUFFICES ASSUME IInv, [Next]_vars PROVE Progress'
  OBVIOUS
<1> USE ServerAssumption DEF IInv, TypeOK, Progress
<1>1. CASE UNCHANGED <<pc, offset, wire, peer>> BY <1>1
<1>2. ASSUME NEW c \in Conn, NEW f \in Fd, Accept(c, f) PROVE Progress'
  BY <1>2 DEF Accept
<1>3. ASSUME NEW c \in Conn, AcceptFails(c) PROVE Progress'
  BY <1>3 DEF AcceptFails
<1>4. ASSUME NEW c \in Conn, RunSend(c) PROVE Progress'
  <2>1. /\ peer' = peer
        /\ \A d \in Conn \ {c} :
              wire'[d] = wire[d] /\ pc'[d] = pc[d] /\ offset'[d] = offset[d]
    BY <1>4, SendsToItsClient
       DEF RunSend, LoopHead, AwaitSend, AwaitSleep, CloseSocket
  <2>2. CASE peer[c] = "gone" BY <2>1, <2>2
  <2>3. CASE peer[c] # "gone"
    <3>1. Outgoing(c) \in Service!Segment
      BY <1>4, OutgoingIsSegment DEF RunSend
    <3>2. wire'[c] # <<>> /\ Service!Received(wire'[c]) = Service!End(Outgoing(c))
      <4>1. wire' = [wire EXCEPT ![c] = Append(@, Outgoing(c))]
        BY <1>4, <2>3, SendsToItsClient
      <4>2. wire'[c] = Append(wire[c], Outgoing(c)) /\ wire[c] \in Seq(Service!Segment)
        BY <4>1
      <4> QED BY <3>1, <4>2, ReceivedAppend
    <3>3. CASE pc[c] = "header"
      <4>1. pc'[c] = "chunk" /\ offset'[c] = 0
        BY <1>4, <3>3 DEF RunSend, LoopHead, AwaitSend
      <4>2. Service!End(Outgoing(c)) = 0
        BY <3>3 DEF Outgoing, Service!End, Service!Header
      <4> QED BY <2>1, <3>2, <4>1, <4>2
    <3>4. CASE pc[c] = "chunk"
      <4>1. pc'[c] = "nap" /\ offset'[c] = offset[c]
        BY <1>4, <3>4 DEF RunSend, AwaitSleep
      <4>2. Outgoing(c) = Service!ChunkAt(offset[c]) BY <3>4 DEF Outgoing
      <4> QED BY <2>1, <3>2, <4>1, <4>2
    <3> QED BY <1>4, <3>3, <3>4 DEF RunSend
  <2> QED BY <2>2, <2>3
<1>5. ASSUME NEW c \in Conn, RunWake(c) PROVE Progress'
  <2>1. /\ UNCHANGED <<peer, wire>> /\ pc[c] = "nap"
        /\ \A d \in Conn \ {c} : pc'[d] = pc[d] /\ offset'[d] = offset[d]
    BY <1>5 DEF RunWake, LoopHead, AwaitSend, CloseSocket
  <2>2. CASE offset[c] + ChunkSize < FileSize
    <3>1. pc'[c] = "chunk" /\ offset'[c] = offset[c] + ChunkSize
      BY <1>5, <2>2 DEF RunWake, LoopHead, AwaitSend
    <3>2. Service!End(Service!ChunkAt(offset[c])) = offset[c] + ChunkSize
      BY <2>2 DEF Service!End, Service!ChunkAt
    <3> QED BY <2>1, <3>1, <3>2
  <2>3. CASE ~(offset[c] + ChunkSize < FileSize)
    <3>1. pc'[c] = "closed"
      BY <1>5, <2>3 DEF RunWake, LoopHead, CloseSocket
    <3>2. Service!End(Service!ChunkAt(offset[c])) = FileSize
      BY <2>1, <2>3 DEF Service!End, Service!ChunkAt, Bounded
    <3>3. peer[c] # "gone" => Service!Complete(wire[c])
      BY <2>1, <3>2 DEF Service!Complete
    <3> QED BY <2>1, <3>1, <3>3
  <2> QED BY <2>2, <2>3
<1>6. CASE AcceptNotify \/ Worker \/ Clock \/ UNCHANGED vars
  BY <1>1, <1>6 DEF AcceptNotify, Worker, Clock, serverVars, vars
<1>7. ASSUME NEW c \in Conn, Stall(c) \/ Drain(c) \/ Vanish(c) PROVE Progress'
  BY <1>7 DEF Stall, Drain, Vanish, PeerMoves
<1> QED BY <1>2, <1>3, <1>4, <1>5, <1>6, <1>7 DEF Next

\* A step that leaves a client and its timers alone keeps it spaced.
LEMMA SpacedSame ==
    ASSUME NEW d \in Conn, Spaced(d),
           pc'[d] = pc[d], wire'[d] = wire[d], since'[d] = since[d],
           current' = d => current = d,
           \A e \in scheduled' : e.task = d => e \in scheduled
    PROVE  Spaced(d)'
BY DEF Spaced, Timers

\* While a coroutine naps, what it has waited and what its timer has left add
\* up to the delay; when it goes on, the delay is over.
LEMMA SpacingStep == IInv /\ [Next]_vars => Spacing'
<1> SUFFICES ASSUME IInv, [Next]_vars PROVE Spacing'
  OBVIOUS
<1> USE ServerAssumption DEF Spacing, Timers
<1>0. /\ TypeOK /\ Spacing /\ Resumptions /\ Working /\ Fresh
      /\ LoopTypeOK /\ since \in [Conn -> 0..Delay]
      /\ pc \in [Conn -> {"unseen", "refused", "header", "chunk", "nap", "closed"}]
      /\ wire \in [Conn -> Seq(Service!Segment)]
      /\ \A e \in scheduled : e.left \in Int
  BY Restated DEF IInv, TypeOK, LoopTypeOK, ScheduledTask
<1>1. CASE UNCHANGED <<pc, wire, since, current, scheduled>>
  BY <1>0, <1>1, SpacedSame
<1>2. ASSUME NEW c \in Conn, NEW f \in Fd, Accept(c, f) PROVE Spacing'
  BY <1>0, <1>2 DEF Accept, Spaced
<1>3. ASSUME NEW c \in Conn, AcceptFails(c) PROVE Spacing'
  BY <1>0, <1>3 DEF AcceptFails, loopVars, Spaced
<1>4. ASSUME NEW c \in Conn, RunSend(c) PROVE Spacing'
  <2>1. current = c /\ current' = None /\ None \notin Conn
    BY <1>4, LoopAssumption DEF RunSend, FinishTask
  <2>2. since' \in [Conn -> 0..Delay]
    BY <1>4, TypeStep DEF IInv, TypeOK, Next
  <2>3. \A d \in Conn \ {c} :
           pc'[d] = pc[d] /\ wire'[d] = wire[d] /\ since'[d] = since[d]
    BY <1>0, <1>4, SendsToItsClient
       DEF RunSend, LoopHead, AwaitSend, AwaitSleep, CloseSocket, IInv
  <2>4. CASE pc[c] = "header"
    <3>1. scheduled' = scheduled /\ pc'[c] # "nap"
      BY <1>0, <1>4, <2>4 DEF RunSend, LoopHead, AwaitSend, CloseSocket
    <3>2. wire[c] = <<>> /\ wire[c] \in Seq(Service!Segment)
      BY <1>0, <2>4 DEF Fresh
    <3>3. wire'[c] = wire[c] \/ wire'[c] = Append(wire[c], Outgoing(c))
      BY <1>0, <1>4, SendsToItsClient DEF IInv
    <3>4. Outgoing(c) \in Service!Segment
      BY <1>4, OutgoingIsSegment DEF RunSend, IInv
    <3>5. ~(Len(wire'[c]) > 1)
      <4>1. Len(Append(wire[c], Outgoing(c))) = Len(wire[c]) + 1 BY <3>2, <3>4
      <4>2. Len(wire[c]) = 0 BY <3>2
      <4> QED BY <3>3, <4>1, <4>2
    <3>6. Spaced(c)' BY <3>1, <3>5 DEF Spaced
    <3>7. ASSUME NEW d \in Conn \ {c} PROVE Spaced(d)'
      BY <1>0, <2>1, <2>3, <3>1, SpacedSame
    <3> QED BY <3>6, <3>7
  <2>5. CASE pc[c] = "chunk"
    <3>1. /\ pc'[c] = "nap"
          /\ scheduled' = scheduled \cup {[task |-> c, left |-> Delay]}
      BY <1>0, <1>4, <2>5 DEF RunSend, AwaitSleep, PushDelayed
    <3>2. \A e \in scheduled : e.task # c
      BY <1>0, <2>1 DEF Resumptions, Placed, Timed
    <3>3. \A e \in scheduled' : e.task = c => since'[c] + e.left >= Delay
      BY <2>2, <3>1, <3>2
    <3>4. Spaced(c)' BY <2>1, <3>1, <3>3 DEF Spaced
    <3>5. ASSUME NEW d \in Conn \ {c} PROVE Spaced(d)'
      <4>1. ASSUME NEW e \in scheduled', e.task = d PROVE e \in scheduled
        BY <3>1, <4>1
      <4> QED BY <1>0, <2>1, <2>3, <4>1, SpacedSame
    <3> QED BY <3>4, <3>5
  <2> QED BY <1>4, <2>4, <2>5 DEF RunSend
<1>5. ASSUME NEW c \in Conn, RunWake(c) PROVE Spacing'
  <2>1. /\ current = c /\ current' = None /\ None \notin Conn /\ pc[c] = "nap"
        /\ UNCHANGED <<wire, since, scheduled>> /\ pc'[c] # "nap"
        /\ \A d \in Conn \ {c} : pc'[d] = pc[d]
    BY <1>0, <1>5, LoopAssumption
       DEF RunWake, FinishTask, LoopHead, AwaitSend, CloseSocket
  <2>2. since[c] = Delay BY <1>0, <2>1 DEF Spaced
  <2>3. Spaced(c)' BY <2>1, <2>2 DEF Spaced
  <2>4. ASSUME NEW d \in Conn \ {c} PROVE Spaced(d)'
    BY <1>0, <2>1, SpacedSame
  <2> QED BY <2>3, <2>4
<1>6. CASE Worker
  <2>1. UNCHANGED <<pc, wire, since>> BY <1>6 DEF Worker, serverVars
  <2>2. CASE TakeImmediate
    <3>1. /\ immediate # <<>> /\ current = None /\ scheduled' = scheduled
          /\ current' = Head(immediate)
      BY <1>0, <2>2 DEF TakeImmediate, Working
    <3>2. current' \in Conn /\ Has(immediate, current')
      BY <1>0, <3>1, PopUnique DEF Resumptions, LoopTypeOK
    <3>3. pc[current'] # "nap" BY <1>0, <3>2 DEF Resumptions, Placed
    <3>4. current \notin Conn BY <3>1, LoopAssumption
    <3> QED BY <1>0, <2>1, <3>1, <3>3, <3>4 DEF Spaced
  <2>3. CASE TakeDue
    <3>1. PICK e \in scheduled : /\ e.left <= 0 /\ current' = e.task
                                 /\ scheduled' = scheduled \ {e}
      BY <2>3 DEF TakeDue, Earliest, Due
    <3>2. current \notin Conn
      BY <1>0, <2>3, LoopAssumption DEF TakeDue, Working
    <3>3. ASSUME NEW c \in Conn, c = current', pc[c] = "nap"
          PROVE  since[c] = Delay
      <4>1. since[c] = Delay \/ since[c] + e.left >= Delay
        BY <1>0, <3>1, <3>2, <3>3 DEF Spaced
      <4> QED BY <1>0, <3>1, <4>1
    <3> QED BY <1>0, <2>1, <3>1, <3>2, <3>3 DEF Spaced
  <2>4. CASE CheckRunning \/ Sleep \/ WakeNotified \/ WakeOnTime \/ WakeSpuriously
    <3>1. UNCHANGED <<immediate, scheduled, current>>
      BY <2>4 DEF CheckRunning, Sleep, WakeNotified, WakeOnTime, WakeSpuriously,
                  LeaveSleep
    <3> QED BY <1>1, <2>1, <3>1
  <2> QED BY <1>6, <2>2, <2>3, <2>4 DEF Worker, WorkerStep
<1>7. CASE Clock
  <2>1. /\ UNCHANGED <<current, pc, wire>>
        /\ scheduled' = {[task |-> e.task, left |-> e.left - 1] : e \in scheduled}
        /\ since' = [c \in Conn |->
                        IF since[c] < Delay THEN since[c] + 1 ELSE Delay]
    BY <1>7 DEF Clock, Tick
  <2>2. ASSUME NEW c \in Conn, pc[c] = "nap",
               NEW e \in scheduled', e.task = c
        PROVE  since'[c] = Delay \/ since'[c] + e.left >= Delay
    <3>1. PICK d \in scheduled : e = [task |-> d.task, left |-> d.left - 1]
      BY <2>1
    <3>2. d.task = c /\ e.left = d.left - 1 BY <2>2, <3>1
    <3>3. since[c] = Delay \/ since[c] + d.left >= Delay
      BY <1>0, <2>2, <3>2 DEF Spaced
    <3> QED BY <1>0, <2>1, <3>2, <3>3
  <2>3. ASSUME NEW c \in Conn, since[c] = Delay PROVE since'[c] = Delay
    BY <2>1, <2>3
  <2> QED BY <1>0, <2>1, <2>2, <2>3 DEF Spaced
<1>8. CASE AcceptNotify \/ UNCHANGED vars
  BY <1>1, <1>8 DEF AcceptNotify, loopVars, serverVars, vars
<1>9. ASSUME NEW c \in Conn, Stall(c) \/ Drain(c) \/ Vanish(c) PROVE Spacing'
  BY <1>1, <1>9 DEF Stall, Drain, Vanish, PeerMoves, loopVars
<1> QED BY <1>2, <1>3, <1>4, <1>5, <1>6, <1>7, <1>8, <1>9 DEF Next

-----------------------------------------------------------------------------
(* The theorems.                                                           *)

LEMMA InvariantInit == Init => IInv
<1> SUFFICES ASSUME Init PROVE IInv
  OBVIOUS
<1> USE LoopAssumption, ServerAssumption DEF Init, LoopInit
<1>1. LoopTypeOK
  <2>1. immediate \in Seq(Task) /\ scheduled \in SUBSET ScheduledTask /\ alarm \in Int
    OBVIOUS
  <2> QED BY <2>1, Zenon DEF LoopTypeOK
<1>2. TypeOK BY <1>1 DEF TypeOK
<1>3. Bounded /\ Working /\ Fresh BY DEF Bounded, Working, Fresh
<1>4. OneResumption BY DEF OneResumption, Queued, Timers, Live
<1>5. OwnSocket /\ NeverOversleeps /\ NoLostWakeup
  BY DEF OwnSocket, NeverOversleeps, NoLostWakeup, Live, Asleep
<1>6. Progress /\ Spacing BY DEF Progress, Spacing, Spaced
<1> QED BY <1>2, <1>3, <1>4, <1>5, <1>6 DEF IInv

LEMMA InvariantStep == IInv /\ [Next]_vars => IInv'
BY TypeStep, BoundedStep, WorkingStep, OneResumptionStep, OwnSocketStep,
   NeverOversleepsStep, NoLostWakeupStep, FreshStep, ProgressStep, SpacingStep
   DEF IInv

LEMMA Invariance == ServerSpec => []IInv
BY InvariantInit, InvariantStep, PTL DEF ServerSpec

\* The types of the queue, the heap, the descriptors and the coroutines.
THEOREM Types == ServerSpec => []TypeOK
<1>1. IInv => TypeOK BY DEF IInv
<1> QED BY <1>1, Invariance, PTL

\* No coroutine is resumed twice for one suspension, or after its end.
THEOREM ResumedOnce == ServerSpec => []OneResumption
<1>1. IInv => OneResumption BY DEF IInv
<1> QED BY <1>1, Invariance, PTL

\* No coroutine sends to, or closes, the socket of another client.
THEOREM SocketsOwned == ServerSpec => []OwnSocket
<1>1. IInv => OwnSocket BY DEF IInv
<1> QED BY <1>1, Invariance, PTL

\* The worker never sleeps past a timer.
THEOREM TimersAwake == ServerSpec => []NeverOversleeps
<1>1. IInv => NeverOversleeps BY DEF IInv
<1> QED BY <1>1, Invariance, PTL

\* The worker never sleeps on a posted task.
THEOREM PostsAwake == ServerSpec => []NoLostWakeup
<1>1. IInv => NoLostWakeup BY DEF IInv
<1> QED BY <1>1, Invariance, PTL

\* Two chunks to a client are at least the delay of the Sleep apart.
THEOREM ChunksSpaced == ServerSpec => ChunkSpacing
<1> DEFINE P == \A c \in Conn :
                   wire'[c] # wire[c] /\ Len(wire[c]) > 1 => since[c] = Delay
<1>1. IInv /\ [Next]_vars => [P]_vars
  <2> SUFFICES ASSUME IInv, Next, NEW c \in Conn, wire'[c] # wire[c],
                      Len(wire[c]) > 1
               PROVE  since[c] = Delay
    OBVIOUS
  <2>1. PICK d \in Conn : RunSend(d)
    BY DEF Next, Accept, AcceptFails, AcceptNotify, RunWake, Worker, Clock,
           Stall, Drain, Vanish, PeerMoves, serverVars
  <2>2. d = c BY <2>1, SendsToItsClient DEF IInv, TypeOK
  <2>3. pc[c] = "chunk" BY <2>1, <2>2 DEF RunSend, IInv, Fresh
  <2> QED BY <2>3 DEF IInv, Spacing, Spaced
<1> QED BY <1>1, Invariance, PTL DEF ServerSpec, ChunkSpacing

-----------------------------------------------------------------------------
(* The refinement.                                                         *)

bStatus == [c \in Conn |-> StatusOf(pc[c])]
bGone == [c \in Conn |-> peer[c] = "gone"]

\* The service sees neither the worker, nor the clock, nor a coroutine go from
\* one suspension to the next.
LEMMA ServiceStutters ==
    ASSUME bStatus' = bStatus, bGone' = bGone, wire' = wire
    PROVE  UNCHANGED Service!serviceVars
BY DEF Service!serviceVars, bStatus, bGone

\* A send delivers the segment the service says is next.
LEMMA SendDelivers ==
    ASSUME IInv, NEW c \in Conn, RunSend(c)
    PROVE  [Service!ServiceNext]_(Service!serviceVars)
<1> USE ServerAssumption DEF IInv, TypeOK
<1>1. bGone' = bGone BY DEF RunSend, bGone
<1>2. bStatus' = bStatus
  <2>1. \A d \in Conn : StatusOf(pc'[d]) = StatusOf(pc[d])
    <3>1. pc[c] \in {"header", "chunk"} /\ pc'[c] \in {"chunk", "nap"}
      BY DEF RunSend, LoopHead, AwaitSend, AwaitSleep
    <3>2. \A d \in Conn \ {c} : pc'[d] = pc[d]
      BY DEF RunSend, LoopHead, AwaitSend, AwaitSleep
    <3> QED BY <3>1, <3>2 DEF StatusOf
  <2> QED BY <2>1 DEF bStatus
<1>3. CASE peer[c] = "gone"
  BY <1>1, <1>2, <1>3, SendsToItsClient, ServiceStutters
<1>4. CASE peer[c] # "gone"
  <2>1. wire' = [wire EXCEPT ![c] = Append(@, Outgoing(c))]
    BY <1>4, SendsToItsClient
  <2>2. Outgoing(c) = Service!NextSegment(wire[c])
    <3>1. CASE pc[c] = "header"
      BY <3>1 DEF Outgoing, Service!NextSegment, Fresh
    <3>2. CASE pc[c] = "chunk"
      BY <1>4, <3>2 DEF Outgoing, Service!NextSegment, Progress
    <3> QED BY <3>1, <3>2 DEF RunSend
  <2>3. ~Service!Complete(wire[c])
    <3>1. CASE pc[c] = "header" BY <3>1 DEF Service!Complete, Fresh
    <3>2. CASE pc[c] = "chunk"
      <4>1. Service!Received(wire[c]) = offset[c] /\ offset[c] < FileSize
        BY <1>4, <3>2 DEF Progress, Bounded
      <4> QED BY <4>1 DEF Service!Complete
    <3> QED BY <3>1, <3>2 DEF RunSend
  <2>4. bStatus[c] = "open" /\ ~bGone[c]
    BY <1>4 DEF bStatus, bGone, StatusOf, RunSend
  <2>5. Service!Deliver(c)
    BY <1>1, <1>2, <2>1, <2>2, <2>3, <2>4 DEF Service!Deliver, bStatus, bGone
  <2> QED BY <2>5 DEF Service!ServiceNext
<1> QED BY <1>3, <1>4

LEMMA StatusValues ==
    /\ StatusOf("unseen") = "unseen" /\ StatusOf("refused") = "refused"
    /\ StatusOf("header") = "open" /\ StatusOf("chunk") = "open"
    /\ StatusOf("nap") = "open" /\ StatusOf("closed") = "closed"
BY DEF StatusOf

\* What changes the status of one connection only.
LEMMA StatusOnly ==
    ASSUME NEW c \in Conn, \A d \in Conn \ {c} : pc'[d] = pc[d], peer' = peer
    PROVE  /\ bStatus' = [bStatus EXCEPT ![c] = StatusOf(pc'[c])]
           /\ bGone' = bGone
<1>1. bStatus' = [d \in Conn |-> IF d = c THEN StatusOf(pc'[c]) ELSE StatusOf(pc[d])]
  BY DEF bStatus
<1> QED BY <1>1 DEF bStatus, bGone

\* Every step is a step of the service or invisible to it.
LEMMA StepRefines ==
    IInv /\ [Next]_vars => [Service!ServiceNext]_(Service!serviceVars)
<1> SUFFICES ASSUME IInv, [Next]_vars
             PROVE  [Service!ServiceNext]_(Service!serviceVars)
  OBVIOUS
<1> USE ServerAssumption DEF IInv
<1>1. ASSUME NEW c \in Conn, NEW f \in Fd, Accept(c, f) PROVE Service!Open(c)
  <2>1. bStatus' = [bStatus EXCEPT ![c] = "open"] /\ bGone' = bGone
    <3>1. pc'[c] = "header" /\ peer' = peer /\ \A d \in Conn \ {c} : pc'[d] = pc[d]
      BY <1>1 DEF Accept, TypeOK
    <3> QED BY <3>1, StatusOnly, StatusValues
  <2>2. bStatus[c] = "unseen" BY <1>1, StatusValues DEF Accept, bStatus
  <2> QED BY <1>1, <2>1, <2>2 DEF Service!Open, Accept, bStatus, bGone
<1>2. ASSUME NEW c \in Conn, AcceptFails(c) PROVE Service!Refuse(c)
  <2>1. bStatus' = [bStatus EXCEPT ![c] = "refused"] /\ bGone' = bGone
    <3>1. pc'[c] = "refused" /\ peer' = peer /\ \A d \in Conn \ {c} : pc'[d] = pc[d]
      BY <1>2 DEF AcceptFails, TypeOK
    <3> QED BY <3>1, StatusOnly, StatusValues
  <2>2. bStatus[c] = "unseen" BY <1>2, StatusValues DEF AcceptFails, bStatus
  <2> QED BY <1>2, <2>1, <2>2 DEF Service!Refuse, AcceptFails, bStatus, bGone
<1>3. ASSUME NEW c \in Conn, RunWake(c)
      PROVE  Service!Close(c) \/ UNCHANGED Service!serviceVars
  <2>1. pc[c] = "nap" /\ UNCHANGED <<peer, wire>> BY <1>3 DEF RunWake
  <2>2. CASE offset[c] + ChunkSize < FileSize
    <3>1. pc'[c] = "chunk" /\ \A d \in Conn \ {c} : pc'[d] = pc[d]
      BY <1>3, <2>2 DEF RunWake, LoopHead, AwaitSend, TypeOK
    <3>2. bStatus' = [bStatus EXCEPT ![c] = "open"] /\ bGone' = bGone
      BY <2>1, <3>1, StatusOnly, StatusValues
    <3>3. bStatus[c] = "open" /\ bStatus = [d \in Conn |-> StatusOf(pc[d])]
      BY <2>1, StatusValues DEF bStatus
    <3>4. bStatus' = bStatus BY <3>2, <3>3
    <3> QED BY <2>1, <3>2, <3>4, ServiceStutters
  <2>3. CASE ~(offset[c] + ChunkSize < FileSize)
    <3>1. pc'[c] = "closed" /\ \A d \in Conn \ {c} : pc'[d] = pc[d]
      BY <1>3, <2>3 DEF RunWake, LoopHead, CloseSocket, TypeOK
    <3>2. bStatus' = [bStatus EXCEPT ![c] = "closed"] /\ bGone' = bGone
      BY <2>1, <3>1, StatusOnly, StatusValues
    <3>3. bStatus[c] = "open" BY <2>1, StatusValues DEF bStatus
    <3>4. peer[c] # "gone" => Service!Complete(wire[c])
      <4>1. Service!End(Service!ChunkAt(offset[c])) = FileSize
        BY <2>1, <2>3 DEF Service!End, Service!ChunkAt, Bounded, TypeOK
      <4> QED BY <2>1, <4>1 DEF Progress, Service!Complete
    <3>5. bGone[c] \/ Service!Complete(wire[c]) BY <3>4 DEF bGone
    <3> QED BY <2>1, <3>2, <3>3, <3>5 DEF Service!Close, bStatus, bGone
  <2> QED BY <2>2, <2>3
<1>4. CASE AcceptNotify \/ Worker \/ Clock \/ UNCHANGED vars
  <2>1. UNCHANGED <<pc, peer, wire>>
    BY <1>4 DEF AcceptNotify, Worker, Clock, serverVars, vars
  <2> QED BY <2>1, ServiceStutters DEF bStatus, bGone
<1>5. ASSUME NEW c \in Conn, Stall(c) \/ Drain(c)
      PROVE  UNCHANGED Service!serviceVars
  <2>1. UNCHANGED <<pc, wire>> BY <1>5 DEF Stall, Drain, PeerMoves
  <2>2. \A d \in Conn : (peer'[d] = "gone") <=> (peer[d] = "gone")
    BY <1>5 DEF Stall, Drain, PeerMoves, TypeOK
  <2>3. bGone' = bGone BY <2>2 DEF bGone
  <2> QED BY <2>1, <2>3, ServiceStutters DEF bStatus
<1>6. ASSUME NEW c \in Conn, Vanish(c) PROVE Service!Leave(c)
  <2>1. /\ Live(c) /\ peer[c] # "gone" /\ UNCHANGED <<pc, wire>>
        /\ peer' = [peer EXCEPT ![c] = "gone"]
    BY <1>6 DEF Vanish, PeerMoves
  <2>2. bStatus[c] = "open" /\ ~bGone[c] /\ bStatus' = bStatus
    BY <2>1 DEF Live, bStatus, bGone, StatusOf
  <2>3. \A d \in Conn : (peer'[d] = "gone") = (d = c \/ peer[d] = "gone")
    BY <2>1 DEF TypeOK
  <2>4. bGone' = [bGone EXCEPT ![c] = TRUE] BY <2>3 DEF bGone
  <2> QED BY <2>1, <2>2, <2>4 DEF Service!Leave, bStatus, bGone
<1> QED
  BY <1>1, <1>2, <1>3, <1>4, <1>5, <1>6, SendDelivers
     DEF Next, Service!ServiceNext

\* The coroutine server implements the file service: every client receives
\* what the service promises, and is closed when it promises.
THEOREM Refinement == ServerSpec => Implements
<1>1. Init => Service!ServiceInit
  BY DEF Init, Service!ServiceInit, StatusOf
<1> QED
  BY <1>1, Invariance, StepRefines, PTL
     DEF ServerSpec, Implements, Service!ServiceSpec

-----------------------------------------------------------------------------
(* What is proved of the service holds of the server.                      *)

Proved ==
    INSTANCE FileServiceProofs WITH
        status <- [c \in Conn |-> StatusOf(pc[c])],
        gone <- [c \in Conn |-> peer[c] = "gone"]

LEMMA ServicePromise == ServerSpec => [](Proved!InOrder /\ Proved!ClosedComplete)
<1>1. Proved!Parameters BY ServerAssumption DEF Proved!Parameters
<1>2. Proved!ServiceSpec => []Proved!InOrder
  BY <1>1, Proved!ReceivedInOrder
<1>3. Proved!ServiceSpec => []Proved!ClosedComplete
  BY <1>1, Proved!ClosedIsComplete
<1>4. Service!ServiceInit => Proved!ServiceInit
  BY DEF Service!ServiceInit, Proved!ServiceInit
<1>5. [Service!ServiceNext]_(Service!serviceVars)
         => [Proved!ServiceNext]_(Proved!serviceVars)
  BY DEF Service!ServiceNext, Service!serviceVars,
         Service!Open, Service!Refuse, Service!Deliver, Service!Leave,
         Service!Close, Service!NextSegment, Service!Header, Service!ChunkAt,
         Service!Received, Service!End, Service!Complete,
         Proved!ServiceNext, Proved!serviceVars,
         Proved!Open, Proved!Refuse, Proved!Deliver, Proved!Leave,
         Proved!Close, Proved!NextSegment, Proved!Header, Proved!ChunkAt,
         Proved!Received, Proved!End, Proved!Complete
<1> QED
  BY <1>2, <1>3, <1>4, <1>5, Refinement, PTL
     DEF Implements, Service!ServiceSpec, Proved!ServiceSpec

\* Whatever the interleaving of the clients' coroutines, each client receives
\* the header and a prefix of the file, in order.
THEOREM ClientsInOrder == ServerSpec => []InOrder
<1>1. Proved!InOrder => InOrder
  BY DEF InOrder, Service!InOrder, Service!Tiles, Service!Header, Service!End,
         Service!Received, Proved!InOrder, Proved!Tiles, Proved!Header,
         Proved!End, Proved!Received
<1> QED BY <1>1, ServicePromise, PTL

\* A client that stays has received the whole file when it is closed.
THEOREM ClientsComplete == ServerSpec => []ClosedComplete
<1>1. Proved!ClosedComplete => ClosedComplete
  BY DEF ClosedComplete, Service!ClosedComplete, Service!Complete,
         Service!Received, Service!End, Proved!ClosedComplete,
         Proved!Complete, Proved!Received, Proved!End
<1> QED BY <1>1, ServicePromise, PTL

=============================================================================
