----------------------- MODULE EventLoopThreadsProofs -----------------------
(***************************************************************************)
(* For any set of threads and tasks and any delay, whichever task posts    *)
(* which: the safety properties of EventLoopThreads, from its inductive    *)
(* invariant.                                                              *)
(***************************************************************************)
EXTENDS EventLoopThreads, TLAPS

-----------------------------------------------------------------------------
(* Types.                                                                  *)

\* A step of the worker thread or of the clock keeps the loop's types.
LEMMA LoopTypes ==
    ASSUME LoopTypeOK, WorkerStep \/ WakeSpuriously \/ Tick
    PROVE  LoopTypeOK'
<1> USE LoopAssumption DEF LoopTypeOK, ScheduledTask
<1>1. CASE CheckRunning BY <1>1 DEF CheckRunning
<1>2. CASE TakeImmediate BY <1>2 DEF TakeImmediate
<1>3. CASE TakeDue BY <1>3 DEF TakeDue, Earliest
<1>4. CASE Sleep
  <2>1. alarm' \in Int BY <1>4 DEF Sleep, Earliest
  <2>2. worker' \in {"check", "wait", "waitUntil"} /\ signalled' = FALSE
    BY <1>4 DEF Sleep
  <2> QED BY <1>4, <2>1, <2>2, Zenon DEF Sleep
<1>5. CASE WakeNotified \/ WakeOnTime \/ WakeSpuriously
  <2>1. alarm' \in Int
    BY <1>5 DEF WakeNotified, WakeOnTime, WakeSpuriously, LeaveSleep
  <2>2. worker' \in {"check", worker} /\ signalled' = FALSE
    BY <1>5, Zenon DEF WakeNotified, WakeOnTime, WakeSpuriously, LeaveSleep
  <2>3. UNCHANGED <<immediate, scheduled, running, current>>
    BY <1>5 DEF WakeNotified, WakeOnTime, WakeSpuriously, LeaveSleep
  <2> QED BY <2>1, <2>2, <2>3, Zenon
<1>6. CASE Tick BY <1>6 DEF Tick
<1> QED BY <1>1, <1>2, <1>3, <1>4, <1>5, <1>6 DEF WorkerStep

\* A notification is a flag that stays a flag.
LEMMA NotifyTypes == signalled \in BOOLEAN /\ Notify => signalled' \in BOOLEAN
BY DEF Notify, Asleep

\* The task at hand, when it returns, is a task.
LEMMA RunsATask == TypeOK /\ Sorted /\ Run => current \in Tasks
BY ThreadsAssumption DEF TypeOK, LoopTypeOK, Sorted, Run

LEMMA TypeStep == IInv /\ [Next]_vars => TypeOK'
<1> SUFFICES ASSUME IInv, [Next]_vars PROVE TypeOK'
  OBVIOUS
<1> USE LoopAssumption, ThreadsAssumption DEF IInv, TypeOK
<1>1. ASSUME NEW t \in Tasks, PostPush(t) PROVE TypeOK'
  <2>1. immediate' \in Seq(Task) BY <1>1 DEF PostPush, Push, LoopTypeOK
  <2> QED BY <1>1, <2>1 DEF PostPush, LoopTypeOK
<1>2. ASSUME NEW t \in Tasks, PostDelayedPush(t) PROVE TypeOK'
  <2>1. scheduled' \in SUBSET ScheduledTask
    BY <1>2 DEF PostDelayedPush, PushDelayed, ScheduledTask, LoopTypeOK
  <2> QED BY <1>2, <2>1 DEF PostDelayedPush, LoopTypeOK
<1>3. ASSUME NEW t \in Tasks, PostNotify(t) PROVE TypeOK'
  <2>1. signalled' \in BOOLEAN BY <1>3, NotifyTypes DEF PostNotify, LoopTypeOK
  <2> QED BY <1>3, <2>1 DEF PostNotify, LoopTypeOK
<1>4. CASE Run
  <2>1. ran' \in Seq(Tasks) BY <1>4, RunsATask DEF Run
  <2> QED BY <1>4, <2>1 DEF Run, FinishTask, LoopTypeOK
<1>5. CASE StopClear BY <1>5 DEF StopClear, ClearRunning, LoopTypeOK
<1>6. CASE StopNotify
  <2>1. signalled' \in BOOLEAN BY <1>6, NotifyTypes DEF StopNotify, LoopTypeOK
  <2> QED BY <1>6, <2>1 DEF StopNotify, LoopTypeOK
<1>7. CASE StopJoin BY <1>7 DEF StopJoin, loopVars, LoopTypeOK
<1>8. CASE Worker BY <1>8, LoopTypes DEF Worker, callers
<1>9. CASE Clock
  <2>1. LoopTypeOK' BY <1>9, LoopTypes DEF Clock
  <2>2. age' \in [Timed -> Nat] BY <1>9 DEF Clock
  <2> QED BY <1>9, <2>1, <2>2 DEF Clock
<1>10. CASE UNCHANGED vars BY <1>10 DEF vars, loopVars, callers, LoopTypeOK
<1> QED
  BY <1>1, <1>2, <1>3, <1>4, <1>5, <1>6, <1>7, <1>8, <1>9, <1>10 DEF Next

-----------------------------------------------------------------------------
(* Queues without repetitions and heaps with one entry per task.           *)

NoRepeats(q) == \A i, j \in 1..Len(q) : q[i] = q[j] => i = j
Has(q, t) == \E i \in 1..Len(q) : q[i] = t
InHeap(s, t) == \E e \in s : e.task = t
OneEntry(s) == \A e1, e2 \in s : e1.task = e2.task => e1 = e2

\* Appending what is not there keeps a sequence free of repetitions, and adds
\* only it.
LEMMA AppendUnique ==
    ASSUME NEW q \in Seq(Tasks), NEW x \in Tasks
    PROVE  /\ \A t : Has(Append(q, x), t) <=> t = x \/ Has(q, t)
           /\ NoRepeats(q) /\ ~Has(q, x) => NoRepeats(Append(q, x))
<1> DEFINE r == Append(q, x)
<1>1. /\ Len(q) \in Nat /\ Len(r) = Len(q) + 1
      /\ r[Len(q) + 1] = x /\ \A i \in 1..Len(q) : r[i] = q[i]
  OBVIOUS
<1>2. \A i \in 1..Len(r) : i \in 1..Len(q) \/ i = Len(q) + 1 BY <1>1
<1> HIDE DEF r
<1>3. ASSUME NoRepeats(q), ~Has(q, x) PROVE NoRepeats(r)
  <2> SUFFICES ASSUME NEW i \in 1..Len(r), NEW j \in 1..Len(r), r[i] = r[j]
               PROVE  i = j
    BY DEF NoRepeats
  <2>1. CASE i \in 1..Len(q) /\ j \in 1..Len(q)
    BY <1>1, <1>3, <2>1 DEF NoRepeats
  <2>2. CASE i = Len(q) + 1 /\ j \in 1..Len(q) BY <1>1, <1>3, <2>2 DEF Has
  <2>3. CASE i \in 1..Len(q) /\ j = Len(q) + 1 BY <1>1, <1>3, <2>3 DEF Has
  <2> QED BY <1>2, <2>1, <2>2, <2>3
<1>4. ASSUME NEW t PROVE Has(r, t) <=> t = x \/ Has(q, t)
  BY <1>1, <1>2 DEF Has
<1> QED BY <1>3, <1>4 DEF r

\* Popping keeps it so too, and removes only the head.
LEMMA PopUnique ==
    ASSUME NEW q \in Seq(Tasks), q # <<>>, NoRepeats(q)
    PROVE  /\ Head(q) \in Tasks /\ Has(q, Head(q))
           /\ NoRepeats(Tail(q))
           /\ \A t : Has(Tail(q), t) <=> t # Head(q) /\ Has(q, t)
<1> DEFINE r == Tail(q)
<1>1. /\ Len(q) \in Nat \ {0} /\ Len(r) = Len(q) - 1
      /\ Head(q) = q[1] /\ Head(q) \in Tasks
      /\ \A i \in 1..Len(r) : r[i] = q[i + 1]
  OBVIOUS
<1> HIDE DEF r
<1>2. NoRepeats(r)
  <2> SUFFICES ASSUME NEW i \in 1..Len(r), NEW j \in 1..Len(r), r[i] = r[j]
               PROVE  i = j
    BY DEF NoRepeats
  <2>1. i + 1 \in 1..Len(q) /\ j + 1 \in 1..Len(q) /\ q[i + 1] = q[j + 1]
    BY <1>1
  <2>2. i + 1 = j + 1 BY <2>1 DEF NoRepeats
  <2> QED BY <2>2
<1>3. ASSUME NEW t, NEW i \in 1..Len(r), r[i] = t
      PROVE  t # q[1] /\ Has(q, t)
  <2>1. i + 1 \in 1..Len(q) /\ i + 1 # 1 /\ q[i + 1] = t /\ 1 \in 1..Len(q)
    BY <1>1, <1>3
  <2> QED BY <2>1 DEF NoRepeats, Has
<1>4. ASSUME NEW t, t # q[1], NEW k \in 1..Len(q), q[k] = t
      PROVE  Has(r, t)
  <2>1. k - 1 \in 1..Len(r) /\ r[k - 1] = q[(k - 1) + 1] BY <1>1, <1>4
  <2> QED BY <1>1, <1>4, <2>1 DEF Has
<1>5. Has(q, Head(q)) BY <1>1 DEF Has
<1>6. \A t : Has(r, t) <=> t # Head(q) /\ Has(q, t)
  BY <1>1, <1>3, <1>4 DEF Has
<1> QED BY <1>1, <1>2, <1>5, <1>6 DEF r

\* The clock changes the time left, not which tasks are in the heap.
LEMMA TickEntries ==
    ASSUME NEW s \in SUBSET ScheduledTask, NEW t,
           t = {[task |-> e.task, left |-> e.left - 1] : e \in s}
    PROVE  /\ \A c : InHeap(t, c) <=> InHeap(s, c)
           /\ OneEntry(s) => OneEntry(t)
<1>1. \A e \in t : \E d \in s : e = [task |-> d.task, left |-> d.left - 1]
  OBVIOUS
<1>2. ASSUME NEW d \in s PROVE \E e \in t : e.task = d.task
  <2> DEFINE e == [task |-> d.task, left |-> d.left - 1]
  <2>1. e \in t /\ e.task = d.task OBVIOUS
  <2> QED BY <2>1
<1>3. \A e \in t : \E d \in s : e.task = d.task BY <1>1
<1>4. ASSUME OneEntry(s), NEW e1 \in t, NEW e2 \in t, e1.task = e2.task
      PROVE  e1 = e2
  <2>1. PICK d1 \in s : e1 = [task |-> d1.task, left |-> d1.left - 1] BY <1>1
  <2>2. PICK d2 \in s : e2 = [task |-> d2.task, left |-> d2.left - 1] BY <1>1
  <2>3. d1 = d2 BY <1>4, <2>1, <2>2 DEF OneEntry
  <2> QED BY <2>1, <2>2, <2>3
<1> QED BY <1>2, <1>3, <1>4 DEF OneEntry, InHeap

-----------------------------------------------------------------------------
(* Where the tasks are.                                                    *)

\* NoTaskLostOrDoubled with the four places as predicates.
Placed(t) ==
    /\ post[t] = "before" <=> ~(\/ Has(immediate, t) \/ InHeap(scheduled, t)
                                \/ t = current \/ Has(ran, t))
    /\ Has(immediate, t) =>
          ~InHeap(scheduled, t) /\ t # current /\ ~Has(ran, t)
    /\ InHeap(scheduled, t) => t # current /\ ~Has(ran, t)
    /\ t = current => ~Has(ran, t)
AllPlaced ==
    /\ \A t \in Tasks : Placed(t)
    /\ NoRepeats(immediate)
    /\ NoRepeats(ran)

LEMMA Restated == NoTaskLostOrDoubled <=> AllPlaced
<1>1. \A t : t \in Elems(immediate) <=> Has(immediate, t) BY DEF Elems, Has
<1>2. \A t : t \in Elems(ran) <=> Has(ran, t) BY DEF Elems, Has
<1>3. \A t : t \in Pending <=> InHeap(scheduled, t) BY DEF Pending, InHeap
<1>4. ASSUME NEW t \in Tasks
      PROVE  Placed(t) <=> IF post[t] = "before" THEN Places(t) = {}
                           ELSE \E p \in Places(t) : Places(t) = {p}
  <2>1. /\ "queue" \in Places(t) <=> Has(immediate, t)
        /\ "heap" \in Places(t) <=> InHeap(scheduled, t)
        /\ "worker" \in Places(t) <=> t = current
        /\ "ran" \in Places(t) <=> Has(ran, t)
        /\ \A p \in Places(t) : p \in {"queue", "heap", "worker", "ran"}
    BY <1>1, <1>2, <1>3 DEF Places
  <2>2. Places(t) = {} <=> \A p \in {"queue", "heap", "worker", "ran"} :
                              p \notin Places(t)
    BY <2>1
  <2>3. ASSUME NEW p
        PROVE  p \in Places(t) /\ Places(t) = {p} <=>
                  /\ p \in Places(t)
                  /\ \A q \in {"queue", "heap", "worker", "ran"} :
                        q \in Places(t) => q = p
    BY <2>1
  <2> QED BY <2>1, <2>2, <2>3 DEF Placed
<1> QED BY <1>4 DEF NoTaskLostOrDoubled, AllPlaced, NoRepeats

\* What the steps that move no task have in common.
Nothing == UNCHANGED <<immediate, scheduled, current, post, ran>>

\* The steps by what they do to the tasks.
LEMMA StepMoves ==
    ASSUME [Next]_vars
    PROVE  \/ \E t \in Tasks : PostPush(t) \/ PostDelayedPush(t) \/ PostNotify(t)
           \/ Run \/ Clock
           \/ Worker /\ (TakeImmediate \/ TakeDue)
           \/ Nothing /\ UNCHANGED age
<1>1. CASE StopClear \/ StopNotify \/ StopJoin
  BY <1>1 DEF StopClear, StopNotify, StopJoin, loopVars, Nothing
<1>2. CASE Worker
  <2>1. CASE CheckRunning \/ Sleep \/ WakeNotified \/ WakeOnTime \/ WakeSpuriously
    BY <1>2, <2>1 DEF Worker, CheckRunning, Sleep, WakeNotified, WakeOnTime,
                      WakeSpuriously, LeaveSleep, callers, Nothing
  <2> QED BY <1>2, <2>1 DEF Worker, WorkerStep
<1>3. CASE UNCHANGED vars BY <1>3 DEF vars, loopVars, callers, Nothing
<1> QED BY <1>1, <1>2, <1>3 DEF Next

\* A post() or post_delayed() of a task puts it where it was not.
LEMMA PlacedStep == IInv /\ [Next]_vars => NoTaskLostOrDoubled'
<1> SUFFICES ASSUME IInv, [Next]_vars PROVE AllPlaced'
  BY Restated, PTL
<1> USE DEF AllPlaced, Placed
<1>0. /\ AllPlaced /\ Sorted
      /\ immediate \in Seq(Tasks) /\ ran \in Seq(Tasks)
      /\ scheduled \in SUBSET ScheduledTask
      /\ post \in [Tasks -> {"before", "pushed", "returned"}]
      /\ Task = Tasks /\ None \notin Tasks /\ Instant \cap Timed = {}
      /\ Tasks = Instant \cup Timed
  BY Restated, LoopAssumption, ThreadsAssumption
     DEF IInv, TypeOK, LoopTypeOK, Tasks
<1>1. ASSUME NEW t \in Tasks, PostPush(t) PROVE AllPlaced'
  <2>1. /\ immediate' = Append(immediate, t) /\ post[t] = "before"
        /\ post' = [post EXCEPT ![t] = "pushed"]
        /\ UNCHANGED <<scheduled, current, ran>>
    BY <1>1 DEF PostPush, Push
  <2>2. /\ ~Has(immediate, t) /\ ~InHeap(scheduled, t)
        /\ t # current /\ ~Has(ran, t)
    BY <1>0, <2>1
  <2>3. /\ NoRepeats(immediate')
        /\ \A u : Has(immediate', u) <=> u = t \/ Has(immediate, u)
    BY <1>0, <2>1, <2>2, AppendUnique
  <2> QED BY <1>0, <2>1, <2>2, <2>3
<1>2. ASSUME NEW t \in Tasks, PostDelayedPush(t) PROVE AllPlaced'
  <2> DEFINE e == [task |-> t, left |-> Delay]
  <2>1. /\ scheduled' = scheduled \cup {e} /\ post[t] = "before"
        /\ post' = [post EXCEPT ![t] = "pushed"]
        /\ UNCHANGED <<immediate, current, ran>>
    BY <1>2 DEF PostDelayedPush, PushDelayed
  <2>2. e.task = t OBVIOUS
  <2> HIDE DEF e
  <2>3. \A u : InHeap(scheduled', u) <=> u = t \/ InHeap(scheduled, u)
    BY <2>1, <2>2 DEF InHeap
  <2> QED BY <1>0, <2>1, <2>3
<1>3. ASSUME NEW t \in Tasks, PostNotify(t) PROVE AllPlaced'
  BY <1>0, <1>3 DEF PostNotify
<1>4. CASE Run
  <2>1. /\ current' = None /\ ran' = Append(ran, current) /\ current \in Tasks
        /\ UNCHANGED <<immediate, scheduled, post>>
    BY <1>4, RunsATask DEF Run, FinishTask, IInv
  <2>2. ~Has(ran, current) BY <1>0, <2>1
  <2>3. /\ NoRepeats(ran')
        /\ \A u : Has(ran', u) <=> u = current \/ Has(ran, u)
    BY <1>0, <2>1, <2>2, AppendUnique
  <2> QED BY <1>0, <2>1, <2>2, <2>3
<1>5. CASE Worker /\ TakeImmediate
  <2>1. /\ immediate # <<>> /\ current = None
        /\ current' = Head(immediate) /\ immediate' = Tail(immediate)
        /\ UNCHANGED <<scheduled, post, ran>>
    BY <1>0, <1>5 DEF TakeImmediate, Sorted, Worker, callers
  <2>2. /\ current' \in Tasks /\ Has(immediate, current')
        /\ NoRepeats(immediate')
        /\ \A u : Has(immediate', u) <=> u # current' /\ Has(immediate, u)
    BY <1>0, <2>1, PopUnique
  <2> QED BY <1>0, <2>1, <2>2
<1>6. CASE Worker /\ TakeDue
  <2>1. PICK e \in scheduled : current' = e.task /\ scheduled' = scheduled \ {e}
    BY <1>6 DEF TakeDue, Earliest
  <2>2. current = None /\ UNCHANGED <<immediate, post, ran>> /\ e.task \in Tasks
    BY <1>0, <1>6, <2>1 DEF TakeDue, Sorted, Worker, callers, ScheduledTask
  <2>3. /\ InHeap(scheduled, current')
        /\ \A u : InHeap(scheduled', u) <=> u # current' /\ InHeap(scheduled, u)
    BY <1>0, <2>1 DEF Sorted, InHeap
  <2> QED BY <1>0, <2>1, <2>2, <2>3
<1>7. CASE Clock
  <2>1. /\ UNCHANGED <<immediate, current, post, ran>>
        /\ scheduled' = {[task |-> e.task, left |-> e.left - 1] : e \in scheduled}
    BY <1>7 DEF Clock, Tick
  <2>2. \A u : InHeap(scheduled', u) <=> InHeap(scheduled, u)
    BY <1>0, <2>1, TickEntries
  <2> QED BY <1>0, <2>1, <2>2
<1>8. CASE Nothing BY <1>0, <1>8 DEF Nothing
<1> QED BY <1>1, <1>2, <1>3, <1>4, <1>5, <1>6, <1>7, <1>8, StepMoves

-----------------------------------------------------------------------------
(* The other conjuncts of IInv.                                            *)

\* The queue holds posted tasks, the heap timers, the worker what it runs.
LEMMA SortedStep == IInv /\ [Next]_vars => Sorted'
<1> SUFFICES ASSUME IInv, [Next]_vars PROVE Sorted'
  OBVIOUS
<1>0. /\ Sorted /\ AllPlaced
      /\ immediate \in Seq(Tasks) /\ scheduled \in SUBSET ScheduledTask
      /\ Task = Tasks /\ None \notin Tasks
      /\ Instant \subseteq Tasks /\ Timed \subseteq Tasks
  BY Restated, LoopAssumption, ThreadsAssumption
     DEF IInv, TypeOK, LoopTypeOK, Tasks
<1>1. (worker = "run" <=> current # None)'
  <2>1. CASE UNCHANGED <<worker, current>> BY <1>0, <2>1 DEF Sorted
  <2>2. ASSUME NEW t \in Tasks, PostPush(t) \/ PostDelayedPush(t) \/ PostNotify(t)
        PROVE  UNCHANGED <<worker, current>>
    BY <2>2 DEF PostPush, PostDelayedPush, PostNotify
  <2>3. CASE Run BY <2>3 DEF Run, FinishTask
  <2>4. CASE StopClear \/ StopNotify \/ StopJoin \/ Clock \/ UNCHANGED vars
    BY <2>1, <2>4 DEF StopClear, StopNotify, StopJoin, Clock, Tick, vars, loopVars
  <2>5. CASE Worker
    <3>1. CASE TakeImmediate
      <4>1. current' \in Tasks BY <1>0, <3>1 DEF TakeImmediate
      <4> QED BY <1>0, <3>1, <4>1 DEF TakeImmediate
    <3>2. CASE TakeDue
      <4>1. current' \in Tasks
        BY <1>0, <3>2 DEF TakeDue, Earliest, ScheduledTask
      <4> QED BY <1>0, <3>2, <4>1 DEF TakeDue
    <3>3. CASE CheckRunning BY <1>0, <3>3 DEF CheckRunning, Sorted
    <3>4. CASE Sleep
      <4>1. worker' \in {"check", "wait", "waitUntil"} BY <3>4, Zenon DEF Sleep
      <4> QED BY <1>0, <3>4, <4>1 DEF Sleep, Sorted
    <3>5. CASE WakeNotified \/ WakeOnTime \/ WakeSpuriously
      BY <1>0, <3>5
         DEF WakeNotified, WakeOnTime, WakeSpuriously, LeaveSleep, Asleep, Sorted
    <3> QED BY <2>5, <3>1, <3>2, <3>3, <3>4, <3>5 DEF Worker, WorkerStep
  <2> QED BY <2>1, <2>2, <2>3, <2>4, <2>5 DEF Next
<1>2. (\A i \in 1..Len(immediate) : immediate[i] \in Instant)'
  <2>1. ASSUME NEW t \in Tasks, PostPush(t)
        PROVE  (\A i \in 1..Len(immediate) : immediate[i] \in Instant)'
    BY <1>0, <2>1 DEF PostPush, Push, Sorted
  <2>2. CASE TakeImmediate
    <3>1. ASSUME NEW i \in 1..Len(immediate')
          PROVE  i + 1 \in 1..Len(immediate) /\ immediate'[i] = immediate[i + 1]
      BY <1>0, <2>2 DEF TakeImmediate
    <3> QED BY <1>0, <3>1 DEF Sorted
  <2>3. CASE UNCHANGED immediate BY <1>0, <2>3 DEF Sorted
  <2> QED
    BY <2>1, <2>2, <2>3, StepMoves
       DEF PostDelayedPush, PostNotify, Run, Clock, Tick, TakeDue, Nothing
<1>3. (\A e \in scheduled : e.task \in Timed)' /\ OneEntry(scheduled')
  <2>1. ASSUME NEW t \in Tasks, PostDelayedPush(t)
        PROVE  (\A e \in scheduled : e.task \in Timed)' /\ OneEntry(scheduled')
    <3> DEFINE e == [task |-> t, left |-> Delay]
    <3>1. /\ scheduled' = scheduled \cup {e} /\ t \in Timed
          /\ post[t] = "before"
      BY <2>1 DEF PostDelayedPush, PushDelayed
    <3>2. e.task = t OBVIOUS
    <3> HIDE DEF e
    <3>3. ~InHeap(scheduled, t) BY <1>0, <3>1 DEF AllPlaced, Placed
    <3> QED BY <1>0, <3>1, <3>2, <3>3 DEF Sorted, OneEntry, InHeap
  <2>2. CASE TakeDue BY <1>0, <2>2 DEF TakeDue, Sorted, OneEntry
  <2>3. CASE Clock
    <3>1. scheduled' = {[task |-> e.task, left |-> e.left - 1] : e \in scheduled}
      BY <2>3 DEF Clock, Tick
    <3>2. OneEntry(scheduled) BY <1>0 DEF Sorted, OneEntry
    <3>3. OneEntry(scheduled') BY <1>0, <3>1, <3>2, TickEntries
    <3> QED BY <1>0, <3>1, <3>3 DEF Sorted
  <2>4. CASE UNCHANGED scheduled BY <1>0, <2>4 DEF Sorted, OneEntry
  <2> QED
    BY <2>1, <2>2, <2>3, <2>4, StepMoves
       DEF PostPush, PostNotify, Run, TakeImmediate, Nothing
<1> QED BY <1>1, <1>2, <1>3 DEF Sorted, OneEntry

\* A timer ages as its deadline comes nearer.
LEMMA AgingStep == IInv /\ [Next]_vars => Aging'
<1> SUFFICES ASSUME IInv, [Next]_vars PROVE Aging'
  OBVIOUS
<1>0. /\ Aging /\ AllPlaced /\ Sorted
      /\ scheduled \in SUBSET ScheduledTask
      /\ age \in [Timed -> Nat]
      /\ post \in [Tasks -> {"before", "pushed", "returned"}]
      /\ Delay \in Nat /\ Timed \subseteq Tasks
  BY Restated, ThreadsAssumption DEF IInv, TypeOK, LoopTypeOK, Tasks
<1>1. ASSUME NEW t \in Tasks, PostPush(t) \/ PostNotify(t) PROVE Aging'
  BY <1>0, <1>1 DEF PostPush, PostNotify, Aging
<1>2. ASSUME NEW t \in Tasks, PostDelayedPush(t) PROVE Aging'
  <2>1. /\ scheduled' = scheduled \cup {[task |-> t, left |-> Delay]}
        /\ t \in Timed /\ post[t] = "before" /\ age' = age
        /\ post' = [post EXCEPT ![t] = "pushed"]
    BY <1>2 DEF PostDelayedPush, PushDelayed
  <2>2. age[t] = 0 BY <1>0, <2>1 DEF Aging
  <2> QED BY <1>0, <2>1, <2>2 DEF Aging
<1>3. CASE Run BY <1>0, <1>3 DEF Run, Aging
<1>4. CASE Worker /\ TakeImmediate
  BY <1>0, <1>4 DEF Worker, TakeImmediate, callers, Aging
<1>5. CASE Worker /\ TakeDue
  BY <1>0, <1>5 DEF Worker, TakeDue, callers, Aging
<1>6. CASE Clock
  <2>1. /\ scheduled' = {[task |-> e.task, left |-> e.left - 1] : e \in scheduled}
        /\ age' = [t \in Timed |-> IF t \in Pending THEN age[t] + 1 ELSE age[t]]
        /\ post' = post
    BY <1>6 DEF Clock, Tick
  <2>2. ASSUME NEW t \in Timed, post[t] = "before" PROVE age'[t] = 0
    <3>1. t \notin Pending
      BY <1>0, <2>2 DEF AllPlaced, Placed, InHeap, Pending
    <3> QED BY <1>0, <2>1, <2>2, <3>1 DEF Aging
  <2>3. ASSUME NEW d \in scheduled'
        PROVE  age'[d.task] + d.left = Delay
    <3>1. PICK e \in scheduled : d = [task |-> e.task, left |-> e.left - 1]
      BY <2>1
    <3>2. /\ e.task \in Timed /\ e.task \in Pending /\ e.left \in Int
          /\ age[e.task] \in Nat
      BY <1>0 DEF Sorted, Pending, ScheduledTask
    <3>3. age'[e.task] = age[e.task] + 1 BY <2>1, <3>2
    <3>4. age[e.task] + e.left = Delay BY <1>0 DEF Aging
    <3> QED BY <3>1, <3>2, <3>3, <3>4
  <2> QED BY <2>1, <2>2, <2>3 DEF Aging
<1>7. CASE Nothing /\ UNCHANGED age BY <1>0, <1>7 DEF Nothing, Aging
<1> QED BY <1>1, <1>2, <1>3, <1>4, <1>5, <1>6, <1>7, StepMoves

\* Whoever puts a task before a sleeping worker, or stops it, still has to
\* notify it; and it goes to sleep only with nothing to do.
LEMMA NoLostWakeupStep == IInv /\ [Next]_vars => NoLostWakeup'
<1> SUFFICES ASSUME IInv, [Next]_vars, Asleep', ~signalled'
             PROVE  /\ \A t : Has(immediate', t) => post'[t] = "pushed"
                    /\ running' \/ stopper' = "cleared"
  BY DEF NoLostWakeup, Elems, Has
<1> DEFINE Awaited ==
      /\ \A t : Has(immediate, t) => post[t] = "pushed"
      /\ running \/ stopper = "cleared"
<1>0. /\ Asleep /\ ~signalled => Awaited
      /\ immediate \in Seq(Tasks)
      /\ post \in [Tasks -> {"before", "pushed", "returned"}]
  BY ThreadsAssumption
     DEF IInv, NoLostWakeup, Elems, Has, TypeOK, LoopTypeOK
<1>1. ASSUME NEW t \in Tasks, PostPush(t) PROVE Awaited'
  <2>1. /\ Awaited /\ immediate' = Append(immediate, t)
        /\ post' = [post EXCEPT ![t] = "pushed"]
        /\ UNCHANGED <<running, stopper>>
    BY <1>0, <1>1 DEF PostPush, Push, Asleep
  <2>2. \A u : Has(immediate', u) <=> u = t \/ Has(immediate, u)
    BY <1>0, <2>1, AppendUnique
  <2>3. ASSUME NEW u, Has(immediate, u) PROVE u \in Tasks
    BY <1>0, <2>3 DEF Has
  <2> QED BY <1>0, <2>1, <2>2, <2>3
<1>2. ASSUME NEW t \in Tasks, PostDelayedPush(t) PROVE Awaited'
  <2>1. /\ Awaited /\ post' = [post EXCEPT ![t] = "pushed"]
        /\ UNCHANGED <<immediate, running, stopper>>
    BY <1>0, <1>2 DEF PostDelayedPush, Asleep
  <2>2. ASSUME NEW u, Has(immediate, u) PROVE u \in Tasks
    BY <1>0, <2>2 DEF Has
  <2> QED BY <1>0, <2>1, <2>2
<1>3. ASSUME NEW t \in Tasks, PostNotify(t) PROVE FALSE
  BY <1>3 DEF PostNotify, Notify, Asleep
<1>4. CASE Run BY <1>4 DEF Run, FinishTask, Asleep
<1>5. CASE StopClear
  BY <1>0, <1>5 DEF StopClear, ClearRunning, Asleep
<1>6. CASE StopNotify BY <1>6 DEF StopNotify, Notify, Asleep
<1>7. CASE StopJoin BY <1>7 DEF StopJoin, loopVars, Asleep
<1>8. CASE Worker
  <2>1. CASE CheckRunning \/ TakeImmediate \/ TakeDue
    BY <2>1 DEF CheckRunning, TakeImmediate, TakeDue, Asleep
  <2>2. CASE Sleep
    <3>1. ~MayGoOn /\ UNCHANGED <<immediate, running>>
      BY <2>2 DEF Sleep, Asleep
    <3>2. \A u : ~Has(immediate', u) BY <3>1 DEF MayGoOn, Has
    <3> QED BY <3>1, <3>2 DEF MayGoOn
  <2>3. CASE WakeNotified
    <3>1. ~MayGoOn /\ UNCHANGED <<immediate, running>>
      BY <2>3 DEF WakeNotified, LeaveSleep, Asleep
    <3>2. \A u : ~Has(immediate', u) BY <3>1 DEF MayGoOn, Has
    <3> QED BY <3>1, <3>2 DEF MayGoOn
  <2>4. CASE WakeOnTime \/ WakeSpuriously
    BY <2>4 DEF WakeOnTime, WakeSpuriously, LeaveSleep, Asleep
  <2> QED BY <1>8, <2>1, <2>2, <2>3, <2>4 DEF Worker, WorkerStep
<1>9. CASE Clock \/ UNCHANGED vars
  <2>1. UNCHANGED <<immediate, running, worker, signalled, post, stopper>>
    BY <1>9 DEF Clock, Tick, vars, loopVars, callers
  <2> QED BY <1>0, <2>1 DEF Asleep
<1> QED BY <1>1, <1>2, <1>3, <1>4, <1>5, <1>6, <1>7, <1>8, <1>9 DEF Next

-----------------------------------------------------------------------------
(* The theorems.                                                           *)

LEMMA InitInvariant == Init => IInv
<1> SUFFICES ASSUME Init PROVE IInv
  OBVIOUS
<1> USE LoopAssumption, ThreadsAssumption DEF Init, LoopInit
<1>1. LoopTypeOK
  <2>1. immediate \in Seq(Task) OBVIOUS
  <2>2. running \in BOOLEAN /\ signalled \in BOOLEAN BY Zenon
  <2> QED BY <2>1, <2>2 DEF LoopTypeOK
<1>2. TypeOK BY <1>1 DEF TypeOK
<1>3. Sorted /\ Aging BY DEF Sorted, Aging
<1>4. AllPlaced
  BY DEF AllPlaced, Placed, NoRepeats, Has, InHeap
<1>5. NoLostWakeup BY DEF NoLostWakeup, Asleep
<1> QED BY <1>2, <1>3, <1>4, <1>5, Restated DEF IInv

LEMMA Invariance == Spec => []IInv
<1>1. IInv /\ [Next]_vars => IInv'
  BY TypeStep, SortedStep, AgingStep, PlacedStep, NoLostWakeupStep DEF IInv
<1> QED BY <1>1, InitInvariant, PTL DEF Spec

\* Every variable keeps its type, the history of the timers included.
THEOREM Types == Spec => []TypeOK
<1>1. IInv => TypeOK BY DEF IInv
<1> QED BY <1>1, Invariance, PTL

\* However many threads post, and tasks post tasks, while the worker runs and
\* the loop is stopped: a posted task is in one place, and runs once at most.
THEOREM TasksAreKept == Spec => []NoTaskLostOrDoubled
<1>1. IInv => NoTaskLostOrDoubled BY DEF IInv
<1> QED BY <1>1, Invariance, PTL

\* The worker never sleeps with work queued, or told to stop, without a
\* notification on its way.
THEOREM WakeupsAreKept == Spec => []NoLostWakeup
<1>1. IInv => NoLostWakeup BY DEF IInv
<1> QED BY <1>1, Invariance, PTL

\* A timer's task is taken no sooner than its delay, and the timers are taken
\* in the order of their deadlines.
THEOREM TimersInOrder == Spec => DeadlineOrder
<1> DEFINE Fires ==
      \A t \in Timed : current # t /\ current' = t =>
         age[t] >= Delay /\ \A u \in Pending : age[u] <= age[t]
<1>1. IInv /\ [Next]_vars => [Fires]_vars
  <2> SUFFICES ASSUME IInv, [Next]_vars, NEW t \in Timed,
                      current # t, current' = t
               PROVE  age[t] >= Delay /\ \A u \in Pending : age[u] <= age[t]
    OBVIOUS
  <2>0. /\ Aging /\ Sorted /\ t # None /\ t \notin Instant
        /\ scheduled \in SUBSET ScheduledTask /\ age \in [Timed -> Nat]
        /\ Delay \in Nat /\ immediate \in Seq(Task)
    BY LoopAssumption, ThreadsAssumption DEF IInv, TypeOK, LoopTypeOK, Tasks
  <2>1. CASE Worker /\ TakeDue
    <3>1. PICK e \in Earliest : Due(e) /\ current' = e.task
      BY <2>1 DEF TakeDue
    <3>2. /\ e \in scheduled /\ e.task = t /\ e.left <= 0
          /\ \A f \in scheduled : e.left <= f.left
      BY <3>1 DEF Earliest, Due
    <3>3. ASSUME NEW f \in scheduled
          PROVE  /\ f.left \in Int /\ age[f.task] \in Nat
                 /\ age[f.task] + f.left = Delay
      BY <2>0 DEF Aging, Sorted, ScheduledTask
    <3>4. age[t] >= Delay BY <2>0, <3>2, <3>3
    <3>5. ASSUME NEW u \in Pending PROVE age[u] <= age[t]
      <4>1. PICK f \in scheduled : u = f.task BY <3>5 DEF Pending
      <4>2. e.left <= f.left BY <3>2
      <4>3. age[f.task] + f.left = age[e.task] + e.left BY <3>2, <3>3
      <4> QED BY <3>2, <3>3, <4>1, <4>2, <4>3
    <3> QED BY <3>4, <3>5
  <2>2. CASE Worker /\ TakeImmediate
    <3>1. immediate # <<>> /\ t = Head(immediate) BY <2>2 DEF TakeImmediate
    <3>2. 1 \in 1..Len(immediate) /\ t = immediate[1] BY <2>0, <3>1
    <3> QED BY <2>0, <3>2 DEF Sorted
  <2>3. \/ current' \in {current, None}
        \/ Worker /\ (TakeDue \/ TakeImmediate)
    BY StepMoves
       DEF PostPush, PostDelayedPush, PostNotify, Run, FinishTask, Clock, Tick,
           Nothing
  <2> QED BY <2>0, <2>1, <2>2, <2>3
<1> QED BY <1>1, Invariance, PTL DEF Spec, DeadlineOrder

=============================================================================
