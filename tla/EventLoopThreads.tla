--------------------------- MODULE EventLoopThreads ---------------------------
(***************************************************************************)
(* EventLoop used by arbitrary threads, as its public methods allow: every *)
(* task of Instant is given to post() and every task of Timed to           *)
(* post_delayed(), by a thread of its own or from inside another task, and *)
(* one more thread calls stop().                                           *)
(***************************************************************************)
EXTENDS EventLoop

CONSTANTS
    Instant,    \* tasks given to post()
    Timed,      \* tasks given to post_delayed()
    Delay,      \* their delay
    Origin,     \* Origin[t] is the task that posts t; Outside, a thread does
    Outside

Tasks == Instant \cup Timed

ASSUME ThreadsAssumption ==
    /\ Task = Tasks
    /\ Instant \cap Timed = {}
    /\ Outside \notin Tasks
    /\ Delay \in Nat \ {0}
    /\ Origin \in [Tasks -> Tasks \cup {Outside}]

VARIABLES
    post,       \* per task: where its post() or post_delayed() is
    age,        \* per timed task: time since it was posted (history)
    ran,        \* the tasks run so far, oldest first (history)
    stopper     \* where the call of stop() is

callers == <<post, age, ran, stopper>>
vars == <<loopVars, callers>>

Elems(s) == {s[i] : i \in 1..Len(s)}

TypeOK ==
    /\ LoopTypeOK
    /\ post \in [Tasks -> {"before", "pushed", "returned"}]
    /\ age \in [Timed -> Nat]
    /\ ran \in Seq(Tasks)
    /\ stopper \in {"before", "cleared", "joining", "returned"}

Init ==
    /\ LoopInit
    /\ post = [t \in Tasks |-> "before"]
    /\ age = [t \in Timed |-> 0]
    /\ ran = <<>>
    /\ stopper = "before"

-----------------------------------------------------------------------------

\* The thread or the running task that makes the call.
Calls(t) == Origin[t] = Outside \/ current = Origin[t]

PostPush(t) ==
    /\ t \in Instant /\ Calls(t) /\ post[t] = "before"
    /\ Push(t)
    /\ post' = [post EXCEPT ![t] = "pushed"]
    /\ UNCHANGED <<scheduled, running, worker, current, alarm, signalled,
                   age, ran, stopper>>

PostDelayedPush(t) ==
    /\ t \in Timed /\ Calls(t) /\ post[t] = "before"
    /\ PushDelayed(t, Delay)
    /\ post' = [post EXCEPT ![t] = "pushed"]
    /\ UNCHANGED <<immediate, running, worker, current, alarm, signalled,
                   age, ran, stopper>>

\* notify_one() after the mutex is released.
PostNotify(t) ==
    /\ post[t] = "pushed"
    /\ Notify
    /\ post' = [post EXCEPT ![t] = "returned"]
    /\ UNCHANGED <<immediate, scheduled, running, worker, current, alarm,
                   age, ran, stopper>>

\* The task at hand returns, after the calls it makes.
Run ==
    /\ worker = "run"
    /\ \A t \in Tasks : Origin[t] = current => post[t] = "returned"
    /\ FinishTask
    /\ ran' = Append(ran, current)
    /\ UNCHANGED <<immediate, scheduled, running, alarm, signalled,
                   post, age, stopper>>

StopClear ==
    /\ stopper = "before"
    /\ ClearRunning
    /\ stopper' = "cleared"
    /\ UNCHANGED <<immediate, scheduled, worker, current, alarm, signalled,
                   post, age, ran>>

StopNotify ==
    /\ stopper = "cleared"
    /\ Notify
    /\ stopper' = "joining"
    /\ UNCHANGED <<immediate, scheduled, running, worker, current, alarm,
                   post, age, ran>>

StopJoin ==
    /\ stopper = "joining"
    /\ worker = "exited"
    /\ stopper' = "returned"
    /\ UNCHANGED <<loopVars, post, age, ran>>

Worker == (WorkerStep \/ WakeSpuriously) /\ UNCHANGED callers

Pending == {e.task : e \in scheduled}

Clock ==
    /\ Tick
    /\ age' = [t \in Timed |-> IF t \in Pending THEN age[t] + 1 ELSE age[t]]
    /\ UNCHANGED <<post, ran, stopper>>

Next ==
    \/ \E t \in Tasks : PostPush(t) \/ PostDelayedPush(t) \/ PostNotify(t)
    \/ Run
    \/ StopClear \/ StopNotify \/ StopJoin
    \/ Worker
    \/ Clock

\* Every started call returns and the worker and the clock go on; nothing
\* says that a task is ever posted or the loop ever stopped.
Fairness ==
    /\ WF_vars(WorkerStep /\ UNCHANGED callers)
    /\ WF_vars(Run)
    /\ WF_vars(Clock)
    /\ WF_vars(StopNotify) /\ WF_vars(StopJoin)
    /\ \A t \in Tasks : WF_vars(PostNotify(t))
    /\ \A t \in Tasks : WF_vars(current # None /\ Origin[t] = current
                                /\ (PostPush(t) \/ PostDelayedPush(t)))

Spec == Init /\ [][Next]_vars /\ Fairness

-----------------------------------------------------------------------------

\* A posted task is in exactly one place: queued, scheduled, at hand or run;
\* none is dropped, none is run a second time.
Places(t) ==
    {p \in {"queue", "heap", "worker", "ran"} :
        \/ p = "queue" /\ t \in Elems(immediate)
        \/ p = "heap" /\ t \in Pending
        \/ p = "worker" /\ t = current
        \/ p = "ran" /\ t \in Elems(ran)}
NoTaskLostOrDoubled ==
    /\ \A t \in Tasks : IF post[t] = "before" THEN Places(t) = {}
                        ELSE \E p \in Places(t) : Places(t) = {p}
    /\ \A i, j \in 1..Len(immediate) : immediate[i] = immediate[j] => i = j
    /\ \A i, j \in 1..Len(ran) : ran[i] = ran[j] => i = j

\* A worker that sleeps unnotified does so only while the notify_one() of every
\* queued task, and the notify_all() of a stop(), are still to come.
NoLostWakeup ==
    Asleep /\ ~signalled =>
        /\ \A t \in Elems(immediate) : post[t] = "pushed"
        /\ running \/ stopper = "cleared"

\* Whatever woke the worker meanwhile, no timer fires before its delay has passed,
\* and none before one in the heap that has waited longer.
DeadlineOrder ==
    [][\A t \in Timed :
          current # t /\ current' = t =>
              age[t] >= Delay /\ \A u \in Pending : age[u] <= age[t]]_vars

\* While the loop is not stopped, what is posted is eventually run.
PostedRuns ==
    \A t \in Tasks :
        post[t] = "pushed" ~> (t \in Elems(ran) \/ ~running)

\* stop() returns: the worker notices the flag wherever it is, asleep too.
StopReturns == stopper = "cleared" ~> stopper = "returned"

-----------------------------------------------------------------------------
(* The inductive invariant of the proofs.                                  *)

\* The worker holds a task exactly while it runs it; only post() fills the
\* queue and only post_delayed() the heap, where each task has one entry.
Sorted ==
    /\ worker = "run" <=> current # None
    /\ \A i \in 1..Len(immediate) : immediate[i] \in Instant
    /\ \A e \in scheduled : e.task \in Timed
    /\ \A e1, e2 \in scheduled : e1.task = e2.task => e1 = e2

\* What a timer has waited and what it has left add up to the delay.
Aging ==
    /\ \A t \in Timed : post[t] = "before" => age[t] = 0
    /\ \A e \in scheduled : age[e.task] + e.left = Delay

IInv == TypeOK /\ Sorted /\ Aging /\ NoTaskLostOrDoubled /\ NoLostWakeup

=============================================================================
