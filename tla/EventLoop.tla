------------------------------ MODULE EventLoop ------------------------------
(***************************************************************************)
(* The class EventLoop of async_server_coroutines.cpp: one worker thread   *)
(* that runs the tasks other threads, or the tasks themselves, post to a   *)
(* FIFO queue and to a heap of deadlines.  Both are guarded by one mutex,  *)
(* and the worker sleeps on one condition variable.                        *)
(*                                                                         *)
(* An action is one critical section of tasks_mutex or one access outside  *)
(* it.  A deadline is kept as the time left until it, so that `when <= now'*)
(* reads `left <= 0'; time passes in Tick.  The modules that extend this   *)
(* one say which threads call the operations.                              *)
(***************************************************************************)
EXTENDS Integers, Sequences

CONSTANTS
    Task,       \* what can be posted: a std::function<void()>
    None,       \* the empty std::function
    MaxLate     \* bound of the model: how far the clock runs past a deadline

ASSUME LoopAssumption == None \notin Task /\ MaxLate \in Nat

VARIABLES
    immediate,  \* immediate_tasks: the queue, oldest first
    scheduled,  \* scheduled_tasks: the heap, as a set of ScheduledTask
    running,    \* the flag stop() clears
    worker,     \* where the worker thread is
    current,    \* the task it took and has not finished
    alarm,      \* time left until next_task_time while it is in wait_until
    signalled   \* a notification has reached the sleeping worker

loopVars == <<immediate, scheduled, running, worker, current, alarm, signalled>>

ScheduledTask == [task : Task, left : Int]

Asleep == worker \in {"wait", "waitUntil"}

LoopTypeOK ==
    /\ immediate \in Seq(Task)
    /\ scheduled \in SUBSET ScheduledTask
    /\ running \in BOOLEAN
    /\ worker \in {"check", "look", "wait", "waitUntil", "run", "exited"}
    /\ current \in Task \cup {None}
    /\ alarm \in Int
    /\ signalled \in BOOLEAN

\* start() has returned: the flag is set and the thread created.
LoopInit ==
    /\ immediate = <<>>
    /\ scheduled = {}
    /\ running = TRUE
    /\ worker = "check"
    /\ current = None
    /\ alarm = 0
    /\ signalled = FALSE

-----------------------------------------------------------------------------
(* The operations of the threads that post and of the one that stops.      *)

\* post(), the part under the mutex.  Notify follows it.
\* Mutant: assigns the queue instead of pushing.
PushReplacing(t) == immediate' = <<t>>
Push(t) == immediate' = Append(immediate, t)

\* post_delayed(), the part under the mutex.  Notify follows it.  The code reads
\* the clock before it takes the mutex: a deadline is earlier than here by the
\* wait for the mutex, and no property depends on that.
PushDelayed(t, delay) ==
    scheduled' = scheduled \cup {[task |-> t, left |-> delay]}

\* notify_one() or notify_all() on tasks_cv: lost when nobody sleeps.
\* Mutant: forgotten.
NoNotify == UNCHANGED signalled
Notify == signalled' = (signalled \/ Asleep)

\* stop(), the part under the mutex.  Notify and join() follow it.
ClearRunning == running' = FALSE

-----------------------------------------------------------------------------
(* The worker thread.                                                      *)

\* `while (running)' reads the flag without the mutex.
CheckRunning ==
    /\ worker = "check"
    /\ worker' = IF running THEN "look" ELSE "exited"
    /\ UNCHANGED <<immediate, scheduled, running, current, alarm, signalled>>

\* An immediate task goes first.  Mutant: front() without pop().
TakeImmediateKeep ==
    /\ worker = "look"
    /\ immediate # <<>>
    /\ current' = Head(immediate)
    /\ worker' = "run"
    /\ UNCHANGED <<immediate, scheduled, running, alarm, signalled>>
TakeImmediate ==
    /\ worker = "look"
    /\ immediate # <<>>
    /\ current' = Head(immediate)
    /\ immediate' = Tail(immediate)
    /\ worker' = "run"
    /\ UNCHANGED <<scheduled, running, alarm, signalled>>

\* top() of the heap: a task with the smallest deadline.
\* Mutant: the heap is declared without std::greater.
Latest == {e \in scheduled : \A f \in scheduled : f.left <= e.left}
Earliest == {e \in scheduled : \A f \in scheduled : e.left <= f.left}

\* Its deadline has come.
Due(e) == e.left <= 0

TakeDue ==
    /\ worker = "look"
    /\ immediate = <<>>
    /\ \E e \in Earliest :
          /\ Due(e)
          /\ current' = e.task
          /\ scheduled' = scheduled \ {e}
    /\ worker' = "run"
    /\ UNCHANGED <<immediate, running, alarm, signalled>>

\* The predicate both waits take; it does not look at scheduled_tasks.
\* Mutant: it does not look at running either.
QueueNotEmpty == immediate # <<>>
MayGoOn == immediate # <<>> \/ ~running

\* Nothing to run: wait() when the heap is empty, else wait_until() its top.
\* Neither sleeps when the predicate already holds.  Mutant: always wait().
SleepForever ==
    /\ worker = "look"
    /\ immediate = <<>>
    /\ \A e \in scheduled : ~Due(e)
    /\ worker' = IF MayGoOn THEN "check" ELSE "wait"
    /\ signalled' = FALSE
    /\ UNCHANGED <<immediate, scheduled, running, current, alarm>>
Sleep ==
    /\ worker = "look"
    /\ immediate = <<>>
    /\ \A e \in scheduled : ~Due(e)
    /\ worker' = IF MayGoOn THEN "check"
                 ELSE IF scheduled = {} THEN "wait" ELSE "waitUntil"
    /\ \/ scheduled = {} /\ alarm' = 0
       \/ \E e \in Earliest : alarm' = IF MayGoOn THEN 0 ELSE e.left
    /\ signalled' = FALSE
    /\ UNCHANGED <<immediate, scheduled, running, current>>

\* Waking up is `continue': back to the loop's condition.
LeaveSleep ==
    /\ worker' = "check"
    /\ alarm' = 0
    /\ signalled' = FALSE
    /\ UNCHANGED <<immediate, scheduled, running, current>>

\* A notification: the wait re-evaluates its predicate under the mutex.
WakeNotified ==
    /\ Asleep /\ signalled
    /\ \/ MayGoOn /\ LeaveSleep
       \/ ~MayGoOn /\ signalled' = FALSE
          /\ UNCHANGED <<immediate, scheduled, running, worker, current, alarm>>

\* A condition variable may also wake unasked.
WakeSpuriously == Asleep /\ MayGoOn /\ LeaveSleep

\* wait_until() times out.
WakeOnTime == worker = "waitUntil" /\ alarm <= 0 /\ LeaveSleep

\* The task returns.
FinishTask ==
    /\ worker' = "check"
    /\ current' = None

WorkerStep ==
    \/ CheckRunning
    \/ TakeImmediate
    \/ TakeDue
    \/ Sleep
    \/ WakeNotified
    \/ WakeOnTime

-----------------------------------------------------------------------------

\* The clock.  MaxLate bounds how long the worker may overlook a deadline.
Tick ==
    /\ scheduled # {}
    /\ \A e \in scheduled : e.left > -MaxLate
    /\ worker = "waitUntil" => alarm > -MaxLate
    /\ scheduled' = {[task |-> e.task, left |-> e.left - 1] : e \in scheduled}
    /\ alarm' = IF worker = "waitUntil" THEN alarm - 1 ELSE alarm
    /\ UNCHANGED <<immediate, running, worker, current, signalled>>

=============================================================================
