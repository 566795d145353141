------------------------------ MODULE Executor ------------------------------
(***************************************************************************)
(* The task executor: Handle::push_task and Drop for HandleInner           *)
(* (src/src/threadpool.rs), spawn, JoinHandle and the work callback        *)
(* (src/src/task/spawn.rs), on top of the async-task crate and the Win32   *)
(* thread pool, which are external.                                        *)
(*                                                                         *)
(* A queue per priority holds runnable tasks; beside it the pool counts    *)
(* work items.  push_task puts a task in the queue and then submits a work *)
(* item, in two steps; a work callback takes whatever task is at the head. *)
(* The pool object lives as long as a Handle does, and every task, every   *)
(* queue entry and every running callback owns one: whoever drops the last *)
(* one closes the pool.                                                    *)
(***************************************************************************)
EXTENDS Naturals, Sequences, FiniteSets

CONSTANTS Tasks,    \* tasks that may be spawned
          Workers,  \* threads of the pool (max_threads)
          Threads,  \* other threads, and code inside the poll of a task
          Callbacks, \* of these, the wait and I/O callbacks of the pool
          Prios,    \* priorities in use
          NoTask

ASSUME ExecutorAssumption ==
  /\ IsFiniteSet(Tasks)
  /\ IsFiniteSet(Workers)
  /\ IsFiniteSet(Threads)
  /\ Workers \cap Threads = {}
  /\ Callbacks \subseteq Threads
  /\ NoTask \notin Tasks

VARIABLES
  queue,   \* TaskQueue.queue of each priority
  work,    \* work items submitted to the pool and not started
  pc,      \* what each actor is doing
  at,      \* the queue it is doing it with
  task,    \* the task it is doing it with
  phase,   \* async-task's state of each task
  closed,  \* its CLOSED flag
  waker,   \* somebody holds a waker of the task
  join,    \* the JoinHandle of each task
  prio,    \* the priority of the Handle in its schedule function
  user,    \* the Threadpool, or another Handle outside tasks, exists
  pool,    \* "open", "closing", "closed"
  closer,  \* who runs Drop for HandleInner
  wild     \* tasks that were detached after they had been deallocated

vars == <<queue, work, pc, at, task, phase, closed, waker, join, prio, user,
          pool, closer, wild>>
poolVars == <<user, pool, closer>>

Actors == Workers \cup Threads
Runnable == {"scheduled", "running", "resched"}
Over == {"completed", "dropped"}

TypeOK ==
  /\ queue \in [Prios -> Seq(Tasks)]
  /\ work \in [Prios -> 0 .. Cardinality(Tasks)]
  /\ pc \in [Actors -> {"idle", "submit", "pop", "run", "poll", "exit",
                        "detach", "closing", "panicked"}]
  /\ at \in [Actors -> Prios]
  /\ task \in [Actors -> Tasks \cup {NoTask}]
  /\ phase \in [Tasks -> {"new", "idle"} \cup Runnable \cup Over]
  /\ closed \in [Tasks -> BOOLEAN]
  /\ waker \in [Tasks -> BOOLEAN]
  /\ join \in [Tasks -> {"none", "held", "cancelling", "gone"}]
  /\ prio \in [Tasks -> Prios]
  /\ user \in BOOLEAN
  /\ pool \in {"open", "closing", "closed"}
  /\ closer \in Actors \cup {"nobody", "user"}
  /\ wild \subseteq Tasks

Init ==
  /\ queue = [p \in Prios |-> <<>>]
  /\ work = [p \in Prios |-> 0]
  /\ pc = [x \in Actors |-> "idle"]
  /\ at \in {[x \in Actors |-> p] : p \in Prios}
  /\ task = [x \in Actors |-> NoTask]
  /\ phase = [t \in Tasks |-> "new"]
  /\ closed = [t \in Tasks |-> FALSE]
  /\ waker = [t \in Tasks |-> FALSE]
  /\ join = [t \in Tasks |-> "none"]
  /\ prio \in [Tasks -> Prios]
  /\ user = TRUE
  /\ pool = "open"
  /\ closer = "nobody"
  /\ wild = {}

-----------------------------------------------------------------------------
(***************************************************************************)
(* References.  A Handle is owned by the user, by the schedule function of *)
(* every task that is not deallocated, and by every callback from its pop  *)
(* to its end.  (A queue entry owns one too, and is a reference to a task.)*)
(***************************************************************************)

Submitting(t) == {x \in Actors : pc[x] = "submit" /\ task[x] = t}

Joined(t) == join[t] \in {"held", "cancelling"}

\* Mutant: the schedule function holds no Handle while its task is queued.
Alive_OnlyOutside(t) == Joined(t) \/ waker[t]

Alive(t) ==
  \/ Joined(t)
  \/ waker[t]
  \/ phase[t] \in Runnable
  \/ Submitting(t) # {}

Held ==
  \/ user
  \/ \E t \in Tasks : Alive(t)
  \/ \E w \in Workers : pc[w] \in {"run", "poll", "submit", "exit"}

\* The end of a step of `who` that gives up references: if a Handle was there
\* and none is left, Drop for HandleInner begins.
MaybeClose(who) ==
  IF Held /\ ~Held'
    THEN pool' = "closing" /\ closer' = who
    ELSE UNCHANGED <<pool, closer>>

-----------------------------------------------------------------------------
\* Mutant: the task is queued and no work item submitted.
Push_NoSubmit(x, t) ==
  /\ queue' = [queue EXCEPT ![prio[t]] = Append(@, t)]
  /\ UNCHANGED <<pc, at, task>>

(***************************************************************************)
(* Handle::push_task, first step: the task is put in the queue.            *)
(***************************************************************************)
Push(x, t) ==
  /\ queue' = [queue EXCEPT ![prio[t]] = Append(@, t)]
  /\ pc' = [pc EXCEPT ![x] = "submit"]
  /\ at' = [at EXCEPT ![x] = prio[t]]
  /\ task' = [task EXCEPT ![x] = t]

\* A reference to t is given up by x.  When it is the last one of a task that
\* is not over, async-task schedules the task once more, closed, so that its
\* future is dropped on the executor.  `others` says whether references remain.
Release(x, t, others) ==
  IF phase[t] = "idle" /\ ~others
    THEN /\ phase' = [phase EXCEPT ![t] = "scheduled"]
         /\ closed' = [closed EXCEPT ![t] = TRUE]
         /\ Push(x, t)
    ELSE UNCHANGED <<queue, pc, at, task, phase, closed>>

\* Handle::spawn, called with the user's Handle or by a running task.
Spawn(x, t) ==
  /\ pc[x] = "idle"
  /\ phase[t] = "new"
  /\ user \/ \E w \in Workers : pc[w] = "poll"
  /\ phase' = [phase EXCEPT ![t] = "scheduled"]
  /\ join' = [join EXCEPT ![t] = "held"]
  /\ Push(x, t)
  /\ UNCHANGED <<work, closed, waker, prio, poolVars, wild>>

\* Waker::wake (keep = FALSE) and wake_by_ref: schedule an idle task, have a
\* running one scheduled again, otherwise nothing.
Wake(x, t, keep) ==
  /\ pc[x] = "idle"
  /\ waker[t]
  /\ waker' = [waker EXCEPT ![t] = keep]
  /\ \/ /\ phase[t] = "idle"
        /\ phase' = [phase EXCEPT ![t] = "scheduled"]
        /\ Push(x, t)
     \/ /\ phase[t] = "running" /\ ~closed[t]
        /\ phase' = [phase EXCEPT ![t] = "resched"]
        /\ UNCHANGED <<queue, pc, at, task>>
     \/ /\ phase[t] \in {"scheduled", "resched"} \cup Over \/ closed[t]
        /\ UNCHANGED <<queue, pc, at, task, phase>>
  /\ UNCHANGED <<work, closed, join, prio, user, wild>>
  /\ MaybeClose(x)

DropWaker(x, t) ==
  /\ pc[x] = "idle"
  /\ waker[t]
  /\ waker' = [waker EXCEPT ![t] = FALSE]
  /\ Release(x, t, Joined(t) \/ Submitting(t) # {})
  /\ UNCHANGED <<work, join, prio, user, wild>>
  /\ MaybeClose(x)

\* push_task is over: the schedule function gives up the reference to its task
\* that it held until then.
ScheduleReturns(x) ==
  /\ LET t == task[x]
         others == Joined(t) \/ waker[t] \/ Submitting(t) # {x}
     IN IF phase[t] = "idle" /\ ~others
          THEN Release(x, t, others)
          ELSE /\ pc' = [pc EXCEPT ![x] = IF x \in Workers THEN "exit" ELSE "idle"]
               /\ task' = [task EXCEPT ![x] = NoTask]
               /\ UNCHANGED <<queue, at, phase, closed>>
  /\ UNCHANGED <<waker, join, prio, user, wild>>
  /\ MaybeClose(x)

\* Mutants: the work item is submitted twice; it is submitted only when none
\* is outstanding.
Submit_Twice(x) ==
  /\ pc[x] = "submit"
  /\ work' = [work EXCEPT ![at[x]] = @ + 2]
  /\ ScheduleReturns(x)
Submit_Coalesced(x) ==
  /\ pc[x] = "submit"
  /\ work' = [work EXCEPT ![at[x]] = 1]
  /\ ScheduleReturns(x)

\* push_task, second step: SubmitThreadpoolWork.
Submit(x) ==
  /\ pc[x] = "submit"
  /\ work' = [work EXCEPT ![at[x]] = @ + 1]
  /\ ScheduleReturns(x)

-----------------------------------------------------------------------------
(***************************************************************************)
(* JoinHandle.                                                             *)
(***************************************************************************)

\* Future for JoinHandle: the task is over (and, if it was closed, the poll
\* panics); the JoinHandle is used up.
JoinTake(x, t) ==
  /\ pc[x] = "idle"
  /\ join[t] = "held"
  /\ phase[t] \in Over
  /\ join' = [join EXCEPT ![t] = "gone"]
  /\ UNCHANGED <<queue, work, pc, at, task, phase, closed, waker, prio, user, wild>>
  /\ MaybeClose(x)

\* Drop for JoinHandle: detach.
JoinDrop(x, t) ==
  /\ pc[x] = "idle"
  /\ join[t] = "held"
  /\ join' = [join EXCEPT ![t] = "gone"]
  /\ Release(x, t, waker[t] \/ Submitting(t) # {})
  /\ UNCHANGED <<work, waker, prio, user, wild>>
  /\ MaybeClose(x)

\* Mutant: an idle task is only marked.
JoinCancel_MarkOnly(x, t) ==
  /\ pc[x] = "idle"
  /\ join[t] = "held"
  /\ join' = [join EXCEPT ![t] = "cancelling"]
  /\ closed' = [closed EXCEPT ![t] = TRUE]
  /\ UNCHANGED <<queue, work, pc, at, task, phase, waker, prio, poolVars, wild>>

\* JoinHandle::cancel: close the task; an idle one is scheduled once more.
JoinCancel(x, t) ==
  /\ pc[x] = "idle"
  /\ join[t] = "held"
  /\ join' = [join EXCEPT ![t] = "cancelling"]
  /\ \/ /\ phase[t] = "idle"
        /\ Release(x, t, FALSE)
     \/ /\ phase[t] \in Runnable
        /\ closed' = [closed EXCEPT ![t] = TRUE]
        /\ UNCHANGED <<queue, pc, at, task, phase>>
     \/ /\ phase[t] \in Over
        /\ UNCHANGED <<queue, pc, at, task, phase, closed>>
  /\ UNCHANGED <<work, waker, prio, poolVars, wild>>

\* ... and its await ends when the future is gone.
JoinCancelled(x, t) ==
  /\ pc[x] = "idle"
  /\ join[t] = "cancelling"
  /\ phase[t] \in Over
  /\ join' = [join EXCEPT ![t] = "gone"]
  /\ UNCHANGED <<queue, work, pc, at, task, phase, closed, waker, prio, user, wild>>
  /\ MaybeClose(x)

\* The future of JoinHandle::cancel is dropped at its await: first the Task it
\* has taken out of the JoinHandle is dropped, which detaches it ...
JoinAbandon(x, t) ==
  /\ pc[x] = "idle"
  /\ join[t] = "cancelling"
  /\ join' = [join EXCEPT ![t] = "gone"]
  /\ pc' = [pc EXCEPT ![x] = "detach"]
  /\ task' = [task EXCEPT ![x] = t]
  /\ UNCHANGED <<queue, work, at, phase, closed, waker, prio, user, wild>>
  /\ MaybeClose(x)

\* ... and then `this`, whose Drop takes the same Task and detaches it again,
\* whether or not the task is still there.
JoinDetachAgain(x) ==
  /\ pc[x] = "detach"
  /\ pc' = [pc EXCEPT ![x] = "idle"]
  /\ task' = [task EXCEPT ![x] = NoTask]
  /\ wild' = IF Alive(task[x]) THEN wild ELSE wild \cup {task[x]}
  /\ UNCHANGED <<queue, work, at, phase, closed, waker, join, prio, poolVars>>

-----------------------------------------------------------------------------
(***************************************************************************)
(* The work callback.                                                      *)
(***************************************************************************)

StartCallback(w, p) ==
  /\ pool = "open"
  /\ pc[w] = "idle"
  /\ work[p] > 0
  /\ work' = [work EXCEPT ![p] = @ - 1]
  /\ pc' = [pc EXCEPT ![w] = "pop"]
  /\ at' = [at EXCEPT ![w] = p]
  /\ UNCHANGED <<queue, task, phase, closed, waker, join, prio, poolVars, wild>>

\* Mutant: the task is left at the head of the queue.
PopTask_Peek(w) ==
  /\ pc[w] = "pop"
  /\ queue[at[w]] # <<>>
  /\ pc' = [pc EXCEPT ![w] = "run"]
  /\ task' = [task EXCEPT ![w] = Head(queue[at[w]])]
  /\ UNCHANGED <<queue, work, at, phase, closed, waker, join, prio, poolVars, wild>>

\* queue.pop().unwrap(), and the task's Handle is entered.
PopTask(w) ==
  /\ pc[w] = "pop"
  /\ IF queue[at[w]] = <<>>
       THEN /\ pc' = [pc EXCEPT ![w] = "panicked"]
            /\ UNCHANGED <<queue, task>>
       ELSE /\ pc' = [pc EXCEPT ![w] = "run"]
            /\ task' = [task EXCEPT ![w] = Head(queue[at[w]])]
            /\ queue' = [queue EXCEPT ![at[w]] = Tail(@)]
  /\ UNCHANGED <<work, at, phase, closed, waker, join, prio, poolVars, wild>>

\* Runnable::run: the future of a closed task is dropped, another is polled.
RunTask(w) ==
  /\ pc[w] = "run"
  /\ LET t == task[w]
     IN IF closed[t]
          THEN /\ phase' = [phase EXCEPT ![t] = "dropped"]
               /\ pc' = [pc EXCEPT ![w] = "exit"]
          ELSE /\ phase' = [phase EXCEPT ![t] = "running"]
               /\ pc' = [pc EXCEPT ![w] = "poll"]
  /\ UNCHANGED <<queue, work, at, task, closed, waker, join, prio, poolVars, wild>>

\* The future clones the waker of its task.
PollRegister(w) ==
  /\ pc[w] = "poll"
  /\ ~waker[task[w]]
  /\ waker' = [waker EXCEPT ![task[w]] = TRUE]
  /\ UNCHANGED <<queue, work, pc, at, task, phase, closed, join, prio, poolVars, wild>>

\* yield_now: the future wakes its own task by reference and goes pending.
YieldNow(w) ==
  /\ pc[w] = "poll"
  /\ phase[task[w]] = "running"
  /\ ~closed[task[w]]
  /\ phase' = [phase EXCEPT ![task[w]] = "resched"]
  /\ UNCHANGED <<queue, work, pc, at, task, closed, waker, join, prio, poolVars, wild>>

\* The future is ready, or panics (caught by catch_unwind).
PollReady(w) ==
  /\ pc[w] = "poll"
  /\ phase' = [phase EXCEPT ![task[w]] = "completed"]
  /\ pc' = [pc EXCEPT ![w] = "exit"]
  /\ UNCHANGED <<queue, work, at, task, closed, waker, join, prio, poolVars, wild>>

PollPanics(w) ==
  /\ pc[w] = "poll"
  /\ phase' = [phase EXCEPT ![task[w]] = "dropped"]
  /\ closed' = [closed EXCEPT ![task[w]] = TRUE]
  /\ pc' = [pc EXCEPT ![w] = "exit"]
  /\ UNCHANGED <<queue, work, at, task, waker, join, prio, poolVars, wild>>

\* The future is pending: it is dropped if the task was closed meanwhile,
\* scheduled again if it was woken meanwhile, and destroyed if nothing
\* refers to it any more.
PollPending(w) ==
  /\ pc[w] = "poll"
  /\ LET t == task[w]
     IN \/ /\ phase[t] = "resched" /\ ~closed[t]
           /\ phase' = [phase EXCEPT ![t] = "scheduled"]
           /\ Push(w, t)
        \/ /\ phase[t] = "running" \/ closed[t]
           /\ phase' = [phase EXCEPT ![t] =
                IF ~closed[t] /\ (Joined(t) \/ waker[t] \/ Submitting(t) # {})
                  THEN "idle" ELSE "dropped"]
           /\ pc' = [pc EXCEPT ![w] = "exit"]
           /\ UNCHANGED <<queue, at, task>>
  /\ UNCHANGED <<work, closed, waker, join, prio, poolVars, wild>>

\* The callback drops its ContextGuard and its Handle and returns; if that
\* Handle was the last, it goes on in Drop for HandleInner instead.
Exit(w) ==
  /\ pc[w] = "exit"
  /\ task' = [task EXCEPT ![w] = NoTask]
  /\ LET last == /\ ~user
                 /\ \A t \in Tasks : ~Alive(t)
                 /\ \A v \in Workers \ {w} : pc[v] \notin {"run", "poll", "submit", "exit"}
     IN pc' = [pc EXCEPT ![w] = IF last THEN "closing" ELSE "idle"]
  /\ UNCHANGED <<queue, work, at, phase, closed, waker, join, prio, user, wild>>
  /\ MaybeClose(w)

-----------------------------------------------------------------------------
(***************************************************************************)
(* The end of the pool.                                                    *)
(***************************************************************************)

\* The Threadpool and all Handles outside tasks are dropped.
DropPool ==
  /\ user
  /\ user' = FALSE
  /\ UNCHANGED <<queue, work, pc, at, task, phase, closed, waker, join, prio, wild>>
  /\ MaybeClose("user")

\* CloseThreadpoolCleanupGroupMembers cancels the work items that have not
\* started and waits for the callbacks that have, of work objects, waits and
\* I/O alike: a closer that is inside one waits for itself.
ClosePool ==
  /\ pool = "closing"
  /\ closer \notin Workers \cup Callbacks
  /\ \A x \in Workers \cup Callbacks : pc[x] = "idle"
  /\ pool' = "closed"
  /\ work' = [p \in Prios |-> 0]
  /\ UNCHANGED <<queue, pc, at, task, phase, closed, waker, join, prio, user, closer, wild>>

-----------------------------------------------------------------------------
ThreadStep(x) ==
  \E t \in Tasks :
    \/ Spawn(x, t)
    \/ \E keep \in BOOLEAN : Wake(x, t, keep)
    \/ DropWaker(x, t)
    \/ JoinTake(x, t)
    \/ JoinDrop(x, t)
    \/ JoinCancel(x, t)
    \/ JoinCancelled(x, t)
    \/ JoinAbandon(x, t)

\* The callbacks of IoEvent and IoHandle: AtomicWaker::wake.
IoCallback(x) == \E t \in Tasks : Wake(x, t, FALSE)

\* A callback runs on from its pop to its end.
CallbackStep(w) ==
  \/ PopTask(w)
  \/ RunTask(w)
  \/ PollReady(w)
  \/ PollPanics(w)
  \/ PollPending(w)
  \/ Exit(w)

Next ==
  \/ \E x \in Threads \ Callbacks : ThreadStep(x) \/ JoinDetachAgain(x)
  \/ \E x \in Callbacks : IoCallback(x)
  \/ \E x \in Actors : Submit(x)
  \/ \E w \in Workers : (\E p \in Prios : StartCallback(w, p))
                        \/ CallbackStep(w) \/ PollRegister(w) \/ YieldNow(w)
  \/ DropPool
  \/ ClosePool

Spec == Init /\ [][Next]_vars

(***************************************************************************)
(* Fairness: a thread inside push_task runs on; the pool starts submitted  *)
(* work items when it has a free thread; polls end.  Nothing is assumed of *)
(* the tasks' owners.                                                      *)
(***************************************************************************)
Fairness ==
  /\ \A x \in Actors : WF_vars(Submit(x))
  /\ \A p \in Prios : WF_vars(\E w \in Workers : StartCallback(w, p))
  /\ \A w \in Workers : WF_vars(CallbackStep(w))
  /\ WF_vars(ClosePool)

FairSpec == Spec /\ Fairness

-----------------------------------------------------------------------------
(***************************************************************************)
(* Properties.                                                             *)
(***************************************************************************)

\* Actors that owe the queue p a work item or a pop.
Owing(p) == {x \in Actors : pc[x] \in {"submit", "pop"} /\ at[x] = p}

\* Every task in a queue is matched by a work item, one that is about to be
\* submitted, or a callback that is about to pop: so no queued task is without
\* a callback, and queue.pop().unwrap() in the work callback never panics.
Accounting ==
  /\ \A p \in Prios : Len(queue[p]) = work[p] + Cardinality(Owing(p))
  /\ \A w \in Workers : pc[w] # "panicked"

\* Occurrences of t as a Runnable: queued, or in the hands of a callback.
Runnables(t) ==
  {e \in Prios \X (1 .. Cardinality(Tasks) + 1) :
     e[2] <= Len(queue[e[1]]) /\ queue[e[1]][e[2]] = t}
  \cup {<<w, 0>> : w \in {v \in Workers : pc[v] \in {"run", "poll"} /\ task[v] = t}}

\* A task that is scheduled or running is in exactly one place, any other
\* in none: no future is ever polled by two callbacks, or lost.
RunnableUnique ==
  \A t \in Tasks :
    Cardinality(Runnables(t)) = IF phase[t] \in Runnable THEN 1 ELSE 0

\* When Drop for HandleInner cancels the outstanding work items there are
\* none: no task that was scheduled is discarded with the pool.
CloseDiscardsNothing ==
  pool # "open" =>
    /\ \A p \in Prios : work[p] = 0 /\ queue[p] = <<>>
    /\ \A x \in Actors : pc[x] \notin {"submit", "pop"}
    /\ \A t \in Tasks : phase[t] \notin Runnable

\* JoinHandle::cancel dropped at its await detaches its task twice.  The second
\* time touches freed memory only if the task was over by then: a cancelled
\* task that is still to run, or running, keeps itself alive.
WildOnlyIfOver == \A t \in wild : phase[t] \in Over

\* A scheduled task is run (or, if it was cancelled, dropped), also when the
\* Threadpool is dropped meanwhile.
ScheduledRuns ==
  \A t \in Tasks : phase[t] = "scheduled" ~> phase[t] # "scheduled"

\* A closed task's future is dropped, so the await in JoinHandle::cancel ends.
CancelEnds ==
  \A t \in Tasks : join[t] = "cancelling" ~> phase[t] \in Over

\* Closing the pool comes to an end, unless it is closed inside one of its own
\* work, wait or I/O callbacks, where it waits for itself.
CloseEnds ==
  (pool = "closing" /\ closer \notin Workers \cup Callbacks) ~> pool = "closed"

=============================================================================
