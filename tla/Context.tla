------------------------------- MODULE Context -------------------------------
(***************************************************************************)
(* The thread-local context (src/src/context.rs), may_block                *)
(* (src/src/task/util.rs), and the context a work callback sets up for the *)
(* task it runs (src/src/task/spawn.rs), on top of a pool built by Builder.*)
(*                                                                         *)
(* A Handle is reduced to its callback_instance: the number of the         *)
(* callback it was made for, 0 for none.  Whoever keeps a Handle keeps the *)
(* pool: the step that drops the last one closes it, or waits for itself   *)
(* when it is made inside a callback of the pool.                          *)
(*                                                                         *)
(* A ContextGuard is Send and may be kept over an await, so guards are     *)
(* dropped on any thread and in any order.                                 *)
(***************************************************************************)
EXTENDS Builder

CONSTANTS Workers,      \* threads of the pool
          Users,        \* other threads
          MaxTasks,     \* tasks spawned
          MaxCallbacks, \* work callbacks started
          MaxGuards,    \* guards the program makes
          NoHandle

ASSUME ContextAssumption ==
  /\ Workers \cap Users = {}
  /\ MaxTasks \in Nat
  /\ MaxCallbacks \in Nat
  /\ MaxGuards \in Nat
  /\ NoHandle \notin Nat

VARIABLES
  tls,    \* HANDLE of each thread
  run,    \* the callback whose Handle each pool thread has, 0 between callbacks
  own,    \* `previous` of that callback's own guard
  job,    \* the task it runs
  task,   \* the tasks: state, and callback_instance of the Handle in schedule
  started,\* callbacks started
  root,   \* the program still has the Threadpool
  kept,   \* a Handle the program got from current() and kept
  guards, \* the guards the program holds
  made,   \* guards made
  past    \* what has happened: "order", "moved"

contextVars == <<tls, run, own, job, task, started, root, kept, guards, made, past>>
allVars == <<contextVars, vars>>

Threads == Workers \cup Users
Tasks == 1 .. MaxTasks
Instance == 0 .. MaxCallbacks
Handle == Instance \cup {NoHandle}
Guard == [id : 1 .. MaxGuards, home : Threads, callback : Instance,
          previous : Handle, of : {"root", "kept"}]

\* "asleep" and "over": suspended or finished, and a JoinHandle or a waker still
\* refers to the task; "gone": it was deallocated.
TaskState == {"none", "queued", "running", "asleep", "over", "gone"}

ContextTypeOK ==
  /\ TypeOK
  /\ tls \in [Threads -> Handle]
  /\ run \in [Workers -> Instance]
  /\ own \in [Workers -> Handle]
  /\ job \in [Workers -> Tasks \cup {0}]
  /\ task \in [Tasks -> [state : TaskState, instance : Instance]]
  /\ started \in Instance
  /\ root \in BOOLEAN
  /\ kept \in Handle
  /\ guards \subseteq Guard
  /\ made \in 0 .. MaxGuards
  /\ past \subseteq {"order", "moved"}

ContextInit ==
  /\ Init
  /\ tls = [t \in Threads |-> NoHandle]
  /\ run = [w \in Workers |-> 0]
  /\ own = [w \in Workers |-> NoHandle]
  /\ job = [w \in Workers |-> 0]
  /\ task = [k \in Tasks |-> [state |-> "none", instance |-> 0]]
  /\ started = 0
  /\ root = TRUE
  /\ kept = NoHandle
  /\ guards = {}
  /\ made = 0
  /\ past = {}

\* The callback that thread t is in; the program's code runs on threads of its
\* own and in callbacks.
CallbackOf(t) == IF t \in Workers THEN run[t] ELSE 0
Active(t) == pc = "built" /\ (t \in Workers => run[t] # 0)

\* Someone has a Handle of the pool; a task has the one in its schedule until
\* it is deallocated, finished or not.
Held ==
  \/ root
  \/ kept # NoHandle
  \/ \E t \in Threads : tls[t] # NoHandle
  \/ \E w \in Workers : run[w] # 0
  \/ \E g \in guards : g.previous # NoHandle
  \/ \E k \in Tasks : task[k].state \notin {"none", "gone"}

\* Drop for HandleInner, by whoever drops the last Handle, inside a callback of
\* the pool or not.
CloseIfLast(inside) ==
  \/ Held' /\ UNCHANGED vars
  \/ ~Held' /\ ~inside /\ DropThreadpool
  \/ ~Held' /\ inside /\ DropInside

-----------------------------------------------------------------------------
(***************************************************************************)
(* Handle::current, Handle::enter and Drop for ContextGuard.               *)
(***************************************************************************)

\* The Handles a thread can lay its hands on.
Reach(t) ==
  (IF root THEN {[h |-> 0, of |-> "root"]} ELSE {})
    \cup (IF kept # NoHandle THEN {[h |-> kept, of |-> "kept"]} ELSE {})

\* Handle::current, with the result kept.
Keep(t) ==
  /\ Active(t)
  /\ tls[t] # NoHandle
  /\ kept = NoHandle
  /\ kept' = tls[t]
  /\ UNCHANGED <<tls, run, own, job, task, started, root, guards, made, past, vars>>

Enter(t) ==
  /\ Active(t)
  /\ made < MaxGuards
  /\ made' = made + 1
  /\ \E x \in Reach(t) :
       /\ guards' = guards \cup {[id |-> made + 1, home |-> t, callback |-> CallbackOf(t),
                                  previous |-> tls[t], of |-> x.of]}
       /\ tls' = [tls EXCEPT ![t] = x.h]
       /\ past' = IF x.h \in {0, CallbackOf(t)} THEN past ELSE past \cup {"moved"}
  /\ UNCHANGED <<run, own, job, task, started, root, kept, vars>>

\* The guard made last of those that thread t made in its callback.
Innermost(g, t) ==
  /\ g.home = t
  /\ g.callback = CallbackOf(t)
  /\ \A k \in guards : (k.home = t /\ k.callback = g.callback) => k.id <= g.id

\* Mutant: nothing is restored if there was no context before.
DropGuard_KeepsLast(g, t) ==
  /\ Active(t)
  /\ guards' = guards \ {g}
  /\ tls' = [tls EXCEPT ![t] = IF g.previous = NoHandle THEN @ ELSE g.previous]
  /\ past' = IF Innermost(g, t) THEN past ELSE past \cup {"order"}
  /\ UNCHANGED <<run, own, job, task, started, root, kept, made>>
  /\ CloseIfLast(t \in Workers)

\* The Handle that is overwritten is dropped with it.
DropGuard(g, t) ==
  /\ Active(t)
  /\ guards' = guards \ {g}
  /\ tls' = [tls EXCEPT ![t] = g.previous]
  /\ past' = IF Innermost(g, t) THEN past ELSE past \cup {"order"}
  /\ UNCHANGED <<run, own, job, task, started, root, kept, made>>
  /\ CloseIfLast(t \in Workers)

\* A guard borrows the Handle it was made with.  (On a pool thread the callback
\* has a Handle of its own, so the one dropped here is not the last.)
DropHandle ==
  /\ pc = "built"
  /\ \/ root /\ root' = FALSE /\ UNCHANGED kept /\ \A g \in guards : g.of # "root"
     \/ kept # NoHandle /\ kept' = NoHandle /\ UNCHANGED root /\ \A g \in guards : g.of # "kept"
  /\ UNCHANGED <<tls, run, own, job, task, started, guards, made, past>>
  /\ CloseIfLast(FALSE)

-----------------------------------------------------------------------------
(***************************************************************************)
(* Handle::spawn and the work callback.                                    *)
(***************************************************************************)

\* spawn clones the Handle into schedule, which queues clones of it: through
\* the Threadpool, a kept Handle, or the free function and current().
Spawn(t) ==
  /\ Active(t)
  /\ \E k \in Tasks, h \in {x.h : x \in Reach(t)} \cup ({tls[t]} \ {NoHandle}) :
       /\ task[k].state = "none"
       /\ \A j \in 1 .. k - 1 : task[j].state # "none"
       /\ task' = [task EXCEPT ![k] = [state |-> "queued", instance |-> h]]
  /\ UNCHANGED <<tls, run, own, job, started, root, kept, guards, made, past, vars>>

\* A waker calls schedule, and so does async_task when the last reference to a
\* suspended task is dropped.
Wake(k) ==
  /\ task[k].state = "asleep"
  /\ task' = [task EXCEPT ![k].state = "queued"]
  /\ UNCHANGED <<tls, run, own, job, started, root, kept, guards, made, past, vars>>

\* The last reference to a finished task is dropped, a JoinHandle or a waker:
\* by the program, or by the wait or I/O callback that had the waker.
Release(k, inside) ==
  /\ task[k].state = "over"
  /\ task' = [task EXCEPT ![k].state = "gone"]
  /\ UNCHANGED <<tls, run, own, job, started, root, kept, guards, made, past>>
  /\ CloseIfLast(inside)

\* Mutant: callback_instance is set only if the queued Handle has none.
StartCallback_Inserts(w, k) ==
  /\ pc = "built"
  /\ run[w] = 0
  /\ task[k].state = "queued"
  /\ started < MaxCallbacks
  /\ started' = started + 1
  /\ run' = [run EXCEPT ![w] = started + 1]
  /\ job' = [job EXCEPT ![w] = k]
  /\ task' = [task EXCEPT ![k].state = "running"]
  /\ own' = [own EXCEPT ![w] = tls[w]]
  /\ tls' = [tls EXCEPT ![w] =
       IF task[k].instance = 0 THEN started + 1 ELSE task[k].instance]
  /\ UNCHANGED <<root, kept, guards, made, past, vars>>

\* callback: the task and its Handle are popped, callback_instance is replaced
\* and the Handle entered.
StartCallback(w, k) ==
  /\ pc = "built"
  /\ run[w] = 0
  /\ task[k].state = "queued"
  /\ started < MaxCallbacks
  /\ started' = started + 1
  /\ run' = [run EXCEPT ![w] = started + 1]
  /\ job' = [job EXCEPT ![w] = k]
  /\ task' = [task EXCEPT ![k].state = "running"]
  /\ own' = [own EXCEPT ![w] = tls[w]]
  /\ tls' = [tls EXCEPT ![w] = started + 1]
  /\ UNCHANGED <<root, kept, guards, made, past, vars>>

\* Mutant: the callback clears the context only if it is still its own.
EndCallback_OnlyOwn(w) ==
  /\ run[w] # 0
  /\ task' \in {[task EXCEPT ![job[w]].state = s] : s \in {"asleep", "over", "gone"}}
  /\ tls' = [tls EXCEPT ![w] = IF @ = run[w] THEN own[w] ELSE @]
  /\ own' = [own EXCEPT ![w] = NoHandle]
  /\ run' = [run EXCEPT ![w] = 0]
  /\ job' = [job EXCEPT ![w] = 0]
  /\ UNCHANGED <<started, root, kept, guards, made, past>>
  /\ CloseIfLast(TRUE)

\* run has returned, the task suspended, over, or deallocated because nothing
\* refers to it: _context and handle go, still inside the callback.
EndCallback(w) ==
  /\ run[w] # 0
  /\ task' \in {[task EXCEPT ![job[w]].state = s] : s \in {"asleep", "over", "gone"}}
  /\ tls' = [tls EXCEPT ![w] = own[w]]
  /\ own' = [own EXCEPT ![w] = NoHandle]
  /\ run' = [run EXCEPT ![w] = 0]
  /\ job' = [job EXCEPT ![w] = 0]
  /\ UNCHANGED <<started, root, kept, guards, made, past>>
  /\ CloseIfLast(TRUE)

ContextNext ==
  \/ \E t \in Threads :
       \/ Keep(t)
       \/ Enter(t)
       \/ \E g \in guards : DropGuard(g, t)
       \/ Spawn(t)
  \/ DropHandle
  \/ \E k \in Tasks : Wake(k) \/ \E inside \in BOOLEAN : Release(k, inside)
  \/ \E w \in Workers : (\E k \in Tasks : StartCallback(w, k)) \/ EndCallback(w)
  \/ Building /\ UNCHANGED contextVars

ContextSpec == ContextInit /\ [][ContextNext]_allVars

-----------------------------------------------------------------------------
(***************************************************************************)
(* Properties.                                                             *)
(***************************************************************************)

\* Handle::may_block: the callback that CallbackMayRunLong is called for, 0 if
\* it is not called.  The free function, and the drop of an IoEvent or an
\* IoHandle's cancel through try_current, call it on the thread's context.
may_block(h) == IF h = NoHandle THEN 0 ELSE h

\* CallbackMayRunLong is called only for the callback that the caller is in,
\* never for one that has returned or is another thread's: whatever Handle a
\* task was spawned through and however often it changes threads.  What can
\* break it is a Handle of a callback entered outside that callback, and a
\* guard dropped out of order or on another thread.  (may_block called on a
\* kept Handle itself, not through the context, is right only inside the
\* callback that the Handle is of.)
InstanceIsOwn ==
  past = {} => \A t \in Threads : Active(t) => may_block(tls[t]) \in {0, CallbackOf(t)}

\* Between callbacks a pool thread has no context, whatever guards were
\* dropped on it or kept over an await: the callback's own guard sets it right.
PoolThreadClean == \A w \in Workers : run[w] = 0 => tls[w] = NoHandle

\* The pool is closed as soon as the Threadpool, the guards and kept Handles are
\* gone and nothing refers to a task any more; or its close waits for itself,
\* because the last Handle went inside a callback.  Guards dropped out of order
\* leave a Handle behind in a thread, which then keeps the pool for good.
ClosedWhenUnused ==
  (/\ ~root /\ kept = NoHandle /\ guards = {}
   /\ \A k \in Tasks : task[k].state \in {"none", "gone"})
     => pc \in {"dropped", "stuck"} \/ "order" \in past

=============================================================================
