---------------------------- MODULE ContextProofs ----------------------------
(***************************************************************************)
(* Proofs about Context, for every number of threads, tasks, callbacks and *)
(* guards: a pool thread has no context between callbacks, and may_block   *)
(* speaks for the callback it is called in unless a guard or a Handle was  *)
(* taken elsewhere; whatever call of build fails nothing is left open, and *)
(* the pool is closed when nobody uses it any more.                        *)
(***************************************************************************)
EXTENDS Context, TLAPS

\* The types that the argument needs.
ContextTypes ==
  /\ tls \in [Threads -> Handle]
  /\ run \in [Workers -> Nat]
  /\ own \in [Workers -> Handle]
  /\ started \in Nat
  /\ kept \in Handle
  /\ \A g \in guards : g.previous \in Handle

\* The callback's own guard was made when the thread had no context.
CleanInv ==
  \A w \in Workers : own[w] = NoHandle /\ (run[w] = 0 => tls[w] = NoHandle)

\* Nothing out of order yet: every context, and every context that a guard
\* will restore, is of the callback of its thread or of none.
NestInv ==
  past = {} =>
    /\ \A t \in Threads : tls[t] \in {NoHandle, 0, CallbackOf(t)}
    /\ \A g \in guards : g.previous \in {NoHandle, 0, g.callback}

IInv == ContextTypes /\ CleanInv /\ NestInv

\* What the invariant speaks about.
invVars == <<tls, run, own, started, kept, guards, past>>

USE DEF Threads, Handle, Instance

\* No thread has a context before the pool is built.
LEMMA InitIInv == ContextInit => IInv
<1> SUFFICES ASSUME ContextInit PROVE IInv
  OBVIOUS
<1>1. ContextTypes
  BY ContextAssumption DEF ContextInit, ContextTypes
<1>2. CleanInv /\ NestInv
  BY DEF ContextInit, CleanInv, NestInv
<1> QED
  BY <1>1, <1>2 DEF IInv

\* Steps that change neither a context nor a guard.
LEMMA QuietKeeps ==
  ASSUME IInv, UNCHANGED invVars
  PROVE  IInv'
  BY DEF IInv, ContextTypes, CleanInv, NestInv, CallbackOf, invVars

\* Handle::current hands out what the thread has.
LEMMA KeepKeeps ==
  ASSUME IInv, NEW t \in Threads, Keep(t)
  PROVE  IInv'
  BY DEF Keep, IInv, ContextTypes, CleanInv, NestInv, CallbackOf

\* The guard remembers the context of its thread, which is in a callback or
\* not of the pool.
LEMMA EnterKeeps ==
  ASSUME IInv, NEW t \in Threads, Enter(t)
  PROVE  IInv'
<1> DEFINE g(x) == [id |-> made + 1, home |-> t, callback |-> CallbackOf(t),
                    previous |-> tls[t], of |-> x.of]
<1>1. PICK x \in Reach(t) :
        /\ guards' = guards \cup {g(x)}
        /\ tls' = [tls EXCEPT ![t] = x.h]
        /\ past' = IF x.h \in {0, CallbackOf(t)} THEN past ELSE past \cup {"moved"}
  BY DEF Enter
<1>2. x.h \in Handle
  BY <1>1, ContextAssumption DEF Reach, IInv, ContextTypes
<1>3. /\ UNCHANGED <<run, own, started, kept>>
      /\ t \in Workers => run[t] # 0
  BY DEF Enter, Active
<1>4. g(x).previous = tls[t] /\ g(x).callback = CallbackOf(t)
  OBVIOUS
<1> HIDE DEF g
<1>5. ContextTypes'
  BY <1>1, <1>2, <1>3, <1>4 DEF IInv, ContextTypes
<1>6. CleanInv'
  BY <1>1, <1>3 DEF IInv, ContextTypes, CleanInv
<1>7. NestInv'
  <2> SUFFICES ASSUME past' = {} PROVE NestInv'
    BY DEF NestInv
  <2>1. past = {} /\ x.h \in {0, CallbackOf(t)}
    BY <1>1
  <2>2. \A u \in Threads : tls'[u] \in {NoHandle, 0, CallbackOf(u)'}
    BY <1>1, <1>3, <2>1 DEF IInv, ContextTypes, NestInv, CallbackOf
  <2>3. \A k \in guards' : k.previous \in {NoHandle, 0, k.callback}
    BY <1>1, <1>4, <2>1 DEF IInv, NestInv
  <2> QED
    BY <2>2, <2>3 DEF NestInv
<1> QED
  BY <1>5, <1>6, <1>7 DEF IInv

\* An innermost guard restores a context of its own callback; any other is
\* remembered in past.
LEMMA DropGuardKeeps ==
  ASSUME IInv, NEW t \in Threads, NEW g \in guards, DropGuard(g, t)
  PROVE  IInv'
<1>1. /\ guards' = guards \ {g}
      /\ tls' = [tls EXCEPT ![t] = g.previous]
      /\ UNCHANGED <<run, own, started, kept>>
      /\ t \in Workers => run[t] # 0
  BY DEF DropGuard, Active
<1>2. ContextTypes'
  BY <1>1 DEF IInv, ContextTypes
<1>3. CleanInv'
  BY <1>1 DEF IInv, ContextTypes, CleanInv
<1>4. past' = {} => past = {} /\ g.callback = CallbackOf(t)
  BY DEF DropGuard, Innermost
<1>5. NestInv'
  BY <1>1, <1>4 DEF IInv, ContextTypes, NestInv, CallbackOf
<1> QED
  BY <1>2, <1>3, <1>5 DEF IInv

\* The program lets go of the Threadpool or of a kept Handle.
LEMMA DropHandleKeeps ==
  ASSUME IInv, DropHandle
  PROVE  IInv'
  BY DEF DropHandle, IInv, ContextTypes, CleanInv, NestInv, CallbackOf

\* A callback enters its own Handle, on a thread without context.
LEMMA StartCallbackKeeps ==
  ASSUME IInv, NEW w \in Workers, NEW k \in Tasks, StartCallback(w, k)
  PROVE  IInv'
<1>1. /\ run[w] = 0
      /\ run' = [run EXCEPT ![w] = started + 1]
      /\ own' = [own EXCEPT ![w] = tls[w]]
      /\ tls' = [tls EXCEPT ![w] = started + 1]
      /\ started' = started + 1
      /\ UNCHANGED <<kept, guards, past>>
  BY DEF StartCallback
<1>2. started + 1 \in Instance /\ started + 1 # 0
  BY ContextAssumption DEF StartCallback, IInv, ContextTypes
<1>3. tls[w] = NoHandle
  BY <1>1 DEF IInv, CleanInv
<1>4. ContextTypes'
  BY <1>1, <1>2 DEF IInv, ContextTypes
<1>5. CleanInv'
  BY <1>1, <1>2, <1>3 DEF IInv, ContextTypes, CleanInv
<1>6. NestInv'
  BY <1>1 DEF IInv, ContextTypes, NestInv, CallbackOf
<1> QED
  BY <1>4, <1>5, <1>6 DEF IInv

\* The callback's guard leaves the thread as it was before: without context.
LEMMA EndCallbackKeeps ==
  ASSUME IInv, NEW w \in Workers, EndCallback(w)
  PROVE  IInv'
<1>1. /\ tls' = [tls EXCEPT ![w] = own[w]]
      /\ own' = [own EXCEPT ![w] = NoHandle]
      /\ run' = [run EXCEPT ![w] = 0]
      /\ UNCHANGED <<started, kept, guards, past>>
  BY DEF EndCallback
<1>2. own[w] = NoHandle
  BY DEF IInv, CleanInv
<1>3. ContextTypes'
  BY <1>1 DEF IInv, ContextTypes
<1>4. CleanInv'
  BY <1>1, <1>2 DEF IInv, ContextTypes, CleanInv
<1>5. NestInv'
  BY <1>1, <1>2 DEF IInv, ContextTypes, NestInv, CallbackOf
<1> QED
  BY <1>3, <1>4, <1>5 DEF IInv

\* Every step of Context keeps the invariant.
LEMMA NextKeeps == IInv /\ [ContextNext]_allVars => IInv'
<1> SUFFICES ASSUME IInv, [ContextNext]_allVars PROVE IInv'
  OBVIOUS
<1>1. CASE UNCHANGED allVars
  BY <1>1, QuietKeeps DEF allVars, contextVars, invVars
<1>2. ASSUME NEW t \in Threads, Keep(t) PROVE IInv'
  BY <1>2, KeepKeeps
<1>3. ASSUME NEW t \in Threads, Enter(t) PROVE IInv'
  BY <1>3, EnterKeeps
<1>4. ASSUME NEW t \in Threads, NEW g \in guards, DropGuard(g, t) PROVE IInv'
  BY <1>4, DropGuardKeeps
<1>5. ASSUME NEW t \in Threads, Spawn(t) PROVE IInv'
  BY <1>5, QuietKeeps DEF Spawn, invVars
<1>6. CASE DropHandle
  BY <1>6, DropHandleKeeps
<1>7. ASSUME NEW k \in Tasks, Wake(k) \/ \E inside \in BOOLEAN : Release(k, inside)
      PROVE  IInv'
  BY <1>7, QuietKeeps DEF Wake, Release, invVars
<1>8. ASSUME NEW w \in Workers, NEW k \in Tasks, StartCallback(w, k) PROVE IInv'
  BY <1>8, StartCallbackKeeps
<1>9. ASSUME NEW w \in Workers, EndCallback(w) PROVE IInv'
  BY <1>9, EndCallbackKeeps
<1>10. CASE Building /\ UNCHANGED contextVars
  BY <1>10, QuietKeeps DEF contextVars, invVars
<1> QED
  BY <1>1, <1>2, <1>3, <1>4, <1>5, <1>6, <1>7, <1>8, <1>9, <1>10 DEF ContextNext

\* The invariant holds in every behaviour.
LEMMA Invariance == ContextSpec => []IInv
  BY InitIInv, NextKeeps, PTL DEF ContextSpec

\* Between callbacks a pool thread has no context: ContextGuard's Drop in the
\* work callback (spawn.rs) restores what was there before, which was nothing.
THEOREM ThreadClean == ContextSpec => []PoolThreadClean
<1>1. IInv => PoolThreadClean
  BY DEF IInv, CleanInv, PoolThreadClean
<1> QED
  BY <1>1, Invariance, PTL

\* may_block calls CallbackMayRunLong for the callback it is called in, or not
\* at all, as long as guards and Handles stay where they were made.
THEOREM InstanceOwn == ContextSpec => []InstanceIsOwn
<1>1. IInv => InstanceIsOwn
  BY DEF IInv, NestInv, InstanceIsOwn, may_block
<1> QED
  BY <1>1, Invariance, PTL

-----------------------------------------------------------------------------
(***************************************************************************)
(* The life of the pool: Builder::build, and the drop of the last Handle.  *)
(***************************************************************************)

\* The objects that build has created when it comes to a step.
Created(step) ==
  CASE step \in {"max", "min", "pool"} -> {}
    [] step \in {"limit", "group"} -> {"pool"}
    [] step = "high" -> {"pool", "group"}
    [] step = "normal" -> {"pool", "group", "high"}
    [] step = "low" -> {"pool", "group", "high", "normal"}
    [] OTHER -> Objects

\* Nothing is closed before the end, and everything that is open at the end
\* has been, once or, on two failure paths, twice.
OpenInv ==
  /\ pc \in Steps
  /\ closes \in [Objects -> Nat]
  /\ open \subseteq Objects
  /\ pc \notin {"failed", "dropped"} =>
       open = Created(pc) /\ \A o \in Objects : closes[o] = 0
  /\ pc \in {"failed", "dropped"} => \A o \in open :
       \/ closes[o] = 1
       \/ closes[o] = 2 /\ pc = "failed" /\ "group" \in open /\ o \in {"pool", "group"}

\* build starts with nothing.
LEMMA InitOpen == Init => OpenInv
  BY DEF Init, OpenInv, Steps, Created

\* A step that closes every open object, some of them twice, before the pool
\* was ever closed.
LEMMA CloseAll ==
  ASSUME OpenInv, pc \notin {"failed", "dropped"}, NEW a, NEW b, Close(a, b)
  PROVE  /\ closes' \in [Objects -> Nat]
         /\ \A o \in open : o \in a /\ o \notin b => closes'[o] = 1
         /\ \A o \in open : o \notin a /\ o \in b => closes'[o] = 1
         /\ \A o \in open : o \in a /\ o \in b => closes'[o] = 2
<1>1. \A o \in Objects : closes[o] = 0
  BY DEF OpenInv
<1>2. closes' \in [Objects -> Nat]
  BY <1>1 DEF Close
<1>3. \A o \in open : o \in Objects
  BY DEF OpenInv
<1> QED
  BY <1>1, <1>2, <1>3 DEF Close

\* Every call of build and every change of the limits keeps the account.
LEMMA BuildingOpen ==
  ASSUME OpenInv, Building
  PROVE  OpenInv'
<1> USE DEF Created, Steps, Prios
<1>1. CASE SetMax
  BY <1>1 DEF SetMax, OpenInv
<1>2. CASE SetMin
  BY <1>2 DEF SetMin, OpenInv
<1>3. CASE CreatePool
  BY <1>3 DEF CreatePool, OpenInv, Objects
<1>4. CASE SetLimits
  <2>1. pc = "limit" /\ open = {"pool"} /\ UNCHANGED open
    BY <1>4 DEF SetLimits, OpenInv
  <2>2. CASE pc' = "group" /\ UNCHANGED closes
    BY <2>1, <2>2 DEF OpenInv
  <2>3. CASE pc' = "failed" /\ Close({"pool"}, {})
    <3>1. closes' \in [Objects -> Nat] /\ \A o \in open : closes'[o] = 1
      BY <2>1, <2>3, CloseAll
    <3> QED
      BY <2>1, <2>3, <3>1 DEF OpenInv
  <2> QED
    BY <1>4, <2>2, <2>3 DEF SetLimits
<1>5. CASE CreateGroup
  <2>1. pc = "group" /\ open = {"pool"}
    BY <1>5 DEF CreateGroup, OpenInv
  <2>2. CASE pc' = "high" /\ open' = open \cup {"group"} /\ UNCHANGED closes
    BY <2>1, <2>2 DEF OpenInv, Objects
  <2>3. CASE pc' = "failed" /\ UNCHANGED open /\ Close({"pool"}, {})
    <3>1. closes' \in [Objects -> Nat] /\ \A o \in open : closes'[o] = 1
      BY <2>1, <2>3, CloseAll
    <3> QED
      BY <2>1, <2>3, <3>1 DEF OpenInv
  <2> QED
    BY <1>5, <2>2, <2>3 DEF CreateGroup
<1>6. ASSUME NEW p \in Prios, create_work(p) PROVE OpenInv'
  <2>1. pc = p /\ open = Created(p) /\ \A o \in Objects : closes[o] = 0
    BY <1>6 DEF create_work, OpenInv
  <2>2. CASE pc' = After(p) /\ open' = open \cup {p} /\ UNCHANGED closes
    BY <2>1, <2>2 DEF OpenInv, Objects, After
  <2>3. CASE pc' = "failed" /\ Close(open, {"pool", "group"}) /\ UNCHANGED open
    <3>1. /\ closes' \in [Objects -> Nat]
          /\ \A o \in open : closes'[o] = 1 \/ (closes'[o] = 2 /\ o \in {"pool", "group"})
      <4>1. PICK a, b : a = open /\ b = {"pool", "group"}
        OBVIOUS
      <4>2. pc \notin {"failed", "dropped"} /\ Close(a, b)
        BY <2>1, <2>3, <4>1
      <4>3. /\ closes' \in [Objects -> Nat]
            /\ \A o \in open : o \in a /\ o \notin b => closes'[o] = 1
            /\ \A o \in open : o \in a /\ o \in b => closes'[o] = 2
        BY <4>2, CloseAll
      <4> QED
        BY <4>1, <4>3
    <3>2. "group" \in open
      BY <2>1
    <3> QED
      BY <2>3, <3>1, <3>2 DEF OpenInv
  <2> QED
    BY <1>6, <2>2, <2>3 DEF create_work
<1>7. CASE Startup
  <2>1. pc = "wsa" /\ UNCHANGED open
    BY <1>7 DEF Startup
  <2>2. CASE pc' = "built" /\ UNCHANGED closes
    BY <2>1, <2>2 DEF OpenInv
  <2>3. CASE pc' = "failed" /\ Close({"pool"}, DropInner)
    <3>1. open = Objects
      BY <2>1 DEF OpenInv
    <3>2. /\ closes' \in [Objects -> Nat]
          /\ \A o \in open : closes'[o] = 1 \/ (closes'[o] = 2 /\ o = "pool")
      <4>1. PICK a, b : a = {"pool"} /\ b = open
        OBVIOUS
      <4>2. pc \notin {"failed", "dropped"} /\ Close(a, b)
        BY <2>1, <2>3, <4>1 DEF DropInner
      <4>3. /\ closes' \in [Objects -> Nat]
            /\ \A o \in open : o \notin a /\ o \in b => closes'[o] = 1
            /\ \A o \in open : o \in a /\ o \in b => closes'[o] = 2
        BY <4>2, CloseAll
      <4> QED
        BY <4>1, <4>3
    <3> QED
      BY <2>1, <2>3, <3>1, <3>2 DEF OpenInv, Objects
  <2> QED
    BY <1>7, <2>2, <2>3 DEF Startup
<1>8. ASSUME NEW n, SetMaxThreads(n) PROVE OpenInv'
  BY <1>8 DEF SetMaxThreads, OpenInv
<1>9. ASSUME NEW n, SetMinThreads(n) PROVE OpenInv'
  BY <1>9 DEF SetMinThreads, OpenInv
<1> QED
  BY <1>1, <1>2, <1>3, <1>4, <1>5, <1>6, <1>7, <1>8, <1>9 DEF Building

\* Drop for HandleInner closes what is open, or comes to nothing.
LEMMA DropOpen ==
  ASSUME OpenInv, DropThreadpool \/ DropInside
  PROVE  OpenInv'
<1>1. CASE DropThreadpool
  <2>1. pc = "built" /\ pc' = "dropped" /\ UNCHANGED open /\ Close(open, {})
    BY <1>1 DEF DropThreadpool, DropInner
  <2>2. closes' \in [Objects -> Nat] /\ \A o \in open : closes'[o] = 1
    BY <2>1, CloseAll
  <2> QED
    BY <2>1, <2>2 DEF OpenInv, Steps
<1>2. CASE DropInside
  BY <1>2 DEF DropInside, OpenInv, Steps, Created
<1> QED
  BY <1>1, <1>2

\* Only Building and the drop of the last Handle touch the pool.
LEMMA StepOpen == OpenInv /\ [ContextNext]_allVars => OpenInv'
<1> SUFFICES ASSUME OpenInv, [ContextNext]_allVars PROVE OpenInv'
  OBVIOUS
<1>1. Building \/ DropThreadpool \/ DropInside \/ UNCHANGED vars
  BY DEF ContextNext, allVars, Keep, Enter, DropGuard, Spawn, DropHandle, Wake, Release,
         StartCallback, EndCallback, CloseIfLast
<1>2. CASE UNCHANGED vars
  BY <1>2 DEF vars, OpenInv
<1> QED
  BY <1>1, <1>2, BuildingOpen, DropOpen

\* Whichever call of Builder::build fails, and when the last Handle of the
\* pool goes outside its callbacks, every object that was created is closed,
\* none before, and none twice but the pool and the group on two failure paths.
THEOREM NothingLeaks == ContextSpec => []NoLeak
<1>1. ContextInit => OpenInv
  BY InitOpen DEF ContextInit
<1>2. OpenInv => NoLeak
  BY DEF OpenInv, NoLeak, Created
<1> QED
  BY <1>1, <1>2, StepOpen, PTL DEF ContextSpec

\* A callback runs a task of its own until it returns.
RunInv ==
  /\ task \in [Tasks -> [state : TaskState, instance : Handle]]
  /\ job \in [Workers -> Tasks \cup {0}]
  /\ \A w \in Workers : run[w] # 0 => job[w] # 0 /\ task[job[w]].state = "running"
  /\ \A v, w \in Workers : run[v] # 0 /\ run[w] # 0 /\ job[v] = job[w] => v = w

\* Guards dropped in order: a thread outside the pool has a context only
\* inside a guard of its own, and the outermost one restores none.
GuardInv ==
  /\ made \in Nat
  /\ \A g \in guards :
       /\ g.id \in Nat /\ g.id <= made
       /\ g.home \in Users => g.callback = 0
  /\ "order" \notin past =>
       /\ \A u \in Users : tls[u] # NoHandle => \E g \in guards : g.home = u
       /\ \A g \in guards : (g.home \in Users /\ g.previous # NoHandle) =>
            \E k \in guards : k.home = g.home /\ k.id < g.id

\* The pool is there as long as someone has a Handle, and no longer; until it is
\* built, and when that fails, the program holds what it is building.
RootInv == pc \notin {"built", "dropped", "stuck"} => root
HeldInv == pc \notin {"failed", "dropped", "stuck"} => Held

LifeInv == RunInv /\ GuardInv /\ HeldInv

\* In the beginning the program has the Threadpool and nothing else.
LEMMA InitLife == ContextInit => LifeInv
<1> SUFFICES ASSUME ContextInit PROVE LifeInv
  OBVIOUS
<1>1. RunInv
  BY ContextAssumption DEF ContextInit, RunInv, TaskState
<1>2. GuardInv /\ HeldInv
  BY DEF ContextInit, GuardInv, HeldInv, Held
<1> QED
  BY <1>1, <1>2 DEF LifeInv

\* The drop that closes the pool is the drop of the last Handle.
LEMMA CloseHeld ==
  ASSUME NEW inside, CloseIfLast(inside)
  PROVE  HeldInv'
  BY DEF CloseIfLast, DropThreadpool, DropInside, HeldInv

\* Handle::current adds a Handle.
LEMMA KeepLife ==
  ASSUME IInv, LifeInv, NEW t \in Threads, Keep(t)
  PROVE  LifeInv'
<1>1. RunInv' /\ GuardInv'
  BY DEF Keep, LifeInv, RunInv, GuardInv
<1>2. HeldInv'
  BY DEF Keep, HeldInv, Held
<1> QED
  BY <1>1, <1>2 DEF LifeInv

\* A new guard is the innermost one of its thread.
LEMMA EnterLife ==
  ASSUME IInv, LifeInv, NEW t \in Threads, Enter(t)
  PROVE  LifeInv'
<1> DEFINE h(x) == [id |-> made + 1, home |-> t, callback |-> CallbackOf(t),
                    previous |-> tls[t], of |-> x.of]
<1>1. PICK x \in Reach(t) :
        /\ guards' = guards \cup {h(x)}
        /\ tls' = [tls EXCEPT ![t] = x.h]
        /\ past' = past \/ past' = past \cup {"moved"}
  BY DEF Enter
<1>2. PICK n : n = h(x)
  OBVIOUS
<1>3. /\ n.id = made + 1 /\ n.home = t /\ n.previous = tls[t]
      /\ t \in Users => n.callback = 0
  BY <1>2, ContextAssumption DEF CallbackOf
<1>4. guards' = guards \cup {n}
  BY <1>1, <1>2
<1>5. /\ UNCHANGED <<run, job, task, root, kept, vars>>
      /\ made' = made + 1 /\ made \in Nat
      /\ "order" \in past' <=> "order" \in past
  BY <1>1 DEF Enter, LifeInv, GuardInv
<1>6. tls \in [Threads -> Handle]
  BY DEF IInv, ContextTypes
<1> HIDE DEF h
<1>7. RunInv'
  BY <1>5 DEF LifeInv, RunInv, TaskState
<1>8. GuardInv'
  <2>1. \A g \in guards' :
          /\ g.id \in Nat /\ g.id <= made'
          /\ g.home \in Users => g.callback = 0
    BY <1>3, <1>4, <1>5 DEF LifeInv, GuardInv
  <2> SUFFICES ASSUME "order" \notin past
               PROVE  /\ \A u \in Users : tls'[u] # NoHandle => \E g \in guards' : g.home = u
                      /\ \A g \in guards' : (g.home \in Users /\ g.previous # NoHandle) =>
                           \E k \in guards' : k.home = g.home /\ k.id < g.id
    BY <1>5, <2>1 DEF GuardInv
  <2>2. \A u \in Users : tls'[u] # NoHandle => \E g \in guards' : g.home = u
    BY <1>1, <1>3, <1>4, <1>6 DEF LifeInv, GuardInv
  <2>3. \A g \in guards : (g.home \in Users /\ g.previous # NoHandle) =>
          \E k \in guards' : k.home = g.home /\ k.id < g.id
    BY <1>4 DEF LifeInv, GuardInv
  <2>4. (n.home \in Users /\ n.previous # NoHandle) =>
          \E k \in guards' : k.home = n.home /\ k.id < n.id
    BY <1>3, <1>4, <1>5 DEF LifeInv, GuardInv
  <2> QED
    BY <1>4, <2>2, <2>3, <2>4
<1>9. HeldInv'
  <2>1. CASE root \/ kept # NoHandle
    BY <1>5, <2>1 DEF HeldInv, Held
  <2> QED
    BY <1>1, <2>1 DEF Reach
<1> QED
  BY <1>7, <1>8, <1>9 DEF LifeInv

\* An innermost guard has the others of its thread below it.
LEMMA DropGuardLife ==
  ASSUME IInv, LifeInv, NEW t \in Threads, NEW g \in guards, DropGuard(g, t)
  PROVE  LifeInv'
<1>1. /\ guards' = guards \ {g}
      /\ tls' = [tls EXCEPT ![t] = g.previous]
      /\ UNCHANGED <<run, job, task, made>>
      /\ tls \in [Threads -> Handle]
  BY DEF DropGuard, IInv, ContextTypes
<1>2. RunInv'
  BY <1>1 DEF LifeInv, RunInv, TaskState
<1>3. GuardInv'
  <2> SUFFICES ASSUME "order" \notin past'
               PROVE  /\ \A u \in Users : tls'[u] # NoHandle => \E k \in guards' : k.home = u
                      /\ \A h \in guards' : (h.home \in Users /\ h.previous # NoHandle) =>
                           \E k \in guards' : k.home = h.home /\ k.id < h.id
    BY <1>1 DEF LifeInv, GuardInv
  <2>1. "order" \notin past /\ Innermost(g, t)
    BY DEF DropGuard
  <2>2. g.home = t
    BY <2>1 DEF Innermost
  <2>3. t \in Users => \A k \in guards : k.home = t => k.id <= g.id
    BY <2>1, <2>2 DEF Innermost, LifeInv, GuardInv
  <2>4. \A k \in guards : k.id \in Nat
    BY DEF LifeInv, GuardInv
  <2>5. \A h \in guards : (h.home \in Users /\ h.previous # NoHandle) =>
          \E k \in guards' : k.home = h.home /\ k.id < h.id
    <3> SUFFICES ASSUME NEW h \in guards, h.home \in Users, h.previous # NoHandle
                 PROVE  \E k \in guards' : k.home = h.home /\ k.id < h.id
      OBVIOUS
    <3>1. PICK k \in guards : k.home = h.home /\ k.id < h.id
      BY <2>1 DEF LifeInv, GuardInv
    <3>2. k # g
      BY <2>2, <2>3, <2>4, <3>1
    <3> QED
      BY <1>1, <3>1, <3>2
  <2>6. \A u \in Users : tls'[u] # NoHandle => \E k \in guards' : k.home = u
    <3> SUFFICES ASSUME NEW u \in Users, tls'[u] # NoHandle
                 PROVE  \E k \in guards' : k.home = u
      OBVIOUS
    <3>1. CASE u = t
      BY <1>1, <2>2, <2>5, <3>1
    <3>2. CASE u # t
      <4>1. tls[u] # NoHandle
        BY <1>1, <3>2
      <4>2. PICK k \in guards : k.home = u
        BY <2>1, <4>1 DEF LifeInv, GuardInv
      <4> QED
        BY <1>1, <2>2, <3>2, <4>2
    <3> QED
      BY <3>1, <3>2
  <2> QED
    BY <1>1, <2>5, <2>6
<1>4. HeldInv'
  BY CloseHeld DEF DropGuard
<1> QED
  BY <1>2, <1>3, <1>4 DEF LifeInv

\* The Threadpool or a kept Handle goes, and with the last Handle the pool.
LEMMA DropHandleLife ==
  ASSUME IInv, LifeInv, DropHandle
  PROVE  LifeInv'
<1>1. RunInv' /\ GuardInv'
  BY DEF DropHandle, LifeInv, RunInv, GuardInv
<1>2. HeldInv'
  BY CloseHeld DEF DropHandle
<1> QED
  BY <1>1, <1>2 DEF LifeInv

\* A spawned task holds a Handle.
LEMMA SpawnLife ==
  ASSUME IInv, LifeInv, NEW t \in Threads, Spawn(t)
  PROVE  LifeInv'
<1>1. PICK k \in Tasks, h \in {x.h : x \in Reach(t)} \cup ({tls[t]} \ {NoHandle}) :
        /\ task[k].state = "none"
        /\ task' = [task EXCEPT ![k] = [state |-> "queued", instance |-> h]]
  BY DEF Spawn
<1>2. h \in Handle
  <2>1. CASE h = tls[t]
    BY <2>1 DEF IInv, ContextTypes
  <2>2. CASE h \in {x.h : x \in Reach(t)}
    BY <2>2, ContextAssumption DEF Reach, IInv, ContextTypes
  <2> QED
    BY <1>1, <2>1, <2>2
<1>3. UNCHANGED <<run, job, tls, made, guards, past>>
  BY DEF Spawn
<1>4. task \in [Tasks -> [state : TaskState, instance : Handle]]
  BY DEF LifeInv, RunInv, TaskState
<1>5. RunInv'
  BY <1>1, <1>2, <1>3, <1>4 DEF LifeInv, RunInv, TaskState
<1>6. GuardInv'
  BY <1>3 DEF LifeInv, GuardInv
<1>7. HeldInv'
  BY <1>1, <1>4 DEF HeldInv, Held
<1> QED
  BY <1>5, <1>6, <1>7 DEF LifeInv

\* A task that is woken keeps its Handle.
LEMMA WakeLife ==
  ASSUME IInv, LifeInv, NEW k \in Tasks, Wake(k)
  PROVE  LifeInv'
<1>1. /\ task[k].state = "asleep"
      /\ task' = [task EXCEPT ![k].state = "queued"]
      /\ UNCHANGED <<run, job, tls, made, guards, past>>
  BY DEF Wake
<1>2. RunInv'
  BY <1>1 DEF LifeInv, RunInv, TaskState
<1>3. GuardInv'
  BY <1>1 DEF LifeInv, GuardInv
<1>4. task'[k].state = "queued"
  BY <1>1 DEF LifeInv, RunInv, TaskState
<1>5. HeldInv'
  BY <1>4 DEF HeldInv, Held
<1> QED
  BY <1>2, <1>3, <1>5 DEF LifeInv

\* A task that is deallocated lets go of its Handle.
LEMMA ReleaseLife ==
  ASSUME IInv, LifeInv, NEW k \in Tasks, NEW inside, Release(k, inside)
  PROVE  LifeInv'
<1>1. /\ task[k].state = "over"
      /\ task' = [task EXCEPT ![k].state = "gone"]
      /\ UNCHANGED <<run, job, tls, made, guards, past>>
  BY DEF Release
<1>2. RunInv'
  BY <1>1 DEF LifeInv, RunInv, TaskState
<1>3. GuardInv'
  BY <1>1 DEF LifeInv, GuardInv
<1>4. HeldInv'
  BY CloseHeld DEF Release
<1> QED
  BY <1>2, <1>3, <1>4 DEF LifeInv

\* The callback's Handle is in the thread it runs on.
LEMMA StartCallbackLife ==
  ASSUME IInv, LifeInv, NEW w \in Workers, NEW k \in Tasks, StartCallback(w, k)
  PROVE  LifeInv'
<1>1. /\ task[k].state = "queued"
      /\ run[w] = 0
      /\ run' = [run EXCEPT ![w] = started + 1]
      /\ job' = [job EXCEPT ![w] = k]
      /\ task' = [task EXCEPT ![k].state = "running"]
      /\ tls' = [tls EXCEPT ![w] = started + 1]
      /\ UNCHANGED <<made, guards, past>>
  BY DEF StartCallback
<1>2. /\ tls \in [Threads -> Handle] /\ run \in [Workers -> Nat]
      /\ started \in Nat /\ started + 1 # 0
  BY DEF IInv, ContextTypes
<1>3. k # 0
  BY ContextAssumption DEF Tasks
<1>4. RunInv'
  BY <1>1, <1>2, <1>3 DEF LifeInv, RunInv, TaskState
<1>5. GuardInv'
  BY <1>1, <1>2, ContextAssumption DEF LifeInv, GuardInv
<1>6. HeldInv'
  BY <1>1, <1>2 DEF HeldInv, Held
<1> QED
  BY <1>4, <1>5, <1>6 DEF LifeInv

\* The callback lets go of its Handle, and its task of its own if it is over.
LEMMA EndCallbackLife ==
  ASSUME IInv, LifeInv, NEW w \in Workers, EndCallback(w)
  PROVE  LifeInv'
<1>1. PICK s \in {"asleep", "over", "gone"} : task' = [task EXCEPT ![job[w]].state = s]
  BY DEF EndCallback
<1>2. /\ run[w] # 0
      /\ tls' = [tls EXCEPT ![w] = own[w]]
      /\ run' = [run EXCEPT ![w] = 0]
      /\ job' = [job EXCEPT ![w] = 0]
      /\ UNCHANGED <<made, guards, past>>
  BY DEF EndCallback
<1>3. /\ tls \in [Threads -> Handle]
      /\ run \in [Workers -> Nat]
  BY DEF IInv, ContextTypes
<1>4. job[w] \in Tasks
  BY <1>2 DEF LifeInv, RunInv, TaskState
<1>5. RunInv'
  BY <1>1, <1>2, <1>3, <1>4 DEF LifeInv, RunInv, TaskState
<1>6. GuardInv'
  BY <1>2, <1>3, ContextAssumption DEF LifeInv, GuardInv
<1>7. HeldInv'
  BY CloseHeld DEF EndCallback
<1> QED
  BY <1>5, <1>6, <1>7 DEF LifeInv

\* Building changes no Handle.
LEMMA BuildingLife ==
  ASSUME LifeInv, Building, UNCHANGED contextVars
  PROVE  LifeInv'
<1>1. RunInv' /\ GuardInv'
  BY DEF contextVars, LifeInv, RunInv, GuardInv
<1>2. pc \notin {"failed", "dropped", "stuck"}
  BY DEF Building, SetMax, SetMin, CreatePool, SetLimits, CreateGroup,
         create_work, Startup, SetMaxThreads, SetMinThreads, Prios
<1>3. HeldInv'
  BY <1>2 DEF contextVars, LifeInv, HeldInv, Held
<1> QED
  BY <1>1, <1>3 DEF LifeInv

\* Every step keeps the account of Handles.
LEMMA NextLife == IInv /\ LifeInv /\ [ContextNext]_allVars => LifeInv'
<1> SUFFICES ASSUME IInv, LifeInv, [ContextNext]_allVars PROVE LifeInv'
  OBVIOUS
<1>1. CASE UNCHANGED allVars
  BY <1>1 DEF allVars, contextVars, vars, LifeInv, RunInv, GuardInv, HeldInv, Held
<1>2. ASSUME NEW t \in Threads, Keep(t) PROVE LifeInv'
  BY <1>2, KeepLife
<1>3. ASSUME NEW t \in Threads, Enter(t) PROVE LifeInv'
  BY <1>3, EnterLife
<1>4. ASSUME NEW t \in Threads, NEW g \in guards, DropGuard(g, t) PROVE LifeInv'
  BY <1>4, DropGuardLife
<1>5. ASSUME NEW t \in Threads, Spawn(t) PROVE LifeInv'
  BY <1>5, SpawnLife
<1>6. CASE DropHandle
  BY <1>6, DropHandleLife
<1>7. ASSUME NEW k \in Tasks, Wake(k) \/ \E inside \in BOOLEAN : Release(k, inside)
      PROVE  LifeInv'
  BY <1>7, WakeLife, ReleaseLife
<1>8. ASSUME NEW w \in Workers, NEW k \in Tasks, StartCallback(w, k) PROVE LifeInv'
  BY <1>8, StartCallbackLife
<1>9. ASSUME NEW w \in Workers, EndCallback(w) PROVE LifeInv'
  BY <1>9, EndCallbackLife
<1>10. CASE Building /\ UNCHANGED contextVars
  BY <1>10, BuildingLife
<1> QED
  BY <1>1, <1>2, <1>3, <1>4, <1>5, <1>6, <1>7, <1>8, <1>9, <1>10 DEF ContextNext

\* The program lets go of the pool only when it is built.
LEMMA StepRoot == RootInv /\ [ContextNext]_allVars => RootInv'
<1> SUFFICES ASSUME RootInv, [ContextNext]_allVars PROVE RootInv'
  OBVIOUS
<1>1. CASE UNCHANGED allVars
  BY <1>1 DEF allVars, contextVars, vars, RootInv
<1>2. CASE Building /\ UNCHANGED contextVars
  BY <1>2 DEF contextVars, RootInv, Building, SetMax, SetMin, CreatePool, SetLimits,
              CreateGroup, create_work, Startup, SetMaxThreads, SetMinThreads, Prios
<1>3. CASE DropHandle
  BY <1>3 DEF DropHandle, CloseIfLast, DropThreadpool, DropInside, RootInv, vars
<1>4. CASE root' = root /\ (UNCHANGED vars \/ DropThreadpool \/ DropInside)
  BY <1>4 DEF DropThreadpool, DropInside, RootInv, vars
<1>5. \/ UNCHANGED allVars
      \/ Building /\ UNCHANGED contextVars
      \/ DropHandle
      \/ root' = root /\ (UNCHANGED vars \/ DropThreadpool \/ DropInside)
  BY DEF ContextNext, Keep, Enter, DropGuard, Spawn, Wake, Release, StartCallback,
         EndCallback, CloseIfLast
<1> QED
  BY <1>1, <1>2, <1>3, <1>4, <1>5

\* A pool that nobody uses is closed, or its close waits for itself: Drop for
\* HandleInner is run by whoever drops the last Handle, and only guards dropped
\* out of order hide one.
THEOREM UnusedIsClosed == ContextSpec => []ClosedWhenUnused
<1>1. IInv /\ LifeInv /\ RootInv => ClosedWhenUnused
  <2> SUFFICES ASSUME IInv, LifeInv, RootInv, ~root, kept = NoHandle,
                      guards = {}, "order" \notin past,
                      \A k \in Tasks : task[k].state \in {"none", "gone"}
               PROVE  pc \in {"dropped", "stuck"}
    BY DEF ClosedWhenUnused
  <2>1. \A w \in Workers : run[w] = 0
    BY DEF LifeInv, RunInv, TaskState
  <2>2. \A t \in Threads : tls[t] = NoHandle
    BY <2>1 DEF IInv, CleanInv, LifeInv, GuardInv
  <2>3. ~Held
    BY <2>1, <2>2 DEF Held
  <2> QED
    BY <2>3 DEF LifeInv, HeldInv, RootInv
<1>2. ContextInit => RootInv
  BY DEF ContextInit, RootInv
<1> QED
  BY <1>1, <1>2, StepRoot, InitLife, NextLife, Invariance, PTL DEF ContextSpec

=============================================================================
