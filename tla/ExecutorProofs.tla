--------------------------- MODULE ExecutorProofs ---------------------------
(***************************************************************************)
(* Proofs about Executor, for any number of tasks, worker threads, other   *)
(* threads and priorities: work items and queued tasks match, every        *)
(* runnable task is in exactly one place, closing the pool discards none,  *)
(* and a task is detached after its deallocation only if it was over.      *)
(***************************************************************************)
EXTENDS Executor, FiniteSetTheorems, SequenceTheorems, TLAPS

\* TypeOK without the bound on work items, which follows from the rest.
Types ==
  /\ queue \in [Prios -> Seq(Tasks)]
  /\ work \in [Prios -> Nat]
  /\ pc \in [Actors -> {"idle", "submit", "pop", "run", "poll", "exit",
                        "detach", "closing", "panicked"}]
  /\ at \in [Actors -> Prios]
  /\ task \in [Actors -> Tasks \cup {NoTask}]
  /\ phase \in [Tasks -> {"new", "idle"} \cup Runnable \cup Over]
  /\ closed \in [Tasks -> BOOLEAN]
  /\ waker \in [Tasks -> BOOLEAN]
  /\ join \in [Tasks -> {"none", "held", "cancelling", "gone"}]
  /\ prio \in [Tasks -> Prios]
  /\ user \in BOOLEAN
  /\ pool \in {"open", "closing", "closed"}
  /\ closer \in Actors \cup {"nobody", "user"}
  /\ wild \subseteq Tasks

\* Task t is entry i of the queue of its priority.
QueuedAt(t, i) == i \in 1 .. Len(queue[prio[t]]) /\ queue[prio[t]][i] = t

\* A callback has task t and has not yet finished running it.
InHands(w, t) == pc[w] \in {"run", "poll"} /\ task[w] = t

\* A queue holds scheduled tasks of its priority, none twice.
QueueInv ==
  \A p \in Prios : \A i \in 1 .. Len(queue[p]) :
    /\ prio[queue[p][i]] = p
    /\ phase[queue[p][i]] = "scheduled"
    /\ \A j \in 1 .. Len(queue[p]) : queue[p][i] = queue[p][j] => i = j

\* A task that a callback has is not in a queue, and no other callback has it.
HandsInv ==
  \A w \in Workers : \A t \in Tasks : InHands(w, t) =>
    /\ pc[w] = "run" => phase[t] = "scheduled"
    /\ pc[w] = "poll" => phase[t] \in {"running", "resched"}
    /\ \A i \in Nat : ~QueuedAt(t, i)
    /\ \A v \in Workers : InHands(v, t) => v = w

\* A runnable task is in its queue or with a callback.
PlaceInv ==
  \A t \in Tasks : phase[t] \in Runnable =>
    \/ \E i \in Nat : QueuedAt(t, i)
    \/ \E w \in Workers : InHands(w, t)

\* Whoever is between the two steps of push_task, or holds a task, knows which.
ActorInv ==
  /\ \A x \in Actors : pc[x] = "submit" => task[x] \in Tasks /\ at[x] = prio[task[x]]
  /\ \A w \in Workers : pc[w] \in {"run", "poll"} => task[w] \in Tasks
  /\ \A x \in Threads : pc[x] \in {"idle", "submit", "detach"}

\* A closed task is neither new nor idle; one that is being cancelled, or is
\* about to be detached again, is closed or over.
EndInv ==
  /\ \A t \in Tasks : closed[t] => phase[t] \notin {"new", "idle"}
  /\ \A t \in Tasks : join[t] = "cancelling" => closed[t] \/ phase[t] \in Over
  /\ \A x \in Actors : pc[x] = "detach" =>
       task[x] \in Tasks /\ (closed[task[x]] \/ phase[task[x]] \in Over)

\* Drop for HandleInner has begun only if no Handle is left.
CloseInv == pool # "open" => ~Held

IInv ==
  /\ Types
  /\ QueueInv /\ HandsInv /\ PlaceInv
  /\ ActorInv
  /\ EndInv
  /\ WildOnlyIfOver
  /\ Accounting
  /\ CloseInv

-----------------------------------------------------------------------------
(***************************************************************************)
(* The queue and its accounts.                                             *)
(***************************************************************************)

\* The actors that owe a queue something are finitely many.
LEMMA OwingFinite ==
  ASSUME NEW p \in Prios
  PROVE  /\ IsFiniteSet(Owing(p))
         /\ Cardinality(Owing(p)) \in Nat
         /\ IsFiniteSet(Owing(p)')
         /\ Cardinality(Owing(p)') \in Nat
<1>1. IsFiniteSet(Actors)
  BY ExecutorAssumption, FS_Union DEF Actors
<1>2. Owing(p) \in SUBSET Actors /\ Owing(p)' \in SUBSET Actors
  BY DEF Owing, Actors
<1> QED
  BY <1>1, <1>2, FS_Subset, FS_CardinalityType

\* Where a task is after push_task has put it in its queue.
LEMMA PushQueue ==
  ASSUME Types, NEW x \in Actors, NEW t \in Tasks, Push(x, t), prio' = prio
  PROVE  /\ queue' \in [Prios -> Seq(Tasks)]
         /\ \A p \in Prios : p # prio[t] => queue'[p] = queue[p]
         /\ Len(queue'[prio[t]]) = Len(queue[prio[t]]) + 1
         /\ \A p \in Prios : Len(queue[p]) \in Nat
         /\ \A i \in 1 .. Len(queue[prio[t]]) : queue'[prio[t]][i] = queue[prio[t]][i]
         /\ queue'[prio[t]][Len(queue[prio[t]]) + 1] = t
<1>1. /\ queue \in [Prios -> Seq(Tasks)] /\ prio[t] \in Prios
      /\ queue' = [queue EXCEPT ![prio[t]] = Append(queue[prio[t]], t)]
  BY DEF Types, Push
<1>2. queue[prio[t]] \in Seq(Tasks)
  BY <1>1
<1>3. /\ Append(queue[prio[t]], t) \in Seq(Tasks)
      /\ Len(Append(queue[prio[t]], t)) = Len(queue[prio[t]]) + 1
      /\ \A i \in 1 .. Len(queue[prio[t]]) :
           Append(queue[prio[t]], t)[i] = queue[prio[t]][i]
      /\ Append(queue[prio[t]], t)[Len(queue[prio[t]]) + 1] = t
  BY <1>2, AppendProperties
<1>4. queue'[prio[t]] = Append(queue[prio[t]], t)
  BY <1>1
<1>5. \A p \in Prios : Len(queue[p]) \in Nat
  BY <1>1, LenProperties
<1> QED
  BY <1>1, <1>3, <1>4, <1>5

\* A task that is in no queue and in nobody else's hands may be pushed: it is
\* then in its queue and nowhere else, and no other task moves.
LEMMA PushPlaces ==
  ASSUME Types, QueueInv, HandsInv, PlaceInv,
         NEW x \in Actors, NEW t \in Tasks, Push(x, t), prio' = prio,
         phase' = [phase EXCEPT ![t] = "scheduled"],
         \A i \in Nat : ~QueuedAt(t, i),
         \A w \in Workers : InHands(w, t) => w = x,
         \A s \in Tasks : x \in Workers /\ InHands(x, s) => s = t
  PROVE  QueueInv' /\ HandsInv' /\ PlaceInv'
<1> DEFINE P == prio[t]
           L == Len(queue[prio[t]])
<1>1. /\ queue' \in [Prios -> Seq(Tasks)]
      /\ \A p \in Prios : p # P => queue'[p] = queue[p]
      /\ Len(queue'[P]) = L + 1
      /\ \A p \in Prios : Len(queue[p]) \in Nat
      /\ \A i \in 1 .. L : queue'[P][i] = queue[P][i]
      /\ queue'[P][L + 1] = t
  BY PushQueue
<1>2. P \in Prios /\ L \in Nat /\ prio \in [Tasks -> Prios]
  BY <1>1 DEF Types
<1>3. phase'[t] = "scheduled" /\ \A s \in Tasks : s # t => phase'[s] = phase[s]
  BY DEF Types
<1>4. /\ pc' = [pc EXCEPT ![x] = "submit"] /\ task' = [task EXCEPT ![x] = t]
      /\ pc'[x] = "submit"
      /\ \A y \in Actors : y # x => pc'[y] = pc[y] /\ task'[y] = task[y]
  BY DEF Types, Push
<1>5. \A p \in Prios : \A i \in 1 .. Len(queue[p]) : queue[p][i] \in Tasks /\ queue[p][i] # t
  <2>1. \A p \in Prios : queue[p] \in Seq(Tasks)
    BY DEF Types
  <2>2. \A p \in Prios : \A i \in 1 .. Len(queue[p]) : queue[p][i] \in Tasks
    BY <2>1, ElementOfSeq
  <2>3. ASSUME NEW p \in Prios, NEW i \in 1 .. Len(queue[p]), queue[p][i] = t
        PROVE  FALSE
    <3>1. p = prio[t]
      BY <2>3 DEF QueueInv
    <3>2. QueuedAt(t, i) /\ i \in Nat
      BY <2>3, <3>1 DEF QueuedAt
    <3> QED
      BY <3>2
  <2> QED
    BY <2>2, <2>3
<1> HIDE DEF P, L
<1>6. QueueInv'
  <2> SUFFICES ASSUME NEW p \in Prios, NEW i \in 1 .. Len(queue'[p])
               PROVE  /\ prio[queue'[p][i]] = p
                      /\ phase'[queue'[p][i]] = "scheduled"
                      /\ \A j \in 1 .. Len(queue'[p]) :
                           queue'[p][i] = queue'[p][j] => i = j
    BY DEF QueueInv
  <2>1. CASE p # P
    <3>1. queue'[p] = queue[p] /\ i \in 1 .. Len(queue[p])
      BY <2>1, <1>1
    <3> QED
      BY <3>1, <1>3, <1>5 DEF QueueInv
  <2>2. CASE p = P
    <3>1. \A j \in 1 .. L + 1 : j = L + 1 \/ j \in 1 .. L
      BY <1>2
    <3>2. i \in 1 .. L + 1 /\ Len(queue'[p]) = L + 1 /\ L = Len(queue[p])
      BY <2>2, <1>1 DEF L, P
    <3>3. \A j \in 1 .. L : /\ queue'[p][j] = queue[p][j] /\ queue[p][j] # t
                            /\ queue[p][j] \in Tasks
                            /\ prio[queue[p][j]] = p
                            /\ phase[queue[p][j]] = "scheduled"
                            /\ \A k \in 1 .. L : queue[p][j] = queue[p][k] => j = k
      <4>1. \A j \in 1 .. Len(queue[p]) :
              /\ prio[queue[p][j]] = p
              /\ phase[queue[p][j]] = "scheduled"
              /\ \A k \in 1 .. Len(queue[p]) : queue[p][j] = queue[p][k] => j = k
        BY DEF QueueInv
      <4>2. \A j \in 1 .. Len(queue[p]) : queue[p][j] \in Tasks /\ queue[p][j] # t
        BY <1>5
      <4>3. \A j \in 1 .. L : queue'[p][j] = queue[p][j]
        BY <2>2, <1>1
      <4> QED
        BY <4>1, <4>2, <4>3, <3>2
    <3>4. queue'[p][L + 1] = t /\ prio[t] = p
      BY <2>2, <1>1 DEF P
    <3>5. ASSUME NEW j \in 1 .. Len(queue'[p]), queue'[p][i] = queue'[p][j]
          PROVE  i = j
      <4>1. /\ i = L + 1 \/ i \in 1 .. L
            /\ j = L + 1 \/ j \in 1 .. L
        BY <3>1, <3>2
      <4> QED
        BY <4>1, <3>3, <3>4, <3>5
    <3>6. CASE i = L + 1
      BY <3>4, <3>5, <3>6, <1>3
    <3>7. CASE i \in 1 .. L
      BY <3>3, <3>5, <3>7, <1>3
    <3> QED
      BY <3>1, <3>2, <3>6, <3>7
  <2> QED
    BY <2>1, <2>2
<1>7. \A s \in Tasks : s # t => \A i \in Nat : QueuedAt(s, i)' <=> QueuedAt(s, i)
  <2> SUFFICES ASSUME NEW s \in Tasks, s # t, NEW i \in Nat
               PROVE  QueuedAt(s, i)' <=> QueuedAt(s, i)
    OBVIOUS
  <2>1. CASE prio[s] # P
    BY <2>1, <1>1, <1>2 DEF QueuedAt
  <2>2. CASE prio[s] = P
    <3>1. QueuedAt(s, i) <=> i \in 1 .. L /\ queue[P][i] = s
      BY <2>2 DEF QueuedAt, L, P
    <3>2. QueuedAt(s, i)' <=> i \in 1 .. L + 1 /\ queue'[P][i] = s
      BY <2>2, <1>1 DEF QueuedAt
    <3>3. i \in 1 .. L + 1 <=> i \in 1 .. L \/ i = L + 1
      BY <1>2
    <3> QED
      BY <3>1, <3>2, <3>3, <1>1
  <2> QED
    BY <2>1, <2>2
<1>8. \E i \in Nat : QueuedAt(t, i)'
  <2>1. L + 1 \in Nat /\ L + 1 \in 1 .. Len(queue'[P]) /\ queue'[P][L + 1] = t
    BY <1>1, <1>2
  <2>2. P = prio'[t]
    BY DEF P
  <2> QED
    BY <2>1, <2>2 DEF QueuedAt
<1>9. \A w \in Workers : \A s \in Tasks : InHands(w, s)' <=> InHands(w, s) /\ s # t
  BY <1>4 DEF InHands, Actors
<1>10. HandsInv'
  <2> SUFFICES ASSUME NEW w \in Workers, NEW s \in Tasks, InHands(w, s)'
               PROVE  /\ pc'[w] = "run" => phase'[s] = "scheduled"
                      /\ pc'[w] = "poll" => phase'[s] \in {"running", "resched"}
                      /\ \A i \in Nat : ~QueuedAt(s, i)'
                      /\ \A v \in Workers : InHands(v, s)' => v = w
    BY DEF HandsInv
  <2>1. InHands(w, s) /\ s # t
    BY <1>9
  <2>2. w # x /\ w \in Actors
    BY <2>1 DEF Actors
  <2>3. pc'[w] = pc[w] /\ phase'[s] = phase[s]
    BY <2>1, <2>2, <1>3, <1>4
  <2> QED
    BY <2>1, <2>3, <1>7, <1>9 DEF HandsInv
<1>11. PlaceInv'
  <2> SUFFICES ASSUME NEW s \in Tasks, phase'[s] \in Runnable
               PROVE  \/ \E i \in Nat : QueuedAt(s, i)'
                      \/ \E w \in Workers : InHands(w, s)'
    BY DEF PlaceInv, Runnable
  <2>1. CASE s = t
    BY <2>1, <1>8
  <2>2. CASE s # t
    BY <2>2, <1>3, <1>7, <1>9 DEF PlaceInv
  <2> QED
    BY <2>1, <2>2
<1> QED
  BY <1>6, <1>10, <1>11

\* The work item that push_task is about to submit keeps the account straight.
LEMMA PushAccount ==
  ASSUME Types, Accounting, NEW x \in Actors, NEW t \in Tasks, Push(x, t),
         prio' = prio, work' = work, pc[x] \notin {"submit", "pop"}
  PROVE  Accounting'
<1>1. /\ \A p \in Prios : p # prio[t] => queue'[p] = queue[p]
      /\ Len(queue'[prio[t]]) = Len(queue[prio[t]]) + 1
      /\ \A p \in Prios : Len(queue[p]) \in Nat
  BY PushQueue
<1>2. /\ pc' = [pc EXCEPT ![x] = "submit"] /\ at' = [at EXCEPT ![x] = prio[t]]
      /\ prio[t] \in Prios /\ work \in [Prios -> Nat]
  BY DEF Push, Types
<1>3. ASSUME NEW p \in Prios
      PROVE  Len(queue'[p]) = work'[p] + Cardinality(Owing(p)')
  <2>1. Len(queue[p]) = work[p] + Cardinality(Owing(p))
    BY DEF Accounting
  <2>2. CASE p # prio[t]
    <3>1. Owing(p)' = Owing(p)
      BY <2>2, <1>2 DEF Owing, Types
    <3> QED
      BY <2>1, <2>2, <3>1, <1>1
  <2>3. CASE p = prio[t]
    <3>1. Owing(p)' = Owing(p) \cup {x} /\ x \notin Owing(p)
      BY <2>3, <1>2 DEF Owing, Types
    <3>2. Cardinality(Owing(p)') = Cardinality(Owing(p)) + 1
      BY <3>1, OwingFinite, FS_AddElement
    <3>3. /\ Cardinality(Owing(p)) \in Nat /\ work[p] \in Nat /\ work'[p] = work[p]
          /\ Len(queue'[p]) = Len(queue[p]) + 1
      BY <2>3, <1>1, <1>2, OwingFinite
    <3> QED
      BY <2>1, <3>2, <3>3
  <2> QED
    BY <2>2, <2>3
<1>4. \A w \in Workers : pc'[w] # "panicked"
  BY <1>2 DEF Accounting, Types, Actors
<1> QED
  BY <1>3, <1>4 DEF Accounting

\* Steps that move no task keep every task in its place.
LEMMA StillPlaces ==
  ASSUME QueueInv, HandsInv, PlaceInv, Types,
         queue' = queue, prio' = prio,
         \A t \in Tasks : \/ phase'[t] = phase[t]
                          \/ phase[t] = "running" /\ phase'[t] = "resched",
         \A w \in Workers : \A t \in Tasks : InHands(w, t)' <=> InHands(w, t),
         \A w \in Workers : pc[w] \in {"run", "poll"} => pc'[w] = pc[w]
  PROVE  QueueInv' /\ HandsInv' /\ PlaceInv'
<1>1. \A t \in Tasks : \A i \in Nat : QueuedAt(t, i)' <=> QueuedAt(t, i)
  BY DEF QueuedAt
<1>2. QueueInv'
  <2>1. \A p \in Prios : \A i \in 1 .. Len(queue[p]) : queue[p][i] \in Tasks
    BY ElementOfSeq DEF Types
  <2> QED
    BY <2>1 DEF QueueInv
<1>3. HandsInv'
  <2> SUFFICES ASSUME NEW w \in Workers, NEW s \in Tasks, InHands(w, s)'
               PROVE  /\ pc'[w] = "run" => phase'[s] = "scheduled"
                      /\ pc'[w] = "poll" => phase'[s] \in {"running", "resched"}
                      /\ \A i \in Nat : ~QueuedAt(s, i)'
                      /\ \A v \in Workers : InHands(v, s)' => v = w
    BY DEF HandsInv
  <2>1. InHands(w, s) /\ pc'[w] = pc[w]
    BY DEF InHands
  <2>2. /\ pc[w] = "run" => phase[s] = "scheduled"
        /\ pc[w] = "poll" => phase[s] \in {"running", "resched"}
        /\ \A i \in Nat : ~QueuedAt(s, i)
        /\ \A v \in Workers : InHands(v, s) => v = w
    BY <2>1 DEF HandsInv
  <2> QED
    BY <2>1, <2>2, <1>1
<1>4. PlaceInv'
  <2> SUFFICES ASSUME NEW s \in Tasks, phase'[s] \in Runnable
               PROVE  \/ \E i \in Nat : QueuedAt(s, i)'
                      \/ \E w \in Workers : InHands(w, s)'
    BY DEF PlaceInv, Runnable
  <2>1. phase[s] \in Runnable
    BY DEF Runnable
  <2> QED
    BY <2>1, <1>1 DEF PlaceInv
<1> QED
  BY <1>2, <1>3, <1>4

\* Steps that neither queue nor submit nor pop leave the account alone.
LEMMA StillAccount ==
  ASSUME Accounting, queue' = queue, work' = work, at' = at,
         \A x \in Actors : pc'[x] \in {"submit", "pop"} <=> pc[x] \in {"submit", "pop"},
         \A w \in Workers : pc'[w] # "panicked"
  PROVE  Accounting'
<1>1. \A p \in Prios : Owing(p)' = Owing(p)
  BY DEF Owing
<1> QED
  BY <1>1 DEF Accounting

\* A task is closed for good and over for good, and nothing is detached twice
\* unless it was being cancelled.
LEMMA EndKeeps ==
  ASSUME EndInv, WildOnlyIfOver, wild \subseteq Tasks,
         \A t \in Tasks : closed[t] => closed'[t],
         \A t \in Tasks : phase[t] \in Over => phase'[t] \in Over,
         \A t \in Tasks : closed'[t] => phase'[t] \notin {"new", "idle"},
         \A t \in Tasks : join'[t] = "cancelling" =>
           join[t] = "cancelling" \/ closed'[t] \/ phase'[t] \in Over,
         \A x \in Actors : pc'[x] = "detach" =>
           \/ pc[x] = "detach" /\ task'[x] = task[x]
           \/ task'[x] \in Tasks /\ (closed'[task'[x]] \/ phase'[task'[x]] \in Over),
         \A t \in wild' : t \in wild \/ phase'[t] \in Over
  PROVE  EndInv' /\ WildOnlyIfOver'
<1>1. EndInv'
  BY DEF EndInv, Over
<1>2. WildOnlyIfOver'
  BY DEF WildOnlyIfOver, Over
<1> QED
  BY <1>1, <1>2

\* A step of somebody who has a Handle, and closes the pool if none is left.
LEMMA CloseKeeps ==
  ASSUME CloseInv, Held, NEW x, MaybeClose(x) \/ UNCHANGED poolVars
  PROVE  /\ CloseInv'
         /\ pool' = pool \/ pool' = "closing"
         /\ closer' = closer \/ closer' = x
BY DEF CloseInv, MaybeClose, poolVars

\* A thread puts a task that is new or idle in its queue.
LEMMA ThreadPushKeeps ==
  ASSUME IInv, NEW x \in Threads, NEW t \in Tasks,
         pc[x] = "idle", phase[t] \in {"new", "idle"}, Push(x, t),
         phase' = [phase EXCEPT ![t] = "scheduled"],
         closed' = closed \/ closed' = [closed EXCEPT ![t] = TRUE],
         waker' \in [Tasks -> BOOLEAN],
         join' \in [Tasks -> {"none", "held", "cancelling", "gone"}],
         \A s \in Tasks : join'[s] = "cancelling" => join[s] = "cancelling" \/ closed'[s],
         work' = work, prio' = prio, user' = user, wild' = wild,
         pool' = pool \/ pool' = "closing", closer' = closer \/ closer' = x, CloseInv'
  PROVE  IInv'
<1>1. Types /\ QueueInv /\ HandsInv /\ PlaceInv /\ ActorInv /\ EndInv
        /\ WildOnlyIfOver /\ Accounting /\ CloseInv
  BY DEF IInv
<1>2. x \in Actors /\ x \notin Workers
  BY ExecutorAssumption DEF Actors
<1>3. /\ pc' = [pc EXCEPT ![x] = "submit"]
      /\ at' = [at EXCEPT ![x] = prio[t]]
      /\ task' = [task EXCEPT ![x] = t]
  BY DEF Push
<1>4. Types'
  <2>1. queue' \in [Prios -> Seq(Tasks)]
    BY <1>1, <1>2, PushQueue
  <2>2. /\ pc' \in [Actors -> {"idle", "submit", "pop", "run", "poll", "exit",
                        "detach", "closing", "panicked"}]
        /\ at' \in [Actors -> Prios] /\ task' \in [Actors -> Tasks \cup {NoTask}]
        /\ phase' \in [Tasks -> {"new", "idle"} \cup Runnable \cup Over]
    BY <1>1, <1>3 DEF Types, Runnable
  <2>3. closed' \in [Tasks -> BOOLEAN]
    BY <1>1 DEF Types
  <2> QED
    BY <2>1, <2>2, <2>3, <1>1, <1>2 DEF Types
<1>5. QueueInv' /\ HandsInv' /\ PlaceInv'
  <2>1. \A i \in Nat : ~QueuedAt(t, i)
    BY <1>1 DEF QueueInv, QueuedAt, Types
  <2>2. \A w \in Workers : ~InHands(w, t)
    BY <1>1 DEF HandsInv, InHands
  <2> QED
    BY <2>1, <2>2, <1>1, <1>2, PushPlaces
<1>6. Accounting'
  BY <1>1, <1>2, PushAccount
<1>7. ActorInv'
  BY <1>1, <1>2, <1>3 DEF ActorInv, Types, Actors
<1>8. EndInv' /\ WildOnlyIfOver'
  <2>1. /\ wild \subseteq Tasks
        /\ \A s \in Tasks : closed[s] => closed'[s]
        /\ \A s \in Tasks : phase[s] \in Over => phase'[s] \in Over
    BY <1>1 DEF Types, Over
  <2>2. \A s \in Tasks : closed'[s] => phase'[s] \notin {"new", "idle"}
    BY <1>1 DEF EndInv, Types
  <2>3. \A y \in Actors : pc'[y] = "detach" => pc[y] = "detach" /\ task'[y] = task[y]
    BY <1>1, <1>3 DEF Types
  <2> QED
    BY <2>1, <2>2, <2>3, <1>1, EndKeeps
<1> QED
  BY <1>4, <1>5, <1>6, <1>7, <1>8 DEF IInv

\* A thread moves no task: it marks or unmarks one, or has a running one run
\* again.
LEMMA ThreadStillKeeps ==
  ASSUME IInv, NEW x \in Actors \cup {"user"},
         UNCHANGED <<queue, work, pc, at, task, prio, wild>>,
         phase' \in [Tasks -> {"new", "idle"} \cup Runnable \cup Over],
         closed' \in [Tasks -> BOOLEAN], waker' \in [Tasks -> BOOLEAN],
         join' \in [Tasks -> {"none", "held", "cancelling", "gone"}], user' \in BOOLEAN,
         \A t \in Tasks : \/ phase'[t] = phase[t]
                          \/ phase[t] = "running" /\ phase'[t] = "resched",
         \A t \in Tasks : closed[t] => closed'[t],
         \A t \in Tasks : closed'[t] => phase'[t] \notin {"new", "idle"},
         \A t \in Tasks : join'[t] = "cancelling" =>
           join[t] = "cancelling" \/ closed'[t] \/ phase'[t] \in Over,
         pool' = pool \/ pool' = "closing", closer' = closer \/ closer' = x, CloseInv'
  PROVE  IInv'
<1>1. Types /\ QueueInv /\ HandsInv /\ PlaceInv /\ ActorInv /\ EndInv
        /\ WildOnlyIfOver /\ Accounting
  BY DEF IInv
<1>2. Types'
  BY <1>1 DEF Types
<1>3. QueueInv' /\ HandsInv' /\ PlaceInv'
  BY <1>1, StillPlaces DEF InHands
<1>4. Accounting'
  BY <1>1, StillAccount DEF Accounting
<1>5. ActorInv'
  BY <1>1 DEF ActorInv
<1>6. EndInv' /\ WildOnlyIfOver'
  <2>1. wild \subseteq Tasks /\ \A t \in Tasks : phase[t] \in Over => phase'[t] \in Over
    BY <1>1 DEF Types, Over
  <2> QED
    BY <2>1, <1>1, EndKeeps
<1> QED
  BY <1>2, <1>3, <1>4, <1>5, <1>6 DEF IInv

-----------------------------------------------------------------------------
(***************************************************************************)
(* Every step of a thread keeps the invariant.                             *)
(***************************************************************************)

\* Handle::spawn.
LEMMA SpawnKeeps ==
  ASSUME IInv, NEW x \in Threads, NEW t \in Tasks, Spawn(x, t)
  PROVE  IInv'
<1>1. Types /\ CloseInv
  BY DEF IInv
<1>2. Held
  BY DEF Spawn, Held
<1>3. CloseInv' /\ pool' = pool /\ closer' = closer
  BY <1>1, <1>2, CloseKeeps DEF Spawn, poolVars
<1>4. /\ join' \in [Tasks -> {"none", "held", "cancelling", "gone"}]
      /\ \A s \in Tasks : join'[s] = "cancelling" => join[s] = "cancelling"
  BY <1>1 DEF Spawn, Types
<1> QED
  BY <1>1, <1>3, <1>4, ThreadPushKeeps DEF Spawn, Types, poolVars

\* Waker::wake and wake_by_ref.
LEMMA WakeKeeps ==
  ASSUME IInv, NEW x \in Threads, NEW t \in Tasks, NEW keep \in BOOLEAN, Wake(x, t, keep)
  PROVE  IInv'
<1>1. Types /\ CloseInv /\ EndInv
  BY DEF IInv
<1>2. Held
  BY DEF Wake, Held, Alive
<1>3. CloseInv' /\ (pool' = pool \/ pool' = "closing") /\ (closer' = closer \/ closer' = x)
  BY <1>1, <1>2, CloseKeeps DEF Wake
<1>4. /\ waker' \in [Tasks -> BOOLEAN] /\ closed' = closed /\ join' = join
      /\ work' = work /\ prio' = prio /\ user' = user /\ wild' = wild /\ pc[x] = "idle"
  BY <1>1 DEF Wake, Types
<1>5. CASE phase[t] = "idle" /\ phase' = [phase EXCEPT ![t] = "scheduled"] /\ Push(x, t)
  BY <1>1, <1>3, <1>4, <1>5, ThreadPushKeeps DEF Types
<1>6. CASE /\ phase[t] = "running" /\ phase' = [phase EXCEPT ![t] = "resched"]
           /\ UNCHANGED <<queue, pc, at, task>>
  <2>1. /\ phase' \in [Tasks -> {"new", "idle"} \cup Runnable \cup Over]
        /\ \A s \in Tasks : \/ phase'[s] = phase[s]
                            \/ phase[s] = "running" /\ phase'[s] = "resched"
        /\ \A s \in Tasks : closed'[s] => phase'[s] \notin {"new", "idle"}
    <3>1. phase \in [Tasks -> {"new", "idle"} \cup Runnable \cup Over]
      BY <1>1 DEF Types
    <3>2. \A s \in Tasks : closed[s] => phase[s] \notin {"new", "idle"}
      BY <1>1 DEF EndInv
    <3>3. \A s \in Tasks : phase'[s] = IF s = t THEN "resched" ELSE phase[s]
      BY <3>1, <1>6
    <3>4. phase' \in [Tasks -> {"new", "idle"} \cup Runnable \cup Over]
      BY <3>1, <1>6 DEF Runnable
    <3>5. \A s \in Tasks : closed'[s] => phase'[s] \notin {"new", "idle"}
      BY <3>2, <3>3, <1>4
    <3>6. \A s \in Tasks : \/ phase'[s] = phase[s]
                           \/ phase[s] = "running" /\ phase'[s] = "resched"
      BY <3>3, <1>6
    <3> QED
      BY <3>4, <3>5, <3>6
  <2>2. x \in Actors \cup {"user"}
    BY DEF Actors
  <2> QED
    BY <2>1, <2>2, <1>1, <1>3, <1>4, <1>6, ThreadStillKeeps DEF Types
<1>7. CASE UNCHANGED <<queue, pc, at, task, phase>>
  <2>1. x \in Actors \cup {"user"} /\ \A s \in Tasks : closed'[s] => phase'[s] \notin {"new", "idle"}
    BY <1>1, <1>4, <1>7 DEF Actors, EndInv
  <2> QED
    BY <2>1, <1>1, <1>3, <1>4, <1>7, ThreadStillKeeps DEF Types
<1> QED
  BY <1>5, <1>6, <1>7 DEF Wake

\* A thread gives up a reference to a task, the last one or not.
LEMMA ReleaseKeeps ==
  ASSUME IInv, NEW x \in Threads, NEW t \in Tasks, NEW others \in BOOLEAN,
         pc[x] = "idle", Release(x, t, others),
         waker' \in [Tasks -> BOOLEAN],
         join' \in [Tasks -> {"none", "held", "cancelling", "gone"}],
         \A s \in Tasks : join'[s] = "cancelling" => join[s] = "cancelling" \/ closed'[s],
         work' = work, prio' = prio, user' = user, wild' = wild,
         pool' = pool \/ pool' = "closing", closer' = closer \/ closer' = x, CloseInv'
  PROVE  IInv'
<1>1. Types /\ EndInv
  BY DEF IInv
<1>2. CASE phase[t] = "idle" /\ ~others
  BY <1>2, ThreadPushKeeps DEF Release
<1>3. CASE ~(phase[t] = "idle" /\ ~others)
  <2>1. UNCHANGED <<queue, pc, at, task, phase, closed>>
    BY <1>3 DEF Release
  <2>2. x \in Actors \cup {"user"} /\ \A s \in Tasks : closed'[s] => phase'[s] \notin {"new", "idle"}
    BY <1>1, <2>1 DEF Actors, EndInv
  <2> QED
    BY <2>1, <2>2, <1>1, ThreadStillKeeps DEF Types
<1> QED
  BY <1>2, <1>3

\* A Waker is dropped.
LEMMA DropWakerKeeps ==
  ASSUME IInv, NEW x \in Threads, NEW t \in Tasks, DropWaker(x, t)
  PROVE  IInv'
<1>1. Types /\ CloseInv
  BY DEF IInv
<1>2. Held
  BY DEF DropWaker, Held, Alive
<1>3. CloseInv' /\ (pool' = pool \/ pool' = "closing") /\ (closer' = closer \/ closer' = x)
  BY <1>1, <1>2, CloseKeeps DEF DropWaker
<1>4. PICK others \in BOOLEAN : Release(x, t, others)
  BY DEF DropWaker
<1>5. waker' \in [Tasks -> BOOLEAN] /\ join' = join /\ join \in [Tasks -> {"none", "held", "cancelling", "gone"}]
  BY <1>1 DEF DropWaker, Types
<1>6. pc[x] = "idle" /\ work' = work /\ prio' = prio /\ user' = user /\ wild' = wild
  BY DEF DropWaker
<1> QED
  BY <1>3, <1>4, <1>5, <1>6, ReleaseKeeps

\* The JoinHandle is dropped.
LEMMA JoinDropKeeps ==
  ASSUME IInv, NEW x \in Threads, NEW t \in Tasks, JoinDrop(x, t)
  PROVE  IInv'
<1>1. Types /\ CloseInv
  BY DEF IInv
<1>2. Held
  BY DEF JoinDrop, Held, Alive, Joined
<1>3. CloseInv' /\ (pool' = pool \/ pool' = "closing") /\ (closer' = closer \/ closer' = x)
  BY <1>1, <1>2, CloseKeeps DEF JoinDrop
<1>4. PICK others \in BOOLEAN : Release(x, t, others)
  <2>1. (waker[t] \/ Submitting(t) # {}) \in BOOLEAN
    BY <1>1 DEF Types
  <2> QED
    BY <2>1 DEF JoinDrop
<1>5. /\ waker' \in [Tasks -> BOOLEAN]
      /\ join' \in [Tasks -> {"none", "held", "cancelling", "gone"}]
      /\ \A s \in Tasks : join'[s] = "cancelling" => join[s] = "cancelling"
  BY <1>1 DEF JoinDrop, Types
<1>6. pc[x] = "idle" /\ work' = work /\ prio' = prio /\ user' = user /\ wild' = wild
  BY DEF JoinDrop
<1> QED
  BY <1>3, <1>4, <1>5, <1>6, ReleaseKeeps

\* JoinHandle::cancel closes the task.
LEMMA JoinCancelKeeps ==
  ASSUME IInv, NEW x \in Threads, NEW t \in Tasks, JoinCancel(x, t)
  PROVE  IInv'
<1>1. Types /\ CloseInv /\ EndInv
  BY DEF IInv
<1>2. Held
  BY DEF JoinCancel, Held, Alive, Joined
<1>3. CloseInv' /\ pool' = pool /\ closer' = closer
  BY <1>1, <1>2, CloseKeeps DEF JoinCancel, poolVars
<1>4. /\ waker' \in [Tasks -> BOOLEAN]
      /\ join' \in [Tasks -> {"none", "held", "cancelling", "gone"}]
      /\ \A s \in Tasks : s # t => join'[s] = join[s]
  BY <1>1 DEF JoinCancel, Types
<1>5. pc[x] = "idle" /\ work' = work /\ prio' = prio /\ user' = user /\ wild' = wild
  BY DEF JoinCancel, poolVars
<1>6. x \in Actors \cup {"user"}
  BY DEF Actors
<1>7. CASE phase[t] = "idle" /\ Release(x, t, FALSE)
  <2>1. closed'[t]
    BY <1>1, <1>7 DEF Release, Types
  <2> QED
    BY <2>1, <1>3, <1>4, <1>5, <1>7, ReleaseKeeps
<1>8. CASE /\ phase[t] \in Runnable /\ closed' = [closed EXCEPT ![t] = TRUE]
           /\ UNCHANGED <<queue, pc, at, task, phase>>
  <2>1. /\ closed' \in [Tasks -> BOOLEAN] /\ closed'[t]
        /\ \A s \in Tasks : closed[s] => closed'[s]
        /\ \A s \in Tasks : closed'[s] => phase'[s] \notin {"new", "idle"}
    BY <1>1, <1>8 DEF Types, EndInv, Runnable
  <2> QED
    BY <2>1, <1>1, <1>3, <1>4, <1>5, <1>6, <1>8, ThreadStillKeeps DEF Types
<1>9. CASE phase[t] \in Over /\ UNCHANGED <<queue, pc, at, task, phase, closed>>
  <2>1. \A s \in Tasks : closed'[s] => phase'[s] \notin {"new", "idle"}
    BY <1>1, <1>9 DEF EndInv
  <2>2. phase'[t] \in Over
    BY <1>9
  <2> QED
    BY <2>1, <2>2, <1>1, <1>3, <1>4, <1>5, <1>6, <1>9, ThreadStillKeeps DEF Types
<1> QED
  BY <1>7, <1>8, <1>9 DEF JoinCancel

\* The JoinHandle is used up by its await, or by that of cancel.
LEMMA JoinEndKeeps ==
  ASSUME IInv, NEW x \in Threads, NEW t \in Tasks, JoinTake(x, t) \/ JoinCancelled(x, t)
  PROVE  IInv'
<1>1. Types /\ CloseInv /\ EndInv
  BY DEF IInv
<1>2. Held
  BY DEF JoinTake, JoinCancelled, Held, Alive, Joined
<1>3. CloseInv' /\ (pool' = pool \/ pool' = "closing") /\ (closer' = closer \/ closer' = x)
  BY <1>1, <1>2, CloseKeeps DEF JoinTake, JoinCancelled
<1>4. join' = [join EXCEPT ![t] = "gone"]
  BY DEF JoinTake, JoinCancelled
<1>5. UNCHANGED <<queue, work, pc, at, task, phase, closed, waker, prio, user, wild>>
  BY DEF JoinTake, JoinCancelled
<1>6. /\ join' \in [Tasks -> {"none", "held", "cancelling", "gone"}]
      /\ \A s \in Tasks : join'[s] = "cancelling" => join[s] = "cancelling"
      /\ \A s \in Tasks : closed'[s] => phase'[s] \notin {"new", "idle"}
      /\ x \in Actors \cup {"user"}
  BY <1>1, <1>4, <1>5 DEF Types, EndInv, Actors
<1> QED
  BY <1>1, <1>3, <1>5, <1>6, ThreadStillKeeps DEF Types

\* The Threadpool and the last Handles outside tasks are dropped.
LEMMA DropPoolKeeps ==
  ASSUME IInv, DropPool
  PROVE  IInv'
<1>1. Types /\ CloseInv /\ EndInv
  BY DEF IInv
<1>2. Held
  BY DEF DropPool, Held
<1>3. CloseInv' /\ (pool' = pool \/ pool' = "closing") /\ (closer' = closer \/ closer' = "user")
  BY <1>1, <1>2, CloseKeeps DEF DropPool
<1>4. UNCHANGED <<queue, work, pc, at, task, phase, closed, waker, join, prio, wild>>
      /\ user' = FALSE
  BY DEF DropPool
<1>5. \A s \in Tasks : closed'[s] => phase'[s] \notin {"new", "idle"}
  BY <1>1, <1>4 DEF EndInv
<1> QED
  BY <1>1, <1>3, <1>4, <1>5, ThreadStillKeeps DEF Types

\* The future of cancel is dropped at its await: the task is detached once ...
LEMMA JoinAbandonKeeps ==
  ASSUME IInv, NEW x \in Threads, NEW t \in Tasks, JoinAbandon(x, t)
  PROVE  IInv'
<1>1. Types /\ QueueInv /\ HandsInv /\ PlaceInv /\ ActorInv /\ EndInv
        /\ WildOnlyIfOver /\ Accounting /\ CloseInv
  BY DEF IInv
<1>2. Held
  BY DEF JoinAbandon, Held, Alive, Joined
<1>3. CloseInv' /\ (pool' = pool \/ pool' = "closing") /\ (closer' = closer \/ closer' = x)
  BY <1>1, <1>2, CloseKeeps DEF JoinAbandon
<1>4. /\ pc[x] = "idle" /\ join[t] = "cancelling"
      /\ join' = [join EXCEPT ![t] = "gone"]
      /\ pc' = [pc EXCEPT ![x] = "detach"] /\ task' = [task EXCEPT ![x] = t]
      /\ UNCHANGED <<queue, work, at, phase, closed, waker, prio, user, wild>>
  BY DEF JoinAbandon
<1>5. x \in Actors /\ x \notin Workers
  BY ExecutorAssumption DEF Actors
<1>6. Types'
  BY <1>1, <1>3, <1>4, <1>5 DEF Types
<1>7. \A w \in Workers : pc'[w] = pc[w] /\ task'[w] = task[w]
  BY <1>1, <1>4, <1>5 DEF Types, Actors
<1>8. QueueInv' /\ HandsInv' /\ PlaceInv'
  BY <1>1, <1>4, <1>7, StillPlaces DEF InHands
<1>9. Accounting'
  <2>1. \A y \in Actors : pc'[y] \in {"submit", "pop"} <=> pc[y] \in {"submit", "pop"}
    BY <1>1, <1>4 DEF Types
  <2> QED
    BY <2>1, <1>1, <1>4, <1>7, StillAccount DEF Accounting
<1>10. ActorInv'
  BY <1>1, <1>4, <1>5, <1>7 DEF ActorInv, Types
<1>11. EndInv' /\ WildOnlyIfOver'
  <2>1. closed[t] \/ phase[t] \in Over
    BY <1>1, <1>4 DEF EndInv
  <2>2. \A y \in Actors : pc'[y] = "detach" =>
          \/ pc[y] = "detach" /\ task'[y] = task[y]
          \/ task'[y] \in Tasks /\ (closed'[task'[y]] \/ phase'[task'[y]] \in Over)
    BY <2>1, <1>1, <1>4 DEF Types
  <2>3. \A s \in Tasks : join'[s] = "cancelling" => join[s] = "cancelling"
    BY <1>1, <1>4 DEF Types
  <2>4. wild \subseteq Tasks /\ \A s \in Tasks : closed'[s] => phase'[s] \notin {"new", "idle"}
    BY <1>1, <1>4 DEF Types, EndInv
  <2> QED
    BY <2>2, <2>3, <2>4, <1>1, <1>4, EndKeeps
<1> QED
  BY <1>3, <1>6, <1>8, <1>9, <1>10, <1>11 DEF IInv

\* ... and once more: the task it may touch after its end is over.
LEMMA JoinDetachAgainKeeps ==
  ASSUME IInv, NEW x \in Threads, JoinDetachAgain(x)
  PROVE  IInv'
<1>1. Types /\ QueueInv /\ HandsInv /\ PlaceInv /\ ActorInv /\ EndInv
        /\ WildOnlyIfOver /\ Accounting /\ CloseInv
  BY DEF IInv
<1>2. /\ pc[x] = "detach" /\ pc' = [pc EXCEPT ![x] = "idle"]
      /\ task' = [task EXCEPT ![x] = NoTask]
      /\ wild' = IF Alive(task[x]) THEN wild ELSE wild \cup {task[x]}
      /\ UNCHANGED <<queue, work, at, phase, closed, waker, join, prio, user, pool, closer>>
  BY DEF JoinDetachAgain, poolVars
<1>3. x \in Actors /\ x \notin Workers
  BY ExecutorAssumption DEF Actors
<1>4. task[x] \in Tasks /\ (closed[task[x]] \/ phase[task[x]] \in Over)
  BY <1>1, <1>2, <1>3 DEF EndInv
<1>5. Types'
  BY <1>1, <1>2, <1>3, <1>4 DEF Types
<1>6. \A w \in Workers : pc'[w] = pc[w] /\ task'[w] = task[w]
  BY <1>1, <1>2, <1>3 DEF Types, Actors
<1>7. QueueInv' /\ HandsInv' /\ PlaceInv'
  BY <1>1, <1>2, <1>6, StillPlaces DEF InHands
<1>8. Accounting'
  <2>1. \A y \in Actors : pc'[y] \in {"submit", "pop"} <=> pc[y] \in {"submit", "pop"}
    BY <1>1, <1>2 DEF Types
  <2> QED
    BY <2>1, <1>1, <1>2, <1>6, StillAccount DEF Accounting
<1>9. ActorInv'
  BY <1>1, <1>2, <1>3, <1>6 DEF ActorInv, Types
<1>10. ~Alive(task[x]) => phase[task[x]] \in Over
  BY <1>1, <1>4 DEF Alive, EndInv, Types
<1>11. EndInv' /\ WildOnlyIfOver'
  <2>1. /\ wild \subseteq Tasks
        /\ \A s \in Tasks : closed'[s] => phase'[s] \notin {"new", "idle"}
        /\ \A s \in wild' : s \in wild \/ phase'[s] \in Over
    BY <1>1, <1>2, <1>10 DEF Types, EndInv
  <2>2. \A y \in Actors : pc'[y] = "detach" => pc[y] = "detach" /\ task'[y] = task[y]
    BY <1>1, <1>2 DEF Types
  <2> QED
    BY <2>1, <2>2, <1>1, <1>2, EndKeeps
<1>12. CloseInv'
  <2>1. \A t \in Tasks : Submitting(t)' = Submitting(t)
    BY <1>1, <1>2 DEF Submitting, Types
  <2>2. \A t \in Tasks : Alive(t)' <=> Alive(t)
    BY <2>1, <1>2 DEF Alive, Joined
  <2>3. Held' <=> Held
    BY <2>2, <1>2, <1>6 DEF Held
  <2> QED
    BY <2>3, <1>1, <1>2 DEF CloseInv
<1> QED
  BY <1>5, <1>7, <1>8, <1>9, <1>11, <1>12 DEF IInv

-----------------------------------------------------------------------------
(***************************************************************************)
(* push_task's second step, and the pool.                                  *)
(***************************************************************************)

\* Without a Handle there is no runnable task, so no work item either.
LEMMA NothingLeft ==
  ASSUME IInv, ~Held
  PROVE  /\ \A p \in Prios : work[p] = 0 /\ queue[p] = <<>>
         /\ \A x \in Actors : pc[x] \notin {"submit", "pop"}
         /\ \A t \in Tasks : phase[t] \notin Runnable
<1>1. Types /\ QueueInv /\ Accounting
  BY DEF IInv
<1>2. \A t \in Tasks : phase[t] \notin Runnable
  BY DEF Held, Alive
<1>3. ASSUME NEW p \in Prios
      PROVE  queue[p] = <<>> /\ work[p] = 0 /\ Owing(p) = {}
  <2>1. queue[p] \in Seq(Tasks) /\ work[p] \in Nat
    BY <1>1 DEF Types
  <2>2. Len(queue[p]) \in Nat
    BY <2>1, LenProperties
  <2>3. queue[p] = <<>>
    <3>1. SUFFICES ASSUME Len(queue[p]) # 0 PROVE FALSE
      BY <2>1, EmptySeq
    <3>2. 1 \in 1 .. Len(queue[p])
      BY <3>1, <2>2
    <3>3. queue[p][1] \in Tasks
      BY <3>2, <2>1, ElementOfSeq
    <3>4. phase[queue[p][1]] = "scheduled"
      BY <3>2, <1>1 DEF QueueInv
    <3> QED
      BY <3>3, <3>4, <1>2 DEF Runnable
  <2>4. work[p] + Cardinality(Owing(p)) = 0 /\ Cardinality(Owing(p)) \in Nat
    BY <2>3, <1>1, OwingFinite, EmptySeq DEF Accounting
  <2>5. work[p] = 0 /\ Cardinality(Owing(p)) = 0
    BY <2>1, <2>4
  <2> QED
    BY <2>3, <2>5, OwingFinite, FS_EmptySet
<1>4. \A x \in Actors : pc[x] \notin {"submit", "pop"}
  BY <1>1, <1>3 DEF Owing, Types
<1> QED
  BY <1>2, <1>3, <1>4

\* SubmitThreadpoolWork, after which the schedule function gives up its task:
\* if that was the last reference to an idle task, it is pushed once more.
LEMMA SubmitKeeps ==
  ASSUME IInv, NEW x \in Actors, Submit(x)
  PROVE  IInv'
<1>1. Types /\ QueueInv /\ HandsInv /\ PlaceInv /\ ActorInv /\ EndInv
        /\ WildOnlyIfOver /\ Accounting /\ CloseInv
  BY DEF IInv
<1>0. PICK t \in Tasks, p \in Prios : t = task[x] /\ p = at[x] /\ p = prio[t]
  BY <1>1 DEF Submit, ActorInv, Types
<1>2. /\ pc[x] = "submit" /\ work' = [work EXCEPT ![p] = work[p] + 1]
      /\ UNCHANGED <<waker, join, prio, user, wild>>
  BY <1>0 DEF Submit, ScheduleReturns
<1>3. t \in Tasks /\ p = prio[t] /\ p \in Prios /\ work[p] \in Nat
  BY <1>0, <1>1 DEF Types
<1>4. Held
  <2>1. x \in Submitting(t)
    BY <1>0, <1>2 DEF Submitting
  <2> QED
    BY <2>1, <1>3 DEF Held, Alive
<1>5. CloseInv' /\ (pool' = pool \/ pool' = "closing") /\ (closer' = closer \/ closer' = x)
  BY <1>1, <1>4, CloseKeeps DEF Submit, ScheduleReturns
<1>6. work' \in [Prios -> Nat]
  BY <1>1, <1>2, <1>3 DEF Types
<1>7. CASE /\ phase[t] = "idle"
           /\ phase' = [phase EXCEPT ![t] = "scheduled"]
           /\ closed' = [closed EXCEPT ![t] = TRUE]
           /\ Push(x, t)
  <2>1. /\ pc' = [pc EXCEPT ![x] = "submit"] /\ pc' = pc
        /\ at' = [at EXCEPT ![x] = prio[t]] /\ at' = at
        /\ task' = [task EXCEPT ![x] = t] /\ task' = task
    BY <1>0, <1>1, <1>2, <1>7 DEF Push, Types
  <2>2. \A s \in Tasks : ~InHands(x, s)
    BY <1>2 DEF InHands
  <2>3. /\ queue' \in [Prios -> Seq(Tasks)]
        /\ \A q \in Prios : q # prio[t] => queue'[q] = queue[q]
        /\ Len(queue'[prio[t]]) = Len(queue[prio[t]]) + 1
        /\ \A q \in Prios : Len(queue[q]) \in Nat
    BY <1>1, <1>2, <1>3, <1>7, PushQueue
  <2>4. Types'
    <3>1. phase' \in [Tasks -> {"new", "idle"} \cup Runnable \cup Over]
      BY <1>1, <1>7 DEF Types, Runnable
    <3>2. closed' \in [Tasks -> BOOLEAN]
      BY <1>1, <1>7 DEF Types
    <3> QED
      BY <3>1, <3>2, <2>1, <2>3, <1>1, <1>2, <1>5, <1>6 DEF Types
  <2>5. QueueInv' /\ HandsInv' /\ PlaceInv'
    <3>1. \A i \in Nat : ~QueuedAt(t, i)
      BY <1>1, <1>3, <1>7 DEF QueueInv, QueuedAt, Types
    <3>2. \A w \in Workers : ~InHands(w, t)
      BY <1>1, <1>3, <1>7 DEF HandsInv, InHands
    <3> QED
      BY <3>1, <3>2, <2>2, <1>1, <1>2, <1>3, <1>7, PushPlaces
  <2>6. Accounting'
    <3>1. \A q \in Prios : Owing(q)' = Owing(q)
      BY <2>1 DEF Owing
    <3>2. ASSUME NEW q \in Prios
          PROVE  Len(queue'[q]) = work'[q] + Cardinality(Owing(q)')
      <4>1. /\ Len(queue[q]) = work[q] + Cardinality(Owing(q))
            /\ Cardinality(Owing(q)) \in Nat /\ work[q] \in Nat
        BY <1>1, OwingFinite DEF Accounting, Types
      <4>2. CASE q = p
        <5>1. Len(queue'[q]) = Len(queue[q]) + 1 /\ work'[q] = work[q] + 1
          BY <4>2, <2>3, <1>1, <1>2, <1>3 DEF Types
        <5> QED
          BY <4>1, <5>1, <3>1
      <4>3. CASE q # p
        BY <4>1, <4>3, <3>1, <2>3, <1>1, <1>2, <1>3 DEF Types
      <4> QED
        BY <4>2, <4>3
    <3> QED
      BY <3>2, <2>1, <1>1 DEF Accounting
  <2>7. ActorInv'
    BY <2>1, <1>1, <1>2 DEF ActorInv
  <2>8. EndInv' /\ WildOnlyIfOver'
    <3>1. /\ wild \subseteq Tasks
          /\ \A s \in Tasks : closed[s] => closed'[s]
          /\ \A s \in Tasks : phase[s] \in Over => phase'[s] \in Over
      BY <1>1, <1>7 DEF Types, Over
    <3>2. \A s \in Tasks : closed'[s] => phase'[s] \notin {"new", "idle"}
      BY <1>1, <1>7 DEF EndInv, Types
    <3> QED
      BY <3>1, <3>2, <2>1, <1>1, <1>2, EndKeeps
  <2> QED
    BY <2>4, <2>5, <2>6, <2>7, <2>8, <1>5 DEF IInv
<1>8. CASE /\ pc' = [pc EXCEPT ![x] = IF x \in Workers THEN "exit" ELSE "idle"]
           /\ task' = [task EXCEPT ![x] = NoTask]
           /\ UNCHANGED <<queue, at, phase, closed>>
  <2>1. Types'
    BY <1>1, <1>2, <1>5, <1>6, <1>8 DEF Types
  <2>2. \A y \in Actors : y # x => pc'[y] = pc[y] /\ task'[y] = task[y]
    BY <1>1, <1>8 DEF Types
  <2>3. pc'[x] \in {"exit", "idle"} /\ (x \in Threads => pc'[x] = "idle")
    BY <1>1, <1>8, ExecutorAssumption DEF Types
  <2>4. QueueInv' /\ HandsInv' /\ PlaceInv'
    <3>1. \A w \in Workers : pc[w] \in {"run", "poll"} <=> pc'[w] \in {"run", "poll"}
      BY <2>2, <2>3, <1>2 DEF Actors
    <3>2. \A w \in Workers : pc[w] \in {"run", "poll"} => pc'[w] = pc[w]
      BY <2>2, <2>3, <1>2 DEF Actors
    <3> QED
      BY <3>1, <3>2, <1>1, <1>2, <1>8, StillPlaces DEF InHands
  <2>5. Accounting'
    <3>1. \A q \in Prios : q # p => Owing(q)' = Owing(q)
      BY <2>2, <2>3, <1>0, <1>2, <1>8 DEF Owing
    <3>2. Owing(p)' = Owing(p) \ {x} /\ x \in Owing(p)
      BY <2>2, <2>3, <1>0, <1>2, <1>8 DEF Owing
    <3>3. Cardinality(Owing(p)') = Cardinality(Owing(p)) - 1
      BY <3>2, <1>3, OwingFinite, FS_RemoveElement
    <3>4. ASSUME NEW q \in Prios
          PROVE  Len(queue'[q]) = work'[q] + Cardinality(Owing(q)')
      <4>1. /\ Len(queue[q]) = work[q] + Cardinality(Owing(q))
            /\ Cardinality(Owing(q)) \in Nat /\ work[q] \in Nat
        BY <1>1, OwingFinite DEF Accounting, Types
      <4>2. CASE q = p
        <5>1. work'[q] = work[q] + 1
          BY <4>2, <1>1, <1>2, <1>3 DEF Types
        <5>2. Cardinality(Owing(q)') = Cardinality(Owing(q)) - 1 /\ queue' = queue
          BY <4>2, <3>3, <1>8
        <5> QED
          BY <4>1, <5>1, <5>2
      <4>3. CASE q # p
        BY <4>1, <4>3, <3>1, <1>1, <1>2, <1>3, <1>8 DEF Types
      <4> QED
        BY <4>2, <4>3
    <3>5. \A w \in Workers : pc'[w] # "panicked"
      BY <2>2, <2>3, <1>1 DEF Accounting, Actors
    <3> QED
      BY <3>4, <3>5 DEF Accounting
  <2>6. ActorInv'
    BY <2>2, <2>3, <1>1, <1>2, <1>8 DEF ActorInv, Actors
  <2>7. EndInv' /\ WildOnlyIfOver'
    <3>1. wild \subseteq Tasks /\ \A s \in Tasks : closed'[s] => phase'[s] \notin {"new", "idle"}
      BY <1>1, <1>8 DEF Types, EndInv
    <3>2. \A y \in Actors : pc'[y] = "detach" => pc[y] = "detach" /\ task'[y] = task[y]
      BY <2>2, <2>3, <1>8
    <3> QED
      BY <3>1, <3>2, <1>1, <1>2, <1>8, EndKeeps
  <2> QED
    BY <2>1, <2>4, <2>5, <2>6, <2>7, <1>5 DEF IInv
<1> QED
  BY <1>0, <1>7, <1>8 DEF Submit, ScheduleReturns, Release

\* The pool starts a work item.
LEMMA StartCallbackKeeps ==
  ASSUME IInv, NEW w \in Workers, NEW p \in Prios, StartCallback(w, p)
  PROVE  IInv'
<1>1. Types /\ QueueInv /\ HandsInv /\ PlaceInv /\ ActorInv /\ EndInv
        /\ WildOnlyIfOver /\ Accounting
  BY DEF IInv
<1>2. /\ pool = "open" /\ pc[w] = "idle" /\ work[p] > 0
      /\ work' = [work EXCEPT ![p] = work[p] - 1]
      /\ pc' = [pc EXCEPT ![w] = "pop"]
      /\ at' = [at EXCEPT ![w] = p]
      /\ UNCHANGED <<queue, task, phase, closed, waker, join, prio, user, pool, closer, wild>>
  BY DEF StartCallback, poolVars
<1>3. w \in Actors /\ w \notin Threads
  BY ExecutorAssumption DEF Actors
<1>4. work[p] \in Nat /\ work[p] - 1 \in Nat
  BY <1>1, <1>2 DEF Types
<1>5. Types'
  BY <1>1, <1>2, <1>4 DEF Types
<1>6. /\ pc'[w] = "pop" /\ at'[w] = p
      /\ \A y \in Actors : y # w => pc'[y] = pc[y] /\ at'[y] = at[y]
  BY <1>1, <1>2, <1>3 DEF Types
<1>7. QueueInv' /\ HandsInv' /\ PlaceInv'
  <2>1. \A v \in Workers : pc[v] \in {"run", "poll"} <=> pc'[v] \in {"run", "poll"}
    BY <1>2, <1>6 DEF Actors
  <2>2. \A v \in Workers : pc[v] \in {"run", "poll"} => pc'[v] = pc[v]
    BY <1>2, <1>6 DEF Actors
  <2> QED
    BY <2>1, <2>2, <1>1, <1>2, StillPlaces DEF InHands
<1>8. Accounting'
  <2>1. \A q \in Prios : q # p => Owing(q)' = Owing(q)
    BY <1>2, <1>6 DEF Owing
  <2>2. Owing(p)' = Owing(p) \cup {w} /\ w \notin Owing(p)
    BY <1>2, <1>3, <1>6 DEF Owing
  <2>3. Cardinality(Owing(p)') = Cardinality(Owing(p)) + 1
    BY <2>2, OwingFinite, FS_AddElement
  <2>4. ASSUME NEW q \in Prios
        PROVE  Len(queue'[q]) = work'[q] + Cardinality(Owing(q)')
    <3>1. /\ Len(queue[q]) = work[q] + Cardinality(Owing(q))
          /\ Cardinality(Owing(q)) \in Nat /\ work[q] \in Nat
      BY <1>1, OwingFinite DEF Accounting, Types
    <3>2. CASE q = p
      <4>1. work'[q] = work[q] - 1
        BY <3>2, <1>1, <1>2 DEF Types
      <4> QED
        BY <3>1, <3>2, <4>1, <2>3, <1>2
    <3>3. CASE q # p
      BY <3>1, <3>3, <2>1, <1>1, <1>2 DEF Types
    <3> QED
      BY <3>2, <3>3
  <2>5. \A v \in Workers : pc'[v] # "panicked"
    BY <1>1, <1>6 DEF Accounting, Actors
  <2> QED
    BY <2>4, <2>5 DEF Accounting
<1>9. ActorInv'
  BY <1>1, <1>2, <1>3, <1>6 DEF ActorInv, Actors
<1>10. EndInv' /\ WildOnlyIfOver'
  <2>1. wild \subseteq Tasks /\ \A s \in Tasks : closed'[s] => phase'[s] \notin {"new", "idle"}
    BY <1>1, <1>2 DEF Types, EndInv
  <2>2. \A y \in Actors : pc'[y] = "detach" => pc[y] = "detach" /\ task'[y] = task[y]
    BY <1>2, <1>6
  <2> QED
    BY <2>1, <2>2, <1>1, <1>2, EndKeeps
<1>11. CloseInv'
  BY <1>2 DEF CloseInv
<1> QED
  BY <1>5, <1>7, <1>8, <1>9, <1>10, <1>11 DEF IInv

\* The work callback takes a task: there is one, it leaves its queue, and it is
\* in no other hands.
LEMMA PopTaskKeeps ==
  ASSUME IInv, NEW w \in Workers, PopTask(w)
  PROVE  IInv'
<1>1. Types /\ QueueInv /\ HandsInv /\ PlaceInv /\ ActorInv /\ EndInv
        /\ WildOnlyIfOver /\ Accounting /\ CloseInv
  BY DEF IInv
<1>2. w \in Actors /\ w \notin Threads
  BY ExecutorAssumption DEF Actors
<1>0. PICK p \in Prios, q \in Seq(Tasks) : p = at[w] /\ q = queue[p]
  BY <1>1, <1>2 DEF Types
<1>3. Len(q) \in Nat
  BY LenProperties
<1>4. pc[w] = "pop" /\ UNCHANGED <<work, at, phase, closed, waker, join, prio, user, pool, closer, wild>>
  BY DEF PopTask, poolVars
<1>5. q # <<>>
  <2>1. w \in Owing(p)
    BY <1>0, <1>2, <1>4 DEF Owing
  <2>2. /\ Len(q) = work[p] + Cardinality(Owing(p)) /\ work[p] \in Nat
        /\ Cardinality(Owing(p)) \in Nat /\ Cardinality(Owing(p)) # 0
    BY <2>1, <1>0, <1>1, <1>3, OwingFinite, FS_EmptySet DEF Accounting, Types
  <2> QED
    BY <2>2, EmptySeq
<1>13. PICK h \in Tasks : h = Head(q)
  BY <1>5, HeadTailProperties
<1>6. /\ h \in Tasks /\ Tail(q) \in Seq(Tasks) /\ Len(Tail(q)) = Len(q) - 1
      /\ \A i \in 1 .. Len(Tail(q)) : Tail(q)[i] = q[i + 1]
      /\ Len(q) > 0 /\ h = q[1]
  <2>1. h = q[1]
    BY <1>3, <1>5, <1>13
  <2>2. Len(q) # 0
    BY <1>3, <1>5, EmptySeq
  <2> QED
    BY <2>1, <2>2, <1>3, <1>5, HeadTailProperties
<1>7. /\ pc' = [pc EXCEPT ![w] = "run"] /\ task' = [task EXCEPT ![w] = h]
      /\ queue' = [queue EXCEPT ![p] = Tail(q)]
  BY <1>0, <1>5, <1>13 DEF PopTask
<1>8. /\ queue' \in [Prios -> Seq(Tasks)] /\ queue'[p] = Tail(q)
      /\ \A r \in Prios : r # p => queue'[r] = queue[r]
  BY <1>1, <1>3, <1>6, <1>7 DEF Types
<1>9. /\ pc'[w] = "run" /\ task'[w] = h
      /\ \A y \in Actors : y # w => pc'[y] = pc[y] /\ task'[y] = task[y]
  BY <1>1, <1>2, <1>7 DEF Types
<1>10. Types'
  BY <1>1, <1>4, <1>6, <1>7, <1>8 DEF Types
<1>11. /\ prio[h] = p /\ phase[h] = "scheduled"
       /\ \A i \in 1 .. Len(q) : q[i] = h => i = 1
  BY <1>0, <1>1, <1>3, <1>6 DEF QueueInv
<1>12. QueuedAt(h, 1)
  BY <1>0, <1>3, <1>6, <1>11 DEF QueuedAt
<1>14. \A i \in 1 .. Len(Tail(q)) : i + 1 \in 1 .. Len(q)
  BY <1>3, <1>6
<1>15. QueueInv'
  <2> SUFFICES ASSUME NEW r \in Prios, NEW i \in 1 .. Len(queue'[r])
               PROVE  /\ prio[queue'[r][i]] = r
                      /\ phase[queue'[r][i]] = "scheduled"
                      /\ \A j \in 1 .. Len(queue'[r]) :
                           queue'[r][i] = queue'[r][j] => i = j
    BY <1>4 DEF QueueInv
  <2>1. CASE r # p
    BY <2>1, <1>1, <1>8 DEF QueueInv
  <2>2. CASE r = p
    <3>1. \A j \in 1 .. Len(queue'[r]) : queue'[r][j] = q[j + 1] /\ j + 1 \in 1 .. Len(q) /\ j \in Int
      BY <2>2, <1>6, <1>8, <1>14
    <3>2. \A j \in 1 .. Len(q) : /\ prio[q[j]] = p /\ phase[q[j]] = "scheduled"
                                 /\ \A k \in 1 .. Len(q) : q[j] = q[k] => j = k
      BY <1>1, <1>3, <1>0 DEF QueueInv
    <3>3. ASSUME NEW j \in 1 .. Len(queue'[r]), queue'[r][i] = queue'[r][j]
          PROVE  i = j
      <4>1. i + 1 = j + 1
        BY <3>1, <3>2, <3>3
      <4> QED
        BY <4>1, <3>1
    <3> QED
      BY <3>1, <3>2, <3>3, <2>2
  <2> QED
    BY <2>1, <2>2
<1>16. \A s \in Tasks : \A i \in Nat : QueuedAt(s, i)' => QueuedAt(s, i) \/ QueuedAt(s, i + 1)
  <2> SUFFICES ASSUME NEW s \in Tasks, NEW i \in Nat, QueuedAt(s, i)'
               PROVE  QueuedAt(s, i) \/ QueuedAt(s, i + 1)
    OBVIOUS
  <2>1. prio[s] \in Prios /\ i \in 1 .. Len(queue'[prio[s]]) /\ queue'[prio[s]][i] = s
    BY <1>1, <1>4 DEF QueuedAt, Types
  <2>2. CASE prio[s] # p
    BY <2>1, <2>2, <1>8 DEF QueuedAt
  <2>3. CASE prio[s] = p
    <3>1. i \in 1 .. Len(Tail(q)) /\ Tail(q)[i] = s
      BY <2>1, <2>3, <1>8
    <3>2. i + 1 \in 1 .. Len(q) /\ q[i + 1] = s
      BY <3>1, <1>6, <1>14
    <3> QED
      BY <2>3, <3>2, <1>0 DEF QueuedAt
  <2> QED
    BY <2>2, <2>3
<1>17. \A i \in Nat : ~QueuedAt(h, i)'
  <2> SUFFICES ASSUME NEW i \in Nat, QueuedAt(h, i)' PROVE FALSE
    OBVIOUS
  <2>1. i \in 1 .. Len(Tail(q)) /\ Tail(q)[i] = h
    BY <1>4, <1>8, <1>11 DEF QueuedAt
  <2>2. i + 1 \in 1 .. Len(q) /\ q[i + 1] = h
    BY <2>1, <1>6, <1>14
  <2>3. i + 1 = 1 /\ i >= 1
    BY <2>1, <2>2, <1>11
  <2> QED
    BY <2>3
<1>18. \A v \in Workers : \A s \in Tasks :
         InHands(v, s)' <=> (v = w /\ s = h) \/ (v # w /\ InHands(v, s))
  BY <1>9 DEF InHands, Actors
<1>19. \A v \in Workers : ~InHands(v, h)
  BY <1>1, <1>6, <1>12 DEF HandsInv
<1>20. HandsInv'
  <2> SUFFICES ASSUME NEW v \in Workers, NEW s \in Tasks, InHands(v, s)'
               PROVE  /\ pc'[v] = "run" => phase[s] = "scheduled"
                      /\ pc'[v] = "poll" => phase[s] \in {"running", "resched"}
                      /\ \A i \in Nat : ~QueuedAt(s, i)'
                      /\ \A u \in Workers : InHands(u, s)' => u = v
    BY <1>4 DEF HandsInv
  <2>1. CASE v = w /\ s = h
    BY <2>1, <1>9, <1>11, <1>17, <1>18, <1>19
  <2>2. CASE v # w /\ InHands(v, s)
    <3>1. pc'[v] = pc[v] /\ s # h
      BY <2>2, <1>9, <1>19 DEF Actors
    <3>2. /\ pc[v] = "run" => phase[s] = "scheduled"
          /\ pc[v] = "poll" => phase[s] \in {"running", "resched"}
          /\ \A i \in Nat : ~QueuedAt(s, i)
          /\ \A u \in Workers : InHands(u, s) => u = v
      BY <2>2, <1>1 DEF HandsInv
    <3>3. \A i \in Nat : ~QueuedAt(s, i)'
      BY <3>2, <1>16
    <3> QED
      BY <3>1, <3>2, <3>3, <1>18
  <2> QED
    BY <2>1, <2>2, <1>18
<1>21. PlaceInv'
  <2> SUFFICES ASSUME NEW s \in Tasks, phase[s] \in Runnable
               PROVE  \/ \E i \in Nat : QueuedAt(s, i)'
                      \/ \E v \in Workers : InHands(v, s)'
    BY <1>4 DEF PlaceInv, Runnable
  <2>1. CASE s = h
    BY <2>1, <1>18
  <2>2. CASE s # h /\ \E v \in Workers : InHands(v, s)
    <3>1. PICK v \in Workers : InHands(v, s)
      BY <2>2
    <3>2. v # w
      BY <3>1, <1>4 DEF InHands
    <3> QED
      BY <3>1, <3>2, <1>18
  <2>3. CASE s # h /\ \E i \in Nat : QueuedAt(s, i)
    <3>1. PICK i \in Nat : QueuedAt(s, i)
      BY <2>3
    <3>2. prio[s] \in Prios /\ i \in 1 .. Len(queue[prio[s]]) /\ queue[prio[s]][i] = s
      BY <3>1, <1>1 DEF QueuedAt, Types
    <3>3. CASE prio[s] # p
      BY <3>1, <3>2, <3>3, <1>4, <1>8 DEF QueuedAt
    <3>4. CASE prio[s] = p
      <4>1. i \in 1 .. Len(q) /\ q[i] = s /\ i # 1
        BY <2>3, <3>2, <3>4, <1>6, <1>0
      <4>2. i - 1 \in 1 .. Len(Tail(q)) /\ (i - 1) + 1 = i /\ i - 1 \in Nat
        BY <4>1, <1>3, <1>6
      <4>3. Tail(q)[i - 1] = s
        BY <4>1, <4>2, <1>6
      <4>4. QueuedAt(s, i - 1)'
        BY <3>4, <4>2, <4>3, <1>4, <1>8 DEF QueuedAt
      <4> QED
        BY <4>2, <4>4
    <3> QED
      BY <3>3, <3>4
  <2> QED
    BY <2>1, <2>2, <2>3, <1>1 DEF PlaceInv
<1>22. Accounting'
  <2>1. \A r \in Prios : r # p => Owing(r)' = Owing(r)
    BY <1>4, <1>9, <1>0 DEF Owing
  <2>2. Owing(p)' = Owing(p) \ {w} /\ w \in Owing(p)
    BY <1>2, <1>4, <1>9, <1>0 DEF Owing
  <2>3. Cardinality(Owing(p)') = Cardinality(Owing(p)) - 1
    <3>1. IsFiniteSet(Owing(p))
      BY <1>3, OwingFinite
    <3>2. Cardinality(Owing(p) \ {w}) = Cardinality(Owing(p)) - 1
      BY <2>2, <3>1, FS_RemoveElement
    <3> QED
      BY <2>2, <3>2
  <2>4. ASSUME NEW r \in Prios
        PROVE  Len(queue'[r]) = work'[r] + Cardinality(Owing(r)')
    <3>1. /\ Len(queue[r]) = work[r] + Cardinality(Owing(r))
          /\ Cardinality(Owing(r)) \in Nat /\ work[r] \in Nat
      BY <1>1, OwingFinite DEF Accounting, Types
    <3>2. CASE r = p
      <4>1. /\ Len(queue'[r]) = Len(queue[r]) - 1 /\ work'[r] = work[r]
            /\ Cardinality(Owing(r)') = Cardinality(Owing(r)) - 1
        BY <3>2, <2>3, <1>4, <1>6, <1>8, <1>0
      <4> QED
        BY <3>1, <4>1
    <3>3. CASE r # p
      BY <3>1, <3>3, <2>1, <1>4, <1>8
    <3> QED
      BY <3>2, <3>3
  <2>5. \A v \in Workers : pc'[v] # "panicked"
    BY <1>1, <1>9 DEF Accounting, Actors
  <2> QED
    BY <2>4, <2>5 DEF Accounting
<1>23. ActorInv'
  BY <1>1, <1>2, <1>4, <1>6, <1>9 DEF ActorInv, Actors
<1>24. EndInv' /\ WildOnlyIfOver'
  <2>1. wild \subseteq Tasks /\ \A s \in Tasks : closed'[s] => phase'[s] \notin {"new", "idle"}
    BY <1>1, <1>4 DEF Types, EndInv
  <2>2. \A y \in Actors : pc'[y] = "detach" => pc[y] = "detach" /\ task'[y] = task[y]
    BY <1>9
  <2> QED
    BY <2>1, <2>2, <1>1, <1>4, EndKeeps
<1>25. CloseInv'
  <2>1. Held
    BY <1>2, <1>4, NothingLeft
  <2>2. pool = "open"
    BY <2>1, <1>1 DEF CloseInv
  <2> QED
    BY <2>2, <1>4 DEF CloseInv
<1> QED
  BY <1>10, <1>15, <1>20, <1>21, <1>22, <1>23, <1>24, <1>25 DEF IInv

\* A callback takes the task in its hands one step further: it polls it, or is
\* done with it.
LEMMA HandKeeps ==
  ASSUME IInv, NEW w \in Workers, NEW t \in Tasks, InHands(w, t),
         NEW ph \in {"running", "idle", "completed", "dropped"}, NEW c \in {"poll", "exit"},
         c = "poll" <=> ph = "running",
         phase' = [phase EXCEPT ![t] = ph], pc' = [pc EXCEPT ![w] = c],
         closed' = closed \/ closed' = [closed EXCEPT ![t] = TRUE],
         ph = "idle" => ~closed'[t],
         UNCHANGED <<queue, work, at, task, waker, join, prio, poolVars, wild>>
  PROVE  IInv'
<1>1. Types /\ QueueInv /\ HandsInv /\ PlaceInv /\ ActorInv /\ EndInv
        /\ WildOnlyIfOver /\ Accounting /\ CloseInv
  BY DEF IInv
<1>2. w \in Actors /\ w \notin Threads
  BY ExecutorAssumption DEF Actors
<1>3. /\ pc[w] \in {"run", "poll"} /\ task[w] = t
      /\ phase[t] \in {"scheduled", "running", "resched"}
      /\ \A i \in Nat : ~QueuedAt(t, i)
      /\ \A v \in Workers : InHands(v, t) => v = w
  BY <1>1 DEF HandsInv, InHands
<1>4. UNCHANGED <<user, pool, closer>>
  BY DEF poolVars
<1>5. Types'
  <2>1. phase' \in [Tasks -> {"new", "idle"} \cup Runnable \cup Over]
    BY <1>1 DEF Types, Runnable, Over
  <2>2. closed' \in [Tasks -> BOOLEAN]
    BY <1>1 DEF Types
  <2>3. pc' \in [Actors -> {"idle", "submit", "pop", "run", "poll", "exit",
                        "detach", "closing", "panicked"}]
    BY <1>1 DEF Types
  <2> QED
    BY <2>1, <2>2, <2>3, <1>1, <1>4 DEF Types
<1>6. phase'[t] = ph /\ \A s \in Tasks : s # t => phase'[s] = phase[s]
  BY <1>1 DEF Types
<1>7. pc'[w] = c /\ \A y \in Actors : y # w => pc'[y] = pc[y]
  BY <1>1, <1>2 DEF Types
<1>8. \A s \in Tasks : \A i \in Nat : QueuedAt(s, i)' <=> QueuedAt(s, i)
  BY DEF QueuedAt
<1>9. QueueInv'
  <2> SUFFICES ASSUME NEW p \in Prios, NEW i \in 1 .. Len(queue[p])
               PROVE  /\ prio[queue[p][i]] = p
                      /\ phase'[queue[p][i]] = "scheduled"
                      /\ \A j \in 1 .. Len(queue[p]) : queue[p][i] = queue[p][j] => i = j
    BY DEF QueueInv
  <2>1. /\ prio[queue[p][i]] = p /\ phase[queue[p][i]] = "scheduled"
        /\ \A j \in 1 .. Len(queue[p]) : queue[p][i] = queue[p][j] => i = j
    BY <1>1 DEF QueueInv
  <2>2. queue[p][i] \in Tasks
    BY <1>1, ElementOfSeq DEF Types
  <2>3. queue[p][i] # t
    BY <2>1, <1>3 DEF QueuedAt
  <2> QED
    BY <2>1, <2>2, <2>3, <1>6
<1>10. \A v \in Workers : \A s \in Tasks :
         InHands(v, s)' <=> (v = w /\ s = t /\ c = "poll") \/ (v # w /\ InHands(v, s))
  BY <1>3, <1>7 DEF InHands, Actors
<1>11. HandsInv'
  <2> SUFFICES ASSUME NEW v \in Workers, NEW s \in Tasks, InHands(v, s)'
               PROVE  /\ pc'[v] = "run" => phase'[s] = "scheduled"
                      /\ pc'[v] = "poll" => phase'[s] \in {"running", "resched"}
                      /\ \A i \in Nat : ~QueuedAt(s, i)'
                      /\ \A u \in Workers : InHands(u, s)' => u = v
    BY DEF HandsInv
  <2>1. CASE v = w /\ s = t /\ c = "poll"
    BY <2>1, <1>3, <1>6, <1>7, <1>8, <1>10
  <2>2. CASE v # w /\ InHands(v, s)
    <3>1. s # t
      BY <2>2, <1>3
    <3>2. pc'[v] = pc[v] /\ phase'[s] = phase[s]
      BY <2>2, <3>1, <1>6, <1>7 DEF Actors
    <3>3. /\ pc[v] = "run" => phase[s] = "scheduled"
          /\ pc[v] = "poll" => phase[s] \in {"running", "resched"}
          /\ \A i \in Nat : ~QueuedAt(s, i)
          /\ \A u \in Workers : InHands(u, s) => u = v
      BY <2>2, <1>1 DEF HandsInv
    <3> QED
      BY <3>1, <3>2, <3>3, <1>8, <1>10
  <2> QED
    BY <2>1, <2>2, <1>10
<1>12. PlaceInv'
  <2> SUFFICES ASSUME NEW s \in Tasks, phase'[s] \in Runnable
               PROVE  \/ \E i \in Nat : QueuedAt(s, i)'
                      \/ \E v \in Workers : InHands(v, s)'
    BY DEF PlaceInv, Runnable
  <2>1. CASE s = t
    BY <2>1, <1>6, <1>10 DEF Runnable
  <2>2. CASE s # t
    <3>1. \A v \in Workers : InHands(v, s) => v # w
      BY <2>2, <1>3 DEF InHands
    <3> QED
      BY <2>2, <3>1, <1>1, <1>6, <1>8, <1>10 DEF PlaceInv
  <2> QED
    BY <2>1, <2>2
<1>13. Accounting'
  <2>1. \A y \in Actors : pc'[y] \in {"submit", "pop"} <=> pc[y] \in {"submit", "pop"}
    BY <1>3, <1>7
  <2>2. \A v \in Workers : pc'[v] # "panicked"
    BY <1>1, <1>7 DEF Accounting, Actors
  <2> QED
    BY <2>1, <2>2, <1>1, StillAccount
<1>14. ActorInv'
  BY <1>1, <1>2, <1>3, <1>7 DEF ActorInv, Actors
<1>15. EndInv' /\ WildOnlyIfOver'
  <2>1. /\ wild \subseteq Tasks
        /\ \A s \in Tasks : closed[s] => closed'[s]
        /\ \A s \in Tasks : s # t => closed'[s] = closed[s]
    BY <1>1 DEF Types
  <2>2. \A s \in Tasks : phase[s] \in Over => phase'[s] \in Over
    BY <1>3, <1>6 DEF Over
  <2>3. \A s \in Tasks : closed'[s] => phase'[s] \notin {"new", "idle"}
    <3> SUFFICES ASSUME NEW s \in Tasks, closed'[s] PROVE phase'[s] \notin {"new", "idle"}
      OBVIOUS
    <3>1. CASE s = t
      BY <3>1, <1>6
    <3>2. CASE s # t
      BY <3>2, <2>1, <1>1, <1>6 DEF EndInv
    <3> QED
      BY <3>1, <3>2
  <2>4. \A y \in Actors : pc'[y] = "detach" => pc[y] = "detach" /\ task'[y] = task[y]
    BY <1>7
  <2> QED
    BY <2>1, <2>2, <2>3, <2>4, <1>1, EndKeeps
<1>16. CloseInv'
  <2>1. Held
    BY <1>3 DEF Held
  <2> QED
    BY <2>1, <1>1, CloseKeeps
<1> QED
  BY <1>5, <1>9, <1>11, <1>12, <1>13, <1>14, <1>15, <1>16 DEF IInv

\* Runnable::run, and the end of a poll that is not pending.
LEMMA RunTaskKeeps ==
  ASSUME IInv, NEW w \in Workers, RunTask(w) \/ PollReady(w) \/ PollPanics(w)
  PROVE  IInv'
<1>1. Types /\ ActorInv
  BY DEF IInv
<1>2. PICK t \in Tasks : t = task[w] /\ InHands(w, t)
  BY <1>1 DEF RunTask, PollReady, PollPanics, ActorInv, InHands
<1>3. CASE RunTask(w) /\ closed[t]
  <2>1. phase' = [phase EXCEPT ![t] = "dropped"] /\ pc' = [pc EXCEPT ![w] = "exit"]
    BY <1>2, <1>3 DEF RunTask
  <2> QED
    BY <2>1, <1>2, <1>3, HandKeeps DEF RunTask
<1>4. CASE RunTask(w) /\ ~closed[t]
  <2>1. phase' = [phase EXCEPT ![t] = "running"] /\ pc' = [pc EXCEPT ![w] = "poll"]
    BY <1>2, <1>4 DEF RunTask
  <2> QED
    BY <2>1, <1>2, <1>4, HandKeeps DEF RunTask
<1>5. CASE PollReady(w)
  <2>1. phase' = [phase EXCEPT ![t] = "completed"] /\ pc' = [pc EXCEPT ![w] = "exit"]
    BY <1>2, <1>5 DEF PollReady
  <2> QED
    BY <2>1, <1>2, <1>5, HandKeeps DEF PollReady
<1>6. CASE PollPanics(w)
  <2>1. /\ phase' = [phase EXCEPT ![t] = "dropped"] /\ pc' = [pc EXCEPT ![w] = "exit"]
        /\ closed' = [closed EXCEPT ![t] = TRUE]
    BY <1>2, <1>6 DEF PollPanics
  <2> QED
    BY <2>1, <1>2, <1>6, HandKeeps DEF PollPanics
<1> QED
  BY <1>3, <1>4, <1>5, <1>6

\* The future is pending: its task goes idle, is dropped, or is pushed again by
\* the callback that has it.
LEMMA PollPendingKeeps ==
  ASSUME IInv, NEW w \in Workers, PollPending(w)
  PROVE  IInv'
<1>1. Types /\ QueueInv /\ HandsInv /\ PlaceInv /\ ActorInv /\ EndInv
        /\ WildOnlyIfOver /\ Accounting /\ CloseInv
  BY DEF IInv
<1>2. PICK t \in Tasks : t = task[w] /\ InHands(w, t)
  BY <1>1 DEF PollPending, ActorInv, InHands
<1>3. pc[w] = "poll" /\ UNCHANGED <<work, closed, waker, join, prio, user, pool, closer, wild>>
  BY DEF PollPending, poolVars
<1>4. CASE phase' = [phase EXCEPT ![t] = "scheduled"] /\ Push(w, t)
  <2>1. w \in Actors /\ w \notin Threads
    BY ExecutorAssumption DEF Actors
  <2>2. /\ pc' = [pc EXCEPT ![w] = "submit"]
        /\ at' = [at EXCEPT ![w] = prio[t]]
        /\ task' = [task EXCEPT ![w] = t]
    BY <1>4 DEF Push
  <2>3. Types'
    <3>1. queue' \in [Prios -> Seq(Tasks)]
      BY <2>1, <1>1, <1>3, <1>4, PushQueue
    <3>2. phase' \in [Tasks -> {"new", "idle"} \cup Runnable \cup Over]
      BY <1>1, <1>4 DEF Types, Runnable
    <3>3. /\ pc' \in [Actors -> {"idle", "submit", "pop", "run", "poll", "exit",
                        "detach", "closing", "panicked"}]
          /\ at' \in [Actors -> Prios] /\ task' \in [Actors -> Tasks \cup {NoTask}]
      BY <2>2, <1>1 DEF Types
    <3> QED
      BY <3>1, <3>2, <3>3, <1>1, <1>3 DEF Types
  <2>4. QueueInv' /\ HandsInv' /\ PlaceInv'
    <3>1. \A i \in Nat : ~QueuedAt(t, i)
      BY <1>1, <1>2 DEF HandsInv
    <3>2. \A v \in Workers : InHands(v, t) => v = w
      BY <1>1, <1>2 DEF HandsInv
    <3>3. \A s \in Tasks : InHands(w, s) => s = t
      BY <1>2 DEF InHands
    <3> QED
      BY <3>1, <3>2, <3>3, <2>1, <1>1, <1>3, <1>4, PushPlaces
  <2>5. Accounting'
    BY <2>1, <1>1, <1>3, <1>4, PushAccount
  <2>6. \A y \in Actors : y # w => pc'[y] = pc[y] /\ task'[y] = task[y] /\ at'[y] = at[y]
    BY <2>2, <1>1 DEF Types
  <2>7. pc'[w] = "submit" /\ task'[w] = t /\ at'[w] = prio[t]
    BY <2>1, <2>2, <1>1 DEF Types
  <2>8. ActorInv'
    BY <2>1, <2>6, <2>7, <1>1, <1>3 DEF ActorInv, Actors
  <2>9. EndInv' /\ WildOnlyIfOver'
    <3>1. phase[t] \in {"running", "resched"}
      BY <1>1, <1>2, <1>3 DEF HandsInv
    <3>2. wild \subseteq Tasks /\ \A s \in Tasks : phase[s] \in Over => phase'[s] \in Over
      BY <3>1, <1>1, <1>4 DEF Types, Over
    <3>3. \A s \in Tasks : closed'[s] => phase'[s] \notin {"new", "idle"}
      BY <1>1, <1>3, <1>4 DEF EndInv, Types
    <3>4. \A y \in Actors : pc'[y] = "detach" => pc[y] = "detach" /\ task'[y] = task[y]
      BY <2>6, <2>7
    <3> QED
      BY <3>2, <3>3, <3>4, <1>1, <1>3, EndKeeps
  <2>10. CloseInv'
    <3>1. Held
      BY <1>3 DEF Held
    <3> QED
      BY <3>1, <1>1, <1>3, CloseKeeps DEF poolVars
  <2> QED
    BY <2>3, <2>4, <2>5, <2>8, <2>9, <2>10 DEF IInv
<1>5. ASSUME NEW ph \in {"idle", "dropped"}, ph = "idle" => ~closed[t],
             phase' = [phase EXCEPT ![t] = ph], pc' = [pc EXCEPT ![w] = "exit"],
             UNCHANGED <<queue, at, task>>
      PROVE  IInv'
  BY <1>2, <1>3, <1>5, HandKeeps DEF poolVars
<1>6. CASE /\ phase' = [phase EXCEPT ![t] =
                IF ~closed[t] /\ (Joined(t) \/ waker[t] \/ Submitting(t) # {})
                  THEN "idle" ELSE "dropped"]
           /\ pc' = [pc EXCEPT ![w] = "exit"]
           /\ UNCHANGED <<queue, at, task>>
  <2>1. CASE ~closed[t] /\ (Joined(t) \/ waker[t] \/ Submitting(t) # {})
    BY <2>1, <1>5, <1>6
  <2>2. CASE ~(~closed[t] /\ (Joined(t) \/ waker[t] \/ Submitting(t) # {}))
    BY <2>2, <1>5, <1>6
  <2> QED
    BY <2>1, <2>2
<1> QED
  BY <1>2, <1>4, <1>6 DEF PollPending

\* During a poll the future clones its waker, or wakes its own task.
LEMMA PollStepKeeps ==
  ASSUME IInv, NEW w \in Workers, PollRegister(w) \/ YieldNow(w)
  PROVE  IInv'
<1>1. Types /\ ActorInv /\ EndInv /\ CloseInv
  BY DEF IInv
<1>2. /\ pc[w] = "poll"
      /\ UNCHANGED <<queue, work, pc, at, task, closed, join, prio, user, pool, closer, wild>>
  BY DEF PollRegister, YieldNow, poolVars
<1>3. task[w] \in Tasks /\ w \in Actors \cup {"user"}
  BY <1>1, <1>2 DEF ActorInv, Actors
<1>4. CloseInv'
  <2>1. Held
    BY <1>2 DEF Held
  <2> QED
    BY <2>1, <1>1, <1>2, CloseKeeps DEF poolVars
<1>5. waker' \in [Tasks -> BOOLEAN]
  BY <1>1, <1>3 DEF PollRegister, YieldNow, Types
<1>6. /\ phase' \in [Tasks -> {"new", "idle"} \cup Runnable \cup Over]
      /\ \A s \in Tasks : \/ phase'[s] = phase[s]
                          \/ phase[s] = "running" /\ phase'[s] = "resched"
  <2>1. CASE PollRegister(w)
    BY <2>1, <1>1 DEF PollRegister, Types
  <2>2. CASE YieldNow(w)
    BY <2>2, <1>1, <1>3 DEF YieldNow, Types, Runnable
  <2> QED
    BY <2>1, <2>2
<1>7. \A s \in Tasks : closed'[s] => phase'[s] \notin {"new", "idle"}
  BY <1>1, <1>2, <1>6 DEF EndInv
<1> QED
  BY <1>1, <1>2, <1>3, <1>4, <1>5, <1>6, <1>7, ThreadStillKeeps DEF Types

\* The callback returns, or goes on in Drop for HandleInner.
LEMMA ExitKeeps ==
  ASSUME IInv, NEW w \in Workers, Exit(w)
  PROVE  IInv'
<1>1. Types /\ QueueInv /\ HandsInv /\ PlaceInv /\ ActorInv /\ EndInv
        /\ WildOnlyIfOver /\ Accounting /\ CloseInv
  BY DEF IInv
<1>2. w \in Actors /\ w \notin Threads
  BY ExecutorAssumption DEF Actors
<1>3. /\ pc[w] = "exit" /\ task' = [task EXCEPT ![w] = NoTask]
      /\ UNCHANGED <<queue, work, at, phase, closed, waker, join, prio, user, wild>>
  BY DEF Exit
<1>4. PICK c \in {"closing", "idle"} : pc' = [pc EXCEPT ![w] = c]
  BY DEF Exit
<1>5. Held
  BY <1>3 DEF Held
<1>6. CloseInv' /\ (pool' = pool \/ pool' = "closing") /\ (closer' = closer \/ closer' = w)
  BY <1>1, <1>5, CloseKeeps DEF Exit
<1>7. Types'
  BY <1>1, <1>2, <1>3, <1>4, <1>6 DEF Types
<1>8. /\ pc'[w] = c
      /\ \A y \in Actors : y # w => pc'[y] = pc[y] /\ task'[y] = task[y]
  BY <1>1, <1>2, <1>3, <1>4 DEF Types
<1>9. QueueInv' /\ HandsInv' /\ PlaceInv'
  <2>1. \A v \in Workers : \A t \in Tasks : InHands(v, t)' <=> InHands(v, t)
    BY <1>3, <1>8 DEF InHands, Actors
  <2>2. \A v \in Workers : pc[v] \in {"run", "poll"} => pc'[v] = pc[v]
    BY <1>3, <1>8 DEF Actors
  <2> QED
    BY <2>1, <2>2, <1>1, <1>3, StillPlaces
<1>10. Accounting'
  <2>1. \A y \in Actors : pc'[y] \in {"submit", "pop"} <=> pc[y] \in {"submit", "pop"}
    BY <1>3, <1>8
  <2>2. \A v \in Workers : pc'[v] # "panicked"
    BY <1>1, <1>8 DEF Accounting, Actors
  <2> QED
    BY <2>1, <2>2, <1>1, <1>3, StillAccount
<1>11. ActorInv'
  BY <1>1, <1>2, <1>3, <1>8 DEF ActorInv, Actors
<1>12. EndInv' /\ WildOnlyIfOver'
  <2>1. wild \subseteq Tasks /\ \A s \in Tasks : closed'[s] => phase'[s] \notin {"new", "idle"}
    BY <1>1, <1>3 DEF Types, EndInv
  <2>2. \A y \in Actors : pc'[y] = "detach" => pc[y] = "detach" /\ task'[y] = task[y]
    BY <1>8
  <2> QED
    BY <2>1, <2>2, <1>1, <1>3, EndKeeps
<1> QED
  BY <1>6, <1>7, <1>9, <1>10, <1>11, <1>12 DEF IInv

\* Closing the pool cancels work items, of which there are none.
LEMMA ClosePoolKeeps ==
  ASSUME IInv, ClosePool
  PROVE  IInv'
<1>1. Types /\ QueueInv /\ HandsInv /\ PlaceInv /\ ActorInv /\ EndInv
        /\ WildOnlyIfOver /\ Accounting /\ CloseInv
  BY DEF IInv
<1>2. /\ pool = "closing" /\ pool' = "closed" /\ work' = [p \in Prios |-> 0]
      /\ UNCHANGED <<queue, pc, at, task, phase, closed, waker, join, prio, user, closer, wild>>
  BY DEF ClosePool
<1>3. ~Held
  BY <1>1, <1>2 DEF CloseInv
<1>4. work' = work
  <2>1. \A p \in Prios : work[p] = 0
    BY <1>3, NothingLeft
  <2> QED
    BY <2>1, <1>1, <1>2 DEF Types
<1>5. Types'
  BY <1>1, <1>2, <1>4 DEF Types
<1>6. QueueInv' /\ HandsInv' /\ PlaceInv'
  BY <1>1, <1>2, StillPlaces DEF InHands
<1>7. Accounting'
  BY <1>1, <1>2, <1>4, StillAccount DEF Accounting
<1>8. ActorInv'
  BY <1>1, <1>2 DEF ActorInv
<1>9. EndInv' /\ WildOnlyIfOver'
  BY <1>1, <1>2 DEF EndInv, WildOnlyIfOver
<1>10. CloseInv'
  <2>1. \A t \in Tasks : Alive(t)' <=> Alive(t)
    BY <1>2 DEF Alive, Joined, Submitting
  <2>2. ~Held'
    BY <2>1, <1>2, <1>3 DEF Held
  <2> QED
    BY <2>2 DEF CloseInv
<1> QED
  BY <1>5, <1>6, <1>7, <1>8, <1>9, <1>10 DEF IInv

\* A new pool has nothing in its queues and nobody at work.
LEMMA InitIInv == Init => IInv
<1> SUFFICES ASSUME Init PROVE IInv
  OBVIOUS
<1>1. queue = [p \in Prios |-> <<>>] /\ \A p \in Prios : Len(queue[p]) = 0
  BY EmptySeq DEF Init
<1>2. Types
  <2>1. <<>> \in Seq(Tasks)
    BY EmptySeq
  <2>2. queue \in [Prios -> Seq(Tasks)]
    BY <2>1, <1>1
  <2>3. \A p \in Prios : [x \in Actors |-> p] \in [Actors -> Prios]
    OBVIOUS
  <2>4. at \in [Actors -> Prios]
    BY <2>3 DEF Init
  <2> QED
    BY <2>2, <2>4 DEF Init, Types
<1>3. QueueInv
  BY <1>1 DEF QueueInv
<1>4. HandsInv
  BY DEF Init, HandsInv, InHands, Actors
<1>5. PlaceInv
  BY DEF Init, PlaceInv, Runnable
<1>6. ActorInv
  BY DEF Init, ActorInv, Actors
<1>7. EndInv /\ WildOnlyIfOver
  BY DEF Init, EndInv, WildOnlyIfOver
<1>8. Accounting
  <2>1. \A p \in Prios : Owing(p) = {}
    BY DEF Init, Owing
  <2>2. \A w \in Workers : pc[w] # "panicked"
    BY DEF Init, Actors
  <2>3. \A p \in Prios : work[p] = 0 /\ Cardinality(Owing(p)) = 0
    BY <2>1, FS_EmptySet DEF Init
  <2> QED
    BY <2>2, <2>3, <1>1 DEF Accounting
<1>9. CloseInv
  BY DEF Init, CloseInv
<1> QED
  BY <1>2, <1>3, <1>4, <1>5, <1>6, <1>7, <1>8, <1>9 DEF IInv

\* Every step of the specification keeps the invariant.
LEMMA NextKeeps == IInv /\ [Next]_vars => IInv'
<1> SUFFICES ASSUME IInv, [Next]_vars PROVE IInv'
  OBVIOUS
<1>1. CASE UNCHANGED vars
  <2>1. Types' /\ ActorInv' /\ EndInv' /\ WildOnlyIfOver'
    BY <1>1 DEF vars, IInv, Types, ActorInv, EndInv, WildOnlyIfOver
  <2>2. QueueInv' /\ HandsInv' /\ PlaceInv'
    BY <1>1, StillPlaces DEF vars, IInv, InHands
  <2>3. Accounting'
    BY <1>1, StillAccount DEF vars, IInv, Accounting
  <2>4. Held' <=> Held
    BY <1>1 DEF vars, Held, Alive, Joined, Submitting
  <2>5. CloseInv'
    BY <1>1, <2>4 DEF vars, IInv, CloseInv
  <2> QED
    BY <2>1, <2>2, <2>3, <2>5 DEF IInv
<1>2. ASSUME NEW x \in Threads, NEW t \in Tasks,
             \/ Spawn(x, t)
             \/ \E keep \in BOOLEAN : Wake(x, t, keep)
             \/ DropWaker(x, t)
             \/ JoinTake(x, t)
             \/ JoinDrop(x, t)
             \/ JoinCancel(x, t)
             \/ JoinCancelled(x, t)
             \/ JoinAbandon(x, t)
      PROVE  IInv'
  BY <1>2, SpawnKeeps, WakeKeeps, DropWakerKeeps, JoinEndKeeps, JoinDropKeeps,
     JoinCancelKeeps, JoinAbandonKeeps
<1>3. ASSUME NEW x \in Threads, JoinDetachAgain(x) PROVE IInv'
  BY <1>3, JoinDetachAgainKeeps
<1>4. ASSUME NEW x \in Actors, Submit(x) PROVE IInv'
  BY <1>4, SubmitKeeps
<1>5. ASSUME NEW w \in Workers,
             (\E p \in Prios : StartCallback(w, p)) \/ CallbackStep(w)
               \/ PollRegister(w) \/ YieldNow(w)
      PROVE  IInv'
  BY <1>5, StartCallbackKeeps, PopTaskKeeps, RunTaskKeeps, PollPendingKeeps, ExitKeeps,
     PollStepKeeps DEF CallbackStep
<1>6. CASE DropPool
  BY <1>6, DropPoolKeeps
<1>7. CASE ClosePool
  BY <1>7, ClosePoolKeeps
<1>8. ASSUME NEW x \in Callbacks, IoCallback(x) PROVE IInv'
  <2>1. x \in Threads /\ FALSE \in BOOLEAN
    BY ExecutorAssumption
  <2> QED
    BY <1>8, <2>1, WakeKeeps DEF IoCallback
<1>9. ASSUME NEW x \in Threads, ThreadStep(x) PROVE IInv'
  BY <1>2, <1>9 DEF ThreadStep
<1> QED
  BY <1>1, <1>3, <1>4, <1>5, <1>6, <1>7, <1>8, <1>9 DEF Next

\* The inductive invariant holds of every behaviour.
LEMMA Invariance == Spec => []IInv
BY InitIInv, NextKeeps, PTL DEF Spec

-----------------------------------------------------------------------------
(***************************************************************************)
(* The theorems.                                                           *)
(***************************************************************************)

\* Every queued task is matched by a work item, one about to be submitted or a
\* callback about to pop, so queue.pop().unwrap() of the work callback never
\* panics, whatever threads and callbacks interleave in push_task.
THEOREM AccountingHolds == Spec => []Accounting
<1>1. IInv => Accounting
  BY DEF IInv
<1> QED
  BY <1>1, Invariance, PTL

\* Drop for HandleInner finds no task queued, no work item outstanding and
\* nobody inside push_task.
THEOREM CloseDiscardsNothingHolds == Spec => []CloseDiscardsNothing
<1>1. IInv => CloseDiscardsNothing
  <2> SUFFICES ASSUME IInv, pool # "open"
               PROVE  /\ \A p \in Prios : work[p] = 0 /\ queue[p] = <<>>
                      /\ \A x \in Actors : pc[x] \notin {"submit", "pop"}
                      /\ \A t \in Tasks : phase[t] \notin Runnable
    BY DEF CloseDiscardsNothing
  <2>1. ~Held
    BY DEF IInv, CloseInv
  <2> QED
    BY <2>1, NothingLeft
<1> QED
  BY <1>1, Invariance, PTL

\* The second detach of a dropped JoinHandle::cancel touches freed memory only
\* of a task that was over.
THEOREM WildOnlyIfOverHolds == Spec => []WildOnlyIfOver
<1>1. IInv => WildOnlyIfOver
  BY DEF IInv
<1> QED
  BY <1>1, Invariance, PTL

\* A queue is no longer than there are tasks.
LEMMA QueueBound ==
  ASSUME IInv, NEW p \in Prios
  PROVE  /\ Len(queue[p]) \in Nat
         /\ Cardinality(Tasks) \in Nat
         /\ Len(queue[p]) <= Cardinality(Tasks)
<1>1. Types /\ QueueInv
  BY DEF IInv
<1>2. queue[p] \in Seq(Tasks)
  BY <1>1 DEF Types
<1>3. Len(queue[p]) \in Nat /\ queue[p] \in [1 .. Len(queue[p]) -> Tasks]
  BY <1>2, LenProperties
<1>4. ~\E i, j \in 1 .. Len(queue[p]) : i # j /\ queue[p][i] = queue[p][j]
  BY <1>1 DEF QueueInv
<1>5. IsFiniteSet(1 .. Len(queue[p])) /\ Cardinality(1 .. Len(queue[p])) = Len(queue[p])
  <2> DEFINE n == Len(queue[p])
  <2>1. n \in Nat
    BY <1>3
  <2> HIDE DEF n
  <2>2. n \in Int /\ 1 \in Int
    BY <2>1
  <2>3. IsFiniteSet(1 .. n) /\ Cardinality(1 .. n) = IF 1 > n THEN 0 ELSE n - 1 + 1
    BY <2>2, FS_Interval, Zenon
  <2>4. (IF 1 > n THEN 0 ELSE n - 1 + 1) = n
    BY <2>1
  <2> QED
    BY <2>3, <2>4 DEF n
<1>6. Cardinality(Tasks) \in Nat /\ IsFiniteSet(Tasks)
  BY ExecutorAssumption, FS_CardinalityType
<1>7. ~(Cardinality(Tasks) < Cardinality(1 .. Len(queue[p])))
  <2> SUFFICES ASSUME Cardinality(Tasks) < Cardinality(1 .. Len(queue[p])) PROVE FALSE
    OBVIOUS
  <2> DEFINE S == 1 .. Len(queue[p])
  <2>1. IsFiniteSet(S) /\ queue[p] \in [S -> Tasks] /\ Cardinality(Tasks) < Cardinality(S)
    BY <1>3, <1>5
  <2> HIDE DEF S
  <2>2. \E i, j \in S : i # j /\ queue[p][i] = queue[p][j]
    BY <2>1, <1>6, FS_PigeonHole
  <2> QED
    BY <2>2, <1>4 DEF S
<1> QED
  BY <1>3, <1>5, <1>6, <1>7

\* A scheduled or running task is in exactly one place, any other in none: no
\* future is polled by two callbacks, and none is lost between them.
THEOREM RunnableUniqueHolds == Spec => []RunnableUnique
<1>1. IInv => RunnableUnique
  <2> SUFFICES ASSUME IInv, NEW t \in Tasks
               PROVE  Cardinality(Runnables(t)) = IF phase[t] \in Runnable THEN 1 ELSE 0
    BY DEF RunnableUnique
  <2>1. Types /\ QueueInv /\ HandsInv /\ PlaceInv
    BY DEF IInv
  <2>2. \A p \in Prios : \A i \in 1 .. Len(queue[p]) : queue[p][i] = t =>
          QueuedAt(t, i) /\ p = prio[t]
    BY <2>1 DEF QueueInv, QueuedAt
  <2>3. prio[t] \in Prios
    BY <2>1 DEF Types
  <2>4. CASE phase[t] \notin Runnable
    <3>1. \A i \in Nat : ~QueuedAt(t, i)
      BY <2>1, <2>3, <2>4 DEF QueueInv, QueuedAt, Runnable
    <3>2. \A w \in Workers : ~InHands(w, t)
      BY <2>1, <2>4 DEF HandsInv, InHands, Runnable
    <3>3. Runnables(t) = {}
      BY <3>1, <3>2, <2>2 DEF Runnables, InHands
    <3> QED
      BY <3>3, <2>4, FS_EmptySet
  <2>5. CASE \E w \in Workers : InHands(w, t)
    <3>1. PICK w \in Workers : InHands(w, t)
      BY <2>5
    <3>2. /\ \A i \in Nat : ~QueuedAt(t, i)
          /\ \A v \in Workers : InHands(v, t) => v = w
          /\ phase[t] \in Runnable
      BY <3>1, <2>1 DEF HandsInv, InHands, Runnable
    <3>3. {e \in Prios \X (1 .. Cardinality(Tasks) + 1) :
             e[2] <= Len(queue[e[1]]) /\ queue[e[1]][e[2]] = t} = {}
      <4> SUFFICES ASSUME NEW p \in Prios, NEW i \in 1 .. Cardinality(Tasks) + 1,
                          i <= Len(queue[p]), queue[p][i] = t
                   PROVE  FALSE
        OBVIOUS
      <4>1. Cardinality(Tasks) \in Nat /\ Len(queue[p]) \in Nat
        BY QueueBound
      <4>2. i \in 1 .. Len(queue[p]) /\ i \in Nat
        BY <4>1
      <4> QED
        BY <4>2, <3>2, <2>2
    <3>4. {v \in Workers : pc[v] \in {"run", "poll"} /\ task[v] = t} = {w}
      BY <3>1, <3>2 DEF InHands
    <3>5. Runnables(t) = {<<w, 0>>}
      BY <3>3, <3>4 DEF Runnables
    <3> QED
      BY <3>2, <3>5, FS_Singleton
  <2>6. CASE phase[t] \in Runnable /\ ~(\E w \in Workers : InHands(w, t))
    <3>1. PICK i \in Nat : QueuedAt(t, i)
      BY <2>1, <2>6 DEF PlaceInv
    <3>2. /\ Len(queue[prio[t]]) \in Nat /\ Cardinality(Tasks) \in Nat
          /\ Len(queue[prio[t]]) <= Cardinality(Tasks)
          /\ i \in 1 .. Len(queue[prio[t]]) /\ queue[prio[t]][i] = t
      BY <3>1, <2>3, QueueBound DEF QueuedAt
    <3>3. i \in 1 .. Cardinality(Tasks) + 1 /\ i <= Len(queue[prio[t]])
      BY <3>2
    <3>4. ASSUME NEW p \in Prios, NEW j \in 1 .. Cardinality(Tasks) + 1,
                 j <= Len(queue[p]), queue[p][j] = t
          PROVE  p = prio[t] /\ j = i
      <4>1. j \in 1 .. Len(queue[p])
        BY <3>2, <3>4, QueueBound
      <4>2. p = prio[t]
        BY <4>1, <3>4, <2>2
      <4> QED
        BY <4>1, <4>2, <3>2, <3>4, <2>1 DEF QueueInv
    <3>5. {e \in Prios \X (1 .. Cardinality(Tasks) + 1) :
             e[2] <= Len(queue[e[1]]) /\ queue[e[1]][e[2]] = t} = {<<prio[t], i>>}
      <4>1. <<prio[t], i>> \in Prios \X (1 .. Cardinality(Tasks) + 1)
        BY <3>3, <2>3
      <4>2. ASSUME NEW e \in Prios \X (1 .. Cardinality(Tasks) + 1),
                   e[2] <= Len(queue[e[1]]), queue[e[1]][e[2]] = t
            PROVE  e = <<prio[t], i>>
        <5>1. e = <<e[1], e[2]>> /\ e[1] \in Prios /\ e[2] \in 1 .. Cardinality(Tasks) + 1
          BY <4>2
        <5> QED
          BY <5>1, <4>2, <3>4
      <4> QED
        BY <4>1, <4>2, <3>2, <3>3
    <3>6. {v \in Workers : pc[v] \in {"run", "poll"} /\ task[v] = t} = {}
      BY <2>6 DEF InHands
    <3>7. Runnables(t) = {<<prio[t], i>>}
      BY <3>5, <3>6 DEF Runnables
    <3> QED
      BY <2>6, <3>7, FS_Singleton
  <2> QED
    BY <2>4, <2>5, <2>6
<1> QED
  BY <1>1, Invariance, PTL

\* The state of the executor is of its type; in particular there are never more
\* work items in a priority than tasks.
THEOREM TypeCorrect == Spec => []TypeOK
<1>1. IInv => TypeOK
  <2> SUFFICES ASSUME IInv PROVE TypeOK
    OBVIOUS
  <2>1. Types /\ Accounting
    BY DEF IInv
  <2>2. ASSUME NEW p \in Prios PROVE work[p] \in 0 .. Cardinality(Tasks)
    <3>1. /\ Len(queue[p]) = work[p] + Cardinality(Owing(p))
          /\ work[p] \in Nat /\ Cardinality(Owing(p)) \in Nat
      BY <2>1, OwingFinite DEF Accounting, Types
    <3> QED
      BY <3>1, QueueBound
  <2> QED
    BY <2>1, <2>2 DEF Types, TypeOK
<1> QED
  BY <1>1, Invariance, PTL

=============================================================================
