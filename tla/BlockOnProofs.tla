---------------------------- MODULE BlockOnProofs ----------------------------
(***************************************************************************)
(* Proofs about BlockOn, for every depth of nesting and every size of the  *)
(* pool: no wake-up is lost between the caller and the thread that ends    *)
(* its task, and a caller that has waited outlives the write of the latch. *)
(***************************************************************************)
EXTENDS BlockOn, TLAPS

\* The types of the variables.
Types ==
  /\ bpc \in [Levels -> {"off", "poll", "recheck", "wait", "park", "asleep"} \cup Returned]
  /\ latch \in [Levels -> {0, 1}]
  /\ waited \in [Levels -> BOOLEAN]
  /\ awaiter \in [Levels -> BOOLEAN]
  /\ task \in [Levels -> {"none", "queued", "running"} \cup Over]
  /\ rpc \in [Levels -> {"none", "take", "latch", "wakeall", "done", "wild"}]

Waiting == {"wait", "park", "asleep"}

\* The thread of the pool: it has something to do only when the task is over,
\* and has passed the latch once that is set.
RunnerInv(k) ==
  /\ rpc[k] = "none" <=> task[k] \notin Over
  /\ latch[k] = 1 => rpc[k] \in {"wakeall", "done"}

\* The caller: it waits only after the task has got its waker and has then
\* been seen unfinished, and goes on only when the latch is set.
CallerInv(k) ==
  /\ bpc[k] = "off" => task[k] = "none"
  /\ bpc[k] \in {"off", "recheck"} => ~waited[k]
  /\ (waited[k] /\ bpc[k] \notin Waiting) => latch[k] = 1

\* Between them: a caller that waits is registered, or its waker is on the way
\* to the latch, or the latch is set.
HandOver(k) ==
  /\ (bpc[k] \in Waiting \cup {"recheck"} /\ task[k] \notin Over) => awaiter[k]
  /\ (bpc[k] \in Waiting /\ task[k] \in Over) =>
       \/ rpc[k] = "take" /\ awaiter[k]
       \/ rpc[k] = "latch"
       \/ latch[k] = 1 /\ (bpc[k] = "asleep" => rpc[k] = "wakeall")

LevelInv(k) == RunnerInv(k) /\ CallerInv(k) /\ HandOver(k)

IInv == Types /\ \A k \in Levels : LevelInv(k)

USE DEF Over, Returned, Waiting

\* Nothing has been called.
LEMMA InitIInv == Init => IInv
  BY DEF Init, IInv, Types, LevelInv, RunnerInv, CallerInv, HandOver

\* A step of one level leaves the others alone.
LEMMA OthersKeep ==
  ASSUME NEW j, LevelInv(j),
         bpc'[j] = bpc[j], latch'[j] = latch[j], waited'[j] = waited[j],
         awaiter'[j] = awaiter[j], task'[j] = task[j], rpc'[j] = rpc[j]
  PROVE  LevelInv(j)'
  BY DEF LevelInv, RunnerInv, CallerInv, HandOver

\* The call spawns its task and has not waited.
LEMMA CallKeeps ==
  ASSUME IInv, NEW k \in Levels, Call(k)
  PROVE  IInv'
<1>1. Types'
  BY DEF Call, IInv, Types
<1>2. LevelInv(k)'
  BY DEF Call, IInv, Types, LevelInv, RunnerInv, CallerInv, HandOver
<1>3. \A j \in Levels \ {k} : LevelInv(j)'
  BY OthersKeep DEF Call, IInv, Types
<1> QED
  BY <1>1, <1>2, <1>3 DEF IInv

\* A caller that returns after it has waited has seen the latch set.
LEMMA PollReadyKeeps ==
  ASSUME IInv, NEW k \in Levels, PollReady(k)
  PROVE  IInv'
<1>1. Types'
  BY DEF PollReady, IInv, Types
<1>2. LevelInv(k)'
  BY DEF PollReady, IInv, Types, LevelInv, RunnerInv, CallerInv, HandOver
<1>3. \A j \in Levels \ {k} : LevelInv(j)'
  BY OthersKeep DEF PollReady, IInv, Types
<1> QED
  BY <1>1, <1>2, <1>3 DEF IInv

\* A caller that registers has not waited: the latch would mean that the task
\* is over.
LEMMA PollRegisterKeeps ==
  ASSUME IInv, NEW k \in Levels, PollRegister(k)
  PROVE  IInv'
<1>1. Types'
  BY DEF PollRegister, IInv, Types
<1>2. LevelInv(k)'
  BY DEF PollRegister, IInv, Types, LevelInv, RunnerInv, CallerInv, HandOver
<1>3. \A j \in Levels \ {k} : LevelInv(j)'
  BY OthersKeep DEF PollRegister, IInv, Types
<1> QED
  BY <1>1, <1>2, <1>3 DEF IInv

\* The second look: the task is not over, so it has the waker and will see it.
LEMMA PollPendingKeeps ==
  ASSUME IInv, NEW k \in Levels, PollPending(k)
  PROVE  IInv'
<1>1. Types'
  BY DEF PollPending, IInv, Types
<1>2. LevelInv(k)'
  BY DEF PollPending, IInv, Types, LevelInv, RunnerInv, CallerInv, HandOver
<1>3. \A j \in Levels \ {k} : LevelInv(j)'
  BY OthersKeep DEF PollPending, IInv, Types
<1> QED
  BY <1>1, <1>2, <1>3 DEF IInv

\* The loop of wait is left only when the latch is set.
LEMMA WaitLoadKeeps ==
  ASSUME IInv, NEW k \in Levels, WaitLoad(k)
  PROVE  IInv'
<1>1. Types'
  BY DEF WaitLoad, IInv, Types
<1>2. LevelInv(k)'
  BY DEF WaitLoad, IInv, Types, LevelInv, RunnerInv, CallerInv, HandOver
<1>3. \A j \in Levels \ {k} : LevelInv(j)'
  BY OthersKeep DEF WaitLoad, IInv, Types
<1> QED
  BY <1>1, <1>2, <1>3 DEF IInv

\* The caller falls asleep only while the latch is 0.
LEMMA WaitOnAddressKeeps ==
  ASSUME IInv, NEW k \in Levels, WaitOnAddress(k)
  PROVE  IInv'
<1>1. Types'
  BY DEF WaitOnAddress, IInv, Types
<1>2. LevelInv(k)'
  BY DEF WaitOnAddress, IInv, Types, LevelInv, RunnerInv, CallerInv, HandOver
<1>3. \A j \in Levels \ {k} : LevelInv(j)'
  BY OthersKeep DEF WaitOnAddress, IInv, Types
<1> QED
  BY <1>1, <1>2, <1>3 DEF IInv

\* A caller that is awake needs no wake-up.
LEMMA WakeSpuriousKeeps ==
  ASSUME IInv, NEW k \in Levels, WakeSpurious(k)
  PROVE  IInv'
<1>1. Types'
  BY DEF WakeSpurious, IInv, Types
<1>2. LevelInv(k)'
  BY DEF WakeSpurious, IInv, Types, LevelInv, RunnerInv, CallerInv, HandOver
<1>3. \A j \in Levels \ {k} : LevelInv(j)'
  BY OthersKeep DEF WakeSpurious, IInv, Types
<1> QED
  BY <1>1, <1>2, <1>3 DEF IInv

\* The task gets a thread.
LEMMA StartKeeps ==
  ASSUME IInv, NEW k \in Levels, Start(k)
  PROVE  IInv'
<1>1. Types'
  BY DEF Start, IInv, Types
<1>2. LevelInv(k)'
  BY DEF Start, IInv, Types, LevelInv, RunnerInv, CallerInv, HandOver
<1>3. \A j \in Levels \ {k} : LevelInv(j)'
  BY OthersKeep DEF Start, IInv, Types
<1> QED
  BY <1>1, <1>2, <1>3 DEF IInv

\* The end of the task finds the waker of a caller that waits.
LEMMA FinishKeeps ==
  ASSUME IInv, NEW k \in Levels, NEW o \in Over, Finish(k, o)
  PROVE  IInv'
<1>1. Types'
  BY DEF Finish, IInv, Types
<1>2. LevelInv(k)'
  BY DEF Finish, IInv, Types, LevelInv, RunnerInv, CallerInv, HandOver
<1>3. \A j \in Levels \ {k} : LevelInv(j)'
  BY OthersKeep DEF Finish, IInv, Types
<1> QED
  BY <1>1, <1>2, <1>3 DEF IInv

\* The waker is taken and is on the way to the latch.
LEMMA TakeAwaiterKeeps ==
  ASSUME IInv, NEW k \in Levels, TakeAwaiter(k)
  PROVE  IInv'
<1>1. Types'
  BY DEF TakeAwaiter, IInv, Types
<1>2. LevelInv(k)'
  BY DEF TakeAwaiter, IInv, Types, LevelInv, RunnerInv, CallerInv, HandOver
<1>3. \A j \in Levels \ {k} : LevelInv(j)'
  BY OthersKeep DEF TakeAwaiter, IInv, Types
<1> QED
  BY <1>1, <1>2, <1>3 DEF IInv

\* The latch is set, and a caller that sleeps is still to be woken.
LEMMA WakeKeeps ==
  ASSUME IInv, NEW k \in Levels, Wake(k)
  PROVE  IInv'
<1>1. Types'
  BY DEF Wake, IInv, Types
<1>2. LevelInv(k)'
  BY DEF Wake, IInv, Types, LevelInv, RunnerInv, CallerInv, HandOver
<1>3. \A j \in Levels \ {k} : LevelInv(j)'
  BY OthersKeep DEF Wake, IInv, Types
<1> QED
  BY <1>1, <1>2, <1>3 DEF IInv

\* Only the latch of a caller that never waited is missed.
LEMMA WakeWildKeeps ==
  ASSUME IInv, NEW k \in Levels, WakeWild(k)
  PROVE  IInv'
<1>1. Types'
  BY DEF WakeWild, IInv, Types
<1>2. LevelInv(k)'
  BY DEF WakeWild, IInv, Types, LevelInv, RunnerInv, CallerInv, HandOver
<1>3. \A j \in Levels \ {k} : LevelInv(j)'
  BY OthersKeep DEF WakeWild, IInv, Types
<1> QED
  BY <1>1, <1>2, <1>3 DEF IInv

\* Nobody sleeps after it.
LEMMA WakeByAddressAllKeeps ==
  ASSUME IInv, NEW k \in Levels, WakeByAddressAll(k)
  PROVE  IInv'
<1>1. Types'
  BY DEF WakeByAddressAll, IInv, Types
<1>2. LevelInv(k)'
  BY DEF WakeByAddressAll, IInv, Types, LevelInv, RunnerInv, CallerInv, HandOver
<1>3. \A j \in Levels \ {k} : LevelInv(j)'
  BY OthersKeep DEF WakeByAddressAll, IInv, Types
<1> QED
  BY <1>1, <1>2, <1>3 DEF IInv

\* Every step of BlockOn keeps the invariant.
LEMMA NextKeeps == IInv /\ [Next]_vars => IInv'
<1> SUFFICES ASSUME IInv, [Next]_vars PROVE IInv'
  OBVIOUS
<1>1. CASE UNCHANGED vars
  BY <1>1 DEF vars, IInv, Types, LevelInv, RunnerInv, CallerInv, HandOver
<1>2. ASSUME NEW k \in Levels, Call(k) PROVE IInv'
  BY <1>2, CallKeeps
<1>3. ASSUME NEW k \in Levels, CallerStep(k) PROVE IInv'
  BY <1>3, PollReadyKeeps, PollRegisterKeeps, PollPendingKeeps, WaitLoadKeeps,
     WaitOnAddressKeeps DEF CallerStep
<1>4. ASSUME NEW k \in Levels, WakeSpurious(k) PROVE IInv'
  BY <1>4, WakeSpuriousKeeps
<1>5. ASSUME NEW k \in Levels, Start(k) PROVE IInv'
  BY <1>5, StartKeeps
<1>6. ASSUME NEW k \in Levels, RunnerStep(k) PROVE IInv'
  BY <1>6, FinishKeeps, TakeAwaiterKeeps, WakeKeeps, WakeWildKeeps,
     WakeByAddressAllKeeps DEF RunnerStep
<1> QED
  BY <1>1, <1>2, <1>3, <1>4, <1>5, <1>6 DEF Next

\* The invariant holds in every behaviour.
LEMMA Invariance == Spec => []IInv
  BY InitIInv, NextKeeps, PTL DEF Spec

\* The latch of InlineWaker is set only when the task is over, so the loop of
\* block_on never spins.
THEOREM LatchOver == Spec => []LatchMeansOver
<1>1. IInv => LatchMeansOver
  BY DEF IInv, Types, LevelInv, RunnerInv, LatchMeansOver
<1> QED
  BY <1>1, Invariance, PTL

\* No wake-up of block_on is lost: whoever sleeps on a task that is over will
\* be woken, whoever is about to sleep will find the latch set.
THEOREM WakeupSafe == Spec => []NoLostWakeup
<1>1. IInv => NoLostWakeup
  BY DEF IInv, Types, LevelInv, RunnerInv, CallerInv, HandOver, NoLostWakeup
<1> QED
  BY <1>1, Invariance, PTL

\* A block_on that has waited returns only after InlineWaker::wake has written
\* the latch in its frame.
THEOREM FrameSafe == Spec => []WaitedFrameSafe
<1>1. IInv => WaitedFrameSafe
  BY DEF IInv, Types, LevelInv, RunnerInv, CallerInv, WaitedFrameSafe
<1> QED
  BY <1>1, Invariance, PTL

=============================================================================
