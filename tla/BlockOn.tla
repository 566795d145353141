------------------------------- MODULE BlockOn -------------------------------
(***************************************************************************)
(* Handle::block_on (src/src/task/block_on.rs) and the InlineWaker it      *)
(* sleeps on (src/src/task/waker.rs).  The caller spawns the future on the *)
(* pool and polls the JoinHandle with a waker that points to a latch in    *)
(* its own stack frame; the pool thread that finishes the task sets the    *)
(* latch and wakes the sleeper.                                            *)
(*                                                                         *)
(* Calls nest: the call of level 1 is made by a thread outside the pool,   *)
(* the call of level k + 1 by the task of level k, on the pool thread that *)
(* runs it.  JoinHandle::poll and the end of a task are async-task's, each *)
(* atomic access of which is a step here.                                  *)
(***************************************************************************)
EXTENDS Naturals, FiniteSets

CONSTANTS Depth,      \* nested calls
          MaxThreads  \* threads of the pool

ASSUME BlockOnAssumption ==
  /\ Depth \in Nat \ {0}
  /\ MaxThreads \in Nat \ {0}

VARIABLES
  bpc,     \* where each call is
  latch,   \* InlineWaker.state
  waited,  \* the call has gone into InlineWaker::wait
  awaiter, \* the task holds a waker of the call
  task,    \* the task spawned by the call
  rpc      \* what the thread that finished the task still has to do

vars == <<bpc, latch, waited, awaiter, task, rpc>>

Levels == 1 .. Depth
Over == {"ok", "panic"}
Returned == {"returned", "unwound"}

\* Levels whose task occupies a pool thread.
Busy == {k \in Levels : task[k] = "running" \/ rpc[k] \in {"take", "latch", "wakeall"}}

TypeOK ==
  /\ bpc \in [Levels -> {"off", "poll", "recheck", "wait", "park", "asleep"} \cup Returned]
  /\ latch \in [Levels -> {0, 1}]
  /\ waited \in [Levels -> BOOLEAN]
  /\ awaiter \in [Levels -> BOOLEAN]
  /\ task \in [Levels -> {"none", "queued", "running"} \cup Over]
  /\ rpc \in [Levels -> {"none", "take", "latch", "wakeall", "done", "wild"}]
  /\ Cardinality(Busy) <= MaxThreads

\* Mutant: the latch starts as if it had been woken.
Init_Woken ==
  /\ bpc = [k \in Levels |-> "off"]
  /\ latch = [k \in Levels |-> 1]
  /\ waited = [k \in Levels |-> FALSE]
  /\ awaiter = [k \in Levels |-> FALSE]
  /\ task = [k \in Levels |-> "none"]
  /\ rpc = [k \in Levels |-> "none"]

Init ==
  /\ bpc = [k \in Levels |-> "off"]
  /\ latch = [k \in Levels |-> 0]
  /\ waited = [k \in Levels |-> FALSE]
  /\ awaiter = [k \in Levels |-> FALSE]
  /\ task = [k \in Levels |-> "none"]
  /\ rpc = [k \in Levels |-> "none"]

-----------------------------------------------------------------------------
(***************************************************************************)
(* The caller.                                                             *)
(***************************************************************************)

Call(k) ==
  /\ bpc[k] = "off"
  /\ k > 1 => task[k - 1] = "running"
  /\ bpc' = [bpc EXCEPT ![k] = "poll"]
  /\ task' = [task EXCEPT ![k] = "queued"]
  /\ UNCHANGED <<latch, waited, awaiter, rpc>>

\* The task is over: its output is returned, or the poll panics.  A waker
\* that is still registered is taken back.
PollReady(k) ==
  /\ bpc[k] \in {"poll", "recheck"}
  /\ task[k] \in Over
  /\ bpc' = [bpc EXCEPT ![k] = IF task[k] = "ok" THEN "returned" ELSE "unwound"]
  /\ awaiter' = [awaiter EXCEPT ![k] = FALSE]
  /\ UNCHANGED <<latch, waited, task, rpc>>

\* It is not: register the waker and look again ...
PollRegister(k) ==
  /\ bpc[k] = "poll"
  /\ task[k] \notin Over
  /\ awaiter' = [awaiter EXCEPT ![k] = TRUE]
  /\ bpc' = [bpc EXCEPT ![k] = "recheck"]
  /\ UNCHANGED <<latch, waited, task, rpc>>

\* ... and return Poll::Pending; InlineWaker::wait begins.
PollPending(k) ==
  /\ bpc[k] = "recheck"
  /\ task[k] \notin Over
  /\ bpc' = [bpc EXCEPT ![k] = "wait"]
  /\ waited' = [waited EXCEPT ![k] = TRUE]
  /\ UNCHANGED <<latch, awaiter, task, rpc>>

\* while self.state.load() != 1
WaitLoad(k) ==
  /\ bpc[k] = "wait"
  /\ bpc' = [bpc EXCEPT ![k] = IF latch[k] = 1 THEN "poll" ELSE "park"]
  /\ UNCHANGED <<latch, waited, awaiter, task, rpc>>

\* Mutant: sleep without comparing.
WaitOnAddress_NoCompare(k) ==
  /\ bpc[k] = "park"
  /\ bpc' = [bpc EXCEPT ![k] = "asleep"]
  /\ UNCHANGED <<latch, waited, awaiter, task, rpc>>

\* WaitOnAddress sleeps if the latch still is 0, in one step with the test.
WaitOnAddress(k) ==
  /\ bpc[k] = "park"
  /\ bpc' = [bpc EXCEPT ![k] = IF latch[k] = 0 THEN "asleep" ELSE "wait"]
  /\ UNCHANGED <<latch, waited, awaiter, task, rpc>>

\* Mutant: the loop in wait is an if.
WakeSpurious_NoLoop(k) ==
  /\ bpc[k] = "asleep"
  /\ bpc' = [bpc EXCEPT ![k] = "poll"]
  /\ UNCHANGED <<latch, waited, awaiter, task, rpc>>

\* WaitOnAddress may return without a wake; the loop tests the latch again.
WakeSpurious(k) ==
  /\ bpc[k] = "asleep"
  /\ bpc' = [bpc EXCEPT ![k] = "wait"]
  /\ UNCHANGED <<latch, waited, awaiter, task, rpc>>

-----------------------------------------------------------------------------
(***************************************************************************)
(* The pool threads.                                                       *)
(***************************************************************************)

Start(k) ==
  /\ task[k] = "queued"
  /\ Cardinality(Busy) < MaxThreads
  /\ task' = [task EXCEPT ![k] = "running"]
  /\ UNCHANGED <<bpc, latch, waited, awaiter, rpc>>

\* The task ends, after the call it makes, if it makes one; a panic of that
\* call is a panic of the task.
Finish(k, o) ==
  /\ task[k] = "running"
  /\ k < Depth => bpc[k + 1] \in {"off"} \cup Returned
  /\ (k < Depth /\ bpc[k + 1] = "unwound") => o = "panic"
  /\ task' = [task EXCEPT ![k] = o]
  /\ rpc' = [rpc EXCEPT ![k] = IF awaiter[k] THEN "take" ELSE "done"]
  /\ UNCHANGED <<bpc, latch, waited, awaiter>>

\* The thread takes the registered waker, unless the caller was faster.
TakeAwaiter(k) ==
  /\ rpc[k] = "take"
  /\ rpc' = [rpc EXCEPT ![k] = IF awaiter[k] THEN "latch" ELSE "done"]
  /\ awaiter' = [awaiter EXCEPT ![k] = FALSE]
  /\ UNCHANGED <<bpc, latch, waited, task>>

\* InlineWaker::wake: compare-exchange 0 -> 1 ...
Wake(k) ==
  /\ rpc[k] = "latch"
  /\ bpc[k] \notin Returned
  /\ latch' = [latch EXCEPT ![k] = 1]
  /\ rpc' = [rpc EXCEPT ![k] = IF latch[k] = 0 THEN "wakeall" ELSE "done"]
  /\ UNCHANGED <<bpc, waited, awaiter, task>>

\* ... on a latch whose frame is gone: undefined.
WakeWild(k) ==
  /\ rpc[k] = "latch"
  /\ bpc[k] \in Returned
  /\ rpc' = [rpc EXCEPT ![k] = "wild"]
  /\ UNCHANGED <<bpc, latch, waited, awaiter, task>>

\* Mutant: nobody is woken.
WakeByAddressAll_Skipped(k) ==
  /\ rpc[k] = "wakeall"
  /\ rpc' = [rpc EXCEPT ![k] = "done"]
  /\ UNCHANGED <<bpc, latch, waited, awaiter, task>>

\* WakeByAddressAll uses the address only as a key.
WakeByAddressAll(k) ==
  /\ rpc[k] = "wakeall"
  /\ rpc' = [rpc EXCEPT ![k] = "done"]
  /\ bpc' = [bpc EXCEPT ![k] = IF @ = "asleep" THEN "wait" ELSE @]
  /\ UNCHANGED <<latch, waited, awaiter, task>>

-----------------------------------------------------------------------------
CallerStep(k) ==
  \/ PollReady(k)
  \/ PollRegister(k)
  \/ PollPending(k)
  \/ WaitLoad(k)
  \/ WaitOnAddress(k)

RunnerStep(k) ==
  \/ \E o \in Over : Finish(k, o)
  \/ TakeAwaiter(k)
  \/ Wake(k)
  \/ WakeWild(k)
  \/ WakeByAddressAll(k)

Next ==
  \E k \in Levels :
    \/ Call(k)
    \/ CallerStep(k)
    \/ WakeSpurious(k)
    \/ Start(k)
    \/ RunnerStep(k)

Spec == Init /\ [][Next]_vars

(***************************************************************************)
(* Fairness: threads run on, the futures come to an end (after the calls   *)
(* they make), and the pool starts queued tasks when it has a free thread. *)
(* Sleeping threads are woken only by WakeByAddressAll.                    *)
(***************************************************************************)
Fairness ==
  \A k \in Levels :
    /\ WF_vars(CallerStep(k))
    /\ WF_vars(Start(k))
    /\ WF_vars(RunnerStep(k))

FairSpec == Spec /\ Fairness

-----------------------------------------------------------------------------
(***************************************************************************)
(* Properties.                                                             *)
(***************************************************************************)

\* The latch is never reset, so a wake before the task is over would turn
\* the loop in block_on into a busy loop.
LatchMeansOver == \A k \in Levels : latch[k] = 1 => task[k] \in Over

\* A caller that is asleep, or about to sleep, when its task is over has its
\* latch set or a pool thread on the way to set it, and is woken after that.
NoLostWakeup ==
  \A k \in Levels :
    task[k] \in Over =>
      /\ bpc[k] = "asleep" => rpc[k] \in {"take", "latch", "wakeall"}
      /\ bpc[k] \in {"wait", "park"} =>
           latch[k] = 1 \/ rpc[k] \in {"take", "latch"}

\* A call that has waited returns only after the pool thread has written the
\* latch for the last time, so the write never hits a dead stack frame.  (A
\* call that finds its task over in its second look returns at once and has
\* no such protection.)
WaitedFrameSafe ==
  \A k \in Levels :
    (waited[k] /\ bpc[k] \in Returned) => rpc[k] \notin {"take", "latch", "wild"}

\* Every thread of the pool runs a task that is inside block_on, and none of
\* the tasks they wait for has been started unless it is one of these.
Starved ==
  /\ Cardinality(Busy) = MaxThreads
  /\ \A k \in Busy :
       /\ k < Depth
       /\ bpc[k + 1] \notin {"off"} \cup Returned
       /\ task[k + 1] \in {"queued", "running"}

\* Every call of block_on returns (or unwinds) unless nested calls have taken
\* every thread of the pool; then none of them ever returns.
Returns ==
  \A k \in Levels : bpc[k] = "poll" ~> (bpc[k] \in Returned \/ []Starved)

=============================================================================
