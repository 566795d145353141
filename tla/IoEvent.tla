------------------------------- MODULE IoEvent -------------------------------
(***************************************************************************)
(* IoEvent (src/src/io/shared/event.rs): an overlapped operation whose     *)
(* completion is a Win32 event watched by the thread pool.  Connect,       *)
(* Accept and GetAddrInfoFuture drive it.  The actors are                  *)
(*   - the task that owns the event: polls it, issues one operation after  *)
(*     another while they fail (the address loop of TcpStream::connect),   *)
(*     and at any time between two polls drops it;                         *)
(*   - the operating system, which finishes operations and signals;        *)
(*   - the wait callbacks on pool threads.  A wait fires once per arming,  *)
(*     so the callback of one operation may still be on its last           *)
(*     instruction when the callback of the next one starts.               *)
(***************************************************************************)
EXTENDS IoState

CONSTANTS MaxOps,         \* operations issued on the event (addresses tried)
          InlineOutcomes, \* answers the OS may give without going pending
          HasHandle,      \* poll is given Some(handle) (Connect, Accept)
          ResetMayFail,   \* whether ResetEvent may fail
          SpuriousPolls   \* a pending future may be polled without a wake

ASSUME EventAssumption ==
  /\ MaxOps \in Nat \ {0}
  /\ InlineOutcomes \subseteq {"ok", "err"}
  /\ HasHandle \in BOOLEAN
  /\ ResetMayFail \in BOOLEAN
  /\ SpuriousPolls \in BOOLEAN

VARIABLES
  st,        \* IoEvent.state
  result,    \* IoEvent.result
  waker,     \* a waker is registered in IoEvent.waker
  woken,     \* the task has been woken since its last poll began
  op,        \* number of the last operation issued
  kernel,    \* its status in the OVERLAPPED: "none", "inflight", "ok", "err"
  signalled, \* the event overlapped.hEvent
  armed,     \* SetThreadpoolWait is in force
  cb,        \* progress of the callback of each operation
  upc,       \* where the task is inside poll or drop
  ret        \* what the last poll of the current future returned

vars == <<st, result, waker, woken, op, kernel, signalled, armed, cb, upc, ret>>

Outcome == {"ok", "err"}
Ops == 1 .. MaxOps
CbPc == {"none", "claim", "set", "ready", "wake", "done", "wild"}
UserPc == {"idle", "arm", "collect", "issue", "park", "register", "drop", "freed"}

TypeOK ==
  /\ st \in States
  /\ result \in [op : 0 .. MaxOps, ok : BOOLEAN]
  /\ waker \in BOOLEAN
  /\ woken \in BOOLEAN
  /\ op \in 0 .. MaxOps
  /\ kernel \in Outcome \cup {"none", "inflight"}
  /\ signalled \in BOOLEAN
  /\ armed \in BOOLEAN
  /\ cb \in [Ops -> CbPc]
  /\ upc \in UserPc
  /\ ret \in Outcome \cup {"none", "pending"}

\* IoEvent::new: the wait is armed on a manual-reset event, not signalled.
Init ==
  /\ st = IDLE
  /\ result = Uninit
  /\ waker = FALSE
  /\ woken = FALSE
  /\ op = 0
  /\ kernel = "none"
  /\ signalled = FALSE
  /\ armed = TRUE
  /\ cb = [n \in Ops |-> "none"]
  /\ upc = "idle"
  /\ ret = "none"

-----------------------------------------------------------------------------
(***************************************************************************)
(* The task.  A future is polled once when it is made and then when its    *)
(* waker has been called.  A poll may also be spurious: a combinator that  *)
(* holds several futures polls them all when one is woken.                 *)
(***************************************************************************)

Polls ==
  /\ upc = "idle"
  /\ \/ ret = "none"
     \/ ret = "pending" /\ (woken \/ SpuriousPolls)

\* finish() succeeds and ResetEvent with it.
PollFinish ==
  /\ Polls
  /\ finish(st)
  /\ woken' = FALSE
  /\ signalled' = FALSE
  /\ upc' = "arm"
  /\ UNCHANGED <<st, result, waker, op, kernel, armed, cb, ret>>

\* ResetEvent fails: the poll answers with the error and leaves the wait
\* disarmed and the event signalled.
PollResetFails ==
  /\ ResetMayFail
  /\ Polls
  /\ finish(st)
  /\ woken' = FALSE
  /\ st' = IDLE
  /\ ret' = "err"
  /\ UNCHANGED <<result, waker, op, kernel, signalled, armed, cb, upc>>

\* Mutant: the wait is not armed again.
PollArm_NotArmed ==
  /\ upc = "arm"
  /\ upc' = "collect"
  /\ UNCHANGED <<st, result, waker, woken, op, kernel, signalled, armed, cb, ret>>

\* SetThreadpoolWait
PollArm ==
  /\ upc = "arm"
  /\ armed' = TRUE
  /\ upc' = "collect"
  /\ UNCHANGED <<st, result, waker, woken, op, kernel, signalled, cb, ret>>

\* Mutant: the wait result alone decides.
Answer_WaitResultOnly == IF result.ok THEN "ok" ELSE "err"

\* What the poll answers: the wait result if it is an error, else what
\* GetOverlappedResult says if a handle was given, else success.
Answer ==
  CASE ~result.ok -> "err"
    [] result.ok /\ HasHandle -> kernel
    [] OTHER -> "ok"

PollCollect ==
  /\ upc = "collect"
  /\ kernel # "inflight"    \* GetOverlappedResult is told to wait
  /\ ret' = Answer
  /\ st' = IDLE
  /\ upc' = "idle"
  /\ UNCHANGED <<result, waker, woken, op, kernel, signalled, armed, cb>>

PollSchedule ==
  /\ Polls
  /\ schedule(st)
  /\ woken' = FALSE
  /\ st' = SCHEDULING
  /\ upc' = "issue"
  /\ UNCHANGED <<result, waker, op, kernel, signalled, armed, cb, ret>>

\* The schedule closure goes pending; starting the operation resets hEvent.
IssuePending ==
  /\ upc = "issue"
  /\ op' = op + 1
  /\ kernel' = "inflight"
  /\ signalled' = FALSE
  /\ upc' = "park"
  /\ UNCHANGED <<st, result, waker, woken, armed, cb, ret>>

\* The closure is answered at once; set_idle.  A success may signal hEvent
\* (AcceptEx, ConnectEx) or not (WSAEISCONN, GetAddrInfoExW).
IssueInline(o) ==
  /\ upc = "issue"
  /\ op' = op + 1
  /\ kernel' = o
  /\ signalled' \in IF o = "ok" THEN BOOLEAN ELSE {FALSE}
  /\ st' = IDLE
  /\ ret' = o
  /\ upc' = "idle"
  /\ UNCHANGED <<result, waker, woken, armed, cb>>

\* Mutant: the pending branch does not register the waker.
PollPark_NoRegister ==
  /\ upc = "park"
  /\ st' = PENDING
  /\ ret' = "pending"
  /\ upc' = "idle"
  /\ UNCHANGED <<result, waker, woken, op, kernel, signalled, armed, cb>>

\* waker.register, then set_pending.  No callback passes SCHEDULING, so the
\* two stores are one step.
PollPark ==
  /\ upc = "park"
  /\ waker' = TRUE
  /\ st' = PENDING
  /\ ret' = "pending"
  /\ upc' = "idle"
  /\ UNCHANGED <<result, woken, op, kernel, signalled, armed, cb>>

\* Neither finish nor schedule succeeds ...
PollBusy ==
  /\ Polls
  /\ ~finish(st)
  /\ ~schedule(st)
  /\ woken' = FALSE
  /\ upc' = "register"
  /\ UNCHANGED <<st, result, waker, op, kernel, signalled, armed, cb, ret>>

\* ... and the waker is registered without looking at the state again.
PollRegister ==
  /\ upc = "register"
  /\ waker' = TRUE
  /\ upc' = "idle"
  /\ UNCHANGED <<st, result, woken, op, kernel, signalled, armed, cb, ret>>

\* Mutant: one operation more than there are addresses.
NextOp_OneMore ==
  /\ upc = "idle"
  /\ ret = "err"
  /\ op <= MaxOps
  /\ ret' = "none"
  /\ UNCHANGED <<st, result, waker, woken, op, kernel, signalled, armed, cb, upc>>

\* The owner goes on to its next operation after a failed one.
NextOp ==
  /\ upc = "idle"
  /\ ret = "err"
  /\ op < MaxOps
  /\ ret' = "none"
  /\ UNCHANGED <<st, result, waker, woken, op, kernel, signalled, armed, cb, upc>>

\* Drop for IoEvent begins: from here the task only spins on is_busy.
Drop ==
  /\ upc = "idle"
  /\ upc' = "drop"
  /\ UNCHANGED <<st, result, waker, woken, op, kernel, signalled, armed, cb, ret>>

\* CloseThreadpoolWait, CloseHandle, and the Box is freed.  A callback that
\* has started is not waited for.
Close ==
  /\ upc = "drop"
  /\ ~is_busy(st)
  /\ upc' = "freed"
  /\ armed' = FALSE
  /\ UNCHANGED <<st, result, waker, woken, op, kernel, signalled, cb, ret>>

-----------------------------------------------------------------------------
(***************************************************************************)
(* The operating system and the wait callback.                             *)
(***************************************************************************)

KernelFinish(o) ==
  /\ kernel = "inflight"
  /\ kernel' = o
  /\ signalled' = TRUE
  /\ UNCHANGED <<st, result, waker, woken, op, armed, cb, upc, ret>>

\* An armed wait whose event is signalled fires once.
CallbackStart ==
  /\ armed
  /\ signalled
  /\ cb[op] \in {"none", "done"}
  /\ armed' = FALSE
  /\ cb' = [cb EXCEPT ![op] = "claim"]
  /\ UNCHANGED <<st, result, waker, woken, op, kernel, signalled, upc, ret>>

\* Mutant: the claim publishes READY at once.
CallbackClaim_ReadyEarly(n) ==
  /\ cb[n] = "claim"
  /\ upc # "freed"
  /\ ~callback_spins(st)
  /\ IF callback_pending(st)
       THEN st' = READY /\ cb' = [cb EXCEPT ![n] = "set"]
       ELSE cb' = [cb EXCEPT ![n] = "done"] /\ UNCHANGED st
  /\ UNCHANGED <<result, waker, woken, op, kernel, signalled, armed, upc, ret>>

\* callback_pending: wait out SCHEDULING, then PENDING -> CALLBACK or leave.
CallbackClaim(n) ==
  /\ cb[n] = "claim"
  /\ upc # "freed"
  /\ ~callback_spins(st)
  /\ IF callback_pending(st)
       THEN st' = CALLBACK /\ cb' = [cb EXCEPT ![n] = "set"]
       ELSE cb' = [cb EXCEPT ![n] = "done"] /\ UNCHANGED st
  /\ UNCHANGED <<result, waker, woken, op, kernel, signalled, armed, upc, ret>>

\* The wait has no timeout, so the wait result is WAIT_OBJECT_0 = 0.
CallbackSet(n) ==
  /\ cb[n] = "set"
  /\ result' = set(n, 0)
  /\ cb' = [cb EXCEPT ![n] = "ready"]
  /\ UNCHANGED <<st, waker, woken, op, kernel, signalled, armed, upc, ret>>

CallbackReady(n) ==
  /\ cb[n] = "ready"
  /\ st' = READY
  /\ cb' = [cb EXCEPT ![n] = "wake"]
  /\ UNCHANGED <<result, waker, woken, op, kernel, signalled, armed, upc, ret>>

\* Mutant: the waker is dropped instead of called.
CallbackWake_Silent(n) ==
  /\ cb[n] = "wake"
  /\ upc # "freed"
  /\ waker' = FALSE
  /\ cb' = [cb EXCEPT ![n] = "done"]
  /\ UNCHANGED <<st, result, woken, op, kernel, signalled, armed, upc, ret>>

CallbackWake(n) ==
  /\ cb[n] = "wake"
  /\ upc # "freed"
  /\ waker' = FALSE
  /\ woken' = (woken \/ waker)
  /\ cb' = [cb EXCEPT ![n] = "done"]
  /\ UNCHANGED <<st, result, op, kernel, signalled, armed, upc, ret>>

\* A callback that touches the IoEvent after it was freed: undefined.
CallbackWild(n) ==
  /\ upc = "freed"
  /\ cb[n] \in {"claim", "set", "ready", "wake"}
  /\ cb' = [cb EXCEPT ![n] = "wild"]
  /\ UNCHANGED <<st, result, waker, woken, op, kernel, signalled, armed, upc, ret>>

-----------------------------------------------------------------------------
PollStep ==
  \/ PollFinish
  \/ PollResetFails
  \/ PollSchedule
  \/ PollBusy

UserStep ==
  \/ PollArm
  \/ PollCollect
  \/ IssuePending
  \/ \E o \in InlineOutcomes : IssueInline(o)
  \/ PollPark
  \/ PollRegister

CallbackStep(n) ==
  \/ CallbackClaim(n)
  \/ CallbackSet(n)
  \/ CallbackReady(n)
  \/ CallbackWake(n)
  \/ CallbackWild(n)

Next ==
  \/ PollStep
  \/ UserStep
  \/ NextOp
  \/ Drop
  \/ Close
  \/ \E o \in Outcome : KernelFinish(o)
  \/ CallbackStart
  \/ \E n \in Ops : CallbackStep(n)

Spec == Init /\ [][Next]_vars

(***************************************************************************)
(* Fairness: a thread inside poll or drop runs on; a woken task is polled  *)
(* (the executor's promise); operations end (connects and lookups time     *)
(* out); the pool fires signalled waits and lets its callbacks run.        *)
(***************************************************************************)
Fairness ==
  /\ WF_vars(UserStep)
  /\ WF_vars((woken \/ ret = "none") /\ PollStep)
  /\ WF_vars(Close)
  /\ WF_vars(\E o \in Outcome : KernelFinish(o))
  /\ WF_vars(CallbackStart)
  /\ \A n \in Ops : WF_vars(CallbackStep(n))

FairSpec == Spec /\ Fairness

-----------------------------------------------------------------------------
(***************************************************************************)
(* Properties.                                                             *)
(***************************************************************************)

\* The contract of IoResult::get (result.rs): when a poll is about to read
\* the cell, the callback of this very operation has set it, and no callback
\* is between its claim and set_ready, where it may write the cell.
ResultExclusive ==
  upc = "collect" =>
    /\ result.op = op
    /\ \A n \in Ops : cb[n] \notin {"set", "ready"}

\* Drop frees the OVERLAPPED only when the operating system is done with it
\* and no callback is about to write the result or the state.
FreedWhenQuiet ==
  upc = "freed" =>
    /\ kernel # "inflight"
    /\ \A n \in Ops : cb[n] \notin {"set", "ready"}

\* A result that waits to be collected by a suspended task has woken that
\* task or is about to: no wake-up is lost between register, set_pending
\* and the callback.  This holds for the first operation however often the
\* task is polled in between (GetAddrInfoFuture and Accept have no other),
\* and for later ones if it is polled only when woken: else the callback of
\* the operation before may take the waker, and PollRegister put it back
\* too late.
NoLostWakeup ==
  (st = READY /\ ret = "pending" /\ upc = "idle" /\ (op = 1 \/ ~SpuriousPolls)) =>
    (woken \/ cb[op] = "wake")

\* A pending operation that has ended will be noticed: its wait is armed and
\* signalled, or its callback is already running.  This is what re-arming
\* the wait, after ResetEvent, in every collecting poll is for.
NoMissedCompletion ==
  (st = PENDING /\ kernel # "inflight") =>
    \/ armed /\ signalled
    \/ cb[op] = "claim"

\* An operation that went pending is answered, unless its future is dropped.
PendingAnswered == ret = "pending" ~> (ret \in Outcome \/ upc \in {"drop", "freed"})

\* Dropping an event at any moment ends: the spin on is_busy in Drop for
\* IoEvent comes to an end although the operation is not cancelled.
DropEnds == upc = "drop" ~> upc = "freed"

(***************************************************************************)
(* The inductive invariant behind ResultExclusive and FreedWhenQuiet.      *)
(***************************************************************************)

NoClaim == \A n \in Ops : cb[n] # "claim"

\* What the state word says about the poll in progress and its answer.
PhaseInv ==
  /\ st \in {IDLE, SCHEDULING, PENDING, CALLBACK, READY}
  /\ st = SCHEDULING <=> upc \in {"issue", "park"}
  /\ upc \in {"arm", "collect"} => st = READY
  /\ upc = "freed" => st \in {IDLE, READY}
  /\ ret = "pending" => st \in {PENDING, CALLBACK, READY}
  /\ ret # "pending" => st \in {IDLE, SCHEDULING}
  /\ ret \in Outcome => upc \in {"idle", "drop", "freed"}
  /\ upc = "register" => ret = "pending"
  /\ ret = "none" /\ upc \in {"idle", "issue"} => op < MaxOps

\* CALLBACK is a lock on the result that the callback of the current
\* operation holds; READY says that it has been written.
CallbackInv ==
  /\ \A n \in Ops : cb[n] \in {"claim", "set", "ready"} => n = op
  /\ \A n \in Ops : cb[n] \in {"set", "ready"} => st = CALLBACK
  /\ \A n \in Ops : cb[n] = "ready" => result.op = n /\ result.ok
  /\ st = READY => result.op = op /\ result.ok

\* The wait fires once for each operation: when it has fired it is disarmed,
\* and it is armed again only after the event was reset.
SignalInv ==
  /\ ~NoClaim => ~armed /\ kernel \in Outcome
  /\ (st = CALLBACK \/ (st = READY /\ upc \notin {"arm", "collect"})) => NoClaim /\ ~armed
  /\ upc \in {"arm", "collect"} => NoClaim /\ ~signalled
  /\ (ret \in {"none", "err"} /\ upc \in {"idle", "issue"}) =>
       NoClaim /\ ~(armed /\ signalled)
  /\ signalled => kernel \in Outcome
  /\ kernel # "none" => op > 0

\* The operating system works only while the state word says so.
KernelInv ==
  /\ kernel = "inflight" => (st = PENDING \/ upc = "park")
  /\ (st # IDLE /\ upc # "issue") => kernel # "none"

IInv == TypeOK /\ PhaseInv /\ CallbackInv /\ SignalInv /\ KernelInv

\* The last operation has been issued and not yet been answered.
Outstanding == st # IDLE /\ upc # "issue"

Abs == INSTANCE AsyncOp WITH
  n <- op,
  phase <- CASE upc = "freed" -> "closed"
             [] upc # "freed" /\ kernel = "inflight" -> "inflight"
             [] upc # "freed" /\ kernel # "inflight" /\ Outstanding -> "done"
             [] OTHER -> "idle",
  out <- kernel,
  given <- IF ret = "pending" THEN "none" ELSE ret

\* IoEvent implements AsyncOp: one answer per operation, after the operation
\* has ended and with its outcome; no release while one is in flight.
Implements == Abs!Spec

=============================================================================
