------------------------------ MODULE IoHandle ------------------------------
(***************************************************************************)
(* One half of an IoHandle (src/src/io/shared/handle.rs) with the Read and *)
(* Write futures that use it (io/read/ext.rs, io/write/ext.rs) and the     *)
(* socket functions behind it (net/tcp/read.rs, write.rs, socket.rs).  The *)
(* two halves have a state, result, waker and OVERLAPPED each and share    *)
(* only the handle, so one half with the handle's drop is followed here.   *)
(* The actors are                                                          *)
(*   - the task that owns the half: it makes one future at a time (each    *)
(*     borrows the stream mutably), polls it, may cancel it, may drop it   *)
(*     while an operation is pending, and at last drops the handle;        *)
(*   - the operating system: it carries out the operation in the           *)
(*     OVERLAPPED, writes to the buffer of the future that issued it, and  *)
(*     queues a completion packet;                                         *)
(*   - the I/O callbacks on pool threads, one for each packet.             *)
(***************************************************************************)
EXTENDS IoState

CONSTANTS MaxOps,       \* operations issued on the half
          MaxFutures,   \* Read or Write futures made on the half
          Inline,       \* how WSARecv/WSASend may answer at once: "done",
                        \* "refused"
          Cancels,      \* what the task does to a pending future: "nowait"
                        \* (Cancelable::cancel), "wait" (drop)
          SpuriousPolls \* a pending future may be polled without a wake

ASSUME HandleAssumption ==
  /\ MaxOps \in Nat \ {0}
  /\ MaxFutures \in Nat \ {0}
  /\ Inline \subseteq {"done", "refused"}
  /\ Cancels \subseteq {"nowait", "wait"}
  /\ SpuriousPolls \in BOOLEAN

VARIABLES
  st,       \* IoHalf.state
  result,   \* IoHalf.result
  waker,    \* a waker is registered in IoHalf.waker
  woken,    \* the task has been woken since its last poll began
  op,       \* number of the last operation issued
  kernel,   \* the operations the operating system is working on
  packet,   \* for each operation, the outcome in its completion packet
  cb,       \* progress of the callback for each packet
  made,     \* futures made so far
  fut,      \* the living future, 0 if there is none
  lent,     \* for each operation, the future whose buffer it was given
  upc,      \* where the task is inside poll, cancel or a drop
  dropping, \* what cancel(wait) is run for: "none" when wait is false
  past,     \* what has happened on the half that has lasting effects: "done",
            \* "nowait", "dropped" (history, read by the properties only)
  ret       \* what the last poll of the living future returned

vars == <<st, result, waker, woken, op, kernel, packet, cb, made, fut, lent,
          upc, dropping, past, ret>>
ioVars == <<op, kernel, packet, lent>>
futVars == <<made, fut>>
cancelVars == <<dropping, past>>

Outcome == {"ok", "err"}
Ops == 1 .. MaxOps
CbPc == {"none", "claim", "set", "ready", "quiet", "wake", "done", "wild"}
UserPc == {"idle", "get", "issue", "inline", "park", "register",
           "swap", "cancelio", "waitio", "spin", "freed"}

TypeOK ==
  /\ st \in States
  /\ result \in [op : 0 .. MaxOps, ok : BOOLEAN]
  /\ waker \in BOOLEAN
  /\ woken \in BOOLEAN
  /\ op \in 0 .. MaxOps
  /\ kernel \subseteq Ops
  /\ packet \in [Ops -> Outcome \cup {"none"}]
  /\ cb \in [Ops -> CbPc]
  /\ made \in 0 .. MaxFutures
  /\ fut \in 0 .. made
  /\ lent \in [Ops -> 0 .. made]
  /\ upc \in UserPc
  /\ dropping \in {"none", "future", "handle"}
  /\ past \subseteq {"done", "nowait", "dropped"}
  /\ ret \in Outcome \cup {"none", "pending"}

Init ==
  /\ st = IDLE
  /\ result = Uninit
  /\ waker = FALSE
  /\ woken = FALSE
  /\ op = 0
  /\ kernel = {}
  /\ packet = [n \in Ops |-> "none"]
  /\ cb = [n \in Ops |-> "none"]
  /\ made = 0
  /\ fut = 0
  /\ lent = [n \in Ops |-> 0]
  /\ upc = "idle"
  /\ dropping = "none"
  /\ past = {}
  /\ ret = "none"

-----------------------------------------------------------------------------
(***************************************************************************)
(* IoHandle::poll, called by the living future.                            *)
(***************************************************************************)

\* read, write, read_exact or write_all makes a future and its buffer.
NewFuture ==
  /\ upc = "idle"
  /\ fut = 0
  /\ made < MaxFutures
  /\ made' = made + 1
  /\ fut' = made + 1
  /\ ret' = "none"
  /\ UNCHANGED <<st, result, waker, woken, ioVars, cb, upc, cancelVars>>

Polls ==
  /\ upc = "idle"
  /\ fut # 0
  /\ \/ ret = "none"
     \/ ret = "pending" /\ (woken \/ SpuriousPolls)

PollFinish ==
  /\ Polls
  /\ finish(st)
  /\ woken' = FALSE
  /\ upc' = "get"
  /\ UNCHANGED <<st, result, waker, ioVars, cb, futVars, cancelVars, ret>>

\* result.get, set_idle.  Reading a cell that was never set is undefined.
PollGet ==
  /\ upc = "get"
  /\ ret' \in IF result = Uninit THEN Outcome
                                 ELSE {IF result.ok THEN "ok" ELSE "err"}
  /\ st' = IDLE
  /\ upc' = "idle"
  /\ UNCHANGED <<result, waker, woken, ioVars, cb, futVars, cancelVars>>

PollSchedule ==
  /\ Polls
  /\ schedule(st)
  /\ op < MaxOps
  /\ woken' = FALSE
  /\ st' = SCHEDULING
  /\ upc' = "issue"
  /\ UNCHANGED <<result, waker, ioVars, cb, futVars, cancelVars, ret>>

\* WSARecv or WSASend goes pending.
IssuePending ==
  /\ upc = "issue"
  /\ op' = op + 1
  /\ lent' = [lent EXCEPT ![op + 1] = fut]
  /\ kernel' = kernel \cup {op + 1}
  /\ upc' = "park"
  /\ UNCHANGED <<st, result, waker, woken, packet, cb, futVars, cancelVars, ret>>

\* WSARecv or WSASend returns 0, and WSAGetOverlappedResult tells the
\* outcome; the completion packet is queued all the same.
IssueDone(o) ==
  /\ "done" \in Inline
  /\ upc = "issue"
  /\ op' = op + 1
  /\ lent' = [lent EXCEPT ![op + 1] = fut]
  /\ packet' = [packet EXCEPT ![op + 1] = o]
  /\ ret' = o
  /\ upc' = "inline"
  /\ past' = past \cup {"done"}
  /\ UNCHANGED <<st, result, waker, woken, kernel, cb, futVars, dropping>>

\* It fails: no operation is started and no packet queued.
IssueRefused ==
  /\ "refused" \in Inline
  /\ upc = "issue"
  /\ op' = op + 1
  /\ lent' = [lent EXCEPT ![op + 1] = fut]
  /\ ret' = "err"
  /\ upc' = "inline"
  /\ UNCHANGED <<st, result, waker, woken, kernel, packet, cb, futVars, cancelVars>>

\* Poll::Ready from the schedule function: register, set_idle.  Callbacks
\* wait while the state is SCHEDULING, so the two stores are one step.
PollInline ==
  /\ upc = "inline"
  /\ waker' = TRUE
  /\ st' = IDLE
  /\ upc' = "idle"
  /\ UNCHANGED <<result, woken, ioVars, cb, futVars, cancelVars, ret>>

\* Poll::Pending from the schedule function: set_pending, and no register.
PollPark ==
  /\ upc = "park"
  /\ st' = PENDING
  /\ ret' = "pending"
  /\ upc' = "idle"
  /\ UNCHANGED <<result, waker, woken, ioVars, cb, futVars, cancelVars>>

PollBusy ==
  /\ Polls
  /\ ~finish(st)
  /\ ~schedule(st)
  /\ woken' = FALSE
  /\ upc' = "register"
  /\ UNCHANGED <<st, result, waker, ioVars, cb, futVars, cancelVars, ret>>

PollRegister ==
  /\ upc = "register"
  /\ waker' = TRUE
  /\ ret' = "pending"
  /\ upc' = "idle"
  /\ UNCHANGED <<st, result, woken, ioVars, cb, futVars, cancelVars>>

\* ReadExact or WriteAll polls its inner future again for the rest.
PollRest ==
  /\ upc = "idle"
  /\ fut # 0
  /\ ret = "ok"
  /\ op < MaxOps
  /\ ret' = "none"
  /\ UNCHANGED <<st, result, waker, woken, ioVars, cb, futVars, upc, cancelVars>>

-----------------------------------------------------------------------------
(***************************************************************************)
(* IoHandle::cancel(wait).                                                 *)
(***************************************************************************)

\* Cancelable::cancel: cancel(false), past its first check.
Cancel ==
  /\ "nowait" \in Cancels
  /\ upc = "idle"
  /\ fut # 0
  /\ is_cancellable(st)
  /\ dropping' = "none"
  /\ past' = past \cup {"nowait"}
  /\ upc' = "swap"
  /\ UNCHANGED <<st, result, waker, woken, ioVars, cb, futVars, ret>>

\* Mutant: futures have no Drop.
DropFuture_NoCancel ==
  /\ upc = "idle"
  /\ fut # 0
  /\ ret = "pending" => "wait" \in Cancels
  /\ fut' = 0
  /\ UNCHANGED <<st, result, waker, woken, ioVars, cb, made, upc, cancelVars, ret>>

\* Drop for Read or Write calls cancel(true), which returns at once unless
\* the state is PENDING.
DropFuture ==
  /\ upc = "idle"
  /\ fut # 0
  /\ ret = "pending" => "wait" \in Cancels
  /\ IF is_cancellable(st)
       THEN upc' = "swap" /\ dropping' = "future" /\ UNCHANGED fut
       ELSE fut' = 0 /\ UNCHANGED <<upc, dropping>>
  /\ past' = IF ret = "pending" \/ is_cancellable(st) THEN past \cup {"dropped"}
                                                     ELSE past
  /\ UNCHANGED <<st, result, waker, woken, ioVars, cb, made, ret>>

\* IoState::cancel: an unconditional swap.
CancelSwap ==
  /\ upc = "swap"
  /\ st' = cancelled(dropping # "none")
  /\ upc' = IF cancel(st) THEN "cancelio"
            ELSE IF dropping = "none" THEN "idle" ELSE "spin"
  /\ UNCHANGED <<result, waker, woken, ioVars, cb, futVars, cancelVars, ret>>

\* CancelIoEx asks for an end and does not wait for one.  It fails when the
\* operation has ended already, which changes nothing on the way: the error
\* is returned after the waits (and unwrapped by the drops).
CancelIoEx ==
  /\ upc = "cancelio"
  /\ upc' = IF dropping = "none" THEN "idle" ELSE "waitio"
  /\ UNCHANGED <<st, result, waker, woken, ioVars, cb, futVars, cancelVars, ret>>

\* GetOverlappedResult(.., TRUE)
CancelWaitIo ==
  /\ upc = "waitio"
  /\ op \notin kernel
  /\ upc' = "spin"
  /\ UNCHANGED <<st, result, waker, woken, ioVars, cb, futVars, cancelVars, ret>>

\* Mutant: cancel(true) does not wait for the callback.
CancelSpin_NoSpin ==
  /\ upc = "spin"
  /\ IF dropping = "handle" THEN upc' = "freed" /\ UNCHANGED fut
                            ELSE upc' = "idle" /\ fut' = 0
  /\ UNCHANGED <<st, result, waker, woken, ioVars, cb, made, cancelVars, ret>>

\* The spin on is_busy ends; the future and its buffer, or the handle, go.
CancelSpin ==
  /\ upc = "spin"
  /\ ~is_busy(st)
  /\ IF dropping = "handle" THEN upc' = "freed" /\ UNCHANGED fut
                            ELSE upc' = "idle" /\ fut' = 0
  /\ UNCHANGED <<st, result, waker, woken, ioVars, cb, made, cancelVars, ret>>

\* Drop for IoHandle: cancel(true), CloseThreadpoolIo, closesocket.  Neither
\* of the two waits for callbacks that are queued or running.
DropHandle ==
  /\ upc = "idle"
  /\ fut = 0
  /\ IF is_cancellable(st)
       THEN upc' = "swap" /\ dropping' = "handle"
       ELSE upc' = "freed" /\ UNCHANGED dropping
  /\ UNCHANGED <<st, result, waker, woken, ioVars, cb, futVars, past, ret>>

-----------------------------------------------------------------------------
(***************************************************************************)
(* The operating system and the I/O callback.                              *)
(***************************************************************************)

KernelFinish(n, o) ==
  /\ n \in kernel
  /\ kernel' = kernel \ {n}
  /\ packet' = [packet EXCEPT ![n] = o]
  /\ UNCHANGED <<st, result, waker, woken, op, lent, cb, futVars, upc, cancelVars, ret>>

CallbackStart(n) ==
  /\ packet[n] # "none"
  /\ cb[n] = "none"
  /\ cb' = [cb EXCEPT ![n] = "claim"]
  /\ UNCHANGED <<st, result, waker, woken, ioVars, futVars, upc, cancelVars, ret>>

\* What a callback does on its way in: claim the word with `next` and go to
\* `pc`, or leave.
Claims(n, next, pc) ==
  /\ st' = next
  /\ cb' = [cb EXCEPT ![n] = pc]
Leaves(n) ==
  /\ cb' = [cb EXCEPT ![n] = "done"]
  /\ UNCHANGED st

\* Mutants: READY is published before the result is written; a cancelled
\* operation is not claimed; an operation cancelled without waiting is
\* treated as one cancelled with waiting.
CallbackClaim_ReadyEarly(n) ==
  /\ cb[n] = "claim"
  /\ upc # "freed"
  /\ ~callback_spins(st)
  /\ \/ /\ callback_pending(st) \/ callback_cancelled_nowait(st)
        /\ Claims(n, READY, "set")
     \/ callback_cancelled_wait(st) /\ Claims(n, CALLBACK, "quiet")
     \/ st \in {IDLE, CALLBACK, READY} /\ Leaves(n)
  /\ UNCHANGED <<result, waker, woken, ioVars, futVars, upc, cancelVars, ret>>
CallbackClaim_PendingOnly(n) ==
  /\ cb[n] = "claim"
  /\ upc # "freed"
  /\ ~callback_spins(st)
  /\ IF callback_pending(st) THEN Claims(n, CALLBACK, "set") ELSE Leaves(n)
  /\ UNCHANGED <<result, waker, woken, ioVars, futVars, upc, cancelVars, ret>>
CallbackClaim_NowaitQuiet(n) ==
  /\ cb[n] = "claim"
  /\ upc # "freed"
  /\ ~callback_spins(st)
  /\ \/ callback_pending(st) /\ Claims(n, CALLBACK, "set")
     \/ /\ callback_cancelled_nowait(st) \/ callback_cancelled_wait(st)
        /\ Claims(n, CALLBACK, "quiet")
     \/ st \in {IDLE, CALLBACK, READY} /\ Leaves(n)
  /\ UNCHANGED <<result, waker, woken, ioVars, futVars, upc, cancelVars, ret>>

\* The three compare-exchanges in turn.  The task only moves the state from
\* PENDING to a cancelled one, which the later attempts still accept, so
\* they are one step.
CallbackClaim(n) ==
  /\ cb[n] = "claim"
  /\ upc # "freed"
  /\ ~callback_spins(st)
  /\ \/ /\ callback_pending(st) \/ callback_cancelled_nowait(st)
        /\ Claims(n, CALLBACK, "set")
     \/ callback_cancelled_wait(st) /\ Claims(n, CALLBACK, "quiet")
     \/ st \in {IDLE, CALLBACK, READY} /\ Leaves(n)
  /\ UNCHANGED <<result, waker, woken, ioVars, futVars, upc, cancelVars, ret>>

CallbackSet(n) ==
  /\ cb[n] = "set"
  /\ result' = set(n, IF packet[n] = "ok" THEN 0 ELSE 1)
  /\ cb' = [cb EXCEPT ![n] = "ready"]
  /\ UNCHANGED <<st, waker, woken, ioVars, futVars, upc, cancelVars, ret>>

\* set_ready, and in the cancelled(wait) branch nothing after it.
CallbackReady(n) ==
  /\ cb[n] \in {"ready", "quiet"}
  /\ st' = READY
  /\ cb' = [cb EXCEPT ![n] = IF cb[n] = "ready" THEN "wake" ELSE "done"]
  /\ UNCHANGED <<result, waker, woken, ioVars, futVars, upc, cancelVars, ret>>

CallbackWake(n) ==
  /\ cb[n] = "wake"
  /\ upc # "freed"
  /\ waker' = FALSE
  /\ woken' = (woken \/ waker)
  /\ cb' = [cb EXCEPT ![n] = "done"]
  /\ UNCHANGED <<st, result, ioVars, futVars, upc, cancelVars, ret>>

\* A callback that touches the IoHandle after it was freed: undefined.
CallbackWild(n) ==
  /\ upc = "freed"
  /\ cb[n] \in {"claim", "set", "ready", "quiet", "wake"}
  /\ cb' = [cb EXCEPT ![n] = "wild"]
  /\ UNCHANGED <<st, result, waker, woken, ioVars, futVars, upc, cancelVars, ret>>

-----------------------------------------------------------------------------
PollStep ==
  \/ PollFinish
  \/ PollSchedule
  \/ PollBusy

UserStep ==
  \/ PollGet
  \/ IssuePending
  \/ \E o \in Outcome : IssueDone(o)
  \/ IssueRefused
  \/ PollInline
  \/ PollPark
  \/ PollRegister
  \/ CancelSwap
  \/ CancelIoEx
  \/ CancelWaitIo
  \/ CancelSpin

CallbackStep(n) ==
  \/ CallbackStart(n)
  \/ CallbackClaim(n)
  \/ CallbackSet(n)
  \/ CallbackReady(n)
  \/ CallbackWake(n)
  \/ CallbackWild(n)

Next ==
  \/ NewFuture
  \/ PollStep
  \/ UserStep
  \/ PollRest
  \/ Cancel
  \/ DropFuture
  \/ DropHandle
  \/ \E n \in Ops, o \in Outcome : KernelFinish(n, o)
  \/ \E n \in Ops : CallbackStep(n)

Spec == Init /\ [][Next]_vars

(***************************************************************************)
(* Fairness: a thread inside poll, cancel or a drop runs on; a new or      *)
(* woken future is polled; the peer answers, so operations end; the pool   *)
(* delivers packets and runs its callbacks.                                *)
(***************************************************************************)
Fairness ==
  /\ WF_vars(UserStep)
  /\ WF_vars((woken \/ ret = "none") /\ PollStep)
  /\ WF_vars(\E n \in Ops, o \in Outcome : KernelFinish(n, o))
  /\ \A n \in Ops : WF_vars(CallbackStep(n))

FairSpec == Spec /\ Fairness

-----------------------------------------------------------------------------
(***************************************************************************)
(* Properties.                                                             *)
(***************************************************************************)

(***************************************************************************)
(* Most of what the half promises is lost for good once something has      *)
(* happened that the code does not allow for: an operation that completed  *)
(* at once ("done": its packet is taken for that of a later one), a cancel *)
(* without waiting ("nowait": drop does not wait for it), or the drop of a *)
(* pending future ("dropped": READY is left behind without a result).      *)
(* Each property names what it does not survive.                           *)
(***************************************************************************)
Never(events) == past \cap events = {}

\* The operating system writes only to memory that is lent to it: while an
\* operation is in flight the future that issued it, and so its buffer, is
\* alive ("The given buffer is guaranteed to be valid and stay the same
\* until the function returns Poll::Ready", AsyncRead::poll_read).
BufferPinned ==
  Never({"done", "nowait"}) => \A n \in kernel : fut # 0 /\ fut = lent[n]

\* The OVERLAPPED of a half is given to a new operation only when the one
\* before it has ended and its completion packet has been consumed, whatever
\* was cancelled or dropped before.
OverlappedFree ==
  (Never({"done"}) /\ upc = "issue") =>
    /\ kernel = {}
    /\ \A n \in Ops : packet[n] # "none" => cb[n] \in {"wake", "done"}

\* The contract of IoResult::get: the only active reference.  No callback is
\* between its claim and set_ready when a poll reads the cell.
ResultExclusive ==
  (Never({"done"}) /\ upc = "get") =>
    \A n \in Ops : cb[n] \notin {"set", "ready", "quiet"}

\* What a poll is about to return is the outcome of the operation that its
\* own future issued last, cancelled or not.  With stray packets about, the
\* cell has at least been "previously set", as IoResult::get demands.
ResultIsOwn ==
  upc = "get" =>
    /\ Never({"dropped"}) => result # Uninit
    /\ Never({"done", "dropped"}) => result.op = op /\ lent[op] = fut

\* Drop for IoHandle frees the OVERLAPPEDs only when the operating system is
\* done with them and every packet has met the state word that it is for.
\* (Callbacks past that point may still be running: drop waits for PENDING
\* operations only.)
FreedWhenQuiet ==
  (Never({"done", "nowait"}) /\ upc = "freed") =>
    /\ kernel = {}
    /\ \A n \in Ops : packet[n] # "none" => cb[n] \notin {"none", "claim"}

\* An operation that went pending is answered: read_exact(..).await and
\* write_all(..).await of tests/tcp.rs come to an end.
PendingAnswered == ret = "pending" ~> (ret \in Outcome \/ fut = 0)

\* A pending operation comes to READY, whatever cancel or the drop of its
\* future does to the state word between its completion and the callback,
\* as long as the handle is there.
CompletionPublished ==
  (st = PENDING /\ Never({"done"})) ~> (st = READY \/ upc = "freed" \/ ~Never({"done"}))

=============================================================================
