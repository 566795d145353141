------------------------------ MODULE Transfer ------------------------------
(***************************************************************************)
(* read_exact on a Chain of two TcpStreams (src/src/io/read/ext.rs), and   *)
(* on one stream when there is no second.  write_all                       *)
(* (src/src/io/write/ext.rs) is the same loop.                             *)
(*                                                                         *)
(* Each reader is the read half of an IoHandle, as in the module IoHandle: *)
(* its state word, its result cell, the operation it waits for and the     *)
(* completion packets under way.  A poll of the half is one step here, and *)
(* so is a callback from its claim to set_ready: while the word is         *)
(* SCHEDULING callbacks wait; while it is CALLBACK a poll and the swap of  *)
(* cancel do what they do just before the claim, and a drop or another     *)
(* packet what it does when the word is READY.                             *)
(*                                                                         *)
(* The two streams and the future are new.  The future is polled at any    *)
(* time, woken or not: wake-ups are IoHandle's.  Once it is dropped, what  *)
(* its streams are left with for the next future is IoHandle's too.        *)
(***************************************************************************)
EXTENDS IoState, Bags

CONSTANTS Given,   \* length of the caller's buffer
          Wrap,    \* 2^32, the first length a u32 does not hold
          MaxSize, \* bytes in each stream before its end, at most
          MaxLate, \* packets under way that no poll of a stream waits for,
                   \* when a read completes at once
          HasNext  \* the stream is a Chain

ASSUME TransferAssumption ==
  /\ Given \in Nat \ {0}
  /\ Wrap \in Nat \ {0}
  /\ MaxSize \in Nat
  /\ MaxLate \in Nat
  /\ HasNext \in BOOLEAN

VARIABLES
  pc,     \* the reader being polled, "idle" between polls, a place in cancel,
          \* or how it ended
  n,      \* ReadExact.n
  win,    \* the part of the buffer still to be filled: read.buf
  buf,    \* the buffer: which byte of which reader is in each place
  size,   \* bytes in each stream
  pos,    \* bytes taken from each stream
  st,     \* IoHalf.state of each stream
  result, \* IoHalf.result
  op,     \* where the last operation that went pending is: "kernel", in a
          \* "packet", or "none"
  lent,   \* the part of the buffer that operation has, in the kernel
  out,    \* its outcome, when it is in a packet
  late,   \* packets of other operations: those that completed at once
  left,   \* operations in the kernel from before the last one
  past    \* what has happened: "nowait", "stray" (history)

vars == <<pc, n, win, buf, size, pos, st, result, op, lent, out, late, left, past>>
loopVars == <<n, win>>
dataVars == <<buf, pos>>
opVars == <<op, lent, out>>
lateVars == <<late, left>>

\* IoSliceMut::from, IoSlice::from: the length of the buffer `as u32`.
Want == Given % Wrap

Readers == {"first", "next"}
Window == [off : 0 .. Want, len : 0 .. Want]
Result == [ok : BOOLEAN, n : 0 .. Want]
Failure == [ok |-> FALSE, n |-> 0]
Nowhere == [off |-> 0, len |-> 0]
Ended == {"done", "failed"}

TypeOK ==
  /\ pc \in Readers \cup Ended
            \cup {"idle", "nowait", "wait", "spin", "dropped", "overrun"}
  /\ n \in 0 .. 2 * Want
  /\ win \in Window
  /\ buf \in [1 .. Given -> (Readers \X Nat) \cup {<<>>}]
  /\ size \in [Readers -> 0 .. MaxSize]
  /\ pos \in [Readers -> 0 .. MaxSize]
  /\ st \in [Readers -> States \ {SCHEDULING, CALLBACK}]
  /\ result \in [Readers -> Result]
  /\ op \in [Readers -> {"none", "kernel", "packet"}]
  /\ lent \in [Readers -> Window]
  /\ out \in [Readers -> Result]
  /\ \A r \in Readers : IsABag(late[r]) /\ IsABag(left[r])
  /\ past \subseteq {"nowait", "stray"}

\* read_exact: the inner Read has its own copy of the window.
Init ==
  /\ pc = "idle"
  /\ n = 0
  /\ win = [off |-> 0, len |-> Want]
  /\ buf = [i \in 1 .. Given |-> <<>>]
  /\ size \in [Readers -> 0 .. MaxSize]
  /\ pos = [r \in Readers |-> 0]
  /\ st = [r \in Readers |-> IDLE]
  /\ result = [r \in Readers |-> Failure]
  /\ op = [r \in Readers |-> "none"]
  /\ lent = [r \in Readers |-> Nowhere]
  /\ out = [r \in Readers |-> Failure]
  /\ late = [r \in Readers |-> EmptyBag]
  /\ left = [r \in Readers |-> EmptyBag]
  /\ past = {}

\* Chain.chained is initialised and never assigned.
chained == FALSE

-----------------------------------------------------------------------------
(***************************************************************************)
(* The two loops: ReadExact::poll around Chain::poll_read.                 *)
(***************************************************************************)

\* Mutants: the buffer pointer is not moved; a short read is taken for the
\* whole.
Advance_SamePlace(k) ==
  /\ n' = n + k
  /\ IF n + k = Want
       THEN pc' = "done" /\ UNCHANGED win
       ELSE win' = [win EXCEPT !.len = @ - k] /\ pc' = "first"
Advance_Short(k) ==
  /\ n' = n + k
  /\ pc' = "done"
  /\ UNCHANGED win

\* ReadExact::poll is given a count: it is done, or polls again at once for the
\* rest.  If the count is more than the window, `len -= n as u32` overflows: a
\* panic or, unchecked, a window behind the buffer.
Advance(k) ==
  /\ n' = n + k
  /\ \/ n + k = Want /\ pc' = "done" /\ UNCHANGED win
     \/ /\ n + k # Want /\ k <= win.len
        /\ win' = [off |-> win.off + k, len |-> win.len - k]
        /\ pc' = "first"
     \/ n + k # Want /\ k > win.len /\ pc' = "overrun" /\ UNCHANGED win

\* Mutant: a Chain takes an empty read of its first reader for the answer.
Deliver_NoChain(r, x) ==
  IF x.ok THEN Advance(x.n)
          ELSE pc' = "failed" /\ UNCHANGED loopVars

\* What becomes of the answer of reader r: Chain::poll_read turns to the next
\* reader when the first is at its end.
Deliver(r, x) ==
  \/ /\ x.ok /\ x.n = 0 /\ r = "first" /\ HasNext
     /\ pc' = "next"
     /\ UNCHANGED loopVars
  \/ /\ x.ok /\ ~(x.n = 0 /\ r = "first" /\ HasNext)
     /\ Advance(x.n)
  \/ /\ ~x.ok
     /\ pc' = "failed"
     /\ UNCHANGED loopVars

\* The task polls the future.
Poll ==
  /\ pc = "idle"
  /\ pc' = IF chained THEN "next" ELSE "first"
  /\ UNCHANGED <<loopVars, dataVars, size, st, result, opVars, lateVars, past>>

-----------------------------------------------------------------------------
(***************************************************************************)
(* TcpStream::poll_read, which is IoHandle::poll.                          *)
(***************************************************************************)

\* How WSARecv may end for at most `len` bytes of r: an empty read only at the
\* end of the stream.
Outcomes(r, len) ==
  {[ok |-> TRUE, n |-> k] :
     k \in {i \in 0 .. len : i <= size[r] - pos[r] /\ (i = 0 => len = 0 \/ pos[r] = size[r])}}
  \cup {Failure}

\* k bytes of r are written to the window w.
Fill(r, k, w) ==
  /\ buf' = [i \in 1 .. Given |->
       IF i \in w.off + 1 .. w.off + k THEN <<r, pos[r] + i - w.off>> ELSE buf[i]]
  /\ pos' = [pos EXCEPT ![r] = @ + k]

\* Mutant: the state word is not set back to IDLE.
ReadCollect_KeepsReady(r) ==
  /\ pc = r
  /\ finish(st[r])
  /\ Deliver(r, result[r])
  /\ UNCHANGED <<dataVars, size, st, result, opVars, lateVars, past>>

ReadCollect(r) ==
  /\ pc = r
  /\ finish(st[r])
  /\ st' = [st EXCEPT ![r] = IDLE]
  /\ Deliver(r, result[r])
  /\ UNCHANGED <<dataVars, size, result, opVars, lateVars, past>>

\* WSARecv completes at once: its packet is queued all the same.
ReadInline(r) ==
  /\ pc = r
  /\ schedule(st[r])
  /\ \A q \in Readers : BagCardinality(late[q]) + BagCardinality(left[q]) < MaxLate
  /\ \E x \in Outcomes(r, win.len) :
       /\ Fill(r, x.n, win)
       /\ Deliver(r, x)
       /\ late' = [late EXCEPT ![r] = @ (+) SetToBag({x})]
  /\ UNCHANGED <<size, st, result, opVars, left, past>>

ReadRefused(r) ==
  /\ pc = r
  /\ schedule(st[r])
  /\ Deliver(r, Failure)
  /\ UNCHANGED <<dataVars, size, st, result, opVars, lateVars, past>>

\* WSARecv goes pending.  An operation that the half has been made to forget,
\* and its packet, are on their own from here.
ReadPending(r) ==
  /\ pc = r
  /\ schedule(st[r])
  /\ st' = [st EXCEPT ![r] = PENDING]
  /\ op' = [op EXCEPT ![r] = "kernel"]
  /\ lent' = [lent EXCEPT ![r] = win]
  /\ late' = IF op[r] = "packet" THEN [late EXCEPT ![r] = @ (+) SetToBag({out[r]})] ELSE late
  /\ left' = IF op[r] = "kernel" THEN [left EXCEPT ![r] = @ (+) SetToBag({lent[r]})] ELSE left
  /\ pc' = "idle"
  /\ UNCHANGED <<loopVars, dataVars, size, result, out, past>>

ReadBusy(r) ==
  /\ pc = r
  /\ ~finish(st[r])
  /\ ~schedule(st[r])
  /\ pc' = "idle"
  /\ UNCHANGED <<loopVars, dataVars, size, st, result, opVars, lateVars, past>>

-----------------------------------------------------------------------------
(***************************************************************************)
(* Cancelable::cancel and Drop for Read: Chain::cancel_read(wait), which   *)
(* is IoHandle::cancel of one reader.                                      *)
(***************************************************************************)

Cancelled == IF chained THEN "next" ELSE "first"

\* cancel(false), past its first check.
Cancel ==
  /\ pc = "idle"
  /\ is_cancellable(st[Cancelled])
  /\ pc' = "nowait"
  /\ past' = past \cup {"nowait"}
  /\ UNCHANGED <<loopVars, dataVars, size, st, result, opVars, lateVars>>

\* cancel(true) by Drop, which returns at once unless the word is PENDING.
Drop ==
  /\ pc \in {"idle"} \cup Ended
  /\ pc' = IF is_cancellable(st[Cancelled]) THEN "wait" ELSE "dropped"
  /\ UNCHANGED <<loopVars, dataVars, size, st, result, opVars, lateVars, past>>

\* The swap, whatever the word is by now, and CancelIoEx.
CancelSwap ==
  /\ pc \in {"nowait", "wait"}
  /\ st' = [st EXCEPT ![Cancelled] = cancelled(pc = "wait")]
  /\ pc' = IF pc = "wait" THEN "spin" ELSE "idle"
  /\ UNCHANGED <<loopVars, dataVars, size, result, opVars, lateVars, past>>

\* GetOverlappedResult(.., TRUE), and then the spin on is_busy.
CancelWait ==
  /\ pc = "spin"
  /\ op[Cancelled] # "kernel"
  /\ ~is_busy(st[Cancelled])
  /\ pc' = "dropped"
  /\ UNCHANGED <<loopVars, dataVars, size, st, result, opVars, lateVars, past>>

-----------------------------------------------------------------------------
(***************************************************************************)
(* The operating system and the I/O callback.                              *)
(***************************************************************************)

\* An operation ends; a cancelled one may end with an error, as any may.
Finish(r) ==
  /\ pc # "dropped"
  /\ op[r] = "kernel"
  /\ op' = [op EXCEPT ![r] = "packet"]
  /\ \E x \in Outcomes(r, lent[r].len) :
       /\ Fill(r, x.n, lent[r])
       /\ out' = [out EXCEPT ![r] = x]
  /\ lent' = [lent EXCEPT ![r] = Nowhere]
  /\ UNCHANGED <<pc, loopVars, size, st, result, lateVars, past>>

FinishLeft(r) ==
  /\ pc # "dropped"
  /\ \E w \in BagToSet(left[r]) :
    /\ left' = [left EXCEPT ![r] = @ (-) SetToBag({w})]
    /\ \E x \in Outcomes(r, w.len) :
         /\ Fill(r, x.n, w)
         /\ late' = [late EXCEPT ![r] = @ (+) SetToBag({x})]
    /\ UNCHANGED <<pc, loopVars, size, st, result, opVars, past>>

\* The callback claims the word for the outcome x and publishes it, announces
\* only the end, or finds nobody waiting.
Claims(r) == callback_pending(st[r]) \/ callback_cancelled_nowait(st[r])
Publish(r, x) ==
  \/ /\ Claims(r)
     /\ result' = [result EXCEPT ![r] = x]
     /\ st' = [st EXCEPT ![r] = READY]
  \/ /\ callback_cancelled_wait(st[r])
     /\ st' = [st EXCEPT ![r] = READY]
     /\ UNCHANGED result
  \/ st[r] \in {IDLE, READY} /\ UNCHANGED <<st, result>>

Callback(r) ==
  /\ pc # "dropped"
  /\ op[r] = "packet"
  /\ op' = [op EXCEPT ![r] = "none"]
  /\ out' = [out EXCEPT ![r] = Failure]
  /\ Publish(r, out[r])
  /\ UNCHANGED <<pc, loopVars, dataVars, size, lent, lateVars, past>>

\* A packet that is not for the operation the half waits for, taken for it.
CallbackLate(r) ==
  /\ pc # "dropped"
  /\ \E x \in BagToSet(late[r]) :
    /\ late' = [late EXCEPT ![r] = @ (-) SetToBag({x})]
    /\ Publish(r, x)
    /\ past' = IF Claims(r) THEN past \cup {"stray"} ELSE past
    /\ UNCHANGED <<pc, loopVars, dataVars, size, opVars, left>>

PollStep ==
  \E r \in Readers :
    ReadCollect(r) \/ ReadInline(r) \/ ReadRefused(r) \/ ReadPending(r) \/ ReadBusy(r)

Next ==
  \/ Poll
  \/ PollStep
  \/ Cancel
  \/ Drop
  \/ CancelSwap
  \/ CancelWait
  \/ \E r \in Readers : Finish(r) \/ FinishLeft(r) \/ Callback(r) \/ CallbackLate(r)

Spec == Init /\ [][Next]_vars

\* Fairness: a thread inside poll runs on.  Nothing is assumed of the owner, the
\* peer or the thread pool.
FairSpec == Spec /\ WF_vars(PollStep)

-----------------------------------------------------------------------------
(***************************************************************************)
(* Properties.  "stray" is the one event after which nothing about the     *)
(* bytes holds: a late packet of a read that had completed at once was     *)
(* taken for the completion of another.                                    *)
(***************************************************************************)

NoStray == "stray" \notin past

\* What the i-th byte of the buffer must be.
Expected(i) == IF i <= size["first"] THEN <<"first", i>> ELSE <<"next", i - size["first"]>>

\* The bytes that read_exact has counted are those of the stream, in order,
\* none twice and none left out, in whatever mixture of short reads, immediate
\* and late answers they came, however often the future was polled and whether
\* or not it was cancelled, until a stray packet is taken.
ReceivedInOrder == NoStray => \A i \in 1 .. n : buf[i] = Expected(i)

\* read_exact ends with success only when all that was asked for is there, no
\* byte behind it has been touched, and no operation is left that could still
\* write to the buffer, until a stray packet is taken.
DoneMeansFull ==
  (NoStray /\ pc = "done") =>
    /\ \A i \in 1 .. Given : buf[i] # <<>> <=> i <= Want
    /\ \A r \in Readers : op[r] # "kernel"

\* No answer brings more bytes than the window has room for, so the length of
\* the rest in ReadExact::poll does not overflow, until a stray packet is taken.
CountFits == NoStray => pc # "overrun"

\* "The given buffer is guaranteed to be valid and stay the same until the
\* function returns Poll::Ready" (AsyncRead::poll_read): once the future is
\* dropped, and its buffer with it, no reader has an operation on it, even if
\* nothing was cancelled before and no stray packet taken.
BufferPinned ==
  (past = {} /\ pc = "dropped") => \A r \in Readers : op[r] # "kernel"

\* A poll comes to its end, although ReadExact::poll calls itself after every
\* short read, unless the streams end before the buffer is full: then a read
\* of nothing is followed by the next one, for ever.
LoopEnds ==
  pc \in Readers ~>
    \/ pc \notin Readers
    \/ pos["first"] = size["first"] /\ (HasNext => pos["next"] = size["next"])

=============================================================================
