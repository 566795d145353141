------------------------------- MODULE IoState -------------------------------
(***************************************************************************)
(* The atomic state word (src/src/io/shared/state.rs) and the result cell  *)
(* (src/src/io/shared/result.rs) that IoEvent and each half of an IoHandle *)
(* share with the thread pool callback.  Every method of IoState is one    *)
(* atomic access; here it is the predicate on the old value under which    *)
(* the compare-exchange succeeds, or the value that is stored.             *)
(*                                                                         *)
(* Memory is sequentially consistent: each access is one step.             *)
(***************************************************************************)
EXTENDS Naturals

IDLE == "IDLE"
SCHEDULING == "SCHEDULING"
PENDING == "PENDING"
CALLBACK == "CALLBACK"
READY == "READY"
CANCELLED_NOWAIT == "CANCELLED_NOWAIT"
CANCELLED_WAIT == "CANCELLED_WAIT"

States == {IDLE, SCHEDULING, PENDING, CALLBACK, READY,
           CANCELLED_NOWAIT, CANCELLED_WAIT}

\* Compare-exchange READY -> READY: a poll may collect the result.
finish(s) == s = READY

\* Compare-exchange IDLE -> SCHEDULING: a poll may start an operation.
schedule(s) == s = IDLE

\* callback_pending first spins while the poll is still SCHEDULING ...
callback_spins(s) == s = SCHEDULING

\* ... and then tries the compare-exchange PENDING -> CALLBACK.
callback_pending(s) == s = PENDING

callback_cancelled_nowait(s) == s = CANCELLED_NOWAIT

callback_cancelled_wait(s) == s = CANCELLED_WAIT

is_cancellable(s) == s = PENDING

\* Mutant: cancelling frees the state word for the next operation.
cancelled_idle(wait) == IDLE

\* The value that cancel(wait) swaps in, and its answer for the old value.
cancelled(wait) == IF wait THEN CANCELLED_WAIT ELSE CANCELLED_NOWAIT
cancel(old) == old # CANCELLED_NOWAIT

\* Mutants: the closing thread takes a pending operation for a quiet one;
\* it goes on waiting for a result that was never collected.
is_busy_ignores_pending(s) == s \notin {IDLE, READY, PENDING}
is_busy_until_idle(s) == s # IDLE

is_busy(s) == s \notin {IDLE, READY}

-----------------------------------------------------------------------------
(***************************************************************************)
(* IoResult: an uninitialised cell until the first set.  The payload of a  *)
(* result is the number of the operation it is the outcome of.             *)
(***************************************************************************)

Uninit == [op |-> 0, ok |-> FALSE]

\* IoResult::set: Win32 code 0 is Ok, any other code is Err.
set(op, code) == [op |-> op, ok |-> code = 0]

=============================================================================
