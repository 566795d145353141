------------------------------- MODULE AsyncOp -------------------------------
(***************************************************************************)
(* What an IoEvent promises to the future that owns it: overlapped         *)
(* operations are carried out one after another; an operation is answered  *)
(* only once the operating system has finished it, exactly once, with the  *)
(* outcome the operating system gave; and the memory the operating system  *)
(* works on is never released while an operation is in flight.             *)
(***************************************************************************)
EXTENDS Naturals

CONSTANTS MaxOps,      \* operations issued on one event
          HasHandle,   \* the caller passes a handle to ask for the outcome
          ResetMayFail \* ResetEvent may fail, which is reported as an error

VARIABLES n,     \* operations begun
          phase, \* of the last one: "idle", "inflight", "done", "closed"
          out,   \* its outcome according to the operating system
          given  \* the answer given to the caller

vars == <<n, phase, out, given>>

Outcome == {"ok", "err"}

TypeOK ==
  /\ n \in 0 .. MaxOps
  /\ phase \in {"idle", "inflight", "done", "closed"}
  /\ out \in Outcome \cup {"none", "inflight"}
  /\ given \in Outcome \cup {"none"}

Init ==
  /\ n = 0
  /\ phase = "idle"
  /\ out = "none"
  /\ given = "none"

\* The caller wants another operation after one that failed.
Retry ==
  /\ phase = "idle"
  /\ given = "err"
  /\ given' = "none"
  /\ UNCHANGED <<n, phase, out>>

Begin ==
  /\ phase = "idle"
  /\ given = "none"
  /\ n < MaxOps
  /\ n' = n + 1
  /\ phase' = "inflight"
  /\ out' = "inflight"
  /\ UNCHANGED given

\* The operating system answers at once.
Inline(o) ==
  /\ phase = "idle"
  /\ given = "none"
  /\ n < MaxOps
  /\ n' = n + 1
  /\ out' = o
  /\ given' = o
  /\ UNCHANGED phase

Finish(o) ==
  /\ phase = "inflight"
  /\ phase' = "done"
  /\ out' = o
  /\ UNCHANGED <<n, given>>

Answer ==
  /\ phase = "done"
  /\ phase' = "idle"
  /\ \/ given' = IF HasHandle THEN out ELSE "ok"
     \/ ResetMayFail /\ given' = "err"
  /\ UNCHANGED <<n, out>>

Close ==
  /\ phase \in {"idle", "done"}
  /\ phase' = "closed"
  /\ UNCHANGED <<n, out, given>>

Next ==
  \/ Retry
  \/ Begin
  \/ \E o \in Outcome : Inline(o) \/ Finish(o)
  \/ Answer
  \/ Close

Spec == Init /\ [][Next]_vars

=============================================================================
