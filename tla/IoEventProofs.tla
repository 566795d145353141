---------------------------- MODULE IoEventProofs ----------------------------
(***************************************************************************)
(* Proofs about IoEvent, for every number of operations and every choice   *)
(* of the constants: its type invariant, and that the result cell is read  *)
(* only when it is written and quiet and the OVERLAPPED is freed only when *)
(* the operating system and the callbacks have left it.                    *)
(***************************************************************************)
EXTENDS IoEvent, TLAPS

USE DEF IDLE, SCHEDULING, PENDING, CALLBACK, READY, CANCELLED_NOWAIT,
    CANCELLED_WAIT

\* The event starts quiet: IoEvent::new arms the wait on an unsignalled event.
LEMMA InitIInv == Init => IInv
<1> SUFFICES ASSUME Init PROVE IInv
  OBVIOUS
<1>1. result \in [op : 0 .. MaxOps, ok : BOOLEAN]
  BY EventAssumption DEF Init, Uninit
<1>2. TypeOK
  <2>1. op \in 0 .. MaxOps
    BY EventAssumption DEF Init
  <2>2. cb \in [Ops -> CbPc]
    BY DEF Init, CbPc
  <2> QED
    BY <1>1, <2>1, <2>2 DEF Init, TypeOK, States, UserPc
<1>3. PhaseInv /\ CallbackInv /\ SignalInv /\ KernelInv
  BY EventAssumption
  DEF Init, PhaseInv, CallbackInv, SignalInv, KernelInv, NoClaim, Outcome
<1> QED
  BY <1>2, <1>3 DEF IInv

\* A poll that finds READY resets the event: no callback is left to claim.
LEMMA PollFinishKeeps ==
  ASSUME IInv, PollFinish
  PROVE  IInv'
<1>1. TypeOK'
  BY DEF PollFinish, IInv, TypeOK, UserPc
<1>2. PhaseInv'
  BY DEF PollFinish, finish, IInv, PhaseInv, Outcome
<1>3. CallbackInv'
  BY DEF PollFinish, IInv, CallbackInv
<1>4. SignalInv'
  BY DEF PollFinish, finish, IInv, SignalInv, NoClaim
<1>5. KernelInv'
  BY DEF PollFinish, Polls, IInv, KernelInv
<1> QED BY <1>1, <1>2, <1>3, <1>4, <1>5 DEF IInv

\* A poll whose ResetEvent fails goes back to IDLE with the wait disarmed.
LEMMA PollResetFailsKeeps ==
  ASSUME IInv, PollResetFails
  PROVE  IInv'
<1>1. TypeOK'
  BY DEF PollResetFails, IInv, TypeOK, States, Outcome
<1>2. PhaseInv'
  BY DEF PollResetFails, Polls, PhaseInv
<1>3. CallbackInv'
  BY DEF PollResetFails, finish, IInv, CallbackInv
<1>4. SignalInv'
  BY DEF PollResetFails, finish, IInv, SignalInv, NoClaim
<1>5. KernelInv'
  BY DEF PollResetFails, finish, IInv, KernelInv
<1> QED BY <1>1, <1>2, <1>3, <1>4, <1>5 DEF IInv

\* Arming the wait again starts no callback, because the event is not signalled.
LEMMA PollArmKeeps ==
  ASSUME IInv, PollArm
  PROVE  IInv'
<1>1. TypeOK'
  BY DEF PollArm, IInv, TypeOK, UserPc
<1>2. PhaseInv'
  BY DEF PollArm, IInv, PhaseInv
<1>3. CallbackInv'
  BY DEF PollArm, IInv, CallbackInv
<1>4. SignalInv'
  BY DEF PollArm, IInv, PhaseInv, SignalInv, NoClaim
<1>5. KernelInv'
  BY DEF PollArm, IInv, KernelInv
<1> QED BY <1>1, <1>2, <1>3, <1>4, <1>5 DEF IInv

\* The poll answers and frees the state word; the operation has ended.
LEMMA PollCollectKeeps ==
  ASSUME IInv, PollCollect
  PROVE  IInv'
<1>1. TypeOK'
  BY DEF PollCollect, Answer, IInv, TypeOK, States, Outcome, UserPc
<1>2. PhaseInv'
  BY DEF PollCollect, Answer, IInv, TypeOK, PhaseInv, KernelInv
<1>3. CallbackInv'
  BY DEF PollCollect, IInv, PhaseInv, CallbackInv
<1>4. SignalInv'
  BY DEF PollCollect, IInv, SignalInv, NoClaim
<1>5. KernelInv'
  BY DEF PollCollect, KernelInv
<1> QED BY <1>1, <1>2, <1>3, <1>4, <1>5 DEF IInv

\* A poll that finds IDLE takes the state word for the next operation.
LEMMA PollScheduleKeeps ==
  ASSUME IInv, PollSchedule
  PROVE  IInv'
<1>1. TypeOK'
  BY DEF PollSchedule, IInv, TypeOK, States, UserPc
<1>2. PhaseInv'
  BY DEF PollSchedule, Polls, schedule, IInv, PhaseInv, Outcome
<1>3. CallbackInv'
  BY DEF PollSchedule, schedule, IInv, CallbackInv
<1>4. SignalInv'
  BY DEF PollSchedule, Polls, IInv, SignalInv, NoClaim
<1>5. KernelInv'
  BY DEF PollSchedule, Polls, schedule, IInv, KernelInv
<1> QED BY <1>1, <1>2, <1>3, <1>4, <1>5 DEF IInv

\* A new operation is in flight, and no callback of an earlier one can claim it.
LEMMA IssuePendingKeeps ==
  ASSUME IInv, IssuePending
  PROVE  IInv'
<1>0. ret = "none" /\ op < MaxOps /\ op \in Nat /\ MaxOps \in Nat
  BY EventAssumption DEF IssuePending, IInv, TypeOK, PhaseInv
<1>1. TypeOK'
  <2>1. op' \in 0 .. MaxOps
    BY <1>0 DEF IssuePending
  <2> QED
    BY <1>0, <2>1 DEF IssuePending, IInv, TypeOK, UserPc
<1>2. PhaseInv'
  BY DEF IssuePending, IInv, PhaseInv
<1>3. CallbackInv'
  BY DEF IssuePending, IInv, TypeOK, PhaseInv, CallbackInv, SignalInv, NoClaim
<1>4. SignalInv'
  BY DEF IssuePending, IInv, TypeOK, PhaseInv, SignalInv, NoClaim
<1>5. KernelInv'
  BY DEF IssuePending, KernelInv
<1> QED BY <1>1, <1>2, <1>3, <1>4, <1>5 DEF IInv

\* An operation answered at once gives the state word back; if it signals the
\* event, its future has been answered with success and issues no other.
LEMMA IssueInlineKeeps ==
  ASSUME IInv, NEW o \in InlineOutcomes, IssueInline(o)
  PROVE  IInv'
<1>0. ret = "none" /\ op < MaxOps /\ op \in Nat /\ MaxOps \in Nat
  BY EventAssumption DEF IssueInline, IInv, TypeOK, PhaseInv
<1>1. TypeOK'
  <2>1. op' \in 0 .. MaxOps
    BY <1>0 DEF IssueInline
  <2> QED
    BY <1>0, <2>1, EventAssumption
    DEF IssueInline, IInv, TypeOK, States, Outcome, UserPc
<1>2. PhaseInv'
  BY EventAssumption DEF IssueInline, PhaseInv
<1>3. CallbackInv'
  BY DEF IssueInline, IInv, TypeOK, PhaseInv, CallbackInv, SignalInv, NoClaim
<1>4. SignalInv'
  <2>1. NoClaim /\ NoClaim' /\ op' > 0
    BY <1>0 DEF IssueInline, IInv, SignalInv, NoClaim
  <2>2. o = "ok" \/ (o = "err" /\ ~signalled')
    BY EventAssumption DEF IssueInline
  <2> QED
    BY <1>0, <2>1, <2>2 DEF IssueInline, SignalInv, Outcome
<1>5. KernelInv'
  BY EventAssumption DEF IssueInline, KernelInv
<1> QED BY <1>1, <1>2, <1>3, <1>4, <1>5 DEF IInv

\* The operation is announced as PENDING with the waker in place.
LEMMA PollParkKeeps ==
  ASSUME IInv, PollPark
  PROVE  IInv'
<1>1. TypeOK'
  BY DEF PollPark, IInv, TypeOK, States, UserPc
<1>2. PhaseInv'
  BY DEF PollPark, PhaseInv
<1>3. CallbackInv'
  BY DEF PollPark, IInv, PhaseInv, CallbackInv
<1>4. SignalInv'
  BY DEF PollPark, IInv, SignalInv, NoClaim
<1>5. KernelInv'
  BY DEF PollPark, IInv, PhaseInv, KernelInv
<1> QED BY <1>1, <1>2, <1>3, <1>4, <1>5 DEF IInv

\* A poll that finds the operation neither ready nor idle changes no shared state.
LEMMA PollBusyKeeps ==
  ASSUME IInv, PollBusy
  PROVE  IInv'
<1>1. TypeOK'
  BY DEF PollBusy, IInv, TypeOK, UserPc
<1>2. PhaseInv'
  BY DEF PollBusy, Polls, schedule, IInv, PhaseInv, Outcome
<1>3. CallbackInv'
  BY DEF PollBusy, IInv, CallbackInv
<1>4. SignalInv'
  BY DEF PollBusy, Polls, IInv, SignalInv, NoClaim
<1>5. KernelInv'
  BY DEF PollBusy, Polls, IInv, KernelInv
<1> QED BY <1>1, <1>2, <1>3, <1>4, <1>5 DEF IInv

\* Registering a waker touches nothing that the invariant is about.
LEMMA PollRegisterKeeps ==
  ASSUME IInv, PollRegister
  PROVE  IInv'
<1>1. TypeOK'
  BY DEF PollRegister, IInv, TypeOK, UserPc
<1>2. PhaseInv'
  BY DEF PollRegister, IInv, PhaseInv
<1>3. CallbackInv'
  BY DEF PollRegister, IInv, CallbackInv
<1>4. SignalInv'
  BY DEF PollRegister, IInv, PhaseInv, SignalInv, NoClaim
<1>5. KernelInv'
  BY DEF PollRegister, IInv, KernelInv
<1> QED BY <1>1, <1>2, <1>3, <1>4, <1>5 DEF IInv

\* The owner goes on after a failed operation: nothing is outstanding.
LEMMA NextOpKeeps ==
  ASSUME IInv, NextOp
  PROVE  IInv'
<1>1. TypeOK'
  BY DEF NextOp, IInv, TypeOK
<1>2. PhaseInv'
  BY DEF NextOp, IInv, PhaseInv
<1>3. CallbackInv'
  BY DEF NextOp, IInv, CallbackInv
<1>4. SignalInv'
  BY DEF NextOp, IInv, SignalInv, NoClaim
<1>5. KernelInv'
  BY DEF NextOp, IInv, KernelInv
<1> QED BY <1>1, <1>2, <1>3, <1>4, <1>5 DEF IInv

\* Drop begins between two polls and only looks at the state word.
LEMMA DropKeeps ==
  ASSUME IInv, Drop
  PROVE  IInv'
<1>1. TypeOK'
  BY DEF Drop, IInv, TypeOK, UserPc
<1>2. PhaseInv'
  BY DEF Drop, IInv, PhaseInv
<1>3. CallbackInv'
  BY DEF Drop, IInv, CallbackInv
<1>4. SignalInv'
  BY DEF Drop, IInv, SignalInv, NoClaim
<1>5. KernelInv'
  BY DEF Drop, IInv, KernelInv
<1> QED BY <1>1, <1>2, <1>3, <1>4, <1>5 DEF IInv

\* The spin in Drop ends only at IDLE or READY, so the operation has ended.
LEMMA CloseKeeps ==
  ASSUME IInv, Close
  PROVE  IInv'
<1>1. TypeOK'
  BY DEF Close, IInv, TypeOK, UserPc
<1>2. PhaseInv'
  BY DEF Close, is_busy, IInv, PhaseInv
<1>3. CallbackInv'
  BY DEF Close, IInv, CallbackInv
<1>4. SignalInv'
  BY DEF Close, IInv, SignalInv, NoClaim
<1>5. KernelInv'
  BY DEF Close, IInv, KernelInv
<1> QED BY <1>1, <1>2, <1>3, <1>4, <1>5 DEF IInv

\* The operating system ends the operation and signals the event.
LEMMA KernelFinishKeeps ==
  ASSUME IInv, NEW o \in Outcome, KernelFinish(o)
  PROVE  IInv'
<1>1. TypeOK'
  BY DEF KernelFinish, IInv, TypeOK
<1>2. PhaseInv'
  BY DEF KernelFinish, IInv, PhaseInv
<1>3. CallbackInv'
  BY DEF KernelFinish, IInv, CallbackInv
<1>4. SignalInv'
  BY DEF KernelFinish, IInv, PhaseInv, SignalInv, KernelInv, NoClaim
<1>5. KernelInv'
  BY DEF KernelFinish, KernelInv, Outcome
<1> QED BY <1>1, <1>2, <1>3, <1>4, <1>5 DEF IInv

\* The wait fires for the operation issued last, and is disarmed by that.
LEMMA CallbackStartKeeps ==
  ASSUME IInv, CallbackStart
  PROVE  IInv'
<1>1. TypeOK'
  BY DEF CallbackStart, IInv, TypeOK, CbPc
<1>2. PhaseInv'
  BY DEF CallbackStart, IInv, PhaseInv
<1>3. CallbackInv'
  BY DEF CallbackStart, IInv, CallbackInv
<1>4. SignalInv'
  BY DEF CallbackStart, IInv, SignalInv
<1>5. KernelInv'
  BY DEF CallbackStart, IInv, KernelInv
<1> QED BY <1>1, <1>2, <1>3, <1>4, <1>5 DEF IInv

\* A callback that finds PENDING takes CALLBACK as its lock; any other leaves.
LEMMA CallbackClaimKeeps ==
  ASSUME IInv, NEW n \in Ops, CallbackClaim(n)
  PROVE  IInv'
<1>1. TypeOK'
  BY DEF CallbackClaim, IInv, TypeOK, States, CbPc
<1>2. PhaseInv'
  BY DEF CallbackClaim, callback_pending, IInv, PhaseInv
<1>3. CallbackInv'
  BY DEF CallbackClaim, IInv, TypeOK, CallbackInv
<1>4. SignalInv'
  BY DEF CallbackClaim, IInv, TypeOK, CallbackInv, SignalInv, NoClaim
<1>5. KernelInv'
  BY DEF CallbackClaim, IInv, KernelInv, SignalInv, NoClaim, Outcome
<1> QED BY <1>1, <1>2, <1>3, <1>4, <1>5 DEF IInv

\* The result is written under the lock CALLBACK, by the current operation.
LEMMA CallbackSetKeeps ==
  ASSUME IInv, NEW n \in Ops, CallbackSet(n)
  PROVE  IInv'
<1>1. TypeOK'
  BY DEF CallbackSet, set, IInv, TypeOK, Ops, CbPc
<1>2. PhaseInv'
  BY DEF CallbackSet, IInv, PhaseInv
<1>3. CallbackInv'
  BY DEF CallbackSet, set, IInv, TypeOK, CallbackInv
<1>4. SignalInv'
  BY DEF CallbackSet, IInv, SignalInv, NoClaim
<1>5. KernelInv'
  BY DEF CallbackSet, IInv, KernelInv
<1> QED BY <1>1, <1>2, <1>3, <1>4, <1>5 DEF IInv

\* READY is published after the result has been written.
LEMMA CallbackReadyKeeps ==
  ASSUME IInv, NEW n \in Ops, CallbackReady(n)
  PROVE  IInv'
<1>1. TypeOK'
  BY DEF CallbackReady, IInv, TypeOK, States, CbPc
<1>2. PhaseInv'
  BY DEF CallbackReady, IInv, PhaseInv, CallbackInv
<1>3. CallbackInv'
  BY DEF CallbackReady, IInv, TypeOK, CallbackInv
<1>4. SignalInv'
  BY DEF CallbackReady, IInv, CallbackInv, SignalInv, NoClaim
<1>5. KernelInv'
  BY DEF CallbackReady, IInv, KernelInv, CallbackInv
<1> QED BY <1>1, <1>2, <1>3, <1>4, <1>5 DEF IInv

\* Waking takes the waker and nothing else.
LEMMA CallbackWakeKeeps ==
  ASSUME IInv, NEW n \in Ops, CallbackWake(n)
  PROVE  IInv'
<1>1. TypeOK'
  BY DEF CallbackWake, IInv, TypeOK, CbPc
<1>2. PhaseInv'
  BY DEF CallbackWake, IInv, PhaseInv
<1>3. CallbackInv'
  BY DEF CallbackWake, IInv, CallbackInv
<1>4. SignalInv'
  BY DEF CallbackWake, IInv, SignalInv, NoClaim
<1>5. KernelInv'
  BY DEF CallbackWake, IInv, KernelInv
<1> QED BY <1>1, <1>2, <1>3, <1>4, <1>5 DEF IInv

\* A callback that runs into freed memory is followed no further.
LEMMA CallbackWildKeeps ==
  ASSUME IInv, NEW n \in Ops, CallbackWild(n)
  PROVE  IInv'
<1>1. TypeOK'
  BY DEF CallbackWild, IInv, TypeOK, CbPc
<1>2. PhaseInv'
  BY DEF CallbackWild, IInv, PhaseInv
<1>3. CallbackInv'
  BY DEF CallbackWild, IInv, CallbackInv
<1>4. SignalInv'
  BY DEF CallbackWild, IInv, SignalInv, NoClaim
<1>5. KernelInv'
  BY DEF CallbackWild, IInv, KernelInv
<1> QED BY <1>1, <1>2, <1>3, <1>4, <1>5 DEF IInv

\* Every step of the task, the operating system and the callbacks keeps IInv.
LEMMA NextKeeps == IInv /\ [Next]_vars => IInv'
<1> SUFFICES ASSUME IInv, [Next]_vars PROVE IInv'
  OBVIOUS
<1>1. CASE PollFinish
  BY <1>1, PollFinishKeeps
<1>2. CASE PollResetFails
  BY <1>2, PollResetFailsKeeps
<1>3. CASE PollArm
  BY <1>3, PollArmKeeps
<1>4. CASE PollCollect
  BY <1>4, PollCollectKeeps
<1>5. CASE PollSchedule
  BY <1>5, PollScheduleKeeps
<1>6. CASE IssuePending
  BY <1>6, IssuePendingKeeps
<1>7. CASE \E o \in InlineOutcomes : IssueInline(o)
  BY <1>7, IssueInlineKeeps
<1>8. CASE PollPark
  BY <1>8, PollParkKeeps
<1>9. CASE PollBusy
  BY <1>9, PollBusyKeeps
<1>10. CASE PollRegister
  BY <1>10, PollRegisterKeeps
<1>11. CASE NextOp
  BY <1>11, NextOpKeeps
<1>12. CASE Drop
  BY <1>12, DropKeeps
<1>13. CASE Close
  BY <1>13, CloseKeeps
<1>14. CASE \E o \in Outcome : KernelFinish(o)
  BY <1>14, KernelFinishKeeps
<1>15. CASE CallbackStart
  BY <1>15, CallbackStartKeeps
<1>16. CASE \E n \in Ops : CallbackClaim(n)
  BY <1>16, CallbackClaimKeeps
<1>17. CASE \E n \in Ops : CallbackSet(n)
  BY <1>17, CallbackSetKeeps
<1>18. CASE \E n \in Ops : CallbackReady(n)
  BY <1>18, CallbackReadyKeeps
<1>19. CASE \E n \in Ops : CallbackWake(n)
  BY <1>19, CallbackWakeKeeps
<1>20. CASE \E n \in Ops : CallbackWild(n)
  BY <1>20, CallbackWildKeeps
<1>21. CASE UNCHANGED vars
  BY <1>21
  DEF vars, IInv, TypeOK, PhaseInv, CallbackInv, SignalInv, KernelInv, NoClaim
<1> QED
  BY <1>1, <1>2, <1>3, <1>4, <1>5, <1>6, <1>7, <1>8, <1>9, <1>10, <1>11,
      <1>12, <1>13, <1>14, <1>15, <1>16, <1>17, <1>18, <1>19, <1>20, <1>21
  DEF Next, PollStep, UserStep, CallbackStep

\* IInv is an invariant of the event, spurious polls and failing ResetEvent
\* included.
THEOREM Inductive == Spec => []IInv
<1>1. Init => IInv
  BY InitIInv
<1>2. IInv /\ [Next]_vars => IInv'
  BY NextKeeps
<1> QED
  BY <1>1, <1>2, PTL DEF Spec

\* Type correctness of IoEvent.
THEOREM TypeCorrect == Spec => []TypeOK
<1>1. IInv => TypeOK
  BY DEF IInv
<1> QED
  BY <1>1, Inductive, PTL

\* IoResult::get in IoEvent::poll reads a cell that the callback of this very
\* operation has set and that no callback may be writing.
THEOREM ResultSafe == Spec => []ResultExclusive
<1>1. IInv => ResultExclusive
  BY DEF IInv, PhaseInv, CallbackInv, ResultExclusive
<1> QED
  BY <1>1, Inductive, PTL

\* Drop for IoEvent frees the OVERLAPPED, the result and the state only when
\* the operation has ended and its callback has published its result.
THEOREM FreeSafe == Spec => []FreedWhenQuiet
<1>1. IInv => FreedWhenQuiet
  BY DEF IInv, PhaseInv, CallbackInv, KernelInv, FreedWhenQuiet
<1> QED
  BY <1>1, Inductive, PTL

\* The initial event is an idle AsyncOp.
LEMMA InitRefines == Init => Abs!Init
  BY DEF Init, Abs!Init, Outstanding

\* Each step of the event is a step of AsyncOp or leaves its state alone: the
\* answer is the step that puts the state word back to IDLE, the release is
\* the end of the spin in Drop, and everything a callback does is hidden.
LEMMA StepRefines == IInv /\ [Next]_vars => [Abs!Next]_(Abs!vars)
<1> SUFFICES ASSUME IInv, [Next]_vars PROVE Abs!Next \/ UNCHANGED Abs!vars
  BY DEF Abs!vars
<1>1. ASSUME PollFinish PROVE UNCHANGED Abs!vars
  BY <1>1 DEF PollFinish, Polls, Abs!vars
<1>2. ASSUME PollResetFails PROVE Abs!Answer
  BY <1>2
  DEF IInv, KernelInv, Outstanding, PollResetFails, Polls, finish, Abs!Answer
<1>3. ASSUME PollArm PROVE UNCHANGED Abs!vars
  BY <1>3 DEF PollArm, Abs!vars
<1>4. ASSUME PollCollect PROVE Abs!Answer
  BY <1>4
  DEF IInv, TypeOK, PhaseInv, CallbackInv, Outstanding, PollCollect, Answer,
      Abs!Answer
<1>5. ASSUME PollSchedule PROVE UNCHANGED Abs!vars
  BY <1>5 DEF PollSchedule, Polls, Abs!vars
<1>6. ASSUME IssuePending PROVE Abs!Begin
  BY <1>6
  DEF IInv, TypeOK, PhaseInv, KernelInv, Outstanding, IssuePending, Abs!Begin
<1>7. ASSUME NEW o \in InlineOutcomes, IssueInline(o) PROVE Abs!Inline(o)
  BY <1>7, EventAssumption
  DEF IInv, TypeOK, PhaseInv, KernelInv, Outstanding, IssueInline, Abs!Inline
<1>8. ASSUME PollPark PROVE UNCHANGED Abs!vars
  BY <1>8 DEF IInv, TypeOK, PhaseInv, PollPark, Abs!vars
<1>9. ASSUME PollBusy PROVE UNCHANGED Abs!vars
  BY <1>9 DEF PollBusy, Polls, Abs!vars
<1>10. ASSUME PollRegister PROVE UNCHANGED Abs!vars
  BY <1>10 DEF PollRegister, Abs!vars
<1>11. ASSUME NextOp PROVE Abs!Retry
  BY <1>11 DEF IInv, PhaseInv, KernelInv, Outstanding, NextOp, Abs!Retry
<1>12. ASSUME Drop PROVE UNCHANGED Abs!vars
  BY <1>12 DEF Drop, Abs!vars
<1>13. ASSUME Close PROVE Abs!Close
  BY <1>13 DEF IInv, KernelInv, Close, is_busy, Abs!Close
<1>14. ASSUME NEW o \in Outcome, KernelFinish(o) PROVE Abs!Finish(o)
  BY <1>14
  DEF IInv, PhaseInv, KernelInv, Outstanding, KernelFinish, Abs!Finish,
      Outcome
<1>15. ASSUME CallbackStart PROVE UNCHANGED Abs!vars
  BY <1>15 DEF CallbackStart, Abs!vars
<1>16. ASSUME NEW n \in Ops, CallbackClaim(n) PROVE UNCHANGED Abs!vars
  BY <1>16 DEF CallbackClaim, Abs!vars
<1>17. ASSUME NEW n \in Ops, CallbackSet(n) PROVE UNCHANGED Abs!vars
  BY <1>17 DEF CallbackSet, Abs!vars
<1>18. ASSUME NEW n \in Ops, CallbackReady(n) PROVE UNCHANGED Abs!vars
  BY <1>18 DEF CallbackReady, Abs!vars
<1>19. ASSUME NEW n \in Ops, CallbackWake(n) PROVE UNCHANGED Abs!vars
  BY <1>19 DEF CallbackWake, Abs!vars
<1>20. ASSUME NEW n \in Ops, CallbackWild(n) PROVE UNCHANGED Abs!vars
  BY <1>20 DEF CallbackWild, Abs!vars
<1>21. CASE UNCHANGED vars
  BY <1>21 DEF vars, Abs!vars
<1> QED
  BY <1>1, <1>2, <1>3, <1>4, <1>5, <1>6, <1>7, <1>8, <1>9, <1>10, <1>11,
      <1>12, <1>13, <1>14, <1>15, <1>16, <1>17, <1>18, <1>19, <1>20, <1>21,
      EventAssumption
  DEF Next, PollStep, UserStep, CallbackStep, Abs!Next, Abs!Outcome, Outcome

\* IoEvent implements AsyncOp: every operation is answered once, after it has
\* ended, with its own outcome, and nothing is released under it.
THEOREM Refinement == Spec => Implements
<1>1. Init => Abs!Init
  BY InitRefines
<1>2. IInv /\ [Next]_vars => [Abs!Next]_(Abs!vars)
  BY StepRefines
<1> QED
  BY <1>1, <1>2, Inductive, PTL DEF Spec, Implements, Abs!Spec

-----------------------------------------------------------------------------
(***************************************************************************)
(* Wake-ups and completions.                                               *)
(***************************************************************************)

\* The task has an operation that the wait must report, or may still issue
\* one on this event.
MayWait ==
  \/ st = PENDING
  \/ upc \in {"park", "collect"}
  \/ ret \in {"none", "err"} /\ upc \in {"idle", "issue"}

\* If ResetEvent never fails, the wait is armed or its callback is at the
\* claim whenever an operation needs it, and the end of an operation leaves
\* the event signalled until a poll collects it.
WaitInv ==
  /\ MayWait => armed \/ ~NoClaim
  /\ (st = PENDING \/ upc = "park") /\ kernel # "inflight" => signalled

\* The operations for which NoLostWakeup promises a wake-up.
Covered == op = 1 \/ ~SpuriousPolls

\* The callback of the current operation is about to wake the task.
Waking == op > 0 /\ cb[op] = "wake"

\* A waker stays registered from the pending answer to the wake call, and the
\* wake call follows READY.
WakeInv ==
  /\ \A n \in Ops : n > op => cb[n] = "none"
  /\ Waking => st \notin {PENDING, CALLBACK} /\ upc # "park"
  /\ (Covered /\ (st \in {PENDING, CALLBACK} \/ (Waking /\ upc # "freed"))) => waker
  /\ (Covered /\ st = READY /\ ret = "pending" /\ upc \in {"idle", "register"}) =>
       woken \/ Waking

\* A task polled only when woken collects each result after the wake call of
\* its operation, so that no late callback takes the waker of the next one.
PunctualInv ==
  ~SpuriousPolls =>
    /\ upc # "register"
    /\ \A n \in Ops : n < op => cb[n] # "wake"
    /\ woken => /\ st = READY
                /\ ret = "pending"
                /\ cb[op] = "done"
                /\ upc \notin {"arm", "collect"}
    /\ Waking => st = READY /\ upc \notin {"arm", "collect"}

\* PollArm, after ResetEvent, is the one step that arms the wait again, and
\* CallbackStart the one that disarms it while it may be needed.
LEMMA WaitStep ==
  ASSUME ~ResetMayFail, IInv, WaitInv, [Next]_vars
  PROVE  WaitInv'
<1>1. CASE PollFinish
  BY <1>1 DEF PollFinish, finish, WaitInv, MayWait
<1>2. CASE PollResetFails
  BY <1>2 DEF PollResetFails
<1>3. CASE PollArm
  BY <1>3 DEF PollArm, WaitInv
<1>4. CASE PollCollect
  BY <1>4 DEF PollCollect, NoClaim, WaitInv, MayWait
<1>5. CASE PollSchedule
  BY <1>5 DEF PollSchedule, Polls, NoClaim, WaitInv, MayWait
<1>6. CASE IssuePending
  BY <1>6 DEF IssuePending, IInv, TypeOK, PhaseInv, NoClaim, WaitInv, MayWait
<1>7. ASSUME NEW o \in InlineOutcomes, IssueInline(o) PROVE WaitInv'
  BY <1>7 DEF IssueInline, IInv, TypeOK, PhaseInv, NoClaim, WaitInv, MayWait
<1>8. CASE PollPark
  BY <1>8 DEF PollPark, NoClaim, WaitInv, MayWait
<1>9. CASE PollBusy
  BY <1>9 DEF PollBusy, NoClaim, WaitInv, MayWait
<1>10. CASE PollRegister
  BY <1>10 DEF PollRegister, IInv, PhaseInv, NoClaim, WaitInv, MayWait
<1>11. CASE NextOp
  BY <1>11 DEF NextOp, NoClaim, WaitInv, MayWait
<1>12. CASE Drop
  BY <1>12 DEF Drop, NoClaim, WaitInv, MayWait
<1>13. CASE Close
  BY <1>13 DEF Close, is_busy, WaitInv, MayWait
<1>14. ASSUME NEW o \in Outcome, KernelFinish(o) PROVE WaitInv'
  BY <1>14 DEF KernelFinish, NoClaim, WaitInv, MayWait
<1>15. CASE CallbackStart
  <2>1. op \in Ops
    BY <1>15, EventAssumption DEF CallbackStart, IInv, TypeOK, SignalInv, Outcome, Ops
  <2>2. cb'[op] = "claim" /\ op \in Ops
    BY <1>15, <2>1 DEF CallbackStart, IInv, TypeOK
  <2> QED
    BY <1>15, <2>2 DEF CallbackStart, WaitInv, MayWait, NoClaim
<1>16. ASSUME NEW n \in Ops, CallbackClaim(n) PROVE WaitInv'
  BY <1>16
  DEF CallbackClaim, callback_pending, callback_spins, IInv, PhaseInv,
      SignalInv, WaitInv, MayWait
<1>17. ASSUME NEW n \in Ops, CallbackSet(n) PROVE WaitInv'
  BY <1>17 DEF CallbackSet, NoClaim, WaitInv, MayWait
<1>18. ASSUME NEW n \in Ops, CallbackReady(n) PROVE WaitInv'
  BY <1>18 DEF CallbackReady, NoClaim, WaitInv, MayWait
<1>19. ASSUME NEW n \in Ops, CallbackWake(n) PROVE WaitInv'
  BY <1>19 DEF CallbackWake, NoClaim, WaitInv, MayWait
<1>20. ASSUME NEW n \in Ops, CallbackWild(n) PROVE WaitInv'
  BY <1>20 DEF CallbackWild, IInv, PhaseInv, WaitInv, MayWait
<1>21. CASE UNCHANGED vars
  BY <1>21 DEF vars, WaitInv, MayWait, NoClaim
<1> QED
  BY <1>1, <1>2, <1>3, <1>4, <1>5, <1>6, <1>7, <1>8, <1>9, <1>10, <1>11,
      <1>12, <1>13, <1>14, <1>15, <1>16, <1>17, <1>18, <1>19, <1>20, <1>21
  DEF Next, PollStep, UserStep, CallbackStep

\* Only the wake call of the operation itself takes a waker that is needed.
LEMMA WakeStep ==
  ASSUME IInv, WakeInv, PunctualInv, [Next]_vars
  PROVE  WakeInv'
<1>1. CASE PollFinish
  BY <1>1 DEF PollFinish, Polls, WakeInv, Covered, Waking
<1>2. CASE PollResetFails
  BY <1>2 DEF PollResetFails, WakeInv, Covered, Waking
<1>3. CASE PollArm
  BY <1>3 DEF PollArm, WakeInv, Covered, Waking
<1>4. CASE PollCollect
  BY <1>4 DEF PollCollect, WakeInv, Covered, Waking
<1>5. CASE PollSchedule
  BY <1>5 DEF PollSchedule, Polls, WakeInv, Covered, Waking
<1>6. CASE IssuePending
  BY <1>6, EventAssumption
  DEF IssuePending, IInv, TypeOK, PhaseInv, WakeInv, Waking, Ops
<1>7. ASSUME NEW o \in InlineOutcomes, IssueInline(o) PROVE WakeInv'
  BY <1>7, EventAssumption
  DEF IssueInline, IInv, TypeOK, PhaseInv, WakeInv, Waking, Ops
<1>8. CASE PollPark
  BY <1>8 DEF PollPark, WakeInv, Waking
<1>9. CASE PollBusy
  BY <1>9
  DEF PollBusy, finish, schedule, IInv, PhaseInv, WakeInv, Covered, Waking
<1>10. CASE PollRegister
  BY <1>10 DEF PollRegister, WakeInv, Covered, Waking
<1>11. CASE NextOp
  BY <1>11 DEF NextOp, WakeInv, Covered, Waking
<1>12. CASE Drop
  BY <1>12 DEF Drop, WakeInv, Covered, Waking
<1>13. CASE Close
  BY <1>13 DEF Close, WakeInv, Covered, Waking
<1>14. ASSUME NEW o \in Outcome, KernelFinish(o) PROVE WakeInv'
  BY <1>14 DEF KernelFinish, WakeInv, Covered, Waking
<1>15. CASE CallbackStart
  BY <1>15 DEF CallbackStart, WakeInv, Covered, Waking, Ops, IInv, TypeOK
<1>16. ASSUME NEW n \in Ops, CallbackClaim(n) PROVE WakeInv'
  BY <1>16
  DEF CallbackClaim, callback_pending, IInv, TypeOK, CallbackInv, WakeInv,
      Covered, Waking
<1>17. ASSUME NEW n \in Ops, CallbackSet(n) PROVE WakeInv'
  BY <1>17 DEF CallbackSet, WakeInv, Covered, Waking
<1>18. ASSUME NEW n \in Ops, CallbackReady(n) PROVE WakeInv'
  BY <1>18
  DEF CallbackReady, IInv, TypeOK, CallbackInv, WakeInv, Covered, Waking, Ops,
      PhaseInv
<1>19. ASSUME NEW n \in Ops, CallbackWake(n) PROVE WakeInv'
  <2>1. Covered => n = op
    BY <1>19, EventAssumption
    DEF CallbackWake, IInv, TypeOK, WakeInv, PunctualInv, Covered, Ops
  <2>2. n <= op
    BY <1>19, EventAssumption DEF CallbackWake, IInv, TypeOK, WakeInv, Ops
  <2>3. \A m \in Ops : m > op => cb'[m] = "none"
    BY <1>19, <2>2, EventAssumption DEF CallbackWake, IInv, TypeOK, WakeInv, Ops
  <2>4. Covered => waker /\ woken' /\ ~Waking'
    BY <1>19, <2>1 DEF CallbackWake, IInv, TypeOK, WakeInv, Waking, Ops
  <2>5. Covered => st \notin {PENDING, CALLBACK}
    BY <1>19, <2>1 DEF CallbackWake, WakeInv, Waking, Ops
  <2> QED
    BY <1>19, <2>3, <2>4, <2>5 DEF CallbackWake, WakeInv, Covered, Waking
<1>20. ASSUME NEW n \in Ops, CallbackWild(n) PROVE WakeInv'
  BY <1>20 DEF CallbackWild, WakeInv, Covered, Waking
<1>21. CASE UNCHANGED vars
  BY <1>21 DEF vars, WakeInv, Covered, Waking
<1> QED
  BY <1>1, <1>2, <1>3, <1>4, <1>5, <1>6, <1>7, <1>8, <1>9, <1>10, <1>11,
      <1>12, <1>13, <1>14, <1>15, <1>16, <1>17, <1>18, <1>19, <1>20, <1>21
  DEF Next, PollStep, UserStep, CallbackStep

\* Only the wake call makes a task poll again, and it is the callback's last
\* step.
LEMMA PunctualStep ==
  ASSUME IInv, WakeInv, PunctualInv, [Next]_vars
  PROVE  PunctualInv'
<1>1. CASE PollFinish
  BY <1>1 DEF PollFinish, Polls, IInv, PhaseInv, PunctualInv, Waking
<1>2. CASE PollResetFails
  BY <1>2 DEF PollResetFails, Polls, IInv, PhaseInv, PunctualInv, Waking
<1>3. CASE PollArm
  BY <1>3 DEF PollArm, PunctualInv, Waking
<1>4. CASE PollCollect
  BY <1>4 DEF PollCollect, PunctualInv, Waking
<1>5. CASE PollSchedule
  BY <1>5 DEF PollSchedule, schedule, PunctualInv, Waking
<1>6. CASE IssuePending
  BY <1>6, EventAssumption
  DEF IssuePending, IInv, TypeOK, PhaseInv, WakeInv, PunctualInv, Waking, Ops
<1>7. ASSUME NEW o \in InlineOutcomes, IssueInline(o) PROVE PunctualInv'
  BY <1>7, EventAssumption
  DEF IssueInline, IInv, TypeOK, PhaseInv, WakeInv, PunctualInv, Waking, Ops
<1>8. CASE PollPark
  BY <1>8 DEF PollPark, IInv, PhaseInv, PunctualInv, Waking
<1>9. CASE PollBusy
  BY <1>9 DEF PollBusy, Polls, finish, schedule, IInv, PhaseInv, PunctualInv
<1>10. CASE PollRegister
  BY <1>10 DEF PollRegister, PunctualInv
<1>11. CASE NextOp
  BY <1>11 DEF NextOp, PunctualInv, Waking
<1>12. CASE Drop
  BY <1>12 DEF Drop, PunctualInv, Waking
<1>13. CASE Close
  BY <1>13 DEF Close, PunctualInv, Waking
<1>14. ASSUME NEW o \in Outcome, KernelFinish(o) PROVE PunctualInv'
  BY <1>14 DEF KernelFinish, PunctualInv, Waking
<1>15. CASE CallbackStart
  BY <1>15 DEF CallbackStart, IInv, SignalInv, PunctualInv, Waking
<1>16. ASSUME NEW n \in Ops, CallbackClaim(n) PROVE PunctualInv'
  BY <1>16 DEF CallbackClaim, IInv, TypeOK, CallbackInv, PunctualInv, Waking
<1>17. ASSUME NEW n \in Ops, CallbackSet(n) PROVE PunctualInv'
  BY <1>17 DEF CallbackSet, PunctualInv, Waking
<1>18. ASSUME NEW n \in Ops, CallbackReady(n) PROVE PunctualInv'
  BY <1>18 DEF CallbackReady, IInv, PhaseInv, CallbackInv, PunctualInv, Ops
<1>19. ASSUME NEW n \in Ops, CallbackWake(n) PROVE PunctualInv'
  BY <1>19
  DEF CallbackWake, IInv, TypeOK, PhaseInv, WakeInv, PunctualInv, Waking, Ops
<1>20. ASSUME NEW n \in Ops, CallbackWild(n) PROVE PunctualInv'
  BY <1>20 DEF CallbackWild, PunctualInv, Waking
<1>21. CASE UNCHANGED vars
  BY <1>21 DEF vars, PunctualInv, Waking
<1> QED
  BY <1>1, <1>2, <1>3, <1>4, <1>5, <1>6, <1>7, <1>8, <1>9, <1>10, <1>11,
      <1>12, <1>13, <1>14, <1>15, <1>16, <1>17, <1>18, <1>19, <1>20, <1>21
  DEF Next, PollStep, UserStep, CallbackStep

\* If ResetEvent does not fail, every operation that ends while it is pending
\* is noticed: the wait is armed on a signalled event or its callback runs.
THEOREM CompletionNoticed ==
  ASSUME ~ResetMayFail
  PROVE  Spec => []NoMissedCompletion
<1>1. Init => WaitInv
  BY DEF Init, WaitInv, MayWait
<1>2. IInv /\ WaitInv /\ [Next]_vars => WaitInv'
  BY WaitStep
<1>3. IInv /\ WaitInv => NoMissedCompletion
  BY DEF IInv, CallbackInv, NoClaim, WaitInv, MayWait, NoMissedCompletion
<1> QED
  BY <1>1, <1>2, <1>3, Inductive, PTL DEF Spec

\* No wake-up is lost between AtomicWaker::register, set_pending and the
\* callback: for the first operation of an event under any polling, and for
\* every operation of a task that is polled only when woken.
THEOREM WakeupNotLost == Spec => []NoLostWakeup
<1>1. Init => WakeInv /\ PunctualInv
  BY DEF Init, WakeInv, PunctualInv, Covered, Waking
<1>2. IInv /\ WakeInv /\ PunctualInv /\ [Next]_vars => WakeInv' /\ PunctualInv'
  BY WakeStep, PunctualStep
<1>3. WakeInv => NoLostWakeup
  BY DEF WakeInv, Covered, Waking, NoLostWakeup
<1> QED
  BY <1>1, <1>2, <1>3, Inductive, PTL DEF Spec

=============================================================================
