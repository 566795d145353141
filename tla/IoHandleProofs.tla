---------------------------- MODULE IoHandleProofs ----------------------------
(***************************************************************************)
(* Proofs about IoHandle, for every number of operations and futures and   *)
(* every way in which operations are answered, cancelled and dropped: the  *)
(* buffer and the OVERLAPPED stay with one operation at a time, a poll     *)
(* reads a result that is written and its own, and the handle is freed     *)
(* when the operating system has left it.                                  *)
(***************************************************************************)
EXTENDS IoHandle, TLAPS

\* No operation has completed at once, so that no packet is left over.
Clean == "done" \notin past

\* Operation n is over, and its callback has published what it had to.
Quiet(n) ==
  /\ n \notin kernel
  /\ packet[n] = "none" \/ cb[n] \in {"wake", "done", "wild"}

\* What holds whatever has happened on the half: packets are of operations
\* that were issued and have ended, callbacks are of packets.
BaseInv ==
  /\ upc = "issue" => op < MaxOps /\ fut # 0
  /\ \A n \in Ops : n > op => n \notin kernel /\ packet[n] = "none"
  /\ \A n \in kernel : packet[n] = "none"
  /\ \A n \in Ops : cb[n] # "none" => packet[n] # "none"
  /\ \A n \in Ops : cb[n] = "wild" => upc = "freed"

\* Why cancel is run, and what it leaves behind.
CancelInv ==
  /\ dropping = "handle" => upc \in {"swap", "cancelio", "waitio", "spin", "freed"}
  /\ dropping = "future" => "dropped" \in past
  /\ (dropping = "none" /\ upc \in {"swap", "cancelio"}) => "nowait" \in past
  /\ dropping = "none" => upc \notin {"waitio", "spin"}
  /\ st = CANCELLED_NOWAIT => "nowait" \in past

\* What the state word says about the task.
PhaseInv ==
  Clean =>
    /\ st = SCHEDULING <=> upc \in {"issue", "inline", "park"}
    /\ upc = "get" => st = READY
    /\ upc = "swap" => st \in {PENDING, CALLBACK, READY}
    /\ upc \in {"cancelio", "waitio", "spin"} =>
         st \in {CANCELLED_NOWAIT, CANCELLED_WAIT, CALLBACK, READY}
    /\ upc = "freed" => st # PENDING

\* One operation at a time: all but the last are quiet, and of the last the
\* state word tells how far it has come.
OpInv ==
  Clean =>
    /\ \A n \in Ops : n # op => Quiet(n)
    /\ (st \in {IDLE, READY} \/ upc \in {"issue", "inline"}) => \A n \in Ops : Quiet(n)
    /\ (st = PENDING \/ upc = "park") => op > 0 /\ cb[op] \in {"none", "claim"}
    /\ st = CALLBACK => op > 0 /\ cb[op] \notin {"none", "claim"}
    /\ \A n \in Ops : cb[n] \in {"set", "ready", "quiet"} =>
         st \in {CALLBACK, CANCELLED_NOWAIT, CANCELLED_WAIT}

\* If no pending future was dropped, READY comes with a result, and without
\* stray packets with that of the last operation.  (The drop of the handle
\* cancels with wait as well, but nobody polls after it.)
ResultInv ==
  ("dropped" \notin past /\ dropping # "handle") =>
    /\ st # CANCELLED_WAIT
    /\ \A n \in Ops : cb[n] # "quiet"
    /\ \A n \in Ops : cb[n] = "ready" => result.op > 0 /\ (Clean => result.op = n)
    /\ (st = READY \/ upc = "get") => result.op > 0 /\ (Clean => result.op = op)

\* If no pending future was dropped, the operation under way, or its result, is
\* the living future's.
OwnInv ==
  (Clean /\ "dropped" \notin past /\ st # IDLE /\ upc \notin {"issue", "inline"}) =>
    /\ op > 0
    /\ fut # 0
    /\ lent[op] = fut
    /\ ret = "pending" \/ upc = "park"

\* If nothing was cancelled without waiting, the future whose buffer is lent
\* lives on, and the handle is freed when nothing is lent.
LoanInv ==
  (Clean /\ "nowait" \notin past) =>
    /\ st = CANCELLED_WAIT => upc \in {"cancelio", "waitio", "spin"}
    /\ (st = PENDING \/ upc = "park" \/ op \in kernel) => fut # 0 /\ lent[op] = fut
    /\ op \in kernel => st = PENDING \/ upc \in {"park", "cancelio", "waitio"}
    /\ upc = "freed" =>
         /\ kernel = {}
         /\ \A n \in Ops : packet[n] # "none" => cb[n] \notin {"none", "claim"}

IInv ==
  /\ TypeOK
  /\ BaseInv
  /\ CancelInv
  /\ PhaseInv
  /\ OpInv
  /\ ResultInv
  /\ OwnInv
  /\ LoanInv

USE DEF IDLE, SCHEDULING, PENDING, CALLBACK, READY, CANCELLED_NOWAIT,
    CANCELLED_WAIT, ioVars, futVars, cancelVars

\* The half starts idle and nothing is lent.
LEMMA InitIInv == Init => IInv
<1> SUFFICES ASSUME Init PROVE IInv
  OBVIOUS
<1>1. TypeOK
  <2>1. result \in [op : 0 .. MaxOps, ok : BOOLEAN]
    BY HandleAssumption DEF Init, Uninit
  <2>2. op \in 0 .. MaxOps /\ made \in 0 .. MaxFutures /\ fut \in 0 .. made
    BY HandleAssumption DEF Init
  <2>3. lent \in [Ops -> 0 .. made]
    BY DEF Init
  <2>4. packet \in [Ops -> Outcome \cup {"none"}] /\ cb \in [Ops -> CbPc]
    BY DEF Init, CbPc
  <2> QED
    BY <2>1, <2>2, <2>3, <2>4 DEF Init, TypeOK, States, UserPc
<1>2. BaseInv /\ CancelInv /\ PhaseInv /\ OpInv
  BY DEF Init, BaseInv, CancelInv, PhaseInv, OpInv, Quiet
<1>3. ResultInv /\ OwnInv /\ LoanInv
  BY DEF Init, ResultInv, OwnInv, LoanInv
<1> QED
  BY <1>1, <1>2, <1>3 DEF IInv

\* A future is made when there is none, whatever the half is doing.
LEMMA NewFutureKeeps ==
  ASSUME IInv, NewFuture
  PROVE  IInv'
<1> USE DEF NewFuture
<1>1. TypeOK'
  BY HandleAssumption
  DEF IInv, TypeOK, States, Outcome, CbPc, UserPc, BaseInv, Ops
<1>2. BaseInv'
  BY DEF IInv, BaseInv
<1>3. CancelInv'
  BY DEF IInv, CancelInv
<1>4. PhaseInv'
  BY DEF IInv, PhaseInv, Clean
<1>5. OpInv'
  BY DEF IInv, OpInv, Quiet, Clean, BaseInv
<1>6. ResultInv'
  BY DEF IInv, ResultInv, Clean, CancelInv
<1>7. OwnInv'
  BY DEF IInv, OwnInv, Clean, PhaseInv
<1>8. LoanInv'
  BY DEF IInv, LoanInv, Clean, PhaseInv
<1> QED
  BY <1>1, <1>2, <1>3, <1>4, <1>5, <1>6, <1>7, <1>8 DEF IInv

\* A poll that finds READY goes on to read the cell.
LEMMA PollFinishKeeps ==
  ASSUME IInv, PollFinish
  PROVE  IInv'
<1> USE DEF PollFinish, Polls, finish
<1>1. TypeOK'
  BY DEF IInv, TypeOK, States, Outcome, CbPc, UserPc
<1>2. BaseInv'
  BY DEF IInv, BaseInv
<1>3. CancelInv'
  BY DEF IInv, CancelInv
<1>4. PhaseInv'
  BY DEF IInv, PhaseInv, Clean
<1>5. OpInv'
  BY DEF IInv, OpInv, Quiet, Clean, BaseInv
<1>6. ResultInv'
  BY DEF IInv, ResultInv, Clean, CancelInv
<1>7. OwnInv'
  BY DEF IInv, OwnInv, Clean, PhaseInv
<1>8. LoanInv'
  BY DEF IInv, LoanInv, Clean, PhaseInv
<1> QED
  BY <1>1, <1>2, <1>3, <1>4, <1>5, <1>6, <1>7, <1>8 DEF IInv

\* The result is read and the state word freed: no operation is under way.
LEMMA PollGetKeeps ==
  ASSUME IInv, PollGet
  PROVE  IInv'
<1> USE DEF PollGet
<1>1. TypeOK'
  BY DEF IInv, TypeOK, States, Outcome, CbPc, UserPc
<1>2. BaseInv'
  BY DEF IInv, BaseInv
<1>3. CancelInv'
  BY DEF IInv, CancelInv
<1>4. PhaseInv'
  BY DEF IInv, PhaseInv, Clean
<1>5. OpInv'
  BY DEF IInv, OpInv, Quiet, Clean, BaseInv, PhaseInv, TypeOK
<1>6. ResultInv'
  BY DEF IInv, ResultInv, Clean, CancelInv
<1>7. OwnInv'
  BY DEF IInv, OwnInv, Clean, PhaseInv
<1>8. LoanInv'
  BY DEF IInv, LoanInv, Clean, PhaseInv
<1> QED
  BY <1>1, <1>2, <1>3, <1>4, <1>5, <1>6, <1>7, <1>8 DEF IInv

\* A poll that finds IDLE takes the state word for the next operation.
LEMMA PollScheduleKeeps ==
  ASSUME IInv, PollSchedule
  PROVE  IInv'
<1> USE DEF PollSchedule, Polls, schedule
<1>1. TypeOK'
  BY DEF IInv, TypeOK, States, Outcome, CbPc, UserPc
<1>2. BaseInv'
  BY DEF IInv, BaseInv
<1>3. CancelInv'
  BY DEF IInv, CancelInv
<1>4. PhaseInv'
  BY DEF IInv, PhaseInv, Clean
<1>5. OpInv'
  BY DEF IInv, OpInv, Quiet, Clean, BaseInv
<1>6. ResultInv'
  BY DEF IInv, ResultInv, Clean, CancelInv
<1>7. OwnInv'
  BY DEF IInv, OwnInv, Clean, PhaseInv
<1>8. LoanInv'
  BY DEF IInv, LoanInv, Clean, PhaseInv
<1> QED
  BY <1>1, <1>2, <1>3, <1>4, <1>5, <1>6, <1>7, <1>8 DEF IInv

\* The OVERLAPPED, which is quiet, is given to a new operation together with the
\* buffer of the living future.
LEMMA IssuePendingKeeps ==
  ASSUME IInv, IssuePending
  PROVE  IInv'
<1> USE DEF IssuePending
<1>1. TypeOK'
  BY HandleAssumption
  DEF IInv, TypeOK, States, Outcome, CbPc, UserPc, BaseInv, Ops
<1>2. BaseInv'
  BY HandleAssumption
  DEF IInv, BaseInv, TypeOK, Outcome, OpInv, PhaseInv, Quiet, Ops
<1>3. CancelInv'
  BY DEF IInv, CancelInv
<1>4. PhaseInv'
  BY DEF IInv, PhaseInv, Clean
<1>5. OpInv'
  BY HandleAssumption
  DEF IInv, OpInv, Quiet, Clean, BaseInv, PhaseInv, TypeOK, Outcome, Ops
<1>6. ResultInv'
  BY DEF IInv, ResultInv, Clean, CancelInv, TypeOK, OpInv, Quiet, PhaseInv,
      BaseInv
<1>7. OwnInv'
  BY HandleAssumption
  DEF IInv, OwnInv, Clean, PhaseInv, TypeOK, BaseInv, CancelInv, OpInv, Quiet,
      Ops
<1>8. LoanInv'
  BY HandleAssumption
  DEF IInv, LoanInv, Clean, PhaseInv, CancelInv, TypeOK, BaseInv, OpInv,
      Quiet, Ops, Outcome
<1> QED
  BY <1>1, <1>2, <1>3, <1>4, <1>5, <1>6, <1>7, <1>8 DEF IInv

\* An operation that completes at once ends what Clean promises.
LEMMA IssueDoneKeeps ==
  ASSUME IInv, NEW o \in Outcome, IssueDone(o)
  PROVE  IInv'
<1> USE DEF IssueDone
<1>1. TypeOK'
  BY HandleAssumption
  DEF IInv, TypeOK, States, Outcome, CbPc, UserPc, BaseInv, Ops
<1>2. BaseInv'
  BY HandleAssumption
  DEF IInv, BaseInv, TypeOK, Outcome, OpInv, PhaseInv, Quiet, Ops
<1>3. CancelInv'
  BY DEF IInv, CancelInv
<1>4. PhaseInv'
  BY DEF IInv, PhaseInv, Clean
<1>5. OpInv'
  BY DEF IInv, OpInv, Quiet, Clean, BaseInv
<1>6. ResultInv'
  BY DEF IInv, ResultInv, Clean, CancelInv
<1>7. OwnInv'
  BY DEF IInv, OwnInv, Clean, PhaseInv
<1>8. LoanInv'
  BY DEF IInv, LoanInv, Clean, PhaseInv
<1> QED
  BY <1>1, <1>2, <1>3, <1>4, <1>5, <1>6, <1>7, <1>8 DEF IInv

\* An operation that is refused leaves no packet.
LEMMA IssueRefusedKeeps ==
  ASSUME IInv, IssueRefused
  PROVE  IInv'
<1> USE DEF IssueRefused
<1>1. TypeOK'
  BY HandleAssumption
  DEF IInv, TypeOK, States, Outcome, CbPc, UserPc, BaseInv, Ops
<1>2. BaseInv'
  BY HandleAssumption
  DEF IInv, BaseInv, TypeOK, Outcome, OpInv, PhaseInv, Quiet, Ops
<1>3. CancelInv'
  BY DEF IInv, CancelInv
<1>4. PhaseInv'
  BY DEF IInv, PhaseInv, Clean
<1>5. OpInv'
  BY DEF IInv, OpInv, Quiet, Clean, BaseInv, PhaseInv, TypeOK
<1>6. ResultInv'
  BY DEF IInv, ResultInv, Clean, CancelInv, TypeOK, OpInv, Quiet, PhaseInv,
      BaseInv
<1>7. OwnInv'
  BY DEF IInv, OwnInv, Clean, PhaseInv
<1>8. LoanInv'
  BY DEF IInv, LoanInv, Clean, PhaseInv, CancelInv, TypeOK, BaseInv
<1> QED
  BY <1>1, <1>2, <1>3, <1>4, <1>5, <1>6, <1>7, <1>8 DEF IInv

\* The answer at once gives the state word back.
LEMMA PollInlineKeeps ==
  ASSUME IInv, PollInline
  PROVE  IInv'
<1> USE DEF PollInline
<1>1. TypeOK'
  BY DEF IInv, TypeOK, States, Outcome, CbPc, UserPc
<1>2. BaseInv'
  BY DEF IInv, BaseInv
<1>3. CancelInv'
  BY DEF IInv, CancelInv
<1>4. PhaseInv'
  BY DEF IInv, PhaseInv, Clean
<1>5. OpInv'
  BY DEF IInv, OpInv, Quiet, Clean, BaseInv
<1>6. ResultInv'
  BY DEF IInv, ResultInv, Clean, CancelInv
<1>7. OwnInv'
  BY DEF IInv, OwnInv, Clean, PhaseInv
<1>8. LoanInv'
  BY DEF IInv, LoanInv, Clean, PhaseInv
<1> QED
  BY <1>1, <1>2, <1>3, <1>4, <1>5, <1>6, <1>7, <1>8 DEF IInv

\* The operation is announced as PENDING.
LEMMA PollParkKeeps ==
  ASSUME IInv, PollPark
  PROVE  IInv'
<1> USE DEF PollPark
<1>1. TypeOK'
  BY DEF IInv, TypeOK, States, Outcome, CbPc, UserPc
<1>2. BaseInv'
  BY DEF IInv, BaseInv
<1>3. CancelInv'
  BY DEF IInv, CancelInv
<1>4. PhaseInv'
  BY DEF IInv, PhaseInv, Clean
<1>5. OpInv'
  BY DEF IInv, OpInv, Quiet, Clean, BaseInv
<1>6. ResultInv'
  BY DEF IInv, ResultInv, Clean, CancelInv
<1>7. OwnInv'
  BY DEF IInv, OwnInv, Clean, PhaseInv
<1>8. LoanInv'
  BY DEF IInv, LoanInv, Clean, PhaseInv
<1> QED
  BY <1>1, <1>2, <1>3, <1>4, <1>5, <1>6, <1>7, <1>8 DEF IInv

\* A poll that finds the half busy changes no shared state.
LEMMA PollBusyKeeps ==
  ASSUME IInv, PollBusy
  PROVE  IInv'
<1> USE DEF PollBusy, Polls, finish, schedule
<1>1. TypeOK'
  BY DEF IInv, TypeOK, States, Outcome, CbPc, UserPc
<1>2. BaseInv'
  BY DEF IInv, BaseInv
<1>3. CancelInv'
  BY DEF IInv, CancelInv
<1>4. PhaseInv'
  BY DEF IInv, PhaseInv, Clean
<1>5. OpInv'
  BY DEF IInv, OpInv, Quiet, Clean, BaseInv
<1>6. ResultInv'
  BY DEF IInv, ResultInv, Clean, CancelInv
<1>7. OwnInv'
  BY DEF IInv, OwnInv, Clean, PhaseInv
<1>8. LoanInv'
  BY DEF IInv, LoanInv, Clean, PhaseInv
<1> QED
  BY <1>1, <1>2, <1>3, <1>4, <1>5, <1>6, <1>7, <1>8 DEF IInv

\* The waker is registered without a look at the state word.
LEMMA PollRegisterKeeps ==
  ASSUME IInv, PollRegister
  PROVE  IInv'
<1> USE DEF PollRegister
<1>1. TypeOK'
  BY DEF IInv, TypeOK, States, Outcome, CbPc, UserPc
<1>2. BaseInv'
  BY DEF IInv, BaseInv
<1>3. CancelInv'
  BY DEF IInv, CancelInv
<1>4. PhaseInv'
  BY DEF IInv, PhaseInv, Clean
<1>5. OpInv'
  BY DEF IInv, OpInv, Quiet, Clean, BaseInv
<1>6. ResultInv'
  BY DEF IInv, ResultInv, Clean, CancelInv
<1>7. OwnInv'
  BY DEF IInv, OwnInv, Clean, PhaseInv
<1>8. LoanInv'
  BY DEF IInv, LoanInv, Clean, PhaseInv
<1> QED
  BY <1>1, <1>2, <1>3, <1>4, <1>5, <1>6, <1>7, <1>8 DEF IInv

\* ReadExact and WriteAll go on with the rest.
LEMMA PollRestKeeps ==
  ASSUME IInv, PollRest
  PROVE  IInv'
<1> USE DEF PollRest
<1>1. TypeOK'
  BY DEF IInv, TypeOK
<1>2. BaseInv'
  BY DEF IInv, BaseInv
<1>3. CancelInv'
  BY DEF IInv, CancelInv
<1>4. PhaseInv'
  BY DEF IInv, PhaseInv, Clean
<1>5. OpInv'
  BY DEF IInv, OpInv, Quiet, Clean, BaseInv
<1>6. ResultInv'
  BY DEF IInv, ResultInv, Clean, CancelInv
<1>7. OwnInv'
  BY DEF IInv, OwnInv, Clean, PhaseInv
<1>8. LoanInv'
  BY DEF IInv, LoanInv, Clean, PhaseInv
<1> QED
  BY <1>1, <1>2, <1>3, <1>4, <1>5, <1>6, <1>7, <1>8 DEF IInv

\* cancel(false) is remembered.
LEMMA CancelKeeps ==
  ASSUME IInv, Cancel
  PROVE  IInv'
<1> USE DEF Cancel, is_cancellable
<1>1. TypeOK'
  BY DEF IInv, TypeOK, States, Outcome, CbPc, UserPc
<1>2. BaseInv'
  BY DEF IInv, BaseInv
<1>3. CancelInv'
  BY DEF IInv, CancelInv
<1>4. PhaseInv'
  BY DEF IInv, PhaseInv, Clean
<1>5. OpInv'
  BY DEF IInv, OpInv, Quiet, Clean, BaseInv
<1>6. ResultInv'
  BY DEF IInv, ResultInv, Clean, CancelInv
<1>7. OwnInv'
  BY DEF IInv, OwnInv, Clean, PhaseInv
<1>8. LoanInv'
  BY DEF IInv, LoanInv, Clean, PhaseInv
<1> QED
  BY <1>1, <1>2, <1>3, <1>4, <1>5, <1>6, <1>7, <1>8 DEF IInv

\* A future with a pending operation starts cancel(true); any other goes.
LEMMA DropFutureKeeps ==
  ASSUME IInv, DropFuture
  PROVE  IInv'
<1> USE DEF DropFuture, is_cancellable
<1>1. TypeOK'
  BY DEF IInv, TypeOK, States, Outcome, CbPc, UserPc
<1>2. BaseInv'
  BY DEF IInv, BaseInv
<1>3. CancelInv'
  BY DEF IInv, CancelInv
<1>4. PhaseInv'
  BY DEF IInv, PhaseInv, Clean
<1>5. OpInv'
  BY DEF IInv, OpInv, Quiet, Clean, BaseInv
<1>6. ResultInv'
  BY DEF IInv, ResultInv, Clean, CancelInv
<1>7. OwnInv'
  BY DEF IInv, OwnInv, Clean, PhaseInv
<1>8. LoanInv'
  BY DEF IInv, LoanInv, Clean, PhaseInv
<1> QED
  BY <1>1, <1>2, <1>3, <1>4, <1>5, <1>6, <1>7, <1>8 DEF IInv

\* The swap hides what the callback has done with the state word since the check.
LEMMA CancelSwapKeeps ==
  ASSUME IInv, CancelSwap
  PROVE  IInv'
<1> USE DEF CancelSwap, cancelled, cancel
<1>1. TypeOK'
  BY DEF IInv, TypeOK, States, Outcome, CbPc, UserPc
<1>2. BaseInv'
  BY DEF IInv, BaseInv
<1>3. CancelInv'
  BY DEF IInv, CancelInv
<1>4. PhaseInv'
  BY DEF IInv, PhaseInv, Clean
<1>5. OpInv'
  BY DEF IInv, OpInv, Quiet, Clean, BaseInv
<1>6. ResultInv'
  BY DEF IInv, ResultInv, Clean, CancelInv, TypeOK
<1>7. OwnInv'
  BY DEF IInv, OwnInv, Clean, PhaseInv
<1>8. LoanInv'
  BY DEF IInv, LoanInv, Clean, PhaseInv
<1> QED
  BY <1>1, <1>2, <1>3, <1>4, <1>5, <1>6, <1>7, <1>8 DEF IInv

\* CancelIoEx changes nothing by itself.
LEMMA CancelIoExKeeps ==
  ASSUME IInv, CancelIoEx
  PROVE  IInv'
<1> USE DEF CancelIoEx
<1>1. TypeOK'
  BY DEF IInv, TypeOK, States, Outcome, CbPc, UserPc
<1>2. BaseInv'
  BY DEF IInv, BaseInv
<1>3. CancelInv'
  BY DEF IInv, CancelInv
<1>4. PhaseInv'
  BY DEF IInv, PhaseInv, Clean
<1>5. OpInv'
  BY DEF IInv, OpInv, Quiet, Clean, BaseInv
<1>6. ResultInv'
  BY DEF IInv, ResultInv, Clean, CancelInv
<1>7. OwnInv'
  BY DEF IInv, OwnInv, Clean, PhaseInv
<1>8. LoanInv'
  BY DEF IInv, LoanInv, Clean, PhaseInv, CancelInv
<1> QED
  BY <1>1, <1>2, <1>3, <1>4, <1>5, <1>6, <1>7, <1>8 DEF IInv

\* GetOverlappedResult returns when the operation is over.
LEMMA CancelWaitIoKeeps ==
  ASSUME IInv, CancelWaitIo
  PROVE  IInv'
<1> USE DEF CancelWaitIo
<1>1. TypeOK'
  BY DEF IInv, TypeOK, States, Outcome, CbPc, UserPc
<1>2. BaseInv'
  BY DEF IInv, BaseInv
<1>3. CancelInv'
  BY DEF IInv, CancelInv
<1>4. PhaseInv'
  BY DEF IInv, PhaseInv, Clean
<1>5. OpInv'
  BY DEF IInv, OpInv, Quiet, Clean, BaseInv
<1>6. ResultInv'
  BY DEF IInv, ResultInv, Clean, CancelInv
<1>7. OwnInv'
  BY DEF IInv, OwnInv, Clean, PhaseInv
<1>8. LoanInv'
  BY DEF IInv, LoanInv, Clean, PhaseInv
<1> QED
  BY <1>1, <1>2, <1>3, <1>4, <1>5, <1>6, <1>7, <1>8 DEF IInv

\* The spin ends at IDLE or READY: nothing of the operation is left.
LEMMA CancelSpinKeeps ==
  ASSUME IInv, CancelSpin
  PROVE  IInv'
<1> USE DEF CancelSpin, is_busy
<1>1. TypeOK'
  BY DEF IInv, TypeOK, States, Outcome, CbPc, UserPc
<1>2. BaseInv'
  BY DEF IInv, BaseInv
<1>3. CancelInv'
  BY DEF IInv, CancelInv
<1>4. PhaseInv'
  BY DEF IInv, PhaseInv, Clean
<1>5. OpInv'
  BY DEF IInv, OpInv, Quiet, Clean, BaseInv
<1>6. ResultInv'
  BY DEF IInv, ResultInv, Clean, CancelInv
<1>7. OwnInv'
  BY DEF IInv, OwnInv, Clean, PhaseInv, TypeOK, BaseInv, CancelInv
<1>8. LoanInv'
  BY DEF IInv, LoanInv, Clean, PhaseInv, CancelInv, TypeOK, BaseInv, OpInv,
      Quiet
<1> QED
  BY <1>1, <1>2, <1>3, <1>4, <1>5, <1>6, <1>7, <1>8 DEF IInv

\* The handle is freed at once unless the operation is PENDING.
LEMMA DropHandleKeeps ==
  ASSUME IInv, DropHandle
  PROVE  IInv'
<1> USE DEF DropHandle, is_cancellable
<1>1. TypeOK'
  BY DEF IInv, TypeOK, States, Outcome, CbPc, UserPc
<1>2. BaseInv'
  BY DEF IInv, BaseInv
<1>3. CancelInv'
  BY DEF IInv, CancelInv
<1>4. PhaseInv'
  BY DEF IInv, PhaseInv, Clean
<1>5. OpInv'
  BY DEF IInv, OpInv, Quiet, Clean, BaseInv
<1>6. ResultInv'
  BY DEF IInv, ResultInv, Clean, CancelInv
<1>7. OwnInv'
  BY DEF IInv, OwnInv, Clean, PhaseInv
<1>8. LoanInv'
  <2>1. CASE is_cancellable(st)
    BY <2>1 DEF IInv, LoanInv, Clean
  <2>2. CASE ~is_cancellable(st)
    <3> SUFFICES ASSUME Clean, "nowait" \notin past
                 PROVE  /\ kernel = {}
                        /\ \A n \in Ops : packet[n] # "none" => cb[n] \notin {"none", "claim"}
      BY <2>2 DEF IInv, LoanInv, PhaseInv, Clean
    <3>1. st \in {IDLE, READY, CALLBACK}
      BY <2>2 DEF IInv, TypeOK, States, CancelInv, PhaseInv, LoanInv
    <3>2. \A n \in Ops : n # op => Quiet(n)
      BY DEF IInv, OpInv
    <3>3. CASE st \in {IDLE, READY}
      BY <3>3 DEF IInv, TypeOK, OpInv, Quiet
    <3>4. CASE st = CALLBACK
      BY <3>2, <3>4 DEF IInv, TypeOK, BaseInv, OpInv, Quiet
    <3> QED
      BY <3>1, <3>3, <3>4
  <2> QED
    BY <2>1, <2>2
<1> QED
  BY <1>1, <1>2, <1>3, <1>4, <1>5, <1>6, <1>7, <1>8 DEF IInv

\* The operating system ends an operation and queues its packet.
LEMMA KernelFinishKeeps ==
  ASSUME IInv, NEW n \in Ops, NEW o \in Outcome, KernelFinish(n, o)
  PROVE  IInv'
<1> USE DEF KernelFinish
<1>1. TypeOK'
  BY DEF IInv, TypeOK
<1>2. BaseInv'
  BY DEF IInv, BaseInv
<1>3. CancelInv'
  BY DEF IInv, CancelInv
<1>4. PhaseInv'
  BY DEF IInv, PhaseInv, Clean
<1>5. OpInv'
  BY DEF IInv, OpInv, Quiet, Clean, BaseInv
<1>6. ResultInv'
  BY DEF IInv, ResultInv, Clean, CancelInv
<1>7. OwnInv'
  BY DEF IInv, OwnInv, Clean, PhaseInv
<1>8. LoanInv'
  BY DEF IInv, LoanInv, Clean, PhaseInv
<1> QED
  BY <1>1, <1>2, <1>3, <1>4, <1>5, <1>6, <1>7, <1>8 DEF IInv

\* A thread of the pool takes a packet.
LEMMA CallbackStartKeeps ==
  ASSUME IInv, NEW n \in Ops, CallbackStart(n)
  PROVE  IInv'
<1> USE DEF CallbackStart
<1>1. TypeOK'
  BY DEF IInv, TypeOK, States, Outcome, CbPc, UserPc
<1>2. BaseInv'
  BY DEF IInv, BaseInv
<1>3. CancelInv'
  BY DEF IInv, CancelInv
<1>4. PhaseInv'
  BY DEF IInv, PhaseInv, Clean
<1>5. OpInv'
  BY DEF IInv, OpInv, Quiet, Clean, BaseInv
<1>6. ResultInv'
  BY DEF IInv, ResultInv, Clean, CancelInv
<1>7. OwnInv'
  BY DEF IInv, OwnInv, Clean, PhaseInv
<1>8. LoanInv'
  BY DEF IInv, LoanInv, Clean, PhaseInv
<1> QED
  BY <1>1, <1>2, <1>3, <1>4, <1>5, <1>6, <1>7, <1>8 DEF IInv

\* A callback claims the state word or leaves it alone.
LEMMA CallbackClaimKeeps ==
  ASSUME IInv, NEW n \in Ops, CallbackClaim(n)
  PROVE  IInv'
<1> USE DEF CallbackClaim, callback_pending, callback_spins,
    callback_cancelled_nowait, callback_cancelled_wait, Claims, Leaves
<1>1. TypeOK'
  BY DEF IInv, TypeOK, States, Outcome, CbPc, UserPc
<1>2. BaseInv'
  BY DEF IInv, BaseInv, TypeOK
<1>3. CancelInv'
  BY DEF IInv, CancelInv
<1>4. PhaseInv'
  BY DEF IInv, PhaseInv, Clean
<1>5. OpInv'
  BY HandleAssumption
  DEF IInv, OpInv, Quiet, Clean, BaseInv, PhaseInv, TypeOK, Outcome, Ops
<1>6. ResultInv'
  BY DEF IInv, ResultInv, Clean, CancelInv, TypeOK
<1>7. OwnInv'
  BY DEF IInv, OwnInv, Clean, PhaseInv
<1>8. LoanInv'
  BY DEF IInv, LoanInv, Clean, PhaseInv, CancelInv, TypeOK, BaseInv, OpInv,
      Quiet
<1> QED
  BY <1>1, <1>2, <1>3, <1>4, <1>5, <1>6, <1>7, <1>8 DEF IInv

\* The result is written between claim and set_ready.
LEMMA CallbackSetKeeps ==
  ASSUME IInv, NEW n \in Ops, CallbackSet(n)
  PROVE  IInv'
<1> USE DEF CallbackSet, set
<1>1. TypeOK'
  BY HandleAssumption
  DEF IInv, TypeOK, States, Outcome, CbPc, UserPc, BaseInv, Ops
<1>2. BaseInv'
  BY DEF IInv, BaseInv
<1>3. CancelInv'
  BY DEF IInv, CancelInv
<1>4. PhaseInv'
  BY DEF IInv, PhaseInv, Clean
<1>5. OpInv'
  BY DEF IInv, OpInv, Quiet, Clean, BaseInv
<1>6. ResultInv'
  <2>1. result'.op = n /\ n > 0
    BY HandleAssumption DEF Ops
  <2>2. Clean => n = op
    BY DEF IInv, BaseInv, OpInv, Quiet
  <2>3. Clean => \A m \in Ops : cb[m] = "ready" => m = op
    BY DEF IInv, BaseInv, OpInv, Quiet
  <2> QED
    BY <2>1, <2>2, <2>3 DEF IInv, TypeOK, ResultInv, Clean
<1>7. OwnInv'
  BY DEF IInv, OwnInv, Clean, PhaseInv
<1>8. LoanInv'
  BY DEF IInv, LoanInv, Clean, PhaseInv
<1> QED
  BY <1>1, <1>2, <1>3, <1>4, <1>5, <1>6, <1>7, <1>8 DEF IInv

\* READY is published, without a result if the operation was cancelled with wait.
LEMMA CallbackReadyKeeps ==
  ASSUME IInv, NEW n \in Ops, CallbackReady(n)
  PROVE  IInv'
<1> USE DEF CallbackReady
<1>1. TypeOK'
  BY DEF IInv, TypeOK, States, Outcome, CbPc, UserPc
<1>2. BaseInv'
  BY DEF IInv, BaseInv
<1>3. CancelInv'
  BY DEF IInv, CancelInv
<1>4. PhaseInv'
  BY DEF IInv, PhaseInv, Clean, OpInv
<1>5. OpInv'
  BY DEF IInv, OpInv, Quiet, Clean, BaseInv, PhaseInv, TypeOK
<1>6. ResultInv'
  BY DEF IInv, ResultInv, Clean, CancelInv, TypeOK, OpInv, Quiet, PhaseInv,
      BaseInv
<1>7. OwnInv'
  BY DEF IInv, OwnInv, Clean, PhaseInv, TypeOK, BaseInv, CancelInv, OpInv,
      Quiet
<1>8. LoanInv'
  BY DEF IInv, LoanInv, Clean, PhaseInv, CancelInv, TypeOK, BaseInv, OpInv,
      Quiet
<1> QED
  BY <1>1, <1>2, <1>3, <1>4, <1>5, <1>6, <1>7, <1>8 DEF IInv

\* Waking takes the waker and nothing else.
LEMMA CallbackWakeKeeps ==
  ASSUME IInv, NEW n \in Ops, CallbackWake(n)
  PROVE  IInv'
<1> USE DEF CallbackWake
<1>1. TypeOK'
  <2>1. TypeOK
    BY DEF IInv
  <2>2. cb' \in [Ops -> CbPc]
    BY <2>1 DEF TypeOK, CbPc
  <2>3. waker' \in BOOLEAN /\ woken' \in BOOLEAN
    BY <2>1 DEF TypeOK
  <2>4. UNCHANGED <<st, result, ioVars, futVars, upc, cancelVars, ret>>
    OBVIOUS
  <2> HIDE DEF CallbackWake
  <2> QED
    BY <2>1, <2>2, <2>3, <2>4 DEF TypeOK, ioVars, futVars, cancelVars
<1>2. BaseInv'
  BY DEF IInv, BaseInv
<1>3. CancelInv'
  BY DEF IInv, CancelInv
<1>4. PhaseInv'
  BY DEF IInv, PhaseInv, Clean
<1>5. OpInv'
  BY DEF IInv, OpInv, Quiet, Clean, BaseInv
<1>6. ResultInv'
  BY DEF IInv, ResultInv, Clean, CancelInv
<1>7. OwnInv'
  BY DEF IInv, OwnInv, Clean, PhaseInv
<1>8. LoanInv'
  BY DEF IInv, LoanInv, Clean, PhaseInv
<1> QED
  BY <1>1, <1>2, <1>3, <1>4, <1>5, <1>6, <1>7, <1>8 DEF IInv

\* A callback that runs into freed memory is followed no further.
LEMMA CallbackWildKeeps ==
  ASSUME IInv, NEW n \in Ops, CallbackWild(n)
  PROVE  IInv'
<1> USE DEF CallbackWild
<1>1. TypeOK'
  BY DEF IInv, TypeOK, States, Outcome, CbPc, UserPc
<1>2. BaseInv'
  BY DEF IInv, BaseInv
<1>3. CancelInv'
  BY DEF IInv, CancelInv
<1>4. PhaseInv'
  BY DEF IInv, PhaseInv, Clean
<1>5. OpInv'
  BY DEF IInv, OpInv, Quiet, Clean, BaseInv, PhaseInv, TypeOK
<1>6. ResultInv'
  BY DEF IInv, ResultInv, Clean, CancelInv
<1>7. OwnInv'
  BY DEF IInv, OwnInv, Clean, PhaseInv
<1>8. LoanInv'
  BY DEF IInv, LoanInv, Clean, PhaseInv
<1> QED
  BY <1>1, <1>2, <1>3, <1>4, <1>5, <1>6, <1>7, <1>8 DEF IInv

\* Every step of the task, the operating system and the callbacks keeps IInv.
LEMMA NextKeeps == IInv /\ [Next]_vars => IInv'
<1> SUFFICES ASSUME IInv, [Next]_vars PROVE IInv'
  OBVIOUS
<1>1. CASE NewFuture
  BY <1>1, NewFutureKeeps
<1>2. CASE PollFinish
  BY <1>2, PollFinishKeeps
<1>3. CASE PollGet
  BY <1>3, PollGetKeeps
<1>4. CASE PollSchedule
  BY <1>4, PollScheduleKeeps
<1>5. CASE IssuePending
  BY <1>5, IssuePendingKeeps
<1>6. ASSUME NEW o \in Outcome, IssueDone(o) PROVE IInv'
  BY <1>6, IssueDoneKeeps
<1>7. CASE IssueRefused
  BY <1>7, IssueRefusedKeeps
<1>8. CASE PollInline
  BY <1>8, PollInlineKeeps
<1>9. CASE PollPark
  BY <1>9, PollParkKeeps
<1>10. CASE PollBusy
  BY <1>10, PollBusyKeeps
<1>11. CASE PollRegister
  BY <1>11, PollRegisterKeeps
<1>12. CASE PollRest
  BY <1>12, PollRestKeeps
<1>13. CASE Cancel
  BY <1>13, CancelKeeps
<1>14. CASE DropFuture
  BY <1>14, DropFutureKeeps
<1>15. CASE CancelSwap
  BY <1>15, CancelSwapKeeps
<1>16. CASE CancelIoEx
  BY <1>16, CancelIoExKeeps
<1>17. CASE CancelWaitIo
  BY <1>17, CancelWaitIoKeeps
<1>18. CASE CancelSpin
  BY <1>18, CancelSpinKeeps
<1>19. CASE DropHandle
  BY <1>19, DropHandleKeeps
<1>20. ASSUME NEW n \in Ops, NEW o \in Outcome, KernelFinish(n, o) PROVE IInv'
  BY <1>20, KernelFinishKeeps
<1>21. ASSUME NEW n \in Ops, CallbackStart(n) PROVE IInv'
  BY <1>21, CallbackStartKeeps
<1>22. ASSUME NEW n \in Ops, CallbackClaim(n) PROVE IInv'
  BY <1>22, CallbackClaimKeeps
<1>23. ASSUME NEW n \in Ops, CallbackSet(n) PROVE IInv'
  BY <1>23, CallbackSetKeeps
<1>24. ASSUME NEW n \in Ops, CallbackReady(n) PROVE IInv'
  BY <1>24, CallbackReadyKeeps
<1>25. ASSUME NEW n \in Ops, CallbackWake(n) PROVE IInv'
  BY <1>25, CallbackWakeKeeps
<1>26. ASSUME NEW n \in Ops, CallbackWild(n) PROVE IInv'
  BY <1>26, CallbackWildKeeps
<1>27. CASE UNCHANGED vars
  BY <1>27
  DEF vars, IInv, TypeOK, BaseInv, CancelInv, PhaseInv, OpInv, ResultInv,
      OwnInv, LoanInv, Clean, Quiet
<1> QED
  BY <1>1, <1>2, <1>3, <1>4, <1>5, <1>6, <1>7, <1>8, <1>9, <1>10, <1>11,
      <1>12, <1>13, <1>14, <1>15, <1>16, <1>17, <1>18, <1>19, <1>20, <1>21,
      <1>22, <1>23, <1>24, <1>25, <1>26, <1>27
  DEF Next, PollStep, UserStep, CallbackStep

\* The invariant holds in every behaviour.
LEMMA Invariance == Spec => []IInv
  BY InitIInv, NextKeeps, PTL DEF Spec

\* What Never means event by event.
LEMMA NeverMeans ==
  /\ Never({"done"}) => Clean
  /\ Never({"dropped"}) => "dropped" \notin past
  /\ Never({"done", "nowait"}) => Clean /\ "nowait" \notin past
  /\ Never({"done", "dropped"}) => Clean /\ "dropped" \notin past
  BY DEF Never, Clean

\* Type correctness of IoHandle.
THEOREM TypeCorrect == Spec => []TypeOK
<1>1. IInv => TypeOK
  BY DEF IInv
<1> QED
  BY <1>1, Invariance, PTL

\* While WSARecv or WSASend is in flight, the Read or Write that passed its
\* buffer lives, unless an operation completed at once or was cancelled
\* without waiting.
THEOREM BufferPinnedHolds == Spec => []BufferPinned
<1>1. IInv => BufferPinned
  <2> SUFFICES ASSUME IInv, Never({"done", "nowait"}), NEW n \in kernel
               PROVE  fut # 0 /\ fut = lent[n]
    BY DEF BufferPinned
  <2>1. Clean /\ "nowait" \notin past
    BY NeverMeans
  <2>2. n \in Ops /\ n = op
    BY <2>1 DEF IInv, TypeOK, OpInv, Quiet
  <2> QED
    BY <2>1, <2>2 DEF IInv, LoanInv
<1> QED
  BY <1>1, Invariance, PTL

\* An OVERLAPPED is given to a new operation only when the one before it has
\* ended and its packet has been consumed.
THEOREM OverlappedFreeHolds == Spec => []OverlappedFree
<1>1. IInv => OverlappedFree
  <2> SUFFICES ASSUME IInv, Never({"done"}), upc = "issue"
               PROVE  /\ kernel = {}
                      /\ \A n \in Ops : packet[n] # "none" => cb[n] \in {"wake", "done"}
    BY DEF OverlappedFree
  <2>1. \A n \in Ops : Quiet(n)
    BY NeverMeans DEF IInv, OpInv
  <2> QED
    BY <2>1 DEF IInv, TypeOK, BaseInv, Quiet
<1> QED
  BY <1>1, Invariance, PTL

\* IoResult::get in IoHandle::poll meets no callback between claim and
\* set_ready.
THEOREM ResultExclusiveHolds == Spec => []ResultExclusive
<1>1. IInv => ResultExclusive
  BY NeverMeans DEF IInv, PhaseInv, OpInv, ResultExclusive
<1> QED
  BY <1>1, Invariance, PTL

\* A poll returns the outcome of the operation that its own future issued last,
\* and never reads a cell that was not set, unless a pending future was
\* dropped on the half before.
THEOREM ResultIsOwnHolds == Spec => []ResultIsOwn
<1>1. IInv => ResultIsOwn
  <2> SUFFICES ASSUME IInv, upc = "get"
               PROVE  /\ Never({"dropped"}) => result # Uninit
                      /\ Never({"done", "dropped"}) => result.op = op /\ lent[op] = fut
    BY DEF ResultIsOwn
  <2>1. dropping # "handle"
    BY DEF IInv, CancelInv
  <2>2. "dropped" \notin past => result.op > 0 /\ (Clean => result.op = op)
    BY <2>1 DEF IInv, ResultInv
  <2>3. Uninit.op = 0
    BY DEF Uninit
  <2>4. Never({"dropped"}) => result # Uninit
    BY <2>2, <2>3, NeverMeans
  <2>5. (Clean /\ "dropped" \notin past) => lent[op] = fut
    BY DEF IInv, PhaseInv, OwnInv
  <2> QED
    BY <2>2, <2>4, <2>5, NeverMeans
<1> QED
  BY <1>1, Invariance, PTL

\* Drop for IoHandle frees the OVERLAPPEDs when the operating system has left
\* them and every packet has met its state word, unless an operation completed
\* at once or was cancelled without waiting.
THEOREM FreedWhenQuietHolds == Spec => []FreedWhenQuiet
<1>1. IInv => FreedWhenQuiet
  BY NeverMeans DEF IInv, LoanInv, FreedWhenQuiet
<1> QED
  BY <1>1, Invariance, PTL

=============================================================================
