--------------------------- MODULE TransferProofs ---------------------------
(***************************************************************************)
(* Proofs about Transfer, for every length of the buffer, every width of   *)
(* the length field, all streams and any number of late packets: until a   *)
(* packet is taken for another's, the bytes counted by read_exact are      *)
(* those of the stream in order, no count is more than there is room for,  *)
(* and it ends only with a full buffer.                                    *)
(***************************************************************************)
EXTENDS Transfer, TLAPS

\* Where reader r is with what it was asked for, and the outcome that waits for
\* the next poll, in a packet or in the cell.
stage == [r \in Readers |->
            IF op[r] = "kernel" THEN "pending"
            ELSE IF op[r] = "packet" \/ st[r] # IDLE THEN "ready" ELSE "idle"]
answer == [r \in Readers |-> IF op[r] = "packet" THEN out[r] ELSE result[r]]

\* Bytes that reader r has put in the buffer and read_exact not yet counted.
Uncounted(r) == IF stage[r] = "ready" /\ answer[r].ok THEN answer[r].n ELSE 0

\* Bytes in the buffer.
Filled == pos["first"] + pos["next"]

\* The drop of the future has not begun to wait.
InUse == pc \notin {"spin", "dropped"}

Places == Readers \cup Ended \cup {"idle", "nowait", "wait", "spin", "dropped"}

Types ==
  /\ pc \in Places
  /\ n \in 0 .. Want
  /\ win \in Window
  /\ buf \in [1 .. Given -> (Readers \X Nat) \cup {<<>>}]
  /\ size \in [Readers -> Nat]
  /\ pos \in [Readers -> Nat]
  /\ st \in [Readers -> States \ {SCHEDULING, CALLBACK}]
  /\ result \in [Readers -> Result]
  /\ op \in [Readers -> {"none", "kernel", "packet"}]
  /\ lent \in [Readers -> Window]
  /\ out \in [Readers -> Result]
  /\ \A r \in Readers : left[r] = EmptyBag

\* What is counted is in its place, and an operation in the kernel was given
\* the rest of the buffer.
CountedInv ==
  /\ \A i \in 1 .. n : buf[i] = Expected(i)
  /\ \A r \in Readers : op[r] = "kernel" => lent[r].off = n /\ lent[r].len = Want - n

\* The state word and the operation agree: a word that lets a poll start or
\* collect has no operation behind it, and cancel finds the operation that it
\* saw, or its result.
WordInv ==
  /\ \A r \in Readers :
       /\ st[r] \in {IDLE, READY} => op[r] = "none"
       /\ st[r] # CANCELLED_WAIT
  /\ pc \in {"nowait", "wait"} => st["first"] # IDLE

\* The window is the rest of the buffer, and is not empty while anything is
\* asked of a reader.
WindowInv ==
  /\ win.off + win.len = Want
  /\ pc \in Readers \cup {"idle", "nowait"} => win.off = n /\ (n < Want \/ Want = 0)
  /\ \A r \in Readers : stage[r] # "idle" => win.off = n /\ (n < Want \/ Want = 0)

\* The second reader comes after the end of the first (unless there was
\* nothing to read), and has its operation alone as far as bytes are concerned.
OrderInv ==
  /\ \A r \in Readers : pos[r] <= size[r]
  /\ (pc = "next" \/ stage["next"] # "idle") =>
       /\ HasNext
       /\ pos["first"] = size["first"] \/ Want = 0
       /\ Uncounted("first") = 0
  /\ pc = "next" => stage["first"] = "idle"
  /\ pos["next"] > 0 => pos["first"] = size["first"]
  /\ pc = "done" => n = Want /\ \A r \in Readers : stage[r] = "idle"

\* Every byte taken from a reader is in its place, and nothing else is; an
\* empty read tells the end of the reader.
ContentInv ==
  /\ Filled = n + Uncounted("first") + Uncounted("next")
  /\ \A r \in Readers : stage[r] = "ready" =>
       /\ answer[r].n <= win.len
       /\ ~answer[r].ok => answer[r].n = 0
       /\ answer[r].ok /\ answer[r].n = 0 => pos[r] = size[r] \/ Want = 0
  /\ \A i \in 1 .. Given : buf[i] = IF i <= Filled THEN Expected(i) ELSE <<>>

LoopInv == WindowInv /\ OrderInv /\ ContentInv

Kept == Types /\ CountedInv /\ (InUse => WordInv /\ LoopInv)

\* Nothing is claimed once a packet was taken for another's.
IInv == NoStray => Kept

-----------------------------------------------------------------------------
(***************************************************************************)
(* Operators of the model.                                                 *)
(***************************************************************************)

\* The length `as u32` of a buffer is a length, and no more than the buffer's.
LEMMA WantFits == Want \in Nat /\ Want <= Given
<1>1. Given \in Nat /\ Wrap \in Nat /\ Wrap > 0
  BY TransferAssumption
<1>2. Given % Wrap \in Nat /\ Given % Wrap <= Given
  BY <1>1, SMTT(30)
<1> QED
  BY <1>2 DEF Want

\* A read takes no more than it was offered and than the stream has left, and
\* is empty without an error only at its end.
LEMMA OutcomesFit ==
  ASSUME Types, NEW r \in Readers, NEW len \in 0 .. Want, NEW x \in Outcomes(r, len)
  PROVE  /\ x.ok \in BOOLEAN /\ x.n \in Nat
         /\ x = [ok |-> x.ok, n |-> x.n]
         /\ x.n <= len
         /\ x \in Result
         /\ pos[r] + x.n <= size[r] \/ x.n = 0
         /\ ~x.ok => x.n = 0
         /\ x.ok /\ x.n = 0 /\ len > 0 => pos[r] = size[r]
<1>1. pos[r] \in Nat /\ size[r] \in Nat /\ len \in Nat /\ len <= Want /\ Want \in Nat
  BY WantFits DEF Types
<1>2. CASE x = Failure
  BY <1>1, <1>2 DEF Failure, Result
<1>3. ASSUME NEW k \in 0 .. len, k <= size[r] - pos[r],
             k = 0 => len = 0 \/ pos[r] = size[r], x = [ok |-> TRUE, n |-> k]
      PROVE  /\ x.ok = TRUE /\ x.n = k /\ k \in Nat /\ k <= len /\ x \in Result
             /\ pos[r] + k <= size[r]
             /\ k = 0 /\ len > 0 => pos[r] = size[r]
  BY <1>1, <1>3 DEF Result
<1>4. x = Failure \/ \E k \in 0 .. len :
        /\ k <= size[r] - pos[r]
        /\ k = 0 => len = 0 \/ pos[r] = size[r]
        /\ x = [ok |-> TRUE, n |-> k]
  BY DEF Outcomes
<1>5. CASE x # Failure
  <2>1. PICK k \in 0 .. len :
          /\ k <= size[r] - pos[r]
          /\ k = 0 => len = 0 \/ pos[r] = size[r]
          /\ x = [ok |-> TRUE, n |-> k]
    BY <1>4, <1>5
  <2>2. /\ x.ok = TRUE /\ x.n = k /\ k \in Nat /\ k <= len /\ x \in Result
        /\ pos[r] + k <= size[r]
        /\ k = 0 /\ len > 0 => pos[r] = size[r]
    BY <2>1, <1>3
  <2> QED
    BY <2>1, <2>2
<1> QED
  BY <1>2, <1>5

\* While a reader is polled, or has anything to do, the window is the buffer
\* from n on, and not empty unless nothing was ever wanted.
LEMMA WindowShape ==
  ASSUME Types, WindowInv, pc \in Readers \/ \E s \in Readers : stage[s] # "idle"
  PROVE  /\ win = [off |-> n, len |-> Want - n]
         /\ win.off = n /\ win.len = Want - n
         /\ n \in 0 .. Want /\ n \in Nat /\ Want \in Nat
         /\ n < Want \/ Want = 0
         /\ \A k \in Nat : k <= win.len => n + k <= Want
<1>1. /\ win.off = n /\ n \in 0 .. Want /\ (n < Want \/ Want = 0)
      /\ win.off + win.len = Want /\ win \in Window
  BY DEF Types, WindowInv
<1>2. win.len \in 0 .. Want /\ win = [off |-> win.off, len |-> win.len]
  BY <1>1 DEF Window
<1>3. win.len = Want - n
  BY <1>1, <1>2, WantFits
<1> QED
  BY <1>1, <1>2, <1>3, WantFits

\* What a reader writes when it has the window to itself goes where the stream
\* says: behind the bytes that are there, and nowhere else.
LEMMA FillKeeps ==
  ASSUME Types, LoopInv, NEW r \in Readers, NEW k \in Nat,
         k <= win.len, pos[r] + k <= size[r] \/ k = 0,
         pc = r \/ stage[r] = "pending", stage[r] # "ready",
         size' = size, Fill(r, k, [off |-> n, len |-> Want - n])
  PROVE  /\ buf' \in [1 .. Given -> (Readers \X Nat) \cup {<<>>}]
         /\ pos' \in [Readers -> Nat]
         /\ pos' = [pos EXCEPT ![r] = pos[r] + k]
         /\ \A s \in Readers : pos'[s] <= size[s]
         /\ Filled' = Filled + k
         /\ \A i \in 1 .. Given :
              buf'[i] = IF i <= Filled + k THEN Expected(i) ELSE <<>>
         /\ pos'["next"] > 0 => pos'["first"] = size["first"]
         /\ k > 0 /\ r = "first" => stage["next"] = "idle" /\ pos["next"] = 0
<1> USE TransferAssumption, WantFits
<1>1. Types /\ WindowInv /\ OrderInv /\ ContentInv
  BY DEF LoopInv
<1>2. /\ k \in Nat /\ k <= win.len
      /\ n \in Nat /\ n + k <= Want /\ Want \in Nat
      /\ \A s \in Readers : pos[s] \in Nat /\ size[s] \in Nat /\ pos[s] <= size[s]
  <2>1. \A j \in Nat : j <= win.len => n + j <= Want
    BY <1>1, WindowShape
  <2> QED
    BY <2>1, <1>1 DEF Types, OrderInv
<1>3. pos[r] + k <= size[r]
  BY <1>2
<1>4. pos' = [pos EXCEPT ![r] = pos[r] + k] /\ pos' \in [Readers -> Nat]
  BY <1>1, <1>2 DEF Fill, Types
<1>5. \A s \in Readers : pos'[s] <= size[s]
  BY <1>1, <1>2, <1>3, <1>4 DEF Types
<1>6. Filled' = Filled + k
  <2>1. Filled' = pos'["first"] + pos'["next"]
    BY DEF Filled
  <2>2. Filled = pos["first"] + pos["next"]
    BY DEF Filled
  <2>3. pos["first"] \in Nat /\ pos["next"] \in Nat /\ k \in Nat
    BY <1>2 DEF Readers
  <2>4. CASE r = "first"
    <3>1. pos'["first"] = pos["first"] + k /\ pos'["next"] = pos["next"]
      BY <2>4, <1>1, <1>4 DEF Readers, Types
    <3> QED
      BY <2>1, <2>2, <2>3, <3>1
  <2>5. CASE r = "next"
    <3>1. pos'["first"] = pos["first"] /\ pos'["next"] = pos["next"] + k
      BY <2>5, <1>1, <1>4 DEF Readers, Types
    <3> QED
      BY <2>1, <2>2, <2>3, <3>1
  <2> QED
    BY <2>4, <2>5 DEF Readers
<1>7. /\ buf' = [i \in 1 .. Given |->
             IF i \in n + 1 .. n + k THEN <<r, pos[r] + i - n>> ELSE buf[i]]
      /\ buf \in [1 .. Given -> (Readers \X Nat) \cup {<<>>}]
  BY <1>1 DEF Fill, Types
<1>8. buf' \in [1 .. Given -> (Readers \X Nat) \cup {<<>>}]
  <2>1. ASSUME NEW i \in 1 .. Given, i \in n + 1 .. n + k
        PROVE  pos[r] + i - n \in Nat
    BY <2>1, <1>2
  <2> QED
    BY <2>1, <1>7
<1>9. k > 0 /\ r = "first" => stage["next"] = "idle" /\ pos["next"] = 0
  BY <1>1, <1>2, <1>3 DEF OrderInv, Readers
<1>10. k > 0 /\ r = "next" => pos["first"] = size["first"] /\ Uncounted("first") = 0
  BY <1>1, <1>2 DEF OrderInv
<1>11. k > 0 => n = Filled
  BY <1>1, <1>2, <1>9, <1>10 DEF ContentInv, Uncounted, Filled, Readers
<1>12. ASSUME NEW i \in 1 .. Given
       PROVE  buf'[i] = IF i <= Filled + k THEN Expected(i) ELSE <<>>
  <2>1. buf[i] = IF i <= Filled THEN Expected(i) ELSE <<>>
    BY <1>1 DEF ContentInv
  <2>2. Filled \in Nat
    BY <1>2 DEF Filled, Readers
  <2>3. CASE k = 0
    BY <2>1, <2>2, <2>3, <1>2, <1>7
  <2>4. CASE k > 0 /\ i \in n + 1 .. n + k
    <3>1. buf'[i] = <<r, pos[r] + i - n>> /\ i <= Filled + k
      BY <2>4, <1>2, <1>7, <1>11
    <3>2. CASE r = "first"
      BY <3>1, <3>2, <2>4, <1>2, <1>3, <1>9, <1>11 DEF Filled, Expected
    <3>3. CASE r = "next"
      <4>1. pos["next"] = n - size["first"]
        BY <3>3, <2>4, <1>2, <1>10, <1>11 DEF Filled, Readers
      <4>2. pos[r] + i - n = i - size["first"] /\ i > size["first"]
        BY <3>3, <4>1, <2>4, <1>2 DEF Readers
      <4> QED
        BY <3>1, <3>3, <4>2, <1>2 DEF Expected, Readers
    <3> QED
      BY <3>2, <3>3 DEF Readers
  <2>5. CASE k > 0 /\ i \notin n + 1 .. n + k
    BY <2>1, <2>5, <1>2, <1>7, <1>11
  <2> QED
    BY <2>3, <2>4, <2>5, <1>2
<1>13. pos'["next"] > 0 => pos'["first"] = size["first"]
  BY <1>1, <1>2, <1>3, <1>4, <1>9, <1>10 DEF OrderInv, Readers, Types
<1> QED
  BY <1>4, <1>5, <1>6, <1>8, <1>9, <1>12, <1>13

\* An outcome is a record of an answer and a count.
LEMMA AnswerTypes ==
  ASSUME Types, NEW s \in Readers
  PROVE  /\ answer[s] \in Result
         /\ answer[s].ok \in BOOLEAN /\ answer[s].n \in Nat
         /\ answer[s] = [ok |-> answer[s].ok, n |-> answer[s].n]
<1>1. answer[s] \in Result
  BY DEF Types, answer
<1> QED
  BY <1>1, WantFits DEF Result

\* What is not counted yet is a number of bytes.
LEMMA UncountedNat ==
  ASSUME Types, NEW s \in Readers
  PROVE  Uncounted(s) \in Nat
BY AnswerTypes DEF Uncounted

\* The answer of a reader is delivered: whether it turns Chain to its second
\* reader, moves the window, ends read_exact or fails it, the loop's invariant
\* holds, and no count is too large for the window.
LEMMA DeliverKeeps ==
  ASSUME Types, LoopInv, NEW r \in Readers, NEW ok \in BOOLEAN, NEW k \in Nat,
         pc = r, k <= win.len, ok \/ k = 0, Deliver(r, [ok |-> ok, n |-> k]),
         stage' = [stage EXCEPT ![r] = "idle"], size' = size,
         \A s \in Readers : s # r => answer'[s] = answer[s],
         \A s \in Readers : pos'[s] <= size[s],
         pos'["next"] > 0 => pos'["first"] = size["first"],
         \A s \in Readers : s # r => pos'[s] = pos[s],
         k > 0 /\ r = "first" => stage["next"] = "idle",
         stage["next"] # "idle" => pos'["first"] = pos["first"],
         ok /\ k = 0 => pos'[r] = size[r] \/ Want = 0,
         Filled' = n + k + (IF r = "first" THEN Uncounted("next") ELSE 0),
         \A i \in 1 .. Given :
           buf'[i] = IF i <= Filled' THEN Expected(i) ELSE <<>>
  PROVE  /\ LoopInv'
         /\ pc' \in Readers \cup Ended
         /\ n' \in 0 .. Want /\ win' \in Window
         /\ \A i \in 1 .. n' : buf'[i] = Expected(i)
         /\ \A s \in Readers : stage'[s] # "idle" => n' = n
<1> USE TransferAssumption, WantFits
<1>1. Types /\ WindowInv /\ OrderInv /\ ContentInv
  BY DEF LoopInv
<1>2. /\ win = [off |-> n, len |-> Want - n] /\ win.off = n /\ win.len = Want - n
      /\ n \in 0 .. Want /\ n \in Nat /\ Want \in Nat /\ n + k <= Want
      /\ n < Want \/ Want = 0
      /\ stage \in [Readers -> {"idle", "pending", "ready"}]
  BY <1>1, WindowShape DEF stage
<1>3. /\ r = "next" => stage["first"] = "idle" /\ HasNext
      /\ stage["next"] # "idle" => HasNext
  BY <1>1 DEF OrderInv
<1>4. \/ ok /\ k = 0 /\ r = "first" /\ HasNext /\ pc' = "next" /\ n' = n /\ win' = win
      \/ ok /\ ~(k = 0 /\ r = "first" /\ HasNext) /\ n + k = Want
           /\ pc' = "done" /\ n' = n + k /\ win' = win
      \/ ok /\ ~(k = 0 /\ r = "first" /\ HasNext) /\ n + k # Want
           /\ pc' = "first" /\ n' = n + k
           /\ win' = [off |-> n + k, len |-> Want - n - k]
      \/ ~ok /\ k = 0 /\ pc' = "failed" /\ n' = n /\ win' = win
  BY <1>2 DEF Deliver, Advance, loopVars
<1>5. n' \in 0 .. Want /\ win' \in Window /\ pc' \in Readers \cup Ended
  BY <1>2, <1>4 DEF Window, Readers, Ended
<1>6. \A s \in Readers : stage'[s] # "idle" => s # r /\ stage'[s] = stage[s] /\ stage[s] # "idle"
  BY <1>2
<1>7. \A s \in Readers : stage'[s] # "idle" => k = 0 /\ s = "next" /\ r = "first"
  BY <1>3, <1>6 DEF Readers
<1>8. \A s \in Readers : stage'[s] # "idle" => win' = win /\ n' = n
  BY <1>2, <1>4, <1>7
<1>9. WindowInv'
  <2>1. win'.off + win'.len = Want /\ n' \in Nat
    BY <1>2, <1>4
  <2>2. pc' \in Readers \cup {"idle", "nowait"} =>
          win'.off = n' /\ (n' < Want \/ Want = 0)
    <3>1. pc' = "next" \/ pc' = "first" \/ pc' \notin Readers \cup {"idle", "nowait"}
      BY <1>4 DEF Readers
    <3>2. CASE pc' = "next"
      BY <3>2, <1>2, <1>4
    <3>3. CASE pc' = "first"
      BY <3>3, <1>2, <1>4
    <3> QED
      BY <3>1, <3>2, <3>3
  <2>3. ASSUME NEW s \in Readers, stage'[s] # "idle"
        PROVE  win'.off = n' /\ (n' < Want \/ Want = 0)
    BY <2>3, <1>2, <1>8
  <2> QED
    BY <2>1, <2>2, <2>3 DEF WindowInv, Want
<1>10. OrderInv'
  <2>1. stage'[r] = "idle"
    BY <1>2
  <2>2. (pc' = "next" \/ stage'["next"] # "idle") => r = "first" /\ HasNext /\ k = 0
    BY <1>3, <1>4, <1>6, <1>7 DEF Readers
  <2>3. (pc' = "next" \/ stage'["next"] # "idle") => pos'["first"] = size["first"] \/ Want = 0
    <3>1. CASE pc' = "next"
      BY <3>1, <1>4
    <3>2. CASE stage'["next"] # "idle"
      BY <3>2, <1>1, <1>6 DEF OrderInv, Readers
    <3> QED
      BY <3>1, <3>2
  <2>4. (pc' = "next" \/ stage'["next"] # "idle") => Uncounted("first")' = 0
    BY <2>1, <2>2 DEF Uncounted
  <2>5. pc' = "next" => stage'["first"] = "idle"
    BY <2>1, <1>4
  <2>6. pc' = "done" => n' = Want /\ \A s \in Readers : stage'[s] = "idle"
    BY <1>2, <1>3, <1>4, <1>6, <1>7
  <2> QED
    BY <2>2, <2>3, <2>4, <2>5, <2>6 DEF OrderInv, Want
<1>11. ContentInv'
  <2>1. Uncounted("first")' = 0 /\
        Uncounted("next")' = IF r = "first" THEN Uncounted("next") ELSE 0
    <3>1. stage'["first"] = "idle"
      BY <1>2, <1>3 DEF Readers
    <3>2. CASE r = "first"
      <4>1. stage'["next"] = stage["next"] /\ answer'["next"] = answer["next"]
        BY <3>2, <1>2 DEF Readers
      <4> QED
        BY <3>1, <3>2, <4>1 DEF Uncounted
    <3>3. CASE r = "next"
      BY <3>1, <3>3, <1>2 DEF Uncounted, Readers
    <3> QED
      BY <3>2, <3>3 DEF Readers
  <2>2. n' = n + k
    <3>1. n' = n + k \/ (n' = n /\ k = 0)
      BY <1>4
    <3> QED
      BY <3>1, <1>2
  <2>3. Filled' = n' + Uncounted("first")' + Uncounted("next")'
    <3>1. Uncounted("next") \in Nat
      BY UncountedNat DEF Readers
    <3>2. PICK u \in Nat : u = IF r = "first" THEN Uncounted("next") ELSE 0
      BY <3>1
    <3>3. Filled' = n + k + u
      BY <3>2, Zenon
    <3>4. n' + Uncounted("first")' + Uncounted("next")' = n + k + 0 + u
      BY <2>1, <2>2, <3>2, Zenon
    <3>5. n + k + 0 = n + k
      BY <1>2
    <3> QED
      BY <3>3, <3>4, <3>5, Zenon
  <2>4. ASSUME NEW s \in Readers, stage'[s] = "ready"
        PROVE  /\ answer'[s].n <= win'.len
               /\ ~answer'[s].ok => answer'[s].n = 0
               /\ answer'[s].ok /\ answer'[s].n = 0 => pos'[s] = size[s] \/ Want = 0
    <3>1. k = 0 /\ s # r /\ stage[s] = "ready" /\ answer'[s] = answer[s]
      BY <2>4, <1>6, <1>7
    <3>2. win' = win /\ pos'[s] = pos[s]
      BY <2>4, <3>1, <1>8
    <3> QED
      BY <3>1, <3>2, <1>1 DEF ContentInv
  <2> QED
    BY <2>3, <2>4 DEF ContentInv, Want, Expected
<1>12. \A i \in 1 .. n' : buf'[i] = Expected(i)
  <2>1. \E u \in Nat : Filled' = n + k + u
    <3>1. (IF r = "first" THEN Uncounted("next") ELSE 0) \in Nat
      BY UncountedNat DEF Readers
    <3> QED
      BY <3>1
  <2>2. n' <= n + k /\ n' \in Nat
    BY <1>2, <1>4
  <2>3. \A i \in 1 .. n' : i \in 1 .. Given /\ i <= Filled'
    BY <2>1, <2>2, <1>2, <1>5
  <2> QED
    BY <2>3
<1> QED
  BY <1>5, <1>8, <1>9, <1>10, <1>11, <1>12 DEF LoopInv

-----------------------------------------------------------------------------
(***************************************************************************)
(* Every step keeps the invariant.                                         *)
(***************************************************************************)

\* A new read_exact has the whole window before it and nothing in the buffer.
LEMMA InitIInv == Init => IInv
<1> SUFFICES ASSUME Init PROVE Kept
  BY DEF IInv, Kept
<1> USE TransferAssumption, WantFits
<1>1. Types
  <2>1. Failure \in Result /\ Nowhere \in Window /\ win \in Window
    BY DEF Failure, Result, Nowhere, Window, Init
  <2>2. size \in [Readers -> Nat]
    BY DEF Init
  <2> QED
    BY <2>1, <2>2 DEF Init, Types, Places, Readers, Ended, States, IDLE, SCHEDULING, CALLBACK
<1>2. CountedInv
  BY DEF Init, CountedInv
<1>3. WordInv
  BY DEF Init, WordInv, IDLE, READY, CANCELLED_WAIT
<1>4. \A s \in Readers : stage[s] = "idle"
  BY DEF Init, stage
<1>5. WindowInv
  BY <1>4 DEF Init, WindowInv, Readers
<1>6. OrderInv
  BY <1>1, <1>4 DEF Init, Types, OrderInv, Readers
<1>7. ContentInv
  BY <1>4 DEF Init, ContentInv, Filled, Uncounted, Readers
<1> QED
  BY <1>1, <1>2, <1>3, <1>5, <1>6, <1>7 DEF Kept, LoopInv

\* Steps that end with Deliver touch neither the operations nor the other half.
LEMMA HalvesKeep ==
  ASSUME Types, WordInv, CountedInv, NEW r \in Readers, pc = r, op[r] = "none",
         st' = [st EXCEPT ![r] = IDLE],
         UNCHANGED <<size, result, opVars, left>>,
         pos' \in [Readers -> Nat],
         buf' \in [1 .. Given -> (Readers \X Nat) \cup {<<>>}],
         LoopInv', pc' \in Readers \cup Ended, n' \in 0 .. Want, win' \in Window,
         \A i \in 1 .. n' : buf'[i] = Expected(i),
         \A s \in Readers : stage'[s] # "idle" => n' = n
  PROVE  Kept'
<1>1. Types'
  <2>1. st' \in [Readers -> States \ {SCHEDULING, CALLBACK}]
    BY DEF Types, States, IDLE, SCHEDULING, CALLBACK
  <2>2. pc' \in Places
    BY DEF Places
  <2> QED
    BY <2>1, <2>2 DEF Types, Window, Result, Want, opVars
<1>2. CountedInv'
  <2>1. ASSUME NEW s \in Readers, op'[s] = "kernel"
        PROVE  lent'[s].off = n' /\ lent'[s].len = Want - n'
    <3>1. stage'[s] # "idle"
      BY <2>1 DEF stage
    <3> QED
      BY <2>1, <3>1 DEF CountedInv, opVars
  <2> QED
    BY <2>1 DEF CountedInv, Expected, Want
<1>3. WordInv'
  <2>1. \A s \in Readers : st'[s] \in {IDLE, READY} => op'[s] = "none"
    BY DEF WordInv, Types, opVars
  <2>2. \A s \in Readers : st'[s] # CANCELLED_WAIT
    BY DEF WordInv, Types, IDLE, CANCELLED_WAIT
  <2> QED
    BY <2>1, <2>2 DEF WordInv, Readers, Ended
<1> QED
  BY <1>1, <1>2, <1>3 DEF Kept

\* WSARecv completes at once.
LEMMA ReadInlineKeeps ==
  ASSUME Kept, NEW r \in Readers, ReadInline(r)
  PROVE  Kept'
<1> USE TransferAssumption, WantFits
<1>1. pc = r /\ st[r] = IDLE /\ UNCHANGED <<size, st, result, opVars, left>>
  BY DEF ReadInline, schedule
<1>2. Types /\ CountedInv /\ WordInv /\ LoopInv
  BY <1>1 DEF Kept, InUse, Readers
<1>3. WindowInv /\ OrderInv /\ ContentInv
  BY <1>2 DEF LoopInv
<1>4. PICK x \in Outcomes(r, win.len) : Fill(r, x.n, win) /\ Deliver(r, x)
  BY DEF ReadInline
<1>5. PICK ok \in BOOLEAN, k \in Nat :
        /\ x = [ok |-> ok, n |-> k] /\ x.n = k /\ k <= win.len
        /\ pos[r] + k <= size[r] \/ k = 0
        /\ ~ok => k = 0
        /\ ok /\ k = 0 /\ win.len > 0 => pos[r] = size[r]
  <2>1. win.len \in 0 .. Want
    BY <1>2 DEF Types, Window
  <2>2. /\ x.ok \in BOOLEAN /\ x.n \in Nat
        /\ x = [ok |-> x.ok, n |-> x.n]
        /\ x.n <= win.len
        /\ pos[r] + x.n <= size[r] \/ x.n = 0
        /\ ~x.ok => x.n = 0
        /\ x.ok /\ x.n = 0 /\ win.len > 0 => pos[r] = size[r]
    BY <1>2, <2>1, OutcomesFit
  <2> QED
    BY <2>2
<1>6. win = [off |-> n, len |-> Want - n] /\ win.len = Want - n /\ n \in Nat /\ (n < Want \/ Want = 0)
  BY <1>1, <1>2, <1>3, WindowShape
<1>7. op[r] = "none" /\ stage[r] = "idle"
  BY <1>1, <1>2 DEF WordInv, stage, Types
<1>8. stage' = stage /\ answer' = answer
  BY <1>1 DEF stage, answer, opVars
<1>9. stage' = [stage EXCEPT ![r] = "idle"] /\ st' = [st EXCEPT ![r] = IDLE]
  BY <1>1, <1>2, <1>7, <1>8 DEF stage, Types
<1>10. Fill(r, k, [off |-> n, len |-> Want - n]) /\ Deliver(r, [ok |-> ok, n |-> k])
  BY <1>4, <1>5, <1>6
<1>11. /\ buf' \in [1 .. Given -> (Readers \X Nat) \cup {<<>>}]
       /\ pos' \in [Readers -> Nat]
       /\ pos' = [pos EXCEPT ![r] = pos[r] + k]
       /\ \A s \in Readers : pos'[s] <= size[s]
       /\ Filled' = Filled + k
       /\ \A i \in 1 .. Given :
            buf'[i] = IF i <= Filled + k THEN Expected(i) ELSE <<>>
       /\ pos'["next"] > 0 => pos'["first"] = size["first"]
       /\ k > 0 /\ r = "first" => stage["next"] = "idle" /\ pos["next"] = 0
  BY <1>1, <1>2, <1>5, <1>7, <1>10, FillKeeps
<1>12. pos \in [Readers -> Nat] /\ \A s \in Readers : s # r => pos'[s] = pos[s]
  BY <1>2, <1>11 DEF Types
<1>13. stage["next"] # "idle" => pos'["first"] = pos["first"]
  <2>1. CASE r = "next"
    BY <2>1, <1>7
  <2>2. CASE r = "first" /\ k = 0
    BY <2>2, <1>11, <1>12
  <2>3. CASE r = "first" /\ k > 0
    BY <2>3, <1>11
  <2> QED
    BY <2>1, <2>2, <2>3 DEF Readers
<1>14. ok /\ k = 0 => pos'[r] = size[r] \/ Want = 0
  <2>1. SUFFICES ASSUME ok, k = 0, Want # 0 PROVE pos'[r] = size[r]
    OBVIOUS
  <2>2. win.len > 0
    BY <2>1, <1>6
  <2>3. pos'[r] = pos[r] + k /\ pos[r] \in Nat
    BY <1>11, <1>12
  <2> QED
    BY <2>1, <2>2, <2>3, <1>5
<1>15. Filled' = n + k + (IF r = "first" THEN Uncounted("next") ELSE 0)
  <2>1. Uncounted(r) = 0
    BY <1>7 DEF Uncounted
  <2>2. r = "next" => Uncounted("first") = 0
    BY <1>1, <1>3 DEF OrderInv
  <2>3. Uncounted("next") \in Nat /\ Uncounted("first") \in Nat
    BY <1>2, UncountedNat DEF Readers
  <2>4. Filled = n + Uncounted("first") + Uncounted("next")
    BY <1>3 DEF ContentInv
  <2>5. Filled' = Filled + k /\ n \in Nat
    BY <1>6, <1>11
  <2>6. CASE r = "first"
    BY <2>1, <2>3, <2>4, <2>5, <2>6
  <2>7. CASE r = "next"
    BY <2>1, <2>2, <2>3, <2>4, <2>5, <2>7
  <2> QED
    BY <2>6, <2>7 DEF Readers
<1>16. \A i \in 1 .. Given : buf'[i] = IF i <= Filled' THEN Expected(i) ELSE <<>>
  BY <1>11
<1>17. /\ LoopInv' /\ pc' \in Readers \cup Ended
       /\ n' \in 0 .. Want /\ win' \in Window
       /\ \A i \in 1 .. n' : buf'[i] = Expected(i)
       /\ \A s \in Readers : stage'[s] # "idle" => n' = n
  <2>1. ok \/ k = 0
    BY <1>5
  <2>2. size' = size /\ \A s \in Readers : s # r => answer'[s] = answer[s]
    BY <1>1, <1>8
  <2>3. pc = r /\ k <= win.len /\ (k > 0 /\ r = "first" => stage["next"] = "idle")
    BY <1>1, <1>5, <1>11
  <2>4. /\ Deliver(r, [ok |-> ok, n |-> k])
        /\ stage' = [stage EXCEPT ![r] = "idle"]
        /\ \A s \in Readers : pos'[s] <= size[s]
        /\ pos'["next"] > 0 => pos'["first"] = size["first"]
        /\ \A s \in Readers : s # r => pos'[s] = pos[s]
    BY <1>9, <1>10, <1>11, <1>12
  <2> QED
    BY <2>1, <2>2, <2>3, <2>4, <1>2, <1>13, <1>14, <1>15, <1>16, DeliverKeeps, Zenon
<1> QED
  BY <1>1, <1>2, <1>7, <1>9, <1>11, <1>17, HalvesKeep

\* A poll takes what is there: the result in the cell, or a refusal.
LEMMA TakeKeeps ==
  ASSUME Kept, NEW r \in Readers, NEW ok \in BOOLEAN, NEW k \in Nat, pc = r,
         \/ st[r] = READY /\ result[r] = [ok |-> ok, n |-> k]
         \/ st[r] = IDLE /\ ok = FALSE /\ k = 0,
         st' = [st EXCEPT ![r] = IDLE], Deliver(r, [ok |-> ok, n |-> k]),
         UNCHANGED <<dataVars, size, result, opVars, left>>
  PROVE  Kept'
<1> USE TransferAssumption, WantFits
<1>1. Types /\ CountedInv /\ WordInv /\ LoopInv
  BY DEF Kept, InUse, Readers
<1>2. WindowInv /\ OrderInv /\ ContentInv
  BY <1>1 DEF LoopInv
<1>3. pos' = pos /\ buf' = buf /\ size' = size
  BY DEF dataVars
<1>4. op[r] = "none"
  BY <1>1 DEF WordInv
<1>5. /\ k <= win.len
      /\ ok \/ k = 0
      /\ ok /\ k = 0 => pos[r] = size[r] \/ Want = 0
      /\ Uncounted(r) = k
  <2>1. CASE st[r] = IDLE /\ ok = FALSE /\ k = 0
    <3>1. stage[r] = "idle"
      BY <2>1, <1>4 DEF stage
    <3>2. win.len \in Nat
      BY <1>1 DEF Types, Window
    <3> QED
      BY <3>1, <3>2, <2>1 DEF Uncounted
  <2>2. CASE st[r] = READY /\ result[r] = [ok |-> ok, n |-> k]
    <3>1. stage[r] = "ready" /\ answer[r] = [ok |-> ok, n |-> k]
      BY <2>2, <1>4 DEF stage, answer, IDLE, READY
    <3>2. answer[r].ok = ok /\ answer[r].n = k
      BY <3>1
    <3>3. /\ k <= win.len
          /\ ~ok => k = 0
          /\ ok /\ k = 0 => pos[r] = size[r] \/ Want = 0
      BY <3>1, <3>2, <1>2 DEF ContentInv
    <3> QED
      BY <3>1, <3>2, <3>3 DEF Uncounted
  <2> QED
    BY <2>1, <2>2
<1>6. stage' = [stage EXCEPT ![r] = "idle"]
  BY <1>1, <1>4 DEF stage, Types, opVars
<1>7. answer' = answer
  BY DEF answer, opVars
<1>8. Filled = n + k + (IF r = "first" THEN Uncounted("next") ELSE 0)
  <2>1. r = "next" => Uncounted("first") = 0
    BY <1>2 DEF OrderInv
  <2>2. Uncounted("next") \in Nat /\ Uncounted("first") \in Nat /\ n \in Nat
    BY <1>1, UncountedNat DEF Types, Readers
  <2>3. Filled = n + Uncounted("first") + Uncounted("next")
    BY <1>2 DEF ContentInv
  <2>4. CASE r = "first"
    BY <2>2, <2>3, <2>4, <1>5
  <2>5. CASE r = "next"
    BY <2>1, <2>2, <2>3, <2>5, <1>5
  <2> QED
    BY <2>4, <2>5 DEF Readers
<1>9. Filled' = Filled
  BY <1>3 DEF Filled
<1>10. /\ \A s \in Readers : pos'[s] <= size[s]
       /\ pos'["next"] > 0 => pos'["first"] = size["first"]
       /\ \A s \in Readers : s # r => pos'[s] = pos[s]
       /\ stage["next"] # "idle" => pos'["first"] = pos["first"]
       /\ ok /\ k = 0 => pos'[r] = size[r] \/ Want = 0
       /\ \A i \in 1 .. Given : buf'[i] = IF i <= Filled' THEN Expected(i) ELSE <<>>
  BY <1>2, <1>3, <1>5, <1>9 DEF OrderInv, ContentInv
<1>11. k > 0 /\ r = "first" => stage["next"] = "idle"
  BY <1>2, <1>5 DEF OrderInv
<1>12. Filled' = n + k + (IF r = "first" THEN Uncounted("next") ELSE 0)
  BY <1>8, <1>9
<1>13. \A s \in Readers : s # r => answer'[s] = answer[s]
  BY <1>7
<1>14. /\ LoopInv' /\ pc' \in Readers \cup Ended
       /\ n' \in 0 .. Want /\ win' \in Window
       /\ \A i \in 1 .. n' : buf'[i] = Expected(i)
       /\ \A s \in Readers : stage'[s] # "idle" => n' = n
  <2>1. k <= win.len /\ (ok \/ k = 0)
    BY <1>5
  <2> QED
    BY <2>1, <1>1, <1>3, <1>6, <1>10, <1>11, <1>12, <1>13, DeliverKeeps, Zenon
<1>15. /\ pos' \in [Readers -> Nat]
       /\ buf' \in [1 .. Given -> (Readers \X Nat) \cup {<<>>}]
  BY <1>1, <1>3 DEF Types
<1> QED
  BY <1>1, <1>4, <1>14, <1>15, HalvesKeep

\* The result of an operation that has ended is taken.
LEMMA ReadCollectKeeps ==
  ASSUME Kept, NEW r \in Readers, ReadCollect(r)
  PROVE  Kept'
<1>1. /\ pc = r /\ st[r] = READY /\ st' = [st EXCEPT ![r] = IDLE]
      /\ Deliver(r, result[r]) /\ UNCHANGED <<dataVars, size, result, opVars, left>>
  BY DEF ReadCollect, finish, lateVars
<1>2. PICK ok \in BOOLEAN, k \in Nat : result[r] = [ok |-> ok, n |-> k]
  <2>1. result[r] \in Result
    BY DEF Kept, Types
  <2> QED
    BY <2>1, WantFits DEF Result
<1>3. Deliver(r, [ok |-> ok, n |-> k])
  BY <1>1, <1>2
<1> QED
  BY <1>1, <1>2, <1>3, TakeKeeps

\* WSARecv refuses.
LEMMA ReadRefusedKeeps ==
  ASSUME Kept, NEW r \in Readers, ReadRefused(r)
  PROVE  Kept'
<1>1. /\ pc = r /\ st[r] = IDLE /\ st' = st
      /\ Deliver(r, Failure) /\ UNCHANGED <<dataVars, size, result, opVars, left>>
  BY DEF ReadRefused, schedule, lateVars
<1>2. st' = [st EXCEPT ![r] = IDLE]
  BY <1>1 DEF Kept, Types
<1>3. Deliver(r, [ok |-> FALSE, n |-> 0])
  BY <1>1 DEF Failure
<1> QED
  BY <1>1, <1>2, <1>3, TakeKeeps

\* Steps after which the loop is where it was, every reader at the stage and
\* with the answer that it had.
LEMMA SameLoop ==
  ASSUME LoopInv, UNCHANGED <<n, win, buf, pos, size, stage>>,
         \A s \in Readers : stage[s] = "ready" => answer'[s] = answer[s],
         \/ pc' = pc
         \/ pc' = "first" /\ pc = "idle"
         \/ pc' = "idle" /\ pc \in Readers \cup {"nowait"}
         \/ pc' = "nowait" /\ pc = "idle"
         \/ pc' = "wait"
  PROVE  LoopInv'
<1>1. WindowInv /\ OrderInv /\ ContentInv
  BY DEF LoopInv
<1>2. \A s \in Readers : Uncounted(s)' = Uncounted(s)
  BY DEF Uncounted
<1>3. Filled' = Filled
  BY DEF Filled
<1>4. WindowInv'
  BY <1>1 DEF WindowInv, Readers, Want
<1>5. OrderInv'
  BY <1>1, <1>2 DEF OrderInv, Readers, Want
<1>6. ContentInv'
  BY <1>1, <1>2, <1>3 DEF ContentInv, Readers, Want, Expected
<1> QED
  BY <1>4, <1>5, <1>6 DEF LoopInv

\* WSARecv goes pending, with the window.
LEMMA ReadPendingKeeps ==
  ASSUME Kept, NEW r \in Readers, ReadPending(r)
  PROVE  Kept'
<1> USE WantFits
<1>1. /\ pc = r /\ pc' = "idle" /\ st[r] = IDLE /\ st' = [st EXCEPT ![r] = PENDING]
      /\ op' = [op EXCEPT ![r] = "kernel"] /\ lent' = [lent EXCEPT ![r] = win]
      /\ UNCHANGED <<n, win, buf, pos, size, result, out>>
  BY DEF ReadPending, schedule, loopVars, dataVars
<1>2. Types /\ CountedInv /\ WordInv /\ LoopInv
  BY <1>1 DEF Kept, InUse, Readers
<1>3. WindowInv /\ OrderInv /\ ContentInv
  BY <1>2 DEF LoopInv
<1>4. op[r] = "none" /\ stage[r] = "idle"
  BY <1>1, <1>2 DEF WordInv, stage
<1>5. left' = left
  BY <1>4 DEF ReadPending
<1>6. /\ win.off = n /\ win.len = Want - n
      /\ op \in [Readers -> {"none", "kernel", "packet"}]
      /\ st \in [Readers -> States \ {SCHEDULING, CALLBACK}]
      /\ lent \in [Readers -> Window]
  BY <1>1, <1>2, <1>3, WindowShape DEF Types
<1>7. Types'
  <2>1. st' \in [Readers -> States \ {SCHEDULING, CALLBACK}]
    BY <1>1, <1>6 DEF States, PENDING, SCHEDULING, CALLBACK
  <2>2. lent' \in [Readers -> Window] /\ op' \in [Readers -> {"none", "kernel", "packet"}]
    BY <1>1, <1>2, <1>6 DEF Types
  <2>3. pc' \in Places
    BY <1>1 DEF Places
  <2> QED
    BY <2>1, <2>2, <2>3, <1>1, <1>2, <1>5 DEF Types, Window, Result, Want
<1>8. CountedInv'
  <2>1. \A s \in Readers : op'[s] = "kernel" => lent'[s].off = n /\ lent'[s].len = Want - n
    BY <1>1, <1>2, <1>6 DEF CountedInv
  <2> QED
    BY <2>1, <1>1, <1>2 DEF CountedInv, Want, Expected
<1>9. WordInv'
  BY <1>1, <1>2, <1>6 DEF WordInv, IDLE, READY, PENDING, CANCELLED_WAIT
<1>10. stage' = [stage EXCEPT ![r] = "pending"]
  BY <1>1, <1>6 DEF stage
<1>11. \A s \in Readers : stage'[s] = "ready" => stage[s] = "ready" /\ answer'[s] = answer[s]
  BY <1>1, <1>6, <1>10 DEF stage, answer
<1>12. \A s \in Readers : Uncounted(s)' = Uncounted(s)
  <2>1. ASSUME NEW s \in Readers PROVE Uncounted(s)' = Uncounted(s)
    <3>1. CASE s = r
      BY <3>1, <1>4, <1>10 DEF Uncounted, stage
    <3>2. CASE s # r
      BY <3>2, <1>10, <1>11 DEF Uncounted, stage
    <3> QED
      BY <3>1, <3>2
  <2> QED
    BY <2>1
<1>13. \A s \in Readers : s # r => stage'[s] = stage[s]
  BY <1>10 DEF stage
<1>14. WindowInv'
  BY <1>1, <1>3, <1>13 DEF WindowInv, Want, Readers
<1>15. OrderInv'
  <2>1. stage'["next"] # "idle" => pc = "next" \/ stage["next"] # "idle"
    BY <1>1, <1>13 DEF Readers
  <2> QED
    BY <2>1, <1>1, <1>3, <1>12 DEF OrderInv, Want, Readers
<1>16. ContentInv'
  <2>1. Filled' = Filled
    BY <1>1 DEF Filled
  <2> QED
    BY <2>1, <1>1, <1>3, <1>11, <1>12 DEF ContentInv, Want, Expected, Readers
<1> QED
  BY <1>7, <1>8, <1>9, <1>14, <1>15, <1>16 DEF Kept, LoopInv

\* An operation ends: it writes to the rest of the buffer, behind what is
\* counted, whether or not the future is still there.
LEMMA FinishTypes ==
  ASSUME Kept, NEW r \in Readers, NEW x, x \in Outcomes(r, lent[r].len), op[r] = "kernel",
         Fill(r, x.n, lent[r]), out' = [out EXCEPT ![r] = x],
         lent' = [lent EXCEPT ![r] = Nowhere], op' = [op EXCEPT ![r] = "packet"],
         UNCHANGED <<pc, n, win, size, st, result, left>>
  PROVE  /\ Types' /\ CountedInv'
         /\ lent[r] = [off |-> n, len |-> Want - n]
<1> USE TransferAssumption, WantFits
<1>1. Types /\ CountedInv
  BY DEF Kept
<1>2. /\ lent[r] \in Window /\ lent[r].off = n /\ lent[r].len = Want - n
      /\ lent[r] = [off |-> n, len |-> Want - n] /\ lent[r].len \in 0 .. Want
  BY <1>1 DEF CountedInv, Types, Window
<1>3. x \in Result /\ x.n \in Nat /\ x.n <= lent[r].len
  BY <1>1, <1>2, OutcomesFit
<1>4. PICK k \in Nat : k = x.n
  BY <1>3
<1>5. /\ n \in Nat /\ n <= Given /\ pos[r] \in Nat /\ pos \in [Readers -> Nat]
      /\ buf \in [1 .. Given -> (Readers \X Nat) \cup {<<>>}]
  BY <1>1 DEF Types
<1>6. /\ buf' = [i \in 1 .. Given |->
           IF i \in n + 1 .. n + k THEN <<r, pos[r] + i - n>> ELSE buf[i]]
      /\ pos' = [pos EXCEPT ![r] = pos[r] + k]
  BY <1>2, <1>4, <1>5 DEF Fill
<1>7. Types'
  <2>1. pos' \in [Readers -> Nat]
    BY <1>5, <1>6
  <2>2. buf' \in [1 .. Given -> (Readers \X Nat) \cup {<<>>}]
    <3>1. ASSUME NEW i \in 1 .. Given, i \in n + 1 .. n + k
          PROVE  pos[r] + i - n \in Nat
      BY <3>1, <1>5
    <3> QED
      BY <3>1, <1>5, <1>6
  <2>3. Nowhere \in Window
    BY DEF Nowhere, Window
  <2>4. /\ out' \in [Readers -> Result] /\ lent' \in [Readers -> Window]
        /\ op' \in [Readers -> {"none", "kernel", "packet"}]
    BY <2>3, <1>1, <1>3 DEF Types
  <2> QED
    BY <2>1, <2>2, <2>4, <1>1 DEF Types, Window, Result, Want
<1>8. CountedInv'
  <2>1. \A i \in 1 .. n : i \in 1 .. Given /\ i \notin n + 1 .. n + k
    BY <1>5
  <2>2. \A i \in 1 .. n : buf'[i] = buf[i]
    BY <2>1, <1>6
  <2>3. \A s \in Readers : op'[s] = "kernel" => op[s] = "kernel" /\ lent'[s] = lent[s]
    BY <1>1 DEF Types
  <2> QED
    BY <2>2, <2>3, <1>1 DEF CountedInv, Expected, Want
<1> QED
  BY <1>2, <1>7, <1>8

\* The end of an operation keeps the invariant.
LEMMA FinishKeeps ==
  ASSUME Kept, NEW r \in Readers, Finish(r)
  PROVE  Kept'
<1> USE TransferAssumption, WantFits
<1>1. PICK x : /\ x \in Outcomes(r, lent[r].len)
               /\ Fill(r, x.n, lent[r])
               /\ out' = [out EXCEPT ![r] = x]
  BY DEF Finish
<1>2. /\ op[r] = "kernel" /\ op' = [op EXCEPT ![r] = "packet"]
      /\ lent' = [lent EXCEPT ![r] = Nowhere]
      /\ UNCHANGED <<pc, n, win, size, st, result, left>>
  BY DEF Finish, loopVars, lateVars
<1>3. /\ Types' /\ CountedInv' /\ lent[r] = [off |-> n, len |-> Want - n]
  BY <1>1, <1>2, FinishTypes
<1>4. SUFFICES ASSUME InUse, Types, CountedInv, WordInv, LoopInv
               PROVE  WordInv' /\ LoopInv'
  BY <1>2, <1>3 DEF Kept, InUse
<1>5. WindowInv /\ OrderInv /\ ContentInv
  BY <1>4 DEF LoopInv
<1>6. WordInv'
  BY <1>2, <1>4 DEF WordInv, Types
<1>7. stage[r] = "pending" /\ stage' = [stage EXCEPT ![r] = "ready"]
  BY <1>2, <1>4 DEF stage, Types
<1>8. answer' = [answer EXCEPT ![r] = x]
  BY <1>1, <1>2, <1>4 DEF answer, Types
<1>9. /\ win = [off |-> n, len |-> Want - n] /\ win.off = n /\ win.len = Want - n
      /\ n \in Nat /\ (n < Want \/ Want = 0)
  BY <1>4, <1>5, <1>7, WindowShape
<1>10. PICK ok \in BOOLEAN, k \in Nat :
        /\ x = [ok |-> ok, n |-> k] /\ k <= win.len
        /\ pos[r] + k <= size[r] \/ k = 0
        /\ ~ok => k = 0
        /\ ok /\ k = 0 /\ win.len > 0 => pos[r] = size[r]
  <2>1. lent[r].len = win.len /\ lent[r].len \in 0 .. Want
    BY <1>3, <1>9, <1>4 DEF Types
  <2>2. /\ x.ok \in BOOLEAN /\ x.n \in Nat
        /\ x = [ok |-> x.ok, n |-> x.n]
        /\ x.n <= win.len
        /\ pos[r] + x.n <= size[r] \/ x.n = 0
        /\ ~x.ok => x.n = 0
        /\ x.ok /\ x.n = 0 /\ win.len > 0 => pos[r] = size[r]
    BY <1>1, <1>4, <2>1, OutcomesFit
  <2> QED
    BY <2>2
<1>11. /\ pos' = [pos EXCEPT ![r] = pos[r] + k]
       /\ \A s \in Readers : pos'[s] <= size[s]
       /\ Filled' = Filled + k
       /\ \A i \in 1 .. Given :
            buf'[i] = IF i <= Filled + k THEN Expected(i) ELSE <<>>
       /\ pos'["next"] > 0 => pos'["first"] = size["first"]
       /\ k > 0 /\ r = "first" => stage["next"] = "idle" /\ pos["next"] = 0
  <2>1. Fill(r, k, [off |-> n, len |-> Want - n])
    BY <1>1, <1>3, <1>10
  <2> QED
    BY <2>1, <1>2, <1>4, <1>7, <1>10, FillKeeps
<1>12. /\ pos \in [Readers -> Nat] /\ \A s \in Readers : s # r => pos'[s] = pos[s]
       /\ \A s \in Readers : s # r => stage'[s] = stage[s] /\ answer'[s] = answer[s]
       /\ stage'[r] = "ready" /\ answer'[r] = [ok |-> ok, n |-> k]
  BY <1>4, <1>7, <1>8, <1>10, <1>11 DEF Types, stage, answer
<1>13. /\ Uncounted(r)' = k /\ Uncounted(r) = 0
       /\ \A s \in Readers : s # r => Uncounted(s)' = Uncounted(s)
  <2>1. Uncounted(r)' = k
    BY <1>10, <1>12 DEF Uncounted
  <2>2. Uncounted(r) = 0
    BY <1>7 DEF Uncounted
  <2>3. \A s \in Readers : s # r => Uncounted(s)' = Uncounted(s)
    BY <1>12 DEF Uncounted
  <2> QED
    BY <2>1, <2>2, <2>3
<1>14. WindowInv'
  <2>1. win' = win /\ n' = n /\ pc' = pc
    BY <1>2
  <2> QED
    BY <2>1, <1>5, <1>9 DEF WindowInv, Want
<1>15. OrderInv'
  <2>1. pc # "done" /\ ~(pc = "next" /\ r = "first")
    BY <1>5, <1>7 DEF OrderInv
  <2>2. pc = "next" => stage'["first"] = "idle"
    BY <2>1, <1>5, <1>12 DEF OrderInv, Readers
  <2>3. ASSUME pc = "next" \/ stage'["next"] # "idle"
        PROVE  HasNext /\ (pos'["first"] = size["first"] \/ Want = 0) /\ Uncounted("first")' = 0
    <3>1. pc = "next" \/ stage["next"] # "idle"
      BY <2>3, <1>7, <1>12 DEF Readers
    <3>2. HasNext /\ (pos["first"] = size["first"] \/ Want = 0) /\ Uncounted("first") = 0
      BY <3>1, <1>5 DEF OrderInv
    <3>3. CASE r = "next"
      BY <3>2, <3>3, <1>12, <1>13 DEF Readers
    <3>4. CASE r = "first"
      <4>1. k = 0
        BY <3>1, <3>4, <2>1, <1>10, <1>11
      <4>2. pos'["first"] = pos["first"]
        BY <4>1, <3>4, <1>11, <1>12
      <4> QED
        BY <4>1, <4>2, <3>2, <3>4, <1>13
    <3> QED
      BY <3>3, <3>4 DEF Readers
  <2> QED
    BY <2>1, <2>2, <2>3, <1>2, <1>11 DEF OrderInv, Want, Readers
<1>16. ContentInv'
  <2>1. Filled' = n' + Uncounted("first")' + Uncounted("next")'
    <3>1. Filled = n + Uncounted("first") + Uncounted("next")
      BY <1>5 DEF ContentInv
    <3>2. Filled' = Filled + k /\ n' = n
      BY <1>2, <1>11
    <3>3. Uncounted("first") \in Nat /\ Uncounted("next") \in Nat
      BY <1>4, UncountedNat DEF Readers
    <3>4. CASE r = "first"
      <4>1. PICK u \in Nat : u = Uncounted("next")
        BY <3>3
      <4>2. /\ Uncounted("first") = 0 /\ Uncounted("first")' = k
            /\ Uncounted("next")' = u
        BY <3>4, <4>1, <1>13 DEF Readers
      <4>3. Filled' = n + 0 + u + k /\ n' + Uncounted("first")' + Uncounted("next")' = n + k + u
        BY <3>1, <3>2, <4>1, <4>2, Zenon
      <4> QED
        BY <4>1, <4>3, <1>9
    <3>5. CASE r = "next"
      <4>1. PICK u \in Nat : u = Uncounted("first")
        BY <3>3
      <4>2. /\ Uncounted("next") = 0 /\ Uncounted("next")' = k
            /\ Uncounted("first")' = u
        BY <3>5, <4>1, <1>13 DEF Readers
      <4>3. Filled' = n + u + 0 + k /\ n' + Uncounted("first")' + Uncounted("next")' = n + u + k
        BY <3>1, <3>2, <4>1, <4>2, Zenon
      <4> QED
        BY <4>1, <4>3, <1>9
    <3> QED
      BY <3>4, <3>5 DEF Readers
  <2>2. ASSUME NEW s \in Readers, stage'[s] = "ready"
        PROVE  /\ answer'[s].n <= win'.len
               /\ ~answer'[s].ok => answer'[s].n = 0
               /\ answer'[s].ok /\ answer'[s].n = 0 => pos'[s] = size[s] \/ Want = 0
    <3>1. CASE s = r
      <4>1. /\ answer'[s].ok = ok /\ answer'[s].n = k
            /\ pos'[s] = pos[s] + k /\ pos[s] \in Nat
        BY <3>1, <1>11, <1>12
      <4>2. k = 0 /\ Want # 0 => win.len > 0
        BY <1>9
      <4> QED
        BY <3>1, <4>1, <4>2, <1>2, <1>10
    <3>2. CASE s # r
      BY <2>2, <3>2, <1>2, <1>5, <1>12 DEF ContentInv
    <3> QED
      BY <3>1, <3>2
  <2> QED
    BY <2>1, <2>2, <1>2, <1>11 DEF ContentInv, Want, Expected
<1> QED
  BY <1>6, <1>14, <1>15, <1>16 DEF LoopInv

\* The callback brings the outcome from the packet to the cell; while the drop
\* waits it only says that it is over.
LEMMA CallbackKeeps ==
  ASSUME Kept, NEW r \in Readers, Callback(r)
  PROVE  Kept'
<1>1. /\ op[r] = "packet" /\ op' = [op EXCEPT ![r] = "none"]
      /\ out' = [out EXCEPT ![r] = Failure] /\ Publish(r, out[r])
      /\ UNCHANGED <<pc, n, win, buf, pos, size, lent, left>>
  BY DEF Callback, loopVars, dataVars, lateVars
<1>2. Types /\ CountedInv
  BY DEF Kept
<1>3. /\ st' = st \/ st' = [st EXCEPT ![r] = READY]
      /\ result' = result \/ result' = [result EXCEPT ![r] = out[r]]
  BY <1>1 DEF Publish
<1>4. Types'
  <2>1. Failure \in Result
    BY WantFits DEF Failure, Result
  <2>2. st' \in [Readers -> States \ {SCHEDULING, CALLBACK}]
    BY <1>2, <1>3 DEF Types, States, READY, SCHEDULING, CALLBACK
  <2>3. /\ result' \in [Readers -> Result] /\ out' \in [Readers -> Result]
        /\ op' \in [Readers -> {"none", "kernel", "packet"}]
    BY <2>1, <1>1, <1>2, <1>3 DEF Types
  <2> QED
    BY <2>2, <2>3, <1>1, <1>2 DEF Types, Window, Result, Want
<1>5. CountedInv'
  <2>1. \A s \in Readers : op'[s] = "kernel" => op[s] = "kernel"
    BY <1>1, <1>2 DEF Types
  <2> QED
    BY <2>1, <1>1, <1>2 DEF CountedInv, Expected, Want
<1>6. ASSUME InUse PROVE WordInv' /\ LoopInv'
  <2>1. WordInv /\ LoopInv
    BY <1>6 DEF Kept
  <2>2. st[r] \notin {IDLE, READY, CANCELLED_WAIT}
    BY <2>1, <1>1 DEF WordInv
  <2>3. st' = [st EXCEPT ![r] = READY] /\ result' = [result EXCEPT ![r] = out[r]]
    BY <2>2, <1>1 DEF Publish, callback_cancelled_wait
  <2>4. WordInv'
    BY <2>1, <2>3, <1>1, <1>2 DEF WordInv, Types, IDLE, READY, CANCELLED_WAIT
  <2>5. stage' = stage
    BY <2>2, <2>3, <1>1, <1>2 DEF stage, Types, IDLE, READY
  <2>6. answer' = answer
    BY <2>3, <1>1, <1>2 DEF answer, Types
  <2> QED
    BY <2>1, <2>4, <2>5, <2>6, <1>1, SameLoop
<1> QED
  BY <1>1, <1>4, <1>5, <1>6 DEF Kept, InUse

\* A late packet that claims nothing is lost, or is taken for the end that the
\* drop waits for.
LEMMA CallbackLateKeeps ==
  ASSUME Kept, NEW r \in Readers, CallbackLate(r), NoStray'
  PROVE  Kept'
<1>1. PICK x : Publish(r, x)
  BY DEF CallbackLate
<1>2. /\ ~Claims(r)
      /\ UNCHANGED <<pc, n, win, buf, pos, size, op, lent, out, left>>
  BY DEF CallbackLate, NoStray, loopVars, dataVars, opVars
<1>3. /\ result' = result
      /\ \/ st' = st
         \/ st[r] = CANCELLED_WAIT /\ st' = [st EXCEPT ![r] = READY]
  BY <1>1, <1>2 DEF Publish, callback_cancelled_wait
<1>4. Types /\ CountedInv
  BY DEF Kept
<1>5. Types'
  <2>1. st' \in [Readers -> States \ {SCHEDULING, CALLBACK}]
    BY <1>3, <1>4 DEF Types, States, READY, SCHEDULING, CALLBACK
  <2> QED
    BY <2>1, <1>2, <1>3, <1>4 DEF Types, Window, Result, Want
<1>6. CountedInv'
  BY <1>2, <1>4 DEF CountedInv, Expected, Want
<1>7. ASSUME InUse PROVE WordInv' /\ LoopInv'
  <2>1. WordInv /\ LoopInv
    BY <1>7 DEF Kept
  <2>2. st' = st
    BY <2>1, <1>3 DEF WordInv
  <2>3. WordInv'
    BY <2>1, <2>2, <1>2 DEF WordInv
  <2>4. stage' = stage /\ answer' = answer
    BY <2>2, <1>2, <1>3 DEF stage, answer
  <2> QED
    BY <2>1, <2>3, <2>4, <1>2, SameLoop
<1> QED
  BY <1>2, <1>5, <1>6, <1>7 DEF Kept, InUse

\* No operation is on its own before a stray packet made the half forget it.
LEMMA NothingLeft ==
  ASSUME Kept, NEW r \in Readers
  PROVE  ~FinishLeft(r)
<1>1. left[r] = EmptyBag
  BY DEF Kept, Types
<1>2. BagToSet(left[r]) = {}
  BY <1>1 DEF BagToSet, EmptyBag, SetToBag
<1> QED
  BY <1>2 DEF FinishLeft

\* cancel swaps the state word, whatever it has become since the check.
LEMMA CancelSwapKeeps ==
  ASSUME Kept, CancelSwap
  PROVE  Kept'
<1>1. /\ pc \in {"nowait", "wait"} /\ pc' = IF pc = "wait" THEN "spin" ELSE "idle"
      /\ st' = [st EXCEPT !["first"] = cancelled(pc = "wait")]
      /\ UNCHANGED <<n, win, buf, pos, size, result, op, lent, out, left>>
  BY DEF CancelSwap, Cancelled, chained, loopVars, dataVars, opVars, lateVars
<1>2. Types /\ CountedInv /\ WordInv /\ LoopInv
  BY <1>1 DEF Kept, InUse
<1>3. Types'
  <2>1. st' \in [Readers -> States \ {SCHEDULING, CALLBACK}]
    BY <1>1, <1>2 DEF Types, cancelled, States, CANCELLED_WAIT, CANCELLED_NOWAIT,
                      SCHEDULING, CALLBACK
  <2>2. pc' \in Places
    BY <1>1 DEF Places
  <2> QED
    BY <2>1, <2>2, <1>1, <1>2 DEF Types, Window, Result, Want
<1>4. CountedInv'
  BY <1>1, <1>2 DEF CountedInv, Expected, Want
<1>5. ASSUME InUse' PROVE WordInv' /\ LoopInv'
  <2>1. pc = "nowait" /\ pc' = "idle" /\ st' = [st EXCEPT !["first"] = CANCELLED_NOWAIT]
    BY <1>1, <1>5 DEF InUse, cancelled
  <2>2. st["first"] # IDLE
    BY <2>1, <1>2 DEF WordInv
  <2>3. WordInv'
    BY <2>1, <1>1, <1>2 DEF WordInv, Types, IDLE, READY, CANCELLED_NOWAIT, CANCELLED_WAIT
  <2>4. stage' = stage
    BY <2>1, <2>2, <1>1, <1>2 DEF stage, Types, Readers, IDLE, CANCELLED_NOWAIT
  <2>5. answer' = answer
    BY <1>1 DEF answer
  <2> QED
    BY <2>1, <2>3, <2>4, <2>5, <1>1, <1>2, SameLoop
<1> QED
  BY <1>3, <1>4, <1>5 DEF Kept

\* Polling, a poll that finds the half busy, the check of cancel and the end of
\* the drop move only pc.
LEMMA PcKeeps ==
  ASSUME Kept, Poll \/ Cancel \/ Drop \/ CancelWait \/ \E r \in Readers : ReadBusy(r)
  PROVE  Kept'
<1>1. UNCHANGED <<n, win, buf, pos, size, st, result, op, lent, out, left>>
  BY DEF Poll, Cancel, Drop, CancelWait, ReadBusy, loopVars, dataVars, opVars, lateVars
<1>2. \/ pc = "idle" /\ pc' = "first"
      \/ pc \in Readers /\ pc' = "idle"
      \/ pc = "idle" /\ pc' = "nowait" /\ st["first"] = PENDING
      \/ pc \in {"idle"} \cup Ended /\ pc' = "wait" /\ st["first"] = PENDING
      \/ pc' = "dropped"
  BY DEF Poll, Cancel, Drop, CancelWait, ReadBusy, chained, Cancelled, is_cancellable, Readers
<1>3. Types'
  <2>1. pc' \in Places
    BY <1>2 DEF Places, Readers
  <2> QED
    BY <2>1, <1>1 DEF Kept, Types, Window, Result, Want
<1>4. CountedInv'
  BY <1>1 DEF Kept, CountedInv, Expected, Want
<1>5. ASSUME InUse' PROVE WordInv' /\ LoopInv'
  <2>1. WordInv /\ LoopInv
    BY <1>2, <1>5 DEF Kept, InUse, Readers, Ended
  <2>2. WordInv'
    <3>1. pc' \in {"nowait", "wait"} => st'["first"] # IDLE
      BY <1>1, <1>2, <1>5 DEF Readers, InUse, IDLE, PENDING
    <3> QED
      BY <3>1, <2>1, <1>1 DEF WordInv
  <2>3. stage' = stage /\ answer' = answer
    BY <1>1 DEF stage, answer
  <2> QED
    BY <2>1, <2>2, <2>3, <1>1, <1>2, <1>5, SameLoop DEF InUse
<1> QED
  BY <1>3, <1>4, <1>5 DEF Kept

\* Every step of the specification keeps the invariant.
LEMMA NextKeeps == IInv /\ [Next]_vars => IInv'
<1> SUFFICES ASSUME IInv, [Next]_vars, NoStray' PROVE Kept'
  BY DEF IInv
<1>1. NoStray
  BY DEF NoStray, Next, PollStep, Poll, ReadCollect, ReadInline, ReadRefused, ReadPending,
         ReadBusy, Cancel, Drop, CancelSwap, CancelWait, Finish, FinishLeft, Callback,
         CallbackLate, vars
<1>2. Kept
  BY <1>1 DEF IInv
<1>3. CASE UNCHANGED vars
  <2>1. UNCHANGED <<pc, n, win, buf, pos, size, st, result, op, lent, out, left>>
    BY <1>3 DEF vars
  <2>2. Types' /\ CountedInv'
    BY <2>1, <1>2 DEF Kept, Types, CountedInv, Window, Result, Expected, Want
  <2>3. ASSUME InUse PROVE WordInv' /\ LoopInv'
    <3>1. WordInv /\ LoopInv
      BY <2>3, <1>2 DEF Kept
    <3>2. stage' = stage /\ answer' = answer
      BY <2>1 DEF stage, answer
    <3>3. WordInv'
      BY <3>1, <2>1 DEF WordInv
    <3> QED
      BY <3>1, <3>2, <3>3, <2>1, SameLoop
  <2> QED
    BY <2>1, <2>2, <2>3 DEF Kept, InUse
<1>4. ASSUME NEW r \in Readers,
             ReadCollect(r) \/ ReadInline(r) \/ ReadRefused(r) \/ ReadPending(r)
               \/ Finish(r) \/ FinishLeft(r) \/ Callback(r) \/ CallbackLate(r)
      PROVE  Kept'
  BY <1>2, <1>4, ReadCollectKeeps, ReadInlineKeeps, ReadRefusedKeeps, ReadPendingKeeps,
     FinishKeeps, NothingLeft, CallbackKeeps, CallbackLateKeeps
<1>5. CASE Poll \/ Cancel \/ Drop \/ CancelWait \/ \E r \in Readers : ReadBusy(r)
  BY <1>2, <1>5, PcKeeps
<1>6. CASE CancelSwap
  BY <1>2, <1>6, CancelSwapKeeps
<1> QED
  BY <1>3, <1>4, <1>5, <1>6 DEF Next, PollStep

\* The inductive invariant holds of every behaviour.
LEMMA Invariance == Spec => []IInv
BY InitIInv, NextKeeps, PTL DEF Spec

-----------------------------------------------------------------------------
(***************************************************************************)
(* The theorems.                                                           *)
(***************************************************************************)

\* ReadExact::poll over Chain::poll_read and IoHandle::poll, for every buffer,
\* all streams and any number of late packets: the bytes it has counted are
\* those of the stream, in order, until a packet is taken for another's.
THEOREM ReceivedInOrderHolds == Spec => []ReceivedInOrder
<1>1. IInv => ReceivedInOrder
  BY DEF IInv, Kept, CountedInv, ReceivedInOrder
<1> QED
  BY <1>1, Invariance, PTL

\* ReadExact::poll answers Ready(Ok) only when as much of the buffer is full as
\* its length `as u32` says, and with no operation left on it, until a packet is
\* taken for another's.
THEOREM DoneMeansFullHolds == Spec => []DoneMeansFull
<1>1. IInv => DoneMeansFull
  <2> SUFFICES ASSUME IInv, NoStray, pc = "done"
               PROVE  /\ \A i \in 1 .. Given : buf[i] # <<>> <=> i <= Want
                      /\ \A r \in Readers : op[r] # "kernel"
    BY DEF DoneMeansFull
  <2>1. Types /\ OrderInv /\ ContentInv
    BY DEF IInv, Kept, InUse, LoopInv
  <2>2. n = Want /\ \A r \in Readers : stage[r] = "idle"
    BY <2>1 DEF OrderInv
  <2>3. \A r \in Readers : op[r] # "kernel"
    BY <2>2 DEF stage
  <2>4. Filled = Want
    BY <2>1, <2>2, WantFits DEF ContentInv, Uncounted, Readers
  <2>5. \A i \in Nat : Expected(i) # <<>>
    BY DEF Expected
  <2> QED
    BY <2>1, <2>3, <2>4, <2>5, TransferAssumption DEF ContentInv
<1> QED
  BY <1>1, Invariance, PTL

\* `self.read.buf.buf.len -= n as u32` of ReadExact::poll never goes below zero,
\* until a packet is taken for another's.
THEOREM CountFitsHolds == Spec => []CountFits
<1>1. IInv => CountFits
  BY DEF IInv, Kept, Types, Places, Readers, Ended, CountFits
<1> QED
  BY <1>1, Invariance, PTL

=============================================================================
