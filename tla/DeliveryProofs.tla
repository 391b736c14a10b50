--------------------------- MODULE DeliveryProofs ---------------------------
(* For every batch, slice size, retry budget and number of late requests: a  *)
(* delivery decides every record, or stops at one that cannot be serialised, *)
(* within its budget of requests; what the sender was told was accepted is   *)
(* in the table; and the table keeps the promise of EventTable.              *)
EXTENDS Delivery, SequenceTheorems, WellFoundedInduction, TLAPS

(* A slice that is sent holds pending records, as many as a slice may.      *)
SliceShape ==
    delivering \in {"post", "wait", "rejected"} =>
        /\ slice \in 1 .. (batch - done)
        /\ slice <= maxBatchSize

(* The requests so far: one retry budget per decided record and halving,    *)
(* and the retries of the slice under way.                                  *)
Spent == IF delivering \in {"post", "wait", "rejected"} THEN attempt ELSE 0

WithinBudget ==
    /\ delivering = "wait" => attempt > 0
    /\ Log2[maxBatchSize] <= Log2[configuredMaxBatchSize]
    /\ posts <= (RETRY_COUNT + 1)
                  * (done + (Log2[configuredMaxBatchSize] - Log2[maxBatchSize])) + Spent

SendInv == TypeOK /\ SliceShape /\ EveryRecordDecided

---------------------------------------------------------------------------
LEMMA LeastNatural ==
    ASSUME NEW T \in SUBSET Nat, T # {}
    PROVE  \E n \in T : \A m \in T : n <= m
<1>1. PICK n \in T : \A m \in T : ~ (<<m, n>> \in OpToRel(<, Nat))
  BY NatLessThanWellFounded, WFMin
<1>2. ASSUME NEW m \in T PROVE n <= m
  <2>1. ~ (m < n)
    BY <1>1 DEF OpToRel
  <2> QED
    BY <2>1
<1> QED
  BY <1>2

(* The recursion of Log2 has a solution, so Log2 is the function it says.   *)
LEMMA Log2Unfolds ==
    Log2 = [n \in 1..MaxRecords |-> IF n = 1 THEN 0 ELSE 1 + Log2[n \div 2]]
<1> DEFINE Solves(k, f) ==
               \A n \in 1..k : f[n] = IF n = 1 THEN 0 ELSE 1 + f[n \div 2]
           Unsolved == {k \in Nat : ~ \E f : Solves(k, f)}
<1>1. Unsolved = {}
  <2> SUFFICES ASSUME Unsolved # {} PROVE FALSE
    OBVIOUS
  <2>1. PICK k \in Unsolved : \A m \in Unsolved : k <= m
    BY LeastNatural
  <2>2. k \in Nat \ {0}
    BY <2>1
  <2>3. k - 1 \in Nat /\ k - 1 \notin Unsolved
    <3> HIDE DEF Unsolved
    <3>1. k - 1 \in Nat /\ ~ (k <= k - 1)
      BY <2>2
    <3> QED
      BY <2>1, <3>1
  <2>4. PICK f : Solves(k - 1, f)
    BY <2>3
  <2> DEFINE g == [n \in 1..k |-> IF n = 1 THEN 0
                                  ELSE 1 + f[n \div 2]]
  <2>5. ASSUME NEW n \in 1..k
        PROVE  g[n] = IF n = 1 THEN 0 ELSE 1 + g[n \div 2]
    <3>1. CASE n = 1
      BY <3>1
    <3>2. CASE n # 1
      <4>1. n \div 2 \in 1 .. k - 1 /\ n \div 2 \in 1..k
        BY <3>2, <2>2
      <4>2. g[n \div 2] = f[n \div 2]
        BY <2>4, <4>1
      <4> QED
        BY <3>2, <4>2
    <3> QED
      BY <3>1, <3>2
  <2>6. Solves(k, g)
    BY <2>5
  <2> QED
    BY <2>1, <2>6
<1>2. PICK f : Solves(MaxRecords, f)
  BY <1>1, SendBatchAssumption
<1> DEFINE g == [n \in 1..MaxRecords |-> IF n = 1 THEN 0 ELSE 1 + f[n \div 2]]
<1>3. \A n \in 1..MaxRecords : n # 1 => n \div 2 \in 1..MaxRecords
  BY SendBatchAssumption
<1>4. g = [n \in 1..MaxRecords |-> IF n = 1 THEN 0 ELSE 1 + g[n \div 2]]
  <2>1. \A n \in 1..MaxRecords : g[n] = f[n]
    BY <1>2
  <2> QED
    BY <1>3, <2>1
<1> HIDE DEF g
<1>5. \E h : h = [n \in 1..MaxRecords |-> IF n = 1 THEN 0 ELSE 1 + h[n \div 2]]
  BY <1>4
<1> QED
  BY <1>5 DEF Log2

(* Halving a slice of two records or more takes one from its logarithm.     *)
LEMMA Log2Halves ==
    /\ \A n \in 1..MaxRecords : Log2[n] \in Nat
    /\ \A m, n \in 1..MaxRecords : m <= n => Log2[m] <= Log2[n]
    /\ \A n \in 2..MaxRecords : n \div 2 \in 1..MaxRecords /\ Log2[n] = 1 + Log2[n \div 2]
<1>1. /\ MaxRecords \in Nat
      /\ \A n \in 1..MaxRecords : Log2[n] = IF n = 1 THEN 0 ELSE 1 + Log2[n \div 2]
  BY Log2Unfolds, SendBatchAssumption
<1>2. \A n \in 2..MaxRecords : n \div 2 \in 1 .. n - 1 /\ Log2[n] = 1 + Log2[n \div 2]
  BY <1>1
<1> DEFINE Wrong == {n \in 1..MaxRecords :
                       ~ (Log2[n] \in Nat /\ \A m \in 1..n : Log2[m] <= Log2[n])}
<1>3. Wrong = {}
  <2> SUFFICES ASSUME Wrong # {} PROVE FALSE
    OBVIOUS
  <2>1. PICK n \in Wrong : \A m \in Wrong : n <= m
    <3>1. Wrong \in SUBSET Nat
      BY <1>1
    <3> QED
      BY <3>1, LeastNatural
  <2>2. \A m \in 1 .. n - 1 : Log2[m] \in Nat /\ \A l \in 1..m : Log2[l] <= Log2[m]
    BY <2>1, <1>1
  <2>3. n # 1
    BY <2>1, <1>1
  <2>4. n \in 2..MaxRecords /\ n \div 2 \in 1 .. n - 1 /\ Log2[n] = 1 + Log2[n \div 2]
    BY <2>1, <2>3, <1>2
  <2>5. Log2[n] \in Nat
    BY <2>2, <2>4
  <2>6. ASSUME NEW m \in 1..n PROVE Log2[m] <= Log2[n]
    <3>1. CASE m = n
      BY <3>1, <2>5
    <3>2. CASE m = 1
      BY <3>2, <2>5, <1>1
    <3>3. CASE m # n /\ m # 1
      <4>1. m \in 2..MaxRecords /\ m \in 1 .. n - 1 /\ m \div 2 \in 1 .. m - 1
        <5>1. m \in 2..MaxRecords /\ m \in 1 .. n - 1
          BY <3>3, <2>4, <1>1
        <5> QED
          BY <5>1, <1>2
      <4>2. m \div 2 \in 1 .. n \div 2
        BY <4>1, <2>4
      <4>3. Log2[m \div 2] <= Log2[n \div 2] /\ Log2[m \div 2] \in Nat /\ Log2[n \div 2] \in Nat
        BY <2>2, <2>4, <4>1, <4>2
      <4>4. Log2[m] = 1 + Log2[m \div 2]
        BY <4>1, <1>2
      <4> QED
        BY <2>4, <4>3, <4>4
    <3> QED
      BY <3>1, <3>2, <3>3
  <2> QED
    BY <2>1, <2>5, <2>6
<1> HIDE DEF Wrong
<1>4. \A n \in 1..MaxRecords : Log2[n] \in Nat /\ \A m \in 1..n : Log2[m] <= Log2[n]
  BY <1>3 DEF Wrong
<1>5. \A m, n \in 1..MaxRecords : m <= n => Log2[m] <= Log2[n]
  <2> TAKE m, n \in 1..MaxRecords
  <2> HAVE m <= n
  <2>1. m \in 1..n
    BY <1>1
  <2> QED
    BY <1>4, <2>1
<1>6. \A n \in 2..MaxRecords : n \div 2 \in 1..MaxRecords
  BY <1>1, <1>2
<1> QED
  BY <1>2, <1>4, <1>5, <1>6

---------------------------------------------------------------------------
(* The sender.                                                              *)
LEMMA SendInit == Init => SendInv /\ WithinBudget
<1> SUFFICES ASSUME Init PROVE SendInv /\ WithinBudget
  OBVIOUS
<1> USE SendBatchAssumption
<1>1. TypeOK /\ SliceShape
  BY DEF Init, TypeOK, SliceShape, Record, Fates
<1>2. EveryRecordDecided
  BY DEF Init, EveryRecordDecided, Record
<1>3. WithinBudget
  <2>1. /\ batch \in Nat /\ configuredMaxBatchSize \in 1..MaxRecords
        /\ Log2[configuredMaxBatchSize] \in Nat
    BY Log2Halves DEF Init
  <2>2. (RETRY_COUNT + 1) * (done + (Log2[configuredMaxBatchSize] - Log2[maxBatchSize])) = 0
    BY <2>1 DEF Init
  <2>3. posts = 0 /\ Spent = 0 /\ maxBatchSize = configuredMaxBatchSize /\ delivering = "choose"
    BY DEF Init, Spent
  <2> QED
    BY <2>1, <2>2, <2>3 DEF WithinBudget
<1> QED
  BY <1>1, <1>2, <1>3 DEF SendInv

(* What an answer comes to: the slice is decided, halved or sent again.     *)
LEMMA AnswerCases ==
    ASSUME NEW status \in Statuses, Answered(status), slice \in Nat
    PROVE  \/ \E verdict \in Fates \ {"pending"} : Advance(verdict)
           \/ Halve /\ slice > 1
           \/ RetryLater /\ attempt < RETRY_COUNT
<1>1. CASE status = "tooLarge"
  BY <1>1 DEF Answered, TooLarge, Fates
<1>2. CASE status = "accepted"
  BY <1>2 DEF Answered, Fates
<1>3. CASE status = "permanent"
  BY <1>3 DEF Answered, Fates
<1>4. CASE status = "transient"
  BY <1>4 DEF Answered, Fates
<1> QED
  BY <1>1, <1>2, <1>3, <1>4 DEF Statuses

LEMMA AdvanceInv ==
    ASSUME SendInv, delivering = "post", UNCHANGED job, posts' = posts + 1,
           NEW verdict \in Fates \ {"pending"}, Advance(verdict)
    PROVE  SendInv'
<1> USE SendBatchAssumption DEF SendInv
<1>1. /\ slice \in 1 .. (batch - done) /\ batch \in Nat /\ done \in 0..batch
      /\ done' = done + slice /\ delivering' = "choose"
      /\ fate' = [r \in Record |-> IF r \in Slice THEN verdict ELSE fate[r]]
      /\ Record' = Record
  BY DEF SliceShape, TypeOK, Advance, job, Record
<1>2. TypeOK'
  BY <1>1 DEF TypeOK, Advance, job
<1>3. SliceShape'
  BY <1>1 DEF SliceShape
<1>4. EveryRecordDecided'
  <2>1. ASSUME NEW r \in Record PROVE fate'[r] = "pending" <=> r > done'
    <3>1. CASE r \in Slice
      BY <1>1, <3>1 DEF Slice
    <3>2. CASE r \notin Slice
      <4>1. fate'[r] = fate[r] /\ (fate[r] = "pending" <=> r > done)
        BY <1>1, <3>2 DEF EveryRecordDecided
      <4>2. r > done <=> r > done'
        BY <1>1, <3>2 DEF Slice, Record
      <4> QED
        BY <4>1, <4>2
    <3> QED
      BY <3>1, <3>2
  <2> QED
    BY <1>1, <2>1 DEF EveryRecordDecided
<1> QED
  BY <1>2, <1>3, <1>4

LEMMA SendStep == SendInv /\ [Next]_vars => SendInv'
<1> SUFFICES ASSUME SendInv, [Next]_vars PROVE SendInv'
  OBVIOUS
<1> USE SendBatchAssumption DEF SendInv
<1>0. batch \in Nat /\ done \in 0..batch /\ maxBatchSize \in Nat \ {0}
  BY DEF TypeOK
<1>1. CASE ChooseSlice
  <2>1. Record' = Record /\ job' = job
    BY <1>1 DEF ChooseSlice, job, Record
  <2>2. CASE done = batch
    BY <1>0, <1>1, <2>1, <2>2
       DEF ChooseSlice, TypeOK, SliceShape, EveryRecordDecided, job
  <2>3. CASE done # batch
    <3>1. slice' \in 1 .. (batch - done) /\ slice' <= maxBatchSize
      BY <1>0, <1>1, <2>3 DEF ChooseSlice, AtMost
    <3> QED
      BY <1>0, <1>1, <2>1, <2>3, <3>1
         DEF ChooseSlice, TypeOK, SliceShape, EveryRecordDecided, job
  <2> QED
    BY <2>2, <2>3
<1>2. ASSUME NEW status \in Statuses, Answered(status)
      PROVE  SendInv'
  <2>1. /\ slice \in 1 .. (batch - done) /\ slice <= maxBatchSize
        /\ delivering = "post" /\ posts' = posts + 1 /\ UNCHANGED job
    BY <1>2 DEF Answered, SliceShape
  <2>2. CASE \E verdict \in Fates \ {"pending"} : Advance(verdict)
    BY <2>1, <2>2, AdvanceInv
  <2>3. CASE Halve /\ slice > 1
    <3>1. maxBatchSize' \in 1..maxBatchSize
      BY <1>0, <2>1, <2>3 DEF Halve, AtLeast
    <3>2. TypeOK'
      BY <1>0, <2>1, <2>3, <3>1 DEF Halve, TypeOK, job, Record
    <3> QED
      BY <2>1, <2>3, <3>2 DEF Halve, SliceShape, EveryRecordDecided, job, Record
  <2>4. CASE RetryLater /\ attempt < RETRY_COUNT
    <3>1. TypeOK'
      BY <2>1, <2>4 DEF RetryLater, TypeOK, job, Record
    <3> QED
      BY <2>1, <2>4, <3>1 DEF RetryLater, SliceShape, EveryRecordDecided, job, Record
  <2> QED
    BY <1>2, <2>1, <2>2, <2>3, <2>4, AnswerCases
<1>3. CASE SerialisationThrows \/ RetryDelayElapses
  <2>1. Slice' = Slice /\ unserialisable' = unserialisable
    BY <1>3 DEF SerialisationThrows, RetryDelayElapses, Slice, job
  <2> QED
    BY <1>3, <2>1 DEF SerialisationThrows, RetryDelayElapses, TypeOK, SliceShape,
                      EveryRecordDecided, job, Record
<1>4. CASE Finished \/ UNCHANGED vars
  BY <1>4 DEF Finished, vars, TypeOK, SliceShape, EveryRecordDecided, job, Record, Slice
<1> QED
  BY <1>1, <1>2, <1>3, <1>4 DEF Next

(* The product in the bound, one factor of which grows by one at least.     *)
LEMMA BudgetGrows ==
    ASSUME NEW k \in Nat, NEW x \in Nat, NEW y \in Nat, x < y
    PROVE  k * x + k <= k * y
<1>1. PICK d \in Nat : y = x + 1 + d
  BY SMT
<1>2. k * y = k * x + k + k * d /\ k * d \in Nat /\ k * x \in Nat
  BY <1>1, SMT
<1> QED
  BY <1>2

LEMMA BudgetStep == SendInv /\ WithinBudget /\ [Next]_vars => WithinBudget'
<1> SUFFICES ASSUME SendInv, WithinBudget, [Next]_vars PROVE WithinBudget'
  OBVIOUS
<1> USE SendBatchAssumption
<1> DEFINE L == Log2[configuredMaxBatchSize]
           x == done + (L - Log2[maxBatchSize])
           k == RETRY_COUNT + 1
<1>0. /\ batch \in Nat /\ done \in 0..batch /\ posts \in Nat /\ attempt \in 0..RETRY_COUNT
      /\ maxBatchSize \in 1..MaxRecords /\ configuredMaxBatchSize \in 1..MaxRecords
      /\ L \in Nat /\ Log2[maxBatchSize] \in Nat /\ Log2[maxBatchSize] <= L
      /\ x \in Nat /\ k \in Nat /\ k * x \in Nat
      /\ posts <= k * x + Spent
  <2>1. /\ batch \in Nat /\ done \in 0..batch /\ posts \in Nat /\ attempt \in 0..RETRY_COUNT
        /\ maxBatchSize \in 1..MaxRecords /\ configuredMaxBatchSize \in 1..MaxRecords
    BY DEF SendInv, TypeOK
  <2>2. L \in Nat /\ Log2[maxBatchSize] \in Nat
    BY <2>1, Log2Halves
  <2>3. Log2[maxBatchSize] <= L /\ posts <= k * x + Spent
    BY DEF WithinBudget
  <2>4. x \in Nat /\ k \in Nat
    BY <2>1, <2>2, <2>3
  <2> HIDE DEF x, k
  <2>5. k * x \in Nat
    BY <2>4
  <2> QED
    BY <2>1, <2>2, <2>3, <2>4, <2>5
<1>1. ASSUME delivering \notin {"wait", "post", "rejected"}, UNCHANGED job,
             posts' = posts, done' = done, maxBatchSize' = maxBatchSize,
             delivering' = "post" => attempt' = 0, delivering' \notin {"wait", "rejected"}
      PROVE  WithinBudget'
  <2>1. Spent = 0 /\ Spent' = 0
    BY <1>1 DEF Spent
  <2> QED
    BY <1>0, <1>1, <2>1 DEF WithinBudget, job
<1>2. CASE ChooseSlice
  BY <1>1, <1>2 DEF ChooseSlice
<1>3. ASSUME NEW status \in Statuses, Answered(status)
      PROVE  WithinBudget'
  <2>1. /\ slice \in 1 .. (batch - done) /\ slice <= maxBatchSize
        /\ posts' = posts + 1 /\ UNCHANGED job /\ Spent = attempt
    BY <1>3 DEF Answered, SendInv, SliceShape, Spent
  <2>2. L' = L /\ k' = k
    BY <2>1 DEF job
  <2>3. ASSUME x < x', x' \in Nat, delivering' = "choose", Log2[maxBatchSize'] <= L
        PROVE  WithinBudget'
    <3>1. k * x + k <= k * x'
      <4> HIDE DEF x, k
      <4> QED
        BY <1>0, <2>3, BudgetGrows
    <3>2. posts' <= k * x' /\ Spent' = 0
      <4>1. Spent' = 0 /\ attempt + 1 <= k
        BY <1>0, <2>3 DEF Spent
      <4> HIDE DEF x, k
      <4>2. k * x' \in Nat
        <5>1. x' \in Nat /\ k \in Nat
          BY <1>0, <2>3
        <5>2. \A a, b \in Nat : a * b \in Nat
          BY SMT
        <5> QED
          BY <5>1, <5>2
      <4> QED
        BY <1>0, <2>1, <3>1, <4>1, <4>2
    <3> QED
      BY <2>2, <2>3, <3>2 DEF WithinBudget
  <2>4. CASE \E verdict \in Fates : Advance(verdict)
    <3>1. done' = done + slice /\ maxBatchSize' = maxBatchSize /\ delivering' = "choose"
      BY <2>4 DEF Advance
    <3>2. x < x' /\ x' \in Nat
      BY <1>0, <2>1, <2>2, <3>1
    <3> QED
      BY <1>0, <2>3, <3>1, <3>2
  <2>5. CASE Halve /\ slice > 1
    <3>1. slice \in 2..MaxRecords /\ done' = done /\ delivering' = "choose"
      BY <1>0, <2>1, <2>5 DEF Halve, SendInv, TypeOK
    <3>2. /\ slice \div 2 \in 1..MaxRecords /\ Log2[slice] = 1 + Log2[slice \div 2]
          /\ Log2[slice \div 2] \in Nat
      BY <3>1, Log2Halves
    <3>3. maxBatchSize' = slice \div 2
      BY <2>5, <3>1, <3>2 DEF Halve, AtLeast
    <3>4. Log2[slice] <= Log2[maxBatchSize]
      <4>1. slice \in 1..MaxRecords
        BY <3>1
      <4> QED
        BY <1>0, <2>1, <4>1, Log2Halves
    <3>5. x < x' /\ x' \in Nat /\ Log2[maxBatchSize'] <= L
      BY <1>0, <2>2, <3>1, <3>2, <3>3, <3>4
    <3> QED
      BY <2>3, <3>1, <3>5
  <2>6. CASE RetryLater /\ attempt < RETRY_COUNT
    <3>1. Spent' = attempt + 1 /\ done' = done /\ maxBatchSize' = maxBatchSize
      BY <2>6 DEF RetryLater, Spent
    <3>2. x' = x /\ attempt' > 0
      BY <1>0, <2>2, <2>6, <3>1 DEF RetryLater
    <3> HIDE DEF x, k
    <3>3. posts' <= k * x' + Spent'
      BY <1>0, <2>1, <3>1, <3>2
    <3> QED
      BY <1>0, <2>2, <3>1, <3>2, <3>3 DEF WithinBudget, x, k
  <2>7. \/ \E verdict \in Fates : Advance(verdict)
        \/ Halve /\ slice > 1
        \/ RetryLater /\ attempt < RETRY_COUNT
    BY <1>3, <2>1, AnswerCases
  <2> QED
    BY <2>4, <2>5, <2>6, <2>7
<1>4. CASE SerialisationThrows \/ RetryDelayElapses
  <2>1. /\ Spent' = Spent /\ UNCHANGED job /\ posts' = posts /\ done' = done
        /\ maxBatchSize' = maxBatchSize /\ delivering' # "wait"
    BY <1>4 DEF SerialisationThrows, RetryDelayElapses, Spent
  <2> QED
    BY <1>0, <2>1 DEF WithinBudget, job
<1>5. CASE Finished \/ UNCHANGED vars
  BY <1>5 DEF Finished, vars, WithinBudget, Spent, job
<1> QED
  BY <1>2, <1>3, <1>4, <1>5 DEF Next

(* The sender's variables keep their types.                                 *)
THEOREM SendTypes == Spec => []SendInv
<1> QED
  BY SendInit, SendStep, PTL DEF Spec

(* SendBatch!EveryRecordDecided: a delivery that resolves has decided each  *)
(* of its records, halving skips none and repeats none, and a delivery that *)
(* rejects has met a record that cannot be serialised.                      *)
THEOREM SendDecides == Spec => []EveryRecordDecided
<1>1. SendInv => EveryRecordDecided
  BY DEF SendInv
<1> QED
  BY <1>1, SendTypes, PTL

(* Whatever the server answers, for every batch, slice size and retry count *)
(* the requests stay within one retry budget per record and per halving.    *)
THEOREM SendWithinBudget == Spec => []PostBudget
<1>1. SendInv /\ WithinBudget => PostBudget
  <2> SUFFICES ASSUME SendInv, WithinBudget PROVE PostBudget
    OBVIOUS
  <2> USE SendBatchAssumption
  <2> DEFINE L == Log2[configuredMaxBatchSize]
             x == done + (L - Log2[maxBatchSize])
             k == RETRY_COUNT + 1
  <2>1. /\ batch \in Nat /\ done \in 0..batch /\ posts \in Nat /\ attempt \in 0..RETRY_COUNT
        /\ maxBatchSize \in 1..MaxRecords /\ configuredMaxBatchSize \in 1..MaxRecords
    BY DEF SendInv, TypeOK
  <2>2. L \in Nat /\ Log2[maxBatchSize] \in Nat
    BY <2>1, Log2Halves
  <2>3. Log2[maxBatchSize] <= L /\ posts <= k * x + Spent
    BY DEF WithinBudget
  <2>4. x \in Nat /\ k \in Nat /\ batch + L \in Nat
    BY <2>1, <2>2, <2>3
  <2>5. CASE delivering \in {"post", "wait", "rejected"}
    <3>1. x < batch + L
      BY <2>1, <2>2, <2>3, <2>5 DEF SendInv, SliceShape
    <3>2. Spent <= k
      BY <2>1, <2>5 DEF Spent
    <3>3. k * x + k <= k * (batch + L)
      <4> HIDE DEF x, k, L
      <4> QED
        BY <2>4, <3>1, BudgetGrows
    <3>4. posts <= k * (batch + L)
      <4>1. Spent \in Nat
        BY <2>1, <2>5 DEF Spent
      <4> HIDE DEF x, k, L
      <4>2. k * x \in Nat /\ k * (batch + L) \in Nat
        BY <2>4
      <4> QED
        BY <2>1, <2>3, <2>4, <3>2, <3>3, <4>1, <4>2
    <3> QED
      BY <3>4 DEF PostBudget
  <2>6. CASE delivering \notin {"post", "wait", "rejected"}
    <3>1. posts <= k * x /\ x <= batch + L
      BY <2>1, <2>2, <2>3, <2>6 DEF Spent
    <3>2. k * x <= k * (batch + L)
      <4> HIDE DEF x, k, L
      <4>1. CASE x < batch + L
        <5>1. k * x + k <= k * (batch + L)
          BY <2>4, <4>1, BudgetGrows
        <5>2. k * x \in Nat /\ k * (batch + L) \in Nat
          BY <2>4
        <5> QED
          BY <2>4, <5>1, <5>2
      <4>2. CASE x = batch + L
        BY <2>4, <4>2
      <4> QED
        BY <2>4, <3>1, <4>1, <4>2
    <3>3. posts <= k * (batch + L)
      <4> HIDE DEF x, k, L
      <4>1. k * x \in Nat /\ k * (batch + L) \in Nat
        BY <2>4
      <4> QED
        BY <2>1, <3>1, <3>2, <4>1
    <3> QED
      BY <3>3 DEF PostBudget
  <2> QED
    BY <2>5, <2>6
<1> QED
  BY <1>1, SendInit, SendStep, BudgetStep, PTL DEF Spec

---------------------------------------------------------------------------
(* The receiver: one statement on the table.                                *)
TableTyped ==
    /\ uuid \in [Record -> Record] /\ unstorable \subseteq Record
    /\ table \in [Uuid -> Rows \cup {NoRow}]
    /\ late \subseteq Seq(Record)

LEMMA RecordsFit == TypeOK => batch \in Nat /\ Record \subseteq Uuid /\ Uuid \subseteq Nat
BY SendBatchAssumption DEF TypeOK, Record, Uuid

LEMMA EnvelopeShape ==
    ASSUME TableTyped, NEW records \in Seq(Record)
    PROVE  /\ DOMAIN Envelope(records) = 1..Len(records) /\ Len(records) \in Nat
           /\ RecordsOf(records) = {records[i] : i \in 1..Len(records)}
           /\ RecordsOf(records) \subseteq Record
           /\ \A i \in 1..Len(records) :
                 /\ Envelope(records)[i].position = records[i]
                 /\ Envelope(records)[i].uuid = uuid[records[i]]
                 /\ Envelope(records)[i].storable <=> records[i] \notin unstorable
<1>1. DOMAIN records = 1..Len(records) /\ Len(records) \in Nat
  BY LenProperties
<1>2. \A i \in 1..Len(records) : records[i] \in Record
  BY ElementOfSeq
<1> QED
  BY <1>1, <1>2 DEF Envelope, RecordsOf

(* ON CONFLICT DO NOTHING: rows stand, each record of the envelope has a    *)
(* row afterwards, and a new row is a record of the envelope with that uuid. *)
LEMMA UpsertWrites ==
    ASSUME TypeOK, TableTyped, NEW records \in Seq(Record), NEW receipt \in Nat,
           NEW after, after = R!Upsert(Envelope(records), receipt)
    PROVE  /\ after \in [Uuid -> Rows \cup {NoRow}]
           /\ \A u \in Uuid : table[u] # NoRow => after[u] = table[u]
           /\ \A r \in RecordsOf(records) : after[uuid[r]] # NoRow
           /\ \A u \in Uuid : table[u] = NoRow /\ after[u] # NoRow =>
                 /\ after[u].event \in RecordsOf(records)
                 /\ uuid[after[u].event] = u
<1> DEFINE env == Envelope(records)
           Same(u) == {i \in 1..Len(records) : env[i].uuid = u}
           First(u) == CHOOSE i \in Same(u) : \A j \in Same(u) : i <= j
<1>1. /\ DOMAIN env = 1..Len(records) /\ Len(records) \in Nat
      /\ RecordsOf(records) = {records[i] : i \in 1..Len(records)}
      /\ RecordsOf(records) \subseteq Record
      /\ \A i \in 1..Len(records) : env[i].position = records[i] /\ env[i].uuid = uuid[records[i]]
  BY EnvelopeShape
<1>2. after = [u \in Uuid |-> IF table[u] # NoRow \/ Same(u) = {} THEN table[u]
                              ELSE [event |-> env[First(u)].position, receipt |-> receipt]]
  BY <1>1 DEF R!Upsert
<1> HIDE DEF env
<1>3. ASSUME NEW u \in Uuid, Same(u) # {}
      PROVE  /\ First(u) \in 1..Len(records) /\ env[First(u)].uuid = u
             /\ env[First(u)].position = records[First(u)]
             /\ env[First(u)].position \in RecordsOf(records)
             /\ uuid[env[First(u)].position] = u
             /\ [event |-> env[First(u)].position, receipt |-> receipt] \in Rows
             /\ [event |-> env[First(u)].position, receipt |-> receipt] # NoRow
  <2>1. First(u) \in Same(u)
    <3>1. \E i \in Same(u) : \A j \in Same(u) : i <= j
      <4>1. Same(u) \in SUBSET Nat
        BY <1>1
      <4> QED
        BY <1>3, <4>1, LeastNatural
    <3> QED
      BY <3>1
  <2>2. First(u) \in 1..Len(records) /\ env[First(u)].uuid = u
    BY <2>1
  <2> HIDE DEF First
  <2>3. /\ env[First(u)].position = records[First(u)]
        /\ env[First(u)].position \in RecordsOf(records)
        /\ uuid[env[First(u)].position] = u
    BY <1>1, <2>2
  <2>4. [event |-> env[First(u)].position, receipt |-> receipt] \in Rows
    BY <1>1, <2>3, RecordsFit DEF Rows
  <2>5. NoRow \notin Rows
    BY DeliveryAssumption, SendBatchAssumption DEF Rows, Uuid
  <2> QED
    BY <2>2, <2>3, <2>4, <2>5
<1> HIDE DEF First
<1>4. after \in [Uuid -> Rows \cup {NoRow}]
  BY <1>2, <1>3 DEF TableTyped
<1>5. \A u \in Uuid : table[u] # NoRow => after[u] = table[u]
  BY <1>2
<1>6. ASSUME NEW r \in RecordsOf(records) PROVE after[uuid[r]] # NoRow
  <2>1. PICK i \in 1..Len(records) : r = records[i]
    BY <1>1
  <2>2. uuid[r] \in Uuid /\ i \in Same(uuid[r])
    BY <1>1, <2>1, RecordsFit DEF TableTyped
  <2> QED
    BY <1>2, <1>3, <2>2
<1>7. ASSUME NEW u \in Uuid, table[u] = NoRow, after[u] # NoRow
      PROVE  after[u].event \in RecordsOf(records) /\ uuid[after[u].event] = u
  <2>1. Same(u) # {} /\ after[u] = [event |-> env[First(u)].position, receipt |-> receipt]
    BY <1>2, <1>7
  <2> QED
    BY <1>3, <2>1
<1> QED
  BY <1>4, <1>5, <1>6, <1>7

(* What a request does to the table: nothing, or the whole envelope, which  *)
(* it must have written to be answered "accepted".                          *)
LEMMA ReceiveWrites ==
    ASSUME TypeOK, TableTyped, NEW records \in Seq(Record), NEW readable \in BOOLEAN,
           NEW outcome \in {"accepted", "malformed_body", "throws"},
           R!receive(Envelope(records), readable, posts, outcome)
    PROVE  /\ \/ table' = table
              \/ /\ RecordsOf(records) \cap unstorable = {}
                 /\ table' = R!Upsert(Envelope(records), posts)
           /\ outcome = "accepted" /\ RecordsOf(records) # {} =>
                 table' = R!Upsert(Envelope(records), posts)
<1>1. /\ DOMAIN Envelope(records) = 1..Len(records) /\ Len(records) \in Nat
      /\ RecordsOf(records) = {records[i] : i \in 1..Len(records)}
      /\ \A i \in 1..Len(records) : Envelope(records)[i].storable <=> records[i] \notin unstorable
  BY EnvelopeShape
<1>2. ASSUME NEW result, R!Executes(Envelope(records), posts, result)
      PROVE  \/ result = "unreachable" /\ table' = table
             \/ /\ RecordsOf(records) \cap unstorable = {}
                /\ table' = R!Upsert(Envelope(records), posts)
  <2>1. CASE result = "unreachable"
    BY <1>2, <2>1 DEF R!Executes
  <2>2. CASE result # "unreachable"
    <3>1. /\ \A i \in 1..Len(records) : Envelope(records)[i].storable
          /\ table' = R!Upsert(Envelope(records), posts)
      BY <1>1, <1>2, <2>2 DEF R!Executes
    <3> QED
      BY <1>1, <3>1
  <2> QED
    BY <2>1, <2>2
<1>3. CASE outcome = "accepted"
  <2>1. CASE Envelope(records) = <<>>
    <3>1. RecordsOf(records) = {}
      BY <1>1, <2>1, EmptySeq
    <3> QED
      BY <1>3, <2>1, <3>1 DEF R!receive
  <2>2. CASE Envelope(records) # <<>>
    <3>1. R!Executes(Envelope(records), posts, "closed")
      BY <1>3, <2>2 DEF R!receive
    <3> QED
      BY <1>2, <3>1
  <2> QED
    BY <2>1, <2>2
<1>4. CASE outcome # "accepted"
  BY <1>2, <1>4 DEF R!receive, R!Refuses
<1> QED
  BY <1>3, <1>4

---------------------------------------------------------------------------
(* The delivery: the sender, the requests between them and the receiver.    *)
RowsOwnUuid ==
    \A u \in Uuid : table[u] # NoRow =>
        table[u].event \in Record /\ uuid[table[u].event] = u

RequestIsSlice ==
    request # NoRequest =>
        /\ delivering = "post" /\ Slice \cap unserialisable = {}
        /\ request \in [records : Seq(Record), reply : Statuses \cup {"none"}]
        /\ RecordsOf(request.records) = Slice
        /\ request.reply = "accepted" => \A r \in Slice : table[uuid[r]] # NoRow

DeliveryInv ==
    /\ SendInv
    /\ TableTyped
    /\ RowsOwnUuid
    /\ RequestIsSlice
    /\ AcceptedIsStored

LEMMA DeliveryInitInv == DeliveryInit => DeliveryInv
<1> SUFFICES ASSUME DeliveryInit PROVE DeliveryInv
  OBVIOUS
<1>1. SendInv
  BY SendInit DEF DeliveryInit
<1>2. TableTyped /\ RowsOwnUuid /\ RequestIsSlice
  BY DEF DeliveryInit, TableTyped, RowsOwnUuid, RequestIsSlice
<1>3. AcceptedIsStored
  BY DEF DeliveryInit, Init, AcceptedIsStored
<1> QED
  BY <1>1, <1>2, <1>3 DEF DeliveryInv

(* Every step of the delivery is a step of the sender, or leaves it alone.  *)
LEMMA DeliveryStepSends ==
    RequestIsSlice /\ [DeliveryNext]_deliveryVars => [Next]_vars
<1> SUFFICES ASSUME RequestIsSlice, [DeliveryNext]_deliveryVars PROVE [Next]_vars
  OBVIOUS
<1>1. CASE Local
  BY <1>1 DEF Local, Next
<1>2. CASE Post \/ Received \/ ReceivedLate \/ UNCHANGED deliveryVars
  BY <1>2 DEF Post, Received, ReceivedLate, deliveryVars
<1>3. CASE Intercepted
  BY <1>3 DEF Intercepted, Next
<1>4. CASE Replied
  BY <1>4 DEF Replied, Next, RequestIsSlice
<1>5. CASE ConnectionLost
  BY <1>5 DEF ConnectionLost, Next, Statuses
<1> QED
  BY <1>1, <1>2, <1>3, <1>4, <1>5 DEF DeliveryNext

LEMMA DeliveryStepSendInv ==
    DeliveryInv /\ [DeliveryNext]_deliveryVars => SendInv' /\ job' = job
<1> SUFFICES ASSUME DeliveryInv, [DeliveryNext]_deliveryVars PROVE SendInv' /\ job' = job
  OBVIOUS
<1>1. [Next]_vars
  BY DeliveryStepSends DEF DeliveryInv
<1>2. job' = job
  BY <1>1 DEF Next, vars, ChooseSlice, Answered, SerialisationThrows, RetryDelayElapses, Finished
<1> QED
  BY <1>1, <1>2, SendStep DEF DeliveryInv

(* A request that arrives, in time or late, keeps the rows and adds whole   *)
(* envelopes to them.                                                       *)
LEMMA TableStep ==
    ASSUME DeliveryInv, NEW records \in Seq(Record), NEW readable \in BOOLEAN,
           NEW outcome \in {"accepted", "malformed_body", "throws"},
           R!receive(Envelope(records), readable, posts, outcome),
           UNCHANGED <<vars, uuid, unstorable>>, late' \subseteq late
    PROVE  /\ TableTyped' /\ RowsOwnUuid' /\ AcceptedIsStored'
           /\ \A u \in Uuid : table[u] # NoRow => table'[u] = table[u]
           /\ outcome = "accepted" => \A r \in RecordsOf(records) : table'[uuid[r]] # NoRow
           /\ \A u \in Uuid : table[u] = NoRow /\ table'[u] # NoRow =>
                 /\ table'[u].event \in RecordsOf(records)
                 /\ RecordsOf(records) \cap unstorable = {}
                 /\ \A r \in RecordsOf(records) : table'[uuid[r]] # NoRow
<1>1. TypeOK /\ TableTyped /\ RowsOwnUuid /\ AcceptedIsStored /\ posts \in Nat
  BY DEF DeliveryInv, SendInv, TypeOK
<1>2. /\ \/ table' = table
         \/ /\ RecordsOf(records) \cap unstorable = {}
            /\ table' = R!Upsert(Envelope(records), posts)
      /\ outcome = "accepted" /\ RecordsOf(records) # {} =>
            table' = R!Upsert(Envelope(records), posts)
  BY <1>1, ReceiveWrites
<1> DEFINE written == R!Upsert(Envelope(records), posts)
<1>3. /\ written \in [Uuid -> Rows \cup {NoRow}]
      /\ \A u \in Uuid : table[u] # NoRow => written[u] = table[u]
      /\ \A r \in RecordsOf(records) : written[uuid[r]] # NoRow
      /\ \A u \in Uuid : table[u] = NoRow /\ written[u] # NoRow =>
            written[u].event \in RecordsOf(records) /\ uuid[written[u].event] = u
  BY <1>1, UpsertWrites
<1>4. RecordsOf(records) \subseteq Record /\ Record' = Record /\ Record \subseteq Uuid
  BY <1>1, EnvelopeShape, RecordsFit DEF vars, job, Record
<1> HIDE DEF written
<1>5. /\ table' \in [Uuid -> Rows \cup {NoRow}]
      /\ \A u \in Uuid : table[u] # NoRow => table'[u] = table[u]
      /\ outcome = "accepted" => \A r \in RecordsOf(records) : table'[uuid[r]] # NoRow
      /\ \A u \in Uuid : table[u] = NoRow /\ table'[u] # NoRow =>
            /\ table'[u].event \in RecordsOf(records) /\ uuid[table'[u].event] = u
            /\ RecordsOf(records) \cap unstorable = {}
            /\ \A r \in RecordsOf(records) : table'[uuid[r]] # NoRow
  <2>1. CASE table' = table
    <3>1. outcome = "accepted" => \A r \in RecordsOf(records) : table'[uuid[r]] # NoRow
      BY <1>2, <1>3 DEF written
    <3> QED
      BY <1>1, <2>1, <3>1 DEF TableTyped
  <2>2. CASE RecordsOf(records) \cap unstorable = {} /\ table' = written
    BY <1>3, <2>2
  <2> QED
    BY <1>2, <2>1, <2>2 DEF written
<1>6. TableTyped'
  <2>1. uuid' = uuid /\ unstorable' = unstorable
    OBVIOUS
  <2> QED
    BY <1>1, <1>4, <1>5, <2>1 DEF TableTyped
<1>7. RowsOwnUuid'
  BY <1>1, <1>4, <1>5 DEF RowsOwnUuid, TableTyped
<1>8. AcceptedIsStored'
  <2>1. ASSUME NEW r \in Record, fate[r] = "accepted"
        PROVE  table'[uuid[r]] # NoRow /\ uuid[table'[uuid[r]].event] = uuid[r]
    <3>1. uuid[r] \in Uuid /\ table[uuid[r]] # NoRow /\ uuid[table[uuid[r]].event] = uuid[r]
      BY <1>1, <1>4, <2>1 DEF AcceptedIsStored, TableTyped
    <3> QED
      BY <1>5, <3>1
  <2>2. fate' = fate /\ uuid' = uuid
    BY DEF vars
  <2> QED
    BY <1>4, <2>1, <2>2 DEF AcceptedIsStored
<1> QED
  BY <1>5, <1>6, <1>7, <1>8

LEMMA DeliveryStep == DeliveryInv /\ [DeliveryNext]_deliveryVars => DeliveryInv'
<1> SUFFICES ASSUME DeliveryInv, [DeliveryNext]_deliveryVars PROVE DeliveryInv'
  OBVIOUS
<1>0. /\ TypeOK /\ SliceShape /\ TableTyped /\ RowsOwnUuid /\ RequestIsSlice /\ AcceptedIsStored
      /\ batch \in Nat /\ done \in 0..batch /\ Record \subseteq Uuid
  BY RecordsFit DEF DeliveryInv, SendInv, TypeOK
<1>1. SendInv' /\ job' = job /\ Record' = Record
  BY DeliveryStepSendInv DEF job, Record
<1>2. ASSUME table' = table, uuid' = uuid, unstorable' = unstorable, late' \subseteq Seq(Record)
      PROVE  TableTyped' /\ RowsOwnUuid'
  BY <1>0, <1>1, <1>2 DEF TableTyped, RowsOwnUuid
<1>3. ASSUME table' = table, uuid' = uuid,
             \A r \in Record : fate'[r] = "accepted" =>
                fate[r] = "accepted" \/ table[uuid[r]] # NoRow
      PROVE  AcceptedIsStored'
  BY <1>0, <1>1, <1>3 DEF AcceptedIsStored, RowsOwnUuid, TableTyped
<1>4. ASSUME NEW status \in Statuses, Answered(status),
             status = "accepted" => \A r \in Slice : table[uuid[r]] # NoRow
      PROVE  \A r \in Record : fate'[r] = "accepted" =>
                fate[r] = "accepted" \/ table[uuid[r]] # NoRow
  BY <1>4 DEF Answered, TooLarge, Advance, Halve, RetryLater, Statuses
<1>5. CASE Local
  <2>1. UNCHANGED <<uuid, unstorable, table, request, late, fate>> /\ request = NoRequest
    BY <1>5 DEF Local, ChooseSlice, SerialisationThrows, RetryDelayElapses, Finished, vars
  <2>2. late' \subseteq Seq(Record)
    BY <1>0, <2>1 DEF TableTyped
  <2> QED
    BY <1>1, <1>2, <1>3, <2>1, <2>2 DEF DeliveryInv, RequestIsSlice
<1>6. CASE Post
  <2>1. /\ UNCHANGED <<vars, uuid, unstorable, table, late>> /\ delivering = "post"
        /\ Slice \cap unserialisable = {}
        /\ request' = [records |-> [i \in 1..slice |-> done + i], reply |-> "none"]
    BY <1>6 DEF Post
  <2> DEFINE sent == [i \in 1..slice |-> done + i]
  <2>2. slice \in Nat /\ slice <= batch - done
    BY <1>0, <2>1 DEF SliceShape
  <2>3. sent \in Seq(Record) /\ RecordsOf(sent) = Slice
    <3>1. \A i \in 1..slice : done + i \in Record
      BY <1>0, <2>2 DEF Record
    <3>2. sent \in [1..slice -> Record]
      BY <3>1
    <3>3. sent \in Seq(Record)
      BY <2>2, <3>2, SeqDef
    <3>4. RecordsOf(sent) = {done + i : i \in 1..slice}
      BY <2>2 DEF RecordsOf
    <3>5. {done + i : i \in 1..slice} = Slice
      <4>1. ASSUME NEW r \in Slice PROVE r \in {done + i : i \in 1..slice}
        <5>1. r - done \in 1..slice /\ r = done + (r - done)
          BY <1>0, <2>2 DEF Slice
        <5> QED
          BY <5>1
      <4> QED
        BY <1>0, <2>2, <4>1 DEF Slice
    <3> QED
      BY <3>3, <3>4, <3>5
  <2> HIDE DEF sent
  <2>4. request' = [records |-> sent, reply |-> "none"]
    BY <2>1 DEF sent
  <2>5. Slice' = Slice /\ unserialisable' = unserialisable /\ delivering' = delivering
    BY <2>1 DEF vars, job, Slice
  <2>6. RequestIsSlice'
    <3>1. /\ request' \in [records : Seq(Record), reply : Statuses \cup {"none"}]
          /\ request'.records = sent /\ request'.reply = "none"
      BY <2>3, <2>4
    <3>2. RecordsOf(request.records)' = Slice
      BY <2>3, <3>1 DEF RecordsOf
    <3> QED
      BY <1>1, <2>1, <2>5, <3>1, <3>2 DEF RequestIsSlice
  <2>7. late' \subseteq Seq(Record)
    BY <1>0, <2>1 DEF TableTyped
  <2> QED
    BY <1>1, <1>2, <1>3, <2>1, <2>6, <2>7 DEF DeliveryInv, vars
<1>7. CASE Received
  <2>1. PICK readable \in BOOLEAN, outcome \in {"accepted", "malformed_body", "throws"} :
           /\ R!receive(Envelope(request.records), readable, posts, outcome)
           /\ request' = [request EXCEPT !.reply = R!translate(outcome)]
    BY <1>7 DEF Received
  <2>2. /\ request # NoRequest /\ request.records \in Seq(Record)
        /\ RecordsOf(request.records) = Slice
        /\ request \in [records : Seq(Record), reply : Statuses \cup {"none"}]
        /\ UNCHANGED <<vars, uuid, unstorable, late>>
    BY <1>0, <1>7 DEF Received, RequestIsSlice
  <2>3. /\ TableTyped' /\ RowsOwnUuid' /\ AcceptedIsStored'
        /\ outcome = "accepted" => \A r \in Slice : table'[uuid[r]] # NoRow
    BY <2>1, <2>2, TableStep
  <2>4. R!translate(outcome) \in Statuses /\ (R!translate(outcome) = "accepted" <=> outcome = "accepted")
    BY DEF R!translate, Statuses
  <2>5. /\ request' \in [records : Seq(Record), reply : Statuses \cup {"none"}]
        /\ request'.records = request.records /\ request'.reply = R!translate(outcome)
    BY <2>1, <2>2, <2>4
  <2>6. Slice' = Slice /\ unserialisable' = unserialisable /\ delivering' = delivering
    BY <2>2 DEF vars, job, Slice
  <2>7. RequestIsSlice'
    BY <1>0, <1>1, <2>2, <2>3, <2>4, <2>5, <2>6 DEF RequestIsSlice
  <2> QED
    BY <1>1, <2>3, <2>7 DEF DeliveryInv
<1>8. CASE ReceivedLate
  <2>1. PICK records \in late :
           /\ \E readable \in BOOLEAN, outcome \in {"accepted", "malformed_body", "throws"} :
                 R!receive(Envelope(records), readable, posts, outcome)
           /\ late' = late \ {records}
    BY <1>8 DEF ReceivedLate
  <2>2. records \in Seq(Record) /\ UNCHANGED <<vars, uuid, unstorable, request>>
    BY <1>0, <1>8 DEF ReceivedLate, TableTyped
  <2>3. /\ TableTyped' /\ RowsOwnUuid' /\ AcceptedIsStored'
        /\ \A u \in Uuid : table[u] # NoRow => table'[u] = table[u]
    BY <2>1, <2>2, TableStep
  <2>4. Slice' = Slice /\ unserialisable' = unserialisable /\ delivering' = delivering
    BY <2>2 DEF vars, job, Slice
  <2>5. Slice \subseteq Record \/ delivering # "post"
    BY <1>0 DEF Slice, SliceShape, Record
  <2>6. RequestIsSlice'
    BY <1>0, <1>1, <2>2, <2>3, <2>4, <2>5 DEF RequestIsSlice, TableTyped
  <2> QED
    BY <1>1, <2>3, <2>6 DEF DeliveryInv
<1>9. CASE Intercepted \/ Replied \/ ConnectionLost
  <2>1. /\ request' = NoRequest /\ UNCHANGED <<uuid, unstorable, table>>
        /\ request # NoRequest
    BY <1>9 DEF Intercepted, Replied, ConnectionLost
  <2>2. \E status \in Statuses :
           /\ Answered(status)
           /\ status = "accepted" => \A r \in Slice : table[uuid[r]] # NoRow
    BY <1>0, <1>9, <2>1 DEF Intercepted, Replied, ConnectionLost, RequestIsSlice, Statuses
  <2>3. late' \subseteq Seq(Record)
    BY <1>0, <1>9, <2>1 DEF Intercepted, Replied, ConnectionLost, RequestIsSlice, TableTyped
  <2>4. AcceptedIsStored'
    BY <1>3, <1>4, <2>1, <2>2
  <2> QED
    BY <1>1, <1>2, <2>1, <2>3, <2>4 DEF DeliveryInv, RequestIsSlice
<1>10. CASE UNCHANGED deliveryVars
  <2>1. UNCHANGED <<vars, uuid, unstorable, table, request, late>>
    BY <1>10 DEF deliveryVars
  <2>2. Slice' = Slice /\ UNCHANGED <<fate, delivering, unserialisable>>
    BY <2>1 DEF vars, job, Slice
  <2>3. late' \subseteq Seq(Record) /\ fate' = fate
    BY <1>0, <2>1, <2>2 DEF TableTyped
  <2>4. RequestIsSlice'
    BY <1>0, <1>1, <2>1, <2>2 DEF RequestIsSlice
  <2> QED
    BY <1>1, <1>2, <1>3, <2>1, <2>3, <2>4 DEF DeliveryInv
<1> QED
  BY <1>5, <1>6, <1>7, <1>8, <1>9, <1>10 DEF DeliveryNext

---------------------------------------------------------------------------
(* The inductive invariant of the delivery.                                 *)
THEOREM DeliveryInvariant == DeliverySpec => []DeliveryInv
<1> QED
  BY DeliveryInitInv, DeliveryStep, PTL DEF DeliverySpec

(* What the sender is told was accepted is in the table, through retries,   *)
(* halvings and requests that arrive after they were given up.              *)
THEOREM DeliveryStores == DeliverySpec => []AcceptedIsStored
<1>1. DeliveryInv => AcceptedIsStored
  BY DEF DeliveryInv
<1> QED
  BY <1>1, DeliveryInvariant, PTL

(* The delivery's variables keep their types.                               *)
THEOREM DeliveryTypes == DeliverySpec => []DeliveryTypeOK
<1>1. DeliveryInv => DeliveryTypeOK
  BY DEF DeliveryInv, SendInv, TableTyped, RequestIsSlice, DeliveryTypeOK
<1> QED
  BY <1>1, DeliveryInvariant, PTL

(* With a receiver at the other end the sender is still the sender: its     *)
(* decisions and its budget hold of the delivery.                           *)
THEOREM DeliverySends == DeliverySpec => Spec
<1>1. DeliveryInit => Init
  BY DEF DeliveryInit
<1>2. DeliveryInv => RequestIsSlice
  BY DEF DeliveryInv
<1> QED
  BY <1>1, <1>2, DeliveryStepSends, DeliveryInvariant, PTL DEF DeliverySpec, Spec

(* A write is of a whole slice that travels, and of none the database       *)
(* refuses a record of.                                                     *)
THEOREM DeliveryStoresWhole == DeliverySpec => StoredWithoutRefused
<1>1. ASSUME DeliveryInv, [DeliveryNext]_deliveryVars, NEW r \in Record,
             table[uuid[r]] = NoRow, table'[uuid[r]] # NoRow
      PROVE  \E records \in Travelling :
                /\ table'[uuid[r]].event \in RecordsOf(records)
                /\ RecordsOf(records) \cap unstorable = {}
                /\ \A s \in RecordsOf(records) : table'[uuid[s]] # NoRow
  <2>1. TableTyped /\ uuid[r] \in Uuid
    BY <1>1, RecordsFit DEF DeliveryInv, SendInv, TableTyped
  <2>2. CASE Received
    <3>1. PICK readable \in BOOLEAN, outcome \in {"accepted", "malformed_body", "throws"} :
             R!receive(Envelope(request.records), readable, posts, outcome)
      BY <2>2 DEF Received
    <3>2. /\ request # NoRequest /\ request.records \in Seq(Record)
          /\ UNCHANGED <<vars, uuid, unstorable>> /\ late' \subseteq late
      BY <1>1, <2>2 DEF Received, DeliveryInv, RequestIsSlice
    <3>3. /\ table'[uuid[r]].event \in RecordsOf(request.records)
          /\ RecordsOf(request.records) \cap unstorable = {}
          /\ \A s \in RecordsOf(request.records) : table'[uuid[s]] # NoRow
      BY <1>1, <2>1, <3>1, <3>2, TableStep
    <3> QED
      BY <3>2, <3>3 DEF Travelling
  <2>3. CASE ReceivedLate
    <3>1. PICK records \in late :
             /\ \E readable \in BOOLEAN, outcome \in {"accepted", "malformed_body", "throws"} :
                   R!receive(Envelope(records), readable, posts, outcome)
             /\ late' = late \ {records}
      BY <2>3 DEF ReceivedLate
    <3>2. records \in Seq(Record) /\ UNCHANGED <<vars, uuid, unstorable>> /\ late' \subseteq late
      BY <2>1, <2>3, <3>1 DEF ReceivedLate, TableTyped
    <3>3. /\ table'[uuid[r]].event \in RecordsOf(records)
          /\ RecordsOf(records) \cap unstorable = {}
          /\ \A s \in RecordsOf(records) : table'[uuid[s]] # NoRow
      BY <1>1, <2>1, <3>1, <3>2, TableStep
    <3> QED
      BY <3>3 DEF Travelling
  <2>4. CASE table' = table
    BY <1>1, <2>4
  <2> QED
    BY <1>1, <2>2, <2>3, <2>4
       DEF DeliveryNext, Local, Post, Intercepted, Replied, ConnectionLost, deliveryVars
<1>2. DeliveryInv /\ [DeliveryNext]_deliveryVars =>
        [\A r \in Record :
          table[uuid[r]] = NoRow /\ table'[uuid[r]] # NoRow =>
              \E records \in Travelling :
                  /\ table'[uuid[r]].event \in RecordsOf(records)
                  /\ RecordsOf(records) \cap unstorable = {}
                  /\ \A s \in RecordsOf(records) : table'[uuid[s]] # NoRow]_deliveryVars
  BY <1>1
<1> QED
  BY <1>2, DeliveryInvariant, PTL DEF DeliverySpec, StoredWithoutRefused

(* Whatever is retried, re-sliced, lost or late, the table is the one the   *)
(* ingest promises: one row per uuid, written once.                         *)
THEOREM DeliveryKeepsTable == DeliverySpec => ImplementsEventTable
<1>1. DeliveryInit => Promise!TableInit
  BY DEF DeliveryInit, Promise!TableInit
<1>2. DeliveryInv /\ [DeliveryNext]_deliveryVars => [Promise!TableNext]_table
  <2> SUFFICES ASSUME DeliveryInv, [DeliveryNext]_deliveryVars, table' # table
               PROVE  Promise!TableNext
    OBVIOUS
  <2>1. table' \in [Uuid -> Rows \cup {NoRow}]
    BY DeliveryStep DEF DeliveryInv, TableTyped
  <2>2. CASE Received
    <3>1. PICK readable \in BOOLEAN, outcome \in {"accepted", "malformed_body", "throws"} :
             R!receive(Envelope(request.records), readable, posts, outcome)
      BY <2>2 DEF Received
    <3>2. request.records \in Seq(Record) /\ UNCHANGED <<vars, uuid, unstorable>> /\ late' \subseteq late
      BY <2>2 DEF Received, DeliveryInv, RequestIsSlice
    <3>3. \A u \in Uuid : table[u] # NoRow => table'[u] = table[u]
      BY <3>1, <3>2, TableStep
    <3> QED
      BY <2>1, <3>3 DEF Promise!TableNext
  <2>3. CASE ReceivedLate
    <3>1. PICK records \in late :
             /\ \E readable \in BOOLEAN, outcome \in {"accepted", "malformed_body", "throws"} :
                   R!receive(Envelope(records), readable, posts, outcome)
             /\ late' = late \ {records}
      BY <2>3 DEF ReceivedLate
    <3>2. records \in Seq(Record) /\ UNCHANGED <<vars, uuid, unstorable>> /\ late' \subseteq late
      BY <2>3, <3>1 DEF ReceivedLate, DeliveryInv, TableTyped
    <3>3. \A u \in Uuid : table[u] # NoRow => table'[u] = table[u]
      BY <3>1, <3>2, TableStep
    <3> QED
      BY <2>1, <3>3 DEF Promise!TableNext
  <2> QED
    BY <2>2, <2>3
       DEF DeliveryNext, Local, Post, Intercepted, Replied, ConnectionLost, deliveryVars
<1> QED
  BY <1>1, <1>2, DeliveryInvariant, PTL
     DEF DeliverySpec, ImplementsEventTable, Promise!TableSpec

(* So in a delivery too a resolved batch has decided every record, within   *)
(* its budget of requests.                                                  *)
THEOREM DeliveryDecides == DeliverySpec => [](EveryRecordDecided /\ PostBudget)
<1> QED
  BY DeliverySends, SendDecides, SendWithinBudget, PTL
=============================================================================
