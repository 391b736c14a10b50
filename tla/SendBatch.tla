----------------------------- MODULE SendBatch -----------------------------
(* ts/packages/node/src/send-batch.ts: the delivery of one batch.  The      *)
(* records are sent in slices; a slice is retried within a fixed budget and *)
(* halved when the server calls it too large.  Records are numbered by      *)
(* their position in the batch.                                             *)
EXTENDS Naturals

CONSTANTS MaxRecords,    \* bound: the longest batch and the largest configured slice
          RETRY_COUNT    \* 3 in the code

ASSUME SendBatchAssumption == MaxRecords \in Nat \ {0} /\ RETRY_COUNT \in Nat

VARIABLES batch,         \* how many records the queue handed over
          configuredMaxBatchSize,   \* config.maxBatchSize, floored at 1
          unserialisable,           \* the records JSON.stringify throws on
          delivering,    \* "choose", "post", "wait", "resolved" or "rejected"
          done,          \* records 1..done have left `pending`
          maxBatchSize,  \* the size slices are cut to, shrunk by a 413
          slice,         \* how many records the slice under way holds
          attempt,       \* the retries spent on it
          posts,         \* history: requests sent
          fate           \* history: what became of each record

job == <<batch, configuredMaxBatchSize, unserialisable>>
vars == <<job, delivering, done, maxBatchSize, slice, attempt, posts, fate>>

Record == 1..batch
Statuses == {"accepted", "tooLarge", "permanent", "transient"}
Fates == {"pending", "accepted", "refused", "exhausted", "tooLarge"}

AtLeast(n, floor) == IF n >= floor THEN n ELSE floor
AtMost(n, ceiling) == IF n <= ceiling THEN n ELSE ceiling

Slice == done + 1 .. done + slice

Init ==
    /\ batch \in 1..MaxRecords
    /\ configuredMaxBatchSize \in 1..MaxRecords
    /\ unserialisable \in SUBSET Record
    /\ delivering = "choose"
    /\ done = 0
    /\ maxBatchSize = configuredMaxBatchSize
    /\ slice = 0 /\ attempt = 0 /\ posts = 0
    /\ fate = [r \in Record |-> "pending"]

---------------------------------------------------------------------------
(* while (pending.length > 0): cut the next slice, or resolve.             *)
ChooseSlice ==
    /\ delivering = "choose"
    /\ IF done = batch
       THEN delivering' = "resolved" /\ UNCHANGED <<slice, attempt>>
       ELSE /\ slice' = AtMost(maxBatchSize, batch - done)
            /\ attempt' = 0
            /\ delivering' = "post"
    /\ UNCHANGED <<done, maxBatchSize, posts, fate, job>>

Advance(verdict) ==
    /\ done' = done + slice
    /\ fate' = [r \in Record |-> IF r \in Slice THEN verdict ELSE fate[r]]
    /\ delivering' = "choose"
    /\ UNCHANGED <<maxBatchSize, slice, attempt>>

\* Mutant of Halve: the half that was too large is cut off instead of re-sent.
Halve_CutsOff ==
    /\ maxBatchSize' = AtLeast(slice \div 2, 1)
    /\ done' = done + slice \div 2
    /\ delivering' = "choose"
    /\ UNCHANGED <<slice, attempt, fate>>

(* 413 on several records: the same records again, in smaller slices.      *)
Halve ==
    /\ maxBatchSize' = AtLeast(slice \div 2, 1)
    /\ delivering' = "choose"
    /\ UNCHANGED <<done, slice, attempt, fate>>

\* Mutant of TooLarge: a lone record is halved as any slice is.
TooLarge_HalvesOne == Halve

TooLarge == IF slice <= 1 THEN Advance("tooLarge") ELSE Halve

RetryLater ==
    /\ attempt' = attempt + 1
    /\ delivering' = "wait"
    /\ UNCHANGED <<done, maxBatchSize, slice, fate>>

(* The server's answer, or a network error, which counts as transient.     *)
Answered(status) ==
    /\ delivering = "post"
    /\ Slice \cap unserialisable = {}
    /\ posts' = posts + 1
    /\ CASE status = "tooLarge" -> TooLarge
         [] status = "accepted" -> Advance("accepted")
         [] status = "permanent" -> Advance("refused")
         [] status = "transient" ->
              IF attempt < RETRY_COUNT THEN RetryLater ELSE Advance("exhausted")
    /\ UNCHANGED job

(* JSON.stringify runs outside the try: its exception leaves sendBatch.    *)
SerialisationThrows ==
    /\ delivering = "post"
    /\ Slice \cap unserialisable # {}
    /\ delivering' = "rejected"
    /\ UNCHANGED <<done, maxBatchSize, slice, attempt, posts, fate, job>>

RetryDelayElapses ==
    /\ delivering = "wait"
    /\ delivering' = "post"
    /\ UNCHANGED <<done, maxBatchSize, slice, attempt, posts, fate, job>>

Finished == delivering \in {"resolved", "rejected"} /\ UNCHANGED vars

Next ==
    \/ ChooseSlice
    \/ \E status \in Statuses : Answered(status)
    \/ SerialisationThrows
    \/ RetryDelayElapses
    \/ Finished

Spec == Init /\ [][Next]_vars

---------------------------------------------------------------------------
TypeOK ==
    /\ batch \in 1..MaxRecords /\ configuredMaxBatchSize \in 1..MaxRecords
    /\ unserialisable \subseteq Record
    /\ delivering \in {"choose", "post", "wait", "resolved", "rejected"}
    /\ done \in 0..batch
    /\ maxBatchSize \in 1..configuredMaxBatchSize
    /\ slice \in 0..batch
    /\ attempt \in 0..RETRY_COUNT
    /\ posts \in Nat
    /\ fate \in [Record -> Fates]

(* At any time exactly the records no longer pending have a fate: halving   *)
(* re-slices the same records, skips none and repeats none.  A delivery that*)
(* resolves has decided them all.  "Never rejects", says the code, but it   *)
(* does where a record cannot be serialised: only there, at the slice with  *)
(* that record, which stays undecided with all that follow it.              *)
EveryRecordDecided ==
    /\ \A r \in Record : fate[r] = "pending" <=> r > done
    /\ delivering = "resolved" => done = batch
    /\ delivering = "rejected" => Slice \cap unserialisable # {}

(* How often a slice of n records can be halved.                            *)
Log2[n \in 1..MaxRecords] == IF n = 1 THEN 0 ELSE 1 + Log2[n \div 2]

(* Whatever the server answers, a batch ends after a bounded number of      *)
(* requests: one retry budget per decided record and one per halving.       *)
PostBudget ==
    posts <= (RETRY_COUNT + 1) * (batch + Log2[configuredMaxBatchSize])
=============================================================================
