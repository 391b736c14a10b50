---------------------------- MODULE BatchQueue ----------------------------
(* ts/packages/node/src/batch-queue.ts: the in-memory buffer of the node   *)
(* client, drained by an interval timer, by a deferred size trigger, or by *)
(* a forced flush.  JavaScript runs one turn at a time: an action is one   *)
(* turn.  Events are numbered in the order they are enqueued.              *)
EXTENDS Naturals, Sequences

CONSTANTS FlushAtOption, MaxBatchSizeOption, MaxQueueSizeOption,  \* BatchQueueOptions
          MaxEvents                         \* bound: how many events are enqueued

ASSUME BatchQueueAssumption ==
    /\ FlushAtOption \in Nat /\ MaxBatchSizeOption \in Nat
    /\ MaxQueueSizeOption \in Nat /\ MaxEvents \in Nat

VARIABLES minted,          \* how many events were enqueued
          buffer,          \* the buffered events, oldest first
          intervalTimer,   \* the flushInterval timer is armed
          pendingFlush,    \* the 0 ms timer of the size trigger is armed
          inFlight,        \* the batches whose delivery has not settled
          settled,         \* the events of the deliveries that have settled
          dropped          \* the events the buffer discarded unsent

queueVars == <<minted, buffer, intervalTimer, pendingFlush, inFlight, settled, dropped>>

---------------------------------------------------------------------------
DEFAULT_FLUSH_AT == 20

AtLeast(n, floor) == IF n >= floor THEN n ELSE floor

flushAt == AtLeast(IF FlushAtOption = 0 THEN DEFAULT_FLUSH_AT ELSE FlushAtOption, 1)

maxBatchSize == AtLeast(MaxBatchSizeOption, 1)

\* Mutant of maxQueueSize: the cap is not floored at the flush threshold.
maxQueueSize_NotFloored == AtLeast(MaxQueueSizeOption, 1)

maxQueueSize == AtLeast(MaxQueueSizeOption, flushAt)

Elements(s) == {s[i] : i \in 1..Len(s)}

InFlightEvents == UNION {Elements(b) : b \in inFlight}

(* The slices of at most maxBatchSize events that one drain sends.         *)
Batches(s) ==
    {SubSeq(s, i, IF i + maxBatchSize - 1 <= Len(s) THEN i + maxBatchSize - 1 ELSE Len(s)) :
        i \in {k \in 1..Len(s) : (k - 1) % maxBatchSize = 0}}

---------------------------------------------------------------------------
QueueInit ==
    /\ minted = 0
    /\ buffer = <<>>
    /\ intervalTimer = FALSE
    /\ pendingFlush = FALSE
    /\ inFlight = {}
    /\ settled = {}
    /\ dropped = {}

\* Mutant of ArmTimers: the size trigger returns before any timer is armed.
ArmTimers_SizeOnly(n) ==
    /\ pendingFlush' = (pendingFlush \/ n >= flushAt)
    /\ UNCHANGED intervalTimer

(* scheduleFlush when the buffer has reached the threshold, armInterval    *)
(* otherwise: each leaves a timer that is already armed alone.             *)
ArmTimers(n) ==
    IF n >= flushAt
    THEN pendingFlush' = TRUE /\ UNCHANGED intervalTimer
    ELSE intervalTimer' = (intervalTimer \/ ~pendingFlush) /\ UNCHANGED pendingFlush

ClearTimers == intervalTimer' = FALSE /\ pendingFlush' = FALSE

\* Mutant of Enqueue: a full buffer refuses the new event.
Enqueue_DropNewest ==
    /\ minted < MaxEvents
    /\ minted' = minted + 1
    /\ LET full == Len(buffer) >= maxQueueSize
       IN  /\ buffer' = IF full THEN buffer ELSE Append(buffer, minted')
           /\ dropped' = IF full THEN dropped \cup {minted'} ELSE dropped
    /\ ArmTimers(Len(buffer'))
    /\ UNCHANGED <<inFlight, settled>>

Enqueue ==
    /\ minted < MaxEvents
    /\ minted' = minted + 1
    /\ LET full == Len(buffer) >= maxQueueSize
       IN  /\ buffer' = Append(IF full THEN Tail(buffer) ELSE buffer, minted')
           /\ dropped' = IF full THEN dropped \cup {Head(buffer)} ELSE dropped
    /\ ArmTimers(Len(buffer'))
    /\ UNCHANGED <<inFlight, settled>>

\* Mutant of DrainAndSend: one slice leaves, the rest of the backlog is forgotten.
DrainAndSend_FirstSliceOnly ==
    /\ ClearTimers
    /\ buffer' = <<>>
    /\ inFlight' = inFlight \cup
          {b \in Batches(buffer) : buffer # <<>> /\ b[1] = Head(buffer)}
    /\ UNCHANGED <<minted, settled, dropped>>

\* Mutant of DrainAndSend: the backlog leaves as one batch, whatever its size.
DrainAndSend_Unsliced ==
    /\ ClearTimers
    /\ buffer' = <<>>
    /\ inFlight' = inFlight \cup ({buffer} \ {<<>>})
    /\ UNCHANGED <<minted, settled, dropped>>

(* Every trigger routes here: both timers are cleared, and the whole       *)
(* buffer leaves as slices, each tracked until its delivery settles.       *)
DrainAndSend ==
    /\ ClearTimers
    /\ buffer' = <<>>
    /\ inFlight' = inFlight \cup Batches(buffer)
    /\ UNCHANGED <<minted, settled, dropped>>

IntervalFires == intervalTimer /\ DrainAndSend

PendingFlushFires == pendingFlush /\ DrainAndSend

(* drain(): take everything without sending it.                            *)
Drain ==
    /\ ClearTimers
    /\ buffer' = <<>>
    /\ dropped' = dropped \cup Elements(buffer)
    /\ UNCHANGED <<minted, inFlight, settled>>

(* A delivery settles, resolved or rejected: track() treats both alike.    *)
Settle(b) ==
    /\ b \in inFlight
    /\ inFlight' = inFlight \ {b}
    /\ settled' = settled \cup Elements(b)
    /\ UNCHANGED <<minted, buffer, intervalTimer, pendingFlush, dropped>>

QueueNext ==
    \/ Enqueue
    \/ IntervalFires
    \/ PendingFlushFires
    \/ DrainAndSend
    \/ Drain
    \/ \E b \in inFlight : Settle(b)

QueueFairness == WF_queueVars(IntervalFires) /\ WF_queueVars(PendingFlushFires)

QueueSpec == QueueInit /\ [][QueueNext]_queueVars /\ QueueFairness

---------------------------------------------------------------------------
(* Whenever an event is buffered some timer will drain it, at or above the *)
(* threshold (so at the cap, too) the deferred flush is the one armed, and *)
(* an empty buffer has no timer left that could hold the process open.     *)
WakeupArmed ==
    /\ buffer # <<>> => intervalTimer \/ pendingFlush
    /\ Len(buffer) >= flushAt => pendingFlush
    /\ Len(buffer) = maxQueueSize => pendingFlush
    /\ buffer = <<>> => ~intervalTimer /\ ~pendingFlush

(* Every enqueued event has exactly one fate: buffered, in flight,         *)
(* settled, or discarded.                                                  *)
OneFate ==
    /\ 1..minted = Elements(buffer) \cup InFlightEvents \cup settled \cup dropped
    /\ Elements(buffer) \cap (InFlightEvents \cup settled \cup dropped) = {}
    /\ InFlightEvents \cap (settled \cup dropped) = {}
    /\ settled \cap dropped = {}

(* The queue keeps the promise of the abstract buffer, with its timers,    *)
(* slices and deliveries hidden.                                           *)
Buffer == INSTANCE DropOldestBuffer
            WITH Capacity <- maxQueueSize, accepted <- minted, waiting <- buffer,
                 released <- InFlightEvents \cup settled, lost <- dropped
ImplementsBuffer == Buffer!BufferSpec
=============================================================================
