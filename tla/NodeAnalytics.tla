--------------------------- MODULE NodeAnalytics ---------------------------
(* ts/packages/node/src/node-analytics.ts: the node client around the batch *)
(* queue.  Captures and trait updates are enqueued until shutdown; flush    *)
(* and shutdown are asynchronous, and several flushes may wait at once.     *)
EXTENDS BatchQueue

CONSTANT Callers           \* the callers of flush()

VARIABLES stopped,         \* set first thing by shutdown()
          shutdown,        \* where the shutdown() call is
          awaiting,        \* the deliveries each pending flush() waits for
          shutdownAwaits   \* the deliveries the drain loop waits for

lifecycleVars == <<stopped, shutdown, awaiting, shutdownAwaits>>
vars == <<queueVars, lifecycleVars>>

NotFlushing == [pending |-> FALSE, batches |-> {}, upTo |-> 0]

Init ==
    /\ QueueInit
    /\ stopped = FALSE
    /\ shutdown = "none"
    /\ awaiting = [c \in Callers |-> NotFlushing]
    /\ shutdownAwaits = {}

---------------------------------------------------------------------------
\* Mutant of Accepts: the verbs forget the stopped guard.
Accepts_Always == TRUE

Accepts == ~stopped

(* capture, setTraits and setGroupTraits: a property bag the allowlist     *)
(* refuses changes nothing, so only the accepted calls are steps.          *)
Capture == Accepts /\ Enqueue /\ UNCHANGED lifecycleVars

TimerFires == (IntervalFires \/ PendingFlushFires) /\ UNCHANGED lifecycleVars

DeliverySettles == (\E b \in inFlight : Settle(b)) /\ UNCHANGED lifecycleVars

\* Mutant of AwaitSet: the flush waits only for the deliveries it triggered.
AwaitSet_OwnOnly == inFlight' \ inFlight

(* flushNow waits for its own deliveries and for every earlier one.        *)
AwaitSet == inFlight'

(* upTo records how many events had been captured when flush was called.   *)
FlushCall(c) ==
    /\ ~awaiting[c].pending
    /\ DrainAndSend
    /\ awaiting' = [awaiting EXCEPT
          ![c] = [pending |-> TRUE, batches |-> AwaitSet, upTo |-> minted]]
    /\ UNCHANGED <<stopped, shutdown, shutdownAwaits>>

FlushReturn(c) ==
    /\ awaiting[c].pending
    /\ awaiting[c].batches \cap inFlight = {}
    /\ awaiting' = [awaiting EXCEPT ![c] = NotFlushing]
    /\ UNCHANGED <<queueVars, stopped, shutdown, shutdownAwaits>>

---------------------------------------------------------------------------
\* Mutant of ShutdownCall: shutdown quiesces without running the drain loop.
ShutdownCall_NoLoop ==
    /\ ~stopped
    /\ stopped' = TRUE
    /\ shutdown' = "resolved"
    /\ Drain
    /\ UNCHANGED <<awaiting, shutdownAwaits>>

ShutdownCall ==
    /\ ~stopped
    /\ stopped' = TRUE
    /\ shutdown' = "looping"
    /\ UNCHANGED <<queueVars, awaiting, shutdownAwaits>>

(* while (queue.size > 0) await queue.flushNow()                           *)
DrainLoopFlushes ==
    /\ shutdown = "looping" /\ buffer # <<>>
    /\ DrainAndSend
    /\ shutdownAwaits' = inFlight'
    /\ shutdown' = "flushing"
    /\ UNCHANGED <<stopped, awaiting>>

DrainLoopResumes ==
    /\ shutdown = "flushing"
    /\ shutdownAwaits \cap inFlight = {}
    /\ shutdown' = "looping"
    /\ UNCHANGED <<queueVars, stopped, awaiting, shutdownAwaits>>

(* The loop found the buffer empty: the race is won, the finally drains.   *)
ShutdownResolves ==
    /\ shutdown = "looping" /\ buffer = <<>>
    /\ shutdown' = "resolved"
    /\ Drain
    /\ UNCHANGED <<stopped, awaiting, shutdownAwaits>>

\* Mutant of ShutdownTimesOut: the drain loop is not raced against a timeout.
ShutdownTimesOut_Never == FALSE /\ UNCHANGED vars

(* The timeout wins the race while a delivery is awaited; the finally      *)
(* drains, and what the abandoned loop finds later is an empty buffer.     *)
ShutdownTimesOut ==
    /\ shutdown = "flushing"
    /\ shutdown' = "timedOut"
    /\ Drain
    /\ UNCHANGED <<stopped, awaiting, shutdownAwaits>>

Next ==
    \/ Capture
    \/ TimerFires
    \/ DeliverySettles
    \/ \E c \in Callers : FlushCall(c) \/ FlushReturn(c)
    \/ ShutdownCall
    \/ DrainLoopFlushes
    \/ DrainLoopResumes
    \/ ShutdownResolves
    \/ ShutdownTimesOut

(* Timers fire and promise continuations run.  Nothing is assumed of the   *)
(* network: a delivery may hang for ever.                                  *)
Fairness ==
    /\ WF_vars(TimerFires)
    /\ WF_vars(DrainLoopFlushes)
    /\ WF_vars(DrainLoopResumes)
    /\ WF_vars(ShutdownResolves)
    /\ WF_vars(ShutdownTimesOut)

Spec == Init /\ [][Next]_vars /\ Fairness

---------------------------------------------------------------------------
TypeOK ==
    /\ minted \in 0..MaxEvents
    /\ buffer \in Seq(1..MaxEvents) /\ Len(buffer) <= maxQueueSize
    /\ intervalTimer \in BOOLEAN /\ pendingFlush \in BOOLEAN
    /\ \A b \in inFlight : b \in Seq(1..MaxEvents) /\ Len(b) \in 1..maxBatchSize
    /\ settled \subseteq 1..MaxEvents /\ dropped \subseteq 1..MaxEvents
    /\ stopped \in BOOLEAN
    /\ shutdown \in {"none", "looping", "flushing", "resolved", "timedOut"}
    /\ DOMAIN awaiting = Callers
    /\ \A c \in Callers : awaiting[c].pending \in BOOLEAN /\ awaiting[c].upTo \in 0..MaxEvents

(* When flush() returns, every event captured before it was called has     *)
(* been delivered or discarded, whoever triggered the delivery.            *)
FlushCoversEarlier ==
    [][\A c \in Callers :
          awaiting[c].pending /\ ~awaiting'[c].pending =>
              1..awaiting[c].upTo \subseteq settled \cup dropped]_vars

(* Once shutdown has started no event is accepted, and once it has ended   *)
(* the client is quiet: nothing is buffered, no timer is armed, and no     *)
(* delivery starts, whatever is called afterwards.                         *)
ShutdownQuiesces ==
    [][/\ stopped => minted' = minted /\ stopped'
       /\ shutdown \in {"resolved", "timedOut"} =>
             /\ buffer' = <<>> /\ ~intervalTimer' /\ ~pendingFlush'
             /\ inFlight' \subseteq inFlight]_vars

(* A shutdown discards nothing, on time or not: what was buffered when it  *)
(* was called has been handed to a delivery.                               *)
ShutdownDiscardsNothing == [][stopped' => dropped' = dropped]_vars

(* shutdown() always settles, even when a delivery never does.             *)
ShutdownSettles == stopped ~> shutdown \in {"resolved", "timedOut"}
=============================================================================
