-------------------------- MODULE BrowserDelivery --------------------------
(* How an event leaves the browser (ts/packages/browser/src): the request   *)
(* queue, the retry queue, its durable mirror and the adapter that ties     *)
(* them to consent, the server's cool-off, page unload and reload.  One tab *)
(* with an ingest target; an event is a number in capture order and a batch *)
(* a set of events.  A send goes through three phases: "reheld" (the send   *)
(* found a cool-off; a promise job is about to hold the batch again),       *)
(* "encoding" (awaiting the gzip stream) and "posted" (awaiting the answer). *)
EXTENDS Naturals, Sequences, FiniteSets, Functions

CONSTANTS flushAt,                  \* size trigger of the request queue
          MAX_RETRIES,              \* DEFAULT_MAX_RETRIES, 10 in the code
          STATUS_ZERO_MAX_RETRIES,  \* the budget of network failures, 3 in the code
          maxBatches,               \* batches the durable mirror keeps, 100 in the code
          consentDefault,           \* how a pending decision resolves
          MaxEvents, MaxDecisions, MaxCrashes   \* bounds

ASSUME DeliveryAssumption ==
    /\ {flushAt, maxBatches, MAX_RETRIES} \subseteq Nat \ {0}
    /\ STATUS_ZERO_MAX_RETRIES \in Nat
    /\ STATUS_ZERO_MAX_RETRIES <= MAX_RETRIES
    /\ consentDefault \in {"granted", "denied"}
    /\ {MaxEvents, MaxDecisions, MaxCrashes} \subseteq Nat

VARIABLES
    alive,          \* the page is loaded
    buffer, flushTimer,            \* RequestQueue
    retry, polling, online, bound, \* RetryQueue; bound: its online/offline listeners
    sends,          \* the sendBatchWithRetry calls under way
    coolingOff,     \* RateLimiter: the server's cool-off window is open
    listening, unloadDrained,      \* the unload listeners and their latch
    consent, mirror,               \* localStorage: the decision, the offline queue
    netUp,          \* navigator.onLine
    minted,         \* history: events captured are 1..minted
    fate,           \* history: what became of each event
    posts,          \* history: requests this page made for each event
    forsworn,       \* history: captured before a denial
    leaked,         \* history: forsworn, yet handed to the network after the denial
    decisions, crashes             \* bounded counters

queues == <<buffer, flushTimer, retry, polling, sends>>
connection == <<online, bound, netUp>>
unloading == <<listening, unloadDrained>>
durable == <<consent, mirror>>
bounds == <<decisions, crashes>>
vars == <<alive, queues, connection, coolingOff, unloading, durable, bounds,
          minted, fate, posts, forsworn, leaked>>

Event == 1..MaxEvents
Batch == (SUBSET Event) \ {{}}
Held == [batch : Batch, attempt : 0..MAX_RETRIES]
Statuses == {"accepted", "refused", "transient", "network"}

EventsOf(held) == UNION {h.batch : h \in held}
Batches(queue) == [i \in DOMAIN queue |-> queue[i].batch]
Decided(events, verdict) == [e \in Event |-> IF e \in events THEN verdict ELSE fate[e]]

(* captureSuppressed: resolveOptedOut over the live decision.               *)
Suppressed == consent = "denied" \/ (consent = "pending" /\ consentDefault # "granted")

(* A promise job runs before the next timer, answer or page event; only     *)
(* further calls of the same synchronous code come before it.               *)
JobsDone == \A s \in sends : s.phase # "reheld"

Init ==
    /\ alive = TRUE
    /\ buffer = {} /\ flushTimer = FALSE
    /\ retry = <<>> /\ polling = FALSE /\ sends = {}
    /\ netUp \in BOOLEAN /\ online = netUp /\ bound = TRUE
    /\ coolingOff = FALSE
    /\ listening = TRUE /\ unloadDrained = FALSE
    /\ consent \in {"pending", "granted", "denied"} /\ mirror = <<>>
    /\ minted = 0 /\ fate = [e \in Event |-> "unborn"]
    /\ posts = [e \in Event |-> 0]
    /\ forsworn = {} /\ leaked = {}
    /\ decisions = 0 /\ crashes = 0

---------------------------------------------------------------------------
(* The durable mirror.                                                      *)

\* Mutant of Persisted: the consent gate is left out.
Persisted_Ungated(queue) ==
    LET held == Batches(queue)
    IN  SubSeq(held, IF Len(held) > maxBatches THEN Len(held) - maxBatches + 1 ELSE 1, Len(held))

(* persist(snapshot): what the mirror holds afterwards.                     *)
Persisted(queue) ==
    LET held == Batches(queue)
        first == IF Len(held) > maxBatches THEN Len(held) - maxBatches + 1 ELSE 1
    IN  IF consent # "granted" THEN <<>> ELSE SubSeq(held, first, Len(held))

(* Sending: the synchronous part of sendBatchWithRetry.  A suppressed       *)
(* client's batch is dropped, one met by a cool-off is to be held again.    *)
Begun(held) ==
    IF Suppressed THEN {}
    ELSE {[batch |-> h.batch, attempt |-> h.attempt,
           phase |-> IF coolingOff THEN "reheld" ELSE "encoding"] : h \in held}

Begin(held) == sends' = sends \cup Begun(held)

FateAfterBegin(held) == IF Suppressed THEN Decided(EventsOf(held), "denied") ELSE fate

Fresh(events) == IF events = {} THEN {} ELSE {[batch |-> events, attempt |-> 0]}

(* The request queue hands its whole buffer over.                           *)
DrainAndSend(events) ==
    /\ buffer' = {} /\ flushTimer' = FALSE
    /\ Begin(Fresh(events))

\* Mutant of Enqueue: the interval is armed only when the queue was not idle.
Enqueue_UnarmedWhenIdle(e) ==
    IF Cardinality(buffer) + 1 >= flushAt
    THEN DrainAndSend(buffer \cup {e})
    ELSE /\ buffer' = buffer \cup {e}
         /\ flushTimer' = (buffer # {})
         /\ UNCHANGED sends

Enqueue(e) ==
    IF Cardinality(buffer) + 1 >= flushAt
    THEN DrainAndSend(buffer \cup {e})
    ELSE /\ buffer' = buffer \cup {e} /\ flushTimer' = TRUE
         /\ UNCHANGED sends

Mint == /\ ~Suppressed /\ minted < MaxEvents
        /\ minted' = minted + 1

(* capture(), past the bot filter and the client's own rate limit.          *)
Capture ==
    /\ alive /\ Mint
    /\ Enqueue(minted + 1)
    /\ fate' = Decided({minted + 1}, "held")
    /\ UNCHANGED <<alive, retry, polling, connection, coolingOff, unloading, durable,
                   bounds, posts, forsworn, leaked>>

Drained ==
    /\ DrainAndSend(buffer)
    /\ fate' = FateAfterBegin(Fresh(buffer))
    /\ UNCHANGED <<alive, retry, polling, connection, coolingOff, durable, bounds,
                   minted, posts, forsworn, leaked>>

FlushTimerFires == alive /\ JobsDone /\ flushTimer /\ Drained /\ UNCHANGED unloading

Flush == alive /\ buffer # {} /\ Drained /\ UNCHANGED unloading

(* shutdown() unbinds the unload listeners and flushes.                     *)
Shutdown ==
    /\ alive /\ listening
    /\ listening' = FALSE
    /\ Drained
    /\ UNCHANGED unloadDrained

---------------------------------------------------------------------------
(* The outcome of a send.                                                   *)

Unaffected == UNCHANGED <<alive, buffer, flushTimer, connection, unloading, bounds,
                          minted, forsworn>>

(* COOLING_OFF: the batch goes back to the retry queue, its budget intact.  *)
Rehold(s) ==
    /\ s.phase = "reheld"
    /\ sends' = sends \ {s}
    /\ retry' = Append(retry, [batch |-> s.batch, attempt |-> s.attempt])
    /\ polling' = TRUE
    /\ mirror' = Persisted(retry')
    /\ UNCHANGED <<coolingOff, consent, fate, posts, leaked>>
    /\ Unaffected

(* The encoder is done and the request goes out; consent was read before.   *)
Encoded(s) ==
    /\ JobsDone /\ s.phase = "encoding"
    /\ sends' = (sends \ {s}) \cup {[s EXCEPT !.phase = "posted"]}
    /\ posts' = [e \in Event |-> posts[e] + IF e \in s.batch THEN 1 ELSE 0]
    /\ leaked' = leaked \cup (s.batch \cap forsworn)
    /\ UNCHANGED <<retry, polling, coolingOff, durable, fate>>
    /\ Unaffected

maxRetriesForStatus(status) ==
    IF status = "network" THEN STATUS_ZERO_MAX_RETRIES ELSE MAX_RETRIES

Retryable(s, status) ==
    status \in {"transient", "network"} /\ s.attempt < maxRetriesForStatus(status)

Verdict(status) ==
    CASE status = "accepted" -> "delivered"
      [] status = "refused" -> "rejected"
      [] OTHER -> "exhausted"

\* Mutant of ScheduleRetry: the failure is not counted.
ScheduleRetry_SameAttempt(s) ==
    /\ retry' = Append(retry, [batch |-> s.batch, attempt |-> s.attempt])
    /\ polling' = TRUE

\* Mutant of ScheduleRetry: the poller is not started again.
ScheduleRetry_PollerLeft(s) ==
    /\ retry' = Append(retry, [batch |-> s.batch, attempt |-> s.attempt + 1])
    /\ UNCHANGED polling

ScheduleRetry(s) ==
    /\ retry' = Append(retry, [batch |-> s.batch, attempt |-> s.attempt + 1])
    /\ polling' = TRUE

\* Mutant of Settle: only a failure rewrites the mirror.
Settle_NoPrune(s, status) ==
    IF Retryable(s, status)
    THEN ScheduleRetry(s) /\ UNCHANGED fate /\ mirror' = Persisted(retry')
    ELSE fate' = Decided(s.batch, Verdict(status)) /\ UNCHANGED <<retry, polling, mirror>>

\* Mutant of Settle: a batch stays queued for retry although it was decided.
Settle_AlwaysRetries(s, status) ==
    /\ IF status # "accepted" /\ s.attempt < MAX_RETRIES THEN ScheduleRetry(s)
       ELSE UNCHANGED <<retry, polling>>
    /\ fate' = IF Retryable(s, status) THEN fate ELSE Decided(s.batch, Verdict(status))
    /\ mirror' = Persisted(retry')

(* The tail of sendBatchWithRetry: retry or give the batch up, then mirror  *)
(* whatever the retry queue holds.                                          *)
Settle(s, status) ==
    /\ IF Retryable(s, status)
       THEN ScheduleRetry(s) /\ UNCHANGED fate
       ELSE fate' = Decided(s.batch, Verdict(status)) /\ UNCHANGED <<retry, polling>>
    /\ mirror' = Persisted(retry')

(* A completed exchange; its body may open the cool-off window.             *)
Answered(s, status, limited) ==
    /\ JobsDone /\ s.phase = "posted"
    /\ sends' = sends \ {s}
    /\ coolingOff' = (coolingOff \/ (limited /\ status # "network"))
    /\ Settle(s, status)
    /\ UNCHANGED <<consent, posts, leaked>>
    /\ Unaffected

(* The body cannot be read: the exception is swallowed, the batch with it.  *)
BodyUnreadable(s) ==
    /\ JobsDone /\ s.phase = "posted"
    /\ sends' = sends \ {s}
    /\ fate' = Decided(s.batch, "lost")
    /\ UNCHANGED <<retry, polling, coolingOff, durable, posts, leaked>>
    /\ Unaffected

---------------------------------------------------------------------------
(* The retry queue's poller and its online/offline listeners.               *)

Due(due) == {retry[i] : i \in due}
Rest(due) ==
    LET held[n \in 0..Len(retry)] ==
            IF n = 0 THEN <<>>
            ELSE IF n \in due THEN held[n - 1] ELSE Append(held[n - 1], retry[n])
    IN  held[Len(retry)]

FlushDue(due) ==
    /\ Begin(Due(due))
    /\ fate' = FateAfterBegin(Due(due))
    /\ retry' = Rest(due)

Asleep == UNCHANGED <<alive, buffer, flushTimer, coolingOff, unloading, durable, bounds,
                      minted, posts, forsworn, leaked>>

(* One tick: resend what is due, and tick on while the queue holds any.     *)
Poll(due) ==
    /\ alive /\ JobsDone /\ polling /\ online
    /\ FlushDue(due)
    /\ polling' = (retry' # <<>>)
    /\ UNCHANGED connection
    /\ Asleep

(* A tick while offline sends nothing and re-arms the timer unless idle.    *)
PollOffline ==
    /\ alive /\ JobsDone /\ polling /\ ~online
    /\ polling' = (retry # <<>>)
    /\ UNCHANGED <<retry, sends, fate, connection>>
    /\ Asleep

NetworkUp(due) ==
    /\ JobsDone /\ ~netUp
    /\ netUp' = TRUE
    /\ IF alive /\ bound
       THEN online' = TRUE /\ FlushDue(due)
       ELSE due = {} /\ UNCHANGED <<online, retry, sends, fate>>
    /\ UNCHANGED <<polling, bound>>
    /\ Asleep

NetworkDown ==
    /\ JobsDone /\ netUp
    /\ netUp' = FALSE
    /\ online' = (online /\ ~(alive /\ bound))
    /\ UNCHANGED <<retry, sends, fate, polling, bound>>
    /\ Asleep

CoolOffEnds ==
    /\ alive /\ JobsDone /\ coolingOff
    /\ coolingOff' = FALSE
    /\ UNCHANGED <<alive, queues, connection, unloading, durable, bounds,
                   minted, fate, posts, forsworn, leaked>>

---------------------------------------------------------------------------
(* Page unload: what both queues hold is beaconed, with no consent check.   *)

Beacon(events, left) ==
    /\ buffer' = {} /\ flushTimer' = FALSE
    /\ retry' = <<>> /\ polling' = FALSE
    /\ fate' = [e \in Event |->
                   IF e \in events \cup EventsOf(Range(retry)) THEN "beaconed"
                   ELSE IF e \in left THEN "held" ELSE fate[e]]
    /\ leaked' = leaked \cup ((events \cup EventsOf(Range(retry))) \cap forsworn)

HideStep ==
    /\ alive /\ JobsDone /\ listening /\ ~unloadDrained
    /\ unloadDrained' = TRUE
    /\ bound' = FALSE
    /\ UNCHANGED <<alive, online, netUp, coolingOff, listening, durable, bounds,
                   posts, forsworn>>

(* hidden, pagehide or beforeunload without a pageleave to mint.            *)
Hide ==
    /\ HideStep
    /\ Beacon(buffer, {})
    /\ UNCHANGED <<sends, minted>>

(* With one: it joins the beacon, unless it fills the buffer, which then    *)
(* goes the asynchronous way.                                               *)
HideWithPageleave ==
    /\ HideStep /\ Mint
    /\ IF Cardinality(buffer) + 1 >= flushAt
       THEN Begin(Fresh(buffer \cup {minted + 1})) /\ Beacon({}, {minted + 1})
       ELSE UNCHANGED sends /\ Beacon(buffer \cup {minted + 1}, {})

Show ==
    /\ alive /\ JobsDone /\ listening /\ unloadDrained
    /\ unloadDrained' = FALSE
    /\ UNCHANGED <<alive, queues, connection, coolingOff, listening, durable, bounds,
                   minted, fate, posts, forsworn, leaked>>

---------------------------------------------------------------------------
(* Consent.                                                                 *)

(* setConsentState("denied"): everything held is dropped; what is already   *)
(* being sent is not.                                                       *)
OptOut ==
    /\ alive /\ decisions < MaxDecisions
    /\ decisions' = decisions + 1
    /\ buffer' = {} /\ flushTimer' = FALSE
    /\ mirror' = <<>>
    /\ retry' = <<>> /\ polling' = FALSE /\ bound' = FALSE
    /\ consent' = "denied"
    /\ fate' = Decided(buffer \cup EventsOf(Range(retry)), "denied")
    /\ forsworn' = 1..minted
    /\ UNCHANGED <<alive, sends, online, netUp, coolingOff, unloading, crashes,
                   minted, posts, leaked>>

(* setConsentState("granted"); the identity store's promotion is elsewhere. *)
OptIn ==
    /\ alive /\ decisions < MaxDecisions /\ consent # "granted"
    /\ decisions' = decisions + 1
    /\ consent' = "granted"
    /\ UNCHANGED <<alive, queues, connection, coolingOff, unloading, mirror, crashes,
                   minted, fate, posts, forsworn, leaked>>

---------------------------------------------------------------------------
(* The page dies, at any moment, and is loaded again.                       *)

Mirrored == UNION Range(mirror)

Crash ==
    /\ alive /\ JobsDone /\ crashes < MaxCrashes
    /\ crashes' = crashes + 1
    /\ alive' = FALSE
    /\ buffer' = {} /\ flushTimer' = FALSE
    /\ retry' = <<>> /\ polling' = FALSE /\ sends' = {}
    /\ coolingOff' = FALSE
    /\ fate' = [e \in Event |->
                   IF fate[e] # "held" THEN fate[e]
                   ELSE IF e \in Mirrored THEN "mirrored" ELSE "lost"]
    /\ UNCHANGED <<connection, unloading, durable, decisions, minted, posts, forsworn, leaked>>

(* The adapter's constructor: the mirror is read and cleared, and its       *)
(* batches scheduled as after a first failure.                              *)
Load ==
    /\ ~alive
    /\ alive' = TRUE
    /\ online' = netUp /\ bound' = TRUE
    /\ listening' = TRUE /\ unloadDrained' = FALSE
    /\ retry' = IF consent # "granted" THEN <<>>
                ELSE [i \in DOMAIN mirror |-> [batch |-> mirror[i], attempt |-> 1]]
    /\ fate' = Decided(Mirrored, IF consent # "granted" THEN "denied" ELSE "held")
    /\ mirror' = <<>>
    /\ polling' = (retry' # <<>>)
    /\ posts' = [e \in Event |-> 0]
    /\ UNCHANGED <<buffer, flushTimer, sends, netUp, coolingOff, consent, bounds,
                   minted, forsworn, leaked>>

---------------------------------------------------------------------------
Next ==
    \/ Capture
    \/ FlushTimerFires
    \/ Flush
    \/ Shutdown
    \/ \E s \in sends :
          \/ Rehold(s)
          \/ Encoded(s)
          \/ \E status \in Statuses, limited \in BOOLEAN : Answered(s, status, limited)
          \/ BodyUnreadable(s)
    \/ \E due \in SUBSET (DOMAIN retry) : Poll(due) \/ NetworkUp(due)
    \/ PollOffline
    \/ NetworkDown
    \/ CoolOffEnds
    \/ Hide
    \/ HideWithPageleave
    \/ Show
    \/ OptOut
    \/ OptIn
    \/ Crash
    \/ Load

Spec == Init /\ [][Next]_vars

(* Promise jobs run; the poll timer keeps firing, and retry times pass.     *)
Fairness ==
    /\ WF_vars(\E s \in sends : Rehold(s))
    /\ WF_vars(\E due \in SUBSET (DOMAIN retry) : due # {} /\ Poll(due))

FairSpec == Spec /\ Fairness

---------------------------------------------------------------------------
Fates == {"unborn", "held", "delivered", "rejected", "exhausted", "denied",
          "beaconed", "mirrored", "lost"}

TypeOK ==
    /\ {alive, flushTimer, polling, online, bound, coolingOff, listening,
        unloadDrained, netUp} \subseteq BOOLEAN
    /\ buffer \subseteq Event /\ Cardinality(buffer) < flushAt
    /\ Range(retry) \subseteq Held
    /\ \A s \in sends : /\ [batch |-> s.batch, attempt |-> s.attempt] \in Held
                        /\ s.phase \in {"reheld", "encoding", "posted"}
    /\ consent \in {"pending", "granted", "denied"}
    /\ Range(mirror) \subseteq Batch /\ Len(mirror) <= maxBatches
    /\ minted \in 0..MaxEvents
    /\ fate \in [Event -> Fates]
    /\ posts \in [Event -> Nat]
    /\ {forsworn, leaked} \subseteq SUBSET (1..minted)
    /\ decisions \in 0..MaxDecisions /\ crashes \in 0..MaxCrashes

Copies(e) ==
    Cardinality({p \in {"buffer"} : e \in buffer})
    + Cardinality({s \in sends : e \in s.batch})
    + Cardinality({i \in DOMAIN retry : e \in retry[i].batch})

(* An event the page still owes is in exactly one place -- the buffer, one  *)
(* send, or one entry of the retry queue -- and an event that was decided,  *)
(* beaconed or lost is in none: hand-overs between the queues neither copy  *)
(* nor mislay an event, whatever interleaves with them.                     *)
HeldOnce ==
    alive => \A e \in Event : Copies(e) = IF fate[e] = "held" THEN 1 ELSE 0

(* Whatever is buffered has the interval armed, whatever waits for a retry  *)
(* has the poller running: no teardown leaves a queue asleep with events.   *)
QueuesAwake == (buffer # {} => flushTimer) /\ (retry # <<>> => polling)

(* Only a granted client leaves events in durable storage, answers that     *)
(* arrive after the denial included.                                        *)
DurableOnlyWhenGranted == consent # "granted" => mirror = <<>>

Settled == {"delivered", "rejected", "exhausted", "denied"}

(* What was delivered, rejected, given up or denied is never resent, by a   *)
(* reload from the durable mirror or otherwise: the decision is final.      *)
DecisionsAreFinal ==
    [][\A e \in Event : fate[e] \in Settled => fate'[e] = fate[e]]_vars

(* A page requests an event at most once more than the retry budget.        *)
RetryBudget == \A e \in Event : posts[e] <= MAX_RETRIES + 1

(* A page that stays up, whose retry queue believes it is online, drains    *)
(* it: the poller cannot fall asleep for good.                              *)
RetriesDrain ==
    <>[](alive /\ online) => []<>(retry = <<>> \/ coolingOff)

(* "events captured before the opt-out must not leave the app"              *)
DenialHolds == leaked = {}
=============================================================================
