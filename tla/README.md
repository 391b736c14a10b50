# TLA+ models of analytics-kit

analytics-kit is a client toolkit for product analytics: a browser SDK, a Node
SDK and a Python SDK behind one neutral interface, each with its own delivery
machinery, plus feature flags, session replay, a receiver that stores events
and a query client. This directory holds TLA+ models of the parts of it where
order, concurrency and failure decide whether an event arrives, TLC
configurations that check them, and TLAPS proofs about them. `PROJECT.json`
lists the components, the runs, the source lines each definition models, the
hazards and the theorems.

    tlc -workers 2 -config NodeAnalytics.cfg NodeAnalytics.tla
    tlapm NodeAnalyticsProofs.tla

Paths below are relative to `src/ts/packages` (TypeScript) and
`src/python/src/analytics_kit` (Python).

## 1. Inventory

| Component | State | Operations | What is hard |
|---|---|---|---|
| Node batch queue, `node/src/batch-queue.ts` | buffer, interval timer, pending-flush timer, deliveries in flight | enqueue, drain-and-send, flushNow, drain, track | two timers and a size trigger over one buffer; drop-oldest at the cap; a flush covering deliveries it did not start |
| Node client, `node/src/node-analytics.ts` | `stopped`, the queue | capture, setTraits, setGroupTraits, flush, shutdown | shutdown raced against a timeout while flushes and captures interleave |
| Node delivery, `node/src/send-batch.ts` | position, slice size, attempt | slice, post, retry, halve on 413 | the index and the slice size move together; retries, halvings and slices multiply |
| Flag definition poller, `node/src/flags/local/definition-poller.ts`; Python twin | snapshot, timer, load under way, `stopped` | start, tick, load, stop | loads slower than the interval; late answers; stop during a load |
| Browser delivery, `browser/src/{request-queue,retry-queue,offline-queue,rate-limiter,back-pressure-interpreter,browser-adapter}.ts` | two queues, a poller, listeners, a durable mirror, a cool-off window | capture, flush, send, answer, poll, unload, opt-in/out, reload | awaits between a check and its use; unload by beacon; crash between storage and memory; consent changing under sends |
| Browser sessions and replay, `browser/src/{session-id-manager,replay-recorder,replay-sampling,replay-transport}.ts` | stored session, entry record, recorder segment, snapshot buffer | capture, rotate, reset, start, load, flush, stop | an asynchronous import racing stop and rotation; sampling per session |
| Browser identity and storage, `browser/src/{identity-store,persistence-store,storage-backends,consent}.ts` | ids, super-properties, debounce timer, cookie and localStorage entries, stored consent | identify, setTraits, group, reset, register, unregister, opt-in/out, open, close | debounced writes and crashes; promotion at opt-in; storage shared by tabs and by the sites of a domain |
| Event pipeline, `browser/src/{browser-adapter,wire-mapper,persistence-keys}.ts` | none | merge properties, map to the wire | library state and consumer properties in one bag |
| Browser flag client, `browser/src/feature-flags.ts` | cache, load in flight, listeners | evaluate, onChange | a forced evaluation chained on a load for another identity; throwing listeners |
| Flag evaluation, `node/src/flags/**`; Python `flags/**` | first set, listeners | match property, cohort, bucket, evaluate locally or remotely, onChange | conditions that cannot be decided, range and band boundaries, overlapping calls |
| Python consumer and transport, `server/{consumer,transport}.py` | deque, condition, daemon thread, `running`, `stopped` | enqueue, flush, run, shutdown, deliver | three kinds of threads draining one deque; deadline waits; a raising delivery |
| Receiver, `node/src/receiver/*`, `receiver/*.py` | the event table | receive, upsert by uuid | at-least-once senders; a batch that fails as a whole |
| Query clients, `node/src/query/*`, `query/*.py` | none but a poll loop | build, send, poll, parse | the poll's give-up |
| Seam, `analytics-kit/src/*`; Python provider and integrations; React hooks | the adapter in use, a context variable | delegate | which adapter a call reaches under which consent |
| Autocapture, detection, compression | listeners | shape one event | string and DOM detail |

Interactions. In Node and Python the client enqueues, the queue slices and hands
each slice to a delivery (a promise; a call on the thread that drained), and the
delivery talks to the server. In the browser the adapter is the hub: the request
queue hands it batches, it consults consent and the rate limiter, encodes, posts,
classifies the answer and gives failures to the retry queue, whose contents it
mirrors to local storage. Unload events, connectivity events, poll timers and
consent calls all enter the same objects between any two awaits. The session
manager stamps captures and tells the replay recorder of rotations.

What makes each correct: no accepted event is in two places or in none; whatever
is buffered has something that will wake it; every give-up is one the code
means (cap, budget, consent); shutdown ends, ends quiet and loses nothing;
durable storage holds only what consent allows; a stale asynchronous completion
changes nothing; at most one recorder, request or load at a time where the code
says one.

## 2. Modules

| Module | Models | Lines it stands on |
|---|---|---|
| `DropOldestBuffer` | the promise of a bounded drop-oldest buffer: abstract, names no mechanism | the contract shared by both queues |
| `BatchQueue` | the Node queue: buffer, two timers, deliveries in flight | `node/src/batch-queue.ts` |
| `NodeAnalytics` | extends `BatchQueue` with callers of `flush` and the shutdown machine | `node/src/node-analytics.ts` |
| `SendBatch` | one delivery: slices, retries, halving | `node/src/send-batch.ts` |
| `EventTable` | the promise of the receiver: one row per uuid, the first stands | the contract of the upsert |
| `Receiver` | one request on the events table | `node/src/receiver/*.ts` |
| `Delivery` | extends `SendBatch` with the network and an instance of `Receiver` | both, and `node/src/wire-mapper.ts` |
| `DefinitionPoller` | the poller and the server that publishes | `node/src/flags/local/definition-poller.ts` |
| `FlagEvaluation` | the evaluator, a pure function of definition, actor and cohorts | `node/src/flags/local/*.ts` |
| `LocalFlags`, `MCLocalFlags` | extend both with the client: overlapping calls, round-trips, bootstrap, listeners | `node/src/flags/{http-flag-adapter,create-flag-client}.ts` |
| `BrowserDelivery` | one tab: queues, mirror, consent, cool-off, unload, crash and reload | `browser/src/*queue.ts`, `browser-adapter.ts` |
| `BatchConsumer` | threads over one lock: callers, daemon, shutdown | `server/consumer.py`, `transport.py` |
| `SessionReplay` | session ids, session records and the recorder | `session-id-manager.ts`, `replay-recorder.ts`, `browser-adapter.ts` |
| `PropertyStore` | the property store's operations over its backends | `persistence-store.ts`, `storage-backends.ts`, `cookie-domain.ts` |
| `EventPipeline` | what is merged into an event and what of it the mapper lets out | `browser-adapter.ts`, `wire-mapper.ts`, `persistence-keys.ts` |
| `BrowserIdentity`, `MCBrowserIdentity` | extend both with the pages of one browser: identity, consent, the facade's verbs | `identity-store.ts`, `consent.ts`, `browser-adapter.ts`, `analytics-provider.ts` |
| `BrowserFlags` | the browser flag client | `browser/src/feature-flags.ts` |
| `NodeAnalyticsProofs`, `BatchConsumerProofs`, `DeliveryProofs`, `LocalFlagsProofs`, `BrowserDeliveryProofs`, `BrowserIdentityProofs`, `BrowserFlagsProofs`, `SessionReplayProofs` | theorems about the module each is named for; `NodeAnalyticsProofs` about `BatchQueue` too, `DeliveryProofs` about `SendBatch` | |

Components are composed by extension where one object holds another
(`NodeAnalytics` holds its queue, `LocalFlags` its poller, `BrowserIdentity` its
store and pipeline): the actions of the outer module are conjunctions of
operations of the inner one and of its own state. `Delivery` is two processes
and a network, so it instantiates the receiver over the table it shares with it.
`BatchQueue` and `BatchConsumer` each instantiate `DropOldestBuffer` under a
refinement mapping, `Delivery` instantiates `EventTable`.

### How state and actions correspond to the code

*Events* are the numbers 1, 2, ... in capture order: no property tells two
payloads apart, and a number carries the order that drop-oldest and
`FlushCoversEarlier` are about. *Batches* are sequences where order matters and
sets where it does not.

*Steps.* JavaScript runs to completion, so an action is everything from one
entry into the event loop to the next await: a timer callback, a promise
continuation or a public call. A drain that hands over six slices in one
synchronous loop is one action. Where an await separates a check from its use
(`sendBatchWithRetry` checks consent, awaits the encoder and posts) the model has
a phase for it: `"reheld"`, `"encoding"`, `"posted"` in `BrowserDelivery`.
Promise jobs run before timers and page events (`JobsDone`). In Python a step is
one critical section of the consumer's lock, and any thread may run between two
of them; the slice a thread has popped and not yet delivered is its `hand`.

*Flags.* A property value is what the code's conversions read in it (text, number,
version, date), so that the operators of a filter are defined on conversions that
can fail and not on strings. A throw of the evaluator is an outcome beside "yes"
and "no". An actor has its bucket numbers; the hash that gives them is external.

*Identity.* A page is a record of what its objects hold: properties, backend,
armed save, cached identity, consent. What survives it is `disk` and `consent`.
A property bag is a function from keys to values, one key standing for each
group of properties that the library computes. Capture is a set of outcomes
(dropped, sent, sent with the session's write pending), because the bot filter
and the token bucket are not modelled.

*History variables* (`settled`, `dropped`, `fate`, `posts`, `sent`, `cut`, `carried`,
`missedTick`, `links`, `orderly`, `kept`, the fields `answered` and `answer` of a call,
`ground` of a page, `first` of an entry ...) record what the outside has seen; no
guard reads them.

*Options* of a constructor that a run should vary are drawn in `Init`
(`SendBatch`'s slice size, `BatchConsumer`'s sync mode, `LocalFlags`' configuration,
the browser and the storage mode of `BrowserIdentity`); those that fix the
size of the instance are CONSTANTS with the code's floors applied as operators
(`maxQueueSize` is the option raised to `flushAt`, as the constructor does).

The module-level comments and the `map` of `PROJECT.json` give the line of each
definition. An operator named `X_Something` with a comment "Mutant of X" is a
plausible bug in `X`; it is used by no behaviour, and replacing `X` by it breaks
the property `PROJECT.json` names.

## 3. Runs

| Run | Configuration | Instance |
|---|---|---|
| `node_client` | `NodeAnalytics.cfg` | 5 events, flush at 3, slices of 2, a cap option of 1 (floored to 3), two callers of flush, one shutdown |
| `send_batch` | `Delivery.cfg` | batches of up to 3 records with any sharing of uuids, one faulty, one late request, one retry |
| `local_flags` | `LocalFlags.cfg` | 24 configurations, two callers, two listeners, two published versions |
| `browser_delivery` | `BrowserDelivery.cfg` | 2 events, flush at 2, budgets 3 and 2, a mirror of 1, one consent decision, one crash |
| `browser_identity` | `BrowserIdentity.cfg` | 2 tabs, 3 page loads, 3 calls, 5 minted ids, 2 users, 4 browsers, two of them on two sites |
| `browser_flags` | `BrowserFlags.cfg` | 3 evaluations, 2 listeners, 2 visitors, one switch |
| `batch_consumer` | `BatchConsumer.cfg` | 4 events, 2 caller threads and the daemon, one shutdown with its timeout |
| `session_replay` | `SessionReplay.cfg` | 3 sessions with every sampling, 2 snapshots, 2 starts, 2 reloads |
| `poller_stall` | `PollerStall.cfg` | a violation, see section 5 |
| `browser_denial` | `BrowserDenial.cfg` | a violation |
| `opted_out_writes` | `BrowserOptOut.cfg` | a violation |
| `daemon_dies` | `ConsumerDaemon.cfg` | a violation |

What the passing runs show:

* `NodeAnalytics`: `TypeOK`, `WakeupArmed` (a non-empty buffer always has a
  timer), `OneFate` (each event is buffered, in flight, settled or dropped,
  exactly one), `FlushCoversEarlier` (a flush that returned covers every event
  captured before it), `ShutdownQuiesces`, `ShutdownDiscardsNothing`,
  `ShutdownSettles`, `ImplementsBuffer`.
* `Delivery`: `EveryRecordDecided` (records leave a delivery once each, all of them
  when it resolves; it rejects only at a record that cannot be serialised),
  `PostBudget` (a bound on the requests of one delivery, logarithmic in the slice
  size), `AcceptedIsStored` (what the sender
  is told was accepted has its row), `StoredWithoutRefused` (a slice enters the
  table whole or not at all), `ImplementsEventTable` (one row per uuid, written
  once, whatever is retried, re-sliced or arrives late).
* `LocalFlags`: `DecisionStands` (a flag decided from part of what is known of
  an actor is on or off as the whole would decide it: nothing undecided is
  passed over), `NotDegradedIsAnswered` (a set that does not say it is degraded is the
  server's answer over the local decisions, and lacks a wanted flag only if the server
  was asked for it and left it out), `EachListenerOnce`,
  `VariantsGetTheirShare` and `RangesKeepCompatible` (the bands of variants and
  the version ranges against their reference definitions),
  `LocalPollsUnlessTickMissed`.
* `BrowserDelivery`: `HeldOnce` (an event the page owes is in exactly one
  queue or send), `QueuesAwake`, `DurableOnlyWhenGranted`, `RetryBudget`,
  `DecisionsAreFinal` (nothing decided is ever resent, reloads included),
  `RetriesDrain`.
* `BrowserIdentity`: `TypeOK` (which says, too, that the identity a page caches is
  the one its store holds), `OneUserPerAnonymousId` (a visitor is merged into one
  user, a known user into none, and nobody goes on as a merged visitor),
  `ReloadKeepsIdentity` (a page goes on as the last one of its jar left off),
  `OnlyGrantOrOptInReachDisk` (only a page whose decision read granted, or, under a
  Do-Not-Track signal, one on which `optIn()` was called, changes what outlives it),
  `WireKeepsApart` (on every event an open page could send, registered properties and
  token are what they should be, `$groups` is the client's memberships or what the event
  itself has under `__ak_groups`, and nothing of the library's own rides). The links
  that `OneUserPerAnonymousId` is about are read off the wire events, so that the
  pipeline is part of what is checked.
* `BrowserFlags`: `ForcedIsFresh` (a forced evaluation has flags requested after
  its call, for its actor), `CommitsInOrder`, `EvaluationsSettle`.
* `BatchConsumer`: `OneFate`, `ShutdownQuiesces`, `DaemonKeepsDraining`,
  `ImplementsBuffer`.
* `SessionReplay`: `OneRecording` (a superseded import starts nothing),
  `SamplingDecides` (nothing of a sampled-out session is sent, everything of a
  sampled-in one is, once), `SessionRecordsAgree` (page view, entry snapshot and
  recorder are of the session last seen; the snapshot is that of the session's first
  event, but in a page that was loaded in the middle of it).

Type invariants that no run lists (`BrowserDelivery`, `BatchConsumer`, ...) are
stated in their modules and proved there (section 4).

### Bounds

* Node client: five events are two more than the cap, so the queue drops and
  then still fills, flushes and drains with slices of two and one; two callers
  let one flush return while another awaits.
* Delivery: three records halve twice and leave an odd remainder; the slice size
  is drawn below, at and above the batch length. `RETRY_COUNT` is 1, where the
  code has 3: a request, its one retry and a late copy of either meet in every
  order, and what another retry adds is the same again. `MaxFaulty` and `MaxLate`
  bound the records that cannot be serialised or stored and the requests that
  travel after the sender gave them up.
* Flags: each configuration of `MCConfigurations` is there for one thing (a kind
  of operator, the boundaries of ranges and bands, a fallback with and without
  bootstrap, with a throwing listener, fetched definitions with a cohort tree,
  a group flag and a dangling cohort, no local definitions at all); a caller's
  context gives any part of two properties. The server answers for every flag, for
  some with another value, which may be others than were asked for, or for none. `MaxVersion` 2 lets an answer of the
  first version be read while the second is published.
* Browser: two events make a batch of one (by timer, unload or opt-out) and of
  two (by size). The budgets keep the code's order (network below other) with
  room for both to be met by one batch. A mirror of one makes the cap bite as
  soon as two batches wait. One crash covers a mirror with, without and with
  part of the held events. `MaxDecisions` bounds opt-ins and opt-outs:
  `BrowserDenial.cfg` allows two.
* Identity: three loads give a page, its successor and a page of the other site
  between or beside them. Three calls (`MaxCalls`: those that change identity,
  properties or consent; captures are free) are the longest chain a property
  needs: identify, reset, identify, or opt-out, change, opt-in. `MCWebs` has
  localStorage with a domain's cookie, the cookie it falls back to, a
  Do-Not-Track signal, and memory. `consentDefault` is "granted", under which
  the most is captured. The two users are symmetric, and so are the two tabs.
  One of the consumer's events names the memberships' key, one the identity's and the
  token's.
* Browser flags: three evaluations are one in flight, one chained on it and one
  that joins, or is served; `MaxSwitches` 1 puts an identify between any two.
* Consumer: four events with a flush threshold of two, slices of one and a cap
  floored to two: drop-oldest happens while another thread holds a slice.
* Replay: three sessions give a rotation while an import of the rotated-from
  session is pending and another after it; a reset with a stop between two
  starts needs two starts. Two reloads are one within a session and one after a
  rotation, or two within the same.

### Fairness

Safety properties are checked of every behaviour. For liveness the models assume
that the runtime does what a runtime does, and nothing of the network that the
code does not itself ensure:

* `NodeAnalytics`: timers fire, continuations run. Deliveries may hang for
  ever; `ShutdownSettles` holds by the shutdown timer, not by the network.
* `DefinitionPoller`, and `LocalFlags` through it: timers fire, and `fetch` answers
  or fails.
* `BrowserFlags`: a request is answered or fails with its connection. The code
  sets no timeout of its own, so this is the browser's.
* `BrowserDelivery`: promise jobs run, the poll interval keeps firing and retry
  times pass. Answers are not fair, nor are the user, the network or the page.
* `BatchConsumer`: the daemon is scheduled, timed waits end, and a delivery
  ends, since each request has a timeout and a bounded number of retries.
  The caller threads are not fair.

Runs that disable the deadlock check are those whose system really stops: a
client that was shut down, a poller that was stopped with nothing to publish,
pages that have used up the bounds on their loads and calls.

## 4. Proofs

Each proof module extends the module it is about and proves, for every value of
the constants that the module's named assumptions allow, what its run checks on
one instance. All have the same shape: an inductive invariant made of named
parts, one lemma for what `Init` establishes, one lemma for each action, one
for `[Next]_vars`, and theorems that combine these with the temporal rules.

| Module | Theorems | What they state |
|---|---|---|
| `NodeAnalyticsProofs` | `QueueInvariant`, `WakeupAlwaysArmed`, `EveryEventOneFate`, `QueueImplementsBuffer` | the Node queue's invariants, and that it refines `DropOldestBuffer` |
| | `NodeImplementsQueue`, `NodeWakeupArmed`, `NodeOneFate`, `NodeImplementsBuffer`, `NodeLifecycleInvariant`, `NodeTypeOK`, `FlushCovers`, `ShutdownIsQuiet`, `ShutdownLosesNothing` | the same of the client by composition, and its own promises |
| `BatchConsumerProofs` | `ConsumerInvariant`, `ConsumerOneFate`, `ConsumerQuiesces`, `ConsumerTypes`, `ConsumerImplementsBuffer` | the Python consumer, for any number of threads |
| `DeliveryProofs` | `SendTypes`, `SendDecides`, `SendWithinBudget`, `DeliverySends`, `DeliveryDecides`, `DeliveryInvariant`, `DeliveryStores`, `DeliveryStoresWhole`, `DeliveryKeepsTable` | the sender by itself; sender, network and receiver; that they refine `EventTable` |
| `LocalFlagsProofs` | `LocalInvariant`, `LocalTypes`, `UndegradedIsAnswered`, `ListenersHearOnce`, `LocalDecisionStands`, `SharesAreServed`, `CaretKeepsLeading`, `RangesAreCompatible` | the server's flag client and its evaluator |
| `BrowserDeliveryProofs` | `QueuesInvariant`, `QueuesTypes`, `EventsHeldOnce`, `QueuesNeverSleep`, `MirrorOnlyWhenGranted`, `RequestsWithinBudget`, `DecisionsStayFinal` | every safety property of the browser's queues |
| `BrowserIdentityProofs` | `Stores`, `IdentityInLockstep`, `WireApart`, `NothingKeptUnasked`, `ReloadLosesNothing`, `Visitors`, `OneUserEach` | all five properties of pages, storage and wire, on any sites, browsers and keys |
| `BrowserFlagsProofs` | `FlagsInvariant`, `FlagsTypes`, `ForcedGetsFresh`, `CommitsComeInOrder` | the browser's flag client, for any number of evaluations |
| `SessionReplayProofs` | `ReplayInvariant`, `ReplayTypes`, `ReplayOneRecording`, `ReplayRecordsAgree`, `ReplaySamplingDecides` | sessions and recorder |

`PROJECT.json` gives, for each, the property of a run that it states.

### Assumptions

Options and bounds are natural numbers, and nothing relates them where the
constructor floors them (`BatchQueueAssumption`, `BatchConsumerAssumption`,
`SendBatchAssumption`, `SessionReplayAssumption`). `BrowserDelivery` has the
order of the code's own constants: the budget for failures without a status is
within the budget of retries, which is at least 1. `None`, `NoRow`, `Asked` and
their like are none of the values they stand beside. `LocalFlags` assumes of the
definitions server what the evaluator takes for granted: that a flag is defined
once in an answer (`DefinedOnce`), and that cohorts do not refer to each other
in a circle (`Numbered`; on a circle the code does not return). Definitions from
the configuration need no such assumption: `validateDefinitions` refuses a flag
that is declared twice, and they carry no cohorts. `ContextsAssumption` says
what a context of the model is: what the caller gives is a part of what is true
of the actor.

`BrowserIdentity` assumes of its consumer (`ConsumerKeys`) that the allowlist
`register()` goes through has none of the library's names, and that its own events do
not name the retained id, with which a consumer would write a merge of its own. The
facade refuses what is not on the allowlist; nothing refuses an allowlist, or an event,
with such a name. An event may name any other key, the memberships', the identity's
and the token's included. Nothing is assumed of the flag server's answers.

### The arguments

*The Node queue and client.* `OneFate` is not inductive: that a drain's slices
carry each event once needs the buffer to be without repetition, and that a new
event is nowhere yet needs the other places to hold only older ones. `QueueInv`
adds both: `BufferIsNewest` (the buffer is the newest events, in order, so the
event at position i is `minted - Len(buffer) + i`), `InFlightApart` (the batches
in flight are pairwise disjoint and within the slice size) and `OlderHaveAFate`
(what is older than the buffer is in flight, settled or dropped, and in one of
them only). A drain is then a statement about `Batches` alone, made in
`SliceShape`, `BatchesCover` and `BatchesApart`, which rest on elementary facts
about integer multiples (`DivMod`, `MultiplesApart`). `NodeStepIsQueueStep` shows
that each action of the client is a `QueueNext` step or a stutter on the queue,
so every queue theorem carries over, and only the lifecycle invariant (what each
phase of shutdown implies for the buffer, the timers and what is awaited) is
new. `FlushCovers` rests on `FlushShape`: whatever was captured before the call
is settled, dropped or in a batch the call awaits.

*The Python consumer.* `ConsumerInv` is `QueueInv` with the slice in each
thread's hand for the batches in flight. `ShutdownQuiesces` needs, besides, that
a thread holds a batch only while it drains (`ThreadsOrderly`) and that one
thread at most is past the quiesce latch, whose drain ends with an empty deque
or out of time (`ShutdownOrderly`): without the second, a second caller of
shutdown could find the first still draining.

*One delivery.* That a finished batch decides each record needs the slice to
consist of pending records (`SliceShape`). The budget is a potential argument:
`WithinBudget` charges every request to a decided record or to a halving, and a
halving lowers `Log2` of the slice size by one (`Log2Halves`). With the receiver,
`DeliveryInv` adds that a row belongs to a record of its uuid (`RowsOwnUuid`),
and that a request on its way carries a slice as the sender cut it
(`RequestIsSlice`), so that what arrives late writes nothing but what an earlier
copy would have. `DeliverySends` shows the composition to be a behaviour of the
sender, which carries its theorems over (`DeliveryDecides`), and
`DeliveryKeepsTable` that every step of it is one of `EventTable` or a stutter.

*Sessions and replay.* That at most one recorder runs is inductive only with
`LiveSegment` (the handle is that of the newest token, and its import is over)
and `Keyed` (the segment is keyed to the session last seen, and its verdict is
that session's). `SamplingDecides` needs `Places` as well: a snapshot is sent,
buffered or cut off, in one of them, and what is buffered is of the session the
live segment is keyed to. `Flushing` is the one lemma all flushes go through.
That the entry snapshot is the first event's needs `StoredAgrees`: a stored session is
the one last seen or, until the page has seen one, the one it was loaded with, so that
a session that is neither is new.

*The browser's queues.* `Placed` is the partition behind `HeldOnce`: buffer, sends
and retry queue share no event, no two sends or retries do, and together they
hold what the page owes. `MirrorSound` says that the mirror is a granted
client's and holds nothing that was decided, which is what a reload needs to
resend from it. `Budgeted` ties the requests made for an event to the attempt
count of the batch that holds it, phase by phase. `QueuesAwake` is preserved by
each action but relies on `Typed`'s bound on the buffer: a full buffer would
need no timer. The lemmas before the actions are about the operators that the
queues are built from: joining, splitting, filtering and capping sets and
sequences of batches that are apart.

*The browser's identity.* Three invariants, each on top of the one before.
`StoreInv`: an entry of the disk is absent or has a whole identity (`IsEntry`), so
what a page reads is never half of one; a page caches what it stores, and is on
the durable backend only when it was granted, or opted in over the browser's signal
(`IsClient`). `SavedInv`, while pages
come one after the other: what an open page without a save due holds can be read
back, and what was left in a jar that no page writes to can, too, with the
identity half of it in the jar (`InSync`, `JarSaved`). `VisitorInv`: the anonymous
visitors there are, one of the open page and one for each jar, are all different
and none of them was merged; without the jars' part a page that reloads could
come back as one who was. Next's thirteen disjuncts are first reduced to four
kinds of step (`Steps`): a page opens, a verb serves its client, the properties
are written, a page is gone. Each invariant then has four cases.
`WireApart` is about the pipeline and the mapper alone, for any bags: `Pipeline`
says what they merge, `Mapper` what of it is let out, `OnTheWire` both.

*The browser's flag client.* Refreshes under way form a chain (`Chain`, `Links`):
each but the first waits for the one before, only the first has been asked, and
`inFlight` is the last. An evaluation waits for a refresh under way, a forced one
for a refresh that began after its call (`Waiting`), and the cache is of a
refresh older than all of them (`CacheIsOlder`); so a commit never goes back.

*The server's flag client.* `FlagsInv` records what may have been read
(`Polled`), what the listeners heard (`Fired`) and what each call is owed
(`Answering`): what is asked of the server covers what the definitions left open
(`AskedForTheRest`), so what a set lacks once the answer is laid over what was kept
is what the server left out. For `DecisionStands` the order of information on the
outcomes, in which "no decision" lies below "yes" and "no" (`Stands`), is carried
up through the evaluator: comparing a given value gives what it gave
(`PropertyStands`), negation and the walk over members keep the order
(`NegatedStands`, `WalkStands`), hence every group of a cohort map does
(`GroupsStand`), a condition (`ConditionSettled`) and the flag (`FlagStands`).
`KeptInv` says that what a call keeps was decided so from the definitions it
read. It is here that a walk that forgets an undecided member would fail. For
`SharesAreServed`, the ends of the bands do not decrease (`BandsInOrder`), so a
bucket lies in one band at most, and the band of a variant has as many buckets
as its share (`ShareOfOne`). `CaretKeepsLeading` is about all versions, not only
those `RangesKeepCompatible` enumerates.

*Recursive definitions* (`Log2`, the cohort map, the bands) are recursive
functions. That such a function satisfies its equation, and what follows for
every argument, is shown by the least argument for which it fails
(`LeastNatural`, from `NatLessThanWellFounded` and `WFMin` of the library); the
library's induction theorems take an operator for a parameter, which the
provers here cannot instantiate.

*Only model-checked.* Every liveness property: `ShutdownSettles`,
`LocalPollsUnlessTickMissed`, `RetriesDrain`, `EvaluationsSettle`,
`DaemonKeepsDraining`. Liveness under fairness, and `ENABLED`, are out of this
prover's reach.

## 5. Where the code and its text disagree

Each run that expects a violation checks a sentence of the repository:

* `poller_stall`: a load that outlasts the interval swallows the tick that would
  have armed the next; polling ends for good.
* `browser_denial`: a batch whose body is being encoded when the user opts out
  is still posted.
* `opted_out_writes`: a page that was granted and opts out keeps its durable
  backend, and saves to it what it changes afterwards.
* `daemon_dies`: an event that `json.dumps` refuses raises out of the transport
  and ends the daemon thread.

Met while modelling, in the models as the code has them, and not a run of their own:

* A shutdown that finds the buffer empty does not wait for an automatic flush
  that is still in flight (`node/src/node-analytics.ts:236`).
* After an opt-out or a hidden page unbinds the retry queue's connectivity
  listeners, a later reconnect is not seen (`browser/src/retry-queue.ts:170`).
* On a rotation the old segment's last snapshots are sent under the new
  session's id (`browser/src/replay-recorder.ts:201`).
* The header of the delivery says that `sendBatch` "resolves on give-up (never rejects
  out to the queue ...)" (`node/src/send-batch.ts:10-11`; line 130 says it of one slice).
  `JSON.stringify` at line 63 is outside the `try`, and rejects the delivery where a
  record cannot be serialised: that slice and those after it are not sent.
  `EveryRecordDecided` states that exception, and that there is no other.
* The flag adapter takes any ok body for a complete answer: `parsed[...] ?? {}`
  (`node/src/flags/http-flag-adapter.ts:276-280`) with `degraded: false` (line 252), also
  where the server left out what it was asked for; what such a server says of errors and
  quotas is "deliberately NOT read" (lines 43-46). And the answer, whatever flags it
  has, is merged over the decided ones (line 206), where the comment says that
  "locally-resolved keys are kept, remote values fill only the still-unresolved ones"
  (lines 160-162). `NotDegradedIsAnswered` states what remains: the set is the answer
  over what was decided, and what it lacks the server left out.
* When the round-trip for the undecided flags fails, the whole bootstrap is merged over
  the decided ones in the same way. The set says that it is degraded.
* A filter's negation is read inside cohorts only
  (`node/src/flags/local/evaluator.ts:98`).
* `optIn()` under a Do-Not-Track signal moves the properties to the disk
  (`browser/src/browser-adapter.ts:1061`), though `getConsentState()` goes on reading
  denied. The comments say that "a non-granted decision (denied, pending, or a DNT/GPC
  signal) yields a memory-backed store" (lines 326-330), that the promotion is
  "reached on a real transition into granted" only (lines 1068-1069) and that a "DNT
  client never resolves a domain" (`browser/src/storage-backends.ts:303-304`).
  `OnlyGrantOrOptInReachDisk` has this as its one exception: a page under the signal on
  which nobody opted in writes nothing.
* A session's entry snapshot is said to survive "a mid-session reload"
  (`browser/src/browser-adapter.ts:656-657`). It is stored, but the reloaded page has
  seen no session, so that its first capture classifies the session under way as adopted
  and stores a snapshot of the reloaded page in its place (lines 666-668).
  `SessionRecordsAgree` states when the entry is still the first event's.
* The identity is switched before the merge event passes its gates: one that is
  dropped there is never sent (`browser/src/browser-adapter.ts:822`).
* A consumer's own property `__ak_groups` rides as `$groups`, in place of the
  memberships: its key is the one that is classified. The comment of
  `applyInternalKeyPolicy` says that "a consumer cannot forge `$groups` via a raw
  `__ak_groups` value" (`browser/src/wire-mapper.ts:103`), and so does the title of
  a test (`browser/src/wire-mapper.test.ts:660`), whose own comment says that the key is
  renamed. The events of the run name it, and
  `WireKeepsApart` states the exception.

## 6. What is not modelled

* The arithmetic of the client-side token bucket and the bot filter: `Captures`
  may drop any event in their place.
* Time as a number: a timer is armed or not, a cool-off open or not, a retry due
  or not. Back-off lengths and jitter therefore do not appear.
* Bytes: compression, URLs, log lines, the DOM reads of enrichment, the hash of
  flag bucketing. Property bags and wire events are modelled by their keys.
* A second tab in `BrowserDelivery`; `BrowserIdentity` has two. The session's own
  keys are `SessionReplay`'s and not in the store of `BrowserIdentity`: there a
  capture may arm the save.
* The seam's allowlist, which refuses a call before anything happens.
* The Python twins of the flag client and of the receiver: the same designs with
  details of their own, so that mapping them to the TypeScript models would not
  be faithful. The query clients: text built and parsed around one request.
* The body of `fetch` failing half way is in the model as a lost batch, and no
  property forbids it.
* Components with status `not_modelled` in `PROJECT.json`, each with its reason.

## 7. Plan

The modelling planned for the system's core is done, and every invariant, action
property and refinement that a passing run checks is also a theorem. What could
still be added:

1. An abstract specification of the visitor (one live identity for each jar,
   merged at most once) that `BrowserIdentity` refines while pages are orderly:
   `VisitorInv` holds what the refinement mapping needs.
2. Bounds on the progress of retries and of the definition poller stated as
   safety (a measure that each step lowers), for the part of `RetriesDrain` and
   `LocalPollsUnlessTickMissed` that does not need fairness.
3. The step lemmas of `NodeAnalyticsProofs` and `BatchConsumerProofs` that are
   about the same drop-oldest buffer, in one module that both cite.
