--------------------------- MODULE BatchConsumer ---------------------------
(* python/src/analytics_kit/server/consumer.py: the buffer of the Python    *)
(* client, a deque under a lock.  A daemon thread drains it on size or      *)
(* interval; application threads enqueue, flush and shut down, and deliver  *)
(* on their own thread.  An action is one critical section, or one delivery *)
(* outside the lock.  Events are numbered in the order they are accepted.   *)
EXTENDS Naturals, Sequences

CONSTANTS Callers, Daemon,        \* the application's threads, and the consumer's
          FlushAtOption, MaxBatchSizeOption, MaxQueueSizeOption,
          MaxEvents               \* bound: how many events are accepted

ASSUME BatchConsumerAssumption ==
    /\ Daemon \notin Callers
    /\ {FlushAtOption, MaxBatchSizeOption, MaxQueueSizeOption, MaxEvents} \subseteq Nat

VARIABLES
    sync_mode,           \* no daemon: a full buffer is delivered by the enqueuing call
    unserialisable,      \* the events whose batch json.dumps raises on
    buffer,              \* the deque
    running, stopped,    \* _running and the quiesce latch _stopped
    deadline,            \* of the daemon's interval: "none", "armed" or "passed"
    task,                \* what each thread is doing
    hand,                \* the batch each thread is delivering
    shutdown,            \* the first shutdown(): "none", "running", "returned", "raised"
    late,                \* its timeout has passed
    warned,              \* it logged that events may not have been sent
    accepted, evicted, delivered, raised   \* history: the events' fates

events == <<accepted, evicted, delivered, raised>>
closing == <<shutdown, late, warned>>
vars == <<sync_mode, unserialisable, buffer, running, stopped, deadline, task, hand,
          closing, events>>

Thread == Callers \cup {Daemon}

AtLeast(n, floor) == IF n >= floor THEN n ELSE floor
flush_at == AtLeast(FlushAtOption, 1)
max_batch_size == AtLeast(MaxBatchSizeOption, 1)

max_queue_size == AtLeast(MaxQueueSizeOption, flush_at)

Elements(s) == {s[i] : i \in 1..Len(s)}
InHand == UNION {Elements(hand[t]) : t \in Thread}

Init ==
    /\ sync_mode \in BOOLEAN
    /\ unserialisable \in SUBSET (1..MaxEvents)
    /\ buffer = <<>>
    /\ running = ~sync_mode /\ stopped = FALSE
    /\ deadline = "none"
    /\ task = [t \in Thread |-> IF t # Daemon THEN "idle"
                                ELSE IF sync_mode THEN "exited" ELSE "check"]
    /\ hand = [t \in Thread |-> <<>>]
    /\ shutdown = "none" /\ late = FALSE /\ warned = FALSE
    /\ accepted = 0 /\ evicted = {} /\ delivered = {} /\ raised = {}

Configured == UNCHANGED <<sync_mode, unserialisable>>
Becomes(t, doing) == task' = [task EXCEPT ![t] = doing]

---------------------------------------------------------------------------
\* Mutant of enqueue: the latch is tested before the lock is taken.
enqueue_LatchIgnored(t) ==
    /\ task[t] = "idle"
    /\ accepted < MaxEvents
    /\ accepted' = accepted + 1
    /\ LET full == Len(buffer) = max_queue_size
       IN  /\ buffer' = Append(IF full THEN Tail(buffer) ELSE buffer, accepted')
           /\ evicted' = IF full THEN evicted \cup {Head(buffer)} ELSE evicted
    /\ IF sync_mode /\ Len(buffer') >= flush_at THEN Becomes(t, "draining") ELSE UNCHANGED task
    /\ UNCHANGED <<running, stopped, deadline, hand, closing, delivered, raised>>
    /\ Configured

\* Mutant of enqueue: a full deque refuses the new event, as queue.Queue would.
enqueue_DropNewest(t) ==
    /\ task[t] = "idle" /\ ~stopped
    /\ accepted < MaxEvents
    /\ accepted' = accepted + 1
    /\ LET full == Len(buffer) = max_queue_size
       IN  /\ buffer' = IF full THEN buffer ELSE Append(buffer, accepted')
           /\ evicted' = IF full THEN evicted \cup {accepted'} ELSE evicted
    /\ IF sync_mode /\ Len(buffer') >= flush_at THEN Becomes(t, "draining") ELSE UNCHANGED task
    /\ UNCHANGED <<running, stopped, deadline, hand, closing, delivered, raised>>
    /\ Configured

(* enqueue(): inert once stopped; a full deque evicts its oldest event.     *)
enqueue(t) ==
    /\ task[t] = "idle" /\ ~stopped
    /\ accepted < MaxEvents
    /\ accepted' = accepted + 1
    /\ LET full == Len(buffer) = max_queue_size
       IN  /\ buffer' = Append(IF full THEN Tail(buffer) ELSE buffer, accepted')
           /\ evicted' = IF full THEN evicted \cup {Head(buffer)} ELSE evicted
    /\ IF sync_mode /\ Len(buffer') >= flush_at THEN Becomes(t, "draining") ELSE UNCHANGED task
    /\ UNCHANGED <<running, stopped, deadline, hand, closing, delivered, raised>>
    /\ Configured

\* Mutant of next_batch: the deque is cleared although one slice was taken.
next_batch_Clears(t) ==
    /\ hand' = [hand EXCEPT ![t] =
                   SubSeq(buffer, 1, IF Len(buffer) < max_batch_size THEN Len(buffer)
                                     ELSE max_batch_size)]
    /\ buffer' = <<>>

(* _next_batch(): the oldest events, at most max_batch_size of them.        *)
next_batch(t) ==
    LET n == IF Len(buffer) < max_batch_size THEN Len(buffer) ELSE max_batch_size
    IN  /\ hand' = [hand EXCEPT ![t] = SubSeq(buffer, 1, n)]
        /\ buffer' = SubSeq(buffer, n + 1, Len(buffer))

(* flush(): drain on the calling thread.                                    *)
flush(t) ==
    /\ task[t] = "idle"
    /\ Becomes(t, "draining")
    /\ UNCHANGED <<buffer, running, stopped, deadline, hand, closing, events>>
    /\ Configured

(* _drain_all(): one slice after the other, until none is left.             *)
drain_all(t) ==
    /\ task[t] = "draining" /\ hand[t] = <<>>
    /\ next_batch(t)
    /\ IF buffer = <<>>
       THEN Becomes(t, IF t = Daemon THEN "check" ELSE "idle")
       ELSE UNCHANGED task
    /\ UNCHANGED <<running, stopped, deadline, closing, events>>
    /\ Configured

(* _deliver(batch) returns, whatever the server said.                       *)
Delivers(t) ==
    /\ hand[t] # <<>> /\ Elements(hand[t]) \cap unserialisable = {}
    /\ delivered' = delivered \cup Elements(hand[t])
    /\ hand' = [hand EXCEPT ![t] = <<>>]
    /\ UNCHANGED <<buffer, running, stopped, deadline, task, closing,
                   accepted, evicted, raised>>
    /\ Configured

(* _deliver(batch) raises: no frame of the consumer catches it, so it ends  *)
(* the daemon, or leaves flush(), shutdown() or a synchronous capture().    *)
DeliverRaises(t) ==
    /\ Elements(hand[t]) \cap unserialisable # {}
    /\ raised' = raised \cup Elements(hand[t])
    /\ hand' = [hand EXCEPT ![t] = <<>>]
    /\ Becomes(t, IF t = Daemon THEN "dead" ELSE "idle")
    /\ shutdown' = IF task[t] = "shutting" THEN "raised" ELSE shutdown
    /\ UNCHANGED <<buffer, running, stopped, deadline, late, warned,
                   accepted, evicted, delivered>>
    /\ Configured

---------------------------------------------------------------------------
(* _run(), one pass through the lock.                                       *)
DaemonStays == UNCHANGED <<buffer, running, stopped, hand, closing, events>> /\ Configured

\* Mutant of DaemonExits: the thread leaves its buffer behind.
DaemonExits_WhenStopped ==
    /\ task[Daemon] = "check" /\ ~running
    /\ Becomes(Daemon, "exited")
    /\ UNCHANGED deadline
    /\ DaemonStays

DaemonExits ==
    /\ task[Daemon] = "check" /\ ~running /\ buffer = <<>>
    /\ Becomes(Daemon, "exited")
    /\ UNCHANGED deadline
    /\ DaemonStays

DaemonIdles ==
    /\ task[Daemon] = "check" /\ running /\ buffer = <<>>
    /\ deadline' = "none"
    /\ Becomes(Daemon, "waiting")
    /\ DaemonStays

DaemonWaitsForMore ==
    /\ task[Daemon] = "check" /\ running
    /\ buffer # <<>> /\ Len(buffer) < flush_at /\ deadline # "passed"
    /\ deadline' = "armed"
    /\ Becomes(Daemon, "waiting")
    /\ DaemonStays

DaemonDrains ==
    /\ task[Daemon] = "check" /\ buffer # <<>>
    /\ Len(buffer) >= flush_at \/ ~running \/ deadline = "passed"
    /\ deadline' = "none"
    /\ Becomes(Daemon, "draining")
    /\ DaemonStays

(* _not_empty.wait() returns: notified, or its timeout has elapsed.         *)
DaemonWakes ==
    /\ task[Daemon] = "waiting"
    /\ Becomes(Daemon, "check")
    /\ UNCHANGED deadline
    /\ DaemonStays

DeadlinePasses ==
    /\ deadline = "armed"
    /\ deadline' = "passed"
    /\ UNCHANGED task
    /\ DaemonStays

---------------------------------------------------------------------------
(* shutdown(): latch first, then drain slice by slice against the timeout,  *)
(* then join the daemon for the time that remains.  A second caller returns *)
(* at once.                                                                 *)
Shutdown(t) ==
    /\ task[t] = "idle"
    /\ stopped' = TRUE /\ running' = FALSE
    /\ IF stopped THEN UNCHANGED <<task, shutdown>>
       ELSE Becomes(t, "shutting") /\ shutdown' = "running"
    /\ UNCHANGED <<buffer, deadline, hand, late, warned, events>>
    /\ Configured

TimeoutPasses ==
    /\ shutdown = "running" /\ ~late
    /\ late' = TRUE
    /\ UNCHANGED <<buffer, running, stopped, deadline, task, hand, shutdown, warned, events>>
    /\ Configured

(* One turn of _drain_until_empty.                                          *)
ShutdownDrains(t) ==
    /\ task[t] = "shutting" /\ hand[t] = <<>>
    /\ IF late \/ buffer = <<>>
       THEN /\ Becomes(t, "joining")
            /\ warned' = (late /\ buffer # <<>>)
            /\ UNCHANGED <<buffer, hand>>
       ELSE next_batch(t) /\ UNCHANGED <<task, warned>>
    /\ UNCHANGED <<running, stopped, deadline, shutdown, late, events>>
    /\ Configured

Joined == late \/ task[Daemon] \in {"exited", "dead"}

ShutdownReturns(t) ==
    /\ task[t] = "joining" /\ Joined
    /\ Becomes(t, "idle")
    /\ shutdown' = "returned"
    /\ warned' = (warned \/ buffer # <<>>)
    /\ UNCHANGED <<buffer, running, stopped, deadline, hand, late, events>>
    /\ Configured

---------------------------------------------------------------------------
DaemonStep ==
    \/ DaemonExits
    \/ DaemonIdles
    \/ DaemonWaitsForMore
    \/ DaemonDrains
    \/ DaemonWakes
    \/ drain_all(Daemon)
    \/ Delivers(Daemon)
    \/ DeliverRaises(Daemon)

CallerStep(t) ==
    \/ enqueue(t)
    \/ flush(t)
    \/ drain_all(t)
    \/ Delivers(t)
    \/ DeliverRaises(t)
    \/ Shutdown(t)
    \/ ShutdownDrains(t)
    \/ ShutdownReturns(t)

Next == DaemonStep \/ DeadlinePasses \/ TimeoutPasses \/ \E t \in Callers : CallerStep(t)

(* The daemon is scheduled, its waits time out and its deliveries end: each *)
(* request has a timeout and a bounded number of retries.                   *)
Fairness == WF_vars(DaemonStep) /\ WF_vars(DeadlinePasses)

Spec == Init /\ [][Next]_vars /\ Fairness

---------------------------------------------------------------------------
Tasks == {"idle", "draining", "shutting", "joining"}
DaemonTasks == {"check", "waiting", "draining", "exited", "dead"}

TypeOK ==
    /\ {sync_mode, running, stopped, late, warned} \subseteq BOOLEAN
    /\ unserialisable \subseteq 1..MaxEvents
    /\ buffer \in Seq(1..MaxEvents)
    /\ Len(buffer) <= max_queue_size /\ max_queue_size >= flush_at
    /\ deadline \in {"none", "armed", "passed"}
    /\ DOMAIN task = Thread /\ task[Daemon] \in DaemonTasks
    /\ \A t \in Callers : task[t] \in Tasks
    /\ DOMAIN hand = Thread
    /\ \A t \in Thread : hand[t] \in Seq(1..MaxEvents) /\ Len(hand[t]) <= max_batch_size
    /\ shutdown \in {"none", "running", "returned", "raised"}
    /\ accepted \in 0..MaxEvents
    /\ {evicted, delivered, raised} \subseteq SUBSET (1..accepted)

(* Every accepted event is in one place and never in two: whichever threads *)
(* drain at once, none delivers what another has taken, and none is         *)
(* mislaid between the deque and a thread.                                  *)
OneFate ==
    /\ 1..accepted = Elements(buffer) \cup InHand \cup delivered \cup evicted \cup raised
    /\ \A t, u \in Thread : t # u => Elements(hand[t]) \cap Elements(hand[u]) = {}
    /\ Elements(buffer) \cap InHand = {}
    /\ (Elements(buffer) \cup InHand) \cap (delivered \cup evicted \cup raised) = {}
    /\ delivered \cap (evicted \cup raised) = {} /\ evicted \cap raised = {}

(* A shutdown that returned within its timeout left nothing buffered and no *)
(* daemon delivering, and nothing is accepted into the buffer after it; one *)
(* that left events in the buffer has said so.                              *)
ShutdownQuiesces ==
    shutdown = "returned" =>
        /\ ~late => buffer = <<>> /\ hand[Daemon] = <<>>
                    /\ task[Daemon] \in {"exited", "dead"}
        /\ buffer # <<>> => warned

(* While the daemon lives it empties the buffer again and again: the size   *)
(* trigger, the interval anchored to the first event and the stop all reach *)
(* the events that are waiting.                                             *)
DaemonKeepsDraining ==
    sync_mode \/ []<>(buffer = <<>>) \/ <>(task[Daemon] = "dead")

(* The consumer keeps the promise of the abstract buffer, whichever threads *)
(* drain it.                                                                *)
Buffer == INSTANCE DropOldestBuffer
            WITH Capacity <- max_queue_size, waiting <- buffer,
                 released <- InHand \cup delivered \cup raised, lost <- evicted
ImplementsBuffer == Buffer!BufferSafety

(* "Returns the final status -- never raises out to the consumer": no       *)
(* delivery ends the daemon.                                                *)
DaemonSurvives == task[Daemon] # "dead"
=============================================================================
