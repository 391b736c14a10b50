------------------------ MODULE BatchConsumerProofs ------------------------
(* For any number of threads and any configuration of the Python consumer:   *)
(* every accepted event has exactly one fate, a shutdown leaves the consumer *)
(* quiet, and the threads together implement DropOldestBuffer.               *)
EXTENDS BatchConsumer, SequenceTheorems, TLAPS

(* The deque holds exactly the newest events, in order.                     *)
BufferIsNewest ==
    /\ accepted \in 0..MaxEvents
    /\ buffer \in Seq(Nat)
    /\ Len(buffer) <= max_queue_size /\ Len(buffer) <= accepted
    /\ \A i \in 1..Len(buffer) : buffer[i] = accepted - Len(buffer) + i

(* The threads hold disjoint slices of older events.                        *)
HandsApart ==
    /\ DOMAIN hand = Thread
    /\ \A t \in Thread : hand[t] \in Seq(Nat) /\ Len(hand[t]) <= max_batch_size
    /\ \A t, u \in Thread : t # u => Elements(hand[t]) \cap Elements(hand[u]) = {}

OlderHaveAFate ==
    /\ InHand \cup delivered \cup evicted \cup raised = 1 .. (accepted - Len(buffer))
    /\ InHand \cap (delivered \cup evicted \cup raised) = {}
    /\ delivered \cap (evicted \cup raised) = {} /\ evicted \cap raised = {}

BufferInv == BufferIsNewest /\ HandsApart /\ OlderHaveAFate

(* What each thread may be doing, and that it holds a batch only while it   *)
(* drains.                                                                  *)
ThreadsOrderly ==
    /\ DOMAIN task = Thread /\ task[Daemon] \in DaemonTasks
    /\ \A t \in Callers : task[t] \in Tasks
    /\ \A t \in Thread : hand[t] # <<>> => task[t] \in {"draining", "shutting"}

(* One thread at most shuts the consumer down, behind the quiesce latch,    *)
(* and its drain ends with an empty deque or out of time.                   *)
Closing == {t \in Callers : task[t] \in {"shutting", "joining"}}

ShutdownOrderly ==
    /\ {sync_mode, running, stopped, late, warned} \subseteq BOOLEAN
    /\ deadline \in {"none", "armed", "passed"}
    /\ shutdown \in {"none", "running", "returned", "raised"}
    /\ unserialisable \subseteq 1..MaxEvents
    /\ shutdown # "none" => stopped
    /\ Closing # {} => shutdown = "running"
    /\ \A t, u \in Closing : t = u
    /\ \A t \in Callers : task[t] = "joining" => buffer = <<>> \/ late

ConsumerInv == BufferInv /\ ThreadsOrderly /\ ShutdownOrderly /\ ShutdownQuiesces

---------------------------------------------------------------------------
LEMMA ConfigurationType ==
    /\ flush_at \in Nat \ {0} /\ max_batch_size \in Nat \ {0}
    /\ max_queue_size \in Nat \ {0} /\ max_queue_size >= flush_at
    /\ MaxEvents \in Nat /\ Daemon \notin Callers
    /\ Daemon \in Thread /\ Callers \subseteq Thread
BY BatchConsumerAssumption DEF flush_at, max_batch_size, max_queue_size, AtLeast, Thread

(* The deque holds the events after all those that already have a fate.     *)
LEMMA BufferElements ==
    ASSUME BufferIsNewest
    PROVE  /\ Elements(buffer) = accepted - Len(buffer) + 1 .. accepted
           /\ 1..accepted = (1 .. (accepted - Len(buffer))) \cup Elements(buffer)
           /\ (1 .. (accepted - Len(buffer))) \cap Elements(buffer) = {}
<1>1. /\ accepted \in Nat /\ Len(buffer) \in Nat /\ Len(buffer) <= accepted
      /\ \A i \in 1..Len(buffer) : buffer[i] = accepted - Len(buffer) + i
  BY LenProperties, ConfigurationType DEF BufferIsNewest
<1>2. ASSUME NEW x \in accepted - Len(buffer) + 1 .. accepted
      PROVE  x \in Elements(buffer)
  <2>1. x - (accepted - Len(buffer)) \in 1..Len(buffer)
    BY <1>1
  <2>2. buffer[x - (accepted - Len(buffer))] = x
    BY <1>1, <2>1
  <2> QED
    BY <2>1, <2>2 DEF Elements
<1>3. Elements(buffer) \subseteq accepted - Len(buffer) + 1 .. accepted
  BY <1>1 DEF Elements
<1>4. Elements(buffer) = accepted - Len(buffer) + 1 .. accepted
  BY <1>2, <1>3
<1> QED
  BY <1>1, <1>4

(* What an enqueue does to the deque, whether or not it was full.           *)
LEMMA EnqueueBuffer ==
    ASSUME BufferIsNewest, NEW t \in Thread, enqueue(t)
    PROVE  /\ BufferIsNewest' /\ accepted' = accepted + 1
           /\ accepted - Len(buffer) <= accepted' - Len(buffer')
           /\ evicted' = evicted \cup (accepted - Len(buffer) + 1 .. accepted' - Len(buffer'))
<1> USE ConfigurationType
<1>1. /\ accepted \in Nat /\ Len(buffer) \in Nat /\ accepted' = accepted + 1
      /\ accepted' \in 0..MaxEvents /\ accepted' \in Nat
      /\ buffer \in Seq(Nat) /\ Len(buffer) <= max_queue_size /\ Len(buffer) <= accepted
      /\ \A i \in 1..Len(buffer) : buffer[i] = accepted - Len(buffer) + i
  BY LenProperties DEF BufferIsNewest, enqueue
<1>2. CASE Len(buffer) = max_queue_size
  <2>1. /\ buffer' = Append(Tail(buffer), accepted')
        /\ evicted' = evicted \cup {Head(buffer)}
    BY <1>2 DEF enqueue
  <2>2. buffer # <<>>
    BY <1>1, <1>2, EmptySeq
  <2>3. /\ Tail(buffer) \in Seq(Nat) /\ Len(Tail(buffer)) = Len(buffer) - 1
        /\ \A i \in 1..Len(Tail(buffer)) : Tail(buffer)[i] = buffer[i + 1]
    BY <1>1, <2>2, HeadTailProperties
  <2>4. /\ buffer' \in Seq(Nat) /\ Len(buffer') = Len(buffer)
        /\ \A i \in 1..Len(Tail(buffer)) : buffer'[i] = Tail(buffer)[i]
        /\ buffer'[Len(buffer)] = accepted'
    <3>1. /\ buffer' \in Seq(Nat) /\ Len(buffer') = Len(Tail(buffer)) + 1
          /\ \A i \in 1..Len(Tail(buffer)) : buffer'[i] = Tail(buffer)[i]
          /\ buffer'[Len(Tail(buffer)) + 1] = accepted'
      BY <2>1, <2>3, <1>1, AppendProperties
    <3> QED
      BY <3>1, <2>3, <1>1
  <2>5. \A i \in 1..Len(buffer') : buffer'[i] = accepted' - Len(buffer') + i
    <3> TAKE i \in 1..Len(buffer')
    <3>1. CASE i = Len(buffer)
      BY <3>1, <2>4, <1>1
    <3>2. CASE i # Len(buffer)
      <4>1. i \in 1..Len(Tail(buffer)) /\ i + 1 \in 1..Len(buffer)
        <5>1. /\ Len(Tail(buffer)) = Len(buffer) - 1 /\ Len(buffer') = Len(buffer)
              /\ Len(buffer) \in Nat
          BY <2>3, <2>4, <1>1
        <5> QED
          BY <3>2, <5>1
      <4>2. buffer'[i] = buffer[i + 1]
        BY <4>1, <2>3, <2>4
      <4> QED
        BY <4>1, <4>2, <2>4, <1>1
    <3> QED
      BY <3>1, <3>2
  <2>6. BufferIsNewest'
    BY <1>1, <1>2, <2>4, <2>5 DEF BufferIsNewest
  <2>7. {Head(buffer)} = accepted - Len(buffer) + 1 .. accepted' - Len(buffer')
    <3>1. Head(buffer) = accepted - Len(buffer) + 1
      BY <1>1, <1>2
    <3> QED
      BY <3>1, <2>4, <1>1
  <2> QED
    BY <1>1, <2>1, <2>4, <2>6, <2>7
<1>3. CASE Len(buffer) # max_queue_size
  <2>1. buffer' = Append(buffer, accepted') /\ evicted' = evicted
    BY <1>3 DEF enqueue
  <2>2. /\ buffer' \in Seq(Nat) /\ Len(buffer') = Len(buffer) + 1
        /\ \A i \in 1..Len(buffer') :
              buffer'[i] = IF i = Len(buffer) + 1 THEN accepted' ELSE buffer[i]
    BY <2>1, <1>1
  <2>3. \A i \in 1..Len(buffer') : buffer'[i] = accepted' - Len(buffer') + i
    <3> TAKE i \in 1..Len(buffer')
    <3>1. CASE i = Len(buffer) + 1
      BY <3>1, <2>2, <1>1
    <3>2. CASE i # Len(buffer) + 1
      <4>1. i \in 1..Len(buffer) /\ buffer'[i] = buffer[i]
        BY <3>2, <2>2, <1>1
      <4> QED
        BY <4>1, <2>2, <1>1
    <3> QED
      BY <3>1, <3>2
  <2>4. BufferIsNewest'
    BY <1>1, <1>3, <2>2, <2>3 DEF BufferIsNewest
  <2>5. (accepted - Len(buffer) + 1 .. accepted' - Len(buffer')) = {}
    BY <2>2, <1>1
  <2> QED
    BY <1>1, <2>1, <2>2, <2>4, <2>5
<1> QED
  BY <1>2, <1>3

(* What _next_batch takes: the oldest events, in order, and no more than    *)
(* there are.                                                               *)
LEMMA NextBatch ==
    ASSUME BufferIsNewest, NEW t \in Thread, DOMAIN hand = Thread,
           next_batch(t), accepted' = accepted
    PROVE  \E n \in 0..Len(buffer) :
              /\ n <= max_batch_size /\ (n = 0 <=> buffer = <<>>)
              /\ buffer' = SubSeq(buffer, n + 1, Len(buffer))
              /\ Len(buffer') = Len(buffer) - n
              /\ BufferIsNewest'
              /\ hand'[t] \in Seq(Nat) /\ Len(hand'[t]) = n
              /\ Elements(hand'[t]) = accepted - Len(buffer) + 1 .. accepted - Len(buffer')
              /\ Elements(hand'[t]) = {buffer[i] : i \in 1..n}
<1> USE ConfigurationType
<1> DEFINE n == IF Len(buffer) < max_batch_size THEN Len(buffer) ELSE max_batch_size
<1>1. /\ accepted \in Nat /\ Len(buffer) \in Nat /\ buffer \in Seq(Nat)
      /\ Len(buffer) <= max_queue_size /\ Len(buffer) <= accepted
      /\ \A i \in 1..Len(buffer) : buffer[i] = accepted - Len(buffer) + i
  BY LenProperties DEF BufferIsNewest
<1>2. /\ hand'[t] = SubSeq(buffer, 1, n)
      /\ buffer' = SubSeq(buffer, n + 1, Len(buffer))
  BY DEF next_batch
<1>3. /\ n \in 0..Len(buffer) /\ n \in Nat /\ n <= max_batch_size
      /\ (n = 0 <=> buffer = <<>>)
  BY <1>1, EmptySeq
<1> HIDE DEF n
<1>4. /\ hand'[t] \in Seq(Nat) /\ Len(hand'[t]) = n
      /\ \A i \in 1..n : hand'[t][i] = buffer[i]
  <2>1. \A i \in 1..n : buffer[i] \in Nat
    BY <1>1, <1>3
  <2>2. /\ SubSeq(buffer, 1, n) \in Seq(Nat)
        /\ Len(SubSeq(buffer, 1, n)) = IF 1 <= n THEN n - 1 + 1 ELSE 0
        /\ \A i \in 1 .. n - 1 + 1 : SubSeq(buffer, 1, n)[i] = buffer[1 + i - 1]
    BY <1>3, <2>1, SubSeqProperties
  <2> QED
    BY <1>2, <1>3, <2>2
<1>5. /\ buffer' \in Seq(Nat) /\ Len(buffer') = Len(buffer) - n
      /\ \A i \in 1..Len(buffer') : buffer'[i] = buffer[n + i]
  <2>1. \A i \in n + 1 .. Len(buffer) : buffer[i] \in Nat
    BY <1>1, <1>3
  <2>2. n + 1 \in Int /\ Len(buffer) \in Int
    BY <1>1, <1>3
  <2>3. /\ buffer' \in Seq(Nat)
        /\ Len(buffer') = IF n + 1 <= Len(buffer) THEN Len(buffer) - (n + 1) + 1 ELSE 0
        /\ \A i \in 1 .. Len(buffer) - (n + 1) + 1 : buffer'[i] = buffer[n + 1 + i - 1]
    BY <1>2, <2>1, <2>2, SubSeqProperties
  <2>4. Len(buffer') = Len(buffer) - n
    BY <1>1, <1>3, <2>3
  <2>5. ASSUME NEW i \in 1..Len(buffer')
        PROVE  buffer'[i] = buffer[n + i]
    <3>1. i \in 1 .. Len(buffer) - (n + 1) + 1 /\ n + 1 + i - 1 = n + i
      BY <1>1, <1>3, <2>4
    <3> QED
      BY <2>3, <3>1
  <2> QED
    BY <2>3, <2>4, <2>5
<1>6. BufferIsNewest'
  <2>1. \A i \in 1..Len(buffer') : buffer'[i] = accepted - Len(buffer') + i
    <3> TAKE i \in 1..Len(buffer')
    <3>1. n + i \in 1..Len(buffer)
      BY <1>1, <1>3, <1>5
    <3> QED
      BY <1>1, <1>3, <1>5, <3>1
  <2> QED
    BY <1>1, <1>3, <1>5, <2>1 DEF BufferIsNewest
<1>7. Elements(hand'[t]) = {buffer[i] : i \in 1..n}
  BY <1>4 DEF Elements
<1>8. {buffer[i] : i \in 1..n} = accepted - Len(buffer) + 1 .. accepted - Len(buffer')
  <2>1. ASSUME NEW x \in accepted - Len(buffer) + 1 .. accepted - Len(buffer')
        PROVE  x \in {buffer[i] : i \in 1..n}
    <3>1. x - (accepted - Len(buffer)) \in 1..n
      BY <1>1, <1>3, <1>5
    <3>2. buffer[x - (accepted - Len(buffer))] = x
      BY <1>1, <1>3, <3>1
    <3> QED
      BY <3>1, <3>2
  <2>2. ASSUME NEW i \in 1..n
        PROVE  buffer[i] \in accepted - Len(buffer) + 1 .. accepted - Len(buffer')
    <3>1. /\ accepted \in Nat /\ Len(buffer) \in Nat /\ n \in 0..Len(buffer)
          /\ Len(buffer') = Len(buffer) - n
      BY <1>1, <1>3, <1>5
    <3>2. i \in 1..Len(buffer)
      BY <3>1
    <3>3. buffer[i] = accepted - Len(buffer) + i
      BY <1>1, <3>2
    <3> QED
      BY <3>1, <3>3
  <2> QED
    BY <2>1, <2>2
<1> QED
  BY <1>2, <1>3, <1>4, <1>5, <1>6, <1>7, <1>8

---------------------------------------------------------------------------
(* How one critical section, or one delivery, changes where the events are. *)
LEMMA EnqueuePlaces == ASSUME BufferInv, NEW t \in Callers, enqueue(t) PROVE BufferInv'
<1>1. t \in Thread
  BY ConfigurationType
<1>2. /\ BufferIsNewest' /\ accepted' = accepted + 1
      /\ accepted - Len(buffer) <= accepted' - Len(buffer')
      /\ evicted' = evicted \cup (accepted - Len(buffer) + 1 .. accepted' - Len(buffer'))
  BY <1>1, EnqueueBuffer DEF BufferInv
<1>3. hand' = hand /\ delivered' = delivered /\ raised' = raised
  BY DEF enqueue
<1>4. HandsApart' /\ InHand' = InHand
  BY <1>3 DEF BufferInv, HandsApart, InHand
<1> DEFINE old == 1 .. (accepted - Len(buffer))
           new == accepted - Len(buffer) + 1 .. accepted' - Len(buffer')
<1>5. old \cap new = {} /\ old \cup new = 1 .. (accepted' - Len(buffer'))
  <2>1. /\ accepted \in Nat /\ Len(buffer) \in Nat /\ Len(buffer) <= accepted
        /\ accepted' \in Nat /\ Len(buffer') \in Nat
    BY <1>2, LenProperties, ConfigurationType DEF BufferInv, BufferIsNewest
  <2> QED
    BY <2>1, <1>2
<1> HIDE DEF old, new
<1>6. OlderHaveAFate'
  BY <1>2, <1>3, <1>4, <1>5 DEF BufferInv, OlderHaveAFate, old, new
<1> QED
  BY <1>2, <1>4, <1>6 DEF BufferInv

LEMMA NextBatchPlaces ==
    ASSUME BufferInv, NEW t \in Thread, hand[t] = <<>>, next_batch(t), UNCHANGED events
    PROVE  BufferInv'
<1>1. /\ accepted' = accepted /\ evicted' = evicted
      /\ delivered' = delivered /\ raised' = raised
  BY DEF events
<1>2. PICK n \in 0..Len(buffer) :
         /\ n <= max_batch_size
         /\ Len(buffer') = Len(buffer) - n /\ BufferIsNewest'
         /\ hand'[t] \in Seq(Nat) /\ Len(hand'[t]) = n
         /\ Elements(hand'[t]) = accepted - Len(buffer) + 1 .. accepted - Len(buffer')
  BY <1>1, NextBatch DEF BufferInv, HandsApart
<1> DEFINE old == 1 .. (accepted - Len(buffer))
           new == accepted - Len(buffer) + 1 .. accepted - Len(buffer')
<1>3. old \cap new = {} /\ old \cup new = 1 .. (accepted - Len(buffer'))
  <2>1. /\ accepted \in Nat /\ Len(buffer) \in Nat /\ Len(buffer) <= accepted
        /\ n \in Nat /\ n <= Len(buffer)
    BY LenProperties, ConfigurationType DEF BufferInv, BufferIsNewest
  <2> QED
    BY <2>1, <1>2
<1> HIDE DEF old, new
<1>4. Elements(hand'[t]) = new
  BY <1>2 DEF new
<1>5. /\ DOMAIN hand' = Thread
      /\ \A u \in Thread : u # t => hand'[u] = hand[u]
  BY DEF next_batch, BufferInv, HandsApart
<1>6. Elements(hand[t]) = {}
  BY EmptySeq DEF Elements
<1>7. InHand' = InHand \cup new
  BY <1>4, <1>5, <1>6 DEF InHand
<1>8. HandsApart'
  <2>1. ASSUME NEW u \in Thread, u # t
        PROVE  Elements(hand[u]) \cap new = {}
    BY <1>3 DEF BufferInv, OlderHaveAFate, InHand, old
  <2>2. \A u \in Thread : hand'[u] \in Seq(Nat) /\ Len(hand'[u]) <= max_batch_size
    BY <1>2, <1>5 DEF BufferInv, HandsApart
  <2>3. ASSUME NEW u \in Thread, NEW v \in Thread, u # v
        PROVE  Elements(hand'[u]) \cap Elements(hand'[v]) = {}
    <3>1. CASE u = t
      BY <1>4, <1>5, <2>1, <2>3, <3>1
    <3>2. CASE v = t
      BY <1>4, <1>5, <2>1, <2>3, <3>2
    <3>3. CASE u # t /\ v # t
      BY <1>5, <2>3, <3>3 DEF BufferInv, HandsApart
    <3> QED
      BY <3>1, <3>2, <3>3
  <2> QED
    BY <1>5, <2>2, <2>3 DEF HandsApart
<1>9. OlderHaveAFate'
  BY <1>1, <1>3, <1>7 DEF BufferInv, OlderHaveAFate, old
<1> QED
  BY <1>2, <1>8, <1>9 DEF BufferInv

(* A delivery that ends moves its batch from the hand to a fate.            *)
LEMMA DeliveryPlaces ==
    ASSUME BufferInv, NEW t \in Thread, hand' = [hand EXCEPT ![t] = <<>>],
           buffer' = buffer, accepted' = accepted, evicted' = evicted,
           \/ delivered' = delivered \cup Elements(hand[t]) /\ raised' = raised
           \/ raised' = raised \cup Elements(hand[t]) /\ delivered' = delivered
    PROVE  BufferInv' /\ InHand' = InHand \ Elements(hand[t])
<1>1. BufferIsNewest'
  BY DEF BufferInv, BufferIsNewest
<1>2. /\ DOMAIN hand' = Thread /\ hand'[t] = <<>>
      /\ \A u \in Thread : u # t => hand'[u] = hand[u]
  BY DEF BufferInv, HandsApart
<1>3. Elements(hand'[t]) = {}
  BY <1>2, EmptySeq DEF Elements
<1>4. hand'[t] \in Seq(Nat) /\ Len(hand'[t]) <= max_batch_size
  BY <1>2, EmptySeq, ConfigurationType
<1>5. HandsApart'
  BY <1>2, <1>3, <1>4 DEF BufferInv, HandsApart
<1>6. InHand' = InHand \ Elements(hand[t])
  BY <1>2, <1>3 DEF BufferInv, HandsApart, InHand
<1>7. Elements(hand[t]) \subseteq InHand
  BY DEF InHand
<1>8. OlderHaveAFate'
  BY <1>6, <1>7 DEF BufferInv, OlderHaveAFate
<1> QED
  BY <1>1, <1>5, <1>6, <1>8 DEF BufferInv

LEMMA InitInv == Init => ConsumerInv
<1> SUFFICES ASSUME Init PROVE ConsumerInv
  OBVIOUS
<1> USE ConfigurationType
<1>1. Len(buffer) = 0 /\ buffer \in Seq(Nat) /\ <<>> \in Seq(Nat) /\ Len(<<>>) = 0
  BY EmptySeq DEF Init
<1>2. BufferIsNewest
  BY <1>1 DEF Init, BufferIsNewest
<1>3. \A t \in Thread : hand[t] = <<>> /\ Elements(hand[t]) = {}
  BY <1>1 DEF Init, Elements
<1>4. HandsApart
  BY <1>1, <1>3 DEF Init, HandsApart
<1>5. InHand = {}
  BY <1>3 DEF InHand
<1>6. OlderHaveAFate
  BY <1>1, <1>5 DEF Init, OlderHaveAFate
<1>7. ThreadsOrderly
  BY <1>3 DEF Init, ThreadsOrderly, Tasks, DaemonTasks
<1>8. ShutdownOrderly /\ ShutdownQuiesces
  <2>1. \A t \in Callers : task[t] = "idle"
    BY DEF Init, Thread
  <2> QED
    BY <2>1 DEF Init, ShutdownOrderly, ShutdownQuiesces, Closing
<1> QED
  BY <1>2, <1>4, <1>6, <1>7, <1>8 DEF ConsumerInv, BufferInv

(* The events' places are an invariant of every step of every thread.       *)
LEMMA StepPlaces == BufferInv /\ [Next]_vars => BufferInv'
<1> SUFFICES ASSUME BufferInv, [Next]_vars PROVE BufferInv'
  OBVIOUS
<1> USE ConfigurationType
<1>1. ASSUME buffer' = buffer, hand' = hand, UNCHANGED events
      PROVE  BufferInv'
  BY <1>1 DEF BufferInv, BufferIsNewest, HandsApart, OlderHaveAFate, InHand, events
<1>2. ASSUME NEW t \in Thread, drain_all(t)
      PROVE  BufferInv'
  BY <1>2, NextBatchPlaces DEF drain_all
<1>3. ASSUME NEW t \in Thread, Delivers(t) \/ DeliverRaises(t)
      PROVE  BufferInv'
  BY <1>3, DeliveryPlaces DEF Delivers, DeliverRaises
<1>4. CASE DaemonStep
  BY <1>1, <1>2, <1>3, <1>4
     DEF DaemonStep, DaemonExits, DaemonIdles, DaemonWaitsForMore, DaemonDrains, DaemonWakes,
         DaemonStays
<1>5. CASE DeadlinePasses \/ TimeoutPasses
  BY <1>1, <1>5 DEF DeadlinePasses, TimeoutPasses, DaemonStays
<1>6. ASSUME NEW t \in Callers, CallerStep(t)
      PROVE  BufferInv'
  <2>1. CASE enqueue(t)
    BY <2>1, EnqueuePlaces
  <2>2. CASE flush(t) \/ Shutdown(t) \/ ShutdownReturns(t)
    BY <1>1, <2>2 DEF flush, Shutdown, ShutdownReturns
  <2>3. CASE drain_all(t) \/ Delivers(t) \/ DeliverRaises(t)
    BY <1>2, <1>3, <2>3
  <2>4. CASE ShutdownDrains(t)
    <3>1. CASE late \/ buffer = <<>>
      BY <1>1, <2>4, <3>1 DEF ShutdownDrains
    <3>2. CASE ~(late \/ buffer = <<>>)
      BY <2>4, <3>2, NextBatchPlaces DEF ShutdownDrains
    <3> QED
      BY <3>1, <3>2
  <2> QED
    BY <1>6, <2>1, <2>2, <2>3, <2>4 DEF CallerStep
<1>7. CASE UNCHANGED vars
  BY <1>1, <1>7 DEF vars
<1> QED
  BY <1>4, <1>5, <1>6, <1>7 DEF Next

---------------------------------------------------------------------------
LEMMA StepThreads == ConsumerInv /\ [Next]_vars => ThreadsOrderly'
<1> SUFFICES ASSUME ConsumerInv, [Next]_vars PROVE ThreadsOrderly'
  OBVIOUS
<1> USE ConfigurationType DEF ThreadsOrderly, Tasks, DaemonTasks
<1>0. ThreadsOrderly /\ DOMAIN hand = Thread
  BY DEF ConsumerInv, BufferInv, HandsApart
<1>1. ASSUME NEW t \in Thread, drain_all(t)
      PROVE  ThreadsOrderly'
  <2>1. /\ task[t] = "draining" /\ hand[t] = <<>>
        /\ \A u \in Thread : u # t => hand'[u] = hand[u]
    BY <1>0, <1>1 DEF drain_all, next_batch
  <2>2. CASE buffer = <<>>
    <3>1. hand'[t] = <<>>
      <4>1. Len(buffer) = 0
        BY <2>2, EmptySeq
      <4>2. hand'[t] = SubSeq(buffer, 1, 0)
        BY <1>0, <1>1, <4>1 DEF drain_all, next_batch
      <4> QED
        BY <4>2, SubSeqEmpty
    <3> QED
      BY <1>0, <1>1, <2>1, <2>2, <3>1 DEF drain_all, Becomes, Thread
  <2>3. CASE buffer # <<>>
    BY <1>0, <1>1, <2>1, <2>3 DEF drain_all, Becomes
  <2> QED
    BY <2>2, <2>3
<1>2. ASSUME NEW t \in Thread, Delivers(t) \/ DeliverRaises(t)
      PROVE  ThreadsOrderly'
  BY <1>0, <1>2 DEF Delivers, DeliverRaises, Becomes, Thread
<1>3. CASE DaemonStep
  BY <1>0, <1>1, <1>2, <1>3
     DEF DaemonStep, DaemonExits, DaemonIdles, DaemonWaitsForMore, DaemonDrains, DaemonWakes,
         DaemonStays, Becomes
<1>4. CASE DeadlinePasses \/ TimeoutPasses
  BY <1>0, <1>4 DEF DeadlinePasses, TimeoutPasses, DaemonStays
<1>5. ASSUME NEW t \in Callers, CallerStep(t)
      PROVE  ThreadsOrderly'
  <2>1. CASE enqueue(t) \/ flush(t) \/ Shutdown(t) \/ ShutdownReturns(t)
    BY <1>0, <2>1 DEF enqueue, flush, Shutdown, ShutdownReturns, Becomes
  <2>2. CASE drain_all(t) \/ Delivers(t) \/ DeliverRaises(t)
    BY <1>1, <1>2, <2>2
  <2>3. CASE ShutdownDrains(t)
    BY <1>0, <2>3 DEF ShutdownDrains, next_batch, Becomes
  <2> QED
    BY <1>5, <2>1, <2>2, <2>3 DEF CallerStep
<1>6. CASE UNCHANGED vars
  BY <1>0, <1>6 DEF vars
<1> QED
  BY <1>3, <1>4, <1>5, <1>6 DEF Next

(* After the latch is set the deque only shrinks.                           *)
LEMMA EmptyStaysEmpty ==
    ASSUME ConsumerInv, [Next]_vars, stopped, buffer = <<>>
    PROVE  buffer' = <<>>
<1>1. ASSUME NEW t \in Thread, next_batch(t)
      PROVE  buffer' = <<>>
  <2>1. Len(buffer) = 0
    BY EmptySeq
  <2> DEFINE n == IF Len(buffer) < max_batch_size THEN Len(buffer) ELSE max_batch_size
  <2>2. buffer' = SubSeq(buffer, n + 1, Len(buffer))
    BY <1>1 DEF next_batch
  <2>3. n + 1 \in Int /\ Len(buffer) \in Int /\ Len(buffer) < n + 1
    BY <2>1, ConfigurationType
  <2> HIDE DEF n
  <2> QED
    BY <2>2, <2>3, SubSeqEmpty
<1>2. CASE DaemonStep
  BY <1>1, <1>2, ConfigurationType
     DEF DaemonStep, DaemonExits, DaemonIdles, DaemonWaitsForMore, DaemonDrains, DaemonWakes,
         DaemonStays, drain_all, Delivers, DeliverRaises
<1>3. CASE DeadlinePasses \/ TimeoutPasses
  BY <1>3 DEF DeadlinePasses, TimeoutPasses, DaemonStays
<1>4. ASSUME NEW t \in Callers, CallerStep(t)
      PROVE  buffer' = <<>>
  BY <1>1, <1>4, ConfigurationType
     DEF CallerStep, enqueue, flush, Shutdown, ShutdownReturns, drain_all, Delivers,
         DeliverRaises, ShutdownDrains
<1>5. CASE UNCHANGED vars
  BY <1>5 DEF vars
<1> QED
  BY <1>2, <1>3, <1>4, <1>5 DEF Next

(* The latch is never taken back, nor is a timeout.                         *)
LEMMA LatchesStay ==
    ASSUME ConsumerInv, [Next]_vars
    PROVE  (stopped => stopped') /\ (late => late')
<1> USE DEF enqueue, flush, Shutdown, ShutdownReturns, drain_all, Delivers, DeliverRaises,
            ShutdownDrains, DaemonExits, DaemonIdles, DaemonWaitsForMore, DaemonDrains,
            DaemonWakes, DaemonStays, DeadlinePasses, TimeoutPasses, closing, vars
<1>1. CASE DaemonStep
  BY <1>1 DEF DaemonStep
<1>2. ASSUME NEW t \in Callers, CallerStep(t)
      PROVE  (stopped => stopped') /\ (late => late')
  BY <1>2 DEF CallerStep
<1> QED
  BY <1>1, <1>2 DEF Next

LEMMA StepShutdown == ConsumerInv /\ [Next]_vars => ShutdownOrderly'
<1> SUFFICES ASSUME ConsumerInv, [Next]_vars PROVE ShutdownOrderly'
  OBVIOUS
<1> USE ConfigurationType
<1>0. ShutdownOrderly /\ ThreadsOrderly
  BY DEF ConsumerInv
<1>1. (stopped => stopped') /\ (late => late') /\ (stopped /\ buffer = <<>> => buffer' = <<>>)
  BY LatchesStay, EmptyStaysEmpty
<1>2. /\ {sync_mode', running', stopped', late', warned'} \subseteq BOOLEAN
      /\ deadline' \in {"none", "armed", "passed"}
      /\ shutdown' \in {"none", "running", "returned", "raised"}
      /\ unserialisable' \subseteq 1..MaxEvents
      /\ shutdown' # "none" => stopped'
  <2> USE <1>0 DEF ShutdownOrderly, enqueue, flush, Shutdown, ShutdownReturns, drain_all, Delivers,
              DeliverRaises, ShutdownDrains, DaemonExits, DaemonIdles, DaemonWaitsForMore,
              DaemonDrains, DaemonWakes, DaemonStays, DeadlinePasses, TimeoutPasses, closing,
              Configured
  <2>1. CASE DaemonStep
    BY <2>1 DEF DaemonStep, ThreadsOrderly, DaemonTasks
  <2>2. ASSUME NEW t \in Callers, CallerStep(t)
        PROVE  /\ {sync_mode', running', stopped', late', warned'} \subseteq BOOLEAN
               /\ deadline' \in {"none", "armed", "passed"}
               /\ shutdown' \in {"none", "running", "returned", "raised"}
               /\ unserialisable' \subseteq 1..MaxEvents
               /\ shutdown' # "none" => stopped'
    BY <2>2 DEF CallerStep, Closing
  <2>3. CASE DeadlinePasses \/ TimeoutPasses \/ UNCHANGED vars
    BY <2>3 DEF vars
  <2> QED
    BY <2>1, <2>2, <2>3 DEF Next
<1>3. \/ shutdown' = shutdown /\ Closing' = Closing
      \/ Closing' = {}
      \/ shutdown = "none" /\ shutdown' = "running" /\ \E t \in Callers : Closing' = {t}
  <2> USE <1>0 DEF ShutdownOrderly, ThreadsOrderly, Closing, Becomes
  <2>1. CASE DaemonStep
    BY <2>1 DEF DaemonStep, DaemonExits, DaemonIdles, DaemonWaitsForMore, DaemonDrains,
       DaemonWakes, DaemonStays, drain_all, Delivers, DeliverRaises, closing, DaemonTasks
  <2>2. ASSUME NEW t \in Callers, CallerStep(t)
        PROVE  \/ shutdown' = shutdown /\ Closing' = Closing
               \/ Closing' = {}
               \/ shutdown = "none" /\ shutdown' = "running" /\ \E u \in Callers : Closing' = {u}
    <3>1. CASE Shutdown(t)
      BY <3>1 DEF Shutdown
    <3>2. CASE DeliverRaises(t)
      BY <3>2 DEF DeliverRaises, Tasks
    <3>3. CASE ShutdownDrains(t) \/ ShutdownReturns(t)
      BY <3>3 DEF ShutdownDrains, ShutdownReturns
    <3>4. CASE enqueue(t) \/ flush(t) \/ drain_all(t) \/ Delivers(t)
      BY <3>4 DEF enqueue, flush, drain_all, Delivers, closing
    <3> QED
      BY <2>2, <3>1, <3>2, <3>3, <3>4 DEF CallerStep
  <2>3. CASE DeadlinePasses \/ TimeoutPasses \/ UNCHANGED vars
    BY <2>3 DEF DeadlinePasses, TimeoutPasses, DaemonStays, vars, closing
  <2> QED
    BY <2>1, <2>2, <2>3 DEF Next
<1>4. ASSUME NEW t \in Callers, task'[t] = "joining"
      PROVE  buffer' = <<>> \/ late'
  <2>1. CASE task[t] = "joining"
    BY <1>0, <1>1, <2>1 DEF ShutdownOrderly, Closing
  <2>2. CASE task[t] # "joining"
    <3>1. ShutdownDrains(t)
      <4>1. ~ (DaemonStep \/ DeadlinePasses \/ TimeoutPasses \/ UNCHANGED vars)
        BY <1>0, <1>4, <2>2 DEF DaemonStep, DaemonExits, DaemonIdles, DaemonWaitsForMore,
           DaemonDrains, DaemonWakes, DaemonStays, DeadlinePasses, TimeoutPasses, drain_all,
           Delivers, DeliverRaises, Becomes, vars, ThreadsOrderly
      <4>2. PICK u \in Callers : CallerStep(u)
        BY <4>1 DEF Next
      <4> QED
        BY <1>0, <1>4, <2>2, <4>2 DEF CallerStep, enqueue, flush, Shutdown, ShutdownReturns,
           drain_all, Delivers, DeliverRaises, ShutdownDrains, Becomes, ThreadsOrderly
    <3> QED
      BY <1>0, <1>4, <2>2, <3>1 DEF ShutdownDrains, Becomes, ThreadsOrderly
  <2> QED
    BY <2>1, <2>2
<1> QED
  BY <1>0, <1>2, <1>3, <1>4 DEF ShutdownOrderly

LEMMA StepQuiesces == ConsumerInv /\ [Next]_vars => ShutdownQuiesces'
<1> SUFFICES ASSUME ConsumerInv, [Next]_vars PROVE ShutdownQuiesces'
  OBVIOUS
<1> USE ConfigurationType
<1>0. ShutdownOrderly /\ ThreadsOrderly /\ ShutdownQuiesces /\ BufferIsNewest /\ DOMAIN hand = Thread
  BY DEF ConsumerInv, BufferInv, HandsApart
<1>1. stopped /\ buffer = <<>> => buffer' = <<>>
  BY EmptyStaysEmpty
<1>2. CASE shutdown' # "returned"
  BY <1>2 DEF ShutdownQuiesces
<1>3. CASE \E t \in Callers : ShutdownReturns(t)
  <2>1. PICK t \in Callers : ShutdownReturns(t)
    BY <1>3
  <2>2. buffer = <<>> \/ late
    BY <1>0, <2>1 DEF ShutdownReturns, ShutdownOrderly
  <2>3. ~late => task[Daemon] \in {"exited", "dead"} /\ hand[Daemon] = <<>>
    BY <1>0, <2>1 DEF ShutdownReturns, Joined, ThreadsOrderly
  <2> QED
    BY <1>0, <2>1, <2>2, <2>3
       DEF ShutdownReturns, ShutdownQuiesces, ThreadsOrderly, Becomes
<1>4. CASE shutdown' = "returned" /\ ~\E t \in Callers : ShutdownReturns(t)
  <2>1. shutdown = "returned" /\ stopped
    <3>1. CASE DaemonStep
      BY <1>0, <1>4, <3>1 DEF DaemonStep, DaemonExits, DaemonIdles, DaemonWaitsForMore,
         DaemonDrains, DaemonWakes, DaemonStays, drain_all, Delivers, DeliverRaises, closing,
         ShutdownOrderly
    <3>2. ASSUME NEW t \in Callers, CallerStep(t)
          PROVE  shutdown = "returned" /\ stopped
      BY <1>0, <1>4, <3>2 DEF CallerStep, enqueue, flush, Shutdown, drain_all, Delivers,
         DeliverRaises, ShutdownDrains, closing, ShutdownOrderly
    <3>3. CASE DeadlinePasses \/ TimeoutPasses \/ UNCHANGED vars
      BY <1>0, <1>4, <3>3 DEF DeadlinePasses, TimeoutPasses, DaemonStays, vars, closing,
         ShutdownOrderly
    <3> QED
      BY <3>1, <3>2, <3>3 DEF Next
  <2>2. late' = late
    <3>1. CASE DaemonStep
      BY <3>1 DEF DaemonStep, DaemonExits, DaemonIdles, DaemonWaitsForMore,
         DaemonDrains, DaemonWakes, DaemonStays, drain_all, Delivers, DeliverRaises, closing
    <3>2. ASSUME NEW t \in Callers, CallerStep(t)
          PROVE  late' = late
      BY <3>2 DEF CallerStep, enqueue, flush, Shutdown, ShutdownReturns, drain_all, Delivers,
         DeliverRaises, ShutdownDrains, closing
    <3>3. CASE DeadlinePasses \/ TimeoutPasses \/ UNCHANGED vars
      BY <2>1, <3>3 DEF DeadlinePasses, TimeoutPasses, DaemonStays, vars, closing
    <3> QED
      BY <3>1, <3>2, <3>3 DEF Next
  <2>3. warned => warned'
    <3>1. CASE DaemonStep
      BY <3>1 DEF DaemonStep, DaemonExits, DaemonIdles, DaemonWaitsForMore,
         DaemonDrains, DaemonWakes, DaemonStays, drain_all, Delivers, DeliverRaises, closing
    <3>2. ASSUME NEW t \in Callers, CallerStep(t)
          PROVE  warned => warned'
      BY <1>0, <2>1, <3>2 DEF ShutdownOrderly, Closing, CallerStep, enqueue, flush, Shutdown, ShutdownReturns, drain_all, Delivers,
         DeliverRaises, ShutdownDrains, closing
    <3>3. CASE DeadlinePasses \/ TimeoutPasses \/ UNCHANGED vars
      BY <3>3 DEF DeadlinePasses, TimeoutPasses, DaemonStays, vars, closing
    <3> QED
      BY <3>1, <3>2, <3>3 DEF Next
  <2>4. ASSUME task[Daemon] \in {"exited", "dead"}, hand[Daemon] = <<>>
        PROVE  task'[Daemon] = task[Daemon] /\ hand'[Daemon] = <<>>
    <3>1. ~DaemonStep
      <4>1. Elements(hand[Daemon]) = {}
        BY <2>4, EmptySeq DEF Elements
      <4> QED
        BY <2>4, <4>1 DEF DaemonStep, DaemonExits, DaemonIdles, DaemonWaitsForMore,
           DaemonDrains, DaemonWakes, drain_all, Delivers, DeliverRaises
    <3>2. ASSUME NEW t \in Callers, CallerStep(t)
          PROVE  task'[Daemon] = task[Daemon] /\ hand'[Daemon] = <<>>
      BY <1>0, <2>4, <3>2 DEF CallerStep, enqueue, flush, Shutdown, ShutdownReturns, drain_all,
         Delivers, DeliverRaises, ShutdownDrains, next_batch, Becomes, ThreadsOrderly
    <3>3. CASE DeadlinePasses \/ TimeoutPasses \/ UNCHANGED vars
      BY <2>4, <3>3 DEF DeadlinePasses, TimeoutPasses, DaemonStays, vars
    <3> QED
      BY <3>1, <3>2, <3>3 DEF Next
  <2> QED
    BY <1>0, <1>1, <2>1, <2>2, <2>3, <2>4 DEF ShutdownQuiesces, ShutdownOrderly
<1> QED
  BY <1>2, <1>3, <1>4

---------------------------------------------------------------------------
(* The inductive invariant of the consumer, for every number of threads.    *)
THEOREM ConsumerInvariant == Spec => []ConsumerInv
<1>1. ConsumerInv /\ [Next]_vars => ConsumerInv'
  BY StepPlaces, StepThreads, StepShutdown, StepQuiesces DEF ConsumerInv
<1> QED
  BY InitInv, <1>1, PTL DEF Spec

(* Each accepted event is in one place and never in two, whichever threads  *)
(* drain at once: nothing is mislaid between the deque and a thread.        *)
THEOREM ConsumerOneFate == Spec => []OneFate
<1>1. ConsumerInv => OneFate
  <2> SUFFICES ASSUME ConsumerInv PROVE OneFate
    OBVIOUS
  <2>1. /\ 1..accepted = (1 .. (accepted - Len(buffer))) \cup Elements(buffer)
        /\ (1 .. (accepted - Len(buffer))) \cap Elements(buffer) = {}
    BY BufferElements DEF ConsumerInv, BufferInv
  <2> QED
    BY <2>1 DEF ConsumerInv, BufferInv, HandsApart, OlderHaveAFate, OneFate
<1> QED
  BY <1>1, ConsumerInvariant, PTL

(* A shutdown that returned in time left nothing behind, one that did not   *)
(* has said so.                                                             *)
THEOREM ConsumerQuiesces == Spec => []ShutdownQuiesces
<1>1. ConsumerInv => ShutdownQuiesces
  BY DEF ConsumerInv
<1> QED
  BY <1>1, ConsumerInvariant, PTL

(* Every variable keeps its type, and the deque and the batches their size. *)
THEOREM ConsumerTypes == Spec => []TypeOK
<1>1. ConsumerInv => TypeOK
  <2> SUFFICES ASSUME ConsumerInv PROVE TypeOK
    OBVIOUS
  <2> USE ConfigurationType DEF ConsumerInv, BufferInv
  <2>1. /\ 1..accepted = (1 .. (accepted - Len(buffer))) \cup Elements(buffer)
        /\ accepted \in 0..MaxEvents
    BY BufferElements DEF BufferIsNewest
  <2>2. {evicted, delivered, raised} \subseteq SUBSET (1..accepted) /\ InHand \subseteq 1..accepted
    BY <2>1 DEF OlderHaveAFate
  <2>3. ASSUME NEW s \in Seq(Nat), Elements(s) \subseteq 1..accepted
        PROVE  s \in Seq(1..MaxEvents)
    <3>1. Len(s) \in Nat /\ s = [i \in 1..Len(s) |-> s[i]]
      BY LenProperties
    <3>2. \A i \in 1..Len(s) : s[i] \in 1..MaxEvents
      BY <2>1, <2>3 DEF Elements
    <3>3. s \in [1..Len(s) -> 1..MaxEvents]
      BY <3>1, <3>2
    <3> QED
      BY <3>1, <3>3, SeqDef
  <2>4. buffer \in Seq(1..MaxEvents)
    BY <2>1, <2>3 DEF BufferIsNewest
  <2>5. \A t \in Thread : hand[t] \in Seq(1..MaxEvents)
    BY <2>2, <2>3 DEF HandsApart, InHand
  <2> QED
    BY <2>1, <2>2, <2>4, <2>5
       DEF BufferIsNewest, HandsApart, ThreadsOrderly, ShutdownOrderly, TypeOK
<1> QED
  BY <1>1, ConsumerInvariant, PTL

---------------------------------------------------------------------------
(* Refinement: threads, batches and the shutdown are hidden behind the      *)
(* bounded drop-oldest buffer.                                              *)
LEMMA InitRefines == Init => Buffer!BufferInit
<1> SUFFICES ASSUME Init PROVE Buffer!BufferInit
  OBVIOUS
<1>1. InHand \cup delivered \cup raised = {}
  BY EmptySeq DEF Init, InHand, Elements
<1> QED
  BY <1>1 DEF Init, Buffer!BufferInit

LEMMA NextBatchRefines ==
    ASSUME BufferInv, NEW t \in Thread, hand[t] = <<>>, next_batch(t), UNCHANGED events
    PROVE  [Buffer!BufferNext]_Buffer!bufferVars
<1>1. accepted' = accepted /\ evicted' = evicted /\ delivered' = delivered /\ raised' = raised
  BY DEF events
<1>2. PICK n \in 0..Len(buffer) :
         /\ n = 0 <=> buffer = <<>>
         /\ buffer' = SubSeq(buffer, n + 1, Len(buffer))
         /\ Elements(hand'[t]) = {buffer[i] : i \in 1..n}
  BY <1>1, NextBatch DEF BufferInv, HandsApart
<1>3. /\ \A u \in Thread : u # t => hand'[u] = hand[u]
      /\ Elements(hand[t]) = {}
  BY EmptySeq DEF next_batch, BufferInv, HandsApart, Elements
<1>4. InHand' = InHand \cup {buffer[i] : i \in 1..n}
  BY <1>2, <1>3 DEF InHand
<1>5. CASE buffer = <<>>
  <2>1. n = 0 /\ Len(buffer) = 0
    BY <1>2, <1>5, EmptySeq
  <2>2. buffer' = buffer
    BY <1>2, <1>5, <2>1, SubSeqEmpty
  <2>3. InHand' = InHand
    BY <1>4, <2>1
  <2> QED
    BY <1>1, <2>2, <2>3 DEF Buffer!bufferVars
<1>6. CASE buffer # <<>>
  <2>1. n \in 1..Len(buffer)
    BY <1>2, <1>6, LenProperties DEF BufferInv, BufferIsNewest
  <2>2. (InHand \cup delivered \cup raised)' =
           (InHand \cup delivered \cup raised) \cup {buffer[i] : i \in 1..n}
    BY <1>1, <1>4
  <2>3. Buffer!Release
    BY <1>1, <1>2, <2>1, <2>2 DEF Buffer!Release
  <2> QED
    BY <2>3 DEF Buffer!BufferNext
<1> QED
  BY <1>5, <1>6

LEMMA StepRefines ==
    BufferInv /\ [Next]_vars => [Buffer!BufferNext]_Buffer!bufferVars
<1> SUFFICES ASSUME BufferInv, [Next]_vars PROVE [Buffer!BufferNext]_Buffer!bufferVars
  OBVIOUS
<1> USE ConfigurationType
<1>1. ASSUME buffer' = buffer, hand' = hand, UNCHANGED events
      PROVE  UNCHANGED Buffer!bufferVars
  BY <1>1 DEF Buffer!bufferVars, InHand, events
<1>2. ASSUME NEW t \in Thread, drain_all(t)
      PROVE  [Buffer!BufferNext]_Buffer!bufferVars
  BY <1>2, NextBatchRefines DEF drain_all
<1>3. ASSUME NEW t \in Thread, Delivers(t) \/ DeliverRaises(t)
      PROVE  UNCHANGED Buffer!bufferVars
  <2>1. InHand' = InHand \ Elements(hand[t])
    BY <1>3, DeliveryPlaces DEF Delivers, DeliverRaises
  <2>2. Elements(hand[t]) \subseteq InHand
    BY DEF InHand
  <2>3. (InHand \cup delivered \cup raised)' = InHand \cup delivered \cup raised
    BY <1>3, <2>1, <2>2 DEF Delivers, DeliverRaises
  <2> QED
    BY <1>3, <2>3 DEF Delivers, DeliverRaises, Buffer!bufferVars
<1>4. CASE DaemonStep
  BY <1>1, <1>2, <1>3, <1>4
     DEF DaemonStep, DaemonExits, DaemonIdles, DaemonWaitsForMore, DaemonDrains, DaemonWakes,
         DaemonStays
<1>5. CASE DeadlinePasses \/ TimeoutPasses
  BY <1>1, <1>5 DEF DeadlinePasses, TimeoutPasses, DaemonStays
<1>6. ASSUME NEW t \in Callers, CallerStep(t)
      PROVE  [Buffer!BufferNext]_Buffer!bufferVars
  <2>1. CASE enqueue(t)
    <3>1. (InHand \cup delivered \cup raised)' = InHand \cup delivered \cup raised
      BY <2>1 DEF enqueue, InHand
    <3>2. Len(buffer) = max_queue_size <=> Len(buffer) >= max_queue_size
      BY LenProperties DEF BufferInv, BufferIsNewest
    <3>3. Buffer!Accept
      BY <2>1, <3>1, <3>2 DEF enqueue, Buffer!Accept
    <3> QED
      BY <3>3 DEF Buffer!BufferNext
  <2>2. CASE flush(t) \/ Shutdown(t) \/ ShutdownReturns(t)
    BY <1>1, <2>2 DEF flush, Shutdown, ShutdownReturns
  <2>3. CASE drain_all(t) \/ Delivers(t) \/ DeliverRaises(t)
    BY <1>2, <1>3, <2>3
  <2>4. CASE ShutdownDrains(t)
    <3>1. CASE late \/ buffer = <<>>
      BY <1>1, <2>4, <3>1 DEF ShutdownDrains
    <3>2. CASE ~(late \/ buffer = <<>>)
      BY <2>4, <3>2, NextBatchRefines DEF ShutdownDrains
    <3> QED
      BY <3>1, <3>2
  <2> QED
    BY <1>6, <2>1, <2>2, <2>3, <2>4 DEF CallerStep
<1>7. CASE UNCHANGED vars
  BY <1>1, <1>7 DEF vars
<1> QED
  BY <1>4, <1>5, <1>6, <1>7 DEF Next

(* Every behaviour of the consumer's threads is one of the bounded          *)
(* drop-oldest buffer.                                                      *)
THEOREM ConsumerImplementsBuffer == Spec => ImplementsBuffer
<1>1. ConsumerInv => BufferInv
  BY DEF ConsumerInv
<1> QED
  BY InitRefines, StepRefines, ConsumerInvariant, <1>1, PTL
     DEF Spec, ImplementsBuffer, Buffer!BufferSafety
=============================================================================
