------------------------ MODULE NodeAnalyticsProofs ------------------------
(* For every number of callers and every configuration of the node client.  *)
(* First its batch queue: the timers match the buffer, every event has one  *)
(* fate, and it implements DropOldestBuffer.  Then the client: each of its  *)
(* steps is a step of the queue, so it inherits what the queue promises;    *)
(* what a flush and a shutdown promise is proved here.                      *)
EXTENDS NodeAnalytics, SequenceTheorems, TLAPS

QueueSafety == QueueInit /\ [][QueueNext]_queueVars

(* The buffer holds exactly the newest events, in order.                    *)
BufferIsNewest ==
    /\ minted \in 0..MaxEvents
    /\ buffer \in Seq(Nat)
    /\ Len(buffer) <= maxQueueSize /\ Len(buffer) <= minted
    /\ \A i \in 1..Len(buffer) : buffer[i] = minted - Len(buffer) + i

(* The batches in flight are pairwise disjoint slices of older events.      *)
InFlightApart ==
    /\ \A b \in inFlight : b \in Seq(Nat) /\ Len(b) \in 1..maxBatchSize
    /\ \A b, c \in inFlight : b # c => Elements(b) \cap Elements(c) = {}

OlderHaveAFate ==
    /\ InFlightEvents \cup settled \cup dropped = 1 .. (minted - Len(buffer))
    /\ InFlightEvents \cap (settled \cup dropped) = {}
    /\ settled \cap dropped = {}

QueueInv ==
    /\ intervalTimer \in BOOLEAN /\ pendingFlush \in BOOLEAN
    /\ BufferIsNewest
    /\ InFlightApart
    /\ OlderHaveAFate
    /\ WakeupArmed

---------------------------------------------------------------------------
LEMMA ConfigurationType ==
    /\ flushAt \in Nat \ {0} /\ maxBatchSize \in Nat \ {0}
    /\ maxQueueSize \in Nat \ {0} /\ maxQueueSize >= flushAt
BY BatchQueueAssumption
   DEF flushAt, maxBatchSize, maxQueueSize, AtLeast, DEFAULT_FLUSH_AT

LEMMA DivMod ==
    ASSUME NEW j \in Nat, NEW m \in Nat \ {0}
    PROVE  /\ j = m * (j \div m) + (j % m)
           /\ j % m \in 0 .. m - 1 /\ j \div m \in Nat
           /\ (j - (j % m)) % m = 0
BY SMT

(* Two different multiples of m are at least m apart.                       *)
LEMMA MultiplesApart ==
    ASSUME NEW a \in Nat, NEW b \in Nat, NEW m \in Nat \ {0},
           a % m = 0, b % m = 0, a < b
    PROVE  b >= a + m
<1>1. PICK p \in Nat : a = m * p
  <2>1. a = m * (a \div m) + (a % m) /\ a \div m \in Nat
    BY DivMod
  <2> QED
    BY <2>1
<1>2. PICK q \in Nat : b = m * q
  <2>1. b = m * (b \div m) + (b % m) /\ b \div m \in Nat
    BY DivMod
  <2> QED
    BY <2>1
<1>3. p < q
  BY <1>1, <1>2
<1>4. PICK d \in Nat : q = p + 1 + d
  BY <1>3
<1> QED
  BY <1>1, <1>2, <1>4

(* The last position of the slice that starts at position i.                *)
SliceEnd(s, i) == IF i + maxBatchSize - 1 <= Len(s) THEN i + maxBatchSize - 1 ELSE Len(s)

LEMMA SliceShape ==
    ASSUME NEW s \in Seq(Nat), NEW i \in 1..Len(s)
    PROVE  /\ SubSeq(s, i, SliceEnd(s, i)) \in Seq(Nat)
           /\ Len(SubSeq(s, i, SliceEnd(s, i))) = SliceEnd(s, i) - i + 1
           /\ SliceEnd(s, i) \in i .. Len(s)
           /\ SliceEnd(s, i) - i + 1 \in 1 .. maxBatchSize
           /\ Elements(SubSeq(s, i, SliceEnd(s, i))) = {s[k] : k \in i .. SliceEnd(s, i)}
<1> DEFINE e == SliceEnd(s, i)
<1>1. e \in i .. Len(s) /\ e - i + 1 \in 1 .. maxBatchSize
  BY ConfigurationType, LenProperties DEF SliceEnd
<1>2. \A k \in i..e : s[k] \in Nat
  BY <1>1, ElementOfSeq, LenProperties
<1> HIDE DEF e
<1>3. /\ SubSeq(s, i, e) \in Seq(Nat)
      /\ Len(SubSeq(s, i, e)) = e - i + 1
      /\ \A k \in 1 .. e - i + 1 : SubSeq(s, i, e)[k] = s[i + k - 1]
  <2>1. i \in Int /\ e \in Int /\ i <= e
    BY <1>1, LenProperties
  <2> QED
    BY <1>2, <2>1, SubSeqProperties
<1>4. Elements(SubSeq(s, i, e)) = {s[k] : k \in i..e}
  <2>1. ASSUME NEW k \in i..e
        PROVE  s[k] \in Elements(SubSeq(s, i, e))
    <3>1. k - i + 1 \in 1 .. e - i + 1 /\ i + (k - i + 1) - 1 = k
      BY <1>1, LenProperties
    <3> QED
      BY <1>3, <3>1 DEF Elements
  <2>2. ASSUME NEW k \in 1 .. e - i + 1
        PROVE  SubSeq(s, i, e)[k] \in {s[m] : m \in i..e}
    <3>1. i + k - 1 \in i..e
      BY <1>1, LenProperties
    <3> QED
      BY <1>3, <3>1
  <2> QED
    BY <1>3, <2>1, <2>2 DEF Elements
<1> QED
  BY <1>1, <1>3, <1>4 DEF e

(* The slices hold every element of the sequence, ...                       *)
LEMMA BatchesCover ==
    ASSUME NEW s \in Seq(Nat)
    PROVE  /\ UNION {Elements(b) : b \in Batches(s)} = Elements(s)
           /\ \A b \in Batches(s) : b \in Seq(Nat) /\ Len(b) \in 1..maxBatchSize
<1>1. ASSUME NEW b \in Batches(s)
      PROVE  /\ Elements(b) \subseteq Elements(s)
             /\ b \in Seq(Nat) /\ Len(b) \in 1..maxBatchSize
  <2>1. PICK i \in 1..Len(s) : b = SubSeq(s, i, SliceEnd(s, i))
    BY <1>1 DEF Batches, SliceEnd
  <2>2. {s[k] : k \in i .. SliceEnd(s, i)} \subseteq Elements(s)
    <3>1. SliceEnd(s, i) \in i .. Len(s) /\ Len(s) \in Nat
      BY SliceShape, LenProperties
    <3> QED
      BY <3>1 DEF Elements
  <2> QED
    BY <2>1, <2>2, SliceShape
<1>2. ASSUME NEW k \in 1..Len(s)
      PROVE  \E b \in Batches(s) : s[k] \in Elements(b)
  <2> DEFINE i == k - ((k - 1) % maxBatchSize)
  <2>1. /\ i \in 1..k /\ (i - 1) % maxBatchSize = 0
        /\ k <= i + maxBatchSize - 1
    <3>1. k - 1 \in Nat
      BY LenProperties
    <3>2. /\ (k - 1) % maxBatchSize \in 0 .. maxBatchSize - 1
          /\ ((k - 1) - ((k - 1) % maxBatchSize)) % maxBatchSize = 0
          /\ (k - 1) % maxBatchSize <= k - 1
      <4>1. \A j \in Nat, m \in Nat \ {0} : j % m <= j
        BY SMT
      <4> QED
        BY <3>1, <4>1, DivMod, ConfigurationType
    <3>3. i - 1 = (k - 1) - ((k - 1) % maxBatchSize)
      BY <3>2, LenProperties, ConfigurationType
    <3> QED
      BY <3>2, <3>3, LenProperties, ConfigurationType
  <2> HIDE DEF i
  <2>2. i \in 1..Len(s)
    BY <2>1, LenProperties
  <2>3. SubSeq(s, i, SliceEnd(s, i)) \in Batches(s)
    BY <2>1, <2>2 DEF Batches, SliceEnd
  <2>4. k \in i .. SliceEnd(s, i)
    BY <2>1, <2>2, LenProperties, ConfigurationType DEF SliceEnd
  <2>5. s[k] \in {s[j] : j \in i .. SliceEnd(s, i)}
    BY <2>4
  <2> QED
    BY <2>2, <2>3, <2>5, SliceShape
<1>3. UNION {Elements(b) : b \in Batches(s)} \subseteq Elements(s)
  BY <1>1
<1>4. Elements(s) \subseteq UNION {Elements(b) : b \in Batches(s)}
  <2>1. ASSUME NEW x \in Elements(s)
        PROVE  \E b \in Batches(s) : x \in Elements(b)
    <3>1. PICK k \in 1..Len(s) : x = s[k]
      BY DEF Elements
    <3> QED
      BY <3>1, <1>2
  <2> QED
    BY <2>1
<1> QED
  BY <1>1, <1>3, <1>4

(* ... and no element twice, when the sequence itself has none twice.       *)
LEMMA BatchesApart ==
    ASSUME NEW s \in Seq(Nat),
           \A k, l \in 1..Len(s) : s[k] = s[l] => k = l,
           NEW b \in Batches(s), NEW c \in Batches(s), b # c
    PROVE  Elements(b) \cap Elements(c) = {}
<1>1. PICK i \in 1..Len(s) : (i - 1) % maxBatchSize = 0 /\ b = SubSeq(s, i, SliceEnd(s, i))
  BY DEF Batches, SliceEnd
<1>2. PICK j \in 1..Len(s) : (j - 1) % maxBatchSize = 0 /\ c = SubSeq(s, j, SliceEnd(s, j))
  BY DEF Batches, SliceEnd
<1>3. \A p, q \in 1..Len(s) :
         (p - 1) % maxBatchSize = 0 /\ (q - 1) % maxBatchSize = 0 /\ p < q
            => SliceEnd(s, p) < q
  <2> TAKE p, q \in 1..Len(s)
  <2> HAVE (p - 1) % maxBatchSize = 0 /\ (q - 1) % maxBatchSize = 0 /\ p < q
  <2>1. p - 1 \in Nat /\ q - 1 \in Nat /\ p - 1 < q - 1
    BY LenProperties
  <2>2. q - 1 >= (p - 1) + maxBatchSize
    BY <2>1, MultiplesApart, ConfigurationType
  <2> QED
    BY <2>2, LenProperties, ConfigurationType DEF SliceEnd
<1>4. /\ SliceEnd(s, i) \in i .. Len(s)
      /\ Elements(b) = {s[k] : k \in i .. SliceEnd(s, i)}
  BY <1>1, SliceShape
<1>5. /\ SliceEnd(s, j) \in j .. Len(s)
      /\ Elements(c) = {s[k] : k \in j .. SliceEnd(s, j)}
  BY <1>2, SliceShape
<1>6. Len(s) \in Nat
  BY LenProperties
<1>7. (i .. SliceEnd(s, i)) \cap (j .. SliceEnd(s, j)) = {}
  <2>1. i # j
    BY <1>1, <1>2
  <2>2. CASE i < j
    <3>1. SliceEnd(s, i) < j
      BY <1>1, <1>2, <1>3, <2>2
    <3> QED
      BY <3>1, <1>4, <1>5, <1>6
  <2>3. CASE j < i
    <3>1. SliceEnd(s, j) < i
      BY <1>1, <1>2, <1>3, <2>3
    <3> QED
      BY <3>1, <1>4, <1>5, <1>6
  <2> QED
    BY <2>1, <2>2, <2>3, <1>6
<1>8. /\ i .. SliceEnd(s, i) \subseteq 1..Len(s)
      /\ j .. SliceEnd(s, j) \subseteq 1..Len(s)
  BY <1>4, <1>5, <1>6
<1> QED
  BY <1>4, <1>5, <1>7, <1>8

---------------------------------------------------------------------------
LEMMA InitInv == QueueInit => QueueInv
<1> SUFFICES ASSUME QueueInit PROVE QueueInv
  OBVIOUS
<1>1. Len(buffer) = 0 /\ buffer \in Seq(Nat)
  BY EmptySeq DEF QueueInit
<1>2. BufferIsNewest
  BY <1>1, ConfigurationType, BatchQueueAssumption DEF QueueInit, BufferIsNewest
<1>3. InFlightApart
  BY DEF QueueInit, InFlightApart
<1>4. OlderHaveAFate
  BY <1>1 DEF QueueInit, OlderHaveAFate, InFlightEvents
<1>5. WakeupArmed
  BY <1>1, ConfigurationType DEF QueueInit, WakeupArmed
<1> QED
  BY <1>2, <1>3, <1>4, <1>5 DEF QueueInit, QueueInv

(* What an enqueue does to the buffer, whether or not it was full.          *)
LEMMA EnqueueBuffer ==
    ASSUME BufferIsNewest, Enqueue
    PROVE  /\ minted' = minted + 1 /\ minted' \in 0..MaxEvents
           /\ buffer' \in Seq(Nat)
           /\ Len(buffer') \in Nat \ {0}
           /\ Len(buffer') <= maxQueueSize /\ Len(buffer') <= minted'
           /\ \A i \in 1..Len(buffer') : buffer'[i] = minted' - Len(buffer') + i
           /\ dropped' = dropped \cup (minted - Len(buffer) + 1 .. minted' - Len(buffer'))
<1> USE ConfigurationType, BatchQueueAssumption
<1>1. /\ minted \in Nat /\ Len(buffer) \in Nat /\ minted' = minted + 1
      /\ minted' \in 0..MaxEvents /\ minted' \in Nat
  BY LenProperties DEF BufferIsNewest, Enqueue
<1>2. CASE Len(buffer) >= maxQueueSize
  <2>1. /\ buffer' = Append(Tail(buffer), minted')
        /\ dropped' = dropped \cup {Head(buffer)}
    BY <1>2 DEF Enqueue
  <2>2. Len(buffer) = maxQueueSize /\ buffer # <<>> /\ buffer \in Seq(Nat)
    BY <1>1, <1>2, EmptySeq DEF BufferIsNewest
  <2>3. /\ Tail(buffer) \in Seq(Nat) /\ Len(Tail(buffer)) = Len(buffer) - 1
        /\ \A i \in 1..Len(Tail(buffer)) : Tail(buffer)[i] = buffer[i + 1]
    BY <2>2, HeadTailProperties
  <2>4. /\ buffer' \in Seq(Nat) /\ Len(buffer') = Len(buffer)
        /\ \A i \in 1..Len(buffer') :
              buffer'[i] = IF i = Len(buffer) THEN minted' ELSE buffer[i + 1]
    <3>1. /\ buffer' \in Seq(Nat) /\ Len(buffer') = Len(Tail(buffer)) + 1
          /\ \A i \in 1..Len(Tail(buffer)) : buffer'[i] = Tail(buffer)[i]
          /\ buffer'[Len(Tail(buffer)) + 1] = minted'
      BY <2>1, <2>3, <1>1, AppendProperties
    <3>2. Len(buffer') = Len(buffer) /\ buffer'[Len(buffer)] = minted'
      BY <3>1, <2>3, <1>1
    <3>3. ASSUME NEW i \in 1..Len(buffer'), i # Len(buffer)
          PROVE  buffer'[i] = buffer[i + 1]
      BY <3>1, <3>2, <3>3, <2>3, <1>1
    <3> QED
      BY <3>1, <3>2, <3>3
  <2>5. Head(buffer) = minted - Len(buffer) + 1
    BY <2>2, <1>1 DEF BufferIsNewest
  <2>6. minted' - Len(buffer') = minted - Len(buffer) + 1
    BY <2>4, <1>1
  <2>7. \A i \in 1..Len(buffer') : buffer'[i] = minted' - Len(buffer') + i
    <3> TAKE i \in 1..Len(buffer')
    <3>1. CASE i = Len(buffer)
      BY <3>1, <2>4, <1>1
    <3>2. CASE i # Len(buffer)
      <4>1. i + 1 \in 1..Len(buffer) /\ buffer'[i] = buffer[i + 1]
        BY <3>2, <2>4, <1>1
      <4>2. buffer[i + 1] = minted - Len(buffer) + (i + 1)
        BY <4>1 DEF BufferIsNewest
      <4> QED
        BY <4>1, <4>2, <2>4, <1>1
    <3> QED
      BY <3>1, <3>2
  <2>8. {Head(buffer)} = minted - Len(buffer) + 1 .. minted' - Len(buffer')
    BY <2>5, <2>6, <1>1
  <2> QED
    BY <1>1, <2>1, <2>2, <2>4, <2>7, <2>8 DEF BufferIsNewest
<1>3. CASE ~(Len(buffer) >= maxQueueSize)
  <2>1. buffer' = Append(buffer, minted') /\ dropped' = dropped
    BY <1>3 DEF Enqueue
  <2>2. /\ buffer' \in Seq(Nat) /\ Len(buffer') = Len(buffer) + 1
        /\ \A i \in 1..Len(buffer') :
              buffer'[i] = IF i = Len(buffer) + 1 THEN minted' ELSE buffer[i]
    BY <2>1, <1>1 DEF BufferIsNewest
  <2>3. \A i \in 1..Len(buffer') : buffer'[i] = minted' - Len(buffer') + i
    <3> TAKE i \in 1..Len(buffer')
    <3>1. CASE i = Len(buffer) + 1
      BY <3>1, <2>2, <1>1
    <3>2. CASE i # Len(buffer) + 1
      <4>1. i \in 1..Len(buffer) /\ buffer'[i] = buffer[i]
        BY <3>2, <2>2, <1>1
      <4>2. buffer[i] = minted - Len(buffer) + i
        BY <4>1 DEF BufferIsNewest
      <4> QED
        BY <4>1, <4>2, <2>2, <1>1
    <3> QED
      BY <3>1, <3>2
  <2>4. (minted - Len(buffer) + 1 .. minted' - Len(buffer')) = {}
    BY <2>2, <1>1
  <2> QED
    BY <1>1, <1>3, <2>1, <2>2, <2>3, <2>4 DEF BufferIsNewest
<1> QED
  BY <1>2, <1>3

LEMMA EnqueueInv == QueueInv /\ Enqueue => QueueInv'
<1> SUFFICES ASSUME QueueInv, Enqueue PROVE QueueInv'
  OBVIOUS
<1> USE ConfigurationType
<1>0. BufferIsNewest /\ Len(buffer) \in Nat /\ minted \in Nat /\ Len(buffer) <= minted
  BY LenProperties DEF QueueInv, BufferIsNewest
<1>1. BufferIsNewest'
  BY <1>0, EnqueueBuffer DEF BufferIsNewest
<1>2. inFlight' = inFlight /\ settled' = settled
  BY DEF Enqueue
<1>3. InFlightApart'
  BY <1>2 DEF QueueInv, InFlightApart
<1>4. OlderHaveAFate'
  <2>1. /\ dropped' = dropped \cup (minted - Len(buffer) + 1 .. minted' - Len(buffer'))
        /\ minted' = minted + 1 /\ Len(buffer') <= minted' /\ Len(buffer') \in Nat
        /\ minted - Len(buffer) <= minted' - Len(buffer')
    <3>1. /\ dropped' = dropped \cup (minted - Len(buffer) + 1 .. minted' - Len(buffer'))
          /\ minted' = minted + 1 /\ Len(buffer') <= minted' /\ Len(buffer') \in Nat
      BY <1>0, EnqueueBuffer
    <3>2. Len(buffer') <= Len(buffer) + 1
      <4>1. CASE Len(buffer) >= maxQueueSize
        BY <1>0, <4>1, EnqueueBuffer
      <4>2. CASE ~(Len(buffer) >= maxQueueSize)
        BY <1>0, <4>2 DEF Enqueue, BufferIsNewest
      <4> QED
        BY <4>1, <4>2
    <3> QED
      BY <1>0, <3>1, <3>2
  <2>2. InFlightEvents' = InFlightEvents
    BY <1>2 DEF InFlightEvents
  <2>3. /\ InFlightEvents \cup settled \cup dropped = 1 .. (minted - Len(buffer))
        /\ InFlightEvents \cap (settled \cup dropped) = {}
        /\ settled \cap dropped = {}
    BY DEF QueueInv, OlderHaveAFate
  <2> DEFINE old == 1 .. (minted - Len(buffer))
             new == minted - Len(buffer) + 1 .. minted' - Len(buffer')
  <2>4. old \cap new = {} /\ old \cup new = 1 .. (minted' - Len(buffer'))
    BY <1>0, <2>1
  <2> HIDE DEF old, new
  <2> QED
    BY <1>2, <2>1, <2>2, <2>3, <2>4 DEF OlderHaveAFate, old, new
<1>5. /\ WakeupArmed'
      /\ intervalTimer' \in BOOLEAN /\ pendingFlush' \in BOOLEAN
  <2>1. Len(buffer') \in Nat \ {0} /\ ArmTimers(Len(buffer')) /\ buffer' # <<>>
    <3>1. Len(buffer') \in Nat \ {0} /\ ArmTimers(Len(buffer'))
      BY <1>0, EnqueueBuffer DEF Enqueue
    <3> QED
      BY <3>1, EmptySeq
  <2>2. CASE Len(buffer') >= flushAt
    BY <2>1, <2>2 DEF ArmTimers, WakeupArmed, QueueInv
  <2>3. CASE ~(Len(buffer') >= flushAt)
    BY <2>1, <2>3 DEF ArmTimers, WakeupArmed, QueueInv
  <2> QED
    BY <2>2, <2>3
<1> QED
  BY <1>1, <1>3, <1>4, <1>5 DEF QueueInv

(* The buffer holds the events after all those that already have a fate.    *)
LEMMA BufferElements ==
    ASSUME BufferIsNewest
    PROVE  /\ Elements(buffer) = minted - Len(buffer) + 1 .. minted
           /\ 1..minted = (1 .. (minted - Len(buffer))) \cup Elements(buffer)
           /\ (1 .. (minted - Len(buffer))) \cap Elements(buffer) = {}
<1>1. /\ minted \in Nat /\ Len(buffer) \in Nat /\ Len(buffer) <= minted
      /\ \A i \in 1..Len(buffer) : buffer[i] = minted - Len(buffer) + i
  BY LenProperties DEF BufferIsNewest
<1>2. ASSUME NEW x \in minted - Len(buffer) + 1 .. minted
      PROVE  x \in Elements(buffer)
  <2>1. x - (minted - Len(buffer)) \in 1..Len(buffer)
    BY <1>1
  <2>2. buffer[x - (minted - Len(buffer))] = x
    BY <1>1, <2>1
  <2> QED
    BY <2>1, <2>2 DEF Elements
<1>3. Elements(buffer) \subseteq minted - Len(buffer) + 1 .. minted
  BY <1>1 DEF Elements
<1>4. Elements(buffer) = minted - Len(buffer) + 1 .. minted
  BY <1>2, <1>3
<1> QED
  BY <1>1, <1>4

(* A drain empties the buffer, so the events it held get their fate.        *)
LEMMA EmptiedInv ==
    ASSUME QueueInv, ClearTimers, buffer' = <<>>, minted' = minted
    PROVE  /\ BufferIsNewest' /\ WakeupArmed'
           /\ intervalTimer' \in BOOLEAN /\ pendingFlush' \in BOOLEAN
           /\ minted' - Len(buffer') = minted
           /\ 1..minted = (1 .. (minted - Len(buffer))) \cup Elements(buffer)
           /\ (1 .. (minted - Len(buffer))) \cap Elements(buffer) = {}
<1>1. Len(buffer') = 0 /\ buffer' \in Seq(Nat) /\ ~(0 >= flushAt) /\ 0 # maxQueueSize
  BY EmptySeq, ConfigurationType
<1>2. minted \in 0..MaxEvents /\ minted \in Nat
  BY BatchQueueAssumption DEF QueueInv, BufferIsNewest
<1>3. BufferIsNewest' /\ minted' - Len(buffer') = minted
  BY <1>1, <1>2, ConfigurationType DEF BufferIsNewest
<1>4. /\ WakeupArmed' /\ intervalTimer' \in BOOLEAN /\ pendingFlush' \in BOOLEAN
  BY <1>1 DEF ClearTimers, WakeupArmed
<1> QED
  BY <1>3, <1>4, BufferElements DEF QueueInv

LEMMA DrainInv == QueueInv /\ Drain => QueueInv'
<1> SUFFICES ASSUME QueueInv, Drain PROVE QueueInv'
  OBVIOUS
<1>1. /\ ClearTimers /\ buffer' = <<>> /\ minted' = minted
      /\ inFlight' = inFlight /\ settled' = settled
      /\ dropped' = dropped \cup Elements(buffer)
  BY DEF Drain
<1>2. /\ BufferIsNewest' /\ WakeupArmed'
      /\ intervalTimer' \in BOOLEAN /\ pendingFlush' \in BOOLEAN
      /\ minted' - Len(buffer') = minted
      /\ 1..minted = (1 .. (minted - Len(buffer))) \cup Elements(buffer)
      /\ (1 .. (minted - Len(buffer))) \cap Elements(buffer) = {}
  BY <1>1, EmptiedInv
<1>3. InFlightApart'
  BY <1>1 DEF QueueInv, InFlightApart
<1>4. OlderHaveAFate'
  <2>1. InFlightEvents' = InFlightEvents
    BY <1>1 DEF InFlightEvents
  <2> QED
    BY <1>1, <1>2, <2>1 DEF QueueInv, OlderHaveAFate
<1> QED
  BY <1>2, <1>3, <1>4 DEF QueueInv

LEMMA DrainAndSendInv == QueueInv /\ DrainAndSend => QueueInv'
<1> SUFFICES ASSUME QueueInv, DrainAndSend PROVE QueueInv'
  OBVIOUS
<1>1. /\ ClearTimers /\ buffer' = <<>> /\ minted' = minted
      /\ inFlight' = inFlight \cup Batches(buffer)
      /\ settled' = settled /\ dropped' = dropped
  BY DEF DrainAndSend
<1>2. /\ BufferIsNewest' /\ WakeupArmed'
      /\ intervalTimer' \in BOOLEAN /\ pendingFlush' \in BOOLEAN
      /\ minted' - Len(buffer') = minted
      /\ 1..minted = (1 .. (minted - Len(buffer))) \cup Elements(buffer)
      /\ (1 .. (minted - Len(buffer))) \cap Elements(buffer) = {}
  BY <1>1, EmptiedInv
<1>3. /\ buffer \in Seq(Nat)
      /\ \A k, l \in 1..Len(buffer) : buffer[k] = buffer[l] => k = l
  <2>1. /\ minted \in Nat /\ Len(buffer) \in Nat /\ buffer \in Seq(Nat)
        /\ \A i \in 1..Len(buffer) : buffer[i] = minted - Len(buffer) + i
    BY LenProperties DEF QueueInv, BufferIsNewest
  <2> QED
    BY <2>1
<1>4. /\ UNION {Elements(b) : b \in Batches(buffer)} = Elements(buffer)
      /\ \A b \in Batches(buffer) : b \in Seq(Nat) /\ Len(b) \in 1..maxBatchSize
  BY <1>3, BatchesCover
<1>5. \A b, c \in Batches(buffer) : b # c => Elements(b) \cap Elements(c) = {}
  BY <1>3, BatchesApart
<1>6. InFlightEvents' = InFlightEvents \cup Elements(buffer)
  BY <1>1, <1>4 DEF InFlightEvents
<1>7. InFlightEvents \cap Elements(buffer) = {}
  BY <1>2 DEF QueueInv, OlderHaveAFate
<1>8. InFlightApart'
  <2>1. ASSUME NEW b \in inFlight, NEW c \in Batches(buffer)
        PROVE  Elements(b) \cap Elements(c) = {}
    <3>1. Elements(b) \subseteq InFlightEvents
      BY DEF InFlightEvents
    <3>2. Elements(c) \subseteq Elements(buffer)
      BY <1>4
    <3> QED
      BY <1>7, <3>1, <3>2
  <2> QED
    BY <1>1, <1>4, <1>5, <2>1 DEF QueueInv, InFlightApart
<1>9. OlderHaveAFate'
  BY <1>1, <1>2, <1>6 DEF QueueInv, OlderHaveAFate
<1> QED
  BY <1>2, <1>8, <1>9 DEF QueueInv

LEMMA SettleInv == QueueInv /\ (\E b \in inFlight : Settle(b)) => QueueInv'
<1> SUFFICES ASSUME QueueInv, NEW b \in inFlight, Settle(b) PROVE QueueInv'
  OBVIOUS
<1>1. /\ inFlight' = inFlight \ {b} /\ settled' = settled \cup Elements(b)
      /\ minted' = minted /\ buffer' = buffer /\ dropped' = dropped
      /\ intervalTimer' = intervalTimer /\ pendingFlush' = pendingFlush
  BY DEF Settle
<1>2. BufferIsNewest' /\ WakeupArmed'
  BY <1>1 DEF QueueInv, BufferIsNewest, WakeupArmed
<1>3. InFlightApart'
  BY <1>1 DEF QueueInv, InFlightApart
<1>4. InFlightEvents' = InFlightEvents \ Elements(b)
  <2>1. \A c \in inFlight : c # b => Elements(c) \cap Elements(b) = {}
    BY DEF QueueInv, InFlightApart
  <2> QED
    BY <1>1, <2>1 DEF InFlightEvents
<1>5. OlderHaveAFate'
  <2>1. Elements(b) \subseteq InFlightEvents
    BY DEF InFlightEvents
  <2> QED
    BY <1>1, <1>4, <2>1 DEF QueueInv, OlderHaveAFate
<1> QED
  BY <1>1, <1>2, <1>3, <1>5 DEF QueueInv

LEMMA NextInv == QueueInv /\ [QueueNext]_queueVars => QueueInv'
<1> SUFFICES ASSUME QueueInv, [QueueNext]_queueVars PROVE QueueInv'
  OBVIOUS
<1>1. CASE Enqueue
  BY <1>1, EnqueueInv
<1>2. CASE IntervalFires \/ PendingFlushFires \/ DrainAndSend
  BY <1>2, DrainAndSendInv DEF IntervalFires, PendingFlushFires
<1>3. CASE Drain
  BY <1>3, DrainInv
<1>4. CASE \E b \in inFlight : Settle(b)
  BY <1>4, SettleInv
<1>5. CASE UNCHANGED queueVars
  BY <1>5 DEF queueVars, QueueInv, BufferIsNewest, InFlightApart, OlderHaveAFate,
              InFlightEvents, WakeupArmed
<1> QED
  BY <1>1, <1>2, <1>3, <1>4, <1>5 DEF QueueNext

(* The inductive invariant: the buffer is the newest events, the batches in *)
(* flight are disjoint, every older event has one fate, the timers match.   *)
THEOREM QueueInvariant == QueueSafety => []QueueInv
<1> QED
  BY InitInv, NextInv, PTL DEF QueueSafety

(* A buffered event always has a timer that will drain it, at any cap.      *)
THEOREM WakeupAlwaysArmed == QueueSafety => []WakeupArmed
<1>1. QueueInv => WakeupArmed
  BY DEF QueueInv
<1> QED
  BY <1>1, QueueInvariant, PTL

(* No event is lost track of and none is delivered twice by the queue.      *)
THEOREM EveryEventOneFate == QueueSafety => []OneFate
<1>1. QueueInv => OneFate
  <2> SUFFICES ASSUME QueueInv PROVE OneFate
    OBVIOUS
  <2>1. /\ 1..minted = (1 .. (minted - Len(buffer))) \cup Elements(buffer)
        /\ (1 .. (minted - Len(buffer))) \cap Elements(buffer) = {}
    BY BufferElements DEF QueueInv
  <2> QED
    BY <2>1 DEF QueueInv, OlderHaveAFate, OneFate
<1> QED
  BY <1>1, QueueInvariant, PTL

---------------------------------------------------------------------------
(* Refinement: timers, slices and deliveries are hidden behind the bounded  *)
(* drop-oldest buffer.                                                      *)
LEMMA InitRefines == QueueInit => Buffer!BufferInit
<1> SUFFICES ASSUME QueueInit PROVE Buffer!BufferInit
  OBVIOUS
<1>1. InFlightEvents \cup settled = {}
  BY DEF QueueInit, InFlightEvents
<1> QED
  BY <1>1 DEF QueueInit, Buffer!BufferInit

LEMMA DrainAndSendRefines ==
    QueueInv /\ DrainAndSend => [Buffer!BufferNext]_Buffer!bufferVars
<1> SUFFICES ASSUME QueueInv, DrainAndSend
             PROVE  [Buffer!BufferNext]_Buffer!bufferVars
  OBVIOUS
<1>1. buffer \in Seq(Nat) /\ Len(buffer) \in Nat
  BY LenProperties DEF QueueInv, BufferIsNewest
<1>2. /\ buffer' = <<>> /\ inFlight' = inFlight \cup Batches(buffer)
      /\ minted' = minted /\ settled' = settled /\ dropped' = dropped
  BY DEF DrainAndSend
<1>3. InFlightEvents' = InFlightEvents \cup Elements(buffer)
  BY <1>1, <1>2, BatchesCover DEF InFlightEvents
<1>4. CASE buffer = <<>>
  <2>1. Elements(buffer) = {}
    BY <1>4, EmptySeq DEF Elements
  <2>2. InFlightEvents' = InFlightEvents
    BY <1>3, <2>1
  <2> QED
    BY <1>2, <1>4, <2>2 DEF Buffer!bufferVars
<1>5. CASE buffer # <<>>
  <2>1. Len(buffer) \in 1..Len(buffer)
    BY <1>1, <1>5, EmptySeq
  <2>2. SubSeq(buffer, Len(buffer) + 1, Len(buffer)) = <<>>
    <3>1. Len(buffer) \in Int /\ Len(buffer) + 1 \in Int /\ Len(buffer) < Len(buffer) + 1
      BY <1>1
    <3> QED
      BY <3>1, SubSeqEmpty
  <2>3. (InFlightEvents \cup settled)' =
           (InFlightEvents \cup settled) \cup {buffer[i] : i \in 1..Len(buffer)}
    BY <1>2, <1>3 DEF Elements
  <2>4. Buffer!Release
    BY <1>2, <2>1, <2>2, <2>3 DEF Buffer!Release
  <2> QED
    BY <2>4 DEF Buffer!BufferNext
<1> QED
  BY <1>4, <1>5

LEMMA StepRefines ==
    QueueInv /\ [QueueNext]_queueVars => [Buffer!BufferNext]_Buffer!bufferVars
<1> SUFFICES ASSUME QueueInv, [QueueNext]_queueVars
             PROVE  [Buffer!BufferNext]_Buffer!bufferVars
  OBVIOUS
<1>1. CASE Enqueue
  <2>1. (InFlightEvents \cup settled)' = InFlightEvents \cup settled
    BY <1>1 DEF Enqueue, InFlightEvents
  <2>2. Buffer!Accept
    BY <1>1, <2>1 DEF Enqueue, Buffer!Accept
  <2> QED
    BY <2>2 DEF Buffer!BufferNext
<1>2. CASE IntervalFires \/ PendingFlushFires \/ DrainAndSend
  BY <1>2, DrainAndSendRefines DEF IntervalFires, PendingFlushFires
<1>3. CASE Drain
  <2>1. (InFlightEvents \cup settled)' = InFlightEvents \cup settled
    BY <1>3 DEF Drain, InFlightEvents
  <2>2. Buffer!Abandon
    BY <1>3, <2>1 DEF Drain, Buffer!Abandon, Elements, Buffer!Elements
  <2> QED
    BY <2>2 DEF Buffer!BufferNext
<1>4. CASE \E b \in inFlight : Settle(b)
  <2>1. PICK b \in inFlight : Settle(b)
    BY <1>4
  <2>2. (InFlightEvents \cup settled)' = InFlightEvents \cup settled
    BY <2>1 DEF Settle, InFlightEvents
  <2> QED
    BY <2>1, <2>2 DEF Settle, Buffer!bufferVars
<1>5. CASE UNCHANGED queueVars
  BY <1>5 DEF queueVars, Buffer!bufferVars, InFlightEvents
<1> QED
  BY <1>1, <1>2, <1>3, <1>4, <1>5 DEF QueueNext

(* Every behaviour of the queue is one of the bounded drop-oldest buffer.   *)
THEOREM QueueImplementsBuffer == QueueSafety => Buffer!BufferSafety
<1> QED
  BY InitRefines, StepRefines, QueueInvariant, PTL DEF QueueSafety, Buffer!BufferSafety

-----------------------------------------------------------------------------
(* The client.                                                              *)
LEMMA NodeStepIsQueueStep == [Next]_vars => [QueueNext]_queueVars
<1> SUFFICES ASSUME [Next]_vars PROVE [QueueNext]_queueVars
  OBVIOUS
<1>1. CASE Capture
  BY <1>1 DEF Capture, QueueNext
<1>2. CASE TimerFires
  BY <1>2 DEF TimerFires, QueueNext
<1>3. CASE DeliverySettles
  BY <1>3 DEF DeliverySettles, QueueNext
<1>4. ASSUME NEW c \in Callers, FlushCall(c) \/ FlushReturn(c)
      PROVE  [QueueNext]_queueVars
  BY <1>4 DEF FlushCall, FlushReturn, QueueNext
<1>5. CASE ShutdownCall \/ DrainLoopFlushes \/ DrainLoopResumes
  BY <1>5 DEF ShutdownCall, DrainLoopFlushes, DrainLoopResumes, QueueNext
<1>6. CASE ShutdownResolves \/ ShutdownTimesOut
  BY <1>6 DEF ShutdownResolves, ShutdownTimesOut, QueueNext
<1>7. CASE UNCHANGED vars
  BY <1>7 DEF vars
<1> QED
  BY <1>1, <1>2, <1>3, <1>4, <1>5, <1>6, <1>7 DEF Next

(* The client is an implementation of the queue ...                         *)
THEOREM NodeImplementsQueue == Spec => QueueSafety
<1>1. Init => QueueInit
  BY DEF Init
<1> QED
  BY <1>1, NodeStepIsQueueStep, PTL DEF Spec, QueueSafety

(* ... so a buffered event always has a timer that will send it, ...        *)
THEOREM NodeWakeupArmed == Spec => []WakeupArmed
BY NodeImplementsQueue, WakeupAlwaysArmed, PTL

(* ... every captured event has exactly one fate, ...                       *)
THEOREM NodeOneFate == Spec => []OneFate
BY NodeImplementsQueue, EveryEventOneFate, PTL

(* ... and the client is a bounded drop-oldest buffer, liveness aside.      *)
THEOREM NodeImplementsBuffer == Spec => Buffer!BufferSafety
BY NodeImplementsQueue, QueueImplementsBuffer, PTL

---------------------------------------------------------------------------
(* Once shutdown has been called the buffer can only empty, and what a      *)
(* pending flush has not seen delivered or discarded is in a batch that it  *)
(* awaits.                                                                  *)
ShutdownShape ==
    /\ shutdown \in {"none", "looping", "flushing", "resolved", "timedOut"}
    /\ stopped \in BOOLEAN /\ stopped = (shutdown # "none")
    /\ shutdown \in {"flushing", "resolved", "timedOut"} => buffer = <<>>

FlushShape ==
    \A c \in Callers :
       /\ awaiting[c].pending \in BOOLEAN /\ awaiting[c].upTo \in 0..MaxEvents
       /\ awaiting[c].pending =>
             1..awaiting[c].upTo \subseteq
                settled \cup dropped \cup UNION {Elements(b) : b \in awaiting[c].batches \cap inFlight}

LifecycleInv ==
    /\ QueueInv
    /\ ShutdownShape
    /\ DOMAIN awaiting = Callers /\ FlushShape

LEMMA EmptyDrainSendsNothing ==
    ASSUME buffer = <<>>, DrainAndSend
    PROVE  inFlight' = inFlight
<1>1. Len(buffer) = 0
  BY EmptySeq
<1>2. Batches(buffer) = {}
  BY <1>1 DEF Batches
<1> QED
  BY <1>2 DEF DrainAndSend

LEMMA ShutdownShapeInv == ShutdownShape /\ [Next]_vars => ShutdownShape'
<1> SUFFICES ASSUME ShutdownShape, [Next]_vars PROVE ShutdownShape'
  OBVIOUS
<1>1. CASE Capture
  BY <1>1 DEF Capture, Accepts, Enqueue, lifecycleVars, ShutdownShape
<1>2. CASE TimerFires
  BY <1>2 DEF TimerFires, IntervalFires, PendingFlushFires, DrainAndSend,
              lifecycleVars, ShutdownShape
<1>3. CASE DeliverySettles
  BY <1>3 DEF DeliverySettles, Settle, lifecycleVars, ShutdownShape
<1>4. ASSUME NEW c \in Callers, FlushCall(c) \/ FlushReturn(c)
      PROVE  ShutdownShape'
  BY <1>4 DEF FlushCall, FlushReturn, DrainAndSend, queueVars, ShutdownShape
<1>5. CASE ShutdownCall
  BY <1>5 DEF ShutdownCall, queueVars, ShutdownShape
<1>6. CASE DrainLoopFlushes \/ DrainLoopResumes
  BY <1>6 DEF DrainLoopFlushes, DrainLoopResumes, DrainAndSend, queueVars, ShutdownShape
<1>7. CASE ShutdownResolves \/ ShutdownTimesOut
  BY <1>7 DEF ShutdownResolves, ShutdownTimesOut, Drain, ShutdownShape
<1>8. CASE UNCHANGED vars
  BY <1>8 DEF vars, queueVars, lifecycleVars, ShutdownShape
<1> QED
  BY <1>1, <1>2, <1>3, <1>4, <1>5, <1>6, <1>7, <1>8 DEF Next

(* What a queue step does to the events a flush may be waiting for.         *)
LEMMA SeenStaySeen ==
    ASSUME [QueueNext]_queueVars, NEW S, NEW upTo,
           1..upTo \subseteq settled \cup dropped \cup UNION {Elements(b) : b \in S \cap inFlight}
    PROVE  1..upTo \subseteq
              settled' \cup dropped' \cup UNION {Elements(b) : b \in S \cap inFlight'}
<1>1. CASE Enqueue
  BY <1>1 DEF Enqueue
<1>2. CASE IntervalFires \/ PendingFlushFires \/ DrainAndSend
  BY <1>2 DEF IntervalFires, PendingFlushFires, DrainAndSend
<1>3. CASE Drain
  BY <1>3 DEF Drain
<1>4. CASE \E b \in inFlight : Settle(b)
  BY <1>4 DEF Settle
<1>5. CASE UNCHANGED queueVars
  BY <1>5 DEF queueVars
<1> QED
  BY <1>1, <1>2, <1>3, <1>4, <1>5 DEF QueueNext

LEMMA FlushShapeInv ==
    QueueInv /\ DOMAIN awaiting = Callers /\ FlushShape /\ [Next]_vars
       => DOMAIN awaiting' = Callers /\ FlushShape'
<1> SUFFICES ASSUME QueueInv, DOMAIN awaiting = Callers, FlushShape, [Next]_vars
             PROVE  DOMAIN awaiting' = Callers /\ FlushShape'
  OBVIOUS
<1>1. [QueueNext]_queueVars /\ QueueInv'
  BY NodeStepIsQueueStep, NextInv
<1>2. CASE awaiting' = awaiting
  BY <1>1, <1>2, SeenStaySeen DEF FlushShape
<1>3. ASSUME NEW c \in Callers, FlushCall(c)
      PROVE  DOMAIN awaiting' = Callers /\ FlushShape'
  <2>1. /\ buffer' = <<>> /\ minted' = minted
        /\ awaiting' = [awaiting EXCEPT
              ![c] = [pending |-> TRUE, batches |-> inFlight', upTo |-> minted]]
    BY <1>3 DEF FlushCall, AwaitSet, DrainAndSend
  <2>2. 1..minted \subseteq settled' \cup dropped' \cup InFlightEvents'
    <3>1. Len(buffer') = 0 /\ minted \in Nat
      BY <2>1, EmptySeq DEF QueueInv, BufferIsNewest
    <3> QED
      BY <1>1, <2>1, <3>1 DEF QueueInv, OlderHaveAFate
  <2>3. ASSUME NEW d \in Callers, awaiting'[d].pending
        PROVE  1..awaiting'[d].upTo \subseteq
                  settled' \cup dropped' \cup UNION {Elements(b) : b \in awaiting'[d].batches \cap inFlight'}
    <3>1. CASE d = c
      BY <2>1, <2>2, <3>1 DEF InFlightEvents
    <3>2. CASE d # c
      BY <1>1, <2>1, <2>3, <3>2, SeenStaySeen DEF FlushShape
    <3> QED
      BY <3>1, <3>2
  <2>4. minted \in 0..MaxEvents
    BY DEF QueueInv, BufferIsNewest
  <2> QED
    BY <2>1, <2>3, <2>4 DEF FlushShape
<1>4. ASSUME NEW c \in Callers, FlushReturn(c)
      PROVE  DOMAIN awaiting' = Callers /\ FlushShape'
  <2>1. /\ awaiting' = [awaiting EXCEPT ![c] = NotFlushing]
        /\ settled' = settled /\ dropped' = dropped /\ inFlight' = inFlight
    BY <1>4 DEF FlushReturn, queueVars
  <2>2. /\ NotFlushing.pending = FALSE /\ NotFlushing.upTo \in 0..MaxEvents
    BY BatchQueueAssumption DEF NotFlushing
  <2> QED
    BY <2>1, <2>2 DEF FlushShape
<1>5. CASE UNCHANGED vars
  BY <1>2, <1>5 DEF vars, lifecycleVars
<1> QED
  BY <1>2, <1>3, <1>4, <1>5
     DEF Next, Capture, TimerFires, DeliverySettles, ShutdownCall, DrainLoopFlushes,
         DrainLoopResumes, ShutdownResolves, ShutdownTimesOut, lifecycleVars

THEOREM NodeLifecycleInvariant == Spec => []LifecycleInv
<1>1. Init => LifecycleInv
  <2> SUFFICES ASSUME Init PROVE LifecycleInv
    OBVIOUS
  <2>1. QueueInv
    BY InitInv DEF Init
  <2>2. ShutdownShape
    BY DEF Init, ShutdownShape
  <2>3. DOMAIN awaiting = Callers /\ FlushShape
    <3>1. /\ NotFlushing.pending = FALSE /\ NotFlushing.upTo \in 0..MaxEvents
      BY BatchQueueAssumption DEF NotFlushing
    <3>2. awaiting = [c \in Callers |-> NotFlushing]
      BY DEF Init
    <3> QED
      BY <3>1, <3>2 DEF FlushShape
  <2> QED
    BY <2>1, <2>2, <2>3 DEF LifecycleInv
<1>2. LifecycleInv /\ [Next]_vars => LifecycleInv'
  BY NodeStepIsQueueStep, NextInv, ShutdownShapeInv, FlushShapeInv DEF LifecycleInv
<1> QED
  BY <1>1, <1>2, PTL DEF Spec

(* Type correctness, for every configuration.                               *)
THEOREM NodeTypeOK == Spec => []TypeOK
<1>1. LifecycleInv => TypeOK
  <2> SUFFICES ASSUME LifecycleInv PROVE TypeOK
    OBVIOUS
  <2> USE DEF LifecycleInv
  <2>1. /\ minted \in 0..MaxEvents /\ MaxEvents \in Nat /\ minted \in Nat
        /\ buffer \in Seq(Nat) /\ Len(buffer) \in Nat
        /\ Len(buffer) <= minted /\ Len(buffer) <= maxQueueSize
        /\ \A i \in 1..Len(buffer) : buffer[i] = minted - Len(buffer) + i
    BY BatchQueueAssumption, LenProperties DEF QueueInv, BufferIsNewest
  <2>2. buffer \in Seq(1..MaxEvents)
    <3>1. \A i \in 1..Len(buffer) : buffer[i] \in 1..MaxEvents
      BY <2>1
    <3> QED
      BY <2>1, <3>1, LenProperties
  <2>3. InFlightEvents \cup settled \cup dropped \subseteq 1..MaxEvents
    <3>1. 1 .. (minted - Len(buffer)) \subseteq 1..MaxEvents
      BY <2>1
    <3> QED
      BY <3>1 DEF QueueInv, OlderHaveAFate
  <2>4. ASSUME NEW b \in inFlight
        PROVE  b \in Seq(1..MaxEvents) /\ Len(b) \in 1..maxBatchSize
    <3>1. b \in Seq(Nat) /\ Len(b) \in 1..maxBatchSize
      BY DEF QueueInv, InFlightApart
    <3>2. \A i \in 1..Len(b) : b[i] \in 1..MaxEvents
      BY <2>3 DEF InFlightEvents, Elements
    <3>3. b \in [1..Len(b) -> 1..MaxEvents] /\ Len(b) \in Nat
      BY <3>1, <3>2, LenProperties
    <3>4. b \in Seq(1..MaxEvents)
      <4> DEFINE Event == 1..MaxEvents
                 n == Len(b)
      <4>1. b \in [1..n -> Event] /\ n \in Nat
        BY <3>3
      <4>2. Seq(Event) = UNION {[1..k -> Event] : k \in Nat}
        BY SeqDef
      <4> HIDE DEF Event, n
      <4>3. b \in Seq(Event)
        BY <4>1, <4>2, Zenon
      <4> QED
        BY <4>3 DEF Event
    <3> QED
      BY <3>1, <3>4
  <2>5. intervalTimer \in BOOLEAN /\ pendingFlush \in BOOLEAN
    BY DEF QueueInv
  <2>6. /\ stopped \in BOOLEAN
        /\ shutdown \in {"none", "looping", "flushing", "resolved", "timedOut"}
    BY DEF ShutdownShape
  <2>7. \A c \in Callers : awaiting[c].pending \in BOOLEAN /\ awaiting[c].upTo \in 0..MaxEvents
    BY DEF FlushShape
  <2> QED
    BY <2>1, <2>2, <2>3, <2>4, <2>5, <2>6, <2>7 DEF TypeOK
<1> QED
  BY <1>1, NodeLifecycleInvariant, PTL

(* flush() returns only when every event captured before the call has been  *)
(* delivered or discarded, for any number of concurrent callers.            *)
THEOREM FlushCovers == Spec => FlushCoversEarlier
<1>1. LifecycleInv /\ [Next]_vars =>
         [\A c \in Callers :
             awaiting[c].pending /\ ~awaiting'[c].pending =>
                1..awaiting[c].upTo \subseteq settled \cup dropped]_vars
  <2> SUFFICES ASSUME LifecycleInv, [Next]_vars, NEW c \in Callers,
                      awaiting[c].pending, ~awaiting'[c].pending
               PROVE  1..awaiting[c].upTo \subseteq settled \cup dropped
    OBVIOUS
  <2>1. FlushReturn(c)
    <3>1. ASSUME NEW d \in Callers, FlushCall(d)
          PROVE  FALSE
      BY <3>1 DEF FlushCall, LifecycleInv
    <3>2. ASSUME NEW d \in Callers, FlushReturn(d), d # c
          PROVE  FALSE
      BY <3>2 DEF FlushReturn, LifecycleInv
    <3>3. awaiting' # awaiting
      OBVIOUS
    <3> QED
      BY <3>1, <3>2, <3>3
         DEF Next, Capture, TimerFires, DeliverySettles, ShutdownCall, DrainLoopFlushes,
             DrainLoopResumes, ShutdownResolves, ShutdownTimesOut, lifecycleVars, vars
  <2>2. awaiting[c].batches \cap inFlight = {}
    BY <2>1 DEF FlushReturn
  <2> QED
    BY <2>2 DEF LifecycleInv, FlushShape
<1> QED
  BY <1>1, NodeLifecycleInvariant, PTL DEF Spec, FlushCoversEarlier

(* Once it has ended, a shutdown leaves a client nothing can wake up.       *)
THEOREM ShutdownIsQuiet == Spec => ShutdownQuiesces
<1>1. LifecycleInv /\ [Next]_vars =>
         [/\ stopped => minted' = minted /\ stopped'
          /\ shutdown \in {"resolved", "timedOut"} =>
                /\ buffer' = <<>> /\ ~intervalTimer' /\ ~pendingFlush'
                /\ inFlight' \subseteq inFlight]_vars
  <2> SUFFICES ASSUME LifecycleInv, [Next]_vars
               PROVE  /\ stopped => minted' = minted /\ stopped'
                      /\ shutdown \in {"resolved", "timedOut"} =>
                            /\ buffer' = <<>> /\ ~intervalTimer' /\ ~pendingFlush'
                            /\ inFlight' \subseteq inFlight
    OBVIOUS
  <2>1. ASSUME stopped
        PROVE  minted' = minted /\ stopped'
    BY <2>1 DEF Next, Capture, Accepts, TimerFires, IntervalFires, PendingFlushFires,
         DeliverySettles, FlushCall, FlushReturn, ShutdownCall, DrainLoopFlushes,
         DrainLoopResumes, ShutdownResolves, ShutdownTimesOut, DrainAndSend, Drain,
         Settle, lifecycleVars, queueVars, vars
  <2>2. ASSUME shutdown \in {"resolved", "timedOut"}
        PROVE  /\ shutdown' \in {"resolved", "timedOut"}
               /\ inFlight' \subseteq inFlight
    <3>1. stopped /\ buffer = <<>>
      BY <2>2 DEF LifecycleInv, ShutdownShape
    <3>2. DrainAndSend => inFlight' = inFlight
      BY <3>1, EmptyDrainSendsNothing
    <3> QED
      BY <2>2, <3>1, <3>2
         DEF Next, Capture, Accepts, TimerFires, IntervalFires, PendingFlushFires,
             DeliverySettles, FlushCall, FlushReturn, ShutdownCall, DrainLoopFlushes,
             DrainLoopResumes, ShutdownResolves, ShutdownTimesOut, Settle,
             lifecycleVars, queueVars, vars
  <2>3. LifecycleInv'
    BY NodeStepIsQueueStep, NextInv, ShutdownShapeInv, FlushShapeInv DEF LifecycleInv
  <2>4. ASSUME shutdown \in {"resolved", "timedOut"}
        PROVE  buffer' = <<>> /\ ~intervalTimer' /\ ~pendingFlush'
    BY <2>2, <2>3, <2>4 DEF LifecycleInv, ShutdownShape, QueueInv, WakeupArmed
  <2> QED
    BY <2>1, <2>2, <2>4
<1> QED
  BY <1>1, NodeLifecycleInvariant, PTL DEF Spec, ShutdownQuiesces

(* A shutdown discards nothing, on time or not.                             *)
THEOREM ShutdownLosesNothing == Spec => ShutdownDiscardsNothing
<1>1. LifecycleInv /\ [Next]_vars => [stopped' => dropped' = dropped]_vars
  <2> SUFFICES ASSUME LifecycleInv, [Next]_vars, stopped'
               PROVE  dropped' = dropped
    OBVIOUS
  <2>1. CASE ShutdownResolves \/ ShutdownTimesOut
    <3>1. buffer = <<>> /\ dropped' = dropped \cup Elements(buffer)
      BY <2>1 DEF ShutdownResolves, ShutdownTimesOut, Drain, LifecycleInv, ShutdownShape
    <3>2. Elements(buffer) = {}
      BY <3>1, EmptySeq DEF Elements
    <3> QED
      BY <3>1, <3>2
  <2>2. CASE ~(ShutdownResolves \/ ShutdownTimesOut)
    BY <2>2 DEF Next, Capture, Accepts, TimerFires, IntervalFires, PendingFlushFires,
         DeliverySettles, FlushCall, FlushReturn, ShutdownCall, DrainLoopFlushes,
         DrainLoopResumes, DrainAndSend, Settle, lifecycleVars, queueVars, vars
  <2> QED
    BY <2>1, <2>2
<1> QED
  BY <1>1, NodeLifecycleInvariant, PTL DEF Spec, ShutdownDiscardsNothing
=============================================================================
