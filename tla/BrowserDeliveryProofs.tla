----------------------- MODULE BrowserDeliveryProofs -----------------------
(* For every size trigger, retry budget, mirror size and number of events,  *)
(* decisions and crashes: an event the page owes is held once, a decision   *)
(* on an event is final, no page exceeds the retry budget, no queue sleeps  *)
(* with events, and only a granted client's events are in durable storage.  *)
EXTENDS BrowserDelivery, FiniteSetTheorems, SequenceTheorems, TLAPS

Phases == {"reheld", "encoding", "posted"}

SendRecord == [batch : Batch, attempt : 0..MAX_RETRIES, phase : Phases]

Flags ==
    /\ alive \in BOOLEAN /\ flushTimer \in BOOLEAN /\ polling \in BOOLEAN
    /\ online \in BOOLEAN /\ bound \in BOOLEAN /\ netUp \in BOOLEAN
    /\ coolingOff \in BOOLEAN /\ listening \in BOOLEAN /\ unloadDrained \in BOOLEAN

Typed ==
    /\ buffer \subseteq Event /\ Cardinality(buffer) < flushAt
    /\ retry \in Seq(Held) /\ sends \subseteq SendRecord
    /\ consent \in {"pending", "granted", "denied"}
    /\ mirror \in Seq(Batch) /\ Len(mirror) <= maxBatches
    /\ minted \in 0..MaxEvents
    /\ fate \in [Event -> Fates]
    /\ posts \in [Event -> Nat]
    /\ forsworn \subseteq 1..minted /\ leaked \subseteq 1..minted
    /\ decisions \in 0..MaxDecisions /\ crashes \in 0..MaxCrashes

(* Batches that share no event: of a set of held batches, of a queue, and   *)
(* of the mirror.                                                           *)
Apart(held) == \A g, h \in held : g # h => g.batch \cap h.batch = {}
ApartQueue(queue) ==
    \A i, j \in DOMAIN queue : i # j => queue[i].batch \cap queue[j].batch = {}
ApartMirror(batches) ==
    \A i, j \in DOMAIN batches : i # j => batches[i] \cap batches[j] = {}

(* The three places of an event.                                            *)
InSends == EventsOf(sends)
InRetry == EventsOf(Range(retry))

(* The buffer, the sends and the retry queue share no event, and what they  *)
(* hold is what the page owes.                                              *)
Placed ==
    /\ Apart(sends) /\ ApartQueue(retry)
    /\ buffer \cap InSends = {} /\ buffer \cap InRetry = {} /\ InSends \cap InRetry = {}
    /\ \A e \in Event : fate[e] = "held" <=> e \in buffer \cup InSends \cup InRetry
    /\ \A e \in Event : fate[e] = "unborn" <=> e > minted
    /\ ~alive => buffer = {} /\ sends = {} /\ retry = <<>>

(* The mirror is that of a granted client, and holds nothing decided.       *)
MirrorSound ==
    /\ DurableOnlyWhenGranted
    /\ ApartMirror(mirror)
    /\ \A e \in Mirrored : e \in Event /\ fate[e] \notin Settled \cup {"unborn"}

(* How often this page has requested an event, by the place it is in.       *)
Budgeted ==
    /\ \A e \in Event : posts[e] <= MAX_RETRIES + 1
    /\ \A e \in Event : e > minted \/ e \in buffer => posts[e] = 0
    /\ \A s \in sends : \A e \in s.batch :
          posts[e] <= s.attempt + IF s.phase = "posted" THEN 1 ELSE 0
    /\ \A i \in DOMAIN retry : \A e \in retry[i].batch : posts[e] <= retry[i].attempt

Core == Typed /\ Placed /\ MirrorSound /\ Budgeted /\ QueuesAwake

DeliveryInv == Flags /\ Core

---------------------------------------------------------------------------
(* The operators the queues are built from.                                 *)
LEMMA Bounds ==
    /\ flushAt \in Nat \ {0} /\ maxBatches \in Nat \ {0} /\ MAX_RETRIES \in Nat \ {0}
    /\ STATUS_ZERO_MAX_RETRIES \in Nat /\ STATUS_ZERO_MAX_RETRIES <= MAX_RETRIES
    /\ consentDefault \in {"granted", "denied"}
    /\ MaxEvents \in Nat /\ MaxDecisions \in Nat /\ MaxCrashes \in Nat
BY DeliveryAssumption

LEMMA NothingHeld == EventsOf({}) = {}
BY DEF EventsOf

LEMMA EventsOfUnion ==
    ASSUME NEW A, NEW B
    PROVE  EventsOf(A \cup B) = EventsOf(A) \cup EventsOf(B)
BY DEF EventsOf

LEMMA UnionApart ==
    ASSUME NEW A, NEW B, Apart(A), Apart(B), EventsOf(A) \cap EventsOf(B) = {}
    PROVE  Apart(A \cup B)
BY DEF EventsOf, Apart

LEMMA WithoutHeld ==
    ASSUME NEW S, Apart(S), NEW h \in S
    PROVE  /\ Apart(S \ {h}) /\ EventsOf(S \ {h}) = EventsOf(S) \ h.batch
           /\ h.batch \subseteq EventsOf(S)
BY DEF EventsOf, Apart

LEMMA FreshHeld ==
    ASSUME NEW S \in SUBSET Event
    PROVE  /\ Fresh(S) \subseteq Held /\ Apart(Fresh(S)) /\ EventsOf(Fresh(S)) = S
           /\ \A h \in Fresh(S) : h.attempt = 0 /\ h.batch = S
<1>1. CASE S = {}
  BY <1>1 DEF Fresh, Apart, EventsOf
<1>2. CASE S # {}
  <2>1. Fresh(S) = {[batch |-> S, attempt |-> 0]}
    BY <1>2 DEF Fresh
  <2>2. [batch |-> S, attempt |-> 0] \in Held
    <3>1. 0 \in 0..MAX_RETRIES
      BY Bounds
    <3>2. S \in Batch
      BY <1>2 DEF Batch
    <3> QED
      BY <3>1, <3>2 DEF Held
  <2> QED
    BY <2>1, <2>2 DEF Apart, EventsOf
<1> QED
  BY <1>1, <1>2

(* Beginning to send held batches: none when the client is suppressed,      *)
(* otherwise each as it was held.                                           *)
LEMMA BegunHeld ==
    ASSUME NEW S \in SUBSET Held, Apart(S)
    PROVE  /\ Begun(S) \subseteq SendRecord /\ Apart(Begun(S))
           /\ Suppressed => Begun(S) = {}
           /\ ~Suppressed => EventsOf(Begun(S)) = EventsOf(S)
           /\ \A s \in Begun(S) : /\ s.phase # "posted"
                                  /\ \E h \in S : h.batch = s.batch /\ h.attempt = s.attempt
<1>1. CASE Suppressed
  BY <1>1 DEF Begun, Apart
<1>2. CASE ~Suppressed
  <2> DEFINE begun(h) == [batch |-> h.batch, attempt |-> h.attempt,
                          phase |-> IF coolingOff THEN "reheld" ELSE "encoding"]
  <2>1. Begun(S) = {begun(h) : h \in S}
    BY <1>2 DEF Begun
  <2>2. \A h \in S : /\ begun(h) \in SendRecord /\ begun(h).batch = h.batch
                     /\ begun(h).attempt = h.attempt /\ begun(h).phase # "posted"
    BY DEF Held, SendRecord, Phases
  <2> HIDE DEF begun
  <2>3. EventsOf(Begun(S)) = EventsOf(S)
    BY <2>1, <2>2 DEF EventsOf
  <2>4. Apart(Begun(S))
    BY <2>1, <2>2 DEF Apart
  <2> QED
    BY <1>2, <2>1, <2>2, <2>3, <2>4
<1> QED
  BY <1>1, <1>2

LEMMA QueueApart ==
    ASSUME NEW queue \in Seq(Held), ApartQueue(queue)
    PROVE  Range(queue) \subseteq Held /\ Apart(Range(queue))
BY DEF ApartQueue, Apart, Range

LEMMA AppendedRange ==
    ASSUME NEW queue \in Seq(Held), NEW h \in Held
    PROVE  Range(Append(queue, h)) = Range(queue) \cup {h}
<1> DEFINE longer == Append(queue, h)
<1>1. /\ DOMAIN queue = 1..Len(queue) /\ DOMAIN longer = 1..(Len(queue) + 1)
      /\ Len(queue) \in Nat
      /\ \A i \in 1..Len(queue) : longer[i] = queue[i]
      /\ longer[Len(queue) + 1] = h
  OBVIOUS
<1> HIDE DEF longer
<1>2. \A i \in DOMAIN longer : i = Len(queue) + 1 \/ i \in DOMAIN queue
  BY <1>1
<1>3. Range(longer) = Range(queue) \cup {h}
  BY <1>1, <1>2 DEF Range
<1> QED
  BY <1>3 DEF longer

LEMMA Appended ==
    ASSUME NEW queue \in Seq(Held), ApartQueue(queue), NEW h \in Held,
           EventsOf(Range(queue)) \cap h.batch = {}
    PROVE  LET longer == Append(queue, h)
           IN  /\ longer \in Seq(Held) /\ ApartQueue(longer) /\ longer # <<>>
               /\ EventsOf(Range(longer)) = EventsOf(Range(queue)) \cup h.batch
               /\ \A i \in DOMAIN longer : longer[i] = h \/ \E j \in DOMAIN queue : longer[i] = queue[j]
<1> DEFINE longer == Append(queue, h)
<1>1. /\ longer \in Seq(Held) /\ Len(longer) = Len(queue) + 1
      /\ DOMAIN queue = 1..Len(queue) /\ DOMAIN longer = 1..(Len(queue) + 1)
      /\ Len(queue) \in Nat
      /\ \A i \in 1..Len(queue) : longer[i] = queue[i]
      /\ longer[Len(queue) + 1] = h
  OBVIOUS
<1> HIDE DEF longer
<1>2. \A i \in DOMAIN queue : queue[i].batch \cap h.batch = {}
  BY DEF EventsOf, Range
<1>3. \A i \in DOMAIN longer : i = Len(queue) + 1 \/ i \in DOMAIN queue
  BY <1>1
<1>4. ApartQueue(longer)
  BY <1>1, <1>2, <1>3 DEF ApartQueue
<1>5. Range(longer) = Range(queue) \cup {h}
  BY AppendedRange DEF longer
<1>6. EventsOf({h}) = h.batch
  BY DEF EventsOf
<1>7. EventsOf(Range(longer)) = EventsOf(Range(queue)) \cup h.batch
  BY <1>5, <1>6, EventsOfUnion
<1>8. longer # <<>>
  BY <1>1
<1> QED
  BY <1>1, <1>3, <1>4, <1>7, <1>8 DEF longer

LEMMA LeastNatural ==
    ASSUME NEW T \in SUBSET Nat, T # {}
    PROVE  \E n \in T : \A m \in T : n <= m
<1>1. PICK n \in T : \A m \in T : ~ (<<m, n>> \in OpToRel(<, Nat))
  BY NatLessThanWellFounded, WFMin
<1>2. ASSUME NEW m \in T PROVE n <= m
  <2>1. ~ (m < n)
    BY <1>1 DEF OpToRel
  <2> QED
    BY <2>1
<1> QED
  BY <1>2

(* A poll keeps, in their order, the entries that were not due: by          *)
(* induction over the loop, as a least counterexample.                      *)
LEMMA RestShape ==
    ASSUME NEW due \in SUBSET (DOMAIN retry), retry \in Seq(Held), ApartQueue(retry)
    PROVE  /\ Rest(due) \in Seq(Held) /\ ApartQueue(Rest(due))
           /\ Range(Rest(due)) = {retry[i] : i \in DOMAIN retry \ due}
<1> DEFINE body(f, n) == IF n = 0 THEN <<>>
                         ELSE IF n \in due THEN f[n - 1] ELSE Append(f[n - 1], retry[n])
           held == CHOOSE f : f = [n \in 0..Len(retry) |-> body(f, n)]
           Solves(k, f) == \A n \in 0..k : f[n] = body(f, n)
           Unsolved == {k \in Nat : ~ \E f : Solves(k, f)}
<1>0. Rest(due) = held[Len(retry)] /\ Len(retry) \in Nat /\ DOMAIN retry = 1..Len(retry)
  BY DEF Rest
<1>1. Unsolved = {}
  <2> SUFFICES ASSUME Unsolved # {} PROVE FALSE
    OBVIOUS
  <2>1. PICK k \in Unsolved : \A m \in Unsolved : k <= m
    BY LeastNatural
  <2>2. CASE k = 0
    <3>1. Solves(0, [n \in {0} |-> <<>>])
      OBVIOUS
    <3> QED
      BY <2>1, <2>2, <3>1
  <2>3. CASE k # 0
    <3>1. k \in Nat /\ k - 1 \in Nat /\ ~ (k <= k - 1)
      BY <2>1, <2>3
    <3>2. k - 1 \notin Unsolved
      <4> HIDE DEF Unsolved
      <4> QED
        BY <2>1, <3>1
    <3>3. PICK f : Solves(k - 1, f)
      BY <3>1, <3>2
    <3> DEFINE g == [n \in 0..k |-> body(f, n)]
    <3>4. \A n \in 0..k : g[n] = body(f, n)
      OBVIOUS
    <3>5. \A n \in 0..k : n # 0 => n - 1 \in 0..(k - 1) /\ n - 1 \in 0..k
      BY <3>1
    <3> HIDE DEF g
    <3>6. \A n \in 0..k : n # 0 => g[n - 1] = f[n - 1]
      BY <3>3, <3>4, <3>5
    <3>7. Solves(k, g)
      BY <3>4, <3>6
    <3> QED
      BY <2>1, <3>7
  <2> QED
    BY <2>2, <2>3
<1>2. held = [n \in 0..Len(retry) |-> body(held, n)]
  <2>1. PICK f : Solves(Len(retry), f)
    BY <1>0, <1>1
  <2> DEFINE g == [n \in 0..Len(retry) |-> body(f, n)]
  <2>2. \A n \in 0..Len(retry) : g[n] = f[n] /\ (n # 0 => n - 1 \in 0..Len(retry))
    BY <1>0, <2>1
  <2>3. g = [n \in 0..Len(retry) |-> body(g, n)]
    BY <2>2
  <2> HIDE DEF g
  <2>4. \E h : h = [n \in 0..Len(retry) |-> body(h, n)]
    BY <2>3
  <2> HIDE DEF body
  <2> QED
    BY <2>4
<1>3. \A n \in 0..Len(retry) : held[n] = body(held, n)
  <2> HIDE DEF held, body
  <2> QED
    BY <1>2
<1> HIDE DEF held
<1> DEFINE kept(n) == {retry[i] : i \in (1..n) \ due}
           Right(n) == held[n] \in Seq(Held) /\ ApartQueue(held[n]) /\ Range(held[n]) = kept(n)
           Wrong == {n \in 0..Len(retry) : ~ Right(n)}
<1>4. Wrong = {}
  <2> SUFFICES ASSUME Wrong # {} PROVE FALSE
    OBVIOUS
  <2>1. PICK n \in Wrong : \A m \in Wrong : n <= m
    <3>1. Wrong \in SUBSET Nat
      BY <1>0
    <3> HIDE DEF Wrong
    <3> QED
      BY <3>1, LeastNatural
  <2>2. CASE n = 0
    <3>1. held[n] = <<>> /\ Range(<<>>) = {} /\ kept(n) = {}
      BY <1>3, <2>1, <2>2 DEF Range
    <3>2. <<>> \in Seq(Held) /\ ApartQueue(<<>>)
      BY DEF ApartQueue
    <3> QED
      BY <2>1, <3>1, <3>2
  <2>3. CASE n # 0
    <3>1. n \in 1..Len(retry) /\ n - 1 \in 0..Len(retry) /\ ~ (n <= n - 1)
          /\ (1..n) = (1..(n - 1)) \cup {n} /\ n \in Nat /\ n \notin 1..(n - 1)
      BY <1>0, <2>1, <2>3
    <3>2. Right(n - 1)
      <4>1. n - 1 \notin Wrong
        <5> HIDE DEF Wrong
        <5> QED
          BY <2>1, <3>1
      <4> HIDE DEF Right
      <4> QED
        BY <3>1, <4>1
    <3>3. CASE n \in due
      <4>1. held[n] = held[n - 1] /\ kept(n) = kept(n - 1)
        BY <1>3, <3>1, <3>3, <2>3
      <4> QED
        BY <2>1, <3>2, <4>1
    <3>4. CASE n \notin due
      <4>1. held[n] = Append(held[n - 1], retry[n]) /\ kept(n) = kept(n - 1) \cup {retry[n]}
        BY <1>3, <3>1, <3>4, <2>3
      <4>2. retry[n] \in Held
        BY <3>1, <1>0
      <4>3. EventsOf(kept(n - 1)) \cap retry[n].batch = {}
        BY <3>1, <1>0 DEF EventsOf, ApartQueue
      <4>4. held[n] \in Seq(Held) /\ ApartQueue(held[n])
        BY <3>2, <4>1, <4>2, <4>3, Appended
      <4>5. Range(held[n]) = Range(held[n - 1]) \cup {retry[n]}
        BY <3>2, <4>1, <4>2, AppendedRange
      <4> QED
        BY <2>1, <3>2, <4>1, <4>4, <4>5
    <3> QED
      BY <3>3, <3>4
  <2> QED
    BY <2>2, <2>3
<1>5. Right(Len(retry))
  <2> HIDE DEF Right
  <2> QED
    BY <1>0, <1>4
<1> QED
  BY <1>0, <1>5

(* The mirror written from a queue: the batches of distinct entries.        *)
LEMMA PersistedShape ==
    ASSUME NEW queue \in Seq(Held), ApartQueue(queue)
    PROVE  /\ Persisted(queue) \in Seq(Batch) /\ Len(Persisted(queue)) <= maxBatches
           /\ ApartMirror(Persisted(queue))
           /\ UNION Range(Persisted(queue)) \subseteq EventsOf(Range(queue))
           /\ consent # "granted" => Persisted(queue) = <<>>
<1> DEFINE held == Batches(queue)
           first == IF Len(held) > maxBatches THEN Len(held) - maxBatches + 1 ELSE 1
           kept == SubSeq(held, first, Len(held))
<1>1. CASE consent # "granted"
  <2>1. Persisted(queue) = <<>>
    BY <1>1 DEF Persisted
  <2> QED
    BY <2>1, Bounds DEF ApartMirror, Range
<1>2. CASE consent = "granted"
  <2>1. Persisted(queue) = kept
    BY <1>2 DEF Persisted
  <2>2. /\ held \in Seq(Batch) /\ Len(held) = Len(queue) /\ Len(queue) \in Nat
        /\ DOMAIN queue = 1..Len(queue)
        /\ \A i \in 1..Len(queue) : held[i] = queue[i].batch
    <3>1. \A i \in DOMAIN queue : queue[i].batch \in Batch
      <4>1. \A i \in DOMAIN queue : queue[i] \in Held
        OBVIOUS
      <4>2. \A h \in Held : h.batch \in Batch
        BY DEF Held
      <4> QED
        BY <4>1, <4>2
    <3>2. DOMAIN queue = 1..Len(queue) /\ Len(queue) \in Nat
      OBVIOUS
    <3>3. held = [i \in 1..Len(queue) |-> queue[i].batch]
      BY <3>2 DEF Batches
    <3> HIDE DEF held
    <3> QED
      BY <3>1, <3>2, <3>3
  <2> HIDE DEF held
  <2>3. first \in 1..(Len(held) + 1) /\ Len(held) - first + 1 <= maxBatches
    BY <2>2, Bounds
  <2> HIDE DEF first
  <2>4. /\ kept \in Seq(Batch) /\ Len(kept) = (Len(held) - first) + 1
        /\ \A i \in 1..Len(kept) : kept[i] = held[first + i - 1]
    BY <2>2, <2>3
  <2>5. /\ Len(kept) <= maxBatches /\ DOMAIN kept = 1..Len(kept)
        /\ \A i \in 1..Len(kept) : first + i - 1 \in 1..Len(queue)
        /\ \A i, j \in 1..Len(kept) : i # j => first + i - 1 # first + j - 1
    BY <2>2, <2>3, <2>4
  <2> HIDE DEF kept
  <2>6. ApartMirror(kept)
    <3>1. \A i \in DOMAIN kept : kept[i] = queue[first + i - 1].batch /\ first + i - 1 \in DOMAIN queue
      BY <2>2, <2>4, <2>5
    <3>2. SUFFICES ASSUME NEW i \in DOMAIN kept, NEW j \in DOMAIN kept, i # j
                   PROVE  kept[i] \cap kept[j] = {}
      BY DEF ApartMirror
    <3>3. first + i - 1 # first + j - 1
      BY <2>5, <3>2
    <3> QED
      BY <3>1, <3>2, <3>3 DEF ApartQueue
  <2>7. UNION Range(kept) \subseteq EventsOf(Range(queue))
    <3>1. \A i \in DOMAIN kept : \E j \in DOMAIN queue : kept[i] = queue[j].batch
      BY <2>2, <2>4, <2>5
    <3> QED
      BY <3>1 DEF Range, EventsOf
  <2> QED
    BY <1>2, <2>1, <2>4, <2>5, <2>6, <2>7
<1> QED
  BY <1>1, <1>2

---------------------------------------------------------------------------
(* Facts about a state of the invariant, and about hand-overs.              *)
LEMMA PlacesAreEvents ==
    ASSUME Typed
    PROVE  /\ InSends \subseteq Event /\ InRetry \subseteq Event /\ buffer \subseteq Event
           /\ \A s \in sends : s.batch \subseteq InSends /\ s.batch \subseteq Event
           /\ \A i \in DOMAIN retry : retry[i] \in Held /\ retry[i].batch \subseteq InRetry
           /\ Event = 1..MaxEvents /\ minted \in Nat
<1>1. \A h \in Held : h.batch \subseteq Event
  BY DEF Held, Batch
<1>2. \A s \in SendRecord : s.batch \subseteq Event
  BY DEF SendRecord, Batch
<1>3. \A i \in DOMAIN retry : retry[i] \in Held
  BY DEF Typed
<1>4. minted \in Nat
  BY Bounds DEF Typed
<1> QED
  BY <1>1, <1>2, <1>3, <1>4 DEF Typed, InSends, InRetry, EventsOf, Range, Event

LEMMA FewBuffered ==
    ASSUME Typed, NEW e \in Event, ~ (Cardinality(buffer) + 1 >= flushAt)
    PROVE  Cardinality(buffer \cup {e}) < flushAt
<1>0. IsFiniteSet(Event)
  BY Bounds, FS_Interval DEF Event
<1>1. IsFiniteSet(buffer) /\ Cardinality(buffer) \in Nat
  BY <1>0, FS_Subset, FS_CardinalityType DEF Typed
<1>2. Cardinality(buffer \cup {e}) \in {Cardinality(buffer), Cardinality(buffer) + 1}
  BY <1>1, FS_AddElement
<1> QED
  BY <1>1, <1>2, Bounds

LEMMA NoneBuffered == Cardinality({}) < flushAt
BY FS_EmptySet, Bounds

(* Sending held batches whose events are in no send.                        *)
LEMMA Handover ==
    ASSUME Typed, Placed, Budgeted, NEW H \in SUBSET Held, Apart(H), EventsOf(H) \cap InSends = {},
           \A h \in H : \A e \in h.batch : posts[e] <= h.attempt,
           Begin(H)
    PROVE  /\ sends' \subseteq SendRecord /\ Apart(sends')
           /\ InSends' = InSends \cup IF Suppressed THEN {} ELSE EventsOf(H)
           /\ \A s \in sends' : \A e \in s.batch :
                 posts[e] <= s.attempt + IF s.phase = "posted" THEN 1 ELSE 0
<1>1. sends' = sends \cup Begun(H)
  BY DEF Begin
<1>2. EventsOf(Begun(H)) = IF Suppressed THEN {} ELSE EventsOf(H)
  BY BegunHeld, NothingHeld
<1>3. sends' \subseteq SendRecord
  BY <1>1, BegunHeld DEF Typed
<1>4. InSends' = InSends \cup EventsOf(Begun(H))
  BY <1>1, EventsOfUnion DEF InSends
<1>5. Apart(sends')
  BY <1>1, <1>2, BegunHeld, UnionApart DEF Placed, InSends
<1>6. \A s \in Begun(H) : \A e \in s.batch : posts[e] <= s.attempt /\ s.attempt + 0 = s.attempt
  BY BegunHeld DEF SendRecord
<1>7. \A s \in Begun(H) : \A e \in s.batch : posts[e] <= s.attempt + IF s.phase = "posted" THEN 1 ELSE 0
  BY <1>6, BegunHeld
<1> QED
  BY <1>1, <1>2, <1>3, <1>4, <1>5, <1>7 DEF Budgeted

(* The events of the buffer, handed to a fresh send.                        *)
LEMMA FreshHandover ==
    ASSUME Typed, Placed, Budgeted, NEW S \in SUBSET Event, S \cap InSends = {},
           \A e \in S : posts[e] = 0, Begin(Fresh(S))
    PROVE  /\ sends' \subseteq SendRecord /\ Apart(sends')
           /\ InSends' = InSends \cup IF Suppressed THEN {} ELSE S
           /\ \A s \in sends' : \A e \in s.batch :
                 posts[e] <= s.attempt + IF s.phase = "posted" THEN 1 ELSE 0
<1>1. /\ Fresh(S) \in SUBSET Held /\ Apart(Fresh(S)) /\ EventsOf(Fresh(S)) = S
      /\ \A h \in Fresh(S) : \A e \in h.batch : posts[e] <= h.attempt
  BY FreshHeld
<1> QED
  BY <1>1, Handover

LEMMA DeliveryInit == Init => DeliveryInv
<1> SUFFICES ASSUME Init PROVE DeliveryInv
  OBVIOUS
<1>1. Flags
  BY DEF Init, Flags
<1>2. /\ buffer = {} /\ retry = <<>> /\ sends = {} /\ mirror = <<>>
      /\ minted = 0 /\ consent \in {"pending", "granted", "denied"}
      /\ forsworn = {} /\ leaked = {} /\ decisions = 0 /\ crashes = 0
      /\ fate = [e \in Event |-> "unborn"] /\ posts = [e \in Event |-> 0]
  BY DEF Init
<1>3. /\ fate \in [Event -> Fates] /\ posts \in [Event -> Nat]
      /\ \A e \in Event : fate[e] = "unborn" /\ posts[e] = 0
  BY <1>2 DEF Fates
<1>4. Typed
  BY <1>2, <1>3, NoneBuffered, Bounds DEF Typed
<1>5. InSends = {} /\ InRetry = {} /\ Mirrored = {}
  BY <1>2 DEF InSends, InRetry, EventsOf, Range, Mirrored
<1>6. Placed
  BY <1>2, <1>3, <1>5 DEF Placed, Apart, ApartQueue, Event
<1>7. MirrorSound
  BY <1>2, <1>5 DEF MirrorSound, DurableOnlyWhenGranted, ApartMirror
<1>8. Budgeted
  BY <1>2, <1>3, Bounds DEF Budgeted
<1> QED
  BY <1>1, <1>2, <1>4, <1>6, <1>7, <1>8 DEF DeliveryInv, Core, QueuesAwake

---------------------------------------------------------------------------
(* One lemma per action or group of actions that share their effect.        *)
LEMMA FlagsStep == DeliveryInv /\ [Next]_vars => Flags'
<1> SUFFICES ASSUME DeliveryInv, [Next]_vars PROVE Flags'
  OBVIOUS
<1> USE DEF Flags, queues, connection, unloading, durable, bounds, Asleep, Unaffected
<1>0. Flags
  BY DEF DeliveryInv
<1>1. CASE Capture \/ FlushTimerFires \/ Flush \/ Shutdown
  BY <1>0, <1>1 DEF Capture, Enqueue, FlushTimerFires, Flush, Shutdown, Drained, DrainAndSend
<1>2. ASSUME NEW s \in sends, Rehold(s) \/ Encoded(s) \/ BodyUnreadable(s) PROVE Flags'
  <2>1. CASE Rehold(s)
    BY <1>0, <2>1 DEF Rehold
  <2>2. CASE Encoded(s) \/ BodyUnreadable(s)
    BY <1>0, <2>2 DEF Encoded, BodyUnreadable
  <2> QED
    BY <1>2, <2>1, <2>2
<1>3. ASSUME NEW s \in sends, NEW status \in Statuses, NEW limited \in BOOLEAN,
             Answered(s, status, limited)
      PROVE  Flags'
  BY <1>0, <1>3 DEF Answered, Settle, ScheduleRetry
<1>4. ASSUME NEW due, Poll(due) \/ NetworkUp(due) PROVE Flags'
  BY <1>0, <1>4 DEF Poll, NetworkUp
<1>5. CASE PollOffline \/ NetworkDown \/ CoolOffEnds \/ Show
  BY <1>0, <1>5 DEF PollOffline, NetworkDown, CoolOffEnds, Show
<1>6. CASE Hide \/ HideWithPageleave
  BY <1>0, <1>6 DEF Hide, HideWithPageleave, HideStep, Beacon
<1>7. CASE OptOut \/ OptIn \/ Crash \/ Load
  BY <1>0, <1>7 DEF OptOut, OptIn, Crash, Load
<1>8. CASE UNCHANGED vars
  BY <1>0, <1>8 DEF vars
<1> QED
  BY <1>1, <1>2, <1>3, <1>4, <1>5, <1>6, <1>7, <1>8 DEF Next

LEMMA CaptureStep == DeliveryInv /\ Capture => Core'
<1> SUFFICES ASSUME DeliveryInv, Capture PROVE Core'
  OBVIOUS
<1> DEFINE e == minted + 1
<1>0. Typed /\ Placed /\ MirrorSound /\ Budgeted /\ QueuesAwake
  BY DEF DeliveryInv, Core
<1>1. /\ ~Suppressed /\ alive /\ minted < MaxEvents /\ minted' = e /\ Enqueue(e)
      /\ fate' = Decided({e}, "held")
      /\ UNCHANGED <<alive, retry, polling, connection, coolingOff, unloading, durable,
                     bounds, posts, forsworn, leaked>>
  BY DEF Capture, Mint
<1>2. e \in Event /\ minted \in Nat /\ e > minted /\ e <= MaxEvents
  BY <1>0, <1>1, Bounds DEF Typed, Event
<1>3. fate[e] = "unborn" /\ posts[e] = 0 /\ e \notin buffer \cup InSends \cup InRetry /\ e \notin Mirrored
  BY <1>0, <1>2 DEF Placed, Budgeted, MirrorSound
<1>4. /\ fate' \in [Event -> Fates] /\ fate'[e] = "held"
      /\ \A x \in Event : x # e => fate'[x] = fate[x]
  BY <1>0, <1>1, <1>2 DEF Typed, Decided, Fates
<1>5. \A x \in Event : (x > e <=> x > minted /\ x # e)
  BY <1>2 DEF Event
<1>6. InRetry' = InRetry /\ Mirrored' = Mirrored /\ consent' = consent /\ mirror' = mirror
      /\ decisions' = decisions /\ crashes' = crashes
  BY <1>1 DEF InRetry, Mirrored, EventsOf, durable, bounds
<1>7. /\ buffer' \subseteq Event /\ Cardinality(buffer') < flushAt
      /\ sends' \subseteq SendRecord /\ Apart(sends')
      /\ \A s \in sends' : \A x \in s.batch :
            posts[x] <= s.attempt + IF s.phase = "posted" THEN 1 ELSE 0
      /\ \/ buffer' = {} /\ InSends' = InSends \cup buffer \cup {e}
         \/ buffer' = buffer \cup {e} /\ InSends' = InSends /\ flushTimer'
  <2>1. CASE Cardinality(buffer) + 1 >= flushAt
    <3>1. buffer' = {} /\ Begin(Fresh(buffer \cup {e}))
      BY <1>1, <2>1 DEF Enqueue, DrainAndSend
    <3>2. /\ buffer \cup {e} \in SUBSET Event /\ (buffer \cup {e}) \cap InSends = {}
          /\ \A x \in buffer \cup {e} : posts[x] = 0
      BY <1>0, <1>2, <1>3 DEF Typed, Placed, Budgeted
    <3> HIDE DEF e
    <3> QED
      BY <1>0, <1>1, <3>1, <3>2, FreshHandover, NoneBuffered
  <2>2. CASE ~ (Cardinality(buffer) + 1 >= flushAt)
    <3>1. buffer' = buffer \cup {e} /\ flushTimer' /\ sends' = sends
      BY <1>1, <2>2 DEF Enqueue
    <3> HIDE DEF e
    <3> QED
      BY <1>0, <1>2, <2>2, <3>1, FewBuffered DEF Typed, Placed, Budgeted, InSends
  <2> QED
    BY <2>1, <2>2
<1>8. 1..minted \subseteq 1..e /\ e \in 0..MaxEvents
  BY <1>2
<1> HIDE DEF e
<1>9. Typed'
  BY <1>0, <1>1, <1>4, <1>6, <1>7, <1>8 DEF Typed
<1>10. Placed'
  BY <1>0, <1>1, <1>2, <1>3, <1>4, <1>5, <1>6, <1>7 DEF Placed
<1>11. MirrorSound'
  BY <1>0, <1>3, <1>4, <1>6 DEF MirrorSound, DurableOnlyWhenGranted
<1>12. Budgeted'
  BY <1>0, <1>1, <1>2, <1>3, <1>5, <1>7 DEF Budgeted
<1>13. QueuesAwake'
  BY <1>0, <1>1, <1>7 DEF QueuesAwake
<1> QED
  BY <1>9, <1>10, <1>11, <1>12, <1>13 DEF Core

(* What a suppressed client drops is held, and not in the mirror, which is  *)
(* empty then.                                                              *)
LEMMA Dropping ==
    ASSUME Typed, Placed, MirrorSound, NEW H \in SUBSET Held, EventsOf(H) \subseteq Event,
           fate' = FateAfterBegin(H)
    PROVE  /\ fate' \in [Event -> Fates]
           /\ \A x \in Event : fate'[x] = IF Suppressed /\ x \in EventsOf(H) THEN "denied" ELSE fate[x]
           /\ Suppressed => mirror = <<>> /\ Mirrored = {}
<1>1. CASE Suppressed
  <2>1. fate' = [x \in Event |-> IF x \in EventsOf(H) THEN "denied" ELSE fate[x]]
    BY <1>1 DEF FateAfterBegin, Decided
  <2>2. mirror = <<>>
    BY <1>1 DEF MirrorSound, DurableOnlyWhenGranted, Suppressed
  <2>3. Mirrored = {}
    BY <2>2 DEF Mirrored, Range
  <2> QED
    BY <1>1, <2>1, <2>2, <2>3 DEF Typed, Fates
<1>2. CASE ~Suppressed
  BY <1>2 DEF FateAfterBegin, Typed
<1> QED
  BY <1>1, <1>2

LEMMA DrainedStep ==
    ASSUME DeliveryInv, alive, Drained
    PROVE  Core'
<1>0. Typed /\ Placed /\ MirrorSound /\ Budgeted /\ QueuesAwake
  BY DEF DeliveryInv, Core
<1>1. /\ buffer' = {} /\ flushTimer' = FALSE /\ Begin(Fresh(buffer))
      /\ fate' = FateAfterBegin(Fresh(buffer))
      /\ UNCHANGED <<alive, retry, polling, connection, coolingOff, durable, bounds,
                     minted, posts, forsworn, leaked>>
  BY DEF Drained, DrainAndSend
<1>2. /\ sends' \subseteq SendRecord /\ Apart(sends')
      /\ InSends' = InSends \cup IF Suppressed THEN {} ELSE buffer
      /\ \A s \in sends' : \A x \in s.batch :
            posts[x] <= s.attempt + IF s.phase = "posted" THEN 1 ELSE 0
  <2>1. buffer \in SUBSET Event /\ buffer \cap InSends = {} /\ \A x \in buffer : posts[x] = 0
    BY <1>0 DEF Typed, Placed, Budgeted
  <2> QED
    BY <1>0, <1>1, <2>1, FreshHandover
<1>3. /\ fate' \in [Event -> Fates]
      /\ \A x \in Event : fate'[x] = IF Suppressed /\ x \in buffer THEN "denied" ELSE fate[x]
      /\ Suppressed => mirror = <<>> /\ Mirrored = {}
  BY <1>0, <1>1, Dropping, FreshHeld DEF Typed
<1>4. InRetry' = InRetry /\ Mirrored' = Mirrored /\ consent' = consent /\ mirror' = mirror
      /\ decisions' = decisions /\ crashes' = crashes
  BY <1>1 DEF InRetry, Mirrored, EventsOf, durable, bounds
<1>5. Typed'
  BY <1>0, <1>1, <1>2, <1>3, <1>4, NoneBuffered DEF Typed
<1>6. Placed'
  BY <1>0, <1>1, <1>2, <1>3, <1>4 DEF Placed
<1>7. MirrorSound'
  BY <1>0, <1>3, <1>4 DEF MirrorSound, DurableOnlyWhenGranted
<1>8. Budgeted'
  BY <1>0, <1>1, <1>2 DEF Budgeted
<1>9. QueuesAwake'
  BY <1>0, <1>1 DEF QueuesAwake
<1> QED
  BY <1>5, <1>6, <1>7, <1>8, <1>9 DEF Core

(* A send that ends with its batch in the retry queue, at that attempt, and *)
(* the mirror rewritten.                                                    *)
LEMMA Requeued ==
    ASSUME DeliveryInv, NEW s \in sends, NEW attempt \in 0..MAX_RETRIES,
           sends' = sends \ {s},
           retry' = Append(retry, [batch |-> s.batch, attempt |-> attempt]), polling' = TRUE,
           mirror' = Persisted(retry'),
           \A x \in s.batch : posts[x] <= attempt,
           UNCHANGED <<alive, consent, fate, posts, buffer, flushTimer, bounds, minted, forsworn, leaked>>
    PROVE  Core'
<1> DEFINE h == [batch |-> s.batch, attempt |-> attempt]
<1>0. Typed /\ Placed /\ MirrorSound /\ Budgeted /\ QueuesAwake
  BY DEF DeliveryInv, Core
<1>1. h \in Held /\ h.batch = s.batch /\ h.attempt = attempt
  BY <1>0 DEF Typed, SendRecord, Held
<1>2. /\ Apart(sends') /\ InSends' = InSends \ s.batch /\ s.batch \subseteq InSends
      /\ sends' \subseteq sends
  BY <1>0, WithoutHeld DEF Placed, InSends
<1>3. EventsOf(Range(retry)) \cap h.batch = {}
  BY <1>0, <1>1, <1>2 DEF Placed, InRetry
<1> HIDE DEF h
<1>4. /\ retry' \in Seq(Held) /\ ApartQueue(retry') /\ retry' # <<>>
      /\ InRetry' = InRetry \cup s.batch
      /\ \A i \in DOMAIN retry' : retry'[i] = h \/ \E j \in DOMAIN retry : retry'[i] = retry[j]
  <2>1. retry' = Append(retry, h) /\ retry \in Seq(Held) /\ ApartQueue(retry)
    BY <1>0 DEF Typed, Placed, h
  <2>2. /\ Append(retry, h) \in Seq(Held) /\ ApartQueue(Append(retry, h)) /\ Append(retry, h) # <<>>
        /\ EventsOf(Range(Append(retry, h))) = EventsOf(Range(retry)) \cup h.batch
        /\ \A i \in DOMAIN Append(retry, h) :
              Append(retry, h)[i] = h \/ \E j \in DOMAIN retry : Append(retry, h)[i] = retry[j]
    BY <1>1, <1>3, <2>1, Appended
  <2> QED
    BY <1>1, <2>1, <2>2 DEF InRetry
<1>5. /\ mirror' \in Seq(Batch) /\ Len(mirror') <= maxBatches /\ ApartMirror(mirror')
      /\ Mirrored' \subseteq InRetry' /\ (consent # "granted" => mirror' = <<>>)
  BY <1>4, PersistedShape DEF Mirrored, InRetry
<1>6. Typed'
  BY <1>0, <1>2, <1>4, <1>5 DEF Typed, bounds
<1>7. Placed'
  BY <1>0, <1>2, <1>4 DEF Placed
<1>8. MirrorSound'
  <2>1. InRetry' \subseteq Event
    BY <1>0, <1>2, <1>4, PlacesAreEvents
  <2>2. \A x \in Mirrored' : x \in Event /\ fate[x] = "held"
    BY <1>0, <1>2, <1>4, <1>5, <2>1 DEF Placed
  <2> QED
    BY <1>5, <2>2 DEF MirrorSound, DurableOnlyWhenGranted, Settled
<1>9. Budgeted'
  BY <1>0, <1>1, <1>2, <1>4 DEF Budgeted
<1>10. QueuesAwake'
  BY <1>0 DEF QueuesAwake
<1> QED
  BY <1>6, <1>7, <1>8, <1>9, <1>10 DEF Core

(* A send that ends with its batch decided, or lost.                        *)
LEMMA Ended ==
    ASSUME DeliveryInv, NEW s \in sends, NEW verdict \in Fates \ {"held", "unborn"},
           sends' = sends \ {s}, fate' = Decided(s.batch, verdict),
           \/ mirror' = Persisted(retry)
           \/ mirror' = mirror /\ verdict \notin Settled,
           UNCHANGED <<alive, consent, retry, polling, posts, buffer, flushTimer, bounds, minted,
                       forsworn, leaked>>
    PROVE  Core'
<1>0. Typed /\ Placed /\ MirrorSound /\ Budgeted /\ QueuesAwake
  BY DEF DeliveryInv, Core
<1>1. /\ Apart(sends') /\ InSends' = InSends \ s.batch /\ s.batch \subseteq InSends
      /\ sends' \subseteq sends /\ InRetry' = InRetry /\ InSends \subseteq Event /\ InRetry \subseteq Event
  BY <1>0, WithoutHeld, PlacesAreEvents DEF Placed, InSends, InRetry, EventsOf
<1>2. /\ fate' \in [Event -> Fates]
      /\ \A x \in Event : fate'[x] = IF x \in s.batch THEN verdict ELSE fate[x]
  BY <1>0 DEF Decided, Typed
<1>3. /\ mirror' \in Seq(Batch) /\ Len(mirror') <= maxBatches /\ ApartMirror(mirror')
      /\ (consent # "granted" => mirror' = <<>>)
      /\ \/ Mirrored' \subseteq InRetry
         \/ Mirrored' = Mirrored /\ verdict \notin Settled
  <2>1. CASE mirror' = Persisted(retry)
    BY <1>0, <2>1, PersistedShape DEF Typed, Placed, Mirrored, InRetry
  <2>2. CASE mirror' = mirror /\ verdict \notin Settled
    BY <1>0, <2>2 DEF Typed, MirrorSound, DurableOnlyWhenGranted, Mirrored
  <2> QED
    BY <2>1, <2>2
<1>4. Typed'
  BY <1>0, <1>1, <1>2, <1>3 DEF Typed, bounds
<1>5. Placed'
  BY <1>0, <1>1, <1>2 DEF Placed
<1>6. MirrorSound'
  <2>1. \A x \in Mirrored' : x \in Event /\ fate'[x] \notin Settled \cup {"unborn"}
    <3>1. CASE Mirrored' \subseteq InRetry
      BY <1>0, <1>1, <1>2, <3>1 DEF Placed, Settled
    <3>2. CASE Mirrored' = Mirrored /\ verdict \notin Settled
      BY <1>0, <1>2, <3>2 DEF MirrorSound
    <3> QED
      BY <1>3, <3>1, <3>2
  <2> QED
    BY <1>3, <2>1 DEF MirrorSound, DurableOnlyWhenGranted
<1>7. Budgeted'
  BY <1>0, <1>1 DEF Budgeted
<1>8. QueuesAwake'
  BY <1>0 DEF QueuesAwake
<1> QED
  BY <1>4, <1>5, <1>6, <1>7, <1>8 DEF Core

LEMMA SendStep ==
    ASSUME DeliveryInv, NEW s \in sends,
           \/ Rehold(s) \/ Encoded(s) \/ BodyUnreadable(s)
           \/ \E status \in Statuses, limited \in BOOLEAN : Answered(s, status, limited)
    PROVE  Core'
<1>0. Typed /\ Placed /\ MirrorSound /\ Budgeted /\ QueuesAwake
  BY DEF DeliveryInv, Core
<1>a. /\ alive /\ s \in SendRecord /\ s.attempt \in 0..MAX_RETRIES /\ s.batch \subseteq Event
      /\ s.batch \subseteq InSends
  <2>1. s \in SendRecord
    BY <1>0 DEF Typed
  <2>2. s.attempt \in 0..MAX_RETRIES
    BY <2>1 DEF SendRecord
  <2> QED
    BY <1>0, <2>1, <2>2, PlacesAreEvents DEF Placed
<1>b. \A x \in s.batch : posts[x] \in Nat /\ posts[x] <= s.attempt + IF s.phase = "posted" THEN 1 ELSE 0
  BY <1>0, <1>a DEF Budgeted, Typed
<1>1. CASE Rehold(s)
  <2>1. \A x \in s.batch : posts[x] <= s.attempt
    BY <1>1, <1>a, <1>b, Bounds DEF Rehold
  <2> QED
    BY <1>1, <1>a, <2>1, Requeued DEF Rehold, Unaffected
<1>2. CASE Encoded(s)
  <2> DEFINE t == [s EXCEPT !.phase = "posted"]
  <2>1. /\ sends' = (sends \ {s}) \cup {t} /\ s.phase = "encoding"
        /\ posts' = [e \in Event |-> posts[e] + IF e \in s.batch THEN 1 ELSE 0]
        /\ leaked' = leaked \cup (s.batch \cap forsworn)
        /\ UNCHANGED <<retry, polling, mirror, consent, fate, alive, buffer, flushTimer, minted,
                       forsworn, decisions, crashes>>
    BY <1>2 DEF Encoded, Unaffected, durable, bounds
  <2>2. t \in SendRecord /\ t.batch = s.batch /\ t.attempt = s.attempt /\ t.phase = "posted"
    BY <1>a DEF SendRecord, Phases
  <2> HIDE DEF t
  <2>3. Apart(sends \ {s}) /\ EventsOf(sends \ {s}) = InSends \ s.batch
    BY <1>0, WithoutHeld DEF Placed, InSends
  <2>4. EventsOf({t}) = s.batch /\ Apart({t})
    BY <2>2 DEF EventsOf, Apart
  <2>5. Apart(sends') /\ InSends' = InSends /\ sends' \subseteq SendRecord
    <3>1. Apart(sends')
      BY <2>1, <2>3, <2>4, UnionApart
    <3>2. InSends' = EventsOf(sends \ {s}) \cup EventsOf({t})
      BY <2>1, EventsOfUnion DEF InSends
    <3> QED
      BY <1>0, <1>a, <2>1, <2>2, <2>3, <2>4, <3>1, <3>2 DEF Typed
  <2>6. InRetry' = InRetry /\ Mirrored' = Mirrored
    BY <2>1 DEF InRetry, EventsOf, Mirrored
  <2>7. /\ posts' \in [Event -> Nat]
        /\ \A x \in Event : x \in s.batch => posts'[x] = posts[x] + 1
        /\ \A x \in Event : x \notin s.batch => posts'[x] = posts[x]
    BY <1>0, <2>1 DEF Typed
  <2>8. Typed'
    BY <1>0, <2>1, <2>5, <2>7 DEF Typed
  <2>9. Placed'
    BY <1>0, <2>1, <2>5, <2>6 DEF Placed
  <2>10. MirrorSound'
    BY <1>0, <2>1, <2>6 DEF MirrorSound, DurableOnlyWhenGranted
  <2>11. Budgeted'
    <3>1. \A x \in s.batch : x \in Event /\ posts[x] + 1 <= s.attempt + 1 /\ s.attempt + 1 <= MAX_RETRIES + 1
                             /\ ~ (x > minted) /\ x \notin buffer /\ x \notin InRetry
      BY <1>0, <1>a, <1>b, <2>1, Bounds DEF Placed
    <3>2. \A r \in sends' : r = t \/ (r \in sends /\ r.batch \cap s.batch = {} /\ r.batch \subseteq Event)
      BY <1>0, <2>1, PlacesAreEvents DEF Placed, Apart
    <3>3. \A r \in sends' : \A x \in r.batch :
             posts'[x] <= r.attempt + IF r.phase = "posted" THEN 1 ELSE 0
      <4> SUFFICES ASSUME NEW r \in sends', NEW x \in r.batch
                   PROVE  posts'[x] <= r.attempt + IF r.phase = "posted" THEN 1 ELSE 0
        OBVIOUS
      <4>1. CASE r = t
        BY <2>2, <2>7, <3>1, <4>1
      <4>2. CASE r # t
        <5>1. r \in sends /\ x \in Event /\ x \notin s.batch
          BY <3>2, <4>2
        <5> QED
          BY <1>0, <2>7, <5>1 DEF Budgeted
      <4> QED
        BY <4>1, <4>2
    <3>4. \A i \in DOMAIN retry : \A x \in retry[i].batch : posts'[x] <= retry[i].attempt
      BY <1>0, <2>7, <3>1, PlacesAreEvents DEF Budgeted
    <3>5. /\ \A x \in Event : posts'[x] <= MAX_RETRIES + 1
          /\ \A x \in Event : x > minted \/ x \in buffer => posts'[x] = 0
      <4>1. \A x \in s.batch : posts'[x] <= MAX_RETRIES + 1
        BY <1>a, <1>b, <2>7, <3>1, Bounds
      <4> QED
        BY <1>0, <2>7, <3>1, <4>1 DEF Budgeted
    <3> QED
      BY <2>1, <3>3, <3>4, <3>5 DEF Budgeted
  <2>12. QueuesAwake'
    BY <1>0, <2>1 DEF QueuesAwake
  <2> QED
    BY <2>8, <2>9, <2>10, <2>11, <2>12 DEF Core
<1>3. CASE BodyUnreadable(s)
  <2>1. "lost" \in Fates \ {"held", "unborn"} /\ "lost" \notin Settled
    BY DEF Fates, Settled
  <2> QED
    BY <1>3, <2>1, Ended DEF BodyUnreadable, Unaffected, durable
<1>4. ASSUME NEW status \in Statuses, NEW limited \in BOOLEAN, Answered(s, status, limited)
      PROVE  Core'
  <2>1. /\ sends' = sends \ {s} /\ s.phase = "posted" /\ mirror' = Persisted(retry')
        /\ UNCHANGED <<consent, posts, leaked, alive, buffer, flushTimer, bounds, minted, forsworn>>
    BY <1>4 DEF Answered, Settle, Unaffected
  <2>2. CASE Retryable(s, status)
    <3>1. s.attempt + 1 \in 0..MAX_RETRIES
      BY <1>a, <2>2, Bounds DEF Retryable, maxRetriesForStatus
    <3>2. \A x \in s.batch : posts[x] <= s.attempt + 1
      BY <1>b, <2>1
    <3>3. /\ retry' = Append(retry, [batch |-> s.batch, attempt |-> s.attempt + 1])
          /\ polling' = TRUE /\ fate' = fate
      BY <1>4, <2>2 DEF Answered, Settle, ScheduleRetry
    <3> QED
      BY <2>1, <3>1, <3>2, <3>3, Requeued
  <2>3. CASE ~Retryable(s, status)
    <3>1. Verdict(status) \in Fates \ {"held", "unborn"}
      BY DEF Verdict, Fates
    <3>2. fate' = Decided(s.batch, Verdict(status)) /\ retry' = retry /\ polling' = polling
      BY <1>4, <2>3 DEF Answered, Settle
    <3>3. mirror' = Persisted(retry)
      BY <2>1, <3>2 DEF Persisted, Batches
    <3> QED
      BY <2>1, <3>1, <3>2, <3>3, Ended
  <2> QED
    BY <2>2, <2>3
<1> QED
  BY <1>1, <1>2, <1>3, <1>4

(* The due entries go out, the others stay in the queue.                    *)
LEMMA FlushDueStep ==
    ASSUME DeliveryInv, alive, NEW due \in SUBSET (DOMAIN retry), FlushDue(due),
           retry' # <<>> => polling',
           UNCHANGED <<alive, buffer, flushTimer, durable, bounds, minted, posts, forsworn, leaked>>
    PROVE  Core'
<1>0. Typed /\ Placed /\ MirrorSound /\ Budgeted /\ QueuesAwake
  BY DEF DeliveryInv, Core
<1>1. Begin(Due(due)) /\ fate' = FateAfterBegin(Due(due)) /\ retry' = Rest(due)
  BY DEF FlushDue
<1>2. retry \in Seq(Held) /\ ApartQueue(retry)
  BY <1>0 DEF Typed, Placed
<1>3. /\ retry' \in Seq(Held) /\ ApartQueue(retry')
      /\ Range(retry') = {retry[i] : i \in DOMAIN retry \ due}
  BY <1>1, <1>2, RestShape
<1>4. /\ Due(due) \in SUBSET Held /\ Apart(Due(due))
      /\ Range(retry) = Due(due) \cup Range(retry')
      /\ EventsOf(Due(due)) \cap EventsOf(Range(retry')) = {}
  <2>1. Range(retry) \subseteq Held /\ Apart(Range(retry)) /\ Due(due) \subseteq Range(retry)
    BY <1>2, QueueApart DEF Due, Range
  <2>2. Range(retry) = Due(due) \cup Range(retry')
    BY <1>3 DEF Due, Range
  <2>3. EventsOf(Due(due)) \cap EventsOf(Range(retry')) = {}
    BY <1>2, <1>3 DEF EventsOf, Due, ApartQueue
  <2> QED
    BY <2>1, <2>2, <2>3 DEF Apart
<1>5. InRetry = EventsOf(Due(due)) \cup InRetry'
  BY <1>4, EventsOfUnion DEF InRetry
<1>6. /\ sends' \subseteq SendRecord /\ Apart(sends')
      /\ InSends' = InSends \cup IF Suppressed THEN {} ELSE EventsOf(Due(due))
      /\ \A s \in sends' : \A x \in s.batch :
            posts[x] <= s.attempt + IF s.phase = "posted" THEN 1 ELSE 0
  <2>1. \A h \in Due(due) : \A x \in h.batch : posts[x] <= h.attempt
    BY <1>0 DEF Budgeted, Due
  <2>2. EventsOf(Due(due)) \cap InSends = {}
    BY <1>0, <1>5 DEF Placed
  <2> QED
    BY <1>0, <1>1, <1>4, <2>1, <2>2, Handover
<1>7. /\ fate' \in [Event -> Fates]
      /\ \A x \in Event : fate'[x] = IF Suppressed /\ x \in EventsOf(Due(due)) THEN "denied" ELSE fate[x]
      /\ Suppressed => mirror = <<>> /\ Mirrored = {}
  <2>1. EventsOf(Due(due)) \subseteq Event
    BY <1>0, <1>5, PlacesAreEvents
  <2> QED
    BY <1>0, <1>1, <1>4, <2>1, Dropping
<1>8. Mirrored' = Mirrored /\ consent' = consent /\ mirror' = mirror
      /\ decisions' = decisions /\ crashes' = crashes
  BY DEF Mirrored, durable, bounds
<1>9. Typed'
  BY <1>0, <1>3, <1>6, <1>7, <1>8 DEF Typed
<1>10. Placed'
  BY <1>0, <1>3, <1>4, <1>5, <1>6, <1>7 DEF Placed, InRetry
<1>11. MirrorSound'
  BY <1>0, <1>7, <1>8 DEF MirrorSound, DurableOnlyWhenGranted
<1>12. Budgeted'
  <2>1. \A j \in DOMAIN retry' : \E i \in DOMAIN retry : retry'[j] = retry[i]
    BY <1>3 DEF Range
  <2> QED
    BY <1>0, <1>6, <2>1 DEF Budgeted
<1>13. QueuesAwake'
  BY <1>0 DEF QueuesAwake
<1> QED
  BY <1>9, <1>10, <1>11, <1>12, <1>13 DEF Core

(* Steps that move no event.                                                *)
LEMMA StillStep ==
    ASSUME DeliveryInv, retry # <<>> => polling', consent' = consent \/ consent' = "granted",
           consent' \in {"pending", "granted", "denied"},
           decisions' \in 0..MaxDecisions, crashes' = crashes,
           UNCHANGED <<alive, buffer, flushTimer, retry, sends, mirror, minted, fate, posts, forsworn, leaked>>
    PROVE  Core'
<1>0. Typed /\ Placed /\ MirrorSound /\ Budgeted /\ QueuesAwake
  BY DEF DeliveryInv, Core
<1>1. InSends' = InSends /\ InRetry' = InRetry /\ Mirrored' = Mirrored
  BY DEF InSends, InRetry, EventsOf, Mirrored
<1>2. Typed'
  BY <1>0 DEF Typed
<1>3. Placed'
  BY <1>0, <1>1 DEF Placed
<1>4. MirrorSound'
  BY <1>0, <1>1 DEF MirrorSound, DurableOnlyWhenGranted
<1>5. Budgeted' /\ QueuesAwake'
  BY <1>0 DEF Budgeted, QueuesAwake
<1> QED
  BY <1>2, <1>3, <1>4, <1>5 DEF Core

LEMMA PollerStep ==
    ASSUME DeliveryInv,
           \/ \E due \in SUBSET (DOMAIN retry) : Poll(due) \/ NetworkUp(due)
           \/ PollOffline \/ NetworkDown \/ CoolOffEnds \/ Show \/ OptIn \/ UNCHANGED vars
    PROVE  Core'
<1>0. Typed /\ QueuesAwake
  BY DEF DeliveryInv, Core
<1> USE DEF Asleep, queues, connection, unloading, durable, bounds
<1>1. ASSUME NEW due \in SUBSET (DOMAIN retry), Poll(due) PROVE Core'
  <2>1. retry' # <<>> => polling'
    <3>1. polling' = (retry' # <<>>)
      BY <1>1 DEF Poll
    <3> QED
      BY Zenon, <3>1
  <2> QED
    BY <1>1, <2>1, FlushDueStep DEF Poll
<1>2. ASSUME NEW due \in SUBSET (DOMAIN retry), NetworkUp(due) PROVE Core'
  <2>1. CASE alive /\ bound
    <3>1. FlushDue(due) /\ polling' = polling
      BY <1>2, <2>1 DEF NetworkUp
    <3>2. retry' # <<>> => polling'
      <4>1. CASE retry = <<>>
        <5>1. retry \in Seq(Held) /\ ApartQueue(retry)
          BY <1>0 DEF Typed, DeliveryInv, Core, Placed
        <5>2. retry' \in Seq(Held) /\ Range(retry') = {}
          BY <3>1, <4>1, <5>1, RestShape DEF FlushDue
        <5>3. retry' # <<>> => retry'[1] \in Range(retry')
          BY <5>2 DEF Range
        <5> QED
          BY <5>2, <5>3
      <4>2. CASE retry # <<>>
        BY <1>0, <3>1, <4>2 DEF QueuesAwake
      <4> QED
        BY <4>1, <4>2
    <3> QED
      BY <1>2, <2>1, <3>1, <3>2, FlushDueStep DEF NetworkUp
  <2>2. CASE ~ (alive /\ bound)
    BY <1>0, <1>2, <2>2, StillStep DEF NetworkUp, Typed, QueuesAwake
  <2> QED
    BY <2>1, <2>2
<1>3. CASE PollOffline
  BY <1>0, <1>3, StillStep DEF PollOffline, Typed, QueuesAwake
<1>4. CASE NetworkDown \/ CoolOffEnds \/ Show \/ UNCHANGED vars
  BY <1>0, <1>4, StillStep DEF NetworkDown, CoolOffEnds, Show, vars, Typed, QueuesAwake
<1>5. CASE OptIn
  <2>1. decisions' \in 0..MaxDecisions
    BY <1>0, <1>5, Bounds DEF OptIn, Typed
  <2> QED
    BY <1>0, <1>5, <2>1, StillStep DEF OptIn, QueuesAwake
<1> QED
  BY <1>1, <1>2, <1>3, <1>4, <1>5

(* A beacon empties both queues; of the buffer and the minted pageleave,    *)
(* those of out go the asynchronous way.                                    *)
LEMMA BeaconStep ==
    ASSUME DeliveryInv, alive, NEW new \in SUBSET Event, NEW out \in SUBSET Event, NEW events,
           Beacon(events, out \cap new),
           \/ new = {} /\ minted' = minted
           \/ new = {minted + 1} /\ minted' = minted + 1,
           events = (buffer \cup new) \ out, out \subseteq buffer \cup new,
           sends' \subseteq SendRecord, Apart(sends'), InSends' = InSends \cup out,
           \A s \in sends' : \A x \in s.batch :
              posts[x] <= s.attempt + IF s.phase = "posted" THEN 1 ELSE 0,
           UNCHANGED <<alive, durable, bounds, posts, forsworn>>
    PROVE  Core'
<1>0. Typed /\ Placed /\ MirrorSound /\ Budgeted /\ QueuesAwake
  BY DEF DeliveryInv, Core
<1>1. /\ buffer' = {} /\ flushTimer' = FALSE /\ retry' = <<>> /\ polling' = FALSE
      /\ leaked' = leaked \cup ((events \cup InRetry) \cap forsworn)
      /\ fate' = [e \in Event |-> IF e \in events \cup InRetry THEN "beaconed"
                                  ELSE IF e \in out \cap new THEN "held" ELSE fate[e]]
  BY DEF Beacon, InRetry
<1>2. /\ minted \in Nat /\ minted' \in 0..MaxEvents /\ minted <= minted' /\ 1..minted \subseteq 1..minted'
      /\ \A x \in Event : x \in new <=> x > minted /\ ~ (x > minted')
  <2>1. minted \in Nat /\ minted <= MaxEvents /\ Event = 1..MaxEvents
    BY <1>0, Bounds DEF Typed, Event
  <2>2. CASE new = {} /\ minted' = minted
    BY <2>1, <2>2, Bounds
  <2>3. CASE new = {minted + 1} /\ minted' = minted + 1
    BY <2>1, <2>3, Bounds
  <2> QED
    BY <2>2, <2>3
<1>3. /\ fate' \in [Event -> Fates]
      /\ \A x \in Event : fate'[x] = IF x \in events \cup InRetry THEN "beaconed"
                                     ELSE IF x \in out \cap new THEN "held" ELSE fate[x]
  BY <1>0, <1>1 DEF Typed, Fates
<1>4. InRetry' = {} /\ InRetry \subseteq Event /\ buffer \subseteq Event /\ InSends \subseteq Event
  BY <1>0, <1>1, PlacesAreEvents DEF InRetry, EventsOf, Range
<1>5. Mirrored' = Mirrored /\ consent' = consent /\ mirror' = mirror
      /\ decisions' = decisions /\ crashes' = crashes
  BY DEF Mirrored, durable, bounds
<1>6. \A x \in new : fate[x] = "unborn" /\ x \notin buffer \cup InSends \cup InRetry
  BY <1>0, <1>2 DEF Placed
<1>7. Typed'
  <2>1. leaked' \subseteq 1..minted' /\ forsworn' \subseteq 1..minted'
    <3>1. leaked \subseteq 1..minted /\ forsworn \subseteq 1..minted /\ forsworn' = forsworn
      BY <1>0 DEF Typed
    <3>2. leaked' \subseteq leaked \cup forsworn
      BY <1>1
    <3> QED
      BY <1>2, <3>1, <3>2
  <2>2. retry' \in Seq(Held)
    BY <1>1
  <2> QED
    BY <1>0, <1>1, <1>2, <1>3, <1>5, <2>1, <2>2, NoneBuffered DEF Typed
<1>8. Placed'
  <2>1. \A x \in Event : fate'[x] = "held" <=> x \in InSends \cup out
    <3> SUFFICES ASSUME NEW x \in Event PROVE fate'[x] = "held" <=> x \in InSends \cup out
      OBVIOUS
    <3>1. CASE x \in events \cup InRetry
      BY <1>0, <1>3, <1>6, <3>1 DEF Placed
    <3>2. CASE x \notin events \cup InRetry
      BY <1>0, <1>3, <1>6, <3>2 DEF Placed
    <3> QED
      BY <3>1, <3>2
  <2>2. \A x \in Event : fate'[x] = "unborn" <=> x > minted'
    <3> SUFFICES ASSUME NEW x \in Event PROVE fate'[x] = "unborn" <=> x > minted'
      OBVIOUS
    <3>1. x \in new => x \in events \/ x \in out \cap new
      OBVIOUS
    <3>2. x > minted' => x > minted
      BY <1>2, Bounds DEF Event
    <3>3. x \in events => x \in new \/ x \in buffer
      OBVIOUS
    <3> QED
      BY <1>0, <1>2, <1>3, <3>1, <3>2, <3>3 DEF Placed
  <2> QED
    BY <1>0, <1>1, <1>4, <2>1, <2>2 DEF Placed, ApartQueue
<1>9. MirrorSound'
  <2>1. \A x \in Mirrored : x \in Event /\ fate'[x] \notin Settled \cup {"unborn"}
    BY <1>0, <1>3 DEF MirrorSound, Settled
  <2> QED
    BY <1>0, <1>5, <2>1 DEF MirrorSound, DurableOnlyWhenGranted
<1>10. Budgeted'
  <2>1. \A x \in Event : x > minted' => x > minted
    BY <1>2, Bounds DEF Event
  <2> QED
    BY <1>0, <1>1, <2>1 DEF Budgeted
<1>11. QueuesAwake'
  BY <1>1 DEF QueuesAwake
<1> QED
  BY <1>7, <1>8, <1>9, <1>10, <1>11 DEF Core

LEMMA HideSteps ==
    ASSUME DeliveryInv, Hide \/ HideWithPageleave
    PROVE  Core'
<1>0. Typed /\ Placed /\ Budgeted
  BY DEF DeliveryInv, Core
<1>1. CASE Hide
  <2>1. Beacon(buffer, {} \cap {}) /\ sends' = sends /\ InSends' = InSends /\ minted' = minted
    BY <1>1 DEF Hide, InSends
  <2>2. {} \in SUBSET Event /\ buffer = (buffer \cup {}) \ {} /\ {} \subseteq buffer \cup {}
        /\ InSends' = InSends \cup {} /\ alive
        /\ UNCHANGED <<alive, durable, bounds, posts, forsworn>>
    BY <1>1, <2>1 DEF Hide, HideStep
  <2>3. sends' \subseteq SendRecord /\ Apart(sends') /\
        \A s \in sends' : \A x \in s.batch : posts[x] <= s.attempt + IF s.phase = "posted" THEN 1 ELSE 0
    BY <1>0, <2>1 DEF Typed, Placed, Budgeted
  <2> QED
    BY <2>1, <2>2, <2>3, BeaconStep
<1>2. CASE HideWithPageleave
  <2> DEFINE e == minted + 1
  <2>1. /\ ~Suppressed /\ minted' = e /\ minted < MaxEvents /\ alive
        /\ UNCHANGED <<alive, durable, bounds, posts, forsworn>>
    BY <1>2 DEF HideWithPageleave, HideStep, Mint
  <2>2. e \in Event /\ e > minted
    BY <1>0, <2>1, Bounds DEF Typed, Event
  <2>3. fate[e] = "unborn" /\ posts[e] = 0 /\ e \notin buffer \cup InSends \cup InRetry
    BY <1>0, <2>2 DEF Placed, Budgeted
  <2>4. buffer \in SUBSET Event
    BY <1>0 DEF Typed
  <2>5. CASE Cardinality(buffer) + 1 >= flushAt
    <3>1. Begin(Fresh(buffer \cup {e})) /\ Beacon({}, {e})
      BY <1>2, <2>5 DEF HideWithPageleave
    <3> HIDE DEF e
    <3>2. buffer \cup {e} \in SUBSET Event /\ (buffer \cup {e}) \cap InSends = {}
          /\ \A x \in buffer \cup {e} : posts[x] = 0
      BY <1>0, <2>2, <2>3, <2>4 DEF Placed, Budgeted
    <3>3. /\ sends' \subseteq SendRecord /\ Apart(sends') /\ InSends' = InSends \cup (buffer \cup {e})
          /\ \A s \in sends' : \A x \in s.batch :
                posts[x] <= s.attempt + IF s.phase = "posted" THEN 1 ELSE 0
      BY <1>0, <2>1, <3>1, <3>2, FreshHandover
    <3>4. {e} = (buffer \cup {e}) \cap {e} /\ {} = (buffer \cup {e}) \ (buffer \cup {e})
      OBVIOUS
    <3>5. Beacon((buffer \cup {e}) \ (buffer \cup {e}), (buffer \cup {e}) \cap {e})
      BY <3>1, <3>4
    <3>6. {e} \in SUBSET Event
      BY <2>2
    <3> QED
      BY <2>1, <3>2, <3>3, <3>5, <3>6, BeaconStep DEF e
  <2>6. CASE ~ (Cardinality(buffer) + 1 >= flushAt)
    <3>1. sends' = sends /\ Beacon(buffer \cup {e}, {})
      BY <1>2, <2>6 DEF HideWithPageleave
    <3>2. InSends' = InSends
      BY <3>1 DEF InSends
    <3> HIDE DEF e
    <3>3. /\ {} = {} \cap {e} /\ buffer \cup {e} = (buffer \cup {e}) \ {} /\ InSends' = InSends \cup {}
          /\ {} \subseteq buffer \cup {e} /\ {} \in SUBSET Event /\ {e} \in SUBSET Event
      BY <2>2, <3>2
    <3>4. sends' \subseteq SendRecord /\ Apart(sends') /\
          \A s \in sends' : \A x \in s.batch : posts[x] <= s.attempt + IF s.phase = "posted" THEN 1 ELSE 0
      BY <1>0, <3>1 DEF Typed, Placed, Budgeted
    <3>5. Beacon((buffer \cup {e}) \ {}, {} \cap {e})
      BY <3>1, <3>3
    <3> QED
      BY <2>1, <3>3, <3>4, <3>5, BeaconStep DEF e
  <2> QED
    BY <2>5, <2>6
<1> QED
  BY <1>1, <1>2

LEMMA OptOutStep ==
    ASSUME DeliveryInv, OptOut
    PROVE  Core'
<1>0. Typed /\ Placed /\ MirrorSound /\ Budgeted /\ QueuesAwake
  BY DEF DeliveryInv, Core
<1>1. /\ buffer' = {} /\ mirror' = <<>> /\ retry' = <<>> /\ consent' = "denied"
      /\ fate' = Decided(buffer \cup InRetry, "denied") /\ forsworn' = 1..minted
      /\ decisions' = decisions + 1 /\ decisions < MaxDecisions /\ alive
      /\ UNCHANGED <<alive, sends, crashes, minted, posts, leaked>>
  BY DEF OptOut, InRetry
<1>2. InSends' = InSends /\ InRetry' = {} /\ Mirrored' = {}
  BY <1>1 DEF InSends, InRetry, EventsOf, Mirrored, Range
<1>3. /\ fate' \in [Event -> Fates]
      /\ \A x \in Event : fate'[x] = IF x \in buffer \cup InRetry THEN "denied" ELSE fate[x]
  BY <1>0, <1>1 DEF Typed, Decided, Fates
<1>4. decisions' \in 0..MaxDecisions
  BY <1>0, <1>1, Bounds DEF Typed
<1>5. mirror' \in Seq(Batch) /\ Len(mirror') = 0 /\ retry' \in Seq(Held) /\ 0 <= maxBatches
  BY <1>1, Bounds
<1>6. Typed'
  BY <1>0, <1>1, <1>3, <1>4, <1>5, NoneBuffered DEF Typed
<1>7. Placed'
  <2>1. \A x \in Event : /\ fate'[x] = "held" <=> x \in InSends
                         /\ fate'[x] = "unborn" <=> x > minted
    <3> SUFFICES ASSUME NEW x \in Event
                 PROVE  (fate'[x] = "held" <=> x \in InSends) /\ (fate'[x] = "unborn" <=> x > minted)
      OBVIOUS
    <3>1. CASE x \in buffer \cup InRetry
      BY <1>0, <1>3, <3>1 DEF Placed
    <3>2. CASE x \notin buffer \cup InRetry
      BY <1>0, <1>3, <3>2 DEF Placed
    <3> QED
      BY <3>1, <3>2
  <2> QED
    <3>1. Apart(sends') /\ ApartQueue(retry') /\ alive' /\ minted' = minted
      BY <1>0, <1>1 DEF Placed, ApartQueue
    <3> QED
      BY <1>1, <1>2, <2>1, <3>1 DEF Placed
<1>8. MirrorSound'
  BY <1>1, <1>2 DEF MirrorSound, DurableOnlyWhenGranted, ApartMirror
<1>9. Budgeted' /\ QueuesAwake'
  BY <1>0, <1>1 DEF Budgeted, QueuesAwake
<1> QED
  BY <1>6, <1>7, <1>8, <1>9 DEF Core

LEMMA CrashStep ==
    ASSUME DeliveryInv, Crash
    PROVE  Core'
<1>0. Typed /\ Placed /\ MirrorSound /\ Budgeted /\ QueuesAwake
  BY DEF DeliveryInv, Core
<1>1. /\ buffer' = {} /\ retry' = <<>> /\ sends' = {} /\ alive' = FALSE
      /\ crashes' = crashes + 1 /\ crashes < MaxCrashes
      /\ fate' = [e \in Event |-> IF fate[e] # "held" THEN fate[e]
                                  ELSE IF e \in Mirrored THEN "mirrored" ELSE "lost"]
      /\ UNCHANGED <<mirror, consent, decisions, minted, posts, forsworn, leaked>>
  BY DEF Crash, durable
<1>2. InSends' = {} /\ InRetry' = {} /\ Mirrored' = Mirrored
  BY <1>1 DEF InSends, InRetry, EventsOf, Mirrored, Range
<1>3. /\ fate' \in [Event -> Fates]
      /\ \A x \in Event : fate'[x] = IF fate[x] # "held" THEN fate[x]
                                     ELSE IF x \in Mirrored THEN "mirrored" ELSE "lost"
  BY <1>0, <1>1 DEF Typed, Fates
<1>4. crashes' \in 0..MaxCrashes
  BY <1>0, <1>1, Bounds DEF Typed
<1>5. retry' \in Seq(Held) /\ sends' \subseteq SendRecord
  BY <1>1
<1>6. Typed'
  BY <1>0, <1>1, <1>3, <1>4, <1>5, NoneBuffered DEF Typed
<1>7. Placed'
  BY <1>0, <1>1, <1>2, <1>3 DEF Placed, ApartQueue, Apart
<1>8. MirrorSound'
  BY <1>0, <1>1, <1>2, <1>3 DEF MirrorSound, DurableOnlyWhenGranted, Settled
<1>9. Budgeted' /\ QueuesAwake'
  BY <1>0, <1>1 DEF Budgeted, QueuesAwake
<1> QED
  BY <1>6, <1>7, <1>8, <1>9 DEF Core

(* The mirror's batches become the retry queue of the new page.             *)
LEMMA LoadStep ==
    ASSUME DeliveryInv, Load
    PROVE  Core'
<1> DEFINE rehydrated == [i \in DOMAIN mirror |-> [batch |-> mirror[i], attempt |-> 1]]
<1>0. Typed /\ Placed /\ MirrorSound /\ Budgeted /\ QueuesAwake
  BY DEF DeliveryInv, Core
<1>1. /\ ~alive /\ retry' = (IF consent # "granted" THEN <<>> ELSE rehydrated)
      /\ fate' = Decided(Mirrored, IF consent # "granted" THEN "denied" ELSE "held")
      /\ mirror' = <<>> /\ posts' = [e \in Event |-> 0]
      /\ UNCHANGED <<buffer, flushTimer, sends, consent, bounds, minted, forsworn, leaked>>
      /\ alive' = TRUE /\ polling' = (retry' # <<>>)
  BY DEF Load
<1>2. /\ retry' \in Seq(Held) /\ ApartQueue(retry') /\ InRetry' = Mirrored
      /\ \A i \in DOMAIN retry' : retry'[i].attempt = 1
  <2>1. CASE consent # "granted"
    <3>1. mirror = <<>> /\ retry' = <<>>
      BY <1>0, <1>1, <2>1 DEF MirrorSound, DurableOnlyWhenGranted
    <3> QED
      BY <3>1 DEF ApartQueue, InRetry, EventsOf, Range, Mirrored
  <2>2. CASE consent = "granted"
    <3>1. /\ DOMAIN mirror = 1..Len(mirror) /\ Len(mirror) \in Nat
          /\ \A i \in DOMAIN mirror : mirror[i] \in Batch
      BY <1>0 DEF Typed
    <3>2. retry' = rehydrated
      BY <1>1, <2>2
    <3>3. \A i \in DOMAIN mirror : rehydrated[i] \in Held
      BY <3>1, Bounds DEF Held
    <3>4. rehydrated \in Seq(Held) /\ DOMAIN rehydrated = DOMAIN mirror
          /\ \A i \in DOMAIN mirror : rehydrated[i].batch = mirror[i] /\ rehydrated[i].attempt = 1
      BY <3>1, <3>3
    <3> HIDE DEF rehydrated
    <3>5. ApartQueue(rehydrated)
      BY <1>0, <3>4 DEF MirrorSound, ApartMirror, ApartQueue
    <3>6. EventsOf(Range(rehydrated)) = Mirrored
      BY <3>4 DEF EventsOf, Range, Mirrored
    <3> QED
      BY <3>2, <3>4, <3>5, <3>6 DEF InRetry
  <2> QED
    BY <2>1, <2>2
<1>3. /\ fate' \in [Event -> Fates]
      /\ \A x \in Event : fate'[x] = IF x \in Mirrored THEN "held" ELSE fate[x]
      /\ Mirrored \subseteq Event
  <2>1. Mirrored = {} \/ consent = "granted"
    BY <1>0 DEF MirrorSound, DurableOnlyWhenGranted, Mirrored, Range
  <2> QED
    BY <1>0, <1>1, <2>1 DEF Typed, Decided, Fates, MirrorSound
<1>4. InSends' = {} /\ Mirrored' = {} /\ buffer' = {} /\ sends' = {}
  BY <1>0, <1>1 DEF Placed, InSends, Mirrored, EventsOf, Range
<1>5. posts' \in [Event -> Nat] /\ \A x \in Event : posts'[x] = 0
  BY <1>1
<1>6. mirror' \in Seq(Batch) /\ Len(mirror') = 0 /\ 0 <= maxBatches
  BY <1>1, Bounds
<1>7. Typed'
  BY <1>0, <1>1, <1>2, <1>3, <1>5, <1>6 DEF Typed, bounds
<1>8. Placed'
  <2>1. \A x \in Event : /\ fate'[x] = "held" <=> x \in Mirrored
                         /\ fate'[x] = "unborn" <=> x > minted
    <3> SUFFICES ASSUME NEW x \in Event
                 PROVE  (fate'[x] = "held" <=> x \in Mirrored) /\ (fate'[x] = "unborn" <=> x > minted)
      OBVIOUS
    <3>1. fate[x] # "held"
      BY <1>0, <1>1 DEF Placed, InSends, InRetry, EventsOf, Range
    <3>2. CASE x \in Mirrored
      BY <1>0, <1>3, <3>2 DEF Placed, MirrorSound
    <3>3. CASE x \notin Mirrored
      BY <1>0, <1>3, <3>1, <3>3 DEF Placed
    <3> QED
      BY <3>2, <3>3
  <2> QED
    BY <1>0, <1>1, <1>2, <1>4, <2>1 DEF Placed, Apart
<1>9. MirrorSound'
  BY <1>1, <1>4 DEF MirrorSound, DurableOnlyWhenGranted, ApartMirror
<1>10. Budgeted'
  <2>1. \A i \in DOMAIN retry' : retry'[i].batch \subseteq Event
    BY <1>2, <1>3 DEF InRetry, EventsOf, Range
  <2> QED
    BY <1>2, <1>4, <1>5, <2>1, Bounds DEF Budgeted
<1>11. QueuesAwake'
  <2>1. retry' # <<>> => polling'
    BY Zenon, <1>1
  <2> QED
    BY <1>4, <2>1 DEF QueuesAwake
<1> QED
  BY <1>7, <1>8, <1>9, <1>10, <1>11 DEF Core

LEMMA DeliveryStep == DeliveryInv /\ [Next]_vars => DeliveryInv'
<1> SUFFICES ASSUME DeliveryInv, [Next]_vars PROVE Core'
  BY FlagsStep DEF DeliveryInv
<1>1. CASE Capture
  BY <1>1, CaptureStep
<1>2. CASE FlushTimerFires \/ Flush \/ Shutdown
  BY <1>2, DrainedStep DEF FlushTimerFires, Flush, Shutdown
<1>3. ASSUME NEW s \in sends,
             \/ Rehold(s) \/ Encoded(s) \/ BodyUnreadable(s)
             \/ \E status \in Statuses, limited \in BOOLEAN : Answered(s, status, limited)
      PROVE  Core'
  BY <1>3, SendStep
<1>4. CASE \/ \E due \in SUBSET (DOMAIN retry) : Poll(due) \/ NetworkUp(due)
           \/ PollOffline \/ NetworkDown \/ CoolOffEnds \/ Show \/ OptIn \/ UNCHANGED vars
  BY <1>4, PollerStep
<1>5. CASE Hide \/ HideWithPageleave
  BY <1>5, HideSteps
<1>6. CASE OptOut \/ Crash \/ Load
  BY <1>6, OptOutStep, CrashStep, LoadStep
<1> QED
  BY <1>1, <1>2, <1>3, <1>4, <1>5, <1>6 DEF Next

---------------------------------------------------------------------------
(* DeliveryInv holds of every reachable state.                              *)
THEOREM QueuesInvariant == Spec => []DeliveryInv
  BY DeliveryInit, DeliveryStep, PTL DEF Spec

(* BrowserDelivery!TypeOK.                                                  *)
THEOREM QueuesTypes == Spec => []TypeOK
<1>1. DeliveryInv => TypeOK
  <2> SUFFICES ASSUME DeliveryInv PROVE TypeOK
    OBVIOUS
  <2>1. Flags /\ Typed
    BY DEF DeliveryInv, Core
  <2>2. {alive, flushTimer, polling, online, bound, coolingOff, listening, unloadDrained, netUp}
           \subseteq BOOLEAN
    BY Zenon, <2>1 DEF Flags
  <2>3. Range(retry) \subseteq Held /\ Range(mirror) \subseteq Batch
    BY <2>1 DEF Typed, Range
  <2>4. \A s \in sends : /\ [batch |-> s.batch, attempt |-> s.attempt] \in Held
                         /\ s.phase \in {"reheld", "encoding", "posted"}
    BY <2>1 DEF Typed, SendRecord, Held, Phases
  <2>5. {forsworn, leaked} \subseteq SUBSET (1..minted)
    BY <2>1 DEF Typed
  <2> QED
    BY <2>1, <2>2, <2>3, <2>4, <2>5 DEF Typed, TypeOK
<1> QED
  BY <1>1, QueuesInvariant, PTL

LEMMA HeldCounted == DeliveryInv => HeldOnce
<1> SUFFICES ASSUME DeliveryInv, NEW e \in Event
             PROVE  Copies(e) = IF fate[e] = "held" THEN 1 ELSE 0
  BY DEF HeldOnce
<1>0. Typed /\ Placed
  BY DEF DeliveryInv, Core
<1>1. ASSUME NEW S, NEW P, P <=> S # {}, \A x, y \in S : x = y
      PROVE  Cardinality(S) = IF P THEN 1 ELSE 0
  <2>1. CASE S = {}
    BY <1>1, <2>1, FS_EmptySet
  <2>2. CASE S # {}
    <3>1. PICK x \in S : TRUE
      BY <2>2
    <3>2. S = {x}
      BY <1>1, <3>1
    <3> QED
      BY <1>1, <2>2, <3>2, FS_Singleton
  <2> QED
    BY <2>1, <2>2
<1>2. Cardinality({p \in {"buffer"} : e \in buffer}) = IF e \in buffer THEN 1 ELSE 0
  <2> DEFINE S == {p \in {"buffer"} : e \in buffer}
  <2>1. (e \in buffer <=> S # {}) /\ \A x, y \in S : x = y
    OBVIOUS
  <2> QED
    BY <1>1, <2>1
<1>3. Cardinality({s \in sends : e \in s.batch}) = IF e \in InSends THEN 1 ELSE 0
  <2> DEFINE S == {s \in sends : e \in s.batch}
  <2>1. (e \in InSends <=> S # {}) /\ \A x, y \in S : x = y
    BY <1>0 DEF InSends, EventsOf, Placed, Apart
  <2> HIDE DEF S
  <2>2. Cardinality(S) = IF e \in InSends THEN 1 ELSE 0
    BY <1>1, <2>1
  <2> QED
    BY <2>2 DEF S
<1>4. Cardinality({i \in DOMAIN retry : e \in retry[i].batch}) = IF e \in InRetry THEN 1 ELSE 0
  <2> DEFINE S == {i \in DOMAIN retry : e \in retry[i].batch}
  <2>1. (e \in InRetry <=> S # {}) /\ \A x, y \in S : x = y
    BY <1>0 DEF InRetry, EventsOf, Range, Placed, ApartQueue
  <2> HIDE DEF S
  <2>2. Cardinality(S) = IF e \in InRetry THEN 1 ELSE 0
    BY <1>1, <2>1
  <2> QED
    BY <2>2 DEF S
<1>5. /\ ~ (e \in buffer /\ e \in InSends) /\ ~ (e \in buffer /\ e \in InRetry)
      /\ ~ (e \in InSends /\ e \in InRetry)
      /\ fate[e] = "held" <=> e \in buffer \/ e \in InSends \/ e \in InRetry
  BY <1>0 DEF Placed
<1> QED
  BY <1>2, <1>3, <1>4, <1>5 DEF Copies

(* An event the page owes is in one place, a decided one in none, for every *)
(* interleaving of captures, sends, retries, polls, beacons and reloads.    *)
THEOREM EventsHeldOnce == Spec => []HeldOnce
  BY HeldCounted, QueuesInvariant, PTL

(* No queue that holds events is without its timer, whatever tore it down.  *)
THEOREM QueuesNeverSleep == Spec => []QueuesAwake
<1>1. DeliveryInv => QueuesAwake
  BY DEF DeliveryInv, Core
<1> QED
  BY <1>1, QueuesInvariant, PTL

(* No client that has not been granted has events in durable storage.       *)
THEOREM MirrorOnlyWhenGranted == Spec => []DurableOnlyWhenGranted
<1>1. DeliveryInv => DurableOnlyWhenGranted
  BY DEF DeliveryInv, Core, MirrorSound
<1> QED
  BY <1>1, QueuesInvariant, PTL

(* No page asks for an event oftener than once more than the retry budget,  *)
(* cool-offs, reconnections and reloads included.                           *)
THEOREM RequestsWithinBudget == Spec => []RetryBudget
<1>1. DeliveryInv => RetryBudget
  BY DEF DeliveryInv, Core, Budgeted, RetryBudget
<1> QED
  BY <1>1, QueuesInvariant, PTL

LEMMA DecisionsKept ==
    ASSUME DeliveryInv, [Next]_vars, NEW e \in Event, fate[e] \in Settled
    PROVE  fate'[e] = fate[e]
<1>0. Typed /\ Placed /\ MirrorSound
  BY DEF DeliveryInv, Core
<1>1. /\ fate[e] # "held" /\ fate[e] # "unborn"
      /\ e \notin buffer /\ e \notin InSends /\ e \notin InRetry /\ e \notin Mirrored
      /\ e # minted + 1
  <2>1. fate[e] # "held" /\ fate[e] # "unborn"
    BY DEF Settled
  <2>2. ~ (e > minted)
    BY <1>0, <2>1 DEF Placed
  <2>3. minted \in Nat /\ e # minted + 1
    BY <1>0, <2>2, Bounds DEF Typed
  <2> QED
    BY <1>0, <2>1, <2>3 DEF Placed, MirrorSound
<1>2. ASSUME NEW S, NEW verdict, e \notin S PROVE Decided(S, verdict)[e] = fate[e]
  BY <1>2 DEF Decided
<1>3. CASE Capture
  BY <1>1, <1>2, <1>3 DEF Capture
<1>4. CASE FlushTimerFires \/ Flush \/ Shutdown
  <2>1. fate' = FateAfterBegin(Fresh(buffer)) /\ EventsOf(Fresh(buffer)) = buffer
    BY <1>0, <1>4, FreshHeld DEF FlushTimerFires, Flush, Shutdown, Drained, Typed
  <2> QED
    BY <1>1, <1>2, <2>1 DEF FateAfterBegin
<1>5. ASSUME NEW s \in sends,
             \/ Rehold(s) \/ Encoded(s) \/ BodyUnreadable(s)
             \/ \E status \in Statuses, limited \in BOOLEAN : Answered(s, status, limited)
      PROVE  fate'[e] = fate[e]
  <2>1. e \notin s.batch
    BY <1>1 DEF InSends, EventsOf
  <2> QED
    BY <1>2, <1>5, <2>1 DEF Rehold, Encoded, BodyUnreadable, Answered, Settle
<1>6. ASSUME NEW due \in SUBSET (DOMAIN retry), Poll(due) \/ NetworkUp(due) PROVE fate'[e] = fate[e]
  <2>1. e \notin EventsOf(Due(due))
    BY <1>1 DEF InRetry, EventsOf, Due, Range
  <2>2. fate' = FateAfterBegin(Due(due)) \/ fate' = fate
    BY <1>6 DEF Poll, NetworkUp, FlushDue
  <2> QED
    BY <1>2, <2>1, <2>2 DEF FateAfterBegin
<1>7. CASE PollOffline \/ NetworkDown \/ CoolOffEnds \/ Show \/ OptIn \/ UNCHANGED vars
  BY <1>7 DEF PollOffline, NetworkDown, CoolOffEnds, Show, OptIn, vars
<1>8. CASE Hide \/ HideWithPageleave
  BY <1>1, <1>8 DEF Hide, HideWithPageleave, Beacon, InRetry
<1>9. CASE OptOut
  BY <1>1, <1>2, <1>9 DEF OptOut, InRetry
<1>10. CASE Crash \/ Load
  BY <1>1, <1>2, <1>10 DEF Crash, Load
<1> QED
  BY <1>3, <1>4, <1>5, <1>6, <1>7, <1>8, <1>9, <1>10 DEF Next

(* Delivered, rejected, given up or denied, an event stays so: no step of   *)
(* any page, however it was reloaded, takes the decision back.              *)
THEOREM DecisionsStayFinal == Spec => DecisionsAreFinal
<1>1. DeliveryInv /\ [Next]_vars => [\A e \in Event : fate[e] \in Settled => fate'[e] = fate[e]]_vars
  BY DecisionsKept
<1> QED
  BY <1>1, QueuesInvariant, PTL DEF Spec, DecisionsAreFinal
=============================================================================
