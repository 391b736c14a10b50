--------------------------- MODULE LocalFlagsProofs ---------------------------
(* Proofs about the server's flag client, for any configurations, contexts,  *)
(* definitions, callers and listeners.                                       *)
EXTENDS LocalFlags, SequenceTheorems, FiniteSetTheorems, WellFoundedInduction, TLAPS

(* The poller's variables, and what may have been read: a client without    *)
(* local evaluation has no definitions, nor has one before its first load.  *)
Polled ==
    /\ published \in Version /\ snapshot \in Version
    /\ seeded \in BOOLEAN /\ started \in BOOLEAN /\ stopped \in BOOLEAN /\ timer \in BOOLEAN
    /\ loadedSuccessfullyOnce \in BOOLEAN /\ missedTick \in BOOLEAN
    /\ loads \subseteq Version \cup {Asked, Failed}
    /\ setup \in DOMAIN Configurations /\ client \in {"noop", "refused", "adapter"}
    /\ seeded = (config.source = "static")
    /\ ~loadedSuccessfullyOnce => snapshot = 0
    /\ client = "adapter" /\ ~buildLocalCapability => snapshot = 0

(* Before the first set every listener waits and has heard nothing; after   *)
(* it, those that still wait are behind one that threw.                     *)
Fired ==
    /\ listeners \in Seq(Listeners)
    /\ fired \in BOOLEAN
    /\ heard = [l \in Listeners |-> heard[l]]
    /\ client # "adapter" => ~fired /\ listeners = <<>>
    /\ client = "adapter" /\ ~fired => \A l \in Listeners : heard[l] = <<>>
    /\ EachListenerOnce

(* The keys a call is to answer for, by the definitions that it read.       *)
WantedBy(context, version) ==
    LET keys == Contexts[context].keys
        flags == SnapshotOf(version).flags
    IN  {flags[i].key : i \in {j \in DOMAIN flags : keys = AllFlags \/ flags[j].key \in keys}}

Wanted(call) == WantedBy(call.context, call.version)

(* What is asked of the server completes what was kept.                     *)
AsksFor(call, key) == call.asked = AllFlags \/ key \in call.asked

AskedForTheRest(call) ==
    /\ call.set.degraded /\ call.set.flags = call.kept
    /\ \A key \in Wanted(call) : key \in DOMAIN call.kept \/ AsksFor(call, key)
    /\ ~(config.onlyLocally /\ local)

(* Of an undegraded set, what the property says, and where its flags are of.*)
Complete(call) ==
    ~call.set.degraded =>
        /\ \A key \in Wanted(call) :
              key \in DOMAIN call.set.flags \/ (AsksFor(call, key) /\ key \notin DOMAIN call.answer)
        /\ call.set.flags = call.answer @@ call.kept
        /\ call.asked # {} => call.answered
        /\ config.onlyLocally /\ local => loadedSuccessfullyOnce /\ call.asked = {}

Sound(call) ==
    /\ call.phase \in Phases /\ call.version \in Version
    /\ client # "adapter" => call.phase = "settled"
    /\ call.set.degraded \in BOOLEAN
    /\ call.set.reason \in {"resolved", "unresolved", "stale"}
    /\ call.phase = "asked" => AskedForTheRest(call)
    /\ call.phase # "asked" => Complete(call)

Answering ==
    /\ calls = [c \in Callers |-> calls[c]]
    /\ \A c \in Callers : calls[c] # Idle => Sound(calls[c])

FlagsInv == Polled /\ Fired /\ Answering

---------------------------------------------------------------------------
LEMMA LeastNatural ==
    ASSUME NEW T \in SUBSET Nat, T # {}
    PROVE  \E n \in T : \A m \in T : n <= m
<1>1. PICK n \in T : \A m \in T : ~ (<<m, n>> \in OpToRel(<, Nat))
  BY NatLessThanWellFounded, WFMin
<1>2. ASSUME NEW m \in T PROVE n <= m
  <2>1. ~ (m < n)
    BY <1>1 DEF OpToRel
  <2> QED
    BY <2>1
<1> QED
  BY <1>2

(* A set of positions has a first.                                          *)
LEMMA HasFirst ==
    ASSUME NEW positions \in SUBSET Nat, positions # {}
    PROVE  First(positions) \in positions /\ \A j \in positions : First(positions) <= j
  BY LeastNatural DEF First

---------------------------------------------------------------------------
(* What a call is to answer for is what it was, as long as the client, its  *)
(* configuration and where its definitions come from are.                   *)
LEMMA SoundStays ==
    ASSUME UNCHANGED <<setup, client, seeded>>, loadedSuccessfullyOnce => loadedSuccessfullyOnce',
           calls' = [c \in Callers |-> calls'[c]],
           \A c \in Callers : calls'[c] # Idle => Sound(calls'[c])
    PROVE  Answering'
<1>1. config' = config /\ local' = local
  BY DEF config, local, buildLocalCapability
<1>2. ASSUME NEW c \in Callers, calls'[c] # Idle
      PROVE  Sound(calls[c])'
  <2>1. Sound(calls'[c])
    BY <1>2
  <2>2. Wanted(calls[c])' = Wanted(calls'[c])
    BY <1>1 DEF Wanted, WantedBy, SnapshotOf, EMPTY_SNAPSHOT
  <2>3. calls'[c].phase = "asked" => AskedForTheRest(calls[c])'
    BY <1>1, <2>1, <2>2 DEF Sound, AskedForTheRest
  <2>4. calls'[c].phase # "asked" => Complete(calls[c])'
    BY <1>1, <2>1, <2>2 DEF Sound, Complete
  <2> QED
    BY <2>1, <2>3, <2>4 DEF Sound
<1> QED
  BY <1>2 DEF Answering, Idle

LEMMA FlagsInitInv == FlagsInit => FlagsInv
<1> SUFFICES ASSUME FlagsInit PROVE FlagsInv
  OBVIOUS
<1>1. Init /\ setup \in DOMAIN Configurations /\ seeded = (config.source = "static")
      /\ client = createFlagClient /\ fired = FALSE /\ listeners = <<>>
  BY DEF FlagsInit
<1>2. 0 \in Version /\ 1 \in Version
  BY PollerAssumption DEF Version
<1>3. client = "adapter" /\ ~buildLocalCapability => ~seeded
  BY <1>1 DEF buildLocalCapability
<1>4. Polled
  BY <1>1, <1>2, <1>3 DEF Polled, Init, createFlagClient
<1>5. heard = [l \in Listeners |-> <<>>] /\ listeners \in Seq(Listeners)
  BY DEF FlagsInit
<1>6. Fired
  BY <1>1, <1>5 DEF Fired, EachListenerOnce
<1>7. Answering
  BY DEF FlagsInit, Answering
<1> QED
  BY <1>4, <1>6, <1>7 DEF FlagsInv

---------------------------------------------------------------------------
(* The poller reads newer definitions and fires nobody.                     *)
LEMMA PollStep == ASSUME FlagsInv, Poll PROVE FlagsInv'
<1>1. Polled /\ Fired /\ Answering /\ local /\ UNCHANGED flagVars /\ Next
  BY DEF FlagsInv, Poll
<1>2. UNCHANGED <<setup, client, seeded>> /\ (loadedSuccessfullyOnce => loadedSuccessfullyOnce')
  <2>1. UNCHANGED <<setup, client, seeded>>
    BY <1>1 DEF flagVars, Next, Publish, Start, TimerFires, Stop, ServerAnswers, LoadSettles
  <2>2. CASE LoadSettles
    BY <2>1, <2>2 DEF LoadSettles, Taken
  <2>3. CASE ~LoadSettles
    BY <1>1, <2>1, <2>3 DEF Next, Publish, Start, TimerFires, Stop, ServerAnswers
  <2> QED
    BY <2>2, <2>3
<1>3. client = "adapter" /\ buildLocalCapability
  BY <1>1 DEF local
<1>4. /\ published' \in Version /\ snapshot' \in Version
      /\ started' \in BOOLEAN /\ stopped' \in BOOLEAN /\ timer' \in BOOLEAN
      /\ loadedSuccessfullyOnce' \in BOOLEAN /\ missedTick' \in BOOLEAN
      /\ loads' \subseteq Version \cup {Asked, Failed}
      /\ ~loadedSuccessfullyOnce' => snapshot' = 0
  <2>1. CASE Publish
    BY <1>1, <2>1, PollerAssumption DEF Publish, Polled, Version
  <2>2. CASE Start \/ TimerFires
    <3>1. /\ timer' \in BOOLEAN /\ loads' \subseteq Version \cup {Asked, Failed}
          /\ UNCHANGED <<published, stopped, snapshot, loadedSuccessfullyOnce>>
      BY <1>1, <2>2 DEF Start, TimerFires, load, scheduleNext, Polled
    <3>2. started' \in BOOLEAN /\ missedTick' \in BOOLEAN
      BY <1>1, <2>2 DEF Start, TimerFires, Polled
    <3> QED
      BY <1>1, <3>1, <3>2 DEF Polled
  <2>3. CASE Stop
    BY <1>1, <2>3 DEF Stop, Polled
  <2>4. CASE ServerAnswers
    BY <1>1, <2>4 DEF ServerAnswers, Polled
  <2>5. CASE LoadSettles
    <3>1. PICK answer \in loads \ {Asked} : Taken(answer) /\ loads' = loads \ {answer}
      BY <2>5 DEF LoadSettles
    <3>2. answer = Failed \/ answer \in Version
      BY <1>1, <3>1 DEF Polled
    <3>3. snapshot' \in Version /\ loadedSuccessfullyOnce' \in BOOLEAN
          /\ (~loadedSuccessfullyOnce' => snapshot' = 0)
      BY <1>1, <3>1, <3>2 DEF Taken, Polled
    <3> QED
      BY <1>1, <2>5, <3>1, <3>3 DEF LoadSettles, Polled
  <2> QED
    BY <1>1, <2>1, <2>2, <2>3, <2>4, <2>5 DEF Next
<1>5. Polled'
  <2>1. config' = config /\ buildLocalCapability'
    BY <1>2, <1>3 DEF config, buildLocalCapability
  <2> QED
    BY <1>1, <1>2, <1>4, <2>1 DEF Polled
<1>6. Fired'
  BY <1>1 DEF Fired, EachListenerOnce, config, flagVars
<1>7. Answering'
  BY <1>1, <1>2, SoundStays DEF Answering, flagVars
<1> QED
  BY <1>5, <1>6, <1>7 DEF FlagsInv

---------------------------------------------------------------------------
(* Laying nothing over a function leaves it.                                *)
LEMMA NothingOverlaid ==
    ASSUME NEW f, f = [k \in DOMAIN f |-> f[k]]
    PROVE  f = <<>> @@ f
<1>1. DOMAIN <<>> = {}
  OBVIOUS
<1> QED
  BY <1>1 DEF @@

(* A round-trip, or its refusal.                                            *)
LEMMA RoundTripSound ==
    ASSUME Polled, client = "adapter", NEW context, NEW kept, NEW asked, NEW set,
           set.degraded = TRUE, set.flags = kept, set.reason = "unresolved",
           ~(config.onlyLocally /\ local),
           \A key \in WantedBy(context, snapshot) :
               key \in DOMAIN kept \/ asked = AllFlags \/ key \in asked
    PROVE  Sound(roundTrip(context, kept, asked, set)) /\ roundTrip(context, kept, asked, set) # Idle
<1>1. CASE config.remote
  <2>1. roundTrip(context, kept, asked, set) = Call("asked", context, kept, asked, set)
    BY <1>1 DEF roundTrip
  <2> DEFINE call == Call("asked", context, kept, asked, set)
  <2>2. call.phase = "asked" /\ call.version = snapshot /\ call.set = set /\ call.kept = kept
        /\ call.asked = asked
    BY DEF Call
  <2>3. Wanted(call) = WantedBy(context, snapshot)
    BY DEF Wanted, Call
  <2> HIDE DEF call
  <2>4. AskedForTheRest(call)
    BY <2>2, <2>3 DEF AskedForTheRest, AsksFor
  <2>5. Sound(call)
    BY <2>2, <2>4 DEF Sound, Phases, Polled
  <2>6. call # Idle
    BY <2>2 DEF Idle
  <2> QED
    BY <2>1, <2>5, <2>6 DEF call
<1>2. CASE ~config.remote
  <2> DEFINE call == Call("resolved", context, kept, asked, Merged(set, Degraded))
  <2>1. roundTrip(context, kept, asked, set) = call
    BY <1>2 DEF roundTrip
  <2>2. call.phase = "resolved" /\ call.version = snapshot /\ call.set = Merged(set, Degraded)
    BY DEF Call
  <2>3. Merged(set, Degraded).degraded = TRUE
        /\ Merged(set, Degraded).reason \in {"resolved", "unresolved", "stale"}
    BY DEF Merged, Degraded, emptyFlagSet
  <2> HIDE DEF call
  <2>4. Sound(call)
    BY <2>2, <2>3 DEF Sound, Complete, Phases, Polled
  <2>5. call # Idle
    BY <2>2 DEF Idle
  <2> QED
    BY <2>1, <2>4, <2>5
<1> QED
  BY <1>1, <1>2

(* What local evaluation decides it keeps; for the rest it asks, or says    *)
(* that it is degraded.                                                     *)
LEMMA LocalFirstSound ==
    ASSUME Polled, client = "adapter", loadedSuccessfullyOnce, NEW context, NEW outcome, NEW payloadsOf,
           DOMAIN outcome = WantedBy(context, snapshot)
    PROVE  Sound(LocalFirst(context, outcome, payloadsOf))
           /\ LocalFirst(context, outcome, payloadsOf) # Idle
<1> DEFINE fallbackKeys == {k \in DOMAIN outcome : outcome[k] \in Undecided}
           kept == [k \in DOMAIN outcome \ fallbackKeys |-> outcome[k]]
           set == LocalSet(kept, resolveLocalPayloads(kept, payloadsOf), fallbackKeys = {})
<1>1. /\ set.flags = kept /\ set.degraded = (fallbackKeys # {})
      /\ set.reason = IF fallbackKeys = {} THEN "resolved" ELSE "unresolved"
  BY DEF LocalSet
<1>2. DOMAIN kept = DOMAIN outcome \ fallbackKeys
  OBVIOUS
<1>3. LocalFirst(context, outcome, payloadsOf) =
        IF fallbackKeys # {} /\ ~config.onlyLocally THEN roundTrip(context, kept, fallbackKeys, set)
        ELSE Call("resolved", context, kept, {}, set)
  BY DEF LocalFirst
<1> HIDE DEF fallbackKeys, kept, set
<1>4. CASE fallbackKeys # {} /\ ~config.onlyLocally
  <2>1. \A key \in WantedBy(context, snapshot) :
            key \in DOMAIN kept \/ fallbackKeys = AllFlags \/ key \in fallbackKeys
    BY <1>2
  <2>2. set.degraded = TRUE /\ set.reason = "unresolved"
    BY <1>1, <1>4
  <2>3. ~(config.onlyLocally /\ local)
    BY <1>4
  <2> QED
    BY <1>1, <1>3, <1>4, <2>1, <2>2, <2>3, RoundTripSound
<1>5. CASE ~(fallbackKeys # {} /\ ~config.onlyLocally)
  <2> DEFINE call == Call("resolved", context, kept, {}, set)
  <2>1. Wanted(call) = DOMAIN outcome /\ call.phase = "resolved" /\ call.version = snapshot
        /\ call.set = set /\ call.kept = kept /\ call.asked = {} /\ call.answer = <<>>
    BY DEF Wanted, Call
  <2>2. ~set.degraded => DOMAIN kept = DOMAIN outcome
    BY <1>1, <1>2
  <2> HIDE DEF call
  <2>3. call.set.flags = call.answer @@ call.kept
    <3>1. kept = [k \in DOMAIN kept |-> kept[k]]
      BY DEF kept
    <3> QED
      BY <1>1, <2>1, <3>1, NothingOverlaid
  <2>4. Complete(call)
    BY <1>1, <2>1, <2>2, <2>3 DEF Complete
  <2>5. set.degraded \in BOOLEAN /\ set.reason \in {"resolved", "unresolved", "stale"}
    BY <1>1
  <2>6. Sound(call)
    BY <2>1, <2>5, <2>4 DEF Sound, Phases, Polled
  <2>7. call # Idle
    BY <2>1 DEF Idle
  <2> QED
    BY <1>3, <1>5, <2>6, <2>7 DEF call
<1> QED
  BY <1>4, <1>5

LEMMA ResolveSound ==
    ASSUME Polled, client = "adapter", NEW context
    PROVE  Sound(resolve(context)) /\ resolve(context) # Idle
<1>1. emptyFlagSet.degraded = TRUE /\ emptyFlagSet.flags = <<>> /\ emptyFlagSet.reason = "unresolved"
      /\ DOMAIN <<>> = {}
  BY DEF emptyFlagSet
<1>2. CASE local /\ isReady
  <2> DEFINE current == SnapshotOf(snapshot)
             keys == Contexts[context].keys
             positions == {i \in DOMAIN current.flags : keys = AllFlags \/ current.flags[i].key \in keys}
             definition == [k \in {current.flags[i].key : i \in positions} |->
                               CHOOSE d \in Range(current.flags) : d.key = k]
             outcome == [k \in DOMAIN definition |->
                            computeFlagLocally(definition[k], Contexts[context].actor, current)]
             payloadsOf == [k \in DOMAIN definition |-> definition[k].payloads]
  <2>1. resolve(context) = LocalFirst(context, outcome, payloadsOf)
    BY <1>2 DEF resolve, resolveLocalFirst
  <2>2. DOMAIN outcome = WantedBy(context, snapshot)
    BY DEF WantedBy
  <2>3. loadedSuccessfullyOnce
    BY <1>2 DEF isReady
  <2> HIDE DEF outcome, payloadsOf
  <2> QED
    BY <2>1, <2>2, <2>3, LocalFirstSound
<1>3. CASE local /\ ~isReady /\ config.onlyLocally
  <2> DEFINE call == Call("resolved", context, <<>>, {}, emptyFlagSet)
  <2>1. resolve(context) = call
    BY <1>3 DEF resolve
  <2>2. call.phase = "resolved" /\ call.version = snapshot /\ call.set = emptyFlagSet
    BY DEF Call
  <2> HIDE DEF call
  <2>3. Sound(call)
    BY <1>1, <2>2 DEF Sound, Complete, Phases, Polled
  <2>4. call # Idle
    BY <2>2 DEF Idle
  <2> QED
    BY <2>1, <2>3, <2>4
<1>4. CASE ~(local /\ isReady) /\ ~(local /\ config.onlyLocally)
  <2>1. resolve(context) = roundTrip(context, <<>>, Contexts[context].keys, emptyFlagSet)
    BY <1>4 DEF resolve
  <2>2. SnapshotOf(snapshot).flags = <<>>
    <3>1. CASE local
      <4>1. ~loadedSuccessfullyOnce \/ SnapshotOf(snapshot).flags = <<>>
        BY <1>4, <3>1 DEF isReady
      <4> QED
        BY <4>1 DEF Polled, SnapshotOf, EMPTY_SNAPSHOT
    <3>2. CASE ~local
      BY <3>2 DEF local, Polled, SnapshotOf, EMPTY_SNAPSHOT
    <3> QED
      BY <3>1, <3>2
  <2>3. WantedBy(context, snapshot) = {}
    BY <1>1, <2>2 DEF WantedBy
  <2>4. ~(config.onlyLocally /\ local)
    BY <1>4
  <2> QED
    BY <1>1, <2>1, <2>3, <2>4, RoundTripSound
<1> QED
  BY <1>2, <1>3, <1>4

---------------------------------------------------------------------------
(* What changes nothing but one call.                                       *)
LEMMA OneCall ==
    ASSUME FlagsInv, NEW c \in Callers, NEW call, calls' = [calls EXCEPT ![c] = call], Sound(call),
           UNCHANGED <<vars, setup, client, listeners, fired, firstSet, heard>>
    PROVE  FlagsInv'
<1>1. Polled /\ Fired /\ Answering
  BY DEF FlagsInv
<1>2. UNCHANGED <<published, seeded, started, stopped, timer, loads, snapshot,
                  loadedSuccessfullyOnce, missedTick>>
  BY DEF vars
<1>3. Polled'
  BY <1>1, <1>2 DEF Polled, config, buildLocalCapability
<1>4. Fired'
  BY <1>1 DEF Fired, EachListenerOnce, config
<1>5. calls' = [d \in Callers |-> calls'[d]] /\ calls'[c] = call
      /\ \A d \in Callers : d # c => calls'[d] = calls[d]
  BY <1>1 DEF Answering
<1>6. \A d \in Callers : calls'[d] # Idle => Sound(calls'[d])
  BY <1>1, <1>5 DEF Answering
<1> QED
  BY <1>2, <1>3, <1>4, <1>5, <1>6, SoundStays DEF FlagsInv

LEMMA EvaluateStep ==
    ASSUME FlagsInv, NEW c \in Callers, NEW context, Evaluate(c, context)
    PROVE  FlagsInv'
<1>1. Polled /\ UNCHANGED <<vars, setup, client, listeners, fired, firstSet, heard>>
  BY DEF FlagsInv, Evaluate
<1>2. CASE client = "noop"
  <2> DEFINE call == Call("settled", context, <<>>, {}, emptyFlagSet)
  <2>1. calls' = [calls EXCEPT ![c] = call]
    BY <1>2 DEF Evaluate
  <2>2. call.phase = "settled" /\ call.version = snapshot /\ call.set = emptyFlagSet
    BY DEF Call
  <2>3. emptyFlagSet.degraded = TRUE /\ emptyFlagSet.reason = "unresolved"
    BY DEF emptyFlagSet
  <2> HIDE DEF call
  <2>4. Sound(call)
    BY <1>1, <2>2, <2>3 DEF Sound, Complete, Phases, Polled
  <2> QED
    BY <1>1, <2>1, <2>4, OneCall
<1>3. CASE client = "adapter"
  <2>1. calls' = [calls EXCEPT ![c] = resolve(context)]
    BY <1>3 DEF Evaluate
  <2>2. Sound(resolve(context))
    BY <1>1, <1>3, ResolveSound
  <2> QED
    BY <1>1, <2>1, <2>2, OneCall
<1> QED
  BY <1>1, <1>2, <1>3 DEF Polled, Evaluate

(* An answer is laid over what was kept, whatever flags it has.             *)
LEMMA AnswerStep ==
    ASSUME FlagsInv, NEW c \in Callers, FlagServerAnswers(c)
    PROVE  FlagsInv'
<1>1. Polled /\ Answering /\ calls[c].phase = "asked"
      /\ UNCHANGED <<vars, setup, client, listeners, fired, firstSet, heard>>
  BY DEF FlagsInv, FlagServerAnswers
<1>2. calls[c] # Idle
  BY <1>1 DEF Idle
<1>3. Sound(calls[c]) /\ AskedForTheRest(calls[c])
  BY <1>1, <1>2 DEF Answering, Sound
<1>4. PICK answer \in config.answers :
        LET remote == [flags |-> answer, payloads |-> <<>>,
                       reason |-> "resolved", degraded |-> FALSE]
        IN  calls' = [calls EXCEPT ![c].phase = "resolved", ![c].answered = TRUE,
                                   ![c].answer = answer, ![c].set = Merged(@, remote)]
  BY DEF FlagServerAnswers
<1> DEFINE remote == [flags |-> answer, payloads |-> <<>>,
                      reason |-> "resolved", degraded |-> FALSE]
           set == Merged(calls[c].set, remote)
           call == [calls[c] EXCEPT !.phase = "resolved", !.answered = TRUE,
                                    !.answer = answer, !.set = set]
<1>5. calls' = [calls EXCEPT ![c] = call]
  BY <1>4
<1>6. /\ set.degraded = FALSE /\ set.reason = "resolved"
      /\ set.flags = answer @@ calls[c].set.flags
  BY DEF Merged
<1>7. call.phase = "resolved" /\ call.version = calls[c].version /\ call.set = set
      /\ call.kept = calls[c].kept /\ call.asked = calls[c].asked /\ call.context = calls[c].context
      /\ call.answered = TRUE /\ call.answer = answer
  OBVIOUS
<1> HIDE DEF call, set
<1>8. call.set.flags = call.answer @@ call.kept
  BY <1>3, <1>6, <1>7 DEF AskedForTheRest
<1>9. Complete(call)
  <2>1. Wanted(call) = Wanted(calls[c])
    BY <1>7 DEF Wanted
  <2>2. DOMAIN call.set.flags = DOMAIN call.answer \cup DOMAIN call.kept
    BY <1>8 DEF @@
  <2>3. \A key \in Wanted(call) :
          key \in DOMAIN call.set.flags \/ (AsksFor(call, key) /\ key \notin DOMAIN call.answer)
    BY <1>3, <1>7, <2>1, <2>2 DEF AskedForTheRest, AsksFor
  <2> QED
    BY <1>3, <1>7, <1>8, <2>3 DEF Complete, AskedForTheRest
<1>10. Sound(call)
  BY <1>1, <1>3, <1>6, <1>7, <1>9 DEF Sound, Phases
<1> QED
  BY <1>1, <1>5, <1>10, OneCall

LEMMA FailStep ==
    ASSUME FlagsInv, NEW c \in Callers, FlagServerFails(c)
    PROVE  FlagsInv'
<1>1. Polled /\ Answering /\ calls[c].phase = "asked"
      /\ UNCHANGED <<vars, setup, client, listeners, fired, firstSet, heard>>
  BY DEF FlagsInv, FlagServerFails
<1>2. calls[c] # Idle
  BY <1>1 DEF Idle
<1>3. Sound(calls[c])
  BY <1>1, <1>2 DEF Answering
<1> DEFINE set == Merged(calls[c].set, Degraded)
           call == [calls[c] EXCEPT !.phase = "resolved", !.set = set]
<1>4. calls' = [calls EXCEPT ![c] = call]
  BY DEF FlagServerFails
<1>5. call.phase = "resolved" /\ call.version = calls[c].version /\ call.set = set
  OBVIOUS
<1>6. set.degraded = TRUE /\ set.reason \in {"resolved", "unresolved", "stale"}
  BY DEF Merged, Degraded, emptyFlagSet
<1> HIDE DEF call, set
<1>7. Sound(call)
  BY <1>1, <1>3, <1>5, <1>6 DEF Sound, Complete, Phases
<1> QED
  BY <1>1, <1>4, <1>7, OneCall

---------------------------------------------------------------------------
(* The first set that settles is heard by all that wait, or by those up to  *)
(* the first that throws.                                                   *)
LEMMA Firing ==
    ASSUME Fired, client = "adapter", NEW set, fireOnce(set), UNCHANGED <<setup, client>>
    PROVE  Fired'
<1> DEFINE throws == {i \in DOMAIN listeners : listeners[i] \in config.throwing}
           told == IF throws = {} THEN Range(listeners) ELSE {listeners[i] : i \in 1..First(throws)}
<1>1. config' = config
  BY DEF config
<1>2. CASE fired
  BY <1>1, <1>2 DEF fireOnce, Fired, EachListenerOnce
<1>3. CASE ~fired
  <2>1. /\ fired' = TRUE /\ firstSet' = set
        /\ heard' = [l \in Listeners |-> IF l \in told THEN Append(heard[l], set) ELSE heard[l]]
        /\ listeners' = IF throws = {} THEN <<>> ELSE listeners
    BY <1>3 DEF fireOnce
  <2>2. \A l \in Listeners : heard[l] = <<>>
    BY <1>3 DEF Fired
  <2>3. listeners \in Seq(Listeners)
    BY DEF Fired
  <2>4. ASSUME throws # {}
        PROVE  \E l \in config.throwing : heard'[l] # <<>>
    <3>1. throws \in SUBSET Nat
      BY <2>3
    <3>2. First(throws) \in throws
      BY <2>4, <3>1, HasFirst
    <3> DEFINE l == listeners[First(throws)]
    <3>3. First(throws) \in Nat \ {0} /\ l \in config.throwing /\ l \in Listeners
      BY <2>3, <3>2
    <3>4. First(throws) \in 1..First(throws)
      BY <3>3
    <3>5. l \in told
      BY <2>4, <3>4
    <3> HIDE DEF told, throws
    <3>6. heard'[l] = Append(<<>>, set)
      BY <2>1, <2>2, <3>3, <3>5
    <3>7. Append(<<>>, set) # <<>>
      OBVIOUS
    <3> QED
      BY <3>3, <3>6, <3>7
  <2> HIDE DEF told
  <2>5. \A l \in Listeners : heard'[l] \in {<<>>, <<firstSet'>>}
    <3>1. Append(<<>>, set) = <<set>>
      OBVIOUS
    <3> QED
      BY <2>1, <2>2, <3>1
  <2>6. EachListenerOnce'
    BY <1>1, <2>1, <2>4, <2>5 DEF EachListenerOnce
  <2>7. listeners' \in Seq(Listeners)
    BY <2>1, <2>3
  <2> QED
    BY <2>1, <2>6, <2>7 DEF Fired
<1> QED
  BY <1>2, <1>3 DEF Fired

LEMMA SettlesStep ==
    ASSUME FlagsInv, NEW c \in Callers, Settles(c)
    PROVE  FlagsInv'
<1>1. /\ Polled /\ Fired /\ Answering /\ calls[c].phase = "resolved"
      /\ UNCHANGED <<vars, setup, client>>
  BY DEF FlagsInv, Settles
<1>2. calls[c] # Idle
  BY <1>1 DEF Idle
<1>3. Sound(calls[c])
  BY <1>1, <1>2 DEF Answering
<1>4. client = "adapter" /\ Complete(calls[c])
  BY <1>1, <1>3 DEF Sound
<1> DEFINE set == buildFlagSet(calls[c].set)
           phase == IF ~fired /\ Range(listeners) \cap config.throwing # {}
                    THEN "rejected" ELSE "settled"
           call == [calls[c] EXCEPT !.set = set, !.phase = phase]
<1>5. fireOnce(set) /\ calls' = [calls EXCEPT ![c] = call]
  BY DEF Settles
<1>6. /\ call.phase = phase /\ call.version = calls[c].version /\ call.set = set
      /\ call.kept = calls[c].kept /\ call.asked = calls[c].asked /\ call.context = calls[c].context
      /\ call.answered = calls[c].answered /\ call.answer = calls[c].answer
      /\ phase \in {"rejected", "settled"}
  OBVIOUS
<1>7. set = calls[c].set \/ (set.degraded = TRUE /\ set.reason = "unresolved")
  BY DEF buildFlagSet, emptyFlagSet
<1> HIDE DEF call, set, phase
<1>8. Complete(call)
  <2>1. Wanted(call) = Wanted(calls[c])
    BY <1>6 DEF Wanted
  <2> QED
    BY <1>4, <1>6, <1>7, <2>1 DEF Complete, AsksFor
<1>9. Sound(call)
  <2>1. set.degraded \in BOOLEAN /\ set.reason \in {"resolved", "unresolved", "stale"}
    BY <1>3, <1>7 DEF Sound
  <2> QED
    BY <1>3, <1>4, <1>6, <1>8, <2>1 DEF Sound, Phases
<1>10. Fired'
  BY <1>1, <1>4, <1>5, Firing
<1>11. Polled'
  BY <1>1 DEF Polled, config, buildLocalCapability, vars
<1>12. calls' = [d \in Callers |-> calls'[d]] /\ calls'[c] = call
       /\ \A d \in Callers : d # c => calls'[d] = calls[d]
  BY <1>1, <1>5 DEF Answering
<1>13. \A d \in Callers : calls'[d] # Idle => Sound(calls'[d])
  BY <1>1, <1>9, <1>12 DEF Answering
<1>14. Answering'
  BY <1>1, <1>12, <1>13, SoundStays DEF vars
<1> QED
  BY <1>10, <1>11, <1>14 DEF FlagsInv

---------------------------------------------------------------------------
(* What leaves the calls alone.                                             *)
LEMMA CallsStay ==
    ASSUME FlagsInv, UNCHANGED <<vars, setup, client, calls>>
    PROVE  Polled' /\ Answering'
<1>1. UNCHANGED <<published, seeded, started, stopped, timer, loads, snapshot,
                  loadedSuccessfullyOnce, missedTick>>
  BY DEF vars
<1>2. Polled'
  BY <1>1 DEF FlagsInv, Polled, config, buildLocalCapability
<1>3. Answering'
  BY <1>1, SoundStays DEF FlagsInv, Answering
<1> QED
  BY <1>2, <1>3

LEMMA OnChangeStep ==
    ASSUME FlagsInv, NEW l \in config.listeners, OnChange(l)
    PROVE  FlagsInv'
<1>1. Polled /\ Fired /\ heard[l] = <<>> /\ UNCHANGED <<vars, setup, client, calls, fired, firstSet>>
  BY DEF FlagsInv, OnChange
<1>2. l \in Listeners /\ config' = config
  BY <1>1, FlagsAssumption DEF Polled, config
<1>3. CASE client = "noop" \/ fired
  <2>1. heard' = [heard EXCEPT ![l] = Append(@, firstSet)] /\ UNCHANGED listeners
    BY <1>3 DEF OnChange
  <2>2. heard'[l] = <<firstSet>> /\ \A k \in Listeners \ {l} : heard'[k] = heard[k]
    <3>1. Append(<<>>, firstSet) = <<firstSet>>
      OBVIOUS
    <3> QED
      BY <1>1, <1>2, <2>1, <3>1 DEF Fired
  <2>3. \A k \in Listeners : heard'[k] \in {<<>>, <<firstSet>>}
    BY <1>1, <2>2 DEF Fired, EachListenerOnce
  <2>4. ASSUME fired, listeners # <<>> PROVE \E k \in config.throwing : heard'[k] # <<>>
    <3>1. PICK k \in config.throwing : heard[k] # <<>>
      BY <1>1, <2>4 DEF Fired, EachListenerOnce
    <3>2. heard'[k] = heard[k]
      BY <1>1, <2>1, <3>1 DEF Fired
    <3> QED
      BY <3>1, <3>2
  <2>5. EachListenerOnce'
    BY <1>1, <1>2, <2>1, <2>3, <2>4 DEF EachListenerOnce
  <2>6. heard' = [k \in Listeners |-> heard'[k]]
    BY <1>1, <2>1 DEF Fired
  <2>7. Fired'
    BY <1>1, <1>3, <2>1, <2>5, <2>6 DEF Fired
  <2> QED
    BY <1>1, <2>7, CallsStay DEF FlagsInv
<1>4. CASE ~(client = "noop" \/ fired)
  <2>1. listeners' = Append(listeners, l) /\ UNCHANGED heard /\ client = "adapter"
    BY <1>1, <1>4 DEF OnChange, Polled
  <2>2. listeners' \in Seq(Listeners)
    BY <1>1, <1>2, <2>1 DEF Fired
  <2>3. EachListenerOnce'
    BY <1>1, <1>2, <1>4, <2>1 DEF Fired, EachListenerOnce
  <2>4. Fired'
    BY <1>1, <1>4, <2>1, <2>2, <2>3 DEF Fired
  <2> QED
    BY <1>1, <2>4, CallsStay DEF FlagsInv
<1> QED
  BY <1>3, <1>4

LEMMA UnsubscribeStep ==
    ASSUME FlagsInv, NEW l \in config.listeners, Unsubscribe(l)
    PROVE  FlagsInv'
<1>1. Fired /\ UNCHANGED <<vars, setup, client, calls, fired, firstSet, heard>>
  BY DEF FlagsInv, Unsubscribe
<1>2. listeners \in Seq(Listeners) /\ config' = config
  BY <1>1 DEF Fired, config
<1>3. PICK i \in DOMAIN listeners :
        listeners' = SubSeq(listeners, 1, i - 1) \o SubSeq(listeners, i + 1, Len(listeners))
  BY DEF Unsubscribe
<1>4. listeners' \in Seq(Listeners)
  BY <1>2, <1>3
<1>5. listeners # <<>>
  BY <1>3
<1>6. client = "adapter"
  BY <1>1, <1>5 DEF Fired
<1>7. EachListenerOnce'
  BY <1>1, <1>2, <1>5 DEF Fired, EachListenerOnce
<1>8. Fired'
  BY <1>1, <1>4, <1>6, <1>7 DEF Fired
<1> QED
  BY <1>1, <1>8, CallsStay DEF FlagsInv

LEMMA FlagsStep == FlagsInv /\ [FlagsNext]_allVars => FlagsInv'
<1> SUFFICES ASSUME FlagsInv, [FlagsNext]_allVars PROVE FlagsInv'
  OBVIOUS
<1>1. CASE Poll
  BY <1>1, PollStep
<1>2. ASSUME NEW c \in Callers, NEW context, Evaluate(c, context)
      PROVE  FlagsInv'
  BY <1>2, EvaluateStep
<1>3. ASSUME NEW c \in Callers, FlagServerAnswers(c) \/ FlagServerFails(c) \/ Settles(c)
      PROVE  FlagsInv'
  BY <1>3, AnswerStep, FailStep, SettlesStep
<1>4. ASSUME NEW l \in config.listeners, OnChange(l) \/ Unsubscribe(l)
      PROVE  FlagsInv'
  BY <1>4, OnChangeStep, UnsubscribeStep
<1>5. CASE UNCHANGED allVars
  <2>1. UNCHANGED <<vars, setup, client, calls, listeners, fired, firstSet, heard>>
    BY <1>5 DEF allVars, flagVars
  <2>2. Fired'
    BY <2>1 DEF FlagsInv, Fired, EachListenerOnce, config
  <2> QED
    BY <2>1, <2>2, CallsStay DEF FlagsInv
<1> QED
  BY <1>1, <1>2, <1>3, <1>4, <1>5 DEF FlagsNext

---------------------------------------------------------------------------
(* FlagsInv holds of every reachable state of the server's flag client.     *)
THEOREM LocalInvariant == FlagsSpec => []FlagsInv
<1> QED
  BY FlagsInitInv, FlagsStep, PTL DEF FlagsSpec

(* LocalFlags!TypeOKFlags: every evaluation is in a phase that the client   *)
(* has, with a set that says whether and why it is degraded.                *)
THEOREM LocalTypes == FlagsSpec => []TypeOKFlags
<1>1. FlagsInv => TypeOKFlags
  <2> SUFFICES ASSUME FlagsInv PROVE TypeOKFlags
    OBVIOUS
  <2>1. TypeOK
    BY DEF FlagsInv, Polled, TypeOK
  <2>2. \A c \in Callers :
          \/ calls[c] = Idle
          \/ /\ calls[c].phase \in Phases
             /\ calls[c].version \in Version
             /\ calls[c].set.degraded \in BOOLEAN
             /\ calls[c].set.reason \in {"resolved", "unresolved", "stale"}
    BY DEF FlagsInv, Answering, Sound
  <2>3. Range(listeners) \subseteq Listeners
    BY DEF FlagsInv, Fired, Range
  <2> QED
    BY <2>1, <2>2, <2>3 DEF FlagsInv, Polled, Fired, TypeOKFlags
<1> QED
  BY <1>1, LocalInvariant, PTL

(* LocalFlags!NotDegradedIsAnswered: what a call decides here and what it   *)
(* asks of the server cover all that it wants, so a set that does not say   *)
(* it is degraded lacks only what the server left out of its answer; and it *)
(* is that answer, laid over what was decided here.                         *)
THEOREM UndegradedIsAnswered == FlagsSpec => []NotDegradedIsAnswered
<1>1. FlagsInv => NotDegradedIsAnswered
  <2> SUFFICES ASSUME FlagsInv, NEW c \in Callers,
                      calls[c].phase = "settled", ~calls[c].set.degraded
               PROVE  /\ \A i \in DOMAIN SnapshotOf(calls[c].version).flags :
                            LET key == SnapshotOf(calls[c].version).flags[i].key
                                keys == Contexts[calls[c].context].keys
                            IN  (keys = AllFlags \/ key \in keys) =>
                                  \/ key \in DOMAIN calls[c].set.flags
                                  \/ /\ calls[c].asked = AllFlags \/ key \in calls[c].asked
                                     /\ key \notin DOMAIN calls[c].answer
                      /\ calls[c].set.flags = calls[c].answer @@ calls[c].kept
                      /\ calls[c].asked # {} => calls[c].answered
                      /\ config.onlyLocally /\ local => loadedSuccessfullyOnce /\ calls[c].asked = {}
    BY DEF NotDegradedIsAnswered
  <2>1. calls[c] # Idle
    BY DEF Idle
  <2>2. Complete(calls[c])
    BY <2>1 DEF FlagsInv, Answering, Sound
  <2>3. ASSUME NEW i \in DOMAIN SnapshotOf(calls[c].version).flags,
               \/ Contexts[calls[c].context].keys = AllFlags
               \/ SnapshotOf(calls[c].version).flags[i].key \in Contexts[calls[c].context].keys
        PROVE  SnapshotOf(calls[c].version).flags[i].key \in Wanted(calls[c])
    BY <2>3 DEF Wanted, WantedBy
  <2> QED
    BY <2>2, <2>3 DEF Complete, AsksFor
<1> QED
  BY <1>1, LocalInvariant, PTL

(* LocalFlags!EachListenerOnce: whenever it registers, a listener hears the *)
(* first set that settled and no other, and none is left waiting after it   *)
(* but behind one that threw.                                               *)
THEOREM ListenersHearOnce == FlagsSpec => []EachListenerOnce
<1>1. FlagsInv => EachListenerOnce
  BY DEF FlagsInv, Fired
<1> QED
  BY <1>1, LocalInvariant, PTL

---------------------------------------------------------------------------
(* A tilde range takes the later versions of one minor, a caret range the   *)
(* later ones that agree up to the first component that is not zero.        *)
LEMMA TildeKeepsMinor ==
    ASSUME NEW bound \in Triples, NEW v \in Triples
    PROVE  InRange(v, bound, TildeUpper(bound))
               <=> ~VersionLess(v, bound) /\ v[1] = bound[1] /\ v[2] = bound[2]
  BY DEF Triples, InRange, TildeUpper, VersionLess

Leading(bound) == IF \E n \in 1..3 : bound[n] # 0 THEN First({n \in 1..3 : bound[n] # 0}) ELSE 3

THEOREM CaretKeepsLeading ==
    ASSUME NEW bound \in Triples, NEW v \in Triples
    PROVE  InRange(v, bound, CaretUpper(bound))
               <=> ~VersionLess(v, bound) /\ \A n \in 1..Leading(bound) : v[n] = bound[n]
<1> DEFINE nonzero == {n \in 1..3 : bound[n] # 0}
<1>1. nonzero # {} => First(nonzero) \in nonzero /\ \A j \in nonzero : First(nonzero) <= j
  BY HasFirst
<1>2. /\ bound[1] \in Nat /\ bound[2] \in Nat /\ bound[3] \in Nat
      /\ v[1] \in Nat /\ v[2] \in Nat /\ v[3] \in Nat
  BY DEF Triples
<1>3. CASE bound[1] > 0
  <2>1. 1 \in nonzero
    BY <1>2, <1>3
  <2>2. Leading(bound) = 1
    BY <1>1, <2>1 DEF Leading
  <2>3. (\A n \in 1..Leading(bound) : v[n] = bound[n]) <=> v[1] = bound[1]
    BY <2>2
  <2>4. CaretUpper(bound) = <<bound[1] + 1, 0, 0>>
    BY <1>3 DEF CaretUpper
  <2> QED
    BY <1>2, <2>3, <2>4 DEF InRange, VersionLess
<1>4. CASE bound[1] = 0 /\ bound[2] > 0
  <2>1. 2 \in nonzero /\ 1 \notin nonzero
    BY <1>2, <1>4
  <2>2. Leading(bound) = 2
    <3>1. First(nonzero) <= 2 /\ First(nonzero) \in nonzero /\ First(nonzero) # 1
      BY <1>1, <2>1
    <3>2. First(nonzero) = 2
      BY <3>1
    <3> QED
      BY <2>1, <3>2 DEF Leading
  <2>3. (\A n \in 1..Leading(bound) : v[n] = bound[n]) <=> v[1] = bound[1] /\ v[2] = bound[2]
    BY <2>2
  <2>4. CaretUpper(bound) = <<0, bound[2] + 1, 0>>
    BY <1>4 DEF CaretUpper
  <2> QED
    BY <1>2, <1>4, <2>3, <2>4 DEF InRange, VersionLess
<1>5. CASE bound[1] = 0 /\ bound[2] = 0
  <2>1. 1 \notin nonzero /\ 2 \notin nonzero
    BY <1>5
  <2>2. Leading(bound) = 3
    <3>1. nonzero # {} => First(nonzero) = 3
      BY <1>1, <2>1
    <3> QED
      BY <3>1 DEF Leading
  <2>3. (\A n \in 1..Leading(bound) : v[n] = bound[n])
            <=> v[1] = bound[1] /\ v[2] = bound[2] /\ v[3] = bound[3]
    BY <2>2
  <2>4. CaretUpper(bound) = <<0, 0, bound[3] + 1>>
    BY <1>5 DEF CaretUpper
  <2> QED
    BY <1>2, <1>5, <2>3, <2>4 DEF InRange, VersionLess
<1> QED
  BY <1>2, <1>3, <1>4, <1>5

(* LocalFlags!RangesKeepCompatible, whatever the bounds of the ranges.      *)
THEOREM RangesAreCompatible == FlagsSpec => []RangesKeepCompatible
<1>1. RangesKeepCompatible
  <2> SUFFICES ASSUME NEW i \in DOMAIN SnapshotOf(snapshot).flags,
                      NEW j \in DOMAIN SnapshotOf(snapshot).flags[i].groups,
                      NEW m \in DOMAIN SnapshotOf(snapshot).flags[i].groups[j].properties
               PROVE  LET filter == SnapshotOf(snapshot).flags[i].groups[j].properties[m]
                          bound == (CHOOSE v \in filter.values : TRUE).version
                          fixed == IF filter.operator = "semver_tilde" THEN 2 ELSE Leading(bound)
                      IN  filter.operator \in {"semver_tilde", "semver_caret"} /\ bound \in Triples =>
                            \A v \in SmallVersions :
                              (SemverMatch(filter.operator, CHOOSE w \in filter.values : TRUE,
                                           [version |-> v]) = "yes")
                                = (~VersionLess(v, bound) /\ \A n \in 1..fixed : v[n] = bound[n])
    BY DEF RangesKeepCompatible, Leading
  <2> DEFINE filter == SnapshotOf(snapshot).flags[i].groups[j].properties[m]
             value == CHOOSE w \in filter.values : TRUE
             operator == filter.operator
             bound == value.version
             fixed == IF operator = "semver_tilde" THEN 2 ELSE Leading(bound)
  <2> HIDE DEF filter, value, operator
  <2> SUFFICES ASSUME operator \in {"semver_tilde", "semver_caret"}, bound \in Triples,
                      NEW v \in SmallVersions
               PROVE  (SemverMatch(operator, value, [version |-> v]) = "yes")
                          = (~VersionLess(v, bound) /\ \A n \in 1..fixed : v[n] = bound[n])
    BY DEF filter, value, operator
  <2>1. v \in Triples /\ v # None /\ bound # None
    BY FlagsAssumption DEF SmallVersions, Triples
  <2>2. CASE operator = "semver_tilde"
    <3>1. SemverMatch(operator, value, [version |-> v]) = Truth(InRange(v, bound, TildeUpper(bound)))
      BY <2>1, <2>2 DEF SemverMatch
    <3>2. (\A n \in 1..fixed : v[n] = bound[n]) <=> v[1] = bound[1] /\ v[2] = bound[2]
      BY <2>2
    <3> QED
      BY <2>1, <3>1, <3>2, TildeKeepsMinor DEF Truth
  <2>3. CASE operator = "semver_caret"
    <3>1. SemverMatch(operator, value, [version |-> v]) = Truth(InRange(v, bound, CaretUpper(bound)))
      BY <2>1, <2>3 DEF SemverMatch
    <3>2. fixed = Leading(bound)
      BY <2>3
    <3> QED
      BY <2>1, <3>1, <3>2, CaretKeepsLeading DEF Truth
  <2> QED
    BY <2>2, <2>3
<1> QED
  BY <1>1, PTL DEF FlagsSpec

---------------------------------------------------------------------------
(* The three-valued logic.  More properties may decide what could not be    *)
(* decided, and never bring in the need for a server's data; what is        *)
(* decided they leave as it is.                                             *)
Outcomes == {"yes", "no", "inconclusive", "server"}

Stands(given, whole) ==
    /\ given \in Outcomes /\ whole \in Outcomes
    /\ given \in {"yes", "no"} => whole = given
    /\ given = "inconclusive" => whole # "server"

Given(bag, whole) ==
    /\ DOMAIN bag \subseteq DOMAIN whole
    /\ \A key \in DOMAIN bag : whole[key] = bag[key]

LEMMA ComparisonOutcome ==
    ASSUME NEW filter, NEW actual
    PROVE  Compares(filter, actual) \in {"yes", "no", "inconclusive"}
<1> DEFINE operator == filter.operator
           value == CHOOSE v \in filter.values : TRUE
<1>1. \A b : Truth(b) \in {"yes", "no"}
  BY DEF Truth
<1>2. Compared(operator, value, actual) \in {"yes", "no"}
  BY <1>1 DEF Compared
<1>3. DateMatch(operator, value, actual) \in {"yes", "no", "inconclusive"}
  BY <1>1 DEF DateMatch
<1>4. SemverMatch(operator, value, actual) \in {"yes", "no", "inconclusive"}
  BY <1>1 DEF SemverMatch
<1>5. CASE operator \in {"gt", "gte", "lt", "lte"}
  BY <1>2, <1>5 DEF Compares, SemverOperators, ALLOWED_OPERATORS
<1>6. CASE operator \in {"is_date_before", "is_date_after"}
  BY <1>3, <1>6 DEF Compares, SemverOperators, ALLOWED_OPERATORS
<1>7. CASE operator \in SemverOperators
  BY <1>4, <1>7 DEF Compares, SemverOperators, ALLOWED_OPERATORS
<1>8. CASE operator \in {"is_set", "is_not_set", "exact", "is_not", "icontains", "not_icontains",
                         "regex", "not_regex"}
  BY <1>1, <1>8 DEF Compares, SemverOperators, ALLOWED_OPERATORS
<1>9. CASE operator \notin ALLOWED_OPERATORS
  BY <1>9 DEF Compares, SemverOperators, ALLOWED_OPERATORS
<1> QED
  BY <1>5, <1>6, <1>7, <1>8, <1>9 DEF ALLOWED_OPERATORS

LEMMA PropertyOutcome ==
    ASSUME NEW filter, NEW bag
    PROVE  matchProperty(filter, bag) \in {"yes", "no", "inconclusive"}
  BY ComparisonOutcome DEF matchProperty

LEMMA PropertyStands ==
    ASSUME NEW filter, NEW bag, NEW whole, Given(bag, whole), filter.operator # "is_not_set"
    PROVE  Stands(matchProperty(filter, bag), matchProperty(filter, whole))
<1>1. CASE filter.key \in DOMAIN bag
  <2>1. filter.key \in DOMAIN whole /\ whole[filter.key] = bag[filter.key]
    BY <1>1 DEF Given
  <2>2. matchProperty(filter, whole) = matchProperty(filter, bag)
    BY <1>1, <2>1 DEF matchProperty
  <2> QED
    BY <2>2, PropertyOutcome DEF Stands, Outcomes
<1>2. CASE filter.key \notin DOMAIN bag
  <2>1. matchProperty(filter, bag) = "inconclusive"
    BY <1>2 DEF matchProperty
  <2> QED
    BY <2>1, PropertyOutcome DEF Stands, Outcomes
<1> QED
  BY <1>1, <1>2

LEMMA NegatedStands ==
    ASSUME NEW negation, NEW given, NEW whole, Stands(given, whole)
    PROVE  Stands(NegatedIf(negation, given), NegatedIf(negation, whole))
  BY DEF Stands, NegatedIf, Outcomes

(* A walk that ends, ends no later with more properties, and the same way.  *)
LEMMA WalkStands ==
    ASSUME NEW n \in Nat, NEW given, NEW whole, NEW type,
           DOMAIN given = 1..n, DOMAIN whole = 1..n,
           \A i \in 1..n : Stands(given[i], whole[i])
    PROVE  Stands(Walk(given, type), Walk(whole, type))
<1> DEFINE decisive == IF type = "AND" THEN "no" ELSE "yes"
           other == IF type = "AND" THEN "yes" ELSE "no"
           Ends(outcomes) == {i \in DOMAIN outcomes : outcomes[i] \in {"server", decisive}}
           Open(outcomes) == \E i \in DOMAIN outcomes : outcomes[i] = "inconclusive"
<1>1. /\ decisive \in {"yes", "no"} /\ other \in {"yes", "no"} /\ decisive # other
      /\ Truth(type = "AND") = other
  BY DEF Truth
<1>2. \A outcomes : Walk(outcomes, type) =
        IF Ends(outcomes) # {} THEN outcomes[First(Ends(outcomes))]
        ELSE IF Open(outcomes) THEN "inconclusive" ELSE other
  BY <1>1 DEF Walk
<1>3. /\ Ends(given) \in SUBSET Nat /\ Ends(whole) \in SUBSET Nat
      /\ Ends(given) \subseteq 1..n /\ Ends(whole) \subseteq 1..n
  OBVIOUS
<1>4. \A i \in 1..n : /\ given[i] \in Outcomes /\ whole[i] \in Outcomes
                      /\ i \in Ends(given) <=> given[i] \in {"server", decisive}
                      /\ i \in Ends(whole) <=> whole[i] \in {"server", decisive}
                      /\ given[i] = decisive => whole[i] = decisive
                      /\ given[i] = other => whole[i] = other
                      /\ given[i] = "inconclusive" => whole[i] # "server"
  BY <1>1 DEF Stands
<1>5. /\ \A i \in 1..n : given[i] = "inconclusive" => Open(given)
      /\ Open(given) => \E i \in 1..n : given[i] = "inconclusive"
      /\ Open(whole) => \E i \in 1..n : whole[i] = "inconclusive"
  OBVIOUS
<1>6. Walk(whole, type) \in Outcomes
  <2>1. Ends(whole) # {} => First(Ends(whole)) \in 1..n
    BY <1>3, HasFirst
  <2> HIDE DEF Ends, Open
  <2> QED
    BY <1>1, <1>2, <1>4, <2>1 DEF Outcomes
<1> HIDE DEF Ends, Open, decisive, other
<1>7. CASE Ends(given) # {}
  <2> DEFINE i == First(Ends(given))
  <2>1. i \in Ends(given) /\ \A j \in Ends(given) : i <= j
    BY <1>3, <1>7, HasFirst
  <2>2. i \in 1..n /\ given[i] \in {"server", decisive} /\ Walk(given, type) = given[i]
    BY <1>2, <1>3, <1>4, <1>7, <2>1
  <2> HIDE DEF i
  <2>3. CASE given[i] = "server"
    BY <1>1, <1>6, <2>2, <2>3 DEF Stands, Outcomes
  <2>4. CASE given[i] = decisive
    <3>1. i \in Ends(whole)
      BY <1>4, <2>2, <2>4
    <3> DEFINE k == First(Ends(whole))
    <3>2. k \in Ends(whole) /\ k <= i
      BY <1>3, <3>1, HasFirst
    <3>3. k \in 1..n /\ whole[k] \in {"server", decisive} /\ Walk(whole, type) = whole[k]
      BY <1>2, <1>3, <1>4, <3>1, <3>2
    <3> HIDE DEF k
    <3>4. whole[k] = decisive
      <4>1. CASE k = i
        BY <1>4, <2>2, <2>4, <4>1
      <4>2. CASE k # i
        <5>1. k \notin Ends(given)
          BY <2>1, <2>2, <3>2, <3>3, <4>2
        <5>2. given[k] \in {other, "inconclusive"}
          BY <1>1, <1>4, <3>3, <5>1 DEF Outcomes
        <5> QED
          BY <1>1, <1>4, <3>3, <5>2
      <4> QED
        BY <4>1, <4>2
    <3> QED
      BY <1>1, <1>6, <2>2, <2>4, <3>3, <3>4 DEF Stands, Outcomes
  <2> QED
    BY <2>2, <2>3, <2>4
<1>8. CASE Ends(given) = {} /\ Open(given)
  <2>1. Walk(given, type) = "inconclusive"
    BY <1>2, <1>8
  <2>2. Walk(whole, type) # "server"
    <3>1. CASE Ends(whole) # {}
      <4> DEFINE k == First(Ends(whole))
      <4>1. k \in 1..n /\ Walk(whole, type) = whole[k]
        BY <1>2, <1>3, <3>1, HasFirst
      <4> HIDE DEF k
      <4>2. given[k] \in {other, "inconclusive"}
        BY <1>1, <1>4, <1>8, <4>1 DEF Outcomes
      <4> QED
        BY <1>1, <1>4, <4>1, <4>2
    <3>2. CASE Ends(whole) = {}
      BY <1>1, <1>2, <3>2
    <3> QED
      BY <3>1, <3>2
  <2> QED
    BY <1>6, <2>1, <2>2 DEF Stands, Outcomes
<1>9. CASE Ends(given) = {} /\ ~Open(given)
  <2>1. Walk(given, type) = other
    BY <1>2, <1>9
  <2>2. \A i \in 1..n : whole[i] = other
    BY <1>1, <1>4, <1>5, <1>9 DEF Outcomes
  <2>3. Ends(whole) = {} /\ ~Open(whole)
    BY <1>1, <1>3, <1>4, <1>5, <2>2
  <2>4. Walk(whole, type) = other
    BY <1>2, <2>3
  <2> QED
    BY <1>1, <2>1, <2>4 DEF Stands, Outcomes
<1> QED
  BY <1>7, <1>8, <1>9

(* A group's outcome is that of its members, of which the groups come       *)
(* before it.                                                               *)
LEMMA GroupReadsSmaller ==
    ASSUME NEW cohorts, Numbered(cohorts), NEW bag, NEW g \in DOMAIN cohorts, NEW f, NEW h,
           \A x \in 1 .. g - 1 : f[x] = h[x]
    PROVE  GroupOutcome(cohorts, bag, f, g) = GroupOutcome(cohorts, bag, h, g)
<1> DEFINE values == cohorts[g].values
<1>1. ASSUME NEW i \in DOMAIN values
      PROVE  MemberOutcome(cohorts, bag, f, values[i]) = MemberOutcome(cohorts, bag, h, values[i])
  <2>1. /\ values[i].type = "group" => values[i].group \in 1 .. g - 1
        /\ values[i].type = "cohort" /\ values[i].cohort \in DOMAIN cohorts
               => values[i].cohort \in 1 .. g - 1
    BY DEF Numbered, IsList
  <2> QED
    BY <2>1 DEF MemberOutcome
<1>2. [i \in DOMAIN values |-> MemberOutcome(cohorts, bag, f, values[i])]
        = [i \in DOMAIN values |-> MemberOutcome(cohorts, bag, h, values[i])]
  BY <1>1
<1> QED
  BY <1>2 DEF GroupOutcome

LEMMA GroupsUnfold ==
    ASSUME NEW cohorts, Numbered(cohorts), NEW bag, NEW g \in DOMAIN cohorts
    PROVE  matchPropertyGroups(cohorts, bag)[g]
               = GroupOutcome(cohorts, bag, matchPropertyGroups(cohorts, bag), g)
<1> DEFINE Solves(k, f) == \A x \in 1..k : f[x] = GroupOutcome(cohorts, bag, f, x)
           N == Len(cohorts)
           Unsolved == {k \in 0..N : ~ \E f : Solves(k, f)}
<1>0. N \in Nat /\ DOMAIN cohorts = 1..N
  BY DEF Numbered, IsList
<1> HIDE DEF N
<1>1. Unsolved = {}
  <2> SUFFICES ASSUME Unsolved # {} PROVE FALSE
    OBVIOUS
  <2>1. PICK k \in Unsolved : \A m \in Unsolved : k <= m
    <3>1. Unsolved \in SUBSET Nat
      BY <1>0
    <3> HIDE DEF Unsolved
    <3> QED
      BY <3>1, LeastNatural
  <2>2. k \in 1..N
    BY <1>0, <2>1
  <2>3. k - 1 \in 0..N /\ k - 1 \notin Unsolved
    <3> HIDE DEF Unsolved
    <3>1. k - 1 \in 0..N /\ ~ (k <= k - 1)
      BY <1>0, <2>2
    <3> QED
      BY <2>1, <3>1
  <2>4. PICK f : Solves(k - 1, f)
    BY <2>3
  <2> DEFINE h == [x \in 1..k |-> IF x = k THEN GroupOutcome(cohorts, bag, f, k) ELSE f[x]]
  <2>5. \A x \in 1 .. k - 1 : h[x] = f[x]
    BY <1>0, <2>2
  <2>6. h[k] = GroupOutcome(cohorts, bag, f, k)
    BY <1>0, <2>2
  <2> HIDE DEF h
  <2>7. ASSUME NEW x \in 1..k
        PROVE  h[x] = GroupOutcome(cohorts, bag, h, x)
    <3>1. x \in DOMAIN cohorts /\ \A y \in 1 .. x - 1 : f[y] = h[y]
      BY <1>0, <2>2, <2>5
    <3>2. GroupOutcome(cohorts, bag, f, x) = GroupOutcome(cohorts, bag, h, x)
      BY <3>1, GroupReadsSmaller
    <3>3. CASE x = k
      BY <2>6, <3>2, <3>3
    <3>4. CASE x # k
      <4>1. x \in 1 .. k - 1
        BY <1>0, <2>2, <3>4
      <4> QED
        BY <2>4, <2>5, <3>2, <4>1
    <3> QED
      BY <3>3, <3>4
  <2>8. Solves(k, h)
    BY <2>7
  <2> QED
    BY <2>1, <2>8
<1>2. PICK f : Solves(N, f)
  <2>1. N \in 0..N /\ N \notin Unsolved
    BY <1>0, <1>1
  <2>2. \E f : Solves(N, f)
    BY <2>1
  <2> QED
    BY <2>2
<1> DEFINE h == [x \in DOMAIN cohorts |-> GroupOutcome(cohorts, bag, f, x)]
<1>3. ASSUME NEW x \in DOMAIN cohorts
      PROVE  GroupOutcome(cohorts, bag, f, x) = GroupOutcome(cohorts, bag, h, x)
  <2>1. \A y \in 1 .. x - 1 : y \in DOMAIN cohorts
    BY <1>0
  <2>2. \A y \in DOMAIN cohorts : h[y] = f[y]
    BY <1>0, <1>2
  <2> HIDE DEF h
  <2>3. \A y \in 1 .. x - 1 : f[y] = h[y]
    BY <2>1, <2>2
  <2> QED
    BY <2>3, GroupReadsSmaller
<1>4. h = [x \in DOMAIN cohorts |-> GroupOutcome(cohorts, bag, h, x)]
  BY <1>3
<1> HIDE DEF h
<1>5. matchPropertyGroups(cohorts, bag)
        = [x \in DOMAIN cohorts |-> GroupOutcome(cohorts, bag, matchPropertyGroups(cohorts, bag), x)]
  BY <1>4 DEF matchPropertyGroups
<1> QED
  BY <1>5

LEMMA GroupsStand ==
    ASSUME NEW cohorts, Numbered(cohorts), ~CohortsUseAbsence(cohorts),
           NEW bag, NEW whole, Given(bag, whole), NEW g \in DOMAIN cohorts
    PROVE  Stands(matchPropertyGroups(cohorts, bag)[g], matchPropertyGroups(cohorts, whole)[g])
<1> DEFINE f == matchPropertyGroups(cohorts, bag)
           h == matchPropertyGroups(cohorts, whole)
           Wrong == {x \in DOMAIN cohorts : ~Stands(f[x], h[x])}
<1>0. Len(cohorts) \in Nat /\ DOMAIN cohorts = 1..Len(cohorts)
  BY DEF Numbered, IsList
<1> SUFFICES ASSUME Wrong # {} PROVE FALSE
  OBVIOUS
<1>1. PICK x \in Wrong : \A y \in Wrong : x <= y
  <2>1. Wrong \in SUBSET Nat
    BY <1>0
  <2> HIDE DEF Wrong
  <2> QED
    BY <2>1, LeastNatural
<1>2. x \in DOMAIN cohorts /\ ~Stands(f[x], h[x])
  BY <1>1
<1>3. ASSUME NEW y \in 1 .. x - 1
      PROVE  Stands(f[y], h[y])
  <2>1. y \in DOMAIN cohorts /\ ~(x <= y)
    BY <1>0, <1>2
  <2> QED
    BY <1>1, <2>1
<1> HIDE DEF Wrong
<1>4. f[x] = GroupOutcome(cohorts, bag, f, x) /\ h[x] = GroupOutcome(cohorts, whole, h, x)
  BY <1>2, GroupsUnfold
<1> HIDE DEF f, h
<1> DEFINE values == cohorts[x].values
           given == [i \in DOMAIN values |-> MemberOutcome(cohorts, bag, f, values[i])]
           all == [i \in DOMAIN values |-> MemberOutcome(cohorts, whole, h, values[i])]
<1>5. Len(values) \in Nat /\ DOMAIN values = 1..Len(values)
  BY <1>2 DEF Numbered, IsList
<1>6. ASSUME NEW i \in DOMAIN values
      PROVE  Stands(MemberOutcome(cohorts, bag, f, values[i]), MemberOutcome(cohorts, whole, h, values[i]))
  <2> DEFINE m == values[i]
  <2>1. /\ m.type = "group" => m.group \in 1 .. x - 1
        /\ m.type = "cohort" /\ m.cohort \in DOMAIN cohorts => m.cohort \in 1 .. x - 1
        /\ m.type \notin {"group", "cohort", "flag"} => m.operator # "is_not_set"
    BY <1>2 DEF Numbered, IsList, CohortsUseAbsence
  <2> HIDE DEF m
  <2>2. CASE m.type = "group"
    BY <1>3, <2>1, <2>2 DEF MemberOutcome, m
  <2>3. CASE m.type = "cohort"
    <3>1. CASE m.cohort \in DOMAIN cohorts
      BY <1>3, <2>1, <2>3, <3>1, NegatedStands DEF MemberOutcome, m
    <3>2. CASE m.cohort \notin DOMAIN cohorts
      BY <2>3, <3>2 DEF MemberOutcome, NegatedIf, Stands, Outcomes, m
    <3> QED
      BY <3>1, <3>2
  <2>4. CASE m.type = "flag"
    BY <2>4 DEF MemberOutcome, Stands, Outcomes, m
  <2>5. CASE m.type \notin {"group", "cohort", "flag"}
    <3>1. Stands(matchProperty(m, bag), matchProperty(m, whole))
      BY <2>1, <2>5, PropertyStands
    <3> QED
      BY <2>5, <3>1, NegatedStands DEF MemberOutcome, m
  <2> QED
    BY <2>2, <2>3, <2>4, <2>5
<1>7. Stands(Walk(given, cohorts[x].type), Walk(all, cohorts[x].type))
  <2>1. DOMAIN given = 1..Len(values) /\ DOMAIN all = 1..Len(values)
    BY <1>5
  <2>2. \A i \in 1..Len(values) : Stands(given[i], all[i])
    BY <1>5, <1>6
  <2> HIDE DEF given, all, values
  <2> QED
    BY <1>5, <2>1, <2>2, WalkStands
<1>8. CASE values = <<>>
  BY <1>2, <1>4, <1>8 DEF GroupOutcome, Stands, Outcomes
<1>9. CASE values # <<>>
  BY <1>2, <1>4, <1>7, <1>9 DEF GroupOutcome
<1> QED
  BY <1>8, <1>9

(* A condition that is decided stays so: its filters are read in order, up  *)
(* to one that does not match.                                              *)
Settled(given, whole) ==
    given \in Outcomes /\ whole \in Outcomes /\ (given \in {"yes", "no"} => whole = given)

LEMMA AllMatchSettled ==
    ASSUME NEW given, NEW whole, NEW n \in Nat, DOMAIN given = 1..n, DOMAIN whole = 1..n,
           \A i \in 1..n : Settled(given[i], whole[i])
    PROVE  Settled(AllMatch(given), AllMatch(whole))
<1> DEFINE Ends(outcomes) == {i \in DOMAIN outcomes : outcomes[i] # "yes"}
<1>1. \A outcomes : AllMatch(outcomes) =
          IF Ends(outcomes) = {} THEN "yes" ELSE outcomes[First(Ends(outcomes))]
  BY DEF AllMatch
<1>2. /\ Ends(given) \in SUBSET Nat /\ Ends(whole) \in SUBSET Nat
      /\ Ends(given) \subseteq 1..n /\ Ends(whole) \subseteq 1..n
  OBVIOUS
<1>3. \A i \in 1..n : /\ given[i] \in Outcomes /\ whole[i] \in Outcomes
                      /\ i \in Ends(given) <=> given[i] # "yes"
                      /\ i \in Ends(whole) <=> whole[i] # "yes"
                      /\ given[i] \in {"yes", "no"} => whole[i] = given[i]
  BY DEF Settled
<1> HIDE DEF Ends
<1>4. /\ Ends(given) # {} => /\ First(Ends(given)) \in Ends(given)
                             /\ \A j \in Ends(given) : First(Ends(given)) <= j
      /\ Ends(whole) # {} => /\ First(Ends(whole)) \in Ends(whole)
                             /\ \A j \in Ends(whole) : First(Ends(whole)) <= j
  BY <1>2, HasFirst
<1>5. AllMatch(given) \in Outcomes /\ AllMatch(whole) \in Outcomes
  BY <1>1, <1>2, <1>3, <1>4 DEF Outcomes
<1>6. CASE Ends(given) = {}
  <2>1. Ends(whole) = {}
    BY <1>2, <1>3, <1>6
  <2> QED
    BY <1>1, <1>5, <1>6, <2>1 DEF Settled
<1>7. CASE Ends(given) # {}
  <2> DEFINE i == First(Ends(given))
             k == First(Ends(whole))
  <2>1. i \in 1..n /\ i \in Ends(given) /\ AllMatch(given) = given[i] /\ given[i] # "yes"
        /\ \A j \in Ends(given) : i <= j
    BY <1>1, <1>2, <1>3, <1>4, <1>7
  <2> HIDE DEF i
  <2>2. CASE given[i] = "no"
    <3>1. i \in Ends(whole) /\ whole[i] = "no"
      BY <1>3, <2>1, <2>2
    <3>2. k \in 1..n /\ k \in Ends(whole) /\ k <= i /\ AllMatch(whole) = whole[k]
      BY <1>1, <1>2, <1>4, <3>1
    <3> HIDE DEF k
    <3>3. k \in Ends(given)
      BY <1>3, <3>2
    <3>4. k = i
      BY <2>1, <3>2, <3>3
    <3> QED
      BY <1>5, <2>1, <2>2, <3>1, <3>2, <3>4 DEF Settled
  <2>3. CASE given[i] # "no"
    BY <1>5, <2>1, <2>3 DEF Settled
  <2> QED
    BY <2>2, <2>3
<1> QED
  BY <1>6, <1>7

LEMMA ConditionSettled ==
    ASSUME NEW cohorts, Numbered(cohorts), NEW bag, NEW whole, Given(bag, whole),
           NEW condition, IsList(condition.properties), NEW bucket,
           \A i \in DOMAIN condition.properties :
               LET filter == condition.properties[i] IN
               IF filter.type = "cohort" THEN ~CohortsUseAbsence(cohorts)
               ELSE filter.operator # "is_not_set"
    PROVE  Settled(isConditionMatch(condition, bucket, bag, cohorts),
                   isConditionMatch(condition, bucket, whole, cohorts))
<1> DEFINE filters == condition.properties
           given == [i \in DOMAIN filters |-> FilterOutcome(filters[i], bag, cohorts)]
           all == [i \in DOMAIN filters |-> FilterOutcome(filters[i], whole, cohorts)]
<1>1. ASSUME NEW i \in DOMAIN filters
      PROVE  Stands(FilterOutcome(filters[i], bag, cohorts), FilterOutcome(filters[i], whole, cohorts))
  <2> DEFINE filter == filters[i]
  <2>1. IF filter.type = "cohort" THEN ~CohortsUseAbsence(cohorts) ELSE filter.operator # "is_not_set"
    OBVIOUS
  <2> HIDE DEF filter
  <2>2. CASE filter.type = "cohort"
    <3>1. Stands(matchCohort(filter, bag, cohorts), matchCohort(filter, whole, cohorts))
      <4>1. CASE filter.cohort \in DOMAIN cohorts
        BY <2>1, <2>2, <4>1, GroupsStand DEF matchCohort
      <4>2. CASE filter.cohort \notin DOMAIN cohorts
        BY <4>2 DEF matchCohort, Stands, Outcomes
      <4> QED
        BY <4>1, <4>2
    <3> QED
      BY <2>2, <3>1, NegatedStands DEF FilterOutcome, filter
  <2>3. CASE filter.type = "flag"
    BY <2>3 DEF FilterOutcome, Stands, Outcomes, filter
  <2>4. CASE filter.type \notin {"cohort", "flag"}
    BY <2>1, <2>4, PropertyStands DEF FilterOutcome, filter
  <2> QED
    BY <2>2, <2>3, <2>4
<1>2. Len(filters) \in Nat /\ DOMAIN filters = 1..Len(filters)
  BY DEF IsList
<1>3. Settled(AllMatch(given), AllMatch(all))
  <2>1. DOMAIN given = 1..Len(filters) /\ DOMAIN all = 1..Len(filters)
    BY <1>2
  <2>2. \A i \in 1..Len(filters) : Settled(given[i], all[i])
    BY <1>1, <1>2 DEF Stands, Settled
  <2> HIDE DEF given, all, filters
  <2> QED
    BY <1>2, <2>1, <2>2, AllMatchSettled
<1> HIDE DEF filters
<1>4. /\ isConditionMatch(condition, bucket, bag, cohorts) =
            IF AllMatch(given) = "yes" /\ condition.rollout # None
            THEN Truth(bucket <= condition.rollout) ELSE AllMatch(given)
      /\ isConditionMatch(condition, bucket, whole, cohorts) =
            IF AllMatch(all) = "yes" /\ condition.rollout # None
            THEN Truth(bucket <= condition.rollout) ELSE AllMatch(all)
  BY DEF isConditionMatch, filters
<1> HIDE DEF given, all
<1>5. Truth(bucket <= condition.rollout) \in {"yes", "no"}
  BY DEF Truth
<1> QED
  BY <1>3, <1>4, <1>5 DEF Settled, Outcomes

(* What is served when a condition matches is not "off".                    *)
LEMMA ServedIsOn ==
    ASSUME NEW definition, WellFormed(definition), NEW matching, NEW bucket
    PROVE  Served(definition, matching, bucket) \notin {"off"} \cup Undecided
<1> DEFINE variants == definition.variants
           bands == {i \in DOMAIN variants :
                        bandEnd(variants, i - 1) <= bucket /\ bucket < bandEnd(variants, i)}
<1>1. /\ DOMAIN variants \subseteq Nat
      /\ \A i \in DOMAIN variants : variants[i].key \notin {"on", "off"} \cup Undecided
  BY DEF WellFormed, IsList
<1>2. getMatchingVariant(variants, bucket) = IF bands = {} THEN "on" ELSE variants[First(bands)].key
  BY DEF getMatchingVariant
<1>3. bands \in SUBSET Nat /\ bands \subseteq DOMAIN variants
  BY <1>1
<1> HIDE DEF bands
<1>4. getMatchingVariant(variants, bucket) \notin {"off"} \cup Undecided
  <2>1. CASE bands = {}
    BY <1>2, <2>1 DEF Undecided
  <2>2. CASE bands # {}
    <3>1. First(bands) \in DOMAIN variants
      BY <1>3, <2>2, HasFirst
    <3> QED
      BY <1>1, <1>2, <2>2, <3>1
  <2> QED
    BY <2>1, <2>2
<1> QED
  BY <1>1, <1>4 DEF Served

LEMMA ValueStands ==
    ASSUME NEW definition, WellFormed(definition), NEW bucket, NEW given, NEW whole, NEW n \in Nat,
           DOMAIN given = 1..n, DOMAIN whole = 1..n, \A i \in 1..n : Settled(given[i], whole[i]),
           FlagValue(definition, bucket, given) \notin Undecided
    PROVE  FlagValue(definition, bucket, given) = "off" <=> FlagValue(definition, bucket, whole) = "off"
<1> DEFINE Ends(outcomes) == {i \in DOMAIN outcomes : outcomes[i] \in {"server", "yes"}}
           Open(outcomes) == \E i \in DOMAIN outcomes : outcomes[i] = "inconclusive"
<1>1. \A outcomes : Walk(outcomes, "OR") =
        IF Ends(outcomes) # {} THEN outcomes[First(Ends(outcomes))]
        ELSE IF Open(outcomes) THEN "inconclusive" ELSE "no"
  BY DEF Walk, Truth
<1>2. /\ Ends(given) \in SUBSET Nat /\ Ends(whole) \in SUBSET Nat
      /\ Ends(given) \subseteq 1..n /\ Ends(whole) \subseteq 1..n
  OBVIOUS
<1>3. \A i \in 1..n : /\ given[i] \in Outcomes /\ whole[i] \in Outcomes
                      /\ i \in Ends(given) <=> given[i] \in {"server", "yes"}
                      /\ i \in Ends(whole) <=> whole[i] \in {"server", "yes"}
                      /\ given[i] \in {"yes", "no"} => whole[i] = given[i]
                      /\ given[i] = "inconclusive" => Open(given)
  BY DEF Settled
<1>4. Open(whole) => \E i \in 1..n : whole[i] = "inconclusive"
  OBVIOUS
<1> HIDE DEF Ends, Open
<1>5. /\ Ends(given) # {} => First(Ends(given)) \in Ends(given)
      /\ Ends(whole) # {} => First(Ends(whole)) \in Ends(whole)
  BY <1>2, HasFirst
<1>6. \A outcomes :
        /\ Walk(outcomes, "OR") = "no" => FlagValue(definition, bucket, outcomes) = "off"
        /\ Walk(outcomes, "OR") = "yes" => FlagValue(definition, bucket, outcomes) # "off"
        /\ Walk(outcomes, "OR") \in Undecided =>
               FlagValue(definition, bucket, outcomes) = Walk(outcomes, "OR")
  BY ServedIsOn DEF FlagValue, Undecided
<1>7. CASE Ends(given) # {}
  <2>1. PICK i \in 1..n : i \in Ends(given) /\ Walk(given, "OR") = given[i]
    BY <1>1, <1>2, <1>5, <1>7
  <2>2. given[i] = "yes" /\ whole[i] = "yes"
    BY <1>3, <1>6, <2>1 DEF Undecided
  <2>3. Ends(whole) # {}
    BY <1>3, <2>2
  <2>4. Walk(whole, "OR") \in {"server", "yes"}
    BY <1>1, <1>2, <1>3, <1>5, <2>3
  <2>5. FlagValue(definition, bucket, whole) # "off"
    BY <1>6, <2>4 DEF Undecided
  <2> QED
    BY <1>6, <2>1, <2>2, <2>5
<1>8. CASE Ends(given) = {}
  <2>1. Walk(given, "OR") = "no" /\ ~Open(given)
    BY <1>1, <1>6, <1>8 DEF Undecided
  <2>2. \A i \in 1..n : whole[i] = "no"
    BY <1>3, <1>8, <2>1 DEF Outcomes
  <2>3. Ends(whole) = {} /\ ~Open(whole)
    BY <1>2, <1>3, <1>4, <2>2
  <2>4. Walk(whole, "OR") = "no"
    BY <1>1, <2>3
  <2> QED
    BY <1>6, <2>1, <2>4
<1> QED
  BY <1>7, <1>8

(* A flag that is decided from some of an actor's properties is on or off   *)
(* as with all of them, unless the server is asked then.                    *)
LEMMA FlagStands ==
    ASSUME NEW definition, WellFormed(definition), NEW current, Numbered(current.cohorts),
           ~UsesAbsence(definition, current.cohorts),
           NEW actor, NEW whole, IsWholeActor(whole, actor), None # NotSupplied,
           computeFlagLocally(definition, actor, current) \notin Undecided
    PROVE  computeFlagLocally(definition, actor, current) = "off"
               <=> computeFlagLocally(definition, whole, current) = "off"
<1> DEFINE given == resolveBucketingValue(definition, actor, current.groupTypeMapping)
           all == resolveBucketingValue(definition, whole, current.groupTypeMapping)
           cohorts == current.cohorts
<1>1. (given \in {None, NotSupplied} /\ all = given) \/ IsWhole(all, given)
  BY DEF resolveBucketingValue, IsWholeActor
<1> HIDE DEF given, all
<1>2. CASE ~definition.active \/ given = NotSupplied
  <2>1. computeFlagLocally(definition, actor, current) = "off"
    BY <1>2 DEF computeFlagLocally, given
  <2>2. ~definition.active \/ all = NotSupplied
    BY <1>1, <1>2 DEF IsWhole
  <2>3. computeFlagLocally(definition, whole, current) = "off"
    BY <2>2 DEF computeFlagLocally, all
  <2> QED
    BY <2>1, <2>3
<1>3. CASE definition.active /\ given = None
  BY <1>3 DEF computeFlagLocally, given, Undecided
<1>4. CASE definition.active /\ given \notin {None, NotSupplied}
  <2> DEFINE buckets == given.buckets[definition.key]
             evaluated(bag) == evaluateFlagLocally(definition, buckets, bag, cohorts)
             outcomes(bag) == [i \in DOMAIN definition.groups |->
                                  isConditionMatch(definition.groups[i], buckets.rollout, bag, cohorts)]
  <2>1. /\ all \notin {None, NotSupplied} /\ all.buckets = given.buckets
        /\ Given(given.properties, all.properties)
    BY <1>1, <1>4 DEF IsWhole, Given
  <2>2. /\ computeFlagLocally(definition, actor, current) = evaluated(given.properties)
        /\ computeFlagLocally(definition, whole, current) = evaluated(all.properties)
    BY <1>4, <2>1 DEF computeFlagLocally, given, all
  <2>3. CASE definition.continuity
    BY <1>4, <2>2, <2>3 DEF evaluateFlagLocally, Undecided
  <2>4. CASE ~definition.continuity
    <3>1. \A bag : evaluated(bag) = FlagValue(definition, buckets.variant, outcomes(bag))
      BY <1>4, <2>4 DEF evaluateFlagLocally
    <3>2. Len(definition.groups) \in Nat /\ DOMAIN definition.groups = 1..Len(definition.groups)
      BY DEF WellFormed, IsList
    <3>3. ASSUME NEW i \in DOMAIN definition.groups
          PROVE  Settled(outcomes(given.properties)[i], outcomes(all.properties)[i])
      <4>1. \A j \in DOMAIN definition.groups[i].properties :
               LET filter == definition.groups[i].properties[j] IN
               IF filter.type = "cohort" THEN ~CohortsUseAbsence(cohorts)
               ELSE filter.operator # "is_not_set"
        BY DEF UsesAbsence
      <4>2. IsList(definition.groups[i].properties)
        BY DEF WellFormed
      <4>3. Settled(isConditionMatch(definition.groups[i], buckets.rollout, given.properties, cohorts),
                    isConditionMatch(definition.groups[i], buckets.rollout, all.properties, cohorts))
        BY <2>1, <4>1, <4>2, ConditionSettled
      <4> QED
        BY <4>3
    <3>4. \A bag : DOMAIN outcomes(bag) = 1..Len(definition.groups)
      BY <3>2
    <3> HIDE DEF outcomes, evaluated, buckets
    <3>5. \A i \in 1..Len(definition.groups) :
             Settled(outcomes(given.properties)[i], outcomes(all.properties)[i])
      BY <3>2, <3>3
    <3>6. FlagValue(definition, buckets.variant, outcomes(given.properties)) \notin Undecided
      BY <2>2, <3>1
    <3>7. FlagValue(definition, buckets.variant, outcomes(given.properties)) = "off"
            <=> FlagValue(definition, buckets.variant, outcomes(all.properties)) = "off"
      BY <3>2, <3>4, <3>5, <3>6, ValueStands
    <3> QED
      BY <2>2, <3>1, <3>7
  <2> QED
    BY <2>3, <2>4
<1> QED
  BY <1>2, <1>3, <1>4

---------------------------------------------------------------------------
(* What a call keeps is what the definitions that it read say of the actor. *)
Decided(call) ==
    /\ call.context \in DOMAIN Contexts
    /\ call.version \in Version
    /\ client # "adapter" => DOMAIN call.kept = {}
    /\ LET read == SnapshotOf(call.version) IN
       \A key \in DOMAIN call.kept :
           /\ call.kept[key] \notin Undecided
           /\ \E i \in DOMAIN read.flags :
                 /\ read.flags[i].key = key
                 /\ call.kept[key] = computeFlagLocally(read.flags[i], Contexts[call.context].actor, read)

KeptInv ==
    /\ client = createFlagClient
    /\ \A c \in Callers : calls[c] # Idle => Decided(calls[c])

LEMMA KeepsDecisions ==
    ASSUME Polled, NEW context \in DOMAIN Contexts
    PROVE  client = "adapter" => Decided(resolve(context))
<1> SUFFICES ASSUME client = "adapter" PROVE Decided(resolve(context))
  OBVIOUS
<1>1. DOMAIN <<>> = {}
  OBVIOUS
<1>2. \A kept, asked, set :
        LET call == roundTrip(context, kept, asked, set)
        IN  call.context = context /\ call.version = snapshot /\ call.kept = kept
  BY DEF roundTrip, Call
<1>3. CASE local /\ isReady
  <2> DEFINE current == SnapshotOf(snapshot)
             keys == Contexts[context].keys
             positions == {i \in DOMAIN current.flags : keys = AllFlags \/ current.flags[i].key \in keys}
             definition == [k \in {current.flags[i].key : i \in positions} |->
                               CHOOSE d \in Range(current.flags) : d.key = k]
             outcome == [k \in DOMAIN definition |->
                            computeFlagLocally(definition[k], Contexts[context].actor, current)]
             payloadsOf == [k \in DOMAIN definition |-> definition[k].payloads]
             undecided == {k \in DOMAIN outcome : outcome[k] \in Undecided}
             kept == [k \in DOMAIN outcome \ undecided |-> outcome[k]]
             call == resolve(context)
  <2>1. resolve(context) = LocalFirst(context, outcome, payloadsOf)
    BY <1>3 DEF resolve, resolveLocalFirst
  <2>2. ASSUME NEW k \in DOMAIN definition
        PROVE  \E i \in DOMAIN current.flags : definition[k] = current.flags[i] /\ current.flags[i].key = k
    <3>1. PICK i \in DOMAIN current.flags : current.flags[i].key = k
      OBVIOUS
    <3>2. current.flags[i] \in Range(current.flags)
      BY DEF Range
    <3>3. definition[k] \in Range(current.flags) /\ definition[k].key = k
      BY <3>1, <3>2
    <3> HIDE DEF definition
    <3> QED
      BY <3>3 DEF Range
  <2>3. ASSUME NEW k \in DOMAIN kept
        PROVE  /\ kept[k] \notin Undecided
               /\ \E i \in DOMAIN current.flags :
                     /\ current.flags[i].key = k
                     /\ kept[k] = computeFlagLocally(current.flags[i], Contexts[context].actor, current)
    <3>1. k \in DOMAIN definition /\ kept[k] = outcome[k] /\ outcome[k] \notin Undecided
      OBVIOUS
    <3>2. outcome[k] = computeFlagLocally(definition[k], Contexts[context].actor, current)
      BY <3>1
    <3> HIDE DEF definition, outcome, kept
    <3> QED
      BY <2>2, <3>1, <3>2
  <2> HIDE DEF outcome, payloadsOf
  <2>4. call.context = context /\ call.version = snapshot /\ call.kept = kept
    <3>1. call = roundTrip(context, kept, undecided,
                           LocalSet(kept, resolveLocalPayloads(kept, payloadsOf), undecided = {}))
          \/ call = Call("resolved", context, kept, {},
                         LocalSet(kept, resolveLocalPayloads(kept, payloadsOf), undecided = {}))
      BY <2>1 DEF LocalFirst
    <3> HIDE DEF call, kept, undecided
    <3> QED
      BY <1>2, <3>1 DEF Call
  <2> HIDE DEF call, kept
  <2>5. Decided(call)
    BY <2>3, <2>4 DEF Decided, Polled
  <2> QED
    BY <2>5 DEF call
<1>4. CASE ~(local /\ isReady)
  <2> DEFINE call == resolve(context)
  <2>1. call.context = context /\ call.version = snapshot /\ call.kept = <<>>
    <3>1. call = roundTrip(context, <<>>, Contexts[context].keys, emptyFlagSet)
          \/ call = Call("resolved", context, <<>>, {}, emptyFlagSet)
      BY <1>4 DEF resolve
    <3> HIDE DEF call
    <3> QED
      BY <1>2, <3>1 DEF Call
  <2> HIDE DEF call
  <2>2. Decided(call)
    BY <1>1, <2>1 DEF Decided, Polled
  <2> QED
    BY <2>2 DEF call
<1> QED
  BY <1>3, <1>4

LEMMA KeptStep == FlagsInv /\ KeptInv /\ [FlagsNext]_allVars => KeptInv'
<1> SUFFICES ASSUME FlagsInv, KeptInv, [FlagsNext]_allVars PROVE KeptInv'
  OBVIOUS
<1>1. UNCHANGED <<setup, client, seeded>>
  BY DEF FlagsNext, Poll, Evaluate, FlagServerAnswers, FlagServerFails, Settles, OnChange, Unsubscribe,
         allVars, flagVars, vars, Next, Publish, Start, TimerFires, Stop, ServerAnswers, LoadSettles
<1>2. config' = config /\ createFlagClient' = createFlagClient
  BY <1>1 DEF config, createFlagClient, buildLocalCapability
<1>3. calls = [c \in Callers |-> calls[c]] /\ Polled
  BY DEF FlagsInv, Answering
<1>4. \A c \in Callers : calls'[c] # Idle => Decided(calls'[c])
  <2>1. CASE UNCHANGED calls
    BY <2>1 DEF KeptInv
  <2>2. ASSUME NEW c \in Callers, NEW context \in config.contexts[c], Evaluate(c, context)
        PROVE  \A d \in Callers : calls'[d] # Idle => Decided(calls'[d])
    <3>1. context \in DOMAIN Contexts
      BY <1>3, <2>2, ContextsAssumption DEF Polled, config
    <3> DEFINE call == IF client = "noop" THEN Call("settled", context, <<>>, {}, emptyFlagSet)
                       ELSE resolve(context)
    <3>2. calls' = [calls EXCEPT ![c] = call]
      BY <2>2 DEF Evaluate
    <3>3. Decided(call)
      <4>1. CASE client = "noop"
        <5> DEFINE answer == Call("settled", context, <<>>, {}, emptyFlagSet)
        <5>1. answer.context = context /\ answer.version = snapshot /\ answer.kept = <<>>
          BY DEF Call
        <5>2. call = answer
          BY <4>1
        <5> HIDE DEF answer, call
        <5> QED
          BY <1>3, <3>1, <5>1, <5>2 DEF Decided, Polled
      <4>2. CASE client = "adapter"
        BY <1>3, <3>1, <4>2, KeepsDecisions
      <4> QED
        BY <1>3, <2>2, <4>1, <4>2 DEF Polled, Evaluate
    <3> HIDE DEF call
    <3> QED
      BY <1>3, <3>2, <3>3 DEF KeptInv
  <2>3. ASSUME NEW c \in Callers, FlagServerAnswers(c) \/ FlagServerFails(c) \/ Settles(c)
        PROVE  \A d \in Callers : calls'[d] # Idle => Decided(calls'[d])
    <3>1. PICK call : /\ calls' = [calls EXCEPT ![c] = call]
                      /\ call.context = calls[c].context /\ call.version = calls[c].version
                      /\ call.kept = calls[c].kept
      <4>1. CASE FlagServerAnswers(c)
        <5>1. PICK answer, remote :
                calls' = [calls EXCEPT ![c].phase = "resolved", ![c].answered = TRUE,
                                       ![c].answer = answer, ![c].set = Merged(@, remote)]
          BY <4>1 DEF FlagServerAnswers
        <5> DEFINE call == [calls[c] EXCEPT !.phase = "resolved", !.answered = TRUE, !.answer = answer,
                                            !.set = Merged(calls[c].set, remote)]
        <5>2. calls' = [calls EXCEPT ![c] = call]
          BY <5>1
        <5>3. call.context = calls[c].context /\ call.version = calls[c].version
              /\ call.kept = calls[c].kept
          OBVIOUS
        <5> QED
          BY <5>2, <5>3
      <4>2. CASE FlagServerFails(c)
        <5> DEFINE call == [calls[c] EXCEPT !.phase = "resolved", !.set = Merged(calls[c].set, Degraded)]
        <5>1. calls' = [calls EXCEPT ![c] = call]
          BY <4>2 DEF FlagServerFails
        <5>2. call.context = calls[c].context /\ call.version = calls[c].version
              /\ call.kept = calls[c].kept
          OBVIOUS
        <5> QED
          BY <5>1, <5>2
      <4>3. CASE Settles(c)
        <5> DEFINE set == buildFlagSet(calls[c].set)
                   phase == IF ~fired /\ Range(listeners) \cap config.throwing # {}
                            THEN "rejected" ELSE "settled"
                   call == [calls[c] EXCEPT !.phase = phase, !.set = set]
        <5>1. calls' = [calls EXCEPT ![c] = call]
          BY <4>3 DEF Settles
        <5>2. call.context = calls[c].context /\ call.version = calls[c].version
              /\ call.kept = calls[c].kept
          OBVIOUS
        <5> QED
          BY <5>1, <5>2
      <4> QED
        BY <2>3, <4>1, <4>2, <4>3
    <3>2. calls[c] # Idle
      <4>1. calls[c].phase \in {"asked", "resolved"}
        BY <2>3 DEF FlagServerAnswers, FlagServerFails, Settles
      <4> QED
        BY <4>1 DEF Idle
    <3>3. Decided(call)
      BY <3>1, <3>2 DEF KeptInv, Decided
    <3> QED
      BY <1>3, <3>1, <3>3 DEF KeptInv
  <2>4. UNCHANGED calls \/ (\E c \in Callers : \/ \E context \in config.contexts[c] : Evaluate(c, context)
                                               \/ FlagServerAnswers(c) \/ FlagServerFails(c) \/ Settles(c))
    BY DEF FlagsNext, Poll, OnChange, Unsubscribe, allVars, flagVars
  <2> QED
    BY <2>1, <2>2, <2>3, <2>4
<1>5. \A call : Decided(call) => Decided(call)'
  BY <1>1, <1>2 DEF Decided, SnapshotOf, EMPTY_SNAPSHOT
<1> QED
  BY <1>1, <1>2, <1>4, <1>5 DEF KeptInv, Idle

(* The definitions a client with decisions has read are well formed, and    *)
(* define each flag once: a static set was checked at its construction.     *)
LEMMA ReadsWellFormed ==
    ASSUME Polled, client = createFlagClient, client = "adapter",
           NEW version \in Version, DOMAIN SnapshotOf(version).flags # {}
    PROVE  /\ DefinedOnce(SnapshotOf(version)) /\ Numbered(SnapshotOf(version).cohorts)
           /\ \A i \in DOMAIN SnapshotOf(version).flags : WellFormed(SnapshotOf(version).flags[i])
<1> DEFINE read == SnapshotOf(version)
<1>1. version \in 1..MaxVersion
  <2>1. DOMAIN <<>> = {}
    OBVIOUS
  <2>2. version # 0
    BY <2>1 DEF SnapshotOf, EMPTY_SNAPSHOT
  <2> QED
    BY <2>2, PollerAssumption DEF Version
<1>2. CASE seeded
  <2> DEFINE definitions == config.definitions
  <2>1. read = lowerDefinitions(definitions)
    BY <1>1, <1>2 DEF SnapshotOf
  <2>2. validateDefinitions(definitions)
    BY <1>2 DEF Polled, createFlagClient
  <2>3. read \in StaticDefinitions
    BY <2>1 DEF StaticDefinitions, Polled, config
  <2>4. \A i \in DOMAIN read.flags : WellFormed(read.flags[i])
    BY <2>3, DefinitionsAssumption
  <2>5. DefinedOnce(read)
    <3>1. /\ DOMAIN read.flags = DOMAIN definitions
          /\ \A i \in DOMAIN definitions : read.flags[i].key = definitions[i].key
      BY <2>1 DEF lowerDefinitions, lowerDefinition
    <3>2. \A i, j \in DOMAIN definitions : definitions[i].key = definitions[j].key => i = j
      BY <2>2 DEF validateDefinitions
    <3> HIDE DEF read, definitions
    <3> QED
      BY <3>1, <3>2 DEF DefinedOnce
  <2>6. Numbered(read.cohorts)
    <3>1. read.cohorts = <<>>
      BY <2>1 DEF lowerDefinitions
    <3>2. Len(<<>>) = 0 /\ DOMAIN <<>> = {}
      OBVIOUS
    <3> HIDE DEF read
    <3> QED
      BY <3>1, <3>2 DEF Numbered, IsList
  <2> QED
    BY <2>4, <2>5, <2>6
<1>3. CASE ~seeded
  <2>1. read = Generations[version]
    BY <1>1, <1>3 DEF SnapshotOf
  <2>2. read \in FetchedDefinitions
    BY <1>1, <2>1, FlagsAssumption DEF FetchedDefinitions
  <2> QED
    BY <2>2, DefinitionsAssumption
<1> QED
  BY <1>2, <1>3

(* LocalFlags!DecisionStands ("never wrong"): what this process decides     *)
(* from the properties it is given, all the properties would not turn from  *)
(* on to off or from off to on.                                             *)
THEOREM LocalDecisionStands == FlagsSpec => []DecisionStands
<1>1. FlagsInit => KeptInv
  BY DEF FlagsInit, KeptInv, Idle
<1>2. FlagsSpec => []KeptInv
  BY <1>1, KeptStep, LocalInvariant, PTL DEF FlagsSpec
<1>3. FlagsInv /\ KeptInv => DecisionStands
  <2> SUFFICES ASSUME FlagsInv, KeptInv, NEW c \in Callers, calls[c] # Idle,
                      NEW i \in DOMAIN SnapshotOf(calls[c].version).flags
               PROVE  LET read == SnapshotOf(calls[c].version)
                          definition == read.flags[i]
                          whole == Contexts[calls[c].context].whole
                      IN  definition.key \in DOMAIN calls[c].kept /\ ~UsesAbsence(definition, read.cohorts) =>
                            (calls[c].kept[definition.key] = "off")
                                = (computeFlagLocally(definition, whole, read) = "off")
    BY DEF DecisionStands
  <2> DEFINE read == SnapshotOf(calls[c].version)
             definition == read.flags[i]
             actor == Contexts[calls[c].context].actor
             whole == Contexts[calls[c].context].whole
  <2>1. SUFFICES ASSUME definition.key \in DOMAIN calls[c].kept, ~UsesAbsence(definition, read.cohorts)
                 PROVE  (calls[c].kept[definition.key] = "off")
                            = (computeFlagLocally(definition, whole, read) = "off")
    OBVIOUS
  <2>2. Decided(calls[c])
    BY DEF KeptInv
  <2>3. client = "adapter" /\ calls[c].version \in Version /\ IsWholeActor(whole, actor)
    BY <2>1, <2>2, ContextsAssumption DEF Decided
  <2>4. /\ DefinedOnce(read) /\ Numbered(read.cohorts)
        /\ \A j \in DOMAIN read.flags : WellFormed(read.flags[j])
    BY <2>3, ReadsWellFormed DEF FlagsInv, KeptInv
  <2>5. PICK j \in DOMAIN read.flags :
          /\ read.flags[j].key = definition.key
          /\ calls[c].kept[definition.key] = computeFlagLocally(read.flags[j], actor, read)
    BY <2>1, <2>2 DEF Decided
  <2>6. j = i
    BY <2>4, <2>5 DEF DefinedOnce
  <2>7. /\ calls[c].kept[definition.key] = computeFlagLocally(definition, actor, read)
        /\ calls[c].kept[definition.key] \notin Undecided
    BY <2>1, <2>2, <2>5, <2>6 DEF Decided
  <2>8. WellFormed(definition)
    BY <2>4
  <2> HIDE DEF definition, read, actor, whole
  <2>9. computeFlagLocally(definition, actor, read) = "off"
          <=> computeFlagLocally(definition, whole, read) = "off"
    BY <2>1, <2>3, <2>4, <2>7, <2>8, FlagStands, ContextsAssumption
  <2> QED
    BY <2>7, <2>9, Zenon
<1> QED
  BY <1>2, <1>3, LocalInvariant, PTL

---------------------------------------------------------------------------
(* The variants' bands: the recursion of their ends has a solution, and     *)
(* they are laid one behind the other.                                      *)
LEMMA BandsUnfold ==
    ASSUME NEW variants, IsList(variants)
    PROVE  /\ bandEnd(variants, 0) = 0
           /\ \A i \in DOMAIN variants :
                 bandEnd(variants, i) = bandEnd(variants, i - 1) + variants[i].rollout
<1> DEFINE N == Len(variants)
           Next1(f, i) == IF i = 0 THEN 0 ELSE f[i - 1] + variants[i].rollout
           Solves(k, f) == \A i \in 0..k : f[i] = Next1(f, i)
           Unsolved == {k \in 0..N : ~ \E f : Solves(k, f)}
<1>0. N \in Nat /\ DOMAIN variants = 1..N
  BY DEF IsList
<1> HIDE DEF N
<1>1. Unsolved = {}
  <2> SUFFICES ASSUME Unsolved # {} PROVE FALSE
    OBVIOUS
  <2>1. PICK k \in Unsolved : \A m \in Unsolved : k <= m
    <3>1. Unsolved \in SUBSET Nat
      BY <1>0
    <3> HIDE DEF Unsolved
    <3> QED
      BY <3>1, LeastNatural
  <2>2. k \in 0..N /\ ~ \E f : Solves(k, f)
    BY <2>1
  <2>3. k # 0
    <3> DEFINE f == [i \in 0..0 |-> 0]
    <3>1. Solves(0, f)
      OBVIOUS
    <3> QED
      BY <2>2, <3>1
  <2>4. k - 1 \in 0..N /\ k - 1 \notin Unsolved
    <3> HIDE DEF Unsolved
    <3>1. k - 1 \in 0..N /\ ~ (k <= k - 1)
      BY <1>0, <2>2, <2>3
    <3> QED
      BY <2>1, <3>1
  <2>5. PICK f : Solves(k - 1, f)
    BY <2>4
  <2> DEFINE h == [i \in 0..k |-> Next1(f, i)]
  <2>6. ASSUME NEW i \in 0..k
        PROVE  h[i] = Next1(h, i)
    <3>1. CASE i = 0
      BY <3>1
    <3>2. CASE i # 0
      <4>1. i - 1 \in 0 .. k - 1 /\ i - 1 \in 0..k
        BY <1>0, <2>2, <3>2
      <4>2. f[i - 1] = h[i - 1]
        BY <2>5, <4>1
      <4>3. h[i] = f[i - 1] + variants[i].rollout
        BY <3>2
      <4> HIDE DEF h
      <4> QED
        BY <3>2, <4>2, <4>3
    <3> QED
      BY <3>1, <3>2
  <2>7. Solves(k, h)
    BY <2>6
  <2> HIDE DEF h, Solves
  <2> QED
    BY <2>2, <2>7
<1>2. PICK f : Solves(N, f)
  <2>1. N \in 0..N /\ N \notin Unsolved
    BY <1>0, <1>1
  <2>2. \E f : Solves(N, f)
    BY <2>1
  <2> QED
    BY <2>2
<1> DEFINE h == [i \in 0..N |-> f[i]]
           end == CHOOSE e : e = [i \in 0..N |-> IF i = 0 THEN 0 ELSE e[i - 1] + variants[i].rollout]
<1>3. h = [i \in 0..N |-> IF i = 0 THEN 0 ELSE h[i - 1] + variants[i].rollout]
  <2>1. ASSUME NEW i \in 0..N
        PROVE  f[i] = IF i = 0 THEN 0 ELSE h[i - 1] + variants[i].rollout
    <3>1. i # 0 => i - 1 \in 0..N
      BY <1>0
    <3> QED
      BY <1>2, <3>1
  <2> QED
    BY <2>1
<1> HIDE DEF h
<1>4. end = [i \in 0..N |-> IF i = 0 THEN 0 ELSE end[i - 1] + variants[i].rollout]
  BY <1>3
<1>5. \A i : bandEnd(variants, i) = end[i]
  BY DEF bandEnd, N
<1> HIDE DEF end
<1>6. end[0] = 0 /\ \A i \in 1..N : end[i] = end[i - 1] + variants[i].rollout
  BY <1>0, <1>4
<1> QED
  BY <1>0, <1>5, <1>6

LEMMA BandsInOrder ==
    ASSUME NEW variants, IsList(variants), \A i \in DOMAIN variants : variants[i].rollout \in Nat,
           NEW n \in 0..Len(variants)
    PROVE  bandEnd(variants, n) \in Nat
           /\ \A m \in 0..n : bandEnd(variants, m) \in Nat /\ bandEnd(variants, m) <= bandEnd(variants, n)
<1> DEFINE N == Len(variants)
           Holds(k) == bandEnd(variants, k) \in Nat
                       /\ \A m \in 0..k : /\ bandEnd(variants, m) \in Nat
                                          /\ bandEnd(variants, m) <= bandEnd(variants, k)
           Wrong == {k \in 0..N : ~Holds(k)}
<1>0. N \in Nat /\ DOMAIN variants = 1..N
  BY DEF IsList
<1> HIDE DEF N
<1> SUFFICES ASSUME Wrong # {} PROVE FALSE
  BY DEF N
<1>1. PICK k \in Wrong : \A m \in Wrong : k <= m
  <2>1. Wrong \in SUBSET Nat
    BY <1>0
  <2> HIDE DEF Wrong
  <2> QED
    BY <2>1, LeastNatural
<1>2. k \in 0..N /\ ~Holds(k)
  BY <1>1
<1>3. CASE k = 0
  BY <1>2, <1>3, BandsUnfold
<1>4. CASE k # 0
  <2>1. k \in DOMAIN variants /\ k - 1 \in 0..N /\ ~ (k <= k - 1)
    BY <1>0, <1>2, <1>4
  <2>2. Holds(k - 1)
    <3> HIDE DEF Holds
    <3> QED
      BY <1>1, <2>1
  <2>3. bandEnd(variants, k) = bandEnd(variants, k - 1) + variants[k].rollout
    BY <2>1, BandsUnfold
  <2>4. variants[k].rollout \in Nat
    BY <2>1
  <2>5. bandEnd(variants, k) \in Nat /\ bandEnd(variants, k - 1) <= bandEnd(variants, k)
    BY <2>2, <2>3, <2>4
  <2>6. ASSUME NEW m \in 0..k
        PROVE  bandEnd(variants, m) \in Nat /\ bandEnd(variants, m) <= bandEnd(variants, k)
    <3>1. m = k \/ m \in 0 .. k - 1
      BY <1>0, <1>2
    <3> QED
      BY <2>2, <2>5, <3>1
  <2> QED
    BY <1>2, <2>5, <2>6
<1> QED
  BY <1>3, <1>4

(* Of valid variants, one that is declared once has the buckets of its band.*)
LEMMA ShareOfOne ==
    ASSUME NEW variants, IsList(variants), validVariants(variants),
           \A i \in DOMAIN variants : variants[i].key # "on",
           NEW j \in DOMAIN variants,
           \A k \in DOMAIN variants : variants[k].key = variants[j].key => k = j
    PROVE  Cardinality({b \in 0..99 : getMatchingVariant(variants, b) = variants[j].key})
               = variants[j].rollout
<1> DEFINE N == Len(variants)
           from == bandEnd(variants, j - 1)
           to == bandEnd(variants, j)
           Bands(b) == {i \in DOMAIN variants :
                           bandEnd(variants, i - 1) <= b /\ b < bandEnd(variants, i)}
<1>0. N \in Nat /\ DOMAIN variants = 1..N
  BY DEF IsList
<1>1. \A i \in DOMAIN variants : variants[i].rollout \in Nat
  <2>1. \A i \in DOMAIN variants : InRolloutRange(variants[i].rollout)
    BY DEF validVariants
  <2>2. \A i \in DOMAIN variants : variants[i].rollout \in 0..100
    BY <2>1 DEF InRolloutRange
  <2>3. \A n \in 0..100 : n \in Nat
    OBVIOUS
  <2> QED
    BY ONLY <2>2, <2>3
<1>2. \A n \in 0..N : bandEnd(variants, n) \in Nat
                      /\ \A m \in 0..n : bandEnd(variants, m) <= bandEnd(variants, n)
  BY <1>1, BandsInOrder
<1>3. bandEnd(variants, N) <= 100
  BY DEF validVariants
<1>4. j \in 1..N /\ j \in 0..N /\ j - 1 \in 0..N /\ N \in 0..N /\ j \in 0..N
  BY <1>0
<1>5. from \in Nat /\ to \in Nat /\ to <= 100 /\ to = from + variants[j].rollout
  BY <1>2, <1>3, <1>4, BandsUnfold
<1> HIDE DEF N
<1>6. ASSUME NEW b \in 0..99
      PROVE  getMatchingVariant(variants, b) = variants[j].key <=> b \in from .. to - 1
  <2>1. getMatchingVariant(variants, b) = IF Bands(b) = {} THEN "on" ELSE variants[First(Bands(b))].key
    BY DEF getMatchingVariant
  <2>2. Bands(b) \in SUBSET Nat /\ Bands(b) \subseteq DOMAIN variants
    BY <1>0
  <2>3. j \in Bands(b) <=> b \in from .. to - 1
    BY <1>5
  <2>4. ASSUME NEW i \in Bands(b), NEW k \in Bands(b), i < k
        PROVE  FALSE
    <3>1. /\ i \in 0..N /\ k - 1 \in 0..N /\ i \in 0 .. k - 1
          /\ b < bandEnd(variants, i) /\ bandEnd(variants, k - 1) <= b
      BY <1>0, <2>4
    <3>2. /\ bandEnd(variants, i) \in Nat /\ bandEnd(variants, k - 1) \in Nat
          /\ bandEnd(variants, i) <= bandEnd(variants, k - 1)
      BY <1>2, <3>1
    <3> QED
      BY <3>1, <3>2
  <2> HIDE DEF Bands
  <2>5. CASE Bands(b) = {}
    BY <2>1, <2>3, <2>5
  <2>6. CASE Bands(b) # {}
    <3> DEFINE i == First(Bands(b))
    <3>1. i \in Bands(b) /\ i \in DOMAIN variants /\ getMatchingVariant(variants, b) = variants[i].key
      BY <2>1, <2>2, <2>6, HasFirst
    <3> HIDE DEF i
    <3>2. j \in Bands(b) => i = j
      <4> SUFFICES ASSUME j \in Bands(b), i # j PROVE FALSE
        OBVIOUS
      <4>1. i \in Nat /\ j \in Nat /\ (i < j \/ j < i)
        BY <1>0, <1>4, <3>1
      <4> QED
        BY <2>4, <3>1, <4>1
    <3>3. variants[i].key = variants[j].key <=> i = j
      BY <3>1
    <3> QED
      BY <2>3, <3>1, <3>2, <3>3
  <2> QED
    BY <2>5, <2>6
<1>7. {b \in 0..99 : getMatchingVariant(variants, b) = variants[j].key} = from .. to - 1
  <2>1. \A b \in from .. to - 1 : b \in 0..99
    BY <1>5
  <2> HIDE DEF from, to
  <2> QED
    BY <1>6, <2>1
<1>8. Cardinality(from .. to - 1) = IF from > to - 1 THEN 0 ELSE (to - 1) - from + 1
  <2>1. from \in Int /\ to - 1 \in Int
    BY <1>5
  <2> HIDE DEF from, to
  <2> QED
    BY <2>1, FS_Interval
<1>9. variants[j].rollout \in Nat
  BY <1>1
<1> HIDE DEF from, to
<1>10. Cardinality(from .. to - 1) = variants[j].rollout
  BY <1>5, <1>8, <1>9
<1> QED
  BY <1>7, <1>10

(* LocalFlags!VariantsGetTheirShare, whatever the variants and their shares.*)
THEOREM SharesAreServed == FlagsSpec => []VariantsGetTheirShare
<1>1. FlagsInv /\ KeptInv => VariantsGetTheirShare
  <2> SUFFICES ASSUME FlagsInv, KeptInv, client = "adapter", NEW i \in DOMAIN SnapshotOf(snapshot).flags
               PROVE  LET variants == SnapshotOf(snapshot).flags[i].variants
                      IN  /\ seeded => validVariants(variants)
                          /\ validVariants(variants) =>
                               \A j \in DOMAIN variants :
                                  (\A k \in DOMAIN variants : variants[k].key = variants[j].key => k = j) =>
                                     Cardinality({b \in 0..99 : getMatchingVariant(variants, b) = variants[j].key})
                                         = variants[j].rollout
    BY DEF VariantsGetTheirShare
  <2> DEFINE definition == SnapshotOf(snapshot).flags[i]
             variants == definition.variants
  <2>1. WellFormed(definition)
    BY ReadsWellFormed DEF FlagsInv, KeptInv, Polled
  <2>2. seeded => validVariants(variants)
    <3> SUFFICES ASSUME seeded PROVE validVariants(variants)
      OBVIOUS
    <3>1. validateDefinitions(config.definitions)
      BY DEF FlagsInv, Polled, KeptInv, createFlagClient
    <3>2. snapshot # 0
      BY DEF SnapshotOf, EMPTY_SNAPSHOT
    <3>3. SnapshotOf(snapshot).flags
            = [n \in DOMAIN config.definitions |-> lowerDefinition(config.definitions[n])]
      BY <3>2 DEF SnapshotOf, lowerDefinitions
    <3>4. i \in DOMAIN config.definitions /\ variants = config.definitions[i].variants
      BY <3>3 DEF lowerDefinition
    <3> QED
      BY <3>1, <3>4 DEF validateDefinitions
  <2> HIDE DEF definition
  <2>3. IsList(variants) /\ \A k \in DOMAIN variants : variants[k].key # "on"
    BY <2>1 DEF WellFormed
  <2> HIDE DEF variants
  <2>4. validVariants(variants) =>
          \A j \in DOMAIN variants :
             (\A k \in DOMAIN variants : variants[k].key = variants[j].key => k = j) =>
                Cardinality({b \in 0..99 : getMatchingVariant(variants, b) = variants[j].key})
                    = variants[j].rollout
    BY <2>3, ShareOfOne
  <2> QED
    BY <2>2, <2>4 DEF variants, definition
<1>2. FlagsInit => KeptInv
  BY DEF FlagsInit, KeptInv, Idle
<1> QED
  BY <1>1, <1>2, KeptStep, LocalInvariant, PTL DEF FlagsSpec
=============================================================================
