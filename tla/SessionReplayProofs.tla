------------------------ MODULE SessionReplayProofs ------------------------
(* For every number of sessions, snapshots, restarts and reloads, and every *)
(* choice of the sampling hash: the recorder never leaves a recording       *)
(* running that it cannot stop, the verdict of a session decides on its     *)
(* snapshots, and the records kept per session agree.                       *)
EXTENDS SessionReplay, FiniteSetTheorems, TLAPS

(* TypeOK, member by member.                                                *)
Typed ==
    /\ sessions \in 0..MaxSessions /\ sampledIn \subseteq Session
    /\ storedSession \in 0..sessions /\ carried \in 0..sessions
    /\ entry \in [session : 0..sessions, first : BOOLEAN]
    /\ lastSeenSessionId \in 0..sessions /\ currentPageview \in 0..sessions
    /\ keyedSessionId \in 0..sessions
    /\ started \in BOOLEAN /\ unsubscribe \in BOOLEAN
    /\ sampled \in {"pending", "yes", "no"}
    /\ segmentToken \in Nat /\ handle \in 0..segmentToken
    /\ loads \subseteq 1..segmentToken /\ recordings \subseteq 1..segmentToken
    /\ listeners \in 0..starts /\ (unsubscribe => listeners > 0)
    /\ snapshots \in 0..MaxSnapshots /\ starts \in 0..MaxStarts /\ reloads \in 0..MaxReloads
    /\ origin \in [Snapshot -> 0..sessions]
    /\ sent \subseteq (1..snapshots) \X (1..sessions)
    /\ buffer \subseteq 1..snapshots /\ cut \subseteq 1..snapshots

(* A live segment is that of the newest token, whose import is over.        *)
LiveSegment ==
    handle # 0 => started /\ handle = segmentToken /\ handle \notin loads

(* The verdict is that of the session the segment is keyed to; a segment    *)
(* that was ever loaded in this page is keyed to the session last seen.     *)
Keyed ==
    /\ started => unsubscribe /\ sampled = decideSampled(keyedSessionId)
    /\ segmentToken # 0 => lastSeenSessionId # 0
    /\ started /\ segmentToken # 0 => keyedSessionId = lastSeenSessionId

(* A session in the store is the one last seen, or, until the page has seen *)
(* one, the one that it was loaded with.                                    *)
StoredAgrees ==
    storedSession \in {0, IF lastSeenSessionId = 0 THEN carried ELSE lastSeenSessionId}

(* Where a snapshot may be: each in one place, the buffer's of the session  *)
(* the live segment is keyed to, and the places hold the sampled-in ones.   *)
SentNumbers == {s[1] : s \in sent}

Places ==
    /\ buffer # {} => handle # 0
    /\ \A n \in buffer : origin[n] = keyedSessionId
    /\ SentNumbers \cap buffer = {} /\ SentNumbers \cap cut = {} /\ buffer \cap cut = {}
    /\ \A s, t \in sent : s[1] = t[1] => s = t
    /\ \A n \in 1..snapshots : origin[n] \in sampledIn => n \in SentNumbers \cup buffer \cup cut

SegmentInv == OneRecording /\ LiveSegment /\ Keyed

ReplayInv ==
    /\ Typed
    /\ SessionRecordsAgree /\ StoredAgrees
    /\ SegmentInv
    /\ Places
    /\ SampledOutNeverSent

---------------------------------------------------------------------------
LEMMA BoundsAreNaturals ==
    MaxSessions \in Nat /\ MaxSnapshots \in Nat /\ MaxStarts \in Nat /\ MaxReloads \in Nat
BY SessionReplayAssumption

LEMMA TypedIsTypeOK == Typed => TypeOK
<1> SUFFICES ASSUME Typed PROVE TypeOK
  OBVIOUS
<1>1. {started, unsubscribe} \subseteq BOOLEAN
  BY Zenon DEF Typed
<1> QED
  BY <1>1 DEF Typed, TypeOK

LEMMA ReplayInit == Init => ReplayInv
<1> SUFFICES ASSUME Init PROVE ReplayInv
  OBVIOUS
<1>1. origin \in [Snapshot -> 0..sessions]
  BY DEF Init
<1>2. loads \subseteq 1..segmentToken /\ recordings \subseteq 1..segmentToken
      /\ sent \subseteq (1..snapshots) \X (1..sessions)
      /\ buffer \subseteq 1..snapshots /\ cut \subseteq 1..snapshots /\ sampledIn \subseteq Session
  BY DEF Init
<1>3. sessions = 0 /\ storedSession = 0 /\ carried = 0 /\ lastSeenSessionId = 0
      /\ currentPageview = 0 /\ keyedSessionId = 0
      /\ started \in BOOLEAN /\ unsubscribe \in BOOLEAN /\ ~unsubscribe /\ sampled = "pending"
      /\ segmentToken = 0 /\ handle = 0 /\ listeners = 0
      /\ snapshots = 0 /\ starts = 0 /\ reloads = 0
  BY DEF Init
<1>4. entry \in [session : 0..sessions, first : BOOLEAN]
  <2>1. entry = [session |-> 0, first |-> TRUE] /\ 0 \in 0..sessions
    BY <1>3 DEF Init, NoEntry
  <2> QED
    BY <2>1
<1>5. Typed
  BY <1>1, <1>2, <1>3, <1>4, BoundsAreNaturals DEF Typed
<1> QED
  BY <1>5 DEF Init, ReplayInv, SessionRecordsAgree, StoredAgrees, SegmentInv, OneRecording,
     LiveSegment, Keyed, Places, SentNumbers, SampledOutNeverSent

(* A flush moves the live buffer among what was sent when the session it is *)
(* of was sampled in; otherwise it drops it, and nothing of it was to be    *)
(* sent.                                                                    *)
LEMMA Flushing ==
    ASSUME ReplayInv, NEW reported, NEW limit \in Nat, sessions <= limit,
           handle # 0 => reported \in 1..limit
    PROVE  LET after == Flushed(reported)
               numbers == {s[1] : s \in after}
           IN  /\ after \subseteq (1..snapshots) \X (1..limit)
               /\ numbers \cap cut = {}
               /\ \A s, t \in after : s[1] = t[1] => s = t
               /\ \A n \in 1..snapshots : origin[n] \in sampledIn => n \in numbers \cup cut
               /\ \A s \in after : origin[s[1]] \in sampledIn
<1> DEFINE after == Flushed(reported)
           numbers == {s[1] : s \in after}
           flushed == {<<n, reported>> : n \in buffer}
<1>1. sent \subseteq (1..snapshots) \X (1..limit) /\ buffer \subseteq 1..snapshots
      /\ sessions \in Nat
  BY BoundsAreNaturals DEF ReplayInv, Typed
<1>2. CASE handle # 0 /\ sampled = "yes"
  <2>1. after = sent \cup flushed
    BY <1>2 DEF Flushed
  <2>2. keyedSessionId \in sampledIn
    BY <1>2 DEF ReplayInv, SegmentInv, LiveSegment, Keyed, decideSampled
  <2>3. \A s \in flushed : s[1] \in buffer /\ s = <<s[1], reported>>
    OBVIOUS
  <2>4. numbers = SentNumbers \cup buffer
    <3>1. \A n \in buffer : <<n, reported>> \in flushed /\ <<n, reported>>[1] = n
      OBVIOUS
    <3>2. \A s \in sent : s[1] \in numbers
      BY <2>1
    <3>3. \A n \in buffer : n \in numbers
      BY <2>1, <3>1
    <3>4. \A s \in after : s[1] \in SentNumbers \cup buffer
      BY <2>1, <2>3 DEF SentNumbers
    <3> HIDE DEF after, flushed
    <3> QED
      BY <3>2, <3>3, <3>4 DEF SentNumbers
  <2>5. \A s \in sent : s[1] \in SentNumbers
    BY DEF SentNumbers
  <2>6. after \subseteq (1..snapshots) \X (1..limit)
    BY <2>1, <1>1, <1>2
  <2>7. \A s, t \in after : s[1] = t[1] => s = t
    <3> SUFFICES ASSUME NEW s \in after, NEW t \in after, s[1] = t[1] PROVE s = t
      OBVIOUS
    <3>1. CASE s \in sent /\ t \in sent
      BY <3>1 DEF ReplayInv, Places
    <3>2. CASE s \in flushed /\ t \in flushed
      BY <3>2, <2>3
    <3>3. ~ (s \in sent /\ t \in flushed) /\ ~ (s \in flushed /\ t \in sent)
      BY <2>3, <2>5 DEF ReplayInv, Places
    <3> QED
      BY <3>1, <3>2, <3>3, <2>1
  <2>8. \A s \in after : origin[s[1]] \in sampledIn
    BY <2>1, <2>2, <2>3 DEF ReplayInv, Places, SampledOutNeverSent
  <2> QED
    BY <2>4, <2>6, <2>7, <2>8 DEF ReplayInv, Places
<1>3. CASE ~ (handle # 0 /\ sampled = "yes")
  <2>1. after = sent /\ numbers = SentNumbers
    BY <1>3 DEF Flushed, SentNumbers
  <2>2. \A n \in buffer : origin[n] \notin sampledIn
    BY <1>3 DEF ReplayInv, Places, SegmentInv, LiveSegment, Keyed, decideSampled
  <2> QED
    BY <1>1, <2>1, <2>2 DEF ReplayInv, Places, SampledOutNeverSent
<1> QED
  BY <1>2, <1>3

---------------------------------------------------------------------------
(* What a capture does to the segment of a rotation.                        *)
Rekeyed ==
    /\ started
    /\ sent' = Flushed(lastSeenSessionId')
    /\ recordings' = recordings \ {handle}
    /\ handle' = 0 /\ buffer' = {}
    /\ keyedSessionId' = lastSeenSessionId'
    /\ sampled' = decideSampled(lastSeenSessionId')
    /\ beginSegment(decideSampled(lastSeenSessionId'))

(* A capture stamps a session not older than the stored one; it re-keys an  *)
(* active recorder exactly when the session changes under it.               *)
LEMMA CaptureCases ==
    ASSUME ReplayInv, NEW expired \in BOOLEAN, NEW isPageView \in BOOLEAN,
           Capture(expired, isPageView)
    PROVE  /\ sessions' \in 0..MaxSessions /\ sessions <= sessions'
           /\ lastSeenSessionId' \in 1..sessions' /\ lastSeenSessionId' # 0
           /\ storedSession' = lastSeenSessionId'
           /\ UNCHANGED <<sampledIn, started, subscription, history>>
           /\ \/ /\ lastSeenSessionId' = lastSeenSessionId /\ storedSession # 0
                 /\ entry' = entry /\ currentPageview' \in {currentPageview, lastSeenSessionId'}
                 /\ UNCHANGED segment
              \/ /\ lastSeenSessionId' # lastSeenSessionId
                 /\ entry' = [session |-> lastSeenSessionId', first |-> lastSeenSessionId' # carried]
                 /\ currentPageview' \in {0, lastSeenSessionId'}
                 /\ \/ UNCHANGED segment /\ (started => lastSeenSessionId = 0)
                    \/ Rekeyed
<1> DEFINE session == CheckedSessionId(expired)
<1>1. session \in Session /\ storedSession' = session /\ lastSeenSessionId' = session
      /\ sessions' = (IF session > sessions THEN session ELSE sessions)
      /\ UNCHANGED <<sampledIn, started, subscription, history>>
  BY DEF Capture
<1>2. session = sessions + 1 \/ (session = storedSession /\ storedSession # 0)
  BY DEF CheckedSessionId
<1>3. sessions \in Nat /\ storedSession \in 0..sessions /\ lastSeenSessionId \in 0..sessions
  BY BoundsAreNaturals DEF ReplayInv, Typed
<1>4. sessions' \in 0..MaxSessions /\ sessions <= sessions' /\ lastSeenSessionId' \in 1..sessions'
      /\ lastSeenSessionId' # 0
  <2> HIDE DEF session
  <2> QED
    BY <1>1, <1>2, <1>3, BoundsAreNaturals DEF Session, ReplayInv, Typed
<1>5. CASE session = lastSeenSessionId
  <2>1. storedSession # 0 /\ lastSeenSessionId # 0
    BY <1>1, <1>2, <1>3, <1>5, BoundsAreNaturals DEF Session
  <2> QED
    BY <1>1, <1>4, <1>5, <2>1 DEF Capture, Transition
<1>6. CASE session # lastSeenSessionId
  <2>1. entry' = [session |-> session, first |-> session > sessions]
        /\ currentPageview' \in {0, session}
    BY <1>6 DEF Capture, Transition, ReplayInv, SessionRecordsAgree
  <2>4. (session > sessions) = (session # carried)
    <3>1. carried \in 0..sessions /\ lastSeenSessionId # session
      BY <1>6 DEF ReplayInv, Typed
    <3>2. session = sessions + 1 \/ (session = carried /\ session <= sessions)
      BY <1>2, <1>3, <3>1 DEF ReplayInv, StoredAgrees
    <3> HIDE DEF session
    <3> QED
      BY <1>3, <3>1, <3>2
  <2>2. started => listeners > 0 /\ session # keyedSessionId
    BY <1>1, <1>6, BoundsAreNaturals DEF ReplayInv, Typed, SegmentInv, Keyed, SessionRecordsAgree, Session
  <2>3. (UNCHANGED segment /\ (started => lastSeenSessionId = 0)) \/ Rekeyed
    BY <1>1, <1>6, <2>2 DEF Capture, Transition, handleRotation, Rekeyed
  <2> QED
    BY <1>1, <1>4, <1>6, <2>1, <2>3, <2>4
<1> QED
  BY <1>5, <1>6

---------------------------------------------------------------------------
(* One lemma per conjunct of the invariant; each has one step per action.   *)
LEMMA SegmentTokens ==
    ASSUME Typed, NEW verdict, beginSegment(verdict)
    PROVE  /\ segmentToken' \in Nat /\ segmentToken <= segmentToken'
           /\ loads' \subseteq 1..segmentToken' /\ 1..segmentToken \subseteq 1..segmentToken'
<1>1. segmentToken \in Nat /\ loads \subseteq 1..segmentToken
  BY DEF Typed
<1>2. CASE verdict = "yes"
  <2>1. segmentToken' = segmentToken + 1 /\ loads' = loads \cup {segmentToken + 1}
    BY <1>2 DEF beginSegment
  <2> QED
    BY <1>1, <2>1
<1>3. CASE verdict # "yes"
  <2>1. segmentToken' = segmentToken /\ loads' = loads
    BY <1>3 DEF beginSegment
  <2> QED
    BY <1>1, <2>1
<1> QED
  BY <1>2, <1>3

LEMMA TypeStep == ReplayInv /\ [Next]_vars => Typed'
<1> SUFFICES ASSUME ReplayInv, [Next]_vars PROVE Typed'
  OBVIOUS
<1> USE BoundsAreNaturals DEF Session, Snapshot
<1>0. Typed /\ SegmentInv
  BY DEF ReplayInv
<1>f. /\ sessions \in Nat /\ segmentToken \in Nat /\ snapshots \in Nat /\ starts \in Nat
      /\ handle # 0 => lastSeenSessionId \in 1..sessions
      /\ sent \subseteq (1..snapshots) \X (1..sessions)
  BY <1>0 DEF Typed, SegmentInv, LiveSegment, Keyed
<1>1. ASSUME NEW expired \in BOOLEAN, NEW isPageView \in BOOLEAN, Capture(expired, isPageView)
      PROVE  Typed'
  <2>1. /\ sessions' \in 0..MaxSessions /\ sessions <= sessions'
        /\ lastSeenSessionId' \in 1..sessions' /\ storedSession' \in 0..sessions'
        /\ UNCHANGED <<sampledIn, started, subscription, history>>
        /\ currentPageview' \in 0..sessions'
    BY <1>0, <1>1, CaptureCases DEF Typed
  <2>5. entry' \in [session : 0..sessions', first : BOOLEAN] /\ carried' \in 0..sessions'
    <3>1. 0..sessions \subseteq 0..sessions' /\ carried' = carried
      BY <1>f, <2>1 DEF history
    <3>2. entry' = entry \/ entry' = [session |-> lastSeenSessionId', first |-> lastSeenSessionId' # carried]
      BY <1>1, CaptureCases
    <3>3. lastSeenSessionId' \in 0..sessions'
      BY <1>f, <2>1
    <3>4. (lastSeenSessionId' # carried) \in BOOLEAN
      BY Zenon
    <3>5. entry \in [session : 0..sessions, first : BOOLEAN] /\ carried \in 0..sessions
      BY <1>0 DEF Typed
    <3>6. CASE entry' = entry
      BY <3>1, <3>5, <3>6
    <3>7. CASE entry' = [session |-> lastSeenSessionId', first |-> lastSeenSessionId' # carried]
      <4> DEFINE first == lastSeenSessionId' # carried
      <4>1. entry' = [session |-> lastSeenSessionId', first |-> first] /\ first \in BOOLEAN
        BY <3>4, <3>7, Zenon
      <4> HIDE DEF first
      <4> QED
        BY <3>1, <3>3, <3>5, <4>1
    <3> QED
      BY <3>2, <3>6, <3>7
  <2>2. origin' \in [Snapshot -> 0..sessions']
    BY <1>0, <1>f, <2>1 DEF Typed, history
  <2>3. CASE UNCHANGED segment
    BY <1>0, <1>f, <2>1, <2>2, <2>3, <2>5 DEF Typed, segment, subscription, history
  <2>4. CASE Rekeyed
    <3>1. sent' \subseteq (1..snapshots) \X (1..sessions')
      BY <1>1, <2>1, <2>4, Flushing DEF Rekeyed
    <3>2. /\ keyedSessionId' \in 0..sessions' /\ sampled' \in {"pending", "yes", "no"}
          /\ handle' = 0 /\ buffer' = {}
      BY <2>1, <2>4 DEF Rekeyed, decideSampled
    <3>3. /\ segmentToken' \in Nat /\ loads' \subseteq 1..segmentToken'
          /\ 1..segmentToken \subseteq 1..segmentToken'
      BY <1>0, <2>4, SegmentTokens DEF Rekeyed
    <3>4. recordings' \subseteq 1..segmentToken'
      BY <1>0, <2>4, <3>3 DEF Typed, Rekeyed
    <3>5. /\ UNCHANGED <<sampledIn, started, unsubscribe, listeners, snapshots, starts, reloads, cut>>
          /\ handle' \in 0..segmentToken' /\ buffer' \subseteq 1..snapshots
      BY <2>1, <3>2, <3>3 DEF subscription, history
    <3>6. /\ lastSeenSessionId' \in 0..sessions' /\ currentPageview' \in 0..sessions'
          /\ sampledIn' \subseteq Session /\ started' \in BOOLEAN /\ unsubscribe' \in BOOLEAN
          /\ listeners' \in 0..starts' /\ (unsubscribe' => listeners' > 0)
          /\ snapshots' \in 0..MaxSnapshots /\ starts' \in 0..MaxStarts /\ reloads' \in 0..MaxReloads
          /\ buffer' \subseteq 1..snapshots' /\ cut' \subseteq 1..snapshots'
      BY <1>0, <2>1, <3>5 DEF Typed
    <3> QED
      BY <2>1, <2>2, <2>5, <3>1, <3>2, <3>3, <3>4, <3>5, <3>6 DEF Typed
  <2> QED
    BY <1>1, <2>3, <2>4, CaptureCases
<1>2. CASE Reset
  BY <1>0, <1>2 DEF Reset, NoEntry, Typed, adapter, recorder, segment, subscription, history
<1>3. CASE Start
  <2>1. /\ keyedSessionId' \in 0..sessions' /\ sampled' \in {"pending", "yes", "no"}
        /\ starts' \in 0..MaxStarts /\ listeners' \in 1..starts' /\ unsubscribe' = TRUE
    BY <1>0, <1>f, <1>3 DEF Start, Typed, decideSampled
  <2>2. /\ segmentToken' \in Nat /\ segmentToken <= segmentToken'
        /\ loads' \subseteq 1..segmentToken' /\ 1..segmentToken \subseteq 1..segmentToken'
    BY <1>0, <1>3, SegmentTokens DEF Start
  <2>3. recordings' \subseteq 1..segmentToken' /\ handle' \in 0..segmentToken'
    BY <1>0, <1>3, <2>2 DEF Typed, Start
  <2> QED
    BY <1>0, <1>f, <1>3, <2>1, <2>2, <2>3 DEF Start, Typed, store, adapter
<1>4. ASSUME NEW token \in loads, Loaded(token) \/ RecordingFails(token) \/ LoadFails(token)
      PROVE  Typed'
  <2>1. started' \in BOOLEAN /\ loads' \subseteq 1..segmentToken /\ handle' \in 0..segmentToken
        /\ recordings' \subseteq 1..segmentToken /\ buffer' \subseteq 1..snapshots
    <3>1. loads' \subseteq 1..segmentToken /\ token \in 1..segmentToken
      BY <1>0, <1>4 DEF Loaded, RecordingFails, LoadFails, LoadEnds, Typed
    <3>2. CASE Loaded(token)
      <4>1. started' = started /\ started \in BOOLEAN /\ buffer \subseteq 1..snapshots
            /\ recordings \subseteq 1..segmentToken /\ handle \in 0..segmentToken
        BY <1>0, <3>2 DEF Loaded, Typed
      <4>2. CASE Superseded(token)
        BY <3>1, <3>2, <4>1, <4>2 DEF Loaded
      <4>3. CASE ~Superseded(token)
        <5>1. handle' = token /\ buffer' = {} /\ recordings' = recordings \cup {token}
          BY <3>2, <4>3 DEF Loaded
        <5> QED
          BY <1>f, <3>1, <4>1, <5>1
      <4> QED
        BY <4>2, <4>3
    <3>3. CASE RecordingFails(token)
      BY <1>0, <3>1, <3>3 DEF RecordingFails, Typed
    <3>4. CASE LoadFails(token)
      BY <1>0, <3>1, <3>4 DEF LoadFails, Typed
    <3> QED
      BY <1>4, <3>2, <3>3, <3>4
  <2>2. LoadEnds(token)
    BY <1>4 DEF Loaded, RecordingFails, LoadFails
  <2> QED
    BY <1>0, <2>1, <2>2 DEF LoadEnds, Typed, store, adapter, subscription, history
<1>5. CASE Emit
  <2>1. snapshots' = snapshots + 1 /\ snapshots' \in Snapshot
        /\ origin' = [origin EXCEPT ![snapshots'] = lastSeenSessionId]
        /\ buffer' = buffer \cup {snapshots'} /\ sent' = sent /\ cut' = cut /\ sessions' = sessions
    BY <1>0, <1>5 DEF Emit, Typed, adapter
  <2>2. origin' \in [Snapshot -> 0..sessions]
    BY <1>0, <2>1 DEF Typed
  <2>3. buffer' \subseteq 1..snapshots' /\ cut' \subseteq 1..snapshots'
        /\ sent' \subseteq (1..snapshots') \X (1..sessions)
    BY <1>0, <1>f, <2>1 DEF Typed
  <2> QED
    BY <1>0, <1>5, <2>1, <2>2, <2>3 DEF Emit, Typed, store, adapter, subscription
<1>6. CASE Flush
  <2>1. sent' \subseteq (1..snapshots) \X (1..sessions)
    BY <1>f, <1>6, Flushing DEF Flush
  <2> QED
    BY <1>0, <1>6, <2>1 DEF Flush, Typed, store, adapter, subscription, history
<1>7. CASE Stop
  <2>1. sent' \subseteq (1..snapshots) \X (1..sessions)
    <3>1. sent' = Flushed(lastSeenSessionId) /\ sessions <= sessions
      BY <1>f, <1>7 DEF Stop
    <3> QED
      BY <1>f, <3>1, Flushing
  <2>2. listeners' \in 0..starts /\ unsubscribe' = FALSE
    BY <1>0, <1>f, <1>7 DEF Stop, Typed
  <2> QED
    <3>1. started' \in BOOLEAN /\ unsubscribe' \in BOOLEAN /\ ~unsubscribe'
      BY <1>7 DEF Stop
    <3> QED
      BY <1>0, <1>f, <1>7, <2>1, <2>2, <3>1 DEF Stop, Typed, store, adapter, history
<1>8. CASE Reload
  <2>1. sent' = sent /\ sessions' = sessions /\ snapshots' = snapshots /\ cut' \subseteq 1..snapshots
        /\ loads' = {} /\ buffer' = {} /\ recordings' = {}
    BY <1>0, <1>8 DEF Reload, Typed
  <2>2. reloads' \in 0..MaxReloads
    BY <1>0, <1>8 DEF Reload, Typed
  <2> QED
    <3>1. started' \in BOOLEAN /\ unsubscribe' \in BOOLEAN /\ ~unsubscribe'
      BY <1>8 DEF Reload
    <3> QED
      BY <1>0, <1>f, <1>8, <2>1, <2>2, <3>1 DEF Reload, Typed, store
<1>9. CASE UNCHANGED vars
  BY <1>0, <1>9 DEF Typed, vars, store, adapter, recorder, segment, subscription, history
<1> QED
  BY <1>1, <1>2, <1>3, <1>4, <1>5, <1>6, <1>7, <1>8, <1>9 DEF Next

LEMMA SegmentStep == ReplayInv /\ [Next]_vars => SegmentInv'
<1> SUFFICES ASSUME ReplayInv, [Next]_vars PROVE SegmentInv'
  OBVIOUS
<1> USE DEF SegmentInv, OneRecording, LiveSegment, Keyed, decideSampled
<1>1. ASSUME NEW expired \in BOOLEAN, NEW isPageView \in BOOLEAN, Capture(expired, isPageView)
      PROVE  SegmentInv'
  <2>1. CASE UNCHANGED segment /\ ~Rekeyed
    BY <1>1, <2>1, CaptureCases DEF ReplayInv, segment, subscription
  <2>2. CASE Rekeyed
    BY <1>1, <2>2, CaptureCases DEF ReplayInv, Typed, Rekeyed, beginSegment, subscription
  <2> QED
    BY <1>1, <2>1, <2>2, CaptureCases
<1>2. CASE Reset
  BY <1>2 DEF Reset, ReplayInv, adapter, recorder, segment, subscription, history
<1>3. CASE Start
  BY <1>3 DEF Start, ReplayInv, Typed, beginSegment, store, adapter
<1>4. ASSUME NEW token \in loads, Loaded(token) \/ RecordingFails(token) \/ LoadFails(token)
      PROVE  SegmentInv'
  BY <1>4 DEF Loaded, RecordingFails, LoadFails, LoadEnds, Superseded, ReplayInv, Typed,
     store, adapter, subscription, history
<1>5. CASE Emit
  BY <1>5 DEF Emit, ReplayInv, Typed, store, adapter, subscription
<1>6. CASE Flush
  BY <1>6 DEF Flush, ReplayInv, Typed, store, adapter, subscription, history
<1>7. CASE Stop
  BY <1>7 DEF Stop, ReplayInv, Typed, store, adapter, history
<1>8. CASE Reload
  BY <1>8 DEF Reload, ReplayInv, Typed, store
<1>9. CASE UNCHANGED vars
  BY <1>9 DEF ReplayInv, vars, store, adapter, recorder, segment, subscription, history
<1> QED
  BY <1>1, <1>2, <1>3, <1>4, <1>5, <1>6, <1>7, <1>8, <1>9 DEF Next

LEMMA RecordsStep == ReplayInv /\ [Next]_vars => SessionRecordsAgree' /\ StoredAgrees'
<1> SUFFICES ASSUME ReplayInv, [Next]_vars PROVE SessionRecordsAgree' /\ StoredAgrees'
  OBVIOUS
<1> USE DEF SessionRecordsAgree, StoredAgrees
<1>1. ASSUME NEW expired \in BOOLEAN, NEW isPageView \in BOOLEAN, Capture(expired, isPageView)
      PROVE  SessionRecordsAgree' /\ StoredAgrees'
  <2>1. CASE UNCHANGED segment /\ ~Rekeyed
    BY <1>1, <2>1, CaptureCases DEF ReplayInv, segment, SegmentInv, Keyed, history
  <2>2. CASE Rekeyed
    BY <1>1, <2>2, CaptureCases DEF ReplayInv, Rekeyed, history
  <2> QED
    BY <1>1, <2>1, <2>2, CaptureCases
<1>2. CASE Reset
  BY <1>2 DEF Reset, ReplayInv, adapter, recorder, segment, subscription, history
<1>3. CASE Start
  BY <1>3 DEF Start, ReplayInv, store, adapter
<1>4. ASSUME NEW token \in loads, Loaded(token) \/ RecordingFails(token) \/ LoadFails(token)
      PROVE  SessionRecordsAgree' /\ StoredAgrees'
  BY <1>4 DEF Loaded, RecordingFails, LoadFails, LoadEnds, ReplayInv,
     store, adapter, subscription, history
<1>5. CASE Emit \/ Flush
  BY <1>5 DEF Emit, Flush, ReplayInv, store, adapter, subscription, history
<1>7. CASE Stop \/ Reload
  BY <1>7 DEF Stop, Reload, ReplayInv, store, adapter, history
<1>9. CASE UNCHANGED vars
  BY <1>9 DEF ReplayInv, vars, store, adapter, recorder, segment, subscription, history
<1> QED
  BY <1>1, <1>2, <1>3, <1>4, <1>5, <1>7, <1>9 DEF Next

LEMMA AfterFlush ==
    ASSUME ReplayInv, NEW reported, sessions' \in Nat, sessions <= sessions',
           handle # 0 => reported \in 1..sessions',
           sent' = Flushed(reported), buffer' = {}, UNCHANGED <<sampledIn, history>>
    PROVE  Places' /\ SampledOutNeverSent'
<1>1. snapshots' = snapshots /\ origin' = origin /\ cut' = cut
  BY DEF history
<1> QED
  BY <1>1, Flushing DEF Places, SampledOutNeverSent, SentNumbers

LEMMA PlacesStep == ReplayInv /\ [Next]_vars => Places' /\ SampledOutNeverSent'
<1> SUFFICES ASSUME ReplayInv, [Next]_vars PROVE Places' /\ SampledOutNeverSent'
  OBVIOUS
<1> USE DEF Places, SampledOutNeverSent, SentNumbers
<1>1. ASSUME NEW expired \in BOOLEAN, NEW isPageView \in BOOLEAN, Capture(expired, isPageView)
      PROVE  (Places /\ SampledOutNeverSent)'
  <2>1. CASE UNCHANGED segment /\ ~Rekeyed
    BY <1>1, <2>1, CaptureCases DEF ReplayInv, segment, history
  <2>2. CASE Rekeyed
    <3>1. sessions' \in Nat /\ sessions <= sessions' /\ lastSeenSessionId' \in 1..sessions'
          /\ UNCHANGED <<sampledIn, history>>
      BY <1>1, CaptureCases, BoundsAreNaturals
    <3>2. sent' = Flushed(lastSeenSessionId') /\ buffer' = {} /\ handle' = 0
      BY <2>2 DEF Rekeyed
    <3> HIDE DEF Places, SampledOutNeverSent, SentNumbers
    <3> QED
      BY <3>1, <3>2, AfterFlush
  <2> QED
    BY <1>1, <2>1, <2>2, CaptureCases
<1>2. CASE Reset
  BY <1>2 DEF Reset, ReplayInv, adapter, recorder, segment, subscription, history
<1>3. CASE Start
  BY <1>3 DEF Start, ReplayInv, SegmentInv, LiveSegment, store, adapter
<1>4. ASSUME NEW token \in loads, Loaded(token) \/ RecordingFails(token) \/ LoadFails(token)
      PROVE  (Places /\ SampledOutNeverSent)'
  BY <1>4 DEF Loaded, RecordingFails, LoadFails, LoadEnds, Superseded, ReplayInv, Typed,
     SegmentInv, LiveSegment, store, adapter, subscription, history
<1>5. CASE Emit
  <2>1. snapshots' = snapshots + 1 /\ snapshots' \in Snapshot /\ snapshots \in Nat
        /\ origin' = [origin EXCEPT ![snapshots'] = lastSeenSessionId]
        /\ buffer' = buffer \cup {snapshots'} /\ handle # 0
        /\ UNCHANGED <<sent, cut, keyedSessionId, handle, sampledIn>>
    BY <1>5, BoundsAreNaturals DEF Emit, ReplayInv, Typed, Snapshot
  <2>2. \A n \in 1..snapshots : n # snapshots' /\ n \in Snapshot
    BY <2>1, BoundsAreNaturals DEF ReplayInv, Typed, Snapshot
  <2>3. SentNumbers \subseteq 1..snapshots /\ buffer \subseteq 1..snapshots /\ cut \subseteq 1..snapshots
    BY DEF ReplayInv, Typed
  <2>4. \A n \in 1..snapshots : origin'[n] = origin[n]
    BY <2>1, <2>2 DEF ReplayInv, Typed
  <2>5. origin'[snapshots'] = keyedSessionId
    BY <2>1 DEF ReplayInv, Typed, SegmentInv, LiveSegment, Keyed
  <2>6. SentNumbers' = SentNumbers /\ (\A s \in sent : s[1] \in SentNumbers)
    BY <2>1
  <2>7. 1..snapshots' = (1..snapshots) \cup {snapshots'}
    BY <2>1
  <2> HIDE DEF SentNumbers
  <2>8. Places'
    BY <2>1, <2>2, <2>3, <2>4, <2>5, <2>6, <2>7 DEF ReplayInv
  <2>9. SampledOutNeverSent'
    BY <2>1, <2>3, <2>4, <2>6 DEF ReplayInv
  <2> QED
    BY <2>8, <2>9
<1>6. CASE Flush
  <2>1. sessions' = sessions /\ sessions \in Nat /\ lastSeenSessionId \in 1..sessions
    BY <1>6, BoundsAreNaturals DEF Flush, ReplayInv, Typed, SegmentInv, LiveSegment, Keyed
  <2>2. sent' = Flushed(lastSeenSessionId) /\ buffer' = {} /\ UNCHANGED <<sampledIn, history>>
    BY <1>6 DEF Flush
  <2> HIDE DEF Places, SampledOutNeverSent, SentNumbers
  <2> QED
    BY <2>1, <2>2, AfterFlush
<1>7. CASE Stop
  <2>1. sessions' = sessions /\ sessions \in Nat /\ (handle # 0 => lastSeenSessionId \in 1..sessions)
    BY <1>7, BoundsAreNaturals DEF Stop, ReplayInv, Typed, SegmentInv, LiveSegment, Keyed
  <2>2. sent' = Flushed(lastSeenSessionId) /\ buffer' = {} /\ UNCHANGED <<sampledIn, history>>
    BY <1>7 DEF Stop
  <2> HIDE DEF Places, SampledOutNeverSent, SentNumbers
  <2> QED
    BY <2>1, <2>2, AfterFlush
<1>8. CASE Reload
  BY <1>8 DEF Reload, ReplayInv, store
<1>9. CASE UNCHANGED vars
  BY <1>9 DEF ReplayInv, vars, store, adapter, recorder, segment, subscription, history
<1> QED
  BY <1>1, <1>2, <1>3, <1>4, <1>5, <1>6, <1>7, <1>8, <1>9 DEF Next

---------------------------------------------------------------------------
(* ReplayInv holds of every reachable state.                                *)
THEOREM ReplayInvariant == Spec => []ReplayInv
<1>1. ReplayInv /\ [Next]_vars => ReplayInv'
  BY TypeStep, SegmentStep, RecordsStep, PlacesStep DEF ReplayInv
<1> QED
  BY ReplayInit, <1>1, PTL DEF Spec

(* SessionReplay!TypeOK.                                                    *)
THEOREM ReplayTypes == Spec => []TypeOK
<1>1. ReplayInv => TypeOK
  BY TypedIsTypeOK DEF ReplayInv
<1> QED
  BY <1>1, ReplayInvariant, PTL

(* Whatever the order of stops, restarts, rotations and late imports, at    *)
(* most one rrweb recording runs and the recorder can stop it.              *)
THEOREM ReplayOneRecording == Spec => []OneRecording
<1>1. ReplayInv => OneRecording
  BY DEF ReplayInv, SegmentInv
<1> QED
  BY <1>1, ReplayInvariant, PTL

(* The page view, the entry snapshot and the recorder's key belong to the   *)
(* session last stamped, or are unset; and the entry snapshot is its first  *)
(* event's, but in a page that was loaded in the middle of the session      *)
(* (SessionReplay!SessionRecordsAgree).                                     *)
THEOREM ReplayRecordsAgree == Spec => []SessionRecordsAgree
<1>1. ReplayInv => SessionRecordsAgree
  BY DEF ReplayInv
<1> QED
  BY <1>1, ReplayInvariant, PTL

LEMMA PlacesCounted == ReplayInv => SampledInNotLost
<1> SUFFICES ASSUME ReplayInv, NEW n \in 1..snapshots
             PROVE  LET copies == Cardinality({s \in sent : s[1] = n})
                                  + Cardinality({n} \cap buffer) + Cardinality({n} \cap cut)
                    IN  copies <= 1 /\ (origin[n] \in sampledIn => copies = 1)
  BY DEF SampledInNotLost
<1> DEFINE pairs == {s \in sent : s[1] = n}
<1>1. Cardinality(pairs) = (IF n \in SentNumbers THEN 1 ELSE 0)
  <2>1. CASE n \in SentNumbers
    <3>1. PICK s \in sent : s[1] = n
      BY <2>1 DEF SentNumbers
    <3>2. pairs = {s}
      BY <3>1 DEF ReplayInv, Places
    <3> QED
      BY <2>1, <3>2, FS_Singleton
  <2>2. CASE n \notin SentNumbers
    <3>1. pairs = {}
      BY <2>2 DEF SentNumbers
    <3> QED
      BY <2>2, <3>1, FS_EmptySet
  <2> QED
    BY <2>1, <2>2
<1>2. ASSUME NEW S PROVE Cardinality({n} \cap S) = (IF n \in S THEN 1 ELSE 0)
  <2>1. CASE n \in S
    <3>1. {n} \cap S = {n}
      BY <2>1
    <3> QED
      BY <2>1, <3>1, FS_Singleton
  <2>2. CASE n \notin S
    <3>1. {n} \cap S = {}
      BY <2>2
    <3> QED
      BY <2>2, <3>1, FS_EmptySet
  <2> QED
    BY <2>1, <2>2
<1>3. Cardinality({n} \cap buffer) = (IF n \in buffer THEN 1 ELSE 0)
      /\ Cardinality({n} \cap cut) = (IF n \in cut THEN 1 ELSE 0)
  BY <1>2
<1>4. ~ (n \in SentNumbers /\ n \in buffer) /\ ~ (n \in SentNumbers /\ n \in cut)
      /\ ~ (n \in buffer /\ n \in cut)
      /\ (origin[n] \in sampledIn => n \in SentNumbers \/ n \in buffer \/ n \in cut)
  BY DEF ReplayInv, Places
<1> HIDE DEF pairs
<1> QED
  BY <1>1, <1>3, <1>4 DEF pairs

(* The sampling verdict of the session a snapshot was taken in decides on   *)
(* it: none of a sampled-out session is sent, each of a sampled-in one is   *)
(* sent once, waits in the live buffer, or was destroyed by a reload.       *)
THEOREM ReplaySamplingDecides == Spec => []SamplingDecides
<1>1. ReplayInv => SamplingDecides
  BY PlacesCounted DEF ReplayInv, SamplingDecides
<1> QED
  BY <1>1, ReplayInvariant, PTL
=============================================================================
