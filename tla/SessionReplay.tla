--------------------------- MODULE SessionReplay ---------------------------
(* The browser's sessions (ts/packages/browser/src): the session id stamped *)
(* on each captured event, the per-session records the adapter keeps, and   *)
(* the replay recorder that follows the sessions.  The recorder's body is   *)
(* imported asynchronously.  Sessions and snapshots are numbered in the     *)
(* order they appear; 0 stands for undefined.                               *)
EXTENDS Naturals, FiniteSets

CONSTANTS MaxSessions, MaxSnapshots, MaxStarts, MaxReloads   \* bounds

ASSUME SessionReplayAssumption ==
    {MaxSessions, MaxSnapshots, MaxStarts, MaxReloads} \subseteq Nat

VARIABLES
    storedSession,       \* the session id in the property store
    entry,               \* the entry snapshot in the store: of which session, and whether
                         \* it was taken at that session's first event
    lastSeenSessionId,   \* the adapter's
    currentPageview,     \* the session in which the pageview record was made
    sampledIn,           \* the sessions the sampling hash keeps
    started, keyedSessionId, sampled, segmentToken,   \* ReplayRecorder
    loads,               \* the tokens of the imports under way
    handle, buffer,      \* the live segment's token, and its snapshots
    unsubscribe,         \* unsubscribeRotation is set
    listeners,           \* the recorder's closures among sessionRotatedListeners
    recordings,          \* external: the rrweb recordings that were not stopped
    sessions, snapshots, starts, reloads,   \* how many there were
    origin,              \* history: the session each snapshot was taken in
    sent,                \* history: <<snapshot, session id it was sent under>>
    cut,                 \* history: the snapshots a reload destroyed
    carried              \* history: the stored session that the page was loaded with

store == <<storedSession, entry>>
adapter == <<lastSeenSessionId, currentPageview>>
segment == <<keyedSessionId, sampled, segmentToken, loads, handle, buffer, recordings, sent>>
subscription == <<unsubscribe, listeners>>
history == <<snapshots, starts, reloads, origin, cut, carried>>
recorder == <<started, segment, subscription, history>>
vars == <<store, adapter, sessions, sampledIn, recorder>>

Session == 1..MaxSessions
Snapshot == 1..MaxSnapshots

NoEntry == [session |-> 0, first |-> TRUE]

Init ==
    /\ storedSession = 0 /\ entry = NoEntry
    /\ lastSeenSessionId = 0 /\ currentPageview = 0
    /\ sampledIn \in SUBSET Session
    /\ started = FALSE /\ keyedSessionId = 0 /\ sampled = "pending" /\ segmentToken = 0
    /\ loads = {} /\ handle = 0 /\ buffer = {}
    /\ unsubscribe = FALSE /\ listeners = 0
    /\ recordings = {}
    /\ sessions = 0 /\ snapshots = 0 /\ starts = 0 /\ reloads = 0
    /\ origin = [n \in Snapshot |-> 0] /\ sent = {} /\ cut = {} /\ carried = 0

decideSampled(session) ==
    IF session = 0 THEN "pending" ELSE IF session \in sampledIn THEN "yes" ELSE "no"

---------------------------------------------------------------------------
(* The recorder's segments.                                                 *)

(* flushBuffer: what is sent, under the session id the adapter reports.     *)
Flushed(reported) ==
    IF handle # 0 /\ sampled = "yes" THEN sent \cup {<<n, reported>> : n \in buffer} ELSE sent

(* beginSegment: only a sampled-in session loads the recording body.        *)
beginSegment(verdict) ==
    IF verdict = "yes"
    THEN segmentToken' = segmentToken + 1 /\ loads' = loads \cup {segmentToken + 1}
    ELSE UNCHANGED <<segmentToken, loads>>

\* Mutant of handleRotation: the old segment is not flushed.
handleRotation_NoFlush(session) ==
    IF ~started \/ session = keyedSessionId THEN UNCHANGED segment
    ELSE /\ recordings' = recordings \ {handle}
         /\ handle' = 0 /\ buffer' = {}
         /\ keyedSessionId' = session
         /\ sampled' = decideSampled(session)
         /\ beginSegment(decideSampled(session))
         /\ UNCHANGED sent

(* The adapter has committed the new id by the time it notifies, so the old *)
(* segment is flushed under it.                                             *)
handleRotation(session) ==
    IF ~started \/ session = keyedSessionId THEN UNCHANGED segment
    ELSE /\ sent' = Flushed(session)
         /\ recordings' = recordings \ {handle}
         /\ handle' = 0 /\ buffer' = {}
         /\ keyedSessionId' = session
         /\ sampled' = decideSampled(session)
         /\ beginSegment(decideSampled(session))

---------------------------------------------------------------------------
(* The capture pipeline.                                                    *)

(* checkAndGetSessionId: a fresh id when there is none or it has expired.   *)
CheckedSessionId(expired) ==
    IF storedSession = 0 \/ expired THEN sessions + 1 ELSE storedSession

\* Mutant of Transition: the first id after a reset counts as the first ever.
Transition_StoreDecides(session) ==
    IF storedSession = 0 THEN "adopted"
    ELSE IF session # lastSeenSessionId THEN "rotated" ELSE "same"

(* classifySessionTransition: the first capture of a page adopts, whether   *)
(* or not its session is a new one.                                         *)
Transition(session) ==
    IF lastSeenSessionId = 0 THEN "adopted"
    ELSE IF session # lastSeenSessionId THEN "rotated" ELSE "same"

Capture(expired, isPageView) ==
    LET session == CheckedSessionId(expired)
        transition == Transition(session)
    IN  /\ session \in Session
        /\ storedSession' = session
        /\ sessions' = IF session > sessions THEN session ELSE sessions
        /\ currentPageview' = IF isPageView THEN session
                              ELSE IF transition = "rotated" THEN 0 ELSE currentPageview
        /\ entry' = IF transition = "same" THEN entry
                    ELSE [session |-> session, first |-> session > sessions]
        /\ lastSeenSessionId' = session
        /\ IF transition = "rotated" /\ listeners > 0 THEN handleRotation(session)
           ELSE UNCHANGED segment
        /\ UNCHANGED <<sampledIn, started, subscription, history>>

(* reset() clears the store; the adapter's own records stay.                *)
Reset ==
    /\ storedSession' = 0 /\ entry' = NoEntry
    /\ UNCHANGED <<adapter, sessions, sampledIn, recorder>>

---------------------------------------------------------------------------
(* The recorder's life.  Subscribing primes the listener with the id the    *)
(* segment was just keyed to, which it ignores.                             *)
Start ==
    /\ ~started /\ starts < MaxStarts
    /\ started' = TRUE /\ starts' = starts + 1
    /\ keyedSessionId' = lastSeenSessionId
    /\ sampled' = decideSampled(lastSeenSessionId)
    /\ beginSegment(decideSampled(lastSeenSessionId))
    /\ unsubscribe' = TRUE /\ listeners' = listeners + 1
    /\ UNCHANGED <<handle, buffer, recordings, sent, snapshots, reloads, origin, cut, carried>>
    /\ UNCHANGED <<store, adapter, sessions, sampledIn>>

\* Mutant of Superseded: a stop clears the guard, a later segment does not count.
Superseded_ByStopOnly(token) == ~started

Superseded(token) == ~started \/ token # segmentToken

LoadEnds(token) ==
    /\ loads' = loads \ {token}
    /\ UNCHANGED <<keyedSessionId, sampled, segmentToken, sent, subscription, history>>
    /\ UNCHANGED <<store, adapter, sessions, sampledIn>>

Loaded(token) ==
    /\ LoadEnds(token)
    /\ IF Superseded(token) THEN UNCHANGED <<handle, buffer, recordings>>
       ELSE /\ handle' = token /\ buffer' = {}
            /\ recordings' = recordings \cup {token}
    /\ UNCHANGED started

(* rrweb does not initialise.                                               *)
RecordingFails(token) ==
    /\ LoadEnds(token) /\ ~Superseded(token)
    /\ started' = FALSE
    /\ UNCHANGED <<handle, buffer, recordings>>

(* The import itself is rejected: nothing handles that.                     *)
LoadFails(token) ==
    /\ LoadEnds(token)
    /\ UNCHANGED <<started, handle, buffer, recordings>>

(* rrweb emits into the live segment's buffer.                              *)
Emit ==
    /\ handle # 0 /\ snapshots < MaxSnapshots
    /\ snapshots' = snapshots + 1
    /\ origin' = [origin EXCEPT ![snapshots'] = lastSeenSessionId]
    /\ buffer' = buffer \cup {snapshots'}
    /\ UNCHANGED <<started, keyedSessionId, sampled, segmentToken, loads, handle, recordings,
                   sent, subscription, starts, reloads, cut, carried>>
    /\ UNCHANGED <<store, adapter, sessions, sampledIn>>

(* The poll timer's tick, pagehide, or visibilitychange to hidden.          *)
Flush ==
    /\ handle # 0 /\ sampled = "yes" /\ buffer # {}
    /\ sent' = Flushed(lastSeenSessionId)
    /\ buffer' = {}
    /\ UNCHANGED <<started, keyedSessionId, sampled, segmentToken, loads, handle, recordings,
                   subscription, history>>
    /\ UNCHANGED <<store, adapter, sessions, sampledIn>>

Stop ==
    /\ started \/ unsubscribe
    /\ sent' = Flushed(lastSeenSessionId)
    /\ unsubscribe' = FALSE
    /\ listeners' = IF unsubscribe THEN listeners - 1 ELSE listeners
    /\ recordings' = recordings \ {handle}
    /\ handle' = 0 /\ buffer' = {}
    /\ keyedSessionId' = 0 /\ sampled' = "pending"
    /\ started' = FALSE
    /\ UNCHANGED <<segmentToken, loads, history>>
    /\ UNCHANGED <<store, adapter, sessions, sampledIn>>

(* The page is reloaded; only the store survives.                           *)
Reload ==
    /\ reloads < MaxReloads
    /\ reloads' = reloads + 1 /\ carried' = storedSession
    /\ lastSeenSessionId' = 0 /\ currentPageview' = 0
    /\ started' = FALSE /\ keyedSessionId' = 0 /\ sampled' = "pending" /\ segmentToken' = 0
    /\ loads' = {} /\ handle' = 0 /\ buffer' = {} /\ recordings' = {}
    /\ unsubscribe' = FALSE /\ listeners' = 0
    /\ cut' = cut \cup buffer
    /\ UNCHANGED <<store, sessions, sampledIn, snapshots, starts, origin, sent>>

Next ==
    \/ \E expired, isPageView \in BOOLEAN : Capture(expired, isPageView)
    \/ Reset
    \/ Start
    \/ \E token \in loads : Loaded(token) \/ RecordingFails(token) \/ LoadFails(token)
    \/ Emit
    \/ Flush
    \/ Stop
    \/ Reload

Spec == Init /\ [][Next]_vars

---------------------------------------------------------------------------
TypeOK ==
    /\ {storedSession, lastSeenSessionId, currentPageview, keyedSessionId, carried}
          \subseteq 0..sessions
    /\ entry \in [session : 0..sessions, first : BOOLEAN]
    /\ sessions \in 0..MaxSessions /\ sampledIn \subseteq Session
    /\ {started, unsubscribe} \subseteq BOOLEAN
    /\ sampled \in {"pending", "yes", "no"}
    /\ loads \subseteq 1..segmentToken /\ handle \in 0..segmentToken
    /\ recordings \subseteq 1..segmentToken
    /\ listeners \in 0..starts /\ (unsubscribe => listeners > 0)
    /\ snapshots \in 0..MaxSnapshots /\ starts \in 0..MaxStarts /\ reloads \in 0..MaxReloads
    /\ origin \in [Snapshot -> 0..sessions]
    /\ sent \subseteq (1..snapshots) \X (1..sessions)
    /\ buffer \cup cut \subseteq 1..snapshots

(* At most one rrweb recording runs, it is the one the recorder can stop,   *)
(* and it runs only while the recorder is started: an import that a stop or *)
(* a new segment overtook starts nothing.                                   *)
OneRecording == recordings = {handle} \ {0} /\ (handle # 0 => started)

(* No snapshot of a sampled-out session is ever sent.                       *)
SampledOutNeverSent == \A s \in sent : origin[s[1]] \in sampledIn

(* Every snapshot of a sampled-in session is sent once, or waits in the     *)
(* live buffer, unless a reload destroyed it: re-keying and stopping lose   *)
(* none and send none twice.                                                *)
SampledInNotLost ==
    \A n \in 1..snapshots :
        LET copies == Cardinality({s \in sent : s[1] = n})
                      + Cardinality({n} \cap buffer) + Cardinality({n} \cap cut)
        IN  copies <= 1 /\ (origin[n] \in sampledIn => copies = 1)

(* The verdict of a session decides on its snapshots, whatever re-keying,   *)
(* stopping and loading come between taking them and sending them.          *)
SamplingDecides == SampledOutNeverSent /\ SampledInNotLost

(* The records kept per session agree with the session the events carry:    *)
(* the pageview and the entry snapshot belong to the last stamped session,  *)
(* and so does the segment of an active recorder, once there was a session. *)
(* The entry snapshot is the one of its session's first event, except in a  *)
(* page that was loaded in the middle of that session: its first capture    *)
(* takes another in its place, against "it survives a mid-session reload".  *)
SessionRecordsAgree ==
    /\ currentPageview \in {0, lastSeenSessionId}
    /\ lastSeenSessionId # 0 /\ storedSession # 0 =>
          entry = [session |-> lastSeenSessionId, first |-> lastSeenSessionId # carried]
    /\ started => keyedSessionId \in {0, lastSeenSessionId}
=============================================================================
