---------------------------- MODULE BrowserFlags -----------------------------
(***************************************************************************)
(* The browser's flag client: one cached snapshot, refreshed over the      *)
(* network, for any number of evaluations at once.                         *)
(*                                                                         *)
(* An evaluation that can be served from the cache is; the others wait for *)
(* a refresh.  One that is not forced joins the refresh under way; a       *)
(* forced one is chained behind it, for the context it was asked with.     *)
(* The flags are those of one actor: the one the context names or, when    *)
(* the request is made, the visitor the page then has.                     *)
(*                                                                         *)
(* A refresh and what its settling starts (the commit, the listeners, the  *)
(* evaluations that awaited it, the request chained behind it) are one     *)
(* step: they are microtasks, and no answer from the network comes between.*)
(***************************************************************************)
EXTENDS Naturals, Sequences, FiniteSets, Functions

CONSTANTS
    Actors,         \* distinct ids
    Contexts,       \* the actors that evaluations name, and None
    Callers,        \* evaluate() calls, each made once
    Listeners,
    None,           \* no actor named, nothing cached
    MaxSwitches     \* bound: changes of the visitor's id

Snapshots ==
    [of : Actors \cup {None}, by : Nat, degraded : BOOLEAN,
     reason : {"unresolved", "bootstrap", "resolved", "stale"}]

ASSUME FlagBounds ==
    /\ MaxSwitches \in Nat
    /\ Contexts \subseteq Actors \cup {None}
    /\ None \notin Actors \cup Listeners \cup Snapshots

VARIABLES
    endpoint,       \* an ingest host is configured
    visitor,        \* what getDistinctId() answers
    switches,
    cache,          \* the snapshot: [of, by, reason, degraded], or None
    refreshes,      \* every refresh so far: [after, context, actor, phase]
    inFlight,       \* the one a later caller finds, 0 when none
    calls,          \* the evaluations
    listening,      \* the listeners, in the order they came
    heard           \* what each heard last

vars == <<endpoint, visitor, switches, cache, refreshes, inFlight, calls, listening, heard>>

Snapshot(of, by, reason, degraded) ==
    [of |-> of, by |-> by, reason |-> reason, degraded |-> degraded]

(* Without a snapshot there is the empty set, which is degraded.           *)
currentSet(snapshot) ==
    IF snapshot = None THEN Snapshot(None, 0, "unresolved", TRUE) ELSE snapshot

(* The flags of the configuration are no actor's and come of no refresh.   *)
seedBootstrap == Snapshot(None, 0, "bootstrap", FALSE)

Init ==
    /\ endpoint \in BOOLEAN
    /\ visitor \in Actors /\ switches = 0
    /\ cache \in {None, seedBootstrap}
    /\ refreshes = <<>> /\ inFlight = 0
    /\ calls = [c \in Callers |-> [phase |-> "idle"]]
    /\ listening = <<>>
    /\ heard = [l \in Listeners |-> None]

(* A request names the actor when it is made.                              *)
buildWireBody(refresh) == IF refresh.context # None THEN refresh.context ELSE visitor

fetchAndCommit(refresh) == [refresh EXCEPT !.phase = "asked", !.actor = buildWireBody(refresh)]

Asked(context, after) ==
    [after |-> after, context |-> context, actor |-> None, phase |-> "chained"]

(* The refresh a call waits for, once this returns: a new one, chained     *)
(* behind what is in flight, or the one in flight.                         *)
\* Mutant of refresh: a forced refresh joins the one under way.
refresh_Coalesces(context, force) ==
    IF inFlight # 0 THEN UNCHANGED <<refreshes, inFlight>>
    ELSE /\ refreshes' = Append(refreshes, fetchAndCommit(Asked(context, 0)))
         /\ inFlight' = Len(refreshes) + 1

\* Mutant of refresh: a forced refresh does not wait for the one under way.
refresh_Concurrent(context, force) ==
    IF inFlight # 0 /\ ~force THEN UNCHANGED <<refreshes, inFlight>>
    ELSE /\ refreshes' = Append(refreshes, fetchAndCommit(Asked(context, 0)))
         /\ inFlight' = Len(refreshes) + 1

refresh(context, force) ==
    \/ /\ inFlight # 0 /\ ~force
       /\ UNCHANGED <<refreshes, inFlight>>
    \/ /\ inFlight # 0 /\ force
       /\ refreshes' = Append(refreshes, Asked(context, inFlight))
       /\ inFlight' = Len(refreshes) + 1
    \/ /\ inFlight = 0
       /\ refreshes' = Append(refreshes, fetchAndCommit(Asked(context, 0)))
       /\ inFlight' = Len(refreshes) + 1

Idle(c) == calls[c].phase = "idle"

Waits(c, context, forced) ==
    /\ refresh(context, forced)
    /\ calls' = [calls EXCEPT ![c] =
            [phase |-> "waiting", on |-> inFlight', context |-> context, forced |-> forced,
             before |-> Len(refreshes)]]

(* A settled evaluation has the set of its step, currentSet(cache').       *)
Ended(phase) == [phase |-> phase]

(* evaluate(): forced, it waits; resolved, it is served; with flags that   *)
(* are not, it is served and refreshes behind its back; with none, waits.  *)
Evaluate(c, context, forced) ==
    /\ Idle(c)
    /\ \/ /\ forced \/ cache = None
          /\ Waits(c, context, forced)
       \/ /\ ~forced /\ cache # None
          /\ calls' = [calls EXCEPT ![c] = Ended("settled")]
          /\ IF cache.reason = "resolved" THEN UNCHANGED <<refreshes, inFlight>>
             ELSE refresh(context, FALSE)
    /\ UNCHANGED <<endpoint, visitor, switches, cache, listening, heard>>

(* A failed refresh leaves the flags that were there, and says so.         *)
Committed(r, succeeds) ==
    IF succeeds THEN Snapshot(refreshes[r].actor, r, "resolved", FALSE)
    ELSE IF cache = None THEN None
    ELSE Snapshot(cache.of, cache.by, "stale", TRUE)

(* Every listener in turn, up to and with the first that throws.           *)
fireListeners(set, throws) ==
    LET reached == IF throws \in Range(listening)
                   THEN SubSeq(listening, 1, CHOOSE i \in DOMAIN listening : listening[i] = throws)
                   ELSE listening
    IN  heard' = [l \in Listeners |-> IF l \in Range(reached) THEN set ELSE heard[l]]

(* What was chained behind a refresh is requested, however that one ended. *)
Spent(outcome) == [after |-> 0, context |-> None, actor |-> None, phase |-> outcome]

\* Mutant of Chained: only behind a refresh that did not throw.
Chained_OnlyAfterSuccess(r, outcome) ==
    [n \in DOMAIN refreshes |->
        IF n = r THEN Spent(outcome)
        ELSE IF refreshes[n].after = r /\ outcome = "done" THEN fetchAndCommit(refreshes[n])
        ELSE refreshes[n]]

Chained(r, outcome) ==
    [n \in DOMAIN refreshes |->
        IF n = r THEN Spent(outcome)
        ELSE IF refreshes[n].after = r THEN fetchAndCommit(refreshes[n])
        ELSE refreshes[n]]

(* A listener that throws rejects the refresh after its commit.            *)
Settle(r, succeeds, throws) ==
    /\ refreshes[r].phase = "asked"
    /\ succeeds => endpoint
    /\ throws \in Range(listening) \cup {None}
    /\ cache' = Committed(r, succeeds)
    /\ fireListeners(currentSet(cache'), throws)
    /\ refreshes' = Chained(r, IF throws = None THEN "done" ELSE "thrown")
    /\ inFlight' = IF inFlight = r THEN 0 ELSE inFlight
    /\ calls' = [c \in Callers |->
            IF calls[c].phase # "waiting" \/ calls[c].on # r THEN calls[c]
            ELSE Ended(IF throws = None THEN "settled" ELSE "rejected")]
    /\ UNCHANGED <<endpoint, visitor, switches, listening>>

onChange(l) ==
    /\ l \notin Range(listening)
    /\ listening' = Append(listening, l)
    /\ heard' = [heard EXCEPT ![l] = None]
    /\ UNCHANGED <<endpoint, visitor, switches, cache, refreshes, inFlight, calls>>

Unsubscribe(l) ==
    /\ \E k \in DOMAIN listening :
          /\ listening[k] = l
          /\ listening' = SubSeq(listening, 1, k - 1) \o SubSeq(listening, k + 1, Len(listening))
    /\ UNCHANGED <<endpoint, visitor, switches, cache, refreshes, inFlight, calls, heard>>

(* identify() or reset(): the flag client is not told.                     *)
SwitchVisitor(id) ==
    /\ switches < MaxSwitches /\ id # visitor
    /\ visitor' = id /\ switches' = switches + 1
    /\ UNCHANGED <<endpoint, cache, refreshes, inFlight, calls, listening, heard>>

Answered == \E r \in DOMAIN refreshes, succeeds \in BOOLEAN, throws \in Listeners \cup {None} :
                Settle(r, succeeds, throws)

Next ==
    \/ \E c \in Callers, context \in Contexts, forced \in BOOLEAN :
            Evaluate(c, context, forced)
    \/ Answered
    \/ \E l \in Listeners : onChange(l) \/ Unsubscribe(l)
    \/ \E id \in Actors : SwitchVisitor(id)

(* A request is answered, or fails with the connection.                    *)
Spec == Init /\ [][Next]_vars /\ WF_vars(Answered)

----------------------------------------------------------------------------
IsSet(set) ==
    /\ set \in Snapshots /\ set.by <= Len(refreshes)
    /\ set.degraded = (set.reason \in {"unresolved", "stale"})

(* The type of the state, with the chain it holds: what is not spent waits *)
(* for something that is not either, and so does every evaluation.         *)
TypeOK ==
    /\ endpoint \in BOOLEAN /\ visitor \in Actors /\ switches \in 0..MaxSwitches
    /\ cache # None => IsSet(cache)
    /\ inFlight \in 0..Len(refreshes)
    /\ \A r \in DOMAIN refreshes :
          /\ refreshes[r].after < r /\ refreshes[r].phase \in {"chained", "asked", "done", "thrown"}
          /\ refreshes[r].phase = "asked" <=> refreshes[r].actor # None
          /\ refreshes[r].phase = "chained" => refreshes[refreshes[r].after].phase \in {"chained", "asked"}
    /\ \A c \in Callers : calls[c].phase = "waiting" =>
          refreshes[calls[c].on].phase \in {"chained", "asked"}
    /\ \A l \in Listeners : heard[l] # None => IsSet(heard[l])

(* "it must NEVER coalesce onto a stale in-flight fetch": a forced         *)
(* evaluation that settles undegraded has the flags of a request made for  *)
(* it, after it was asked, for the actor it named.                         *)
ForcedIsFresh ==
    [][\A c \in Callers :
          (calls[c].phase = "waiting" /\ calls[c].forced /\ calls'[c].phase = "settled"
           /\ ~currentSet(cache').degraded) =>
              /\ cache'.by > calls[c].before
              /\ calls[c].context # None => cache'.of = calls[c].context]_vars

(* "avoiding two concurrent commits racing the cache": one request at a    *)
(* time, the cache moves to later requests only, and once nothing is under *)
(* way nobody who listened through the last commit holds an older set,     *)
(* unless a listener threw.                                                *)
CommitsInOrder ==
    [][/\ Cardinality({r \in DOMAIN refreshes' : refreshes'[r].phase = "asked"}) <= 1
       /\ cache # None => cache'.by >= cache.by
       /\ \A l \in Range(listening) :
            (heard[l] # None /\ \A r \in DOMAIN refreshes : refreshes[r].phase # "thrown")
                => heard[l] = currentSet(cache)]_vars

(* Every evaluation settles or is rejected, the chained ones too, although *)
(* listeners throw and requests fail.                                      *)
EvaluationsSettle ==
    \A c \in Callers : (calls[c].phase = "waiting") ~> (calls[c].phase \in {"settled", "rejected"})
=============================================================================
