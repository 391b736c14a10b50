-------------------------- MODULE DefinitionPoller --------------------------
(* ts/packages/node/src/flags/local/definition-poller.ts: the poller that    *)
(* keeps the flag definitions of the local evaluator fresh.  A load is one   *)
(* request; the next poll is scheduled before the request is made, and a     *)
(* load asked for while one is under way shares it.                          *)
EXTENDS Naturals, FiniteSets

CONSTANTS MaxVersion,      \* bound: how often the server publishes definitions
          Asked, Failed    \* what a request under way may be, besides an answer

ASSUME PollerAssumption ==
    /\ MaxVersion \in Nat \ {0}
    /\ Asked \notin Nat /\ Failed \notin Nat /\ Asked # Failed

VARIABLES published,    \* external: the version the server would answer with
          seeded,       \* the definitions came from the configuration
          started, stopped,
          timer,        \* the next poll is scheduled
          loads,        \* the requests under way: Asked, or the answer on its way
          snapshot,     \* the version the evaluator reads; 0 is EMPTY_SNAPSHOT
          loadedSuccessfullyOnce,
          missedTick    \* history: the timer has fired while a load was under way

vars == <<published, seeded, started, stopped, timer, loads, snapshot,
          loadedSuccessfullyOnce, missedTick>>

Version == 0..MaxVersion

(* A seeded poller is born with its snapshot (version 1 stands for the      *)
(* configured one); a fetching poller with the empty snapshot.              *)
Init ==
    /\ published = 1
    /\ seeded \in BOOLEAN
    /\ started = FALSE /\ stopped = FALSE
    /\ timer = FALSE
    /\ loads = {}
    /\ snapshot = (IF seeded THEN 1 ELSE 0)
    /\ loadedSuccessfullyOnce = seeded
    /\ missedTick = FALSE

Publish ==
    /\ published < MaxVersion
    /\ published' = published + 1
    /\ UNCHANGED <<seeded, started, stopped, timer, loads, snapshot,
                   loadedSuccessfullyOnce, missedTick>>

---------------------------------------------------------------------------
scheduleNext == timer' = ~stopped

\* Mutant of load: the next poll is not scheduled.
load_NoReschedule ==
    IF seeded \/ loads # {} THEN timer' = FALSE /\ UNCHANGED loads
    ELSE timer' = FALSE /\ loads' = {Asked}

(* The timer, if one fired, is spent.  A shared load schedules nothing.     *)
load ==
    IF seeded \/ loads # {} THEN timer' = FALSE /\ UNCHANGED loads
    ELSE scheduleNext /\ loads' = {Asked}

Start ==
    /\ ~started
    /\ started' = TRUE
    /\ load
    /\ UNCHANGED <<published, seeded, stopped, snapshot, loadedSuccessfullyOnce, missedTick>>

TimerFires ==
    /\ timer
    /\ load
    /\ missedTick' = (missedTick \/ loads # {})
    /\ UNCHANGED <<published, seeded, started, stopped, snapshot, loadedSuccessfullyOnce>>

(* A load that is under way is not aborted: its answer is still taken.      *)
Stop ==
    /\ ~stopped
    /\ stopped' = TRUE
    /\ timer' = FALSE
    /\ UNCHANGED <<published, seeded, started, loads, snapshot,
                   loadedSuccessfullyOnce, missedTick>>

(* External: the server answers with what is published, or the request      *)
(* fails (no connection, a status that is not ok, a body that is not JSON). *)
ServerAnswers ==
    /\ Asked \in loads
    /\ \E answer \in {published, Failed} : loads' = (loads \ {Asked}) \cup {answer}
    /\ UNCHANGED <<published, seeded, started, stopped, timer, snapshot,
                   loadedSuccessfullyOnce, missedTick>>

\* Mutant of Taken: a failed load resets the definitions.
Taken_ResetOnFailure(answer) ==
    /\ snapshot' = (IF answer = Failed THEN 0 ELSE answer)
    /\ loadedSuccessfullyOnce' = (loadedSuccessfullyOnce \/ answer # Failed)

Taken(answer) ==
    /\ snapshot' = (IF answer = Failed THEN snapshot ELSE answer)
    /\ loadedSuccessfullyOnce' = (loadedSuccessfullyOnce \/ answer # Failed)

LoadSettles ==
    /\ \E answer \in loads \ {Asked} : Taken(answer) /\ loads' = loads \ {answer}
    /\ UNCHANGED <<published, seeded, started, stopped, timer, missedTick>>

Next ==
    \/ Publish
    \/ Start
    \/ TimerFires
    \/ Stop
    \/ ServerAnswers
    \/ LoadSettles

(* The runtime fires timers and runs continuations; fetch is assumed to     *)
(* answer or to fail in the end.  Nothing orders the timer and the answer.  *)
Fairness ==
    /\ WF_vars(Start) /\ WF_vars(TimerFires)
    /\ WF_vars(ServerAnswers) /\ WF_vars(LoadSettles)

Spec == Init /\ [][Next]_vars /\ Fairness

---------------------------------------------------------------------------
TypeOK ==
    /\ published \in Version
    /\ {seeded, started, stopped, timer, loadedSuccessfullyOnce, missedTick} \subseteq BOOLEAN
    /\ loads \subseteq Version \cup {Asked, Failed}
    /\ snapshot \in Version

(* "Reschedules the next poll BEFORE doing the fetch work, so a slow/failed *)
(* fetch never stalls the interval": a poller that is not stopped makes     *)
(* requests for ever.                                                       *)
PollingNeverStalls == []<>(loads # {} \/ stopped \/ seeded)
=============================================================================
