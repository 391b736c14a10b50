------------------------------ MODULE LocalFlags ------------------------------
(* ts/packages/node/src/flags: the server's flag client.  An evaluation is   *)
(* decided in this process from the poller's definitions where it can be,    *)
(* and by one round-trip for what is left.  Calls overlap each other, the    *)
(* polls, and the listeners that come and go.                                *)
EXTENDS DefinitionPoller, FlagEvaluation

CONSTANTS Configurations,  \* what createFlagClient may be given, and who uses the client
          Contexts,        \* what a caller may ask with; both are named
          Generations,     \* external: the definitions of each version
          Callers, Listeners,
          AllFlags         \* the keys of a context that names none

(* The definitions there may be, and the keys of their flags.               *)
StaticDefinitions ==
    {lowerDefinitions(Configurations[s].definitions) : s \in DOMAIN Configurations}
FetchedDefinitions == {Generations[v] : v \in DOMAIN Generations}
FlagKeys ==
    {d.key : d \in UNION {Range(current.flags) : current \in StaticDefinitions \cup FetchedDefinitions}}

Triples == Nat \X Nat \X Nat

IsList(list) == Len(list) \in Nat /\ DOMAIN list = 1..Len(list)

(* Conditions, filters and variants are lists; a variant is neither a       *)
(* Boolean nor an outcome.                                                  *)
WellFormed(definition) ==
    /\ IsList(definition.groups)
    /\ \A i \in DOMAIN definition.groups : IsList(definition.groups[i].properties)
    /\ IsList(definition.variants)
    /\ \A i \in DOMAIN definition.variants :
          definition.variants[i].key \notin {"on", "off"} \cup Undecided

(* External: the server defines a flag once and numbers the cohorts' groups *)
(* so that none refers to itself.                                           *)
DefinedOnce(current) ==
    \A i, j \in DOMAIN current.flags : current.flags[i].key = current.flags[j].key => i = j

Numbered(cohorts) ==
    /\ IsList(cohorts)
    /\ \A g \in DOMAIN cohorts :
          /\ IsList(cohorts[g].values)
          /\ \A i \in DOMAIN cohorts[g].values :
                LET m == cohorts[g].values[i] IN
                /\ m.type = "group" => m.group \in 1 .. g - 1
                /\ m.type = "cohort" /\ m.cohort \in DOMAIN cohorts => m.cohort \in 1 .. g - 1

(* `whole' is the subject with the properties it was not asked with, too.   *)
IsWhole(whole, subject) ==
    /\ {whole, subject} \cap {None, NotSupplied} = {}
    /\ whole.buckets = subject.buckets
    /\ DOMAIN subject.properties \subseteq DOMAIN whole.properties
    /\ \A key \in DOMAIN subject.properties : whole.properties[key] = subject.properties[key]

(* No set of keys is AllFlags, each version has its definitions, who        *)
(* registers is a listener, and who asks does so with one of the contexts.  *)
ASSUME FlagsAssumption ==
    /\ \A keys \in SUBSET FlagKeys : keys # AllFlags
    /\ 1..MaxVersion \subseteq DOMAIN Generations
    /\ \A s \in DOMAIN Configurations : Configurations[s].listeners \subseteq Listeners
    /\ None \notin Triples

ASSUME DefinitionsAssumption ==
    /\ \A current \in StaticDefinitions \cup FetchedDefinitions :
          \A i \in DOMAIN current.flags : WellFormed(current.flags[i])
    /\ \A current \in FetchedDefinitions : DefinedOnce(current) /\ Numbered(current.cohorts)

IsWholeActor(whole, actor) ==
    /\ IsWhole(whole.person, actor.person)
    /\ DOMAIN whole.groups = DOMAIN actor.groups
    /\ \A name \in DOMAIN actor.groups : IsWhole(whole.groups[name], actor.groups[name])

ASSUME ContextsAssumption ==
    /\ None # NotSupplied
    /\ \A s \in DOMAIN Configurations : \A c \in Callers :
          Configurations[s].contexts[c] \subseteq DOMAIN Contexts
    /\ \A id \in DOMAIN Contexts : IsWholeActor(Contexts[id].whole, Contexts[id].actor)

VARIABLES setup,           \* the name of the configuration
          client,          \* what createFlagClient returned
          calls,           \* one evaluate per caller
          listeners,       \* those that wait, in the order of their registration
          fired, firstSet,
          heard            \* the sets each listener has been given

flagVars == <<setup, client, calls, listeners, fired, firstSet, heard>>
allVars == <<vars, flagVars>>

---------------------------------------------------------------------------
config == Configurations[setup]

(* Construction: an invalid static set throws, and a client without a key,  *)
(* or without a way to evaluate, is the null object.                        *)
buildLocalCapability == config.source \in {"static", "endpoint"}

createFlagClient ==
    IF ~config.key THEN "noop"
    ELSE IF config.source = "static" /\ ~validateDefinitions(config.definitions) THEN "refused"
    ELSE IF ~config.remote /\ ~buildLocalCapability THEN "noop"
    ELSE "adapter"

local == client = "adapter" /\ buildLocalCapability

EMPTY_SNAPSHOT == [flags |-> <<>>, groupTypeMapping |-> <<>>, cohorts |-> <<>>]

SnapshotOf(version) ==
    IF version = 0 THEN EMPTY_SNAPSHOT
    ELSE IF seeded THEN lowerDefinitions(config.definitions)
    ELSE Generations[version]

isReady == loadedSuccessfullyOnce /\ SnapshotOf(snapshot).flags # <<>>

emptyFlagSet == [flags |-> <<>>, payloads |-> <<>>, reason |-> "unresolved", degraded |-> TRUE]

buildFlagSet(set) ==
    IF set.flags = <<>> /\ set.payloads = <<>> /\ set.degraded THEN emptyFlagSet ELSE set

Idle == [phase |-> "idle"]

FlagsInit ==
    /\ setup \in DOMAIN Configurations
    /\ Init /\ seeded = (config.source = "static")
    /\ client = createFlagClient
    /\ calls = [c \in Callers |-> Idle]
    /\ listeners = <<>>
    /\ fired = FALSE /\ firstSet = emptyFlagSet
    /\ heard = [l \in Listeners |-> <<>>]

---------------------------------------------------------------------------
(* A call: its context, the version of the definitions it read, what it     *)
(* decided itself (kept), what it asks the server for and the flags of the  *)
(* answer (a record for the properties), and the set it has so far.         *)
Call(phase, context, kept, asked, set) ==
    [phase |-> phase, context |-> context, version |-> snapshot, kept |-> kept,
     asked |-> asked, answered |-> FALSE, answer |-> <<>>, set |-> set]

(* A round-trip that fails degrades to the bootstrap, or to nothing.        *)
Degraded ==
    IF config.bootstrap # <<>>
    THEN [flags |-> config.bootstrap, payloads |-> <<>>,
          reason |-> "stale", degraded |-> TRUE]
    ELSE emptyFlagSet

f @@ g == [k \in DOMAIN f \cup DOMAIN g |-> IF k \in DOMAIN f THEN f[k] ELSE g[k]]

Merged(set, remote) ==
    [remote EXCEPT !.flags = @ @@ set.flags, !.payloads = @ @@ set.payloads]

roundTrip(context, kept, asked, set) ==
    IF config.remote THEN Call("asked", context, kept, asked, set)
    ELSE Call("resolved", context, kept, asked, Merged(set, Degraded))

resolveLocalPayloads(kept, payloadsOf) ==
    LET paid == {k \in DOMAIN kept : kept[k] # "off" /\ kept[k] \in DOMAIN payloadsOf[k]}
    IN  [k \in paid |-> payloadsOf[k][kept[k]]]

LocalSet(kept, payloads, complete) ==
    [flags |-> kept, payloads |-> payloads, degraded |-> ~complete,
     reason |-> IF complete THEN "resolved" ELSE "unresolved"]

\* Mutant of LocalFirst: what local evaluation leaves undecided is not degraded.
LocalFirst_Silent(context, outcome, payloadsOf) ==
    LET kept == [k \in {k \in DOMAIN outcome : outcome[k] \notin Undecided} |-> outcome[k]]
    IN  Call("resolved", context, kept, {}, LocalSet(kept, resolveLocalPayloads(kept, payloadsOf), TRUE))

LocalFirst(context, outcome, payloadsOf) ==
    LET fallbackKeys == {k \in DOMAIN outcome : outcome[k] \in Undecided}
        kept == [k \in DOMAIN outcome \ fallbackKeys |-> outcome[k]]
        set == LocalSet(kept, resolveLocalPayloads(kept, payloadsOf), fallbackKeys = {})
    IN  IF fallbackKeys # {} /\ ~config.onlyLocally THEN roundTrip(context, kept, fallbackKeys, set)
        ELSE Call("resolved", context, kept, {}, set)

(* A key without a definition is dropped: it is neither asked for remotely  *)
(* nor reason to degrade.                                                   *)
resolveLocalFirst(context, current) ==
    LET keys == Contexts[context].keys
        positions == {i \in DOMAIN current.flags : keys = AllFlags \/ current.flags[i].key \in keys}
        definition == [k \in {current.flags[i].key : i \in positions} |->
                          CHOOSE d \in Range(current.flags) : d.key = k]
    IN  LocalFirst(context,
                   [k \in DOMAIN definition |->
                       computeFlagLocally(definition[k], Contexts[context].actor, current)],
                   [k \in DOMAIN definition |-> definition[k].payloads])

resolve(context) ==
    IF local /\ isReady THEN resolveLocalFirst(context, SnapshotOf(snapshot))
    ELSE IF local /\ config.onlyLocally THEN Call("resolved", context, <<>>, {}, emptyFlagSet)
    ELSE roundTrip(context, <<>>, Contexts[context].keys, emptyFlagSet)

(* The null object answers at once, and never fires.                        *)
Evaluate(c, context) ==
    /\ client # "refused"
    /\ calls[c] = Idle
    /\ calls' = [calls EXCEPT ![c] =
                    IF client = "noop" THEN Call("settled", context, <<>>, {}, emptyFlagSet)
                    ELSE resolve(context)]
    /\ UNCHANGED <<vars, setup, client, listeners, fired, firstSet, heard>>

(* External: any body of an ok response is an answer, whatever was asked:   *)
(* it may leave flags out, have none, or have others.                       *)
FlagServerAnswers(c) ==
    /\ calls[c].phase = "asked"
    /\ \E answer \in config.answers :
          LET remote == [flags |-> answer, payloads |-> <<>>,
                         reason |-> "resolved", degraded |-> FALSE]
          IN  calls' = [calls EXCEPT ![c].phase = "resolved", ![c].answered = TRUE,
                                     ![c].answer = answer, ![c].set = Merged(@, remote)]
    /\ UNCHANGED <<vars, setup, client, listeners, fired, firstSet, heard>>

FlagServerFails(c) ==
    /\ calls[c].phase = "asked"
    /\ calls' = [calls EXCEPT ![c].phase = "resolved", ![c].set = Merged(@, Degraded)]
    /\ UNCHANGED <<vars, setup, client, listeners, fired, firstSet, heard>>

---------------------------------------------------------------------------
\* Mutant of fireOnce: the listeners stay registered, and hear every set.
fireOnce_Again(set) ==
    /\ fired' = TRUE
    /\ firstSet' = (IF fired THEN firstSet ELSE set)
    /\ heard' = [l \in Listeners |-> IF l \in Range(listeners) THEN Append(heard[l], set) ELSE heard[l]]
    /\ UNCHANGED listeners

(* The first set that settles goes to the listeners in turn.  One that      *)
(* throws ends the round: those behind it stay registered, and the call     *)
(* rejects.                                                                 *)
fireOnce(set) ==
    LET throws == {i \in DOMAIN listeners : listeners[i] \in config.throwing}
        told == IF throws = {} THEN Range(listeners)
                ELSE {listeners[i] : i \in 1..First(throws)}
    IN  IF fired THEN UNCHANGED <<fired, firstSet, heard, listeners>>
        ELSE /\ fired' = TRUE
             /\ firstSet' = set
             /\ heard' = [l \in Listeners |-> IF l \in told THEN Append(heard[l], set) ELSE heard[l]]
             /\ listeners' = IF throws = {} THEN <<>> ELSE listeners

Settles(c) ==
    /\ calls[c].phase = "resolved"
    /\ LET set == buildFlagSet(calls[c].set) IN
       /\ fireOnce(set)
       /\ calls' = [calls EXCEPT ![c].set = set,
                       ![c].phase = IF ~fired /\ Range(listeners) \cap config.throwing # {}
                                    THEN "rejected" ELSE "settled"]
    /\ UNCHANGED <<vars, setup, client>>

OnChange(l) ==
    /\ client # "refused"
    /\ heard[l] = <<>> /\ l \notin Range(listeners)
    /\ IF client = "noop" \/ fired
       THEN heard' = [heard EXCEPT ![l] = Append(@, firstSet)] /\ UNCHANGED listeners
       ELSE listeners' = Append(listeners, l) /\ UNCHANGED heard
    /\ UNCHANGED <<vars, setup, client, calls, fired, firstSet>>

(* The function onChange returned is called.                                *)
Unsubscribe(l) ==
    /\ l \in Range(listeners)
    /\ \E i \in DOMAIN listeners :
          /\ listeners[i] = l
          /\ listeners' = SubSeq(listeners, 1, i - 1) \o SubSeq(listeners, i + 1, Len(listeners))
    /\ UNCHANGED <<vars, setup, client, calls, fired, firstSet, heard>>

---------------------------------------------------------------------------
Poll == local /\ Next /\ UNCHANGED flagVars

FlagsNext ==
    \/ Poll
    \/ \E c \in Callers : \/ \E context \in config.contexts[c] : Evaluate(c, context)
                          \/ FlagServerAnswers(c)
                          \/ FlagServerFails(c)
                          \/ Settles(c)
    \/ \E l \in config.listeners : OnChange(l) \/ Unsubscribe(l)

(* As for the poller.  Nobody has to call, and fetch may hang.              *)
FlagsSpec == FlagsInit /\ [][FlagsNext]_allVars /\ (local => Fairness)

---------------------------------------------------------------------------
Phases == {"asked", "resolved", "settled", "rejected"}

TypeOKFlags ==
    /\ TypeOK
    /\ setup \in DOMAIN Configurations
    /\ \A c \in Callers :
          \/ calls[c] = Idle
          \/ /\ calls[c].phase \in Phases
             /\ calls[c].version \in Version
             /\ calls[c].set.degraded \in BOOLEAN
             /\ calls[c].set.reason \in {"resolved", "unresolved", "stale"}
    /\ Range(listeners) \subseteq Listeners
    /\ fired \in BOOLEAN

CohortsUseAbsence(cohorts) ==
    \E g \in DOMAIN cohorts : \E i \in DOMAIN cohorts[g].values :
        LET m == cohorts[g].values[i] IN
        m.type \notin {"group", "cohort", "flag"} /\ m.operator = "is_not_set"

UsesAbsence(definition, cohorts) ==
    \E i \in DOMAIN definition.groups : \E j \in DOMAIN definition.groups[i].properties :
        LET filter == definition.groups[i].properties[j] IN
        IF filter.type = "cohort" THEN CohortsUseAbsence(cohorts)
        ELSE filter.operator = "is_not_set"

(* A flag that was decided in this process, from the properties the caller  *)
(* gave, is on or off as it would be with all of the actor's properties: a  *)
(* group, a condition or a cohort that cannot be decided is never passed    *)
(* over ("never wrong").  Which variant is on may differ, and so may whether*)
(* the server is asked.  Filters on absence are excepted, the cohorts' too: *)
(* they take what is not given for absent.                                  *)
DecisionStands ==
    \A c \in Callers : calls[c] # Idle =>
        LET read == SnapshotOf(calls[c].version)
            whole == Contexts[calls[c].context].whole
        IN  \A i \in DOMAIN read.flags :
              LET definition == read.flags[i] IN
              definition.key \in DOMAIN calls[c].kept /\ ~UsesAbsence(definition, read.cohorts) =>
                (calls[c].kept[definition.key] = "off")
                    = (computeFlagLocally(definition, whole, read) = "off")

(* A set that does not say it is degraded has a value for every flag that   *)
(* was asked for and has a definition, except for one the server was asked  *)
(* for and left out of its answer: the code takes any ok body as complete.  *)
(* It holds nothing but what this process decided and what the server       *)
(* answered, the answer's value where there are both; a round-trip that was *)
(* needed did not fail; and no caller of a client that only evaluates       *)
(* locally waits for a server.                                              *)
NotDegradedIsAnswered ==
    \A c \in Callers : calls[c].phase = "settled" /\ ~calls[c].set.degraded =>
        /\ \A i \in DOMAIN SnapshotOf(calls[c].version).flags :
              LET key == SnapshotOf(calls[c].version).flags[i].key IN
              LET keys == Contexts[calls[c].context].keys IN (keys = AllFlags \/ key \in keys) =>
                \/ key \in DOMAIN calls[c].set.flags
                \/ (calls[c].asked = AllFlags \/ key \in calls[c].asked) /\ key \notin DOMAIN calls[c].answer
        /\ calls[c].set.flags = calls[c].answer @@ calls[c].kept
        /\ calls[c].asked # {} => calls[c].answered
        /\ config.onlyLocally /\ local => loadedSuccessfullyOnce /\ calls[c].asked = {}

(* Whenever it registers, a listener hears one set, the first that settled, *)
(* and none is left waiting after it: except behind one that threw.         *)
EachListenerOnce ==
    /\ \A l \in Listeners : heard[l] \in {<<>>, <<firstSet>>}
    /\ fired /\ listeners # <<>> => \E l \in config.throwing : heard[l] # <<>>

(* A client of static definitions was built with valid variants.  Where     *)
(* they are valid, one that is declared once is served to as many per cent  *)
(* of the buckets as it declares.                                           *)
VariantsGetTheirShare ==
    client = "adapter" =>
        \A i \in DOMAIN SnapshotOf(snapshot).flags :
            LET variants == SnapshotOf(snapshot).flags[i].variants IN
            /\ seeded => validVariants(variants)
            /\ validVariants(variants) =>
                  \A j \in DOMAIN variants :
                     (\A k \in DOMAIN variants : variants[k].key = variants[j].key => k = j) =>
                        Cardinality({b \in 0..99 : getMatchingVariant(variants, b) = variants[j].key})
                            = variants[j].rollout

SmallVersions == (0..2) \X (0..2) \X (0..2)

(* A caret range takes the versions from its bound on that agree with it up *)
(* to its first component that is not zero; a tilde range those that agree  *)
(* in major and minor.                                                      *)
RangesKeepCompatible ==
    \A i \in DOMAIN SnapshotOf(snapshot).flags :
        LET groups == SnapshotOf(snapshot).flags[i].groups IN
        \A j \in DOMAIN groups : \A m \in DOMAIN groups[j].properties :
            LET filter == groups[j].properties[m]
                bound == (CHOOSE v \in filter.values : TRUE).version
                leading == IF \E n \in 1..3 : bound[n] # 0 THEN First({n \in 1..3 : bound[n] # 0}) ELSE 3
                fixed == IF filter.operator = "semver_tilde" THEN 2 ELSE leading
            IN  filter.operator \in {"semver_tilde", "semver_caret"} /\ bound \in Triples =>
                \A v \in SmallVersions :
                    (SemverMatch(filter.operator, CHOOSE w \in filter.values : TRUE, [version |-> v]) = "yes")
                        = (~VersionLess(v, bound) /\ \A n \in 1..fixed : v[n] = bound[n])

(* Polling goes on until it is stopped, as long as no tick falls into a     *)
(* load that is still under way.                                            *)
LocalPollsUnlessTickMissed ==
    []<>(~local \/ loads # {} \/ stopped \/ seeded \/ missedTick)
=============================================================================
