--------------------------- MODULE FlagEvaluation ---------------------------
(* ts/packages/node/src/flags/local: the in-process flag evaluator, a pure   *)
(* function of a definition, an actor and the cohorts.  Throwing is an       *)
(* outcome: "inconclusive" (InconclusiveMatchError) or "server"              *)
(* (RequiresServerEvaluation), beside "yes" and "no".                        *)
(*                                                                           *)
(* A property value is what the code's conversions read in it: `text` and    *)
(* the texts it includes, `number` (parseFloat), `version` (parseSemver),    *)
(* `wild` (a wildcard's fixed components) and `date`; None where the    *)
(* conversion fails.                                                         *)
EXTENDS Integers, Sequences, FiniteSets, Functions

CONSTANTS None, NotSupplied

Truth(b) == IF b THEN "yes" ELSE "no"
Undecided == {"inconclusive", "server"}

---------------------------------------------------------------------------
(* Versions are triples; the bounds are those of the three range operators. *)
VersionLess(a, b) ==
    \/ a[1] < b[1]
    \/ a[1] = b[1] /\ a[2] < b[2]
    \/ a[1] = b[1] /\ a[2] = b[2] /\ a[3] < b[3]

TildeUpper(v) == <<v[1], v[2] + 1, 0>>

\* Mutant of CaretUpper: a major of zero is a major like any other.
CaretUpper_AnyMajor(v) == <<v[1] + 1, 0, 0>>

CaretUpper(v) ==
    IF v[1] > 0 THEN <<v[1] + 1, 0, 0>>
    ELSE IF v[2] > 0 THEN <<0, v[2] + 1, 0>>
    ELSE <<0, 0, v[3] + 1>>

WildcardLower(w) == IF Len(w) = 1 THEN <<w[1], 0, 0>> ELSE <<w[1], w[2], 0>>
WildcardUpper(w) == IF Len(w) = 1 THEN <<w[1] + 1, 0, 0>> ELSE <<w[1], w[2] + 1, 0>>

InRange(v, lower, upper) == ~VersionLess(v, lower) /\ VersionLess(v, upper)

SemverMatch(operator, value, actual) ==
    LET v == value.version  a == actual.version IN
    IF a = None \/ (IF operator = "semver_wildcard" THEN value.wild ELSE v) = None
    THEN "inconclusive"
    ELSE Truth(CASE operator = "semver_eq" -> a = v
                 [] operator = "semver_neq" -> a # v
                 [] operator = "semver_gt" -> VersionLess(v, a)
                 [] operator = "semver_gte" -> ~VersionLess(a, v)
                 [] operator = "semver_lt" -> VersionLess(a, v)
                 [] operator = "semver_lte" -> ~VersionLess(v, a)
                 [] operator = "semver_tilde" -> InRange(a, v, TildeUpper(v))
                 [] operator = "semver_caret" -> InRange(a, v, CaretUpper(v))
                 [] operator = "semver_wildcard" ->
                        InRange(a, WildcardLower(value.wild), WildcardUpper(value.wild)))

(* Numbers where both sides are numbers, else the order of the texts.       *)
Compared(operator, value, actual) ==
    LET numeric == value.number # None /\ actual.number # None
        v == IF numeric THEN value.number ELSE value.text
        a == IF numeric THEN actual.number ELSE actual.text
    IN  Truth(CASE operator = "gt" -> a > v
                [] operator = "gte" -> a >= v
                [] operator = "lt" -> a < v
                [] operator = "lte" -> a <= v)

DateMatch(operator, value, actual) ==
    IF value.date = None \/ actual.date = None THEN "inconclusive"
    ELSE Truth(IF operator = "is_date_before" THEN actual.date < value.date
                                              ELSE actual.date > value.date)

SemverOperators == {"semver_eq", "semver_neq", "semver_gt", "semver_gte", "semver_lt",
                    "semver_lte", "semver_tilde", "semver_caret", "semver_wildcard"}
ALLOWED_OPERATORS ==
    {"exact", "is_not", "is_set", "is_not_set", "icontains", "not_icontains", "regex",
     "not_regex", "gt", "gte", "lt", "lte", "is_date_before", "is_date_after"} \cup SemverOperators

(* A filter compares with one value, or with the members of an array.       *)
Compares(filter, actual) ==
    LET operator == filter.operator
        value == CHOOSE v \in filter.values : TRUE
        exact == \E v \in filter.values : v.text = actual.text
        included == value.text \in actual.includes
    IN  CASE operator = "is_set" -> "yes"
          [] operator = "is_not_set" -> "no"
          [] operator = "exact" -> Truth(exact)
          [] operator = "is_not" -> Truth(~exact)
          [] operator = "icontains" -> Truth(included)
          [] operator = "not_icontains" -> Truth(~included)
          [] operator = "regex" -> Truth(value.pattern /\ included)
          [] operator = "not_regex" -> Truth(value.pattern /\ ~included)
          [] operator \in {"gt", "gte", "lt", "lte"} -> Compared(operator, value, actual)
          [] operator \in {"is_date_before", "is_date_after"} -> DateMatch(operator, value, actual)
          [] operator \in SemverOperators -> SemverMatch(operator, value, actual)
          [] operator \notin ALLOWED_OPERATORS -> "inconclusive"

matchProperty(filter, bag) ==
    IF filter.key \notin DOMAIN bag
    THEN IF filter.operator = "is_not_set" THEN "yes" ELSE "inconclusive"
    ELSE IF bag[filter.key].null /\ filter.operator \notin {"is_not", "is_set"} THEN "no"
    ELSE Compares(filter, bag[filter.key])

---------------------------------------------------------------------------
First(positions) == CHOOSE i \in positions : \A j \in positions : i <= j

\* Mutant of Walk: an undecided member is passed over.
Walk_ForgetsUndecided(outcomes, type) ==
    LET decisive == IF type = "AND" THEN "no" ELSE "yes"
        ends == {i \in DOMAIN outcomes : outcomes[i] \in {"server", decisive}}
    IN  IF ends # {} THEN outcomes[First(ends)] ELSE Truth(type = "AND")

(* The members in order: server-only data ends the walk, so does a member   *)
(* that decides; an undecided one is remembered.                            *)
Walk(outcomes, type) ==
    LET decisive == IF type = "AND" THEN "no" ELSE "yes"
        ends == {i \in DOMAIN outcomes : outcomes[i] \in {"server", decisive}}
    IN  CASE ends # {} -> outcomes[First(ends)]
          [] ends = {} /\ \E i \in DOMAIN outcomes : outcomes[i] = "inconclusive" -> "inconclusive"
          [] ends = {} /\ ~\E i \in DOMAIN outcomes : outcomes[i] = "inconclusive" -> Truth(type = "AND")

NegatedIf(negation, outcome) ==
    CASE negation /\ outcome = "yes" -> "no"
      [] negation /\ outcome = "no" -> "yes"
      [] OTHER -> outcome

(* The groups of a cohort map are numbered so that a group refers only to   *)
(* smaller ones: nested groups by `group`, cohorts by a filter of type      *)
(* "cohort" (the code does not end on a cyclic map).  An empty group        *)
(* matches.  A reference to an absent cohort needs the server.              *)
MemberOutcome(cohorts, bag, outcome, m) ==
    CASE m.type = "group" -> outcome[m.group]
      [] m.type = "cohort" ->
            NegatedIf(m.negation, IF m.cohort \in DOMAIN cohorts THEN outcome[m.cohort] ELSE "server")
      [] m.type = "flag" -> "inconclusive"
      [] OTHER -> NegatedIf(m.negation, matchProperty(m, bag))

GroupOutcome(cohorts, bag, outcome, g) ==
    LET values == cohorts[g].values IN
    IF values = <<>> THEN "yes"
    ELSE Walk([i \in DOMAIN values |-> MemberOutcome(cohorts, bag, outcome, values[i])],
              cohorts[g].type)

matchPropertyGroups(cohorts, bag) ==
    LET outcome[g \in DOMAIN cohorts] == GroupOutcome(cohorts, bag, outcome, g)
    IN  outcome

matchCohort(filter, bag, cohorts) ==
    IF filter.cohort \in DOMAIN cohorts THEN matchPropertyGroups(cohorts, bag)[filter.cohort]
    ELSE "server"

---------------------------------------------------------------------------

(* A condition's filters in order, up to one that does not match.           *)
AllMatch(outcomes) ==
    LET ends == {i \in DOMAIN outcomes : outcomes[i] # "yes"}
    IN  IF ends = {} THEN "yes" ELSE outcomes[First(ends)]

FilterOutcome(filter, bag, cohorts) ==
    CASE filter.type = "cohort" ->
            NegatedIf(filter.operator = "not_in", matchCohort(filter, bag, cohorts))
      [] filter.type = "flag" -> "inconclusive"
      [] OTHER -> matchProperty(filter, bag)

(* Then the rollout gate; a bucket is bucketHash in per cent, 100 included. *)
isConditionMatch(condition, bucket, bag, cohorts) ==
    LET matched == AllMatch([i \in DOMAIN condition.properties |->
                                FilterOutcome(condition.properties[i], bag, cohorts)])
    IN  IF matched = "yes" /\ condition.rollout # None THEN Truth(bucket <= condition.rollout)
        ELSE matched

(* Where the bands of the first n variants end, in declared order.          *)
bandEnd(variants, n) ==
    LET end[i \in 0..Len(variants)] == IF i = 0 THEN 0 ELSE end[i - 1] + variants[i].rollout
    IN  end[n]

\* Mutant of getMatchingVariant: a band includes its upper end.
getMatchingVariant_Closed(variants, bucket) ==
    LET bands == {i \in DOMAIN variants :
                     bandEnd(variants, i - 1) <= bucket /\ bucket <= bandEnd(variants, i)}
    IN  IF bands = {} THEN "on" ELSE variants[First(bands)].key

getMatchingVariant(variants, bucket) ==
    LET bands == {i \in DOMAIN variants :
                     bandEnd(variants, i - 1) <= bucket /\ bucket < bandEnd(variants, i)}
    IN  IF bands = {} THEN "on" ELSE variants[First(bands)].key

(* "on" and "off" are the values true and false, any other a variant: the   *)
(* one the first matching condition selects, if it is declared, or the one  *)
(* of the bucket's band.                                                    *)
Served(definition, matching, bucket) ==
    IF \E i \in DOMAIN definition.variants : definition.variants[i].key = matching.variant
    THEN matching.variant
    ELSE getMatchingVariant(definition.variants, bucket)

FlagValue(definition, bucket, outcomes) ==
    LET verdict == Walk(outcomes, "OR")
    IN  CASE verdict \in Undecided -> verdict
          [] verdict = "no" -> "off"
          [] verdict = "yes" ->
                Served(definition,
                       definition.groups[First({i \in DOMAIN outcomes : outcomes[i] = "yes"})], bucket)

evaluateFlagLocally(definition, buckets, bag, cohorts) ==
    CASE ~definition.active -> "off"
      [] definition.active /\ definition.continuity -> "inconclusive"
      [] definition.active /\ ~definition.continuity ->
            FlagValue(definition, buckets.variant,
                      [i \in DOMAIN definition.groups |->
                          isConditionMatch(definition.groups[i], buckets.rollout, bag, cohorts)])

(* The actor is a person, with the groups it belongs to: each has its       *)
(* properties and, for each flag, the buckets its key hashes to.  None: the *)
(* flag is by person.                                                       *)
resolveBucketingValue(definition, actor, groupTypeMapping) ==
    LET group == definition.aggregation
    IN  IF group = None THEN actor.person
        ELSE IF group \notin DOMAIN groupTypeMapping THEN None
        ELSE IF groupTypeMapping[group] \notin DOMAIN actor.groups THEN NotSupplied
        ELSE actor.groups[groupTypeMapping[group]]

computeFlagLocally(definition, actor, snapshot) ==
    LET resolved == resolveBucketingValue(definition, actor, snapshot.groupTypeMapping)
    IN  CASE ~definition.active \/ resolved = NotSupplied -> "off"
          [] definition.active /\ resolved = None -> "inconclusive"
          [] definition.active /\ resolved \notin {None, NotSupplied} ->
                evaluateFlagLocally(definition, resolved.buckets[definition.key],
                                    resolved.properties, snapshot.cohorts)

---------------------------------------------------------------------------
(* A static definition is checked when the client is built, then lowered.   *)
InRolloutRange(n) == n \in 0..100

validVariants(variants) ==
    /\ \A i \in DOMAIN variants : InRolloutRange(variants[i].rollout)
    /\ bandEnd(variants, Len(variants)) <= 100

validConditions(conditions, variants) ==
    \A i \in DOMAIN conditions :
        /\ conditions[i].rollout # None => InRolloutRange(conditions[i].rollout)
        /\ conditions[i].variantOverride # None =>
              \E j \in DOMAIN variants : variants[j].key = conditions[i].variantOverride
        /\ \A j \in DOMAIN conditions[i].propertyFilters :
              conditions[i].propertyFilters[j].operator \in ALLOWED_OPERATORS

validateDefinitions(definitions) ==
    /\ \A i, j \in DOMAIN definitions : definitions[i].key = definitions[j].key => i = j
    /\ \A i \in DOMAIN definitions :
          /\ validVariants(definitions[i].variants)
          /\ validConditions(definitions[i].conditions, definitions[i].variants)

lowerPropertyFilter(filter) ==
    [type |-> "person", key |-> filter.property, operator |-> filter.operator,
     values |-> filter.values, negation |-> filter.negated]

lowerCondition(condition) ==
    [properties |-> [i \in DOMAIN condition.propertyFilters |->
                        lowerPropertyFilter(condition.propertyFilters[i])],
     rollout |-> condition.rollout, variant |-> condition.variantOverride]

lowerDefinition(definition) ==
    [key |-> definition.key, active |-> definition.enabled, continuity |-> FALSE,
     aggregation |-> None, variants |-> definition.variants, payloads |-> definition.payloads,
     groups |-> [i \in DOMAIN definition.conditions |-> lowerCondition(definition.conditions[i])]]

lowerDefinitions(definitions) ==
    [flags |-> [i \in DOMAIN definitions |-> lowerDefinition(definitions[i])],
     groupTypeMapping |-> <<>>, cohorts |-> <<>>]
=============================================================================
