----------------------------- MODULE MCLocalFlags -----------------------------
(* The configurations, the definitions and the callers of LocalFlags.        *)
EXTENDS LocalFlags

Blank == [text |-> 0, includes |-> {}, number |-> None, version |-> None,
          wild |-> None, date |-> None, null |-> FALSE, pattern |-> TRUE]
Word(n) == [Blank EXCEPT !.text = n, !.includes = {n, 1}]
Number(n) == [Blank EXCEPT !.text = n, !.includes = {n}, !.number = n, !.date = n]
Release(v) == [Blank EXCEPT !.text = 7, !.version = v, !.wild = <<v[1], v[2]>>]
Null == [Blank EXCEPT !.null = TRUE]

\* Static definitions.
Filter(property, operator, value) ==
    [property |-> property, operator |-> operator, values |-> {value}, negated |-> FALSE]
Condition(filters, rollout, variant) ==
    [propertyFilters |-> filters, rollout |-> rollout, variantOverride |-> variant]
Definition(key, conditions, variants) ==
    [key |-> key, enabled |-> TRUE, conditions |-> conditions, variants |-> variants,
     payloads |-> [v \in {"on", "blue"} |-> "payload"]]

PlusVariant(n, m) == <<[key |-> "blue", rollout |-> n], [key |-> "red", rollout |-> m]>>

\* One flag per kind of operator, beside one that needs both properties.
OperatorCases ==
    <<<<"exact", Word(2)>>, <<"is_not", Word(2)>>, <<"is_set", Word(2)>>, <<"is_not_set", Word(2)>>,
      <<"icontains", Word(2)>>, <<"not_regex", Word(2)>>, <<"gt", Word(2)>>,
      <<"gt", Number(2)>>, <<"lte", Number(2)>>, <<"is_date_before", Number(5)>>,
      <<"semver_neq", Release(<<0, 1, 1>>)>>, <<"semver_wildcard", Release(<<0, 1, 1>>)>>>>
OperatorSet(case) ==
    <<Definition("f", <<Condition(<<Filter("a", case[1], case[2])>>, None, None),
                        Condition(<<Filter("b", "exact", Word(2))>>, 50, None)>>, <<>>),
      Definition("g", <<Condition(<<Filter("b", "exact", Word(2)), Filter("a", case[1], case[2])>>,
                                  50, None)>>, PlusVariant(30, 20))>>

Ranges ==
    <<Definition("f", <<Condition(<<Filter("a", "semver_caret", Release(<<0, 0, 1>>)),
                                    Filter("a", "semver_caret", Release(<<0, 1, 1>>)),
                                    Filter("a", "semver_caret", Release(<<1, 1, 0>>)),
                                    Filter("a", "semver_tilde", Release(<<0, 1, 1>>))>>,
                                  None, None)>>, <<>>)>>

Shares(n, m, override) ==
    <<Definition("f", <<Condition(<<>>, 60, override)>>, PlusVariant(n, m))>>

\* Fetched definitions: cohorts, a group flag, a flag with continuity.
Person(key, operator, value) ==
    [type |-> "person", key |-> key, operator |-> operator, values |-> {value}, negation |-> FALSE]
InCohort(n, op) == [type |-> "cohort", cohort |-> n, operator |-> op, negation |-> FALSE]
Wire(key, groups, aggregation, continuity) ==
    [key |-> key, active |-> TRUE, continuity |-> continuity, aggregation |-> aggregation,
     variants |-> <<>>, payloads |-> <<>>, groups |-> groups]
Group(properties) == [properties |-> properties, rollout |-> None, variant |-> None]

Cohorts ==
    <<[type |-> "AND", values |-> <<Person("a", "exact", Word(2)),
                                    [Person("b", "exact", Word(2)) EXCEPT !.negation = TRUE]>>],
      [type |-> "OR", values |-> <<InCohort(1, "in"), Person("b", "exact", Word(2))>>]>>

MCGenerations ==
    <<[flags |-> <<Wire("f", <<Group(<<InCohort(2, "not_in")>>)>>, None, FALSE),
                   Wire("g", <<Group(<<Person("a", "exact", Word(2))>>)>>, 1, FALSE),
                   Wire("h", <<Group(<<InCohort(9, "in")>>)>>, None, FALSE)>>,
       groupTypeMapping |-> <<"company">>, cohorts |-> Cohorts],
      [flags |-> <<Wire("f", <<Group(<<InCohort(1, "in")>>), Group(<<Person("b", "exact", Word(3))>>)>>,
                        None, FALSE),
                   Wire("g", <<Group(<<>>)>>, 2, FALSE),
                   Wire("h", <<Group(<<>>)>>, None, TRUE)>>,
       groupTypeMapping |-> <<"company">>, cohorts |-> Cohorts]>>

Buckets(n) == [k \in {"f", "g", "h"} |-> [rollout |-> n, variant |-> n]]
Subject(n, bag) == [buckets |-> Buckets(n), properties |-> bag]
Actor(n, bag) == [person |-> Subject(n, bag), groups |-> [name \in {"company"} |-> Subject(n, bag)]]

\* A caller's context: the two properties, which of them it knows, what it asks for.
ValueOf(name) ==
    CASE name = "two" -> Word(2) [] name = "three" -> Number(3)
      [] name = "null" -> Null [] name = "release" -> Release(<<0, 1, 0>>)
Names == {"two", "three", "null", "release"}
ContextIds(names, keys) == [a : names, b : names, given : SUBSET {"a", "b"}, keys : keys]
MCContexts ==
    [id \in ContextIds(Names, {"all", "some"}) |->
        LET bag == [p \in {"a", "b"} |-> ValueOf(IF p = "a" THEN id.a ELSE id.b)]
        IN  [actor |-> Actor(40, [p \in id.given |-> bag[p]]), whole |-> Actor(40, bag),
             keys |-> IF id.keys = "all" THEN AllFlags ELSE {"f", "z"}]]

Many == [c1 |-> ContextIds(Names, {"all"}), c2 |-> {}]
Few == [c1 |-> ContextIds({"two", "three"}, {"all"})
                 \cup {[a |-> "two", b |-> "two", given |-> {}, keys |-> "some"]},
        c2 |-> {[a |-> "two", b |-> "two", given |-> {"a"}, keys |-> "all"]}]

\* The server's answers: for every flag, for some only (or for others than were asked for), for none.
Answers == {[k \in {"f", "g", "h"} |-> "on"], [k \in {"f", "h"} |-> "off"], <<>>}

Config(source, definitions, remote, onlyLocally, contexts) ==
    [key |-> TRUE, source |-> source, definitions |-> definitions, remote |-> remote,
     onlyLocally |-> onlyLocally, bootstrap |-> <<>>, answers |-> Answers,
     contexts |-> contexts, listeners |-> {}, throwing |-> {}]

ValueSets == <<Ranges, Shares(30, 20, None), Shares(50, 50, "red"), Shares(50, 60, None), <<>>>>
Fallback(bootstrap, throwing) ==
    [Config("static", OperatorSet(<<"exact", Word(2)>>), TRUE, FALSE,
             [Few EXCEPT !.c1 = ContextIds({"two"}, {"all"})])
        EXCEPT !.bootstrap = bootstrap, !.listeners = {"l1", "l2"}, !.throwing = throwing]
Fetched(remote) ==
    Config("endpoint", <<>>, remote, ~remote,
           [c1 |-> IF remote THEN ContextIds({"two"}, {"all", "some"}) ELSE Few.c1, c2 |-> {}])
Remote(remote) ==
    [Config("none", <<>>, remote, FALSE, [Few EXCEPT !.c1 = ContextIds({"two"}, {"some"})]) EXCEPT !.bootstrap = [g |-> "on"], !.listeners = {"l1", "l2"}]

MCConfigurations ==
    [i \in DOMAIN OperatorCases |-> Config("static", OperatorSet(OperatorCases[i]), FALSE, TRUE, Many)]
      \o [i \in DOMAIN ValueSets |-> Config("static", ValueSets[i], FALSE, TRUE, Few)]
      \o <<Fallback(<<>>, {}), Fallback([f |-> "off"], {}), Fallback(<<>>, {"l1"}),
           Fetched(TRUE), Fetched(FALSE), Remote(TRUE), Remote(FALSE)>>
=============================================================================
