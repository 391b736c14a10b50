--------------------------- MODULE BrowserIdentity ---------------------------
(***************************************************************************)
(* Who the browser client says its visitor is, and where that is kept.     *)
(*                                                                         *)
(* Pages of one browser open, live and close over the storage they share.  *)
(* Each runs the facade, the browser adapter, the identity store over the  *)
(* property store (PropertyStore), and the consent store, whose decision   *)
(* picks the backend once, when the page opens, and again on a grant.      *)
(* What they capture goes through the pipeline and the wire mapper         *)
(* (EventPipeline).                                                        *)
(* A page runs one handler at a time; what interleaves is the pages, the   *)
(* debounced saves, and the ways a page ends.                              *)
(*                                                                         *)
(* Identifiers minted here are numbers, each new one the next; the ids a   *)
(* consumer identifies with are the Users.                                 *)
(***************************************************************************)
EXTENDS EventPipeline, FiniteSets

CONSTANTS
    Pages,            \* tabs of the browser
    Users,            \* ids passed to identify()
    GroupTypes,
    Webs,             \* [mode, localStorage, crossSubdomain, doNotTrack, sites]
    Events,           \* the consumer's events: [kind, event, properties, enrichment]
    consentDefault,   \* the configured meaning of a decision not yet taken
    None,             \* no page, nothing kept
    MaxLoads,         \* bound: page loads
    MaxIds,           \* bound: identifiers minted
    MaxCalls          \* bound: calls that change the identity, the properties or the consent

ANONYMOUS == "anonymous"
IDENTIFIED == "identified"

(* What a client keeps under each key, and what it is.                     *)
IdentityKeys == {DEVICE_ID, DISTINCT_ID, ANONYMOUS_DISTINCT_ID}
Keys == IdentityKeys \cup {IDENTITY_STATE, GROUPS, INITIAL_PROPS} \cup SuperKeys
Kept == Nat \cup Users \cup {ANONYMOUS, IDENTIFIED, "auto"} \cup Values \cup SUBSET GroupTypes
Bags == UNION {[keys -> Kept] : keys \in SUBSET Keys}
Decisions == {"pending", "granted", "denied"}
Backends == {memoryBackend, cookieBackend, localStoragePlusCookie}

(* For the properties: whether consent read granted when the page opened or*)
(* was made so since, or optIn() was called while the browser's signal went*)
(* on making it read denied.                                               *)
Grounds == {"none", "granted", "overSignal"}

Clients == [site : Sites, consent : Decisions, kind : Backends, props : Bags, saveDue : BOOLEAN,
            distinctId : Nat \cup Users \cup {None}, state : {ANONYMOUS, IDENTIFIED},
            optedOut : BOOLEAN, ground : Grounds]

ASSUME IdentityBounds ==
    /\ MaxLoads \in Nat /\ MaxIds \in Nat /\ MaxCalls \in Nat
    /\ consentDefault \in {"granted", "denied", "unset"}
    /\ Users \cap Nat = {}
    /\ None \notin Clients \cup [site : Sites, props : Bags]
    /\ Webs \subseteq [mode : Backends, localStorage : BOOLEAN, crossSubdomain : BOOLEAN,
                      doNotTrack : BOOLEAN, sites : SUBSET Sites]

(* register() admits the keys of the consumer's allowlist, which here has   *)
(* none of the library's names, on either side of the mapper; and the      *)
(* consumer's events do not name the retained id.                          *)
ASSUME ConsumerKeys ==
    /\ SuperKeys \cap (IdentityKeys \cup {IDENTITY_STATE, INITIAL_PROPS} \cup ReservedKeys
                      \cup {SET_TRAITS, SET_TRAITS_ONCE, GROUPS_WIRE, GEOIP_DISABLE_WIRE, TOKEN_WIRE}) = {}
    /\ \A event \in Events :
          /\ DOMAIN event = {"kind", "event", "properties", "enrichment"}
          /\ event.kind \in {"track", "page"}
          /\ ANONYMOUS_DISTINCT_ID \notin DOMAIN event.properties

VARIABLES
    web,         \* the configuration and the browser, never changed
    disk,        \* the property entries of the backends
    consent,     \* the durable decision of each site
    page,        \* the client each page runs, or None
    minted,      \* how many identifiers there are
    links,       \* the merges on the wire: <<anonymous id, user>>
    loads, calls,
    orderly,     \* history: one page at a time, none killed before its save
    kept         \* history: what the last page that wrote to a jar left there

vars == <<web, disk, consent, page, minted, links, loads, calls, orderly, kept>>

(* A mode of memory has its decision in the page's memory too.             *)
Remembers == web.mode # "memory"

(* A Do-Not-Track signal makes any decision a denial.                      *)
getConsentState(client) == IF web.doNotTrack THEN "denied" ELSE client.consent

resolveOptedOut(state) ==
    state = "denied" \/ (state = "pending" /\ consentDefault # "granted")

captureSuppressed(client) == resolveOptedOut(getConsentState(client))

(* A wire event says that the visitor it is of was anonymous before, by    *)
(* the property the receiving side merges on.                              *)
Link(wire) == IF Has(wire.properties, ANONYMOUS_DISTINCT_ID)
              THEN {<<wire.properties[ANONYMOUS_DISTINCT_ID], wire.distinct_id>>}
              ELSE {}

(* What capture() may do: nothing when suppressed, nothing when the filter *)
(* for bots or the rate limit stops the event, else an event on the queue; *)
(* where the visitor came from is kept and, when the session moved or was  *)
(* entered, there is a change to be saved.                                 *)
Captures(client, event) ==
    {[client |-> client, link |-> {}]} \cup
    IF captureSuppressed(client) THEN {}
    ELSE LET captured == writeInitialProps(client)
             link == Link(toWireEvent(client, event))
         IN  {[client |-> captured, link |-> link], [client |-> save(captured), link |-> link]}

(* An event the adapter mints for the client, with the instance's toggles. *)
Minted(client, kind, properties) ==
    [kind |-> kind, event |-> kind, distinctId |-> client.distinctId, properties |-> properties,
     enrichment |-> {"page", "device", "referrer", "utm"}]

----------------------------------------------------------------------------
(* The identity store.                                                     *)
As(client, id, state) == [client EXCEPT !.distinctId = id, !.state = state]

(* What is stored is read first, and what is missing is minted.            *)
bootstrap(client, device, fresh) ==
    LET known == IF Has(client.props, DEVICE_ID) THEN client
                 ELSE registerOnce(client, DEVICE_ID :> device)
    IN  IF Has(client.props, DISTINCT_ID)
        THEN As(known, client.props[DISTINCT_ID],
                IF Has(client.props, IDENTITY_STATE)
                THEN client.props[IDENTITY_STATE] ELSE ANONYMOUS)
        ELSE As(registerOnce(known, DISTINCT_ID :> fresh @@ IDENTITY_STATE :> ANONYMOUS),
                fresh, ANONYMOUS)

\* Mutant of merge: the identified state stays in the cache.
merge_StateInMemory(client, id) ==
    As(register(client, DISTINCT_ID :> id @@ ANONYMOUS_DISTINCT_ID :> client.distinctId),
       id, IDENTIFIED)

merge(client, id) ==
    As(register(client, DISTINCT_ID :> id @@ IDENTITY_STATE :> IDENTIFIED
                        @@ ANONYMOUS_DISTINCT_ID :> client.distinctId),
       id, IDENTIFIED)

\* Mutant of setDistinctId: the adopted id stays in the cache.
setDistinctId_CacheOnly(client, id) == As(client, id, IDENTIFIED)

setDistinctId(client, id) ==
    As(register(client, DISTINCT_ID :> id @@ IDENTITY_STATE :> IDENTIFIED), id, IDENTIFIED)

(* The device id survives a reset unless told not to.                      *)
NextDevice(client, resetDevice, device) ==
    IF resetDevice \/ ~Has(client.props, DEVICE_ID) THEN device ELSE client.props[DEVICE_ID]

resetIdentity(client, device, fresh) ==
    LET bare == register(cleared(client), DEVICE_ID :> device)
    IN  As(registerOnce(bare, DISTINCT_ID :> fresh @@ IDENTITY_STATE :> ANONYMOUS),
           fresh, ANONYMOUS)

----------------------------------------------------------------------------
(* The life of a page.                                                     *)
Init ==
    /\ web \in Webs
    /\ disk = [local |-> [s \in Sites |-> Empty], cookie |-> [j \in Jars |-> Empty]]
    /\ consent = [s \in Sites |-> "pending"]
    /\ page = [p \in Pages |-> None]
    /\ minted = 0 /\ loads = 0 /\ calls = 0
    /\ links = {}
    /\ orderly = TRUE
    /\ kept = [j \in Jars |-> None]

Open(p) == page[p] # None

\* Mutant of EffectiveMode: the configured mode, whatever the decision.
EffectiveMode_AsConfigured(client) == web.mode

(* Consent is read first: only a granted page is given the durable backend.*)
EffectiveMode(client) == IF getConsentState(client) = "granted" THEN web.mode ELSE "memory"

Constructed(site) ==
    LET given == [site |-> site, consent |-> IF Remembers THEN consent[site] ELSE "pending"]
        kind == buildPropsBackend(EffectiveMode(given), web)
    IN  [site |-> site, consent |-> given.consent, kind |-> kind,
         props |-> parse(kind, site, web, disk), saveDue |-> FALSE,
         distinctId |-> None, state |-> ANONYMOUS,
         optedOut |-> captureSuppressed(given),
         ground |-> IF getConsentState(given) = "granted" THEN "granted" ELSE "none"]

(* Two sites of one jar each keep a localStorage of their own, and a site  *)
(* that comes back reads its own, whatever the jar was told meanwhile.     *)
Outdated(client) ==
    LET left == kept[Jar(client.site, web)]
    IN  /\ client.kind = "localStorage+cookie"
        /\ left # None /\ left.site # client.site
        /\ disk.local[client.site] # Empty

Load(p, site) ==
    /\ ~Open(p) /\ site \in web.sites
    /\ loads < MaxLoads
    /\ LET bare == Constructed(site) IN
        /\ page' = [page EXCEPT ![p] = bootstrap(bare, minted + 1, minted + 2)]
        /\ minted' = IF Has(bare.props, DEVICE_ID) /\ Has(bare.props, DISTINCT_ID)
                     THEN minted ELSE minted + 2
        /\ minted' <= MaxIds
        /\ orderly' = (orderly /\ ~Outdated(bare) /\ \A q \in Pages : ~Open(q))
    /\ loads' = loads + 1
    /\ UNCHANGED <<web, disk, consent, links, calls, kept>>

Leave(p, client, after) ==
    /\ page' = [page EXCEPT ![p] = None]
    /\ disk' = after
    /\ kept' = IF client.kind = "memory" THEN kept
               ELSE [kept EXCEPT ![Jar(client.site, web)] =
                        [site |-> client.site, props |-> client.props]]

\* Mutant of Close: nothing is flushed on the way out.
Close_NoFlush(p) ==
    /\ Open(p)
    /\ Leave(p, page[p], disk)
    /\ UNCHANGED <<web, consent, minted, links, loads, calls, orderly>>

(* The store's listener writes what is pending; the adapter's, registered  *)
(* after it, may capture a pageleave whose session write is never saved.   *)
Close(p) ==
    /\ Open(p)
    /\ Leave(p, page[p], IF page[p].saveDue THEN writeNow(page[p], web, disk) ELSE disk)
    /\ UNCHANGED <<web, consent, minted, links, loads, calls, orderly>>

(* The page is killed: no listener runs.                                   *)
Crash(p) ==
    /\ Open(p)
    /\ Leave(p, page[p], disk)
    /\ orderly' = (orderly /\ ~(page[p].saveDue /\ page[p].kind # "memory"))
    /\ UNCHANGED <<web, consent, minted, links, loads, calls>>

SaveFires(p) ==
    /\ Open(p) /\ page[p].saveDue
    /\ disk' = writeNow(page[p], web, disk)
    /\ page' = [page EXCEPT ![p].saveDue = FALSE]
    /\ UNCHANGED <<web, consent, minted, links, loads, calls, orderly, kept>>

----------------------------------------------------------------------------
(* The verbs of the facade.  Those that keep something go to the live      *)
(* adapter whatever the consent, and its capture() drops their event.      *)
Called == calls < MaxCalls /\ calls' = calls + 1

Now(p, client) ==
    /\ page' = [page EXCEPT ![p] = client]
    /\ client # page[p]
    /\ UNCHANGED <<web, disk, consent, minted, loads, orderly, kept>>

(* track() and page(), of the root or of a scoped view: through the        *)
(* facade's own gate first.                                                *)
buildEvent(client, event) == event @@ [distinctId |-> client.distinctId]

Track(p, event) ==
    /\ Open(p) /\ ~page[p].optedOut
    /\ \E outcome \in Captures(page[p], buildEvent(page[p], event)) :
          /\ Now(p, outcome.client)
          /\ links' = links \cup outcome.link
    /\ UNCHANGED calls

traitBags(traits) == IF traits THEN SET_TRAITS :> Empty ELSE Empty

buildTraitsEvent(client, traits) == Minted(client, "merge", traitBags(traits))

buildMergeEvent(client, retainedAnonId, traits) ==
    Minted(client, "merge", traitBags(traits) @@ ANONYMOUS_DISTINCT_ID :> retainedAnonId)

Identify(p, id, traits) ==
    /\ Open(p) /\ Called
    /\ LET client == page[p]
           changed == id # client.distinctId
           merged == merge(client, id)
           adopted == IF changed THEN setDistinctId(client, id) ELSE client
           outcomes ==
               IF changed /\ client.state = ANONYMOUS
               THEN Captures(merged, buildMergeEvent(merged, client.distinctId, traits))
               ELSE IF traits THEN Captures(adopted, buildTraitsEvent(adopted, traits))
               ELSE {[client |-> adopted, link |-> {}]}
       IN  \E outcome \in outcomes :
               Now(p, outcome.client) /\ links' = links \cup outcome.link

(* setTraits(): identify() as whoever the visitor is.                      *)
SetTraits(p) == Open(p) /\ Identify(p, page[p].distinctId, TRUE)

Register(p, key, value, once) ==
    /\ Open(p) /\ Called
    /\ Now(p, IF once THEN registerOnce(page[p], key :> value) ELSE register(page[p], key :> value))
    /\ UNCHANGED links

Unregister(p, key) ==
    /\ Open(p) /\ Called
    /\ Now(p, unregister(page[p], key))
    /\ UNCHANGED links

(* group(): the memberships are a new object each time, so always saved.   *)
Memberships(client) == IF Has(client.props, GROUPS) THEN client.props[GROUPS] ELSE {}

Group(p, type) ==
    /\ Open(p) /\ Called
    /\ LET joined == save(register(page[p], GROUPS :> (Memberships(page[p]) \cup {type})))
       IN  \E outcome \in Captures(joined, Minted(joined, "group_identify", "group_type" :> type)) :
               Now(p, outcome.client) /\ links' = links \cup outcome.link

(* The entry is removed at once and its successor saved later.             *)
Reset(p, resetDevice) ==
    /\ Open(p) /\ minted + 2 <= MaxIds
    /\ LET device == NextDevice(page[p], resetDevice, minted + 2) IN
        /\ page' = [page EXCEPT ![p] = resetIdentity(page[p], device, minted + 1)]
        /\ minted' = IF device = minted + 2 THEN minted + 2 ELSE minted + 1
    /\ disk' = remove(page[p].kind, page[p].site, web, disk)
    /\ Called
    /\ UNCHANGED <<web, consent, links, loads, orderly, kept>>

setConsentState(p, state) ==
    /\ Called
    /\ consent' = IF Remembers THEN [consent EXCEPT ![page[p].site] = state] ELSE consent
    /\ UNCHANGED <<web, minted, links, loads, orderly, kept>>

(* A grant that was none before moves the properties to the durable        *)
(* backend in one write, over whatever is there, and so does every optIn() *)
(* under a Do-Not-Track signal: consent reads denied before and after it.  *)
OptIn(p) ==
    /\ Open(p)
    /\ setConsentState(p, "granted")
    /\ LET asked == [page[p] EXCEPT !.consent = "granted", !.optedOut = FALSE,
                                    !.ground = IF web.doNotTrack THEN "overSignal" ELSE "granted"]
           moved == promoted(asked, buildPropsBackend(web.mode, web))
       IN  IF getConsentState(page[p]) = "granted"
           THEN page' = [page EXCEPT ![p] = asked] /\ UNCHANGED disk
           ELSE /\ page' = [page EXCEPT ![p] = moved]
                /\ disk' = writeNow(moved, web, disk)

(* A denial leaves the backend, and what is on it, as they are.            *)
OptOut(p) ==
    /\ Open(p)
    /\ setConsentState(p, "denied")
    /\ page' = [page EXCEPT ![p].consent = "denied", ![p].optedOut = TRUE]
    /\ UNCHANGED disk

Next ==
    \E p \in Pages :
        \/ \E site \in Sites : Load(p, site)
        \/ Close(p) \/ Crash(p) \/ SaveFires(p)
        \/ SetTraits(p)
        \/ \E event \in Events : Track(p, event)
        \/ \E id \in Users, traits \in BOOLEAN : Identify(p, id, traits)
        \/ \E key \in SuperKeys, value \in Values, once \in BOOLEAN : Register(p, key, value, once)
        \/ \E key \in SuperKeys : Unregister(p, key)
        \/ \E type \in GroupTypes : Group(p, type)
        \/ \E resetDevice \in BOOLEAN : Reset(p, resetDevice)
        \/ OptIn(p) \/ OptOut(p)

Spec == Init /\ [][Next]_vars

----------------------------------------------------------------------------
Ids == 1..minted \cup Users

IsProps(props) ==
    \A key \in DOMAIN props :
        CASE key \in IdentityKeys -> props[key] \in Ids
          [] key = IDENTITY_STATE -> props[key] \in {ANONYMOUS, IDENTIFIED}
          [] key = GROUPS -> props[key] \subseteq GroupTypes
          [] key = INITIAL_PROPS -> props[key] = "auto"
          [] OTHER -> key \in SuperKeys /\ props[key] \in Values

(* The type of the state; and what an open page caches of its identity is  *)
(* what its store holds (merge, setDistinctId and reset: "in lockstep").   *)
TypeOK ==
    /\ web \in Webs
    /\ \A site \in Sites : IsProps(disk.local[site])
    /\ \A jar \in Jars :
          /\ IsProps(disk.cookie[jar])
          /\ kept[jar] # None => kept[jar].site \in Sites /\ IsProps(kept[jar].props)
    /\ consent \in [Sites -> Decisions]
    /\ minted \in 0..MaxIds /\ loads \in 0..MaxLoads /\ calls \in 0..MaxCalls
    /\ orderly \in BOOLEAN
    /\ links \subseteq Ids \X Ids
    /\ \A p \in {q \in Pages : Open(q)} :
          /\ page[p].site \in web.sites
          /\ page[p].kind \in Backends
          /\ IsProps(page[p].props)
          /\ page[p].saveDue \in BOOLEAN /\ page[p].optedOut \in BOOLEAN
          /\ page[p].props[DISTINCT_ID] = page[p].distinctId
          /\ page[p].props[IDENTITY_STATE] = page[p].state
          /\ Has(page[p].props, DEVICE_ID)

(* While pages come one after the other and none is killed with its save   *)
(* due, an anonymous visitor is merged into one user at most, a known user *)
(* is never merged into another, and nobody goes on as an anonymous id     *)
(* that was already merged: reset(), reload, opt-out and opt-in included.  *)
OneUserPerAnonymousId ==
    orderly =>
        /\ \A one, other \in links : one[1] = other[1] => one = other
        /\ \A link \in links : link[1] \notin Users
        /\ \A p \in {q \in Pages : Open(q)} : page[p].state = ANONYMOUS =>
              \A link \in links : link[1] # page[p].distinctId

(* What rides on the event of a client: a registered property, unless the  *)
(* event has its own; the memberships under their wire name; the configured*)
(* token; no reserved key, no key of the identity but of the event's; and  *)
(* the traits beside the properties, not among them.                       *)
RidesApart(client, event) ==
    LET wire == toWireEvent(client, event)
        given == event.properties
    IN  /\ \A key \in SuperKeys : Has(client.props, key) =>
              wire.properties[key] = IF Has(given, key) THEN given[key] ELSE client.props[key]
        /\ Has(client.props, GROUPS) \/ Has(given, GROUPS) =>
              wire.properties[GROUPS_WIRE] =
                  IF Has(given, GROUPS) THEN given[GROUPS] ELSE client.props[GROUPS]
        /\ wire.properties[TOKEN_WIRE] = "auto"
        /\ DOMAIN wire.properties \cap ReservedKeys = {}
        /\ DOMAIN wire.properties \cap LEGACY_HIDDEN_KEYS \subseteq DOMAIN given
        /\ event.kind = "merge" => ~Has(wire.properties, SET_TRAITS) /\ wire.set_traits = given[SET_TRAITS]

(* On the wire the library's own state stays apart from the consumer's, for*)
(* every event an open page could send: the consumer's, of the root or of a*)
(* scoped view, and the merge event of an identify with traits.  There is  *)
(* one exception, which the mapper's comment denies: an event that names   *)
(* __ak_groups has its own value sent as $groups, for the memberships.     *)
WireKeepsApart ==
    \A p \in {q \in Pages : Open(q)} :
        /\ \A event \in Events : RidesApart(page[p], buildEvent(page[p], event))
        /\ RidesApart(page[p], buildMergeEvent(page[p], page[p].distinctId, TRUE))

(* A page that opens with a granted decision goes on as the last page that *)
(* wrote to its jar: with all its properties on the same site, with its    *)
(* identity and device on a site of the domain that never kept its own.    *)
(* The debounced saves, the unload flush and the promotion lose nothing.   *)
ReloadKeepsIdentity ==
    [][\A p \in Pages : (~Open(p) /\ Open(p)' /\ page'[p].kind # "memory" /\ orderly') =>
          LET left == kept[Jar(page'[p].site, web)] IN
          left # None =>
              IF left.site = page'[p].site THEN page'[p].props = left.props
              ELSE Only(page'[p].props, COOKIE_MIRRORED_KEYS) = Only(left.props, COOKIE_MIRRORED_KEYS)
      ]_vars

(* Nothing reaches what outlives the page but from a page whose consent    *)
(* read granted when it opened or since, whatever consentDefault lets it   *)
(* capture.  There is one exception, against "a non-granted decision       *)
(* (denied, pending, or a DNT/GPC signal) yields a memory-backed store":   *)
(* under such a signal a page on which optIn() was called writes.  One on  *)
(* which it was not never does, whatever decision is stored.               *)
MayWrite(client) ==
    \/ client.ground = "granted" /\ ~web.doNotTrack
    \/ client.ground = "overSignal" /\ web.doNotTrack

OnlyGrantOrOptInReachDisk ==
    [][\A p \in Pages :
          (page'[p] # page[p] /\ ~MayWrite(IF Open(p)' THEN page'[p] ELSE page[p]))
            => disk' = disk]_vars

(* "so an opted-out client writes nothing to durable storage": from the    *)
(* return of optOut() on, no step of the page puts an entry on the disk.   *)
SameOrRemoved(before, after) == \A key \in DOMAIN before : after[key] \in {before[key], Empty}

OptedOutWritesNothing ==
    [][\A p \in Pages :
          (Open(p) /\ page[p].optedOut /\ page'[p] # page[p] /\ Open(p)' /\ page'[p].optedOut)
            => SameOrRemoved(disk.local, disk'.local) /\ SameOrRemoved(disk.cookie, disk'.cookie)
      ]_vars
=============================================================================
