------------------------ MODULE BrowserIdentityProofs ------------------------
(* For any pages, sites, users and registered keys, on every browser and    *)
(* configuration: what a page caches of its identity is what its store      *)
(* holds, nothing is kept without a grant, an orderly reload loses nothing, *)
(* a visitor is merged into one user, and the wire keeps the library's keys *)
(* and the consumer's apart.                                                *)
EXTENDS BrowserIdentity, TLAPS

(* A bag of properties, of ids minted so far; and one that has an identity. *)
IsBag(bag, n) ==
    /\ bag = [key \in DOMAIN bag |-> bag[key]]
    /\ DOMAIN bag \subseteq Keys
    /\ \A key \in DOMAIN bag :
          /\ key \in IdentityKeys => bag[key] \in 1..n \cup Users
          /\ key = IDENTITY_STATE => bag[key] \in {ANONYMOUS, IDENTIFIED}
          /\ key = GROUPS => bag[key] \in SUBSET GroupTypes
          /\ key = INITIAL_PROPS => bag[key] = "auto"
          /\ key \in SuperKeys => bag[key] \in Values

Whole(bag) == {DEVICE_ID, DISTINCT_ID, IDENTITY_STATE} \subseteq DOMAIN bag

(* An entry of the disk is absent or has an identity.                       *)
IsEntry(bag, n) == IsBag(bag, n) /\ (bag = Empty \/ Whole(bag))

(* The backend that a grant gives.                                          *)
Durable == buildPropsBackend(web.mode, web)

(* A client caches the identity that it stores, and has a durable backend   *)
(* only when it was granted, or opted in over the browser's signal.         *)
Seated(client, n) ==
    /\ client \in Clients /\ IsBag(client.props, n)
    /\ client.kind \in {memoryBackend, Durable} /\ client.site \in web.sites
    /\ ~MayWrite(client) => client.kind = memoryBackend

InLockstep(client) ==
    /\ Whole(client.props)
    /\ client.props[DISTINCT_ID] = client.distinctId
    /\ client.props[IDENTITY_STATE] = client.state

IsClient(client, n) == Seated(client, n) /\ InLockstep(client)

Counted ==
    /\ web \in Webs
    /\ consent \in [Sites -> Decisions]
    /\ minted \in 0..MaxIds /\ loads \in 0..MaxLoads /\ calls \in 0..MaxCalls
    /\ orderly \in BOOLEAN
    /\ links \subseteq Ids \X Ids

IsDisk(any, n) ==
    /\ any = [local |-> any.local, cookie |-> any.cookie]
    /\ any.local = [site \in Sites |-> any.local[site]]
    /\ any.cookie = [jar \in Jars |-> any.cookie[jar]]
    /\ \A site \in Sites : IsEntry(any.local[site], n)
    /\ \A jar \in Jars : IsEntry(any.cookie[jar], n)

Left(left, n) ==
    /\ left = [site |-> left.site, props |-> left.props]
    /\ left.site \in web.sites /\ IsBag(left.props, n) /\ Whole(left.props)

Remembered ==
    /\ kept = [jar \in Jars |-> kept[jar]]
    /\ \A jar \in Jars : kept[jar] # None => Left(kept[jar], minted)

Paged ==
    /\ page = [p \in Pages |-> page[p]]
    /\ \A p \in Pages : Open(p) => IsClient(page[p], minted)

StoreInv == Counted /\ IsDisk(disk, minted) /\ Remembered /\ Paged

(* What a granted page would read on a site is `props', and the jar has the *)
(* identity half of them.                                                   *)
InSync(any, site, props) ==
    /\ parse(Durable, site, web, any) = props
    /\ cookieMirror(any.cookie[Jar(site, web)]) = cookieMirror(props)

Backed(p) == Open(p) /\ page[p].kind # memoryBackend

Held(jar) == \E p \in Pages : Backed(p) /\ Jar(page[p].site, web) = jar

(* While all is orderly there is one page; unless its save is due, what it  *)
(* holds can be read back, and so can what was left in any other jar.       *)
OnePage == \A p, q \in Pages : Open(p) /\ Open(q) => p = q

PageSaved ==
    \A p \in Pages : Backed(p) /\ ~page[p].saveDue => InSync(disk, page[p].site, page[p].props)

Untouched(jar) ==
    /\ disk.cookie[jar] = Empty
    /\ \A site \in web.sites : Jar(site, web) = jar => disk.local[site] = Empty

JarSaved(jar) ==
    IF kept[jar] = None THEN Untouched(jar)
    ELSE Jar(kept[jar].site, web) = jar /\ InSync(disk, kept[jar].site, kept[jar].props)

SavedInv == orderly => OnePage /\ PageSaved /\ \A jar \in Jars : ~Held(jar) => JarSaved(jar)

(* The anonymous visitors that can still be merged: that of an open page    *)
(* and those left in the jars that no open page writes to.                  *)
Unlinked(id) == id \in 1..minted /\ \A link \in links : link[1] # id

AnonymousPage(p) == Open(p) /\ page[p].state = ANONYMOUS

AnonymousJar(jar) ==
    ~Held(jar) /\ kept[jar] # None /\ kept[jar].props[IDENTITY_STATE] = ANONYMOUS

Visitor(jar) == kept[jar].props[DISTINCT_ID]

LinksOnce ==
    /\ \A one, other \in links : one[1] = other[1] => one = other
    /\ \A link \in links : link[1] \in 1..minted

VisitorInv ==
    orderly =>
        /\ LinksOnce
        /\ \A p \in Pages : AnonymousPage(p) => Unlinked(page[p].distinctId)
        /\ \A jar \in Jars : AnonymousJar(jar) => Unlinked(Visitor(jar))
        /\ \A p \in Pages, jar \in Jars :
              AnonymousPage(p) /\ AnonymousJar(jar) => page[p].distinctId # Visitor(jar)
        /\ \A jar, other \in Jars :
              AnonymousJar(jar) /\ AnonymousJar(other) /\ jar # other => Visitor(jar) # Visitor(other)

IdentityInv == StoreInv /\ SavedInv /\ VisitorInv

---------------------------------------------------------------------------
(* A bag of a single key, and a part of one.                                *)
LEMMA Single ==
    ASSUME NEW key, NEW value
    PROVE  DOMAIN (key :> value) = {key} /\ (key :> value)[key] = value
BY DEF :>

LEMMA PartOf ==
    ASSUME NEW bag, NEW keys
    PROVE  /\ DOMAIN Only(bag, keys) = DOMAIN bag \cap keys
           /\ \A key \in DOMAIN bag \cap keys : Only(bag, keys)[key] = bag[key]
BY DEF Only

---------------------------------------------------------------------------
(* The pipeline and the mapper, of any event.                               *)
Shaped(event) == {"kind", "event", "distinctId", "properties", "enrichment"} \subseteq DOMAIN event

LEMMA Policies ==
    /\ \A key : internalKeyPolicy(key) = "hidden" <=> key \in (ReservedKeys \ {GROUPS}) \cup LEGACY_HIDDEN_KEYS
    /\ \A key \in LEGACY_HIDDEN_KEYS : internalKeyPolicy(key) = "hidden"
    /\ internalKeyPolicy(GROUPS) # "hidden"
    /\ \A key \in SuperKeys : internalKeyPolicy(key) # "hidden"
<1>1. GROUPS \notin LEGACY_HIDDEN_KEYS
  BY DEF GROUPS, LEGACY_HIDDEN_KEYS, DISTINCT_ID, DEVICE_ID, ANONYMOUS_DISTINCT_ID, IDENTITY_STATE
<1>2. ASSUME NEW key
      PROVE  internalKeyPolicy(key) = "hidden" <=> key \in (ReservedKeys \ {GROUPS}) \cup LEGACY_HIDDEN_KEYS
  <2>1. CASE key = GROUPS
    BY <1>1, <2>1 DEF internalKeyPolicy
  <2>2. CASE key \in (ReservedKeys \ {GROUPS}) \cup LEGACY_HIDDEN_KEYS
    BY <1>1, <2>2 DEF internalKeyPolicy
  <2>3. CASE key # GROUPS /\ key \notin (ReservedKeys \ {GROUPS}) \cup LEGACY_HIDDEN_KEYS
    BY <2>3 DEF internalKeyPolicy
  <2> QED
    BY <2>1, <2>2, <2>3
<1>3. \A key \in SuperKeys : key \notin (ReservedKeys \ {GROUPS}) \cup LEGACY_HIDDEN_KEYS
  BY ConsumerKeys DEF LEGACY_HIDDEN_KEYS, IdentityKeys
<1> QED
  BY <1>1, <1>2, <1>3

(* Where a visitor came from is written once, and changes no other key.     *)
LEMMA InitialProps ==
    ASSUME NEW client, "props" \in DOMAIN client
    PROVE  LET props == writeInitialProps(client).props
           IN  /\ DOMAIN props = DOMAIN client.props \cup {INITIAL_PROPS}
               /\ \A key \in DOMAIN client.props : props[key] = client.props[key]
<1> DEFINE auto == "auto"
           new == client.props @@ (INITIAL_PROPS :> auto)
           both == new @@ client.props
<1>1. /\ DOMAIN both = DOMAIN client.props \cup {INITIAL_PROPS}
      /\ \A key \in DOMAIN client.props : both[key] = client.props[key]
  <2>1. /\ DOMAIN new = DOMAIN client.props \cup {INITIAL_PROPS}
        /\ \A key \in DOMAIN client.props : new[key] = client.props[key]
    <3> HIDE DEF auto
    <3> QED
      BY DEF @@, :>
  <2> HIDE DEF new
  <2>2. /\ DOMAIN both = DOMAIN new \cup DOMAIN client.props
        /\ \A key \in DOMAIN new : both[key] = new[key]
    BY DEF @@
  <2> QED
    BY <2>1, <2>2
<1> HIDE DEF new
<1>2. writeInitialProps(client) = IF both = client.props THEN client
                                  ELSE [[client EXCEPT !.props = both] EXCEPT !.saveDue = TRUE]
  BY DEF writeInitialProps, registerOnce, register, save, new
<1> HIDE DEF both
<1>3. writeInitialProps(client).props = both
  BY <1>2
<1> QED
  BY <1>1, <1>3

LEMMA Defaults ==
    ASSUME NEW event, Shaped(event), NEW defaults
    PROVE  LET after == WithDefaults(event, defaults)
           IN  /\ Shaped(after) /\ DOMAIN after = DOMAIN event
               /\ after.kind = event.kind /\ after.distinctId = event.distinctId
               /\ after.event = event.event /\ after.enrichment = event.enrichment
               /\ after.properties = event.properties @@ defaults
BY DEF WithDefaults, Shaped

LEMMA Pipeline ==
    ASSUME NEW client, "props" \in DOMAIN client, NEW event, Shaped(event)
    PROVE  LET after == runCapturePipeline(client, event)
               given == event.properties
           IN  /\ Shaped(after) /\ after.kind = event.kind /\ after.distinctId = event.distinctId
               /\ \A key \in DOMAIN given : key \in DOMAIN after.properties
                                            /\ after.properties[key] = given[key]
               /\ \A key \in DOMAIN client.props \ DOMAIN given :
                     internalKeyPolicy(key) # "hidden" =>
                        key \in DOMAIN after.properties /\ after.properties[key] = client.props[key]
               /\ \A key \in DOMAIN after.properties \ DOMAIN given : internalKeyPolicy(key) # "hidden"
<1> DEFINE source == writeInitialProps(client)
           super == Only(source.props, {k \in DOMAIN source.props : internalKeyPolicy(k) # "hidden"})
           context == buildContext(event.enrichment)
           attribution == [key \in {"session_entry_url"} \cup
                             (IF "utm" \in event.enrichment THEN {"utm_source"} ELSE {}) |-> "auto"]
           given == event.properties
           merged == mergeSuperProperties(source, event)
           enriched == enrichContext(merged)
           after == enrichAttribution(enriched)
<1>1. /\ \A key \in DOMAIN super : internalKeyPolicy(key) # "hidden"
      /\ \A key \in DOMAIN client.props :
            internalKeyPolicy(key) # "hidden" => key \in DOMAIN super /\ super[key] = client.props[key]
  <2>1. /\ DOMAIN source.props = DOMAIN client.props \cup {INITIAL_PROPS}
        /\ \A key \in DOMAIN client.props : source.props[key] = client.props[key]
    BY InitialProps
  <2> DEFINE shown == {k \in DOMAIN source.props : internalKeyPolicy(k) # "hidden"}
  <2>2. /\ DOMAIN super = DOMAIN source.props \cap shown
        /\ \A key \in DOMAIN source.props \cap shown : super[key] = source.props[key]
    BY PartOf
  <2> HIDE DEF source, super
  <2> QED
    BY <2>1, <2>2
<1>2. \A key \in DOMAIN context \cup DOMAIN attribution : internalKeyPolicy(key) # "hidden"
  <2>1. DOMAIN context \cup DOMAIN attribution
          \subseteq {"lib", "current_url", "device_type", "referrer", "session_entry_url", "utm_source"}
    BY DEF buildContext
  <2>2. \A key \in {"lib", "current_url", "device_type", "referrer", "session_entry_url", "utm_source"} :
           key \notin (ReservedKeys \ {GROUPS}) \cup LEGACY_HIDDEN_KEYS
    BY DEF ReservedKeys, GROUPS, LEGACY_HIDDEN_KEYS, DISTINCT_ID, DEVICE_ID, ANONYMOUS_DISTINCT_ID, IDENTITY_STATE
  <2> QED
    BY <2>1, <2>2, Policies
<1>3. merged = WithDefaults(event, super)
  BY DEF mergeSuperProperties
<1> HIDE DEF source, super
<1>4. /\ Shaped(merged) /\ merged.kind = event.kind /\ merged.distinctId = event.distinctId
      /\ merged.enrichment = event.enrichment /\ merged.properties = given @@ super
  BY <1>3, Defaults
<1> HIDE DEF merged
<1>5. enriched = WithDefaults(merged, context)
  BY <1>4 DEF enrichContext
<1>6. /\ Shaped(enriched) /\ enriched.kind = event.kind /\ enriched.distinctId = event.distinctId
      /\ enriched.enrichment = event.enrichment /\ enriched.properties = (given @@ super) @@ context
  BY <1>4, <1>5, Defaults
<1> HIDE DEF enriched
<1>7. after = WithDefaults(enriched, attribution)
  BY <1>6 DEF enrichAttribution
<1>8. /\ Shaped(after) /\ after.kind = event.kind /\ after.distinctId = event.distinctId
      /\ after.properties = ((given @@ super) @@ context) @@ attribution
  BY <1>6, <1>7, Defaults
<1>9. after = runCapturePipeline(client, event)
  BY DEF runCapturePipeline, after, enriched, merged, source
<1> HIDE DEF after, context, attribution, given
<1>10. /\ DOMAIN after.properties = DOMAIN given \cup DOMAIN super \cup DOMAIN context \cup DOMAIN attribution
       /\ \A key \in DOMAIN given : after.properties[key] = given[key]
       /\ \A key \in DOMAIN super \ DOMAIN given : after.properties[key] = super[key]
  <2> DEFINE one == given @@ super
             two == one @@ context
  <2>1. /\ DOMAIN one = DOMAIN given \cup DOMAIN super
        /\ \A key \in DOMAIN given : one[key] = given[key]
        /\ \A key \in DOMAIN super \ DOMAIN given : one[key] = super[key]
    BY DEF @@
  <2> HIDE DEF one
  <2>2. DOMAIN two = DOMAIN one \cup DOMAIN context /\ \A key \in DOMAIN one : two[key] = one[key]
    BY DEF @@
  <2>3. after.properties = two @@ attribution
    BY <1>8 DEF one
  <2> HIDE DEF two
  <2>4. /\ DOMAIN after.properties = DOMAIN two \cup DOMAIN attribution
        /\ \A key \in DOMAIN two : after.properties[key] = two[key]
    BY <2>3 DEF @@
  <2> QED
    BY <2>1, <2>2, <2>4
<1> QED
  BY <1>1, <1>2, <1>8, <1>9, <1>10 DEF given

(* What the mapper leaves of the properties, by key.                        *)
MapperKeys == {SET_TRAITS, SET_TRAITS_ONCE, GROUPS_WIRE, GEOIP_DISABLE_WIRE, TOKEN_WIRE}

LEMMA Mapper ==
    ASSUME NEW event, Shaped(event)
    PROVE  LET wire == mapEventToWire(event)
               bag == event.properties
           IN  /\ wire.distinct_id = event.distinctId
               /\ wire.properties[TOKEN_WIRE] = "auto"
               /\ DOMAIN wire.properties \cap ReservedKeys = {}
               /\ \A key \in DOMAIN bag \ (ReservedKeys \cup MapperKeys) :
                     key \in DOMAIN wire.properties /\ wire.properties[key] = bag[key]
               /\ Has(bag, GROUPS) => wire.properties[GROUPS_WIRE] = bag[GROUPS]
               /\ \A key \in DOMAIN wire.properties \ DOMAIN bag :
                     key \in {GROUPS_WIRE, GEOIP_DISABLE_WIRE, TOKEN_WIRE}
               /\ event.kind = "merge" => /\ ~Has(wire.properties, SET_TRAITS)
                                          /\ wire.set_traits = Lifted(bag, SET_TRAITS)
<1> DEFINE auto == "auto"
           bag == event.properties
           base == [event |-> wireEventName(event), distinct_id |-> event.distinctId,
                    properties |-> bag, set_traits |-> Empty, set_traits_once |-> Empty]
           mapped == IF event.kind = "merge" THEN normalizeMergeEvent(base, bag) ELSE base
           rest == Without(mapped.properties, ReservedKeys)
           renamed == IF Has(mapped.properties, GROUPS) THEN GROUPS_WIRE :> mapped.properties[GROUPS] ELSE Empty
           bare == renamed @@ rest
           located == IF "disableGeoip" \in event.enrichment THEN GEOIP_DISABLE_WIRE :> auto @@ bare ELSE bare
           final == TOKEN_WIRE :> auto @@ located
           wire == mapEventToWire(event)
<1>1. /\ GROUPS \notin MapperKeys /\ ReservedKeys \cap MapperKeys = {} /\ GROUPS \in ReservedKeys
      /\ TOKEN_WIRE \notin {GEOIP_DISABLE_WIRE, GROUPS_WIRE} /\ GEOIP_DISABLE_WIRE # GROUPS_WIRE
      /\ SET_TRAITS \notin {GROUPS_WIRE, GEOIP_DISABLE_WIRE, TOKEN_WIRE}
  BY DEF MapperKeys, ReservedKeys, GROUPS, SET_TRAITS, SET_TRAITS_ONCE, GROUPS_WIRE, GEOIP_DISABLE_WIRE, TOKEN_WIRE
<1>2. /\ mapped.distinct_id = event.distinctId
      /\ mapped.properties = IF event.kind = "merge" THEN Without(bag, {SET_TRAITS, SET_TRAITS_ONCE}) ELSE bag
      /\ event.kind = "merge" => mapped.set_traits = Lifted(bag, SET_TRAITS)
      /\ DOMAIN mapped = {"event", "distinct_id", "properties", "set_traits", "set_traits_once"}
  BY DEF normalizeMergeEvent
<1>3. wire = stampToken(stampGeoipDisable(applyInternalKeyPolicy(mapped), "disableGeoip" \in event.enrichment))
  BY DEF mapEventToWire
<1> HIDE DEF mapped
<1>4. wire.distinct_id = event.distinctId /\ wire.properties = final
      /\ wire.set_traits = mapped.set_traits
  <2> DEFINE policed == applyInternalKeyPolicy(mapped)
             stamped == stampGeoipDisable(policed, "disableGeoip" \in event.enrichment)
  <2>1. policed = [mapped EXCEPT !.properties = bare]
    BY DEF applyInternalKeyPolicy
  <2> HIDE DEF bare
  <2>2. /\ DOMAIN policed = DOMAIN mapped /\ policed.properties = bare
        /\ policed.distinct_id = mapped.distinct_id /\ policed.set_traits = mapped.set_traits
    BY <1>2, <2>1
  <2> HIDE DEF policed
  <2>3. /\ DOMAIN stamped = DOMAIN mapped /\ stamped.properties = located
        /\ stamped.distinct_id = mapped.distinct_id /\ stamped.set_traits = mapped.set_traits
    BY <1>2, <2>2 DEF stampGeoipDisable
  <2> HIDE DEF stamped, located
  <2>4. wire = [stamped EXCEPT !.properties = TOKEN_WIRE :> "auto" @@ @]
    BY <1>3 DEF stampToken, stamped, policed
  <2> QED
    BY <1>2, <2>3, <2>4
<1> HIDE DEF wire
<1>5. /\ DOMAIN mapped.properties \subseteq DOMAIN bag
      /\ \A key \in DOMAIN mapped.properties : mapped.properties[key] = bag[key]
      /\ \A key \in DOMAIN bag : key \notin {SET_TRAITS, SET_TRAITS_ONCE} => key \in DOMAIN mapped.properties
      /\ event.kind = "merge" => SET_TRAITS \notin DOMAIN mapped.properties
  <2>1. LET part == Without(bag, {SET_TRAITS, SET_TRAITS_ONCE})
            keys == DOMAIN bag \ {SET_TRAITS, SET_TRAITS_ONCE}
        IN  DOMAIN part = DOMAIN bag \cap keys /\ \A key \in DOMAIN bag \cap keys : part[key] = bag[key]
    BY PartOf DEF Without
  <2> QED
    BY <1>2, <2>1
<1>6. /\ DOMAIN rest = DOMAIN mapped.properties \ ReservedKeys
      /\ \A key \in DOMAIN rest : rest[key] = mapped.properties[key]
  <2>1. LET keys == DOMAIN mapped.properties \ ReservedKeys
        IN  DOMAIN rest = DOMAIN mapped.properties \cap keys
            /\ \A key \in DOMAIN mapped.properties \cap keys : rest[key] = mapped.properties[key]
    BY PartOf DEF Without
  <2> QED
    BY <2>1
<1>7. /\ DOMAIN renamed \subseteq {GROUPS_WIRE}
      /\ GROUPS \in DOMAIN mapped.properties =>
            GROUPS_WIRE \in DOMAIN renamed /\ renamed[GROUPS_WIRE] = mapped.properties[GROUPS]
  BY Single DEF Has, Empty
<1> HIDE DEF rest, renamed
<1>8. /\ DOMAIN bare = DOMAIN renamed \cup DOMAIN rest
      /\ \A key \in DOMAIN renamed : bare[key] = renamed[key]
      /\ \A key \in DOMAIN rest : key \notin DOMAIN renamed => bare[key] = rest[key]
  BY DEF @@
<1> HIDE DEF bare
<1>9. /\ DOMAIN located \subseteq DOMAIN bare \cup {GEOIP_DISABLE_WIRE}
      /\ \A key \in DOMAIN bare : key \in DOMAIN located
      /\ \A key \in DOMAIN bare : key # GEOIP_DISABLE_WIRE => located[key] = bare[key]
  <2> HIDE DEF auto
  <2> QED
    BY DEF @@, :>
<1> HIDE DEF located
<1>10. /\ DOMAIN final = DOMAIN located \cup {TOKEN_WIRE} /\ final[TOKEN_WIRE] = auto
       /\ \A key \in DOMAIN located : key # TOKEN_WIRE => final[key] = located[key]
  <2> HIDE DEF auto
  <2> QED
    BY DEF @@, :>
<1> HIDE DEF final, bag
<1>11. DOMAIN final \cap ReservedKeys = {}
  BY <1>1, <1>6, <1>7, <1>8, <1>9, <1>10 DEF MapperKeys
<1>12. \A key \in DOMAIN bag \ (ReservedKeys \cup MapperKeys) : key \in DOMAIN final /\ final[key] = bag[key]
  BY <1>5, <1>6, <1>7, <1>8, <1>9, <1>10 DEF MapperKeys
<1>13. GROUPS \in DOMAIN bag => final[GROUPS_WIRE] = bag[GROUPS]
  BY <1>1, <1>5, <1>7, <1>8, <1>9, <1>10 DEF MapperKeys
<1>14. \A key \in DOMAIN final \ DOMAIN bag : key \in {GROUPS_WIRE, GEOIP_DISABLE_WIRE, TOKEN_WIRE}
  BY <1>5, <1>6, <1>7, <1>8, <1>9, <1>10
<1>15. event.kind = "merge" => SET_TRAITS \notin DOMAIN final
  BY <1>1, <1>5, <1>6, <1>7, <1>8, <1>9, <1>10
<1> QED
  BY <1>2, <1>4, <1>10, <1>11, <1>12, <1>13, <1>14, <1>15 DEF Has, bag, wire

(* On the wire of any client and event.                                     *)
LEMMA OnTheWire ==
    ASSUME NEW client, "props" \in DOMAIN client, NEW event, Shaped(event)
    PROVE  LET wire == toWireEvent(client, event)
               given == event.properties
           IN  /\ wire.distinct_id = event.distinctId
               /\ wire.properties[TOKEN_WIRE] = "auto"
               /\ DOMAIN wire.properties \cap ReservedKeys = {}
               /\ \A key \in DOMAIN given \ (ReservedKeys \cup MapperKeys) :
                     key \in DOMAIN wire.properties /\ wire.properties[key] = given[key]
               /\ \A key \in SuperKeys \cap DOMAIN client.props :
                     key \notin DOMAIN given => wire.properties[key] = client.props[key]
               /\ Has(client.props, GROUPS) \/ Has(given, GROUPS) =>
                     wire.properties[GROUPS_WIRE] =
                         IF Has(given, GROUPS) THEN given[GROUPS] ELSE client.props[GROUPS]
               /\ DOMAIN wire.properties \cap LEGACY_HIDDEN_KEYS \subseteq DOMAIN given
               /\ event.kind = "merge" /\ Has(given, SET_TRAITS) =>
                     ~Has(wire.properties, SET_TRAITS) /\ wire.set_traits = given[SET_TRAITS]
<1> DEFINE given == event.properties
           full == runCapturePipeline(client, event)
           wire == toWireEvent(client, event)
<1>1. /\ Shaped(full) /\ full.kind = event.kind /\ full.distinctId = event.distinctId
      /\ \A key \in DOMAIN given : key \in DOMAIN full.properties /\ full.properties[key] = given[key]
      /\ \A key \in DOMAIN client.props \ DOMAIN given :
            internalKeyPolicy(key) # "hidden" =>
               key \in DOMAIN full.properties /\ full.properties[key] = client.props[key]
      /\ \A key \in DOMAIN full.properties \ DOMAIN given : internalKeyPolicy(key) # "hidden"
  BY Pipeline
<1>2. wire = mapEventToWire(full)
  BY DEF toWireEvent
<1> HIDE DEF full, given, wire
<1>3. /\ wire.distinct_id = full.distinctId
      /\ wire.properties[TOKEN_WIRE] = "auto"
      /\ DOMAIN wire.properties \cap ReservedKeys = {}
      /\ \A key \in DOMAIN full.properties \ (ReservedKeys \cup MapperKeys) :
            key \in DOMAIN wire.properties /\ wire.properties[key] = full.properties[key]
      /\ Has(full.properties, GROUPS) => wire.properties[GROUPS_WIRE] = full.properties[GROUPS]
      /\ \A key \in DOMAIN wire.properties \ DOMAIN full.properties :
            key \in {GROUPS_WIRE, GEOIP_DISABLE_WIRE, TOKEN_WIRE}
      /\ full.kind = "merge" => /\ ~Has(wire.properties, SET_TRAITS)
                                /\ wire.set_traits = Lifted(full.properties, SET_TRAITS)
  BY <1>1, <1>2, Mapper
<1>4. \A key \in SuperKeys : key \notin ReservedKeys \cup MapperKeys /\ internalKeyPolicy(key) # "hidden"
  BY ConsumerKeys, Policies DEF MapperKeys
<1>5. \A key \in SuperKeys \cap DOMAIN client.props :
         key \notin DOMAIN given => wire.properties[key] = client.props[key]
  BY <1>1, <1>3, <1>4
<1>6. Has(client.props, GROUPS) \/ Has(given, GROUPS) =>
         wire.properties[GROUPS_WIRE] =
             IF Has(given, GROUPS) THEN given[GROUPS] ELSE client.props[GROUPS]
  <2>1. GROUPS \in DOMAIN given => wire.properties[GROUPS_WIRE] = given[GROUPS]
    BY <1>1, <1>3 DEF Has
  <2>2. GROUPS \in DOMAIN client.props \ DOMAIN given =>
            wire.properties[GROUPS_WIRE] = client.props[GROUPS]
    BY <1>1, <1>3, Policies DEF Has
  <2> QED
    BY <2>1, <2>2 DEF Has
<1>7. DOMAIN wire.properties \cap LEGACY_HIDDEN_KEYS \subseteq DOMAIN given
  <2>1. LEGACY_HIDDEN_KEYS \cap {GROUPS_WIRE, GEOIP_DISABLE_WIRE, TOKEN_WIRE} = {}
    BY DEF LEGACY_HIDDEN_KEYS, DISTINCT_ID, DEVICE_ID, ANONYMOUS_DISTINCT_ID, IDENTITY_STATE,
           GROUPS_WIRE, GEOIP_DISABLE_WIRE, TOKEN_WIRE
  <2> QED
    BY <1>1, <1>3, <2>1, Policies
<1>8. event.kind = "merge" /\ Has(given, SET_TRAITS) =>
         ~Has(wire.properties, SET_TRAITS) /\ wire.set_traits = given[SET_TRAITS]
  BY <1>1, <1>3 DEF Has, Lifted
<1>9. \A key \in DOMAIN given \ (ReservedKeys \cup MapperKeys) :
         key \in DOMAIN wire.properties /\ wire.properties[key] = given[key]
  BY <1>1, <1>3
<1> QED
  BY <1>1, <1>3, <1>5, <1>6, <1>7, <1>8, <1>9 DEF given, wire

LEMMA ConsumersEvents ==
    ASSUME NEW client, NEW event \in Events
    PROVE  LET built == buildEvent(client, event)
           IN  /\ Shaped(built) /\ built.kind \in {"track", "page"}
               /\ built.properties = event.properties /\ built.distinctId = client.distinctId
               /\ ~Has(built.properties, ANONYMOUS_DISTINCT_ID)
<1>1. /\ DOMAIN event = {"kind", "event", "properties", "enrichment"}
      /\ event.kind \in {"track", "page"}
      /\ ANONYMOUS_DISTINCT_ID \notin DOMAIN event.properties
  BY ConsumerKeys
<1> DEFINE built == buildEvent(client, event)
<1>2. /\ DOMAIN built = DOMAIN event \cup {"distinctId"}
      /\ built.kind = event.kind /\ built.properties = event.properties
      /\ built.distinctId = client.distinctId
  BY <1>1 DEF buildEvent, @@
<1> QED
  BY <1>1, <1>2 DEF Shaped, Has

LEMMA MergeEvents ==
    ASSUME NEW client, NEW retained, NEW traits \in BOOLEAN
    PROVE  LET event == buildMergeEvent(client, retained, traits)
           IN  /\ Shaped(event) /\ event.kind = "merge" /\ event.distinctId = client.distinctId
               /\ Has(event.properties, ANONYMOUS_DISTINCT_ID)
               /\ event.properties[ANONYMOUS_DISTINCT_ID] = retained
               /\ traits => Has(event.properties, SET_TRAITS)
<1> DEFINE event == buildMergeEvent(client, retained, traits)
           given == traitBags(traits) @@ ANONYMOUS_DISTINCT_ID :> retained
<1>1. Shaped(event) /\ event.kind = "merge" /\ event.distinctId = client.distinctId
      /\ event.properties = given
  BY DEF buildMergeEvent, Minted, Shaped
<1>2. DOMAIN traitBags(traits) = IF traits THEN {SET_TRAITS} ELSE {}
  BY DEF traitBags, Empty, :>
<1>3. ANONYMOUS_DISTINCT_ID # SET_TRAITS
  BY DEF ANONYMOUS_DISTINCT_ID, SET_TRAITS
<1>4. /\ DOMAIN given = DOMAIN traitBags(traits) \cup {ANONYMOUS_DISTINCT_ID}
      /\ given[ANONYMOUS_DISTINCT_ID] = retained
  BY <1>2, <1>3 DEF @@, :>
<1> QED
  BY <1>1, <1>2, <1>3, <1>4 DEF Has

LEMMA Apart ==
    ASSUME NEW client, "props" \in DOMAIN client, NEW event, Shaped(event),
           event.kind = "merge" => Has(event.properties, SET_TRAITS)
    PROVE  RidesApart(client, event)
<1>1. \A key \in SuperKeys : key \notin ReservedKeys \cup MapperKeys
  BY ConsumerKeys DEF MapperKeys
<1> QED
  BY <1>1, OnTheWire DEF RidesApart, Has

(* BrowserIdentity!WireKeepsApart, for pages with any properties.           *)
LEMMA KeepsApart == Paged => WireKeepsApart
<1> SUFFICES ASSUME Paged, NEW p \in Pages, Open(p)
             PROVE  /\ \A event \in Events : RidesApart(page[p], buildEvent(page[p], event))
                    /\ RidesApart(page[p], buildMergeEvent(page[p], page[p].distinctId, TRUE))
  BY DEF WireKeepsApart
<1>1. "props" \in DOMAIN page[p]
  BY DEF Paged, IsClient, Seated, Clients
<1>2. ASSUME NEW event \in Events
      PROVE  RidesApart(page[p], buildEvent(page[p], event))
  <2>1. LET built == buildEvent(page[p], event)
        IN  Shaped(built) /\ built.kind \in {"track", "page"}
    BY ConsumersEvents
  <2> HIDE DEF Paged
  <2> QED
    BY <1>1, <2>1, Apart
<1>3. RidesApart(page[p], buildMergeEvent(page[p], page[p].distinctId, TRUE))
  <2>1. LET event == buildMergeEvent(page[p], page[p].distinctId, TRUE)
        IN  Shaped(event) /\ Has(event.properties, SET_TRAITS)
    BY MergeEvents
  <2> QED
    BY <1>1, <2>1, Apart
<1> QED
  BY <1>2, <1>3

---------------------------------------------------------------------------
(* Bags of properties.                                                      *)
LEMMA KeysApart ==
    /\ DEVICE_ID \in IdentityKeys /\ DISTINCT_ID \in IdentityKeys /\ ANONYMOUS_DISTINCT_ID \in IdentityKeys
    /\ {IDENTITY_STATE, GROUPS, INITIAL_PROPS} \cap IdentityKeys = {}
    /\ IDENTITY_STATE # GROUPS /\ IDENTITY_STATE # INITIAL_PROPS /\ GROUPS # INITIAL_PROPS
    /\ DEVICE_ID # DISTINCT_ID /\ DEVICE_ID # ANONYMOUS_DISTINCT_ID /\ DISTINCT_ID # ANONYMOUS_DISTINCT_ID
    /\ SuperKeys \cap (IdentityKeys \cup {IDENTITY_STATE, GROUPS, INITIAL_PROPS}) = {}
<1>1. GROUPS \in ReservedKeys
  BY DEF ReservedKeys
<1>2. SuperKeys \cap (IdentityKeys \cup {IDENTITY_STATE, GROUPS, INITIAL_PROPS}) = {}
  BY <1>1, ConsumerKeys
<1> QED
  BY <1>2 DEF IdentityKeys, DEVICE_ID, DISTINCT_ID, ANONYMOUS_DISTINCT_ID, IDENTITY_STATE, GROUPS, INITIAL_PROPS

LEMMA NoKeys == DOMAIN Empty = {} /\ (\A n : IsBag(Empty, n)) /\ ~Whole(Empty)
BY DEF Empty, IsBag, Whole

LEMMA BagInBags ==
    ASSUME NEW n \in Nat, NEW bag, IsBag(bag, n)
    PROVE  bag \in Bags
<1>1. DOMAIN bag \in SUBSET Keys
  BY DEF IsBag
<1>2. ASSUME NEW key \in DOMAIN bag
      PROVE  bag[key] \in Kept
  <2>1. key \in IdentityKeys \/ key \in {IDENTITY_STATE, GROUPS, INITIAL_PROPS} \/ key \in SuperKeys
    BY <1>1 DEF Keys
  <2>2. CASE key \in IdentityKeys
    <3>1. bag[key] \in 1..n \cup Users
      BY <2>2 DEF IsBag
    <3> QED
      BY <3>1 DEF Kept
  <2>3. CASE key = IDENTITY_STATE
    BY <2>3 DEF IsBag, Kept
  <2>4. CASE key = GROUPS
    BY <2>4 DEF IsBag, Kept
  <2>5. CASE key = INITIAL_PROPS
    BY <2>5 DEF IsBag, Kept
  <2>6. CASE key \in SuperKeys
    BY <2>6 DEF IsBag, Kept
  <2> QED
    BY <2>1, <2>2, <2>3, <2>4, <2>5, <2>6
<1>3. bag = [key \in DOMAIN bag |-> bag[key]]
  BY DEF IsBag
<1>4. bag \in [DOMAIN bag -> Kept]
  BY <1>2, <1>3
<1> QED
  BY <1>1, <1>4 DEF Bags

LEMMA OneKey ==
    ASSUME NEW n, NEW key, NEW value,
           \/ key \in IdentityKeys /\ value \in 1..n \cup Users
           \/ key = IDENTITY_STATE /\ value \in {ANONYMOUS, IDENTIFIED}
           \/ key = GROUPS /\ value \in SUBSET GroupTypes
           \/ key = INITIAL_PROPS /\ value = "auto"
           \/ key \in SuperKeys /\ value \in Values
    PROVE  IsBag(key :> value, n)
<1> DEFINE bag == key :> value
<1>1. bag = [k \in DOMAIN bag |-> bag[k]] /\ DOMAIN bag = {key} /\ bag[key] = value
  BY DEF :>
<1>2. key \in Keys
  BY DEF Keys
<1> HIDE DEF bag
<1>3. /\ key \in IdentityKeys => value \in 1..n \cup Users
      /\ key = IDENTITY_STATE => value \in {ANONYMOUS, IDENTIFIED}
      /\ key = GROUPS => value \in SUBSET GroupTypes
      /\ key = INITIAL_PROPS => value = "auto"
      /\ key \in SuperKeys => value \in Values
  BY KeysApart
<1>4. IsBag(bag, n)
  BY <1>1, <1>2, <1>3 DEF IsBag
<1> QED
  BY <1>4 DEF bag

LEMMA OverBag ==
    ASSUME NEW n, NEW over, NEW under, IsBag(over, n), IsBag(under, n)
    PROVE  IsBag(over @@ under, n)
<1> DEFINE both == over @@ under
<1>1. both = [key \in DOMAIN both |-> both[key]] /\ DOMAIN both = DOMAIN over \cup DOMAIN under
  BY DEF @@
<1>2. \A key \in DOMAIN over \cup DOMAIN under :
         \/ key \in DOMAIN over /\ both[key] = over[key]
         \/ key \in DOMAIN under /\ both[key] = under[key]
  BY DEF @@
<1> HIDE DEF both
<1>3. IsBag(both, n)
  BY <1>1, <1>2 DEF IsBag
<1> QED
  BY <1>3 DEF both

LEMMA PartBag ==
    ASSUME NEW n, NEW bag, NEW keys, IsBag(bag, n)
    PROVE  IsBag(Only(bag, keys), n)
<1> DEFINE part == Only(bag, keys)
<1>1. /\ part = [key \in DOMAIN part |-> part[key]] /\ DOMAIN part \subseteq DOMAIN bag
      /\ \A key \in DOMAIN part : part[key] = bag[key]
  BY DEF Only
<1> HIDE DEF part
<1>2. IsBag(part, n)
  BY <1>1 DEF IsBag
<1> QED
  BY <1>2 DEF part

LEMMA LaterBag ==
    ASSUME NEW n \in Nat, NEW m \in Nat, n <= m, NEW bag, IsBag(bag, n)
    PROVE  IsBag(bag, m)
<1>1. 1..n \subseteq 1..m
  OBVIOUS
<1> QED
  BY <1>1 DEF IsBag

LEMMA EqualBags ==
    ASSUME NEW n, NEW f, NEW g, IsBag(f, n), IsBag(g, n),
           DOMAIN f = DOMAIN g, \A key \in DOMAIN f : f[key] = g[key]
    PROVE  f = g
<1>1. f = [key \in DOMAIN f |-> f[key]] /\ g = [key \in DOMAIN g |-> g[key]]
  BY DEF IsBag
<1>2. [key \in DOMAIN f |-> f[key]] = [key \in DOMAIN g |-> g[key]]
  OBVIOUS
<1> QED
  BY <1>1, <1>2

(* What is laid under a bag that has its keys already does not show.        *)
LEMMA NothingNew ==
    ASSUME NEW n, NEW bag, NEW new, IsBag(bag, n), IsBag(new, n), DOMAIN new \subseteq DOMAIN bag
    PROVE  bag @@ new = bag
<1>1. IsBag(bag @@ new, n)
  BY OverBag
<1>2. DOMAIN (bag @@ new) = DOMAIN bag /\ \A key \in DOMAIN bag : (bag @@ new)[key] = bag[key]
  BY DEF @@
<1> QED
  BY <1>1, <1>2, EqualBags

---------------------------------------------------------------------------
(* The store's operations on a client: what one serves becomes the other,   *)
(* on the same seat, and what has changed is due to be saved.               *)
Serves(client, after, n) ==
    /\ Seated(after, n)
    /\ after.site = client.site /\ after.kind = client.kind
    /\ client.saveDue => after.saveDue
    /\ after.props = client.props \/ after.saveDue

SameVisitor(client, after) == after.distinctId = client.distinctId /\ after.state = client.state

LEMMA ServesOn ==
    ASSUME NEW n, NEW one, NEW two, NEW three, Serves(one, two, n), Serves(two, three, n)
    PROVE  Serves(one, three, n)
BY DEF Serves

LEMMA ServesItself ==
    ASSUME NEW n, NEW client, Seated(client, n)
    PROVE  Serves(client, client, n)
BY DEF Serves

LEMMA SeatedLater ==
    ASSUME NEW n \in Nat, NEW m \in Nat, n <= m, NEW client, Seated(client, n)
    PROVE  Seated(client, m)
<1>1. IsBag(client.props, n)
  BY DEF Seated
<1>2. IsBag(client.props, m)
  BY <1>1, LaterBag
<1> QED
  BY <1>2 DEF Seated

LEMMA Saves ==
    ASSUME NEW n \in Nat, NEW client, Seated(client, n)
    PROVE  LET after == save(client)
           IN  /\ Serves(client, after, n) /\ SameVisitor(client, after)
               /\ after.props = client.props /\ after.saveDue
BY DEF save, Serves, Seated, SameVisitor, Clients, MayWrite

LEMMA Registers ==
    ASSUME NEW n \in Nat, NEW client, Seated(client, n), NEW new, IsBag(new, n)
    PROVE  LET after == register(client, new)
           IN  /\ Serves(client, after, n) /\ SameVisitor(client, after)
               /\ after.props = new @@ client.props
<1> DEFINE both == new @@ client.props
           after == register(client, new)
<1>1. IsBag(client.props, n)
  BY DEF Seated
<1>2. IsBag(both, n)
  BY <1>1, OverBag
<1>3. both \in Bags
  BY <1>2, BagInBags
<1>4. after = IF both = client.props THEN client
              ELSE [[client EXCEPT !.props = both] EXCEPT !.saveDue = TRUE]
  BY DEF register, save
<1> HIDE DEF both, after
<1>5. after.props = both
  BY <1>3, <1>4 DEF Seated, Clients
<1>6. Seated(after, n)
  BY <1>2, <1>3, <1>4 DEF Seated, Clients, MayWrite
<1>7. Serves(client, after, n) /\ SameVisitor(client, after)
  BY <1>4, <1>5, <1>6 DEF Serves, SameVisitor, Seated, Clients
<1> QED
  BY <1>5, <1>7 DEF both, after

LEMMA RegistersOnce ==
    ASSUME NEW n \in Nat, NEW client, Seated(client, n), NEW new, IsBag(new, n)
    PROVE  LET after == registerOnce(client, new)
           IN  /\ Serves(client, after, n) /\ SameVisitor(client, after)
               /\ after.props = client.props @@ new
<1> DEFINE both == client.props @@ new
<1>1. IsBag(client.props, n)
  BY DEF Seated
<1>2. IsBag(both, n)
  BY <1>1, OverBag
<1>3. DOMAIN client.props \subseteq DOMAIN both
      /\ \A key \in DOMAIN client.props : both[key] = client.props[key]
  BY DEF @@
<1> HIDE DEF both
<1>4. both @@ client.props = both
  BY <1>1, <1>2, <1>3, NothingNew
<1>5. LET after == register(client, both)
      IN  /\ Serves(client, after, n) /\ SameVisitor(client, after)
          /\ after.props = both @@ client.props
  BY <1>2, Registers
<1> QED
  BY <1>4, <1>5 DEF registerOnce, both

LEMMA Unregisters ==
    ASSUME NEW n \in Nat, NEW client, Seated(client, n), NEW key
    PROVE  LET after == unregister(client, key)
           IN  /\ Serves(client, after, n) /\ SameVisitor(client, after)
               /\ DOMAIN after.props = DOMAIN client.props \ {key}
               /\ \A k \in DOMAIN client.props \ {key} : after.props[k] = client.props[k]
<1> DEFINE rest == Only(client.props, DOMAIN client.props \ {key})
           after == unregister(client, key)
<1>1. IsBag(client.props, n)
  BY DEF Seated
<1>2. IsBag(rest, n)
  BY <1>1, PartBag
<1>3. rest \in Bags
  BY <1>2, BagInBags
<1>4. DOMAIN rest = DOMAIN client.props \ {key}
      /\ \A k \in DOMAIN client.props \ {key} : rest[k] = client.props[k]
  BY DEF Only
<1>5. after = IF key \in DOMAIN client.props
              THEN [[client EXCEPT !.props = rest] EXCEPT !.saveDue = TRUE] ELSE client
  BY DEF unregister, save, Has
<1> HIDE DEF rest, after
<1>6. Seated(after, n)
  BY <1>2, <1>3, <1>5 DEF Seated, Clients, MayWrite
<1>7. Serves(client, after, n) /\ SameVisitor(client, after)
  BY <1>5, <1>6 DEF Serves, SameVisitor, Seated, Clients
<1>8. after.props = IF key \in DOMAIN client.props THEN rest ELSE client.props
  BY <1>3, <1>5 DEF Seated, Clients
<1>9. /\ DOMAIN after.props = DOMAIN client.props \ {key}
      /\ \A k \in DOMAIN client.props \ {key} : after.props[k] = client.props[k]
  BY <1>4, <1>8
<1> QED
  BY <1>7, <1>9 DEF after

LEMMA GoesAs ==
    ASSUME NEW n \in Nat, NEW client, Seated(client, n),
           NEW id \in 1..n \cup Users, NEW state \in {ANONYMOUS, IDENTIFIED}
    PROVE  LET after == As(client, id, state)
           IN  /\ Serves(client, after, n) /\ after.props = client.props
               /\ after.saveDue = client.saveDue /\ after.distinctId = id /\ after.state = state
<1>1. id \in Nat \cup Users \cup {None}
  OBVIOUS
<1> QED
  BY <1>1 DEF As, Serves, Seated, Clients, MayWrite

---------------------------------------------------------------------------
(* The identity store.                                                      *)
LEMMA IdentityPair ==
    ASSUME NEW n, NEW id \in 1..n \cup Users, NEW state \in {ANONYMOUS, IDENTIFIED}
    PROVE  LET bag == DISTINCT_ID :> id @@ IDENTITY_STATE :> state
           IN  /\ IsBag(bag, n) /\ DOMAIN bag = {DISTINCT_ID, IDENTITY_STATE}
               /\ bag[DISTINCT_ID] = id /\ bag[IDENTITY_STATE] = state
<1> DEFINE bag == DISTINCT_ID :> id @@ IDENTITY_STATE :> state
<1>1. IsBag(DISTINCT_ID :> id, n) /\ IsBag(IDENTITY_STATE :> state, n)
  BY OneKey, KeysApart
<1>2. IsBag(bag, n)
  BY <1>1, OverBag
<1>3. DISTINCT_ID # IDENTITY_STATE
  BY KeysApart
<1>4. /\ DOMAIN bag = {DISTINCT_ID, IDENTITY_STATE}
      /\ bag[DISTINCT_ID] = id /\ bag[IDENTITY_STATE] = state
  BY <1>3 DEF @@, :>
<1> QED
  BY <1>2, <1>4

(* An identity minted over a device id.                                     *)
LEMMA Mints ==
    ASSUME NEW n \in Nat, NEW client, Seated(client, n), DOMAIN client.props = {DEVICE_ID},
           NEW fresh \in 1..n
    PROVE  LET after == As(registerOnce(client, DISTINCT_ID :> fresh @@ IDENTITY_STATE :> ANONYMOUS),
                           fresh, ANONYMOUS)
           IN  /\ Serves(client, after, n) /\ IsClient(after, n)
               /\ after.distinctId = fresh /\ after.state = ANONYMOUS /\ after.saveDue
<1> DEFINE bag == DISTINCT_ID :> fresh @@ IDENTITY_STATE :> ANONYMOUS
           stored == registerOnce(client, bag)
           both == client.props @@ bag
           after == As(stored, fresh, ANONYMOUS)
<1>1. /\ IsBag(bag, n) /\ DOMAIN bag = {DISTINCT_ID, IDENTITY_STATE}
      /\ bag[DISTINCT_ID] = fresh /\ bag[IDENTITY_STATE] = ANONYMOUS
  BY IdentityPair
<1> HIDE DEF bag
<1>2. /\ Serves(client, stored, n) /\ stored.props = both
  BY <1>1, RegistersOnce
<1>3. /\ DOMAIN both = {DEVICE_ID, DISTINCT_ID, IDENTITY_STATE}
      /\ both[DISTINCT_ID] = fresh /\ both[IDENTITY_STATE] = ANONYMOUS
  BY <1>1, KeysApart DEF @@
<1> HIDE DEF stored, both
<1>4. /\ Serves(stored, after, n) /\ after.props = stored.props
      /\ after.saveDue = stored.saveDue /\ after.distinctId = fresh /\ after.state = ANONYMOUS
  BY <1>2, GoesAs DEF Serves
<1> HIDE DEF after
<1>5. Serves(client, after, n)
  BY <1>2, <1>4, ServesOn
<1>6. InLockstep(after)
  BY <1>2, <1>3, <1>4 DEF InLockstep, Whole
<1>7. after.props # client.props
  BY <1>2, <1>3, <1>4, KeysApart
<1>8. after.saveDue /\ IsClient(after, n)
  BY <1>5, <1>6, <1>7 DEF Serves, IsClient
<1> QED
  BY <1>4, <1>5, <1>8 DEF after, stored, bag

(* BrowserIdentity!bootstrap: the identity that is stored, or a new one.    *)
LEMMA Bootstraps ==
    ASSUME NEW n \in Nat, NEW client, Seated(client, n), IsEntry(client.props, n)
    PROVE  LET after == bootstrap(client, n + 1, n + 2)
           IN  /\ after.site = client.site /\ after.kind = client.kind
               /\ Whole(client.props) =>
                     /\ IsClient(after, n) /\ after.props = client.props
                     /\ after.saveDue = client.saveDue
                     /\ after.distinctId = client.props[DISTINCT_ID]
                     /\ after.state = client.props[IDENTITY_STATE]
               /\ ~Whole(client.props) =>
                     /\ IsClient(after, n + 2) /\ after.saveDue
                     /\ after.distinctId = n + 2 /\ after.state = ANONYMOUS
<1> DEFINE after == bootstrap(client, n + 1, n + 2)
<1>1. CASE Whole(client.props)
  <2>1. /\ client.props[DISTINCT_ID] \in 1..n \cup Users
        /\ client.props[IDENTITY_STATE] \in {ANONYMOUS, IDENTIFIED}
    BY <1>1, KeysApart DEF Whole, Seated, IsBag
  <2>2. after = As(client, client.props[DISTINCT_ID], client.props[IDENTITY_STATE])
    BY <1>1 DEF bootstrap, Whole, Has
  <2> DEFINE id == client.props[DISTINCT_ID]
             state == client.props[IDENTITY_STATE]
  <2>3. /\ Serves(client, after, n) /\ after.props = client.props /\ after.saveDue = client.saveDue
        /\ after.distinctId = id /\ after.state = state
    <3>1. id \in 1..n \cup Users /\ state \in {ANONYMOUS, IDENTIFIED} /\ after = As(client, id, state)
      BY <2>1, <2>2
    <3> HIDE DEF id, state, after
    <3> QED
      BY <3>1, GoesAs
  <2> HIDE DEF after
  <2>4. IsClient(after, n)
    BY <1>1, <2>3 DEF IsClient, InLockstep, Serves
  <2> QED
    BY <1>1, <2>3, <2>4 DEF Serves, after
<1>2. CASE ~Whole(client.props)
  <2> DEFINE device == n + 1
             fresh == n + 2
             known == registerOnce(client, DEVICE_ID :> device)
             both == client.props @@ DEVICE_ID :> device
  <2>1. client.props = Empty
    BY <1>2 DEF IsEntry
  <2>2. after = As(registerOnce(known, DISTINCT_ID :> fresh @@ IDENTITY_STATE :> ANONYMOUS), fresh, ANONYMOUS)
    BY <2>1, NoKeys DEF bootstrap, Has
  <2>3. fresh \in Nat /\ device \in 1..fresh /\ n <= fresh /\ fresh \in 1..fresh
    OBVIOUS
  <2> HIDE DEF device, fresh, after
  <2>4. Seated(client, fresh) /\ IsBag(DEVICE_ID :> device, fresh)
    BY <2>3, SeatedLater, OneKey, KeysApart
  <2>5. Serves(client, known, fresh) /\ known.props = both
    BY <2>3, <2>4, RegistersOnce
  <2>6. DOMAIN both = {DEVICE_ID}
    BY <2>1, NoKeys DEF @@, :>
  <2> HIDE DEF known, both
  <2>7. /\ Serves(known, after, fresh) /\ IsClient(after, fresh)
        /\ after.distinctId = fresh /\ after.state = ANONYMOUS /\ after.saveDue
    BY <2>2, <2>3, <2>5, <2>6, Mints DEF Serves
  <2>8. Serves(client, after, fresh)
    BY <2>5, <2>7, ServesOn
  <2> QED
    BY <1>2, <2>7, <2>8 DEF Serves, after, fresh
<1> QED
  BY <1>1, <1>2

LEMMA Resets ==
    ASSUME NEW n \in Nat, NEW client, Seated(client, n),
           NEW device \in 1..n \cup Users, NEW fresh \in 1..n
    PROVE  LET after == resetIdentity(client, device, fresh)
           IN  /\ Serves(cleared(client), after, n) /\ IsClient(after, n)
               /\ after.site = client.site /\ after.kind = client.kind
               /\ after.distinctId = fresh /\ after.state = ANONYMOUS /\ after.saveDue
<1> DEFINE empty == cleared(client)
           bag == DEVICE_ID :> device
           bare == register(empty, bag)
           after == resetIdentity(client, device, fresh)
<1>1. Empty \in Bags
  BY NoKeys, BagInBags
<1>2. /\ Seated(empty, n) /\ empty.props = Empty
      /\ empty.site = client.site /\ empty.kind = client.kind
  BY <1>1, NoKeys DEF cleared, Seated, Clients, MayWrite
<1>3. IsBag(bag, n)
  BY OneKey, KeysApart
<1> HIDE DEF empty
<1>4. Serves(empty, bare, n) /\ bare.props = bag @@ Empty
  BY <1>2, <1>3, Registers
<1>5. DOMAIN (bag @@ Empty) = {DEVICE_ID}
  BY NoKeys DEF @@, :>
<1>6. after = As(registerOnce(bare, DISTINCT_ID :> fresh @@ IDENTITY_STATE :> ANONYMOUS), fresh, ANONYMOUS)
  BY DEF resetIdentity, empty
<1> HIDE DEF bag, bare, after
<1>7. /\ Serves(bare, after, n) /\ IsClient(after, n)
      /\ after.distinctId = fresh /\ after.state = ANONYMOUS /\ after.saveDue
  BY <1>4, <1>5, <1>6, Mints DEF Serves
<1>8. Serves(empty, after, n)
  BY <1>4, <1>7, ServesOn
<1> QED
  BY <1>2, <1>7, <1>8 DEF Serves, after, empty

(* A client that registers what is not its identity stays in lockstep.      *)
LEMMA StaysInLockstep ==
    ASSUME NEW client, InLockstep(client), NEW after, SameVisitor(client, after),
           {DEVICE_ID, DISTINCT_ID, IDENTITY_STATE} \subseteq DOMAIN after.props,
           \A key \in {DEVICE_ID, DISTINCT_ID, IDENTITY_STATE} : after.props[key] = client.props[key]
    PROVE  InLockstep(after)
BY DEF InLockstep, Whole, SameVisitor

LEMMA Adopts ==
    ASSUME NEW n \in Nat, NEW client, IsClient(client, n), NEW id \in Users
    PROVE  LET after == setDistinctId(client, id)
           IN  /\ Serves(client, after, n) /\ IsClient(after, n)
               /\ after.distinctId = id /\ after.state = IDENTIFIED
<1> DEFINE bag == DISTINCT_ID :> id @@ IDENTITY_STATE :> IDENTIFIED
           stored == register(client, bag)
           both == bag @@ client.props
           after == setDistinctId(client, id)
<1>1. Seated(client, n) /\ Whole(client.props)
  BY DEF IsClient, InLockstep
<1>2. id \in 1..n \cup Users /\ IDENTIFIED \in {ANONYMOUS, IDENTIFIED}
  OBVIOUS
<1>3. /\ IsBag(bag, n) /\ DOMAIN bag = {DISTINCT_ID, IDENTITY_STATE}
      /\ bag[DISTINCT_ID] = id /\ bag[IDENTITY_STATE] = IDENTIFIED
  BY <1>2, IdentityPair
<1>4. after = As(stored, id, IDENTIFIED)
  BY DEF setDistinctId
<1> HIDE DEF bag, after
<1>5. Serves(client, stored, n) /\ stored.props = both
  BY <1>1, <1>3, Registers
<1>6. /\ Whole(both) /\ both[DISTINCT_ID] = id /\ both[IDENTITY_STATE] = IDENTIFIED
  BY <1>1, <1>3 DEF @@, Whole
<1> HIDE DEF stored, both
<1>7. /\ Serves(stored, after, n) /\ after.props = stored.props
      /\ after.distinctId = id /\ after.state = IDENTIFIED
  BY <1>2, <1>4, <1>5, GoesAs DEF Serves
<1>8. Serves(client, after, n) /\ InLockstep(after)
  BY <1>5, <1>6, <1>7, ServesOn DEF InLockstep
<1> QED
  BY <1>7, <1>8 DEF after, IsClient, Serves

LEMMA Merges ==
    ASSUME NEW n \in Nat, NEW client, IsClient(client, n), NEW id \in Users
    PROVE  LET after == merge(client, id)
           IN  /\ Serves(client, after, n) /\ IsClient(after, n)
               /\ after.distinctId = id /\ after.state = IDENTIFIED
<1> DEFINE pair == DISTINCT_ID :> id @@ IDENTITY_STATE :> IDENTIFIED
           former == client.distinctId
           retained == ANONYMOUS_DISTINCT_ID :> former
           bag == pair @@ retained
           stored == register(client, bag)
           both == bag @@ client.props
           after == merge(client, id)
<1>1. /\ Seated(client, n) /\ Whole(client.props) /\ former \in 1..n \cup Users
  BY KeysApart DEF IsClient, InLockstep, Whole, Seated, IsBag
<1>2. id \in 1..n \cup Users /\ IDENTIFIED \in {ANONYMOUS, IDENTIFIED}
  OBVIOUS
<1>3. /\ IsBag(pair, n) /\ DOMAIN pair = {DISTINCT_ID, IDENTITY_STATE}
      /\ pair[DISTINCT_ID] = id /\ pair[IDENTITY_STATE] = IDENTIFIED
  BY <1>2, IdentityPair
<1>4. after = As(stored, id, IDENTIFIED)
  BY DEF merge
<1> HIDE DEF former, after
<1>5. IsBag(retained, n)
  BY <1>1, OneKey, KeysApart
<1> HIDE DEF pair, retained
<1>6. IsBag(bag, n)
  BY <1>3, <1>5, OverBag
<1>7. /\ {DISTINCT_ID, IDENTITY_STATE} \subseteq DOMAIN bag
      /\ bag[DISTINCT_ID] = id /\ bag[IDENTITY_STATE] = IDENTIFIED
  BY <1>3 DEF @@
<1> HIDE DEF bag
<1>8. Serves(client, stored, n) /\ stored.props = both
  BY <1>1, <1>6, Registers
<1>9. /\ Whole(both) /\ both[DISTINCT_ID] = id /\ both[IDENTITY_STATE] = IDENTIFIED
  BY <1>1, <1>7 DEF @@, Whole
<1> HIDE DEF stored, both
<1>10. /\ Serves(stored, after, n) /\ after.props = stored.props
       /\ after.distinctId = id /\ after.state = IDENTIFIED
  BY <1>2, <1>4, <1>8, GoesAs DEF Serves
<1>11. Serves(client, after, n) /\ InLockstep(after)
  BY <1>8, <1>9, <1>10, ServesOn DEF InLockstep
<1> QED
  BY <1>10, <1>11 DEF after, IsClient, Serves

---------------------------------------------------------------------------
(* What a capture does to the client and puts on the wire.                  *)
LEMMA WritesInitial ==
    ASSUME NEW n \in Nat, NEW client, IsClient(client, n)
    PROVE  LET after == writeInitialProps(client)
           IN  Serves(client, after, n) /\ SameVisitor(client, after) /\ IsClient(after, n)
<1> DEFINE auto == "auto"
           bag == INITIAL_PROPS :> auto
           after == writeInitialProps(client)
           both == client.props @@ bag
<1>1. Seated(client, n) /\ InLockstep(client) /\ Whole(client.props)
  BY DEF IsClient, InLockstep
<1>2. IsBag(bag, n)
  BY OneKey
<1>3. after = registerOnce(client, bag)
  BY DEF writeInitialProps
<1> HIDE DEF bag, after
<1>4. /\ Serves(client, after, n) /\ SameVisitor(client, after) /\ after.props = both
  BY <1>1, <1>2, <1>3, RegistersOnce
<1>5. /\ {DEVICE_ID, DISTINCT_ID, IDENTITY_STATE} \subseteq DOMAIN both
      /\ \A key \in {DEVICE_ID, DISTINCT_ID, IDENTITY_STATE} : both[key] = client.props[key]
  BY <1>1 DEF @@, Whole
<1> HIDE DEF both
<1>6. InLockstep(after)
  BY <1>1, <1>4, <1>5, StaysInLockstep
<1> QED
  BY <1>4, <1>6 DEF after, IsClient, Serves

LEMMA Captured ==
    ASSUME NEW n \in Nat, NEW client, IsClient(client, n), NEW event,
           NEW outcome \in Captures(client, event)
    PROVE  /\ Serves(client, outcome.client, n) /\ SameVisitor(client, outcome.client)
           /\ IsClient(outcome.client, n)
           /\ outcome.link = {} \/ outcome.link = Link(toWireEvent(client, event))
<1> DEFINE captured == writeInitialProps(client)
           link == Link(toWireEvent(client, event))
<1>1. Seated(client, n)
  BY DEF IsClient
<1>2. Serves(client, client, n) /\ SameVisitor(client, client)
  BY <1>1, ServesItself DEF SameVisitor
<1>3. Serves(client, captured, n) /\ SameVisitor(client, captured) /\ IsClient(captured, n)
  BY WritesInitial
<1>4. \/ outcome = [client |-> client, link |-> {}]
      \/ outcome = [client |-> captured, link |-> link]
      \/ outcome = [client |-> save(captured), link |-> link]
  BY DEF Captures
<1> HIDE DEF captured, link
<1>5. LET saved == save(captured)
      IN  Serves(captured, saved, n) /\ SameVisitor(captured, saved) /\ saved.props = captured.props
  BY <1>3, Saves DEF IsClient
<1> DEFINE saved == save(captured)
<1>6. Serves(client, saved, n) /\ SameVisitor(client, saved) /\ IsClient(saved, n)
  <2>1. Serves(captured, saved, n) /\ SameVisitor(captured, saved) /\ saved.props = captured.props
    BY <1>5
  <2> HIDE DEF saved
  <2>2. Serves(client, saved, n) /\ SameVisitor(client, saved)
    BY <1>3, <2>1, ServesOn DEF SameVisitor
  <2>3. InLockstep(saved)
    BY <1>3, <2>1 DEF IsClient, InLockstep, SameVisitor
  <2> QED
    BY <2>2, <2>3 DEF IsClient, Serves
<1> HIDE DEF saved
<1>7. CASE outcome = [client |-> client, link |-> {}]
  BY <1>2, <1>7
<1>8. CASE outcome = [client |-> captured, link |-> link]
  BY <1>3, <1>8 DEF link
<1>9. CASE outcome = [client |-> save(captured), link |-> link]
  BY <1>6, <1>9 DEF saved, link
<1> QED
  BY <1>4, <1>7, <1>8, <1>9

LEMMA LinkOnTheWire ==
    ASSUME NEW client, "props" \in DOMAIN client, NEW event, Shaped(event)
    PROVE  Link(toWireEvent(client, event)) =
              IF Has(event.properties, ANONYMOUS_DISTINCT_ID)
              THEN {<<event.properties[ANONYMOUS_DISTINCT_ID], event.distinctId>>} ELSE {}
<1>1. ANONYMOUS_DISTINCT_ID \notin ReservedKeys \cup MapperKeys /\ ANONYMOUS_DISTINCT_ID \in LEGACY_HIDDEN_KEYS
  BY DEF ANONYMOUS_DISTINCT_ID, ReservedKeys, GROUPS, MapperKeys, SET_TRAITS, SET_TRAITS_ONCE,
         GROUPS_WIRE, GEOIP_DISABLE_WIRE, TOKEN_WIRE, LEGACY_HIDDEN_KEYS
<1> DEFINE wire == toWireEvent(client, event)
           given == event.properties
<1>2. /\ wire.distinct_id = event.distinctId
      /\ \A key \in DOMAIN given \ (ReservedKeys \cup MapperKeys) :
            key \in DOMAIN wire.properties /\ wire.properties[key] = given[key]
      /\ DOMAIN wire.properties \cap LEGACY_HIDDEN_KEYS \subseteq DOMAIN given
  BY OnTheWire
<1> HIDE DEF wire, given
<1>3. Link(wire) = IF Has(given, ANONYMOUS_DISTINCT_ID)
                   THEN {<<given[ANONYMOUS_DISTINCT_ID], event.distinctId>>} ELSE {}
  BY <1>1, <1>2 DEF Link, Has
<1> QED
  BY <1>3 DEF wire, given

---------------------------------------------------------------------------
(* The backends: what is read is an entry, what is written can be read back,*)
(* and a write leaves the other sites and the other jars as they are.       *)
Elsewhere(site, before, after) ==
    /\ \A other \in Sites : other # site => after.local[other] = before.local[other]
    /\ \A jar \in Jars : jar # Jar(site, web) => after.cookie[jar] = before.cookie[jar]

LEMMA JarsOfSites ==
    /\ \A site \in Sites : Jar(site, web) \in Jars
    /\ web \in Webs => web.sites \subseteq Sites
BY IdentityBounds DEF Jar, Jars

LEMMA Durables ==
    ASSUME web \in Webs
    PROVE  /\ Durable \in Backends
           /\ buildPropsBackend("memory", web) = memoryBackend
           /\ memoryBackend # cookieBackend /\ memoryBackend # localStoragePlusCookie
           /\ cookieBackend # localStoragePlusCookie
BY IdentityBounds DEF Durable, buildPropsBackend, Backends, memoryBackend, cookieBackend, localStoragePlusCookie

LEMMA IdentityHalf ==
    ASSUME NEW n, NEW props, IsBag(props, n), Whole(props)
    PROVE  /\ IsBag(cookieMirror(props), n) /\ Whole(cookieMirror(props))
           /\ cookieMirror(props) # Empty
           /\ cookieMirror(cookieMirror(props)) = cookieMirror(props)
           /\ props @@ cookieMirror(props) = props
<1> DEFINE half == cookieMirror(props)
           again == cookieMirror(half)
<1>1. IsBag(half, n)
  BY PartBag DEF cookieMirror
<1>2. DOMAIN half = DOMAIN props \cap COOKIE_MIRRORED_KEYS
  BY DEF cookieMirror, Only
<1>3. Whole(half)
  BY <1>2 DEF Whole, COOKIE_MIRRORED_KEYS
<1> HIDE DEF half
<1>4. half # Empty
  BY <1>3, NoKeys
<1>5. IsBag(again, n)
  BY <1>1, PartBag DEF cookieMirror
<1>6. DOMAIN again = DOMAIN half /\ \A key \in DOMAIN again : again[key] = half[key]
  BY <1>2 DEF cookieMirror, Only
<1>7. again = half
  BY <1>1, <1>5, <1>6, EqualBags
<1>8. props @@ half = props
  BY <1>1, <1>2, NothingNew
<1> QED
  BY <1>1, <1>3, <1>4, <1>7, <1>8 DEF half

LEMMA ReadsEntry ==
    ASSUME NEW n, NEW any, IsDisk(any, n), NEW site \in Sites, NEW kind \in Backends
    PROVE  IsEntry(parse(kind, site, web, any), n)
<1> DEFINE here == any.local[site]
           jarred == any.cookie[Jar(site, web)]
           both == here @@ jarred
<1>1. IsEntry(here, n) /\ IsEntry(jarred, n)
  BY JarsOfSites DEF IsDisk
<1>2. IsEntry(Empty, n)
  BY NoKeys DEF IsEntry
<1>3. parse(kind, site, web, any) \in {Empty, jarred, both}
  BY DEF parse, Backends, localEntry, cookieEntry
<1> HIDE DEF here, jarred
<1>4. IsBag(both, n) /\ DOMAIN both = DOMAIN here \cup DOMAIN jarred
  BY <1>1, OverBag DEF IsEntry, @@
<1>5. CASE here = Empty /\ jarred = Empty
  <2>1. both = Empty
    BY <1>5, NoKeys, NothingNew
  <2> QED
    BY <1>1, <1>2, <1>3, <2>1
<1>6. CASE Whole(here) \/ Whole(jarred)
  BY <1>1, <1>2, <1>3, <1>4, <1>6 DEF IsEntry, Whole
<1> QED
  BY <1>1, <1>5, <1>6 DEF IsEntry

LEMMA Replaced ==
    ASSUME NEW n, NEW any, IsDisk(any, n), NEW site \in Sites, NEW bag, IsEntry(bag, n)
    PROVE  /\ LET after == setCookie(site, web, bag, any)
              IN  /\ IsDisk(after, n) /\ Elsewhere(site, any, after)
                  /\ after.cookie[Jar(site, web)] = bag /\ after.local = any.local
           /\ LET after == setLocal(site, bag, any)
              IN  /\ IsDisk(after, n) /\ Elsewhere(site, any, after)
                  /\ after.local[site] = bag /\ after.cookie = any.cookie
<1>1. Jar(site, web) \in Jars
  BY JarsOfSites
<1> DEFINE jar == Jar(site, web)
<1> HIDE DEF jar
<1>2. LET after == [any EXCEPT !.cookie[jar] = bag]
      IN  /\ IsDisk(after, n)
          /\ \A other \in Jars : other # jar => after.cookie[other] = any.cookie[other]
          /\ after.cookie[jar] = bag /\ after.local = any.local
  BY <1>1 DEF IsDisk, jar
<1>3. LET after == [any EXCEPT !.local[site] = bag]
      IN  /\ IsDisk(after, n)
          /\ \A other \in Sites : other # site => after.local[other] = any.local[other]
          /\ after.local[site] = bag /\ after.cookie = any.cookie
  <2> DEFINE local == [any.local EXCEPT ![site] = bag]
             after == [any EXCEPT !.local[site] = bag]
  <2>1. any.local = [other \in Sites |-> any.local[other]]
    BY DEF IsDisk
  <2>2. /\ local = [other \in Sites |-> local[other]] /\ local[site] = bag
        /\ \A other \in Sites : other # site => local[other] = any.local[other]
    BY <2>1
  <2>3. after.local = local /\ after.cookie = any.cookie
        /\ after = [local |-> after.local, cookie |-> after.cookie]
    <3>1. any = [local |-> any.local, cookie |-> any.cookie]
      BY DEF IsDisk
    <3> HIDE DEF IsDisk
    <3> QED
      BY <3>1
  <2> HIDE DEF local, after
  <2>4. IsDisk(after, n)
    BY <2>2, <2>3 DEF IsDisk
  <2> QED
    BY <2>2, <2>3, <2>4 DEF after
<1> QED
  BY <1>2, <1>3 DEF setCookie, setLocal, Elsewhere, jar

LEMMA ElsewhereOn ==
    ASSUME NEW site, NEW one, NEW two, NEW three, Elsewhere(site, one, two), Elsewhere(site, two, three)
    PROVE  Elsewhere(site, one, three)
BY DEF Elsewhere

(* PropertyStore!set, of properties with an identity.                       *)
LEMMA Written ==
    ASSUME web \in Webs, NEW n, NEW any, IsDisk(any, n), NEW site \in Sites,
           NEW kind \in {memoryBackend, Durable}, NEW props, IsBag(props, n), Whole(props)
    PROVE  LET after == set(kind, site, web, props, any)
           IN  /\ IsDisk(after, n) /\ Elsewhere(site, any, after)
               /\ kind = memoryBackend => after = any
               /\ kind # memoryBackend => InSync(after, site, props)
<1> DEFINE after == set(kind, site, web, props, any)
           half == cookieMirror(props)
<1>1. kind \in Backends
  BY Durables DEF Backends
<1>2. IsEntry(props, n)
  BY DEF IsEntry
<1>3. /\ IsEntry(half, n) /\ half # Empty
      /\ cookieMirror(half) = half /\ props @@ half = props
  BY IdentityHalf DEF IsEntry
<1>4. CASE kind = memoryBackend
  <2>1. after = any
    BY <1>4, Durables DEF set
  <2> HIDE DEF after
  <2>2. IsDisk(after, n) /\ Elsewhere(site, any, after)
    BY <2>1 DEF Elsewhere
  <2> QED
    BY <1>4, <2>1, <2>2 DEF after
<1>5. CASE kind = cookieBackend
  <2>1. after = setCookie(site, web, props, any)
    BY <1>5, Durables DEF set
  <2>2. /\ IsDisk(after, n) /\ Elsewhere(site, any, after)
        /\ after.cookie[Jar(site, web)] = props
    BY <1>2, <2>1, Replaced
  <2> HIDE DEF after
  <2>3. Durable = cookieBackend
    BY <1>5, Durables
  <2>4. InSync(after, site, props)
    BY <2>2, <2>3, Durables DEF InSync, parse, cookieEntry
  <2> QED
    BY <1>5, <2>2, <2>4, Durables DEF after
<1>6. CASE kind = localStoragePlusCookie
  <2> DEFINE first == setLocal(site, props, any)
  <2>1. after = setCookie(site, web, half, first)
    BY <1>3, <1>6, Durables DEF set, setMirror
  <2>2. /\ IsDisk(first, n) /\ Elsewhere(site, any, first) /\ first.local[site] = props
    BY <1>2, Replaced
  <2> HIDE DEF after, first, half
  <2>3. /\ IsDisk(after, n) /\ Elsewhere(site, first, after)
        /\ after.cookie[Jar(site, web)] = half /\ after.local = first.local
    BY <1>3, <2>1, <2>2, Replaced
  <2>4. Elsewhere(site, any, after)
    BY <2>2, <2>3, ElsewhereOn
  <2>5. Durable = localStoragePlusCookie
    BY <1>6, Durables
  <2>6. parse(Durable, site, web, after) = props @@ half
    BY <2>2, <2>3, <2>5, Durables DEF parse, localEntry, cookieEntry
  <2>7. InSync(after, site, props)
    BY <1>3, <2>3, <2>6 DEF InSync, half
  <2> QED
    BY <1>6, <2>3, <2>4, <2>7, Durables DEF after
<1> QED
  BY <1>1, <1>4, <1>5, <1>6 DEF Backends

LEMMA Removed ==
    ASSUME web \in Webs, NEW n, NEW any, IsDisk(any, n), NEW site \in Sites,
           NEW kind \in {memoryBackend, Durable}
    PROVE  LET after == remove(kind, site, web, any)
           IN  /\ IsDisk(after, n) /\ Elsewhere(site, any, after)
               /\ kind = memoryBackend => after = any
<1> DEFINE after == remove(kind, site, web, any)
           first == setLocal(site, Empty, any)
<1>1. kind \in Backends
  BY Durables DEF Backends
<1>2. IsEntry(Empty, n)
  BY NoKeys DEF IsEntry
<1>3. IsDisk(first, n) /\ Elsewhere(site, any, first)
  BY <1>2, Replaced
<1>4. CASE kind = memoryBackend
  <2>1. after = any
    BY <1>4, Durables DEF remove
  <2> HIDE DEF after
  <2>2. IsDisk(after, n) /\ Elsewhere(site, any, after)
    BY <2>1 DEF Elsewhere
  <2> QED
    BY <1>4, <2>1, <2>2 DEF after
<1>5. CASE kind = cookieBackend
  <2>1. after = setCookie(site, web, Empty, any)
    BY <1>5, Durables DEF remove
  <2> HIDE DEF after
  <2>2. IsDisk(after, n) /\ Elsewhere(site, any, after)
    BY <1>2, <2>1, Replaced
  <2> QED
    BY <1>5, <2>2, Durables DEF after
<1>6. CASE kind = localStoragePlusCookie
  <2>1. after = setCookie(site, web, Empty, first)
    BY <1>6, Durables DEF remove
  <2> HIDE DEF after, first
  <2>2. IsDisk(after, n) /\ Elsewhere(site, first, after)
    BY <1>2, <1>3, <2>1, Replaced
  <2>3. Elsewhere(site, any, after)
    BY <1>3, <2>2, ElsewhereOn
  <2> QED
    BY <1>6, <2>2, <2>3, Durables DEF after
<1> QED
  BY <1>1, <1>4, <1>5, <1>6 DEF Backends

---------------------------------------------------------------------------
(* What the handlers do.  A verb serves its client: the visitor stays the   *)
(* same, or becomes known, and only an anonymous one is merged.             *)
KnownNow(p) ==
    /\ page'[p].state = IDENTIFIED
    /\ \/ links' = links
       \/ /\ page[p].state = ANONYMOUS
          /\ \E id \in Users : links' = links \cup {<<page[p].distinctId, id>>}

Verb(p) ==
    /\ Open(p) /\ page' = [page EXCEPT ![p] = page'[p]]
    /\ IsClient(page'[p], minted) /\ Serves(page[p], page'[p], minted)
    /\ (SameVisitor(page[p], page'[p]) /\ links' = links) \/ KnownNow(p)
    /\ consent' \in [Sites -> Decisions] /\ calls' \in 0..MaxCalls
    /\ UNCHANGED <<web, disk, minted, loads, orderly, kept>>

(* A write puts the whole of the properties on the disk, or leaves a save   *)
(* due; and the visitor stays the same or is a new one.                     *)
Write(p) ==
    /\ Open(p) /\ page' = [page EXCEPT ![p] = page'[p]]
    /\ IsClient(page'[p], minted')
    /\ page'[p].site = page[p].site
    /\ page[p].kind # memoryBackend => page'[p].kind # memoryBackend
    /\ IsDisk(disk', minted') /\ Elsewhere(page[p].site, disk, disk')
    /\ IF page'[p].kind = memoryBackend THEN disk' = disk
       ELSE page'[p].saveDue \/ InSync(disk', page'[p].site, page'[p].props)
    /\ \/ SameVisitor(page[p], page'[p])
       \/ page'[p].state = ANONYMOUS /\ page'[p].distinctId \in minted + 1..minted'
    /\ minted' \in minted..MaxIds
    /\ consent' \in [Sites -> Decisions] /\ calls' \in 0..MaxCalls
    /\ UNCHANGED <<web, links, loads, orderly, kept>>

LEMMA Clienthood ==
    ASSUME StoreInv, NEW p \in Pages, Open(p)
    PROVE  /\ IsClient(page[p], minted) /\ Seated(page[p], minted) /\ minted \in Nat
           /\ page[p].site \in Sites /\ page[p].kind \in {memoryBackend, Durable}
           /\ IsBag(page[p].props, minted) /\ Whole(page[p].props)
BY IdentityBounds DEF StoreInv, Paged, Counted, IsClient, Seated, Clients, InLockstep

LEMMA CapturedNow ==
    ASSUME StoreInv, NEW p \in Pages, Open(p),
           NEW client, IsClient(client, minted), Serves(page[p], client, minted),
           NEW event, NEW outcome \in Captures(client, event), Now(p, outcome.client)
    PROVE  /\ page' = [page EXCEPT ![p] = page'[p]]
           /\ IsClient(page'[p], minted) /\ Serves(page[p], page'[p], minted)
           /\ SameVisitor(client, page'[p])
           /\ outcome.link = {} \/ outcome.link = Link(toWireEvent(client, event))
<1>1. /\ Serves(client, outcome.client, minted) /\ SameVisitor(client, outcome.client)
      /\ IsClient(outcome.client, minted)
      /\ outcome.link = {} \/ outcome.link = Link(toWireEvent(client, event))
  BY Clienthood, Captured
<1>2. page' = [page EXCEPT ![p] = outcome.client] /\ page'[p] = outcome.client
  BY DEF Now, StoreInv, Paged
<1>3. Serves(page[p], outcome.client, minted)
  BY <1>1, ServesOn
<1> QED
  BY <1>1, <1>2, <1>3

LEMMA Quiet ==
    ASSUME StoreInv, NEW p \in Pages, Now(p, page'[p])
    PROVE  /\ consent' \in [Sites -> Decisions]
           /\ UNCHANGED <<web, disk, minted, loads, orderly, kept>>
           /\ (Called \/ calls' = calls) => calls' \in 0..MaxCalls
BY IdentityBounds DEF StoreInv, Counted, Now, Called

LEMMA NowIs ==
    ASSUME StoreInv, NEW p \in Pages, NEW client, Now(p, client)
    PROVE  page'[p] = client /\ page' = [page EXCEPT ![p] = page'[p]] /\ Now(p, page'[p])
BY DEF StoreInv, Paged, Now

LEMMA Tracks ==
    ASSUME StoreInv, NEW p \in Pages, NEW event \in Events, Track(p, event)
    PROVE  Verb(p)
<1> DEFINE client == page[p]
           built == buildEvent(client, event)
<1>1. PICK outcome \in Captures(client, built) : Now(p, outcome.client) /\ links' = links \cup outcome.link
  BY DEF Track
<1>2. IsClient(client, minted) /\ Serves(client, client, minted) /\ Open(p) /\ "props" \in DOMAIN client
  BY Clienthood, ServesItself DEF Track, Seated, Clients
<1>3. Shaped(built) /\ ~Has(built.properties, ANONYMOUS_DISTINCT_ID)
  BY ConsumersEvents
<1> HIDE DEF built
<1>4. Link(toWireEvent(client, built)) = {}
  BY <1>2, <1>3, LinkOnTheWire
<1>5. /\ page' = [page EXCEPT ![p] = page'[p]]
      /\ IsClient(page'[p], minted) /\ Serves(page[p], page'[p], minted)
      /\ SameVisitor(client, page'[p]) /\ outcome.link = {}
  BY <1>1, <1>2, <1>4, CapturedNow
<1>6. calls' = calls
  BY DEF Track
<1>7. Now(p, page'[p])
  BY <1>1, NowIs
<1> QED
  BY <1>1, <1>2, <1>5, <1>6, <1>7, Quiet DEF Verb

LEMMA Identifies ==
    ASSUME StoreInv, NEW p \in Pages, NEW id, NEW traits \in BOOLEAN, Identify(p, id, traits),
           id \in Users \/ id = page[p].distinctId
    PROVE  Verb(p)
<1> DEFINE client == page[p]
           changed == id # client.distinctId
           merged == merge(client, id)
           adopted == IF changed THEN setDistinctId(client, id) ELSE client
           mergeEvent == buildMergeEvent(merged, client.distinctId, traits)
           traitsEvent == buildTraitsEvent(adopted, traits)
<1>1. /\ Open(p) /\ Called /\ IsClient(client, minted) /\ Serves(client, client, minted)
      /\ minted \in Nat
  BY Clienthood, ServesItself DEF Identify
<1>2. CASE changed /\ client.state = ANONYMOUS
  <2>1. id \in Users
    BY <1>2
  <2>2. PICK outcome \in Captures(merged, mergeEvent) :
           Now(p, outcome.client) /\ links' = links \cup outcome.link
    BY <1>2 DEF Identify
  <2>3. /\ Serves(client, merged, minted) /\ IsClient(merged, minted)
        /\ merged.distinctId = id /\ merged.state = IDENTIFIED
    BY <1>1, <2>1, Merges
  <2>4. "props" \in DOMAIN merged
    BY <2>3 DEF IsClient, Seated, Clients
  <2> HIDE DEF merged
  <2>5. /\ Shaped(mergeEvent) /\ mergeEvent.distinctId = id
        /\ Has(mergeEvent.properties, ANONYMOUS_DISTINCT_ID)
        /\ mergeEvent.properties[ANONYMOUS_DISTINCT_ID] = client.distinctId
    BY <2>3, MergeEvents
  <2> HIDE DEF mergeEvent
  <2>6. Link(toWireEvent(merged, mergeEvent)) = {<<client.distinctId, id>>}
    BY <2>4, <2>5, LinkOnTheWire
  <2>7. /\ page' = [page EXCEPT ![p] = page'[p]]
        /\ IsClient(page'[p], minted) /\ Serves(page[p], page'[p], minted)
        /\ SameVisitor(merged, page'[p])
        /\ outcome.link = {} \/ outcome.link = {<<client.distinctId, id>>}
    BY <1>1, <2>2, <2>3, <2>6, CapturedNow
  <2>8. KnownNow(p)
    BY <1>2, <2>1, <2>2, <2>3, <2>7 DEF KnownNow, SameVisitor
  <2>9. Now(p, page'[p])
    BY <2>2, NowIs
  <2> QED
    BY <1>1, <2>7, <2>8, <2>9, Quiet DEF Verb
<1>3. CASE ~(changed /\ client.state = ANONYMOUS)
  <2>1. /\ Serves(client, adopted, minted) /\ IsClient(adopted, minted)
        /\ SameVisitor(client, adopted) \/ adopted.state = IDENTIFIED
    BY <1>1, Adopts DEF SameVisitor
  <2>2. "props" \in DOMAIN adopted
    BY <2>1 DEF IsClient, Seated, Clients
  <2>3. \/ ~traits /\ Now(p, adopted) /\ links' = links
        \/ traits /\ \E outcome \in Captures(adopted, traitsEvent) :
                        Now(p, outcome.client) /\ links' = links \cup outcome.link
    BY <1>3 DEF Identify
  <2> HIDE DEF adopted
  <2>4. CASE ~traits /\ Now(p, adopted) /\ links' = links
    <3>1. page'[p] = adopted /\ page' = [page EXCEPT ![p] = page'[p]] /\ Now(p, page'[p])
      BY <2>4, NowIs
    <3> QED
      BY <1>1, <2>1, <2>4, <3>1, Quiet DEF Verb, KnownNow
  <2>5. CASE traits /\ \E outcome \in Captures(adopted, traitsEvent) :
                          Now(p, outcome.client) /\ links' = links \cup outcome.link
    <3>1. PICK outcome \in Captures(adopted, traitsEvent) :
             Now(p, outcome.client) /\ links' = links \cup outcome.link
      BY <2>5
    <3>2. Shaped(traitsEvent) /\ traitsEvent.properties = traitBags(traits)
      BY DEF buildTraitsEvent, Minted, Shaped
    <3>3. ~Has(traitsEvent.properties, ANONYMOUS_DISTINCT_ID)
      <4>1. DOMAIN traitBags(traits) \subseteq {SET_TRAITS} /\ SET_TRAITS # ANONYMOUS_DISTINCT_ID
        BY DEF traitBags, Empty, :>, SET_TRAITS, ANONYMOUS_DISTINCT_ID
      <4> QED
        BY <3>2, <4>1 DEF Has
    <3> HIDE DEF traitsEvent
    <3>4. Link(toWireEvent(adopted, traitsEvent)) = {}
      BY <2>2, <3>2, <3>3, LinkOnTheWire
    <3>5. /\ page' = [page EXCEPT ![p] = page'[p]]
          /\ IsClient(page'[p], minted) /\ Serves(page[p], page'[p], minted)
          /\ SameVisitor(adopted, page'[p]) /\ outcome.link = {}
      BY <1>1, <2>1, <3>1, <3>4, CapturedNow
    <3>6. Now(p, page'[p]) /\ links' = links
      BY <3>1, <3>5, NowIs
    <3> QED
      BY <1>1, <2>1, <3>5, <3>6, Quiet DEF Verb, KnownNow, SameVisitor
  <2> QED
    BY <2>3, <2>4, <2>5
<1> QED
  BY <1>2, <1>3

(* What a client registers beside its identity.                             *)
LEMMA KeptNow ==
    ASSUME StoreInv, NEW p \in Pages, Open(p), NEW after, Now(p, after), links' = links,
           Called, Serves(page[p], after, minted), SameVisitor(page[p], after), InLockstep(after)
    PROVE  Verb(p)
<1>1. page'[p] = after /\ page' = [page EXCEPT ![p] = page'[p]] /\ Now(p, page'[p])
  BY NowIs
<1> QED
  BY <1>1, Quiet DEF Verb, IsClient, Serves

LEMMA RegistersKey ==
    ASSUME StoreInv, NEW p \in Pages, NEW key \in SuperKeys, NEW value \in Values, NEW once \in BOOLEAN,
           Register(p, key, value, once)
    PROVE  Verb(p)
<1> DEFINE client == page[p]
           new == key :> value
           after == IF once THEN registerOnce(client, new) ELSE register(client, new)
<1>1. /\ Open(p) /\ Called /\ Now(p, after) /\ links' = links
      /\ Seated(client, minted) /\ InLockstep(client) /\ minted \in Nat
  BY Clienthood DEF Register, IsClient
<1>2. IsBag(new, minted) /\ DOMAIN new = {key}
  BY OneKey DEF :>
<1> HIDE DEF new
<1>3. /\ Serves(client, after, minted) /\ SameVisitor(client, after)
      /\ after.props \in {new @@ client.props, client.props @@ new}
  BY <1>1, <1>2, Registers, RegistersOnce
<1>4. \A other \in DOMAIN client.props : other # key =>
         other \in DOMAIN after.props /\ after.props[other] = client.props[other]
  BY <1>2, <1>3 DEF @@
<1> HIDE DEF after
<1>5. {DEVICE_ID, DISTINCT_ID, IDENTITY_STATE} \subseteq DOMAIN client.props
      /\ key \notin {DEVICE_ID, DISTINCT_ID, IDENTITY_STATE}
  BY <1>1, KeysApart DEF InLockstep, Whole
<1>6. InLockstep(after)
  BY <1>1, <1>3, <1>4, <1>5, StaysInLockstep
<1> QED
  BY <1>1, <1>3, <1>6, KeptNow

LEMMA UnregistersKey ==
    ASSUME StoreInv, NEW p \in Pages, NEW key \in SuperKeys, Unregister(p, key)
    PROVE  Verb(p)
<1> DEFINE client == page[p]
           after == unregister(client, key)
<1>1. /\ Open(p) /\ Called /\ Now(p, after) /\ links' = links
      /\ Seated(client, minted) /\ InLockstep(client) /\ minted \in Nat
  BY Clienthood DEF Unregister, IsClient
<1>2. /\ Serves(client, after, minted) /\ SameVisitor(client, after)
      /\ DOMAIN after.props = DOMAIN client.props \ {key}
      /\ \A k \in DOMAIN client.props \ {key} : after.props[k] = client.props[k]
  BY <1>1, Unregisters
<1> HIDE DEF after
<1>3. {DEVICE_ID, DISTINCT_ID, IDENTITY_STATE} \subseteq DOMAIN client.props
      /\ key \notin {DEVICE_ID, DISTINCT_ID, IDENTITY_STATE}
  BY <1>1, KeysApart DEF InLockstep, Whole
<1>4. InLockstep(after)
  BY <1>1, <1>2, <1>3, StaysInLockstep
<1> QED
  BY <1>1, <1>2, <1>4, KeptNow

LEMMA Groups ==
    ASSUME StoreInv, NEW p \in Pages, NEW type \in GroupTypes, Group(p, type)
    PROVE  Verb(p)
<1> DEFINE client == page[p]
           members == Memberships(client) \cup {type}
           new == GROUPS :> members
           registered == register(client, new)
           joined == save(registered)
           event == Minted(joined, "group_identify", "group_type" :> type)
           both == new @@ client.props
<1>1. /\ Open(p) /\ Called /\ Seated(client, minted) /\ InLockstep(client) /\ minted \in Nat
      /\ \E outcome \in Captures(joined, event) :
            Now(p, outcome.client) /\ links' = links \cup outcome.link
  BY Clienthood DEF Group, IsClient
<1>2. members \in SUBSET GroupTypes
  BY <1>1 DEF Memberships, Has, Seated, IsBag
<1> HIDE DEF members
<1>3. IsBag(new, minted) /\ DOMAIN new = {GROUPS}
  <2>1. IsBag(new, minted)
    BY <1>2, OneKey
  <2> QED
    BY <2>1, Single
<1> HIDE DEF new
<1>4. Serves(client, registered, minted) /\ SameVisitor(client, registered) /\ registered.props = both
  BY <1>1, <1>3, Registers
<1>5. \A key \in {DEVICE_ID, DISTINCT_ID, IDENTITY_STATE} :
         key \in DOMAIN both /\ both[key] = client.props[key]
  BY <1>1, <1>3, KeysApart DEF @@, InLockstep, Whole
<1> HIDE DEF registered, both
<1>6. InLockstep(registered)
  BY <1>1, <1>4, <1>5, StaysInLockstep
<1>7. Serves(registered, joined, minted) /\ SameVisitor(registered, joined) /\ joined.props = registered.props
  BY <1>1, <1>4, Saves DEF Serves
<1> HIDE DEF joined
<1>8. Serves(client, joined, minted) /\ SameVisitor(client, joined) /\ IsClient(joined, minted)
  <2>1. Serves(client, joined, minted)
    BY <1>4, <1>7, ServesOn
  <2> QED
    BY <1>4, <1>6, <1>7, <2>1 DEF SameVisitor, IsClient, InLockstep, Serves
<1>9. Shaped(event) /\ DOMAIN event.properties = {"group_type"}
  BY DEF Minted, Shaped, :>
<1> HIDE DEF event
<1>10. Link(toWireEvent(joined, event)) = {}
  <2>1. "props" \in DOMAIN joined
    BY <1>8 DEF IsClient, Seated, Clients
  <2>2. ~Has(event.properties, ANONYMOUS_DISTINCT_ID)
    BY <1>9 DEF Has, ANONYMOUS_DISTINCT_ID
  <2> QED
    BY <1>9, <2>1, <2>2, LinkOnTheWire
<1>11. PICK outcome \in Captures(joined, event) : Now(p, outcome.client) /\ links' = links \cup outcome.link
  BY <1>1
<1>12. /\ page' = [page EXCEPT ![p] = page'[p]]
       /\ IsClient(page'[p], minted) /\ Serves(page[p], page'[p], minted)
       /\ SameVisitor(joined, page'[p]) /\ outcome.link = {}
  BY <1>1, <1>8, <1>10, <1>11, CapturedNow
<1>13. Now(p, page'[p]) /\ links' = links /\ SameVisitor(client, page'[p])
  BY <1>8, <1>11, <1>12, NowIs DEF SameVisitor
<1> QED
  BY <1>1, <1>12, <1>13, Quiet DEF Verb

LEMMA Decides ==
    ASSUME StoreInv, NEW p \in Pages, Open(p), NEW state \in Decisions, setConsentState(p, state)
    PROVE  /\ consent' \in [Sites -> Decisions] /\ calls' \in 0..MaxCalls
           /\ UNCHANGED <<web, minted, links, loads, orderly, kept>>
<1>1. consent \in [Sites -> Decisions] /\ calls \in 0..MaxCalls /\ MaxCalls \in Nat
  BY IdentityBounds DEF StoreInv, Counted
<1>2. consent' = [consent EXCEPT ![page[p].site] = state] \/ consent' = consent
  BY DEF setConsentState
<1>3. consent' \in [Sites -> Decisions]
  BY <1>1, <1>2
<1>4. calls' \in 0..MaxCalls
  BY <1>1 DEF setConsentState, Called
<1> QED
  BY <1>3, <1>4 DEF setConsentState

LEMMA OptsOut ==
    ASSUME StoreInv, NEW p \in Pages, OptOut(p)
    PROVE  Verb(p)
<1> DEFINE client == page[p]
           after == [client EXCEPT !.consent = "denied", !.optedOut = TRUE]
<1>1. Open(p) /\ IsClient(client, minted) /\ page = [q \in Pages |-> page[q]]
  BY Clienthood DEF OptOut, StoreInv, Paged
<1>2. page' = [page EXCEPT ![p] = after] /\ page'[p] = after
  BY <1>1 DEF OptOut
<1>3. IsClient(after, minted) /\ Serves(client, after, minted) /\ SameVisitor(client, after)
  BY <1>1 DEF IsClient, Seated, Clients, Decisions, InLockstep, Serves, SameVisitor, MayWrite
<1>4. /\ consent' \in [Sites -> Decisions] /\ calls' \in 0..MaxCalls
      /\ UNCHANGED <<web, disk, minted, links, loads, orderly, kept>>
  BY <1>1, Decides DEF OptOut, Decisions
<1> HIDE DEF after
<1> QED
  BY <1>1, <1>2, <1>3, <1>4 DEF Verb

LEMMA OptsIn ==
    ASSUME StoreInv, NEW p \in Pages, OptIn(p)
    PROVE  Verb(p) \/ Write(p)
<1> DEFINE client == page[p]
           ground == IF web.doNotTrack THEN "overSignal" ELSE "granted"
           asked == [client EXCEPT !.consent = "granted", !.optedOut = FALSE, !.ground = ground]
           moved == promoted(asked, Durable)
<1>1. /\ Open(p) /\ IsClient(client, minted) /\ page = [q \in Pages |-> page[q]]
      /\ Durable \in Backends /\ web \in Webs /\ minted \in Nat
  BY Clienthood, Durables DEF OptIn, StoreInv, Paged, Counted
<1>2. /\ consent' \in [Sites -> Decisions] /\ calls' \in 0..MaxCalls
      /\ UNCHANGED <<web, minted, links, loads, orderly, kept>>
  BY <1>1, Decides DEF OptIn, Decisions
<1>3. \/ page' = [page EXCEPT ![p] = asked] /\ disk' = disk
      \/ page' = [page EXCEPT ![p] = moved] /\ disk' = writeNow(moved, web, disk)
  BY DEF OptIn, Durable
<1>4. /\ ground \in Grounds
      /\ \/ ground = "granted" /\ ~web.doNotTrack
         \/ ground = "overSignal" /\ web.doNotTrack
  BY DEF Grounds
<1> HIDE DEF ground
<1>5. /\ IsClient(asked, minted) /\ Serves(client, asked, minted) /\ SameVisitor(client, asked)
  BY <1>1, <1>4 DEF IsClient, Seated, Clients, Decisions, InLockstep, Serves, SameVisitor, MayWrite
<1>6. /\ IsClient(moved, minted) /\ SameVisitor(client, moved)
      /\ moved.site = client.site /\ moved.kind = Durable /\ moved.props = client.props
  BY <1>1, <1>4 DEF IsClient, Seated, Clients, Decisions, InLockstep, SameVisitor, promoted, MayWrite
<1> HIDE DEF asked, moved
<1>7. CASE page' = [page EXCEPT ![p] = asked] /\ disk' = disk
  <2>1. page'[p] = asked
    BY <1>1, <1>7
  <2> QED
    BY <1>1, <1>2, <1>5, <1>7, <2>1 DEF Verb
<1>8. CASE page' = [page EXCEPT ![p] = moved] /\ disk' = writeNow(moved, web, disk)
  <2>1. page'[p] = moved
    BY <1>1, <1>8
  <2>2. disk' = set(Durable, client.site, web, client.props, disk)
    BY <1>6, <1>8 DEF writeNow
  <2>3. IsDisk(disk, minted)
    BY DEF StoreInv
  <2>4. /\ IsDisk(disk', minted) /\ Elsewhere(client.site, disk, disk')
        /\ Durable = memoryBackend => disk' = disk
        /\ Durable # memoryBackend => InSync(disk', client.site, client.props)
    BY <1>1, <2>2, <2>3, Clienthood, Written
  <2>5. client.kind \in {memoryBackend, Durable}
    BY <1>1, Clienthood
  <2>6. minted' = minted /\ minted' \in minted..MaxIds
    BY <1>1, <1>2, IdentityBounds DEF StoreInv, Counted
  <2> QED
    BY <1>1, <1>2, <1>6, <1>8, <2>1, <2>4, <2>5, <2>6 DEF Write
<1> QED
  BY <1>3, <1>7, <1>8

LEMMA Flushes ==
    ASSUME StoreInv, NEW p \in Pages, SaveFires(p)
    PROVE  Write(p)
<1> DEFINE client == page[p]
           after == [client EXCEPT !.saveDue = FALSE]
<1>1. /\ Open(p) /\ IsClient(client, minted) /\ page = [q \in Pages |-> page[q]]
      /\ web \in Webs /\ minted \in Nat /\ IsDisk(disk, minted)
  BY Clienthood DEF SaveFires, StoreInv, Paged, Counted
<1>2. page' = [page EXCEPT ![p] = after] /\ page'[p] = after
  BY <1>1 DEF SaveFires
<1>3. /\ IsClient(after, minted) /\ SameVisitor(client, after)
      /\ after.site = client.site /\ after.kind = client.kind /\ after.props = client.props
  BY <1>1 DEF IsClient, Seated, Clients, InLockstep, SameVisitor, MayWrite
<1> HIDE DEF after
<1>4. disk' = set(client.kind, client.site, web, client.props, disk)
  BY DEF SaveFires, writeNow
<1>5. client.kind \in {memoryBackend, Durable}
  BY <1>1, Clienthood
<1>6. /\ IsDisk(disk', minted) /\ Elsewhere(client.site, disk, disk')
      /\ client.kind = memoryBackend => disk' = disk
      /\ client.kind # memoryBackend => InSync(disk', client.site, client.props)
  BY <1>1, <1>4, <1>5, Clienthood, Written
<1>7. /\ minted' = minted /\ minted' \in minted..MaxIds
      /\ consent' \in [Sites -> Decisions] /\ calls' \in 0..MaxCalls
      /\ UNCHANGED <<web, links, loads, orderly, kept>>
  BY <1>1, IdentityBounds DEF SaveFires, StoreInv, Counted
<1> QED
  BY <1>1, <1>2, <1>3, <1>6, <1>7 DEF Write

LEMMA StartsOver ==
    ASSUME StoreInv, NEW p \in Pages, NEW resetDevice \in BOOLEAN, Reset(p, resetDevice)
    PROVE  Write(p)
<1> DEFINE client == page[p]
           fresh == minted + 1
           device == NextDevice(client, resetDevice, minted + 2)
           after == resetIdentity(client, device, fresh)
<1>1. /\ Open(p) /\ Seated(client, minted) /\ page = [q \in Pages |-> page[q]]
      /\ web \in Webs /\ minted \in Nat /\ IsDisk(disk, minted) /\ MaxIds \in Nat
  BY Clienthood, IdentityBounds DEF Reset, StoreInv, Paged, Counted
<1>2. /\ page' = [page EXCEPT ![p] = after] /\ page'[p] = after
      /\ minted' = IF device = minted + 2 THEN minted + 2 ELSE minted + 1
      /\ minted + 2 <= MaxIds
      /\ disk' = remove(client.kind, client.site, web, disk)
  BY <1>1 DEF Reset
<1>3. device = minted + 2 \/ device \in 1..minted \cup Users
  BY <1>1, KeysApart DEF NextDevice, Has, Seated, IsBag
<1>4. /\ minted' \in Nat /\ minted <= minted' /\ minted' \in minted..MaxIds
      /\ fresh \in 1..minted' /\ fresh \in minted + 1..minted'
      /\ device \in 1..minted' \cup Users
  <2> HIDE DEF device
  <2> QED
    BY <1>1, <1>2, <1>3
<1> HIDE DEF device, fresh, after
<1>5. Seated(client, minted')
  BY <1>1, <1>4, SeatedLater
<1>6. /\ IsClient(after, minted') /\ after.site = client.site /\ after.kind = client.kind
      /\ after.distinctId = fresh /\ after.state = ANONYMOUS /\ after.saveDue
  BY <1>4, <1>5, Resets DEF after
<1>7. client.kind \in {memoryBackend, Durable} /\ client.site \in Sites
  BY <1>1, Clienthood
<1>8. /\ IsDisk(disk', minted) /\ Elsewhere(client.site, disk, disk')
      /\ client.kind = memoryBackend => disk' = disk
  BY <1>1, <1>2, <1>7, Removed
<1>9. IsDisk(disk', minted')
  BY <1>1, <1>4, <1>8, LaterBag DEF IsDisk, IsEntry
<1>10. /\ consent' \in [Sites -> Decisions] /\ calls' \in 0..MaxCalls
       /\ UNCHANGED <<web, links, loads, orderly, kept>>
  BY IdentityBounds DEF Reset, Called, StoreInv, Counted
<1> QED
  BY <1>1, <1>2, <1>4, <1>6, <1>8, <1>9, <1>10 DEF Write

(* The end of a page, with what was due written or not.                     *)
Gone(p) ==
    /\ Open(p) /\ page' = [page EXCEPT ![p] = None]
    /\ kept' = IF page[p].kind = memoryBackend THEN kept
               ELSE [kept EXCEPT ![Jar(page[p].site, web)] =
                        [site |-> page[p].site, props |-> page[p].props]]
    /\ IsDisk(disk', minted) /\ Elsewhere(page[p].site, disk, disk')
    /\ orderly' => orderly
    /\ IF page[p].kind = memoryBackend THEN disk' = disk
       ELSE \/ InSync(disk', page[p].site, page[p].props)
            \/ disk' = disk /\ (orderly' => ~page[p].saveDue)
    /\ orderly' \in BOOLEAN
    /\ UNCHANGED <<web, consent, minted, links, loads, calls>>

LEMMA Closes ==
    ASSUME StoreInv, NEW p \in Pages, Close(p)
    PROVE  Gone(p)
<1> DEFINE client == page[p]
<1>1. /\ Open(p) /\ web \in Webs /\ minted \in Nat /\ IsDisk(disk, minted) /\ orderly \in BOOLEAN
  BY Clienthood DEF Close, StoreInv, Paged, Counted
<1>2. Elsewhere(client.site, disk, disk)
  BY DEF Elsewhere
<1>3. CASE client.saveDue
  <2>1. disk' = set(client.kind, client.site, web, client.props, disk)
    BY <1>3 DEF Close, Leave, writeNow
  <2>2. /\ IsDisk(disk', minted) /\ Elsewhere(client.site, disk, disk')
        /\ client.kind = memoryBackend => disk' = disk
        /\ client.kind # memoryBackend => InSync(disk', client.site, client.props)
    BY <1>1, <2>1, Clienthood, Written
  <2> QED
    BY <1>1, <2>2 DEF Close, Leave, Gone, memoryBackend
<1>4. CASE ~client.saveDue
  BY <1>1, <1>2, <1>4 DEF Close, Leave, Gone, memoryBackend
<1> QED
  BY <1>3, <1>4

LEMMA Crashes ==
    ASSUME StoreInv, NEW p \in Pages, Crash(p)
    PROVE  Gone(p)
<1>1. /\ IsDisk(disk, minted) /\ orderly \in BOOLEAN
  BY DEF StoreInv, Counted
<1>2. Elsewhere(page[p].site, disk, disk)
  BY DEF Elsewhere
<1> QED
  BY <1>1, <1>2 DEF Crash, Leave, Gone, memoryBackend

(* A page that opens goes on as who is stored, or as somebody new.          *)
Opened(p) ==
    \E bare :
        /\ Seated(bare, minted) /\ IsEntry(bare.props, minted)
        /\ bare.props = parse(bare.kind, bare.site, web, disk) /\ ~bare.saveDue
        /\ ~Open(p) /\ page' = [page EXCEPT ![p] = page'[p]]
        /\ page'[p].site = bare.site /\ page'[p].kind = bare.kind
        /\ Whole(bare.props) =>
              /\ IsClient(page'[p], minted) /\ page'[p].props = bare.props /\ ~page'[p].saveDue
              /\ page'[p].distinctId = bare.props[DISTINCT_ID]
              /\ page'[p].state = bare.props[IDENTITY_STATE] /\ minted' = minted
        /\ ~Whole(bare.props) =>
              /\ IsClient(page'[p], minted + 2) /\ page'[p].saveDue
              /\ page'[p].distinctId = minted + 2 /\ page'[p].state = ANONYMOUS /\ minted' = minted + 2
        /\ minted' \in minted..MaxIds /\ loads' \in 0..MaxLoads
        /\ orderly' = (orderly /\ ~Outdated(bare) /\ \A q \in Pages : ~Open(q))
        /\ UNCHANGED <<web, disk, consent, links, calls, kept>>

LEMMA Builds ==
    ASSUME StoreInv, NEW site \in web.sites
    PROVE  LET bare == Constructed(site)
           IN  /\ Seated(bare, minted) /\ IsEntry(bare.props, minted)
               /\ bare.props = parse(bare.kind, bare.site, web, disk)
               /\ ~bare.saveDue /\ bare.site = site
<1> DEFINE given == [site |-> site, consent |-> IF Remembers THEN consent[site] ELSE "pending"]
           kind == buildPropsBackend(EffectiveMode(given), web)
           props == parse(kind, site, web, disk)
           ground == IF getConsentState(given) = "granted" THEN "granted" ELSE "none"
           bare == Constructed(site)
           suppressed == captureSuppressed(given)
<1>1. /\ site \in Sites /\ web \in Webs /\ IsDisk(disk, minted) /\ minted \in Nat
      /\ Durable \in Backends /\ given.consent \in Decisions /\ given.site = site
  BY JarsOfSites, Durables, IdentityBounds DEF StoreInv, Counted, Decisions
<1>2. ground \in Grounds /\ suppressed \in BOOLEAN
  BY DEF captureSuppressed, resolveOptedOut, Grounds
<1>3. /\ kind \in {memoryBackend, Durable}
      /\ kind # memoryBackend => ground = "granted" /\ ~web.doNotTrack
  BY <1>1, Durables DEF EffectiveMode, Durable, getConsentState
<1>4. bare = [site |-> site, consent |-> given.consent, kind |-> kind, props |-> props,
              saveDue |-> FALSE, distinctId |-> None, state |-> ANONYMOUS,
              optedOut |-> suppressed, ground |-> ground]
  BY DEF Constructed
<1> HIDE DEF given, kind, ground, suppressed, bare
<1>5. IsEntry(props, minted)
  BY <1>1, <1>3, Durables, ReadsEntry DEF Backends
<1>6. IsBag(props, minted) /\ props \in Bags
  BY <1>1, <1>5, BagInBags DEF IsEntry
<1>7. bare.props = parse(bare.kind, bare.site, web, disk)
  BY <1>4
<1> HIDE DEF props
<1>8. bare \in Clients
  BY <1>1, <1>2, <1>3, <1>4, <1>6, Durables DEF Clients, Backends
<1>9. Seated(bare, minted)
  BY <1>3, <1>4, <1>6, <1>8 DEF Seated, MayWrite
<1> QED
  BY <1>4, <1>5, <1>7, <1>9 DEF bare

LEMMA Loads ==
    ASSUME StoreInv, NEW p \in Pages, NEW site \in Sites, Load(p, site)
    PROVE  Opened(p)
<1> DEFINE bare == Constructed(site)
           after == bootstrap(bare, minted + 1, minted + 2)
<1>1. /\ Seated(bare, minted) /\ IsEntry(bare.props, minted)
      /\ bare.props = parse(bare.kind, bare.site, web, disk)
      /\ ~bare.saveDue /\ bare.site = site
  BY Builds DEF Load
<1>2. minted \in Nat /\ page = [q \in Pages |-> page[q]] /\ loads \in 0..MaxLoads /\ minted \in 0..MaxIds
  BY IdentityBounds DEF StoreInv, Counted, Paged
<1>3. /\ ~Open(p) /\ page' = [page EXCEPT ![p] = after] /\ loads' = loads + 1 /\ loads < MaxLoads
      /\ minted' = IF Has(bare.props, DEVICE_ID) /\ Has(bare.props, DISTINCT_ID) THEN minted ELSE minted + 2
      /\ minted' <= MaxIds
      /\ orderly' = (orderly /\ ~Outdated(bare) /\ \A q \in Pages : ~Open(q))
      /\ UNCHANGED <<web, disk, consent, links, calls, kept>>
  BY DEF Load
<1> HIDE DEF bare
<1>4. /\ after.site = bare.site /\ after.kind = bare.kind
      /\ Whole(bare.props) =>
            /\ IsClient(after, minted) /\ after.props = bare.props
            /\ after.saveDue = bare.saveDue
            /\ after.distinctId = bare.props[DISTINCT_ID]
            /\ after.state = bare.props[IDENTITY_STATE]
      /\ ~Whole(bare.props) =>
            /\ IsClient(after, minted + 2) /\ after.saveDue
            /\ after.distinctId = minted + 2 /\ after.state = ANONYMOUS
  BY <1>1, <1>2, Bootstraps
<1> HIDE DEF after
<1>5. page'[p] = after
  BY <1>2, <1>3
<1>6. minted' = IF Whole(bare.props) THEN minted ELSE minted + 2
  BY <1>1, <1>3, NoKeys DEF IsEntry, Whole, Has
<1>7. minted' \in minted..MaxIds /\ loads' \in 0..MaxLoads
  BY <1>2, <1>3, IdentityBounds
<1> QED
  BY <1>1, <1>3, <1>4, <1>5, <1>6, <1>7 DEF Opened

---------------------------------------------------------------------------
(* Every step is one of these.                                              *)
LEMMA Steps ==
    ASSUME StoreInv, [Next]_vars
    PROVE  UNCHANGED vars \/ \E p \in Pages : Opened(p) \/ Verb(p) \/ Write(p) \/ Gone(p)
<1>1. ASSUME NEW p \in Pages, NEW site \in Sites, Load(p, site) PROVE Opened(p)
  BY <1>1, Loads
<1>2. ASSUME NEW p \in Pages, Close(p) \/ Crash(p) PROVE Gone(p)
  BY <1>2, Closes, Crashes
<1>3. ASSUME NEW p \in Pages, SaveFires(p) PROVE Write(p)
  BY <1>3, Flushes
<1>4. ASSUME NEW p \in Pages, SetTraits(p) PROVE Verb(p)
  BY <1>4, Identifies DEF SetTraits
<1>5. ASSUME NEW p \in Pages, NEW event \in Events, Track(p, event) PROVE Verb(p)
  BY <1>5, Tracks
<1>6. ASSUME NEW p \in Pages, NEW id \in Users, NEW traits \in BOOLEAN, Identify(p, id, traits) PROVE Verb(p)
  BY <1>6, Identifies
<1>7. ASSUME NEW p \in Pages, NEW key \in SuperKeys, NEW value \in Values, NEW once \in BOOLEAN,
             Register(p, key, value, once)
      PROVE  Verb(p)
  BY <1>7, RegistersKey
<1>8. ASSUME NEW p \in Pages, NEW key \in SuperKeys, Unregister(p, key) PROVE Verb(p)
  BY <1>8, UnregistersKey
<1>9. ASSUME NEW p \in Pages, NEW type \in GroupTypes, Group(p, type) PROVE Verb(p)
  BY <1>9, Groups
<1>10. ASSUME NEW p \in Pages, NEW resetDevice \in BOOLEAN, Reset(p, resetDevice) PROVE Write(p)
  BY <1>10, StartsOver
<1>11. ASSUME NEW p \in Pages, OptIn(p) PROVE Verb(p) \/ Write(p)
  BY <1>11, OptsIn
<1>12. ASSUME NEW p \in Pages, OptOut(p) PROVE Verb(p)
  BY <1>12, OptsOut
<1> QED
  BY <1>1, <1>2, <1>3, <1>4, <1>5, <1>6, <1>7, <1>8, <1>9, <1>10, <1>11, <1>12 DEF Next

---------------------------------------------------------------------------
(* The store's invariant.                                                   *)
LEMMA PagedStep ==
    ASSUME StoreInv, NEW p \in Pages, web' = web, minted' \in Nat, minted <= minted',
           page' = [page EXCEPT ![p] = page'[p]], page'[p] = None \/ IsClient(page'[p], minted')
    PROVE  Paged'
<1>1. page = [q \in Pages |-> page[q]]
  BY DEF StoreInv, Paged
<1>2. page' = [q \in Pages |-> page'[q]] /\ \A q \in Pages : q # p => page'[q] = page[q]
  BY <1>1
<1>3. ASSUME NEW q \in Pages, page'[q] # None
      PROVE  IsClient(page'[q], minted')
  <2>1. CASE q = p
    BY <1>3, <2>1
  <2>2. CASE q # p
    <3>1. page'[q] = page[q] /\ IsClient(page[q], minted) /\ minted \in Nat
      BY <1>2, <1>3, <2>2, Clienthood DEF Open
    <3> QED
      BY <3>1, SeatedLater DEF IsClient
  <2> QED
    BY <2>1, <2>2
<1> QED
  BY <1>2, <1>3 DEF Paged, Open, IsClient, Seated, Durable, InLockstep, MayWrite

LEMMA LaterLeft ==
    ASSUME NEW n \in Nat, NEW m \in Nat, n <= m, NEW left, Left(left, n)
    PROVE  Left(left, m)
BY LaterBag DEF Left

LEMMA RememberedStep ==
    ASSUME StoreInv, web' = web, minted' \in Nat, minted <= minted', kept' = kept
    PROVE  Remembered'
<1>1. minted \in Nat /\ kept = [jar \in Jars |-> kept[jar]]
  BY IdentityBounds DEF StoreInv, Counted, Remembered
<1>2. \A jar \in Jars : kept[jar] # None => Left(kept[jar], minted')
  BY <1>1, LaterLeft DEF StoreInv, Remembered
<1> QED
  BY <1>1, <1>2 DEF Remembered, Left

LEMMA LaterDisk ==
    ASSUME NEW n \in Nat, NEW m \in Nat, n <= m, NEW any, IsDisk(any, n)
    PROVE  IsDisk(any, m)
BY LaterBag DEF IsDisk, IsEntry

LEMMA VerbKeepsStore ==
    ASSUME StoreInv, NEW p \in Pages, Verb(p)
    PROVE  StoreInv'
<1>1. minted \in Nat /\ minted' \in Nat /\ minted <= minted' /\ minted' = minted
  BY IdentityBounds DEF StoreInv, Counted, Verb
<1>2. Paged' /\ Remembered'
  BY <1>1, PagedStep, RememberedStep DEF Verb
<1>3. IsDisk(disk, minted)'
  BY DEF StoreInv, Verb, IsDisk
<1>4. links' \subseteq Ids' \X Ids'
  <2>1. links \subseteq Ids \X Ids /\ Ids' = Ids
    BY DEF StoreInv, Counted, Verb, Ids
  <2>2. CASE links' = links
    BY <2>1, <2>2
  <2>3. CASE \E id \in Users : links' = links \cup {<<page[p].distinctId, id>>}
    <3>1. PICK id \in Users : links' = links \cup {<<page[p].distinctId, id>>}
      BY <2>3
    <3>2. page[p].distinctId \in Ids /\ id \in Ids
      BY Clienthood, KeysApart DEF Verb, IsClient, InLockstep, Whole, Seated, IsBag, Ids
    <3> QED
      BY <2>1, <3>1, <3>2
  <2> QED
    BY <2>2, <2>3 DEF Verb, KnownNow
<1>5. Counted'
  BY <1>4 DEF StoreInv, Counted, Verb
<1> QED
  BY <1>2, <1>3, <1>5 DEF StoreInv

LEMMA WriteKeepsStore ==
    ASSUME StoreInv, NEW p \in Pages, Write(p)
    PROVE  StoreInv'
<1>1. minted \in Nat /\ minted' \in Nat /\ minted <= minted' /\ minted' \in 0..MaxIds
  BY IdentityBounds DEF StoreInv, Counted, Write
<1>2. Paged' /\ Remembered'
  BY <1>1, PagedStep, RememberedStep DEF Write
<1>3. IsDisk(disk, minted)'
  BY DEF Write, IsDisk
<1>4. Ids \subseteq Ids'
  BY <1>1 DEF Ids
<1>5. Counted'
  <2>1. links' \subseteq Ids' \X Ids'
    BY <1>4 DEF StoreInv, Counted, Write
  <2> QED
    BY <1>1, <2>1 DEF StoreInv, Counted, Write
<1> QED
  BY <1>2, <1>3, <1>5 DEF StoreInv

LEMMA GoneKeepsStore ==
    ASSUME StoreInv, NEW p \in Pages, Gone(p)
    PROVE  StoreInv'
<1> DEFINE left == [site |-> page[p].site, props |-> page[p].props]
           jar == Jar(page[p].site, web)
<1>1. /\ minted \in Nat /\ minted' \in Nat /\ minted <= minted' /\ minted' = minted
      /\ page = [q \in Pages |-> page[q]] /\ kept = [j \in Jars |-> kept[j]]
  BY IdentityBounds DEF StoreInv, Counted, Gone, Paged, Remembered
<1>2. page'[p] = None
  BY <1>1 DEF Gone
<1>3. Paged'
  BY <1>1, <1>2, PagedStep DEF Gone
<1>4. Left(left, minted) /\ jar \in Jars
  BY Clienthood, JarsOfSites DEF Left, Gone, Seated
<1>5. Remembered'
  <2>1. kept' = kept \/ kept' = [kept EXCEPT ![jar] = left]
    BY DEF Gone
  <2> HIDE DEF left, jar
  <2>2. /\ kept' = [j \in Jars |-> kept'[j]]
        /\ \A j \in Jars : kept'[j] = kept[j] \/ kept'[j] = left
    BY <1>1, <1>4, <2>1
  <2>3. \A j \in Jars : kept'[j] # None => Left(kept'[j], minted)
    BY <1>4, <2>2 DEF StoreInv, Remembered
  <2> QED
    BY <1>1, <2>2, <2>3 DEF Remembered, Left, Gone
<1>6. IsDisk(disk, minted)'
  BY <1>1 DEF Gone, IsDisk
<1>7. Counted'
  BY DEF StoreInv, Counted, Gone, Ids
<1> QED
  BY <1>3, <1>5, <1>6, <1>7 DEF StoreInv

LEMMA OpenedKeepsStore ==
    ASSUME StoreInv, NEW p \in Pages, Opened(p)
    PROVE  StoreInv'
<1>1. minted \in Nat /\ minted' \in Nat /\ minted <= minted' /\ minted' \in 0..MaxIds
  BY IdentityBounds DEF StoreInv, Counted, Opened
<1>2. IsClient(page'[p], minted') /\ web' = web /\ page' = [page EXCEPT ![p] = page'[p]] /\ kept' = kept
  BY DEF Opened
<1>3. Paged' /\ Remembered'
  BY <1>1, <1>2, PagedStep, RememberedStep
<1>4. IsDisk(disk, minted)'
  <2>1. disk' = disk /\ IsDisk(disk, minted')
    BY <1>1, LaterDisk DEF StoreInv, Opened
  <2> QED
    BY <2>1 DEF IsDisk
<1>5. Counted'
  <2>1. Ids \subseteq Ids' /\ links' = links
    BY <1>1 DEF Ids, Opened
  <2>2. links' \subseteq Ids' \X Ids'
    BY <2>1 DEF StoreInv, Counted
  <2>3. /\ web' = web /\ consent' = consent /\ calls' = calls /\ loads' \in 0..MaxLoads
        /\ orderly' \in BOOLEAN
    BY DEF Opened
  <2> QED
    BY <1>1, <2>2, <2>3 DEF StoreInv, Counted
<1> QED
  BY <1>3, <1>4, <1>5 DEF StoreInv

LEMMA StoreInit == Init => StoreInv
<1> SUFFICES ASSUME Init PROVE StoreInv
  OBVIOUS
<1>1. IsEntry(Empty, minted)
  BY NoKeys DEF IsEntry
<1>2. IsDisk(disk, minted)
  BY <1>1 DEF Init, IsDisk
<1>3. Counted
  BY IdentityBounds DEF Init, Counted, Decisions
<1> QED
  BY <1>2, <1>3 DEF Init, StoreInv, Remembered, Paged, Open

LEMMA StoreStutters == StoreInv /\ UNCHANGED vars => StoreInv'
BY DEF MayWrite, vars, StoreInv, Counted, Ids, IsDisk, Remembered, Left, Paged, Open, IsClient, Seated,
       Durable, InLockstep

LEMMA StoreNext == StoreInv /\ [Next]_vars => StoreInv'
BY Steps, VerbKeepsStore, WriteKeepsStore, GoneKeepsStore, OpenedKeepsStore, StoreStutters

THEOREM Stores == Spec => []StoreInv
<1>1. Init => StoreInv
  BY StoreInit
<1>2. StoreInv /\ [Next]_vars => StoreInv'
  BY StoreNext
<1> QED
  BY <1>1, <1>2, PTL DEF Spec

(* BrowserIdentity!TypeOK                                                   *)
LEMMA PropsOfBag ==
    ASSUME NEW props, IsBag(props, minted)
    PROVE  IsProps(props)
<1> SUFFICES ASSUME NEW key \in DOMAIN props
             PROVE  CASE key \in IdentityKeys -> props[key] \in Ids
                      [] key = IDENTITY_STATE -> props[key] \in {ANONYMOUS, IDENTIFIED}
                      [] key = GROUPS -> props[key] \subseteq GroupTypes
                      [] key = INITIAL_PROPS -> props[key] = "auto"
                      [] OTHER -> key \in SuperKeys /\ props[key] \in Values
  BY DEF IsProps
<1>1. key \in IdentityKeys \cup {IDENTITY_STATE, GROUPS, INITIAL_PROPS} \cup SuperKeys
  BY DEF IsBag, Keys
<1>2. CASE key \in IdentityKeys
  BY <1>2, KeysApart DEF IsBag, Ids
<1>3. CASE key = IDENTITY_STATE
  BY <1>3, KeysApart DEF IsBag
<1>4. CASE key = GROUPS
  BY <1>4, KeysApart DEF IsBag
<1>5. CASE key = INITIAL_PROPS
  BY <1>5, KeysApart DEF IsBag
<1>6. CASE key \in SuperKeys
  BY <1>6, KeysApart DEF IsBag
<1> QED
  BY <1>1, <1>2, <1>3, <1>4, <1>5, <1>6

LEMMA StoreTypes == StoreInv => TypeOK
<1> SUFFICES ASSUME StoreInv PROVE TypeOK
  OBVIOUS
<1>1. \A site \in Sites : IsProps(disk.local[site])
  BY PropsOfBag DEF StoreInv, IsDisk, IsEntry
<1>2. ASSUME NEW jar \in Jars
      PROVE  /\ IsProps(disk.cookie[jar])
             /\ kept[jar] # None => kept[jar].site \in Sites /\ IsProps(kept[jar].props)
  BY PropsOfBag, JarsOfSites DEF StoreInv, IsDisk, IsEntry, Remembered, Left, Counted
<1>3. ASSUME NEW p \in Pages, Open(p)
      PROVE  /\ page[p].site \in web.sites
             /\ page[p].kind \in Backends
             /\ IsProps(page[p].props)
             /\ page[p].saveDue \in BOOLEAN /\ page[p].optedOut \in BOOLEAN
             /\ page[p].props[DISTINCT_ID] = page[p].distinctId
             /\ page[p].props[IDENTITY_STATE] = page[p].state
             /\ Has(page[p].props, DEVICE_ID)
  <2>1. IsClient(page[p], minted) /\ IsProps(page[p].props)
    BY <1>3, Clienthood, PropsOfBag
  <2> QED
    BY <2>1 DEF IsClient, Seated, Clients, InLockstep, Whole, Has
<1> QED
  BY <1>1, <1>2, <1>3 DEF TypeOK, StoreInv, Counted

(* What a page stores of its identity is what it caches, whatever was       *)
(* stored, given and called before (BrowserIdentity!TypeOK).                *)
THEOREM IdentityInLockstep == Spec => []TypeOK
BY Stores, StoreTypes, PTL

(* No event of an open page puts the library's keys on the wire, nor drops  *)
(* a registered property; its memberships are the client's, or those the    *)
(* event names itself (BrowserIdentity!WireKeepsApart).                     *)
THEOREM WireApart == Spec => []WireKeepsApart
<1>1. StoreInv => WireKeepsApart
  BY KeepsApart DEF StoreInv
<1> QED
  BY <1>1, Stores, PTL

(* BrowserIdentity!OnlyGrantOrOptInReachDisk                                *)
LEMMA GrantedStep ==
    ASSUME StoreInv, [Next]_vars, NEW p \in Pages, page'[p] # page[p],
           ~MayWrite(IF Open(p)' THEN page'[p] ELSE page[p])
    PROVE  disk' = disk
<1>1. PICK q \in Pages : Opened(q) \/ Verb(q) \/ Write(q) \/ Gone(q)
  BY Steps DEF vars
<1>2. page = [r \in Pages |-> page[r]]
  BY DEF StoreInv, Paged
<1>3. CASE Opened(q) \/ Verb(q)
  BY <1>3 DEF Opened, Verb
<1>4. CASE Write(q)
  <2>1. q = p
    BY <1>2, <1>4 DEF Write
  <2>2. IsClient(page'[p], minted')
    BY <1>4, <2>1 DEF Write
  <2>3. page'[p] # None
    BY <2>2, IdentityBounds DEF IsClient, Seated
  <2> QED
    BY <1>4, <2>1, <2>2, <2>3 DEF Write, Open, IsClient, Seated
<1>5. CASE Gone(q)
  <2>1. q = p /\ page'[p] = None
    BY <1>2, <1>5 DEF Gone
  <2>2. Seated(page[p], minted) /\ ~MayWrite(page[p])
    BY <1>5, <2>1, Clienthood DEF Gone, Open
  <2> QED
    BY <1>5, <2>1, <2>2 DEF Gone, Seated
<1> QED
  BY <1>1, <1>3, <1>4, <1>5

(* What outlives the page changes by a granted page alone, or, under the    *)
(* browser's signal, by a page on which optIn() was called                  *)
(* (BrowserIdentity!OnlyGrantOrOptInReachDisk).                             *)
THEOREM NothingKeptUnasked == Spec => OnlyGrantOrOptInReachDisk
<1> DEFINE Guarded == \A p \in Pages :
              (page'[p] # page[p] /\ ~MayWrite(IF Open(p)' THEN page'[p] ELSE page[p])) => disk' = disk
<1>1. StoreInv /\ [Next]_vars => [Guarded]_vars
  BY GrantedStep
<1>2. Spec => [][Guarded]_vars
  BY <1>1, Stores, PTL DEF Spec
<1> QED
  BY <1>2 DEF OnlyGrantOrOptInReachDisk

---------------------------------------------------------------------------
(* What is saved: a jar that nothing writes to stays as it was left.        *)
LEMMA JarStays ==
    ASSUME StoreInv, web' = web, NEW jar \in Jars, kept'[jar] = kept[jar], JarSaved(jar),
           disk' = disk \/ \E site \in Sites : Elsewhere(site, disk, disk') /\ jar # Jar(site, web)
    PROVE  JarSaved(jar)'
<1>1. CASE disk' = disk
  BY <1>1 DEF JarSaved, Untouched, InSync, Durable
<1>2. CASE disk' # disk
  <2>1. PICK site \in Sites : Elsewhere(site, disk, disk') /\ jar # Jar(site, web)
    BY <1>2
  <2>2. web.sites \subseteq Sites
    BY JarsOfSites DEF StoreInv, Counted
  <2>3. /\ disk'.cookie[jar] = disk.cookie[jar]
        /\ \A other \in web.sites : Jar(other, web) = jar => disk'.local[other] = disk.local[other]
    BY <2>1, <2>2 DEF Elsewhere
  <2>4. CASE kept[jar] = None
    BY <2>3, <2>4 DEF JarSaved, Untouched
  <2>5. CASE kept[jar] # None
    <3> DEFINE site0 == kept[jar].site
    <3>1. site0 \in web.sites /\ Jar(site0, web) = jar /\ InSync(disk, site0, kept[jar].props)
      BY <2>5 DEF StoreInv, Remembered, Left, JarSaved
    <3>2. disk'.local[site0] = disk.local[site0]
      BY <2>3, <3>1
    <3>3. InSync(disk, site0, kept[jar].props)'
      BY <2>3, <3>1, <3>2 DEF InSync, Durable, parse, localEntry, cookieEntry
    <3> QED
      BY <2>5, <3>1, <3>3 DEF JarSaved
  <2> QED
    BY <2>4, <2>5
<1> QED
  BY <1>1, <1>2

LEMMA SavedStep ==
    ASSUME StoreInv, NEW p \in Pages, web' = web, kept' = kept,
           page'[p] # None, \A q \in Pages : page'[q] # None => q = p,
           \/ page'[p].kind = memoryBackend
           \/ page'[p].saveDue
           \/ InSync(disk', page'[p].site, page'[p].props),
           \A jar \in Jars : page'[p].kind = memoryBackend \/ Jar(page'[p].site, web) # jar =>
              /\ JarSaved(jar)
              /\ disk' = disk \/ \E site \in Sites : Elsewhere(site, disk, disk') /\ jar # Jar(site, web)
    PROVE  OnePage' /\ PageSaved' /\ \A jar \in Jars : ~Held(jar)' => JarSaved(jar)'
<1>1. OnePage'
  BY DEF OnePage, Open
<1>2. PageSaved'
  BY DEF PageSaved, Backed, Open, InSync, Durable
<1>3. ASSUME NEW jar \in Jars, ~Held(jar)'
      PROVE  JarSaved(jar)'
  <2>1. page'[p].kind = memoryBackend \/ Jar(page'[p].site, web) # jar
    BY <1>3 DEF Held, Backed, Open
  <2> QED
    BY <2>1, JarStays
<1> QED
  BY <1>1, <1>2, <1>3

(* What a granted page reads is what was left in its jar.                   *)
LEMMA ReadBack ==
    ASSUME StoreInv, NEW bare, Seated(bare, minted), IsEntry(bare.props, minted),
           bare.props = parse(bare.kind, bare.site, web, disk), bare.kind # memoryBackend,
           ~Outdated(bare), JarSaved(Jar(bare.site, web))
    PROVE  LET left == kept[Jar(bare.site, web)]
           IN  /\ left = None => ~Whole(bare.props)
               /\ left # None =>
                     /\ Whole(bare.props) /\ Left(left, minted)
                     /\ InSync(disk, bare.site, bare.props)
                     /\ cookieMirror(bare.props) = cookieMirror(left.props)
                     /\ left.site = bare.site => bare.props = left.props
<1> DEFINE jar == Jar(bare.site, web)
           left == kept[jar]
           jarred == disk.cookie[jar]
           here == disk.local[bare.site]
<1>1. /\ bare.kind = Durable /\ bare.site \in web.sites /\ bare.site \in Sites /\ jar \in Jars
      /\ web \in Webs /\ Durable \in Backends
  BY JarsOfSites, Durables DEF Seated, StoreInv, Counted
<1>2. IsEntry(jarred, minted) /\ IsEntry(here, minted)
  BY <1>1 DEF StoreInv, IsDisk
<1>3. bare.props = IF Durable = cookieBackend THEN jarred ELSE here @@ jarred
  BY <1>1, Durables DEF parse, localEntry, cookieEntry, Backends
<1>4. here = Empty => here @@ jarred = jarred
  <2> SUFFICES ASSUME here = Empty PROVE here @@ jarred = jarred
    OBVIOUS
  <2> HIDE DEF here, jarred
  <2> DEFINE both == here @@ jarred
  <2>1. IsBag(both, minted) /\ IsBag(jarred, minted)
    BY <1>2, OverBag DEF IsEntry
  <2>2. DOMAIN both = DOMAIN jarred /\ \A key \in DOMAIN both : both[key] = jarred[key]
    BY NoKeys DEF @@
  <2> HIDE DEF both
  <2>3. both = jarred
    BY <2>1, <2>2, EqualBags
  <2> QED
    BY <2>3 DEF both
<1>5. CASE left = None
  <2>1. jarred = Empty /\ here = Empty
    BY <1>1, <1>5 DEF JarSaved, Untouched
  <2>2. bare.props = Empty
    BY <1>3, <1>4, <2>1
  <2> QED
    BY <1>5, <2>2, NoKeys
<1>6. CASE left # None
  <2>1. /\ Left(left, minted) /\ Jar(left.site, web) = jar
        /\ parse(Durable, left.site, web, disk) = left.props
        /\ cookieMirror(jarred) = cookieMirror(left.props)
    BY <1>1, <1>6 DEF JarSaved, StoreInv, Remembered, InSync
  <2>2. Whole(cookieMirror(left.props)) /\ IsBag(left.props, minted) /\ Whole(left.props)
    BY <2>1, IdentityHalf DEF Left
  <2>3. CASE left.site = bare.site
    <3>1. bare.props = left.props
      BY <1>1, <2>1, <2>3
    <3> QED
      BY <1>1, <1>6, <2>1, <2>2, <3>1 DEF InSync
  <2>4. CASE left.site # bare.site
    <3>1. Durable = localStoragePlusCookie => here = Empty
      BY <1>1, <1>6, <2>4 DEF Outdated, localStoragePlusCookie
    <3>2. bare.props = jarred
      BY <1>1, <1>3, <1>4, <3>1, Durables DEF Backends
    <3>3. Whole(jarred)
      BY <2>1, <2>2 DEF Whole, cookieMirror, Only
    <3> QED
      BY <1>1, <1>6, <2>1, <2>4, <3>2, <3>3 DEF InSync
  <2> QED
    BY <2>3, <2>4
<1> QED
  BY <1>5, <1>6

LEMMA OneOpen ==
    ASSUME StoreInv, SavedInv, orderly, NEW p \in Pages, Open(p)
    PROVE  /\ \A q \in Pages : Open(q) => q = p
           /\ page[p].kind # memoryBackend /\ ~page[p].saveDue => InSync(disk, page[p].site, page[p].props)
           /\ \A jar \in Jars : page[p].kind = memoryBackend \/ Jar(page[p].site, web) # jar =>
                 ~Held(jar) /\ JarSaved(jar)
<1>1. \A q \in Pages : Open(q) => q = p
  BY DEF SavedInv, OnePage
<1>2. page[p].kind # memoryBackend /\ ~page[p].saveDue => InSync(disk, page[p].site, page[p].props)
  BY DEF SavedInv, PageSaved, Backed
<1>3. \A jar \in Jars : page[p].kind = memoryBackend \/ Jar(page[p].site, web) # jar => ~Held(jar)
  BY <1>1 DEF Held, Backed
<1> QED
  BY <1>1, <1>2, <1>3 DEF SavedInv

LEMMA NoneButOne ==
    ASSUME StoreInv, NEW p \in Pages, page' = [page EXCEPT ![p] = page'[p]],
           \A q \in Pages : Open(q) => q = p
    PROVE  \A q \in Pages : page'[q] # None => q = p
BY DEF StoreInv, Paged, Open

LEMMA ClientThere ==
    ASSUME NEW n, NEW client, IsClient(client, n)
    PROVE  client # None
BY IdentityBounds DEF IsClient, Seated

LEMMA VerbKeepsSaved ==
    ASSUME StoreInv, SavedInv, NEW p \in Pages, Verb(p)
    PROVE  SavedInv'
<1> SUFFICES ASSUME orderly PROVE OnePage' /\ PageSaved' /\ \A jar \in Jars : ~Held(jar)' => JarSaved(jar)'
  BY DEF SavedInv, Verb
<1>1. /\ Open(p) /\ page'[p] # None /\ web' = web /\ kept' = kept /\ disk' = disk
      /\ page'[p].site = page[p].site /\ page'[p].kind = page[p].kind
      /\ page[p].saveDue => page'[p].saveDue
      /\ page'[p].props = page[p].props \/ page'[p].saveDue
  BY ClientThere DEF Verb, Serves
<1>2. \A q \in Pages : page'[q] # None => q = p
  BY <1>1, OneOpen, NoneButOne DEF Verb
<1> QED
  BY <1>1, <1>2, OneOpen, SavedStep

LEMMA WriteKeepsSaved ==
    ASSUME StoreInv, SavedInv, NEW p \in Pages, Write(p)
    PROVE  SavedInv'
<1> SUFFICES ASSUME orderly PROVE OnePage' /\ PageSaved' /\ \A jar \in Jars : ~Held(jar)' => JarSaved(jar)'
  BY DEF SavedInv, Write
<1>1. /\ Open(p) /\ page'[p] # None /\ web' = web /\ kept' = kept
      /\ page'[p].site = page[p].site /\ page[p].site \in Sites
      /\ page'[p].kind = memoryBackend => page[p].kind = memoryBackend /\ disk' = disk
      /\ \/ page'[p].kind = memoryBackend \/ page'[p].saveDue
         \/ InSync(disk', page'[p].site, page'[p].props)
      /\ Elsewhere(page[p].site, disk, disk')
  BY ClientThere, Clienthood DEF Write
<1>2. \A q \in Pages : page'[q] # None => q = p
  BY <1>1, OneOpen, NoneButOne DEF Write
<1>3. ASSUME NEW jar \in Jars, page'[p].kind = memoryBackend \/ Jar(page'[p].site, web) # jar
      PROVE  /\ JarSaved(jar)
             /\ disk' = disk \/ \E site \in Sites : Elsewhere(site, disk, disk') /\ jar # Jar(site, web)
  BY <1>1, <1>3, OneOpen
<1> QED
  BY <1>1, <1>2, <1>3, SavedStep

LEMMA OpenedKeepsSaved ==
    ASSUME StoreInv, SavedInv, NEW p \in Pages, Opened(p)
    PROVE  SavedInv'
<1> SUFFICES ASSUME orderly'
             PROVE  OnePage' /\ PageSaved' /\ \A jar \in Jars : ~Held(jar)' => JarSaved(jar)'
  BY DEF SavedInv
<1>1. PICK bare :
        /\ Seated(bare, minted) /\ IsEntry(bare.props, minted)
        /\ bare.props = parse(bare.kind, bare.site, web, disk)
        /\ page' = [page EXCEPT ![p] = page'[p]]
        /\ page'[p].site = bare.site /\ page'[p].kind = bare.kind
        /\ Whole(bare.props) => page'[p].props = bare.props
        /\ ~Whole(bare.props) => page'[p].saveDue
        /\ IsClient(page'[p], minted')
        /\ orderly /\ ~Outdated(bare) /\ \A q \in Pages : ~Open(q)
        /\ web' = web /\ disk' = disk /\ kept' = kept
  BY DEF Opened
<1>2. \A jar \in Jars : ~Held(jar) /\ JarSaved(jar)
  BY <1>1 DEF Held, Backed, SavedInv
<1>3. page'[p] # None /\ \A q \in Pages : page'[q] # None => q = p
  BY <1>1, ClientThere, NoneButOne
<1>4. ASSUME bare.kind # memoryBackend, Whole(bare.props)
      PROVE  InSync(disk, bare.site, bare.props)
  <2>1. bare.site \in Sites
    BY <1>1 DEF Seated, Clients
  <2>2. Jar(bare.site, web) \in Jars
    BY <2>1, JarsOfSites
  <2> QED
    BY <1>1, <1>2, <1>4, <2>2, ReadBack
<1> QED
  BY <1>1, <1>2, <1>3, <1>4, SavedStep

LEMMA GoneKeepsSaved ==
    ASSUME StoreInv, SavedInv, NEW p \in Pages, Gone(p)
    PROVE  SavedInv'
<1> SUFFICES ASSUME orderly'
             PROVE  OnePage' /\ PageSaved' /\ \A jar \in Jars : ~Held(jar)' => JarSaved(jar)'
  BY DEF SavedInv
<1> DEFINE left == [site |-> page[p].site, props |-> page[p].props]
<1>1. /\ Open(p) /\ orderly /\ page = [q \in Pages |-> page[q]] /\ kept = [jar \in Jars |-> kept[jar]]
      /\ web' = web /\ page[p].site \in Sites /\ Jar(page[p].site, web) \in Jars
  BY Clienthood, JarsOfSites DEF Gone, StoreInv, Paged, Remembered
<1> PICK here \in Jars : here = Jar(page[p].site, web)
  BY <1>1
<1>2. \A q \in Pages : page'[q] = None
  BY <1>1, OneOpen DEF Gone, Open
<1>3. OnePage' /\ PageSaved'
  BY <1>2 DEF OnePage, PageSaved, Backed, Open
<1>4. CASE page[p].kind = memoryBackend
  <2>1. disk' = disk /\ kept' = kept /\ \A jar \in Jars : JarSaved(jar)
    BY <1>1, <1>4, OneOpen DEF Gone
  <2> QED
    BY <1>1, <1>3, <2>1, JarStays
<1>5. CASE page[p].kind # memoryBackend
  <2>1. /\ Elsewhere(page[p].site, disk, disk') /\ kept' = [kept EXCEPT ![here] = left]
        /\ InSync(disk', page[p].site, page[p].props)
    BY <1>1, <1>5, OneOpen DEF Gone
  <2>2. kept'[here] = left /\ \A jar \in Jars : jar # here => kept'[jar] = kept[jar]
    BY <1>1, <2>1
  <2>3. left # None
    <3>1. page[p].props \in Bags
      BY <1>1, Clienthood DEF Seated, Clients
    <3> QED
      BY <1>1, <3>1, IdentityBounds
  <2>4. JarSaved(here)'
    <3>1. left.site = page[p].site /\ left.props = page[p].props
      OBVIOUS
    <3> HIDE DEF left
    <3> QED
      BY <1>1, <2>1, <2>2, <2>3, <3>1 DEF JarSaved, InSync, Durable
  <2>5. ASSUME NEW jar \in Jars, jar # here
        PROVE  JarSaved(jar)'
    <3>1. JarSaved(jar) /\ kept'[jar] = kept[jar]
      BY <1>1, <2>2, <2>5, OneOpen
    <3> QED
      BY <1>1, <2>1, <2>5, <3>1, JarStays
  <2> QED
    BY <1>3, <2>4, <2>5
<1> QED
  BY <1>4, <1>5

LEMMA SavedInit == Init => SavedInv
BY JarsOfSites, IdentityBounds DEF Init, SavedInv, OnePage, PageSaved, Backed, Held, Open, JarSaved, Untouched

LEMMA SavedStutters == SavedInv /\ UNCHANGED vars => SavedInv'
BY DEF vars, SavedInv, OnePage, PageSaved, Backed, Held, Open, JarSaved, Untouched, InSync, Durable

LEMMA SavedNext == StoreInv /\ SavedInv /\ [Next]_vars => SavedInv'
BY Steps, VerbKeepsSaved, WriteKeepsSaved, GoneKeepsSaved, OpenedKeepsSaved, SavedStutters

(* BrowserIdentity!ReloadKeepsIdentity                                      *)
LEMMA ReloadStep ==
    ASSUME StoreInv, SavedInv, [Next]_vars, NEW p \in Pages,
           ~Open(p), Open(p)', page'[p].kind # "memory", orderly',
           kept[Jar(page'[p].site, web)] # None
    PROVE  LET left == kept[Jar(page'[p].site, web)]
           IN  IF left.site = page'[p].site THEN page'[p].props = left.props
               ELSE Only(page'[p].props, COOKIE_MIRRORED_KEYS) = Only(left.props, COOKIE_MIRRORED_KEYS)
<1>1. page = [q \in Pages |-> page[q]]
  BY DEF StoreInv, Paged
<1>2. PICK q \in Pages : Opened(q) \/ Verb(q) \/ Write(q) \/ Gone(q)
  BY Steps DEF vars, Open
<1>3. Opened(p)
  <2>1. CASE Opened(q)
    BY <1>1, <2>1 DEF Opened, Open
  <2>2. CASE Verb(q) \/ Write(q)
    BY <1>1, <2>2 DEF Verb, Write, Open
  <2>3. CASE Gone(q)
    BY <1>1, <2>3 DEF Gone, Open
  <2> QED
    BY <1>2, <2>1, <2>2, <2>3
<1>4. PICK bare :
        /\ Seated(bare, minted) /\ IsEntry(bare.props, minted)
        /\ bare.props = parse(bare.kind, bare.site, web, disk)
        /\ page'[p].site = bare.site /\ page'[p].kind = bare.kind
        /\ Whole(bare.props) => page'[p].props = bare.props
        /\ orderly /\ ~Outdated(bare) /\ \A r \in Pages : ~Open(r)
  BY <1>3 DEF Opened
<1>5. Jar(bare.site, web) \in Jars
  BY <1>4, JarsOfSites DEF Seated, Clients
<1>6. JarSaved(Jar(bare.site, web))
  BY <1>4, <1>5 DEF SavedInv, Held, Backed
<1> DEFINE left == kept[Jar(bare.site, web)]
<1>7. /\ Whole(bare.props) /\ cookieMirror(bare.props) = cookieMirror(left.props)
      /\ left.site = bare.site => bare.props = left.props
  BY <1>4, <1>6, ReadBack DEF memoryBackend
<1> QED
  BY <1>4, <1>7 DEF cookieMirror

(* An orderly reload goes on with what was left                             *)
(* (BrowserIdentity!ReloadKeepsIdentity).                                   *)
THEOREM ReloadLosesNothing == Spec => ReloadKeepsIdentity
<1> DEFINE Reloaded == \A p \in Pages : (~Open(p) /\ Open(p)' /\ page'[p].kind # "memory" /\ orderly') =>
              LET left == kept[Jar(page'[p].site, web)] IN
              left # None =>
                  IF left.site = page'[p].site THEN page'[p].props = left.props
                  ELSE Only(page'[p].props, COOKIE_MIRRORED_KEYS) = Only(left.props, COOKIE_MIRRORED_KEYS)
<1>1. Init => StoreInv /\ SavedInv
  BY StoreInit, SavedInit
<1>2. StoreInv /\ SavedInv /\ [Next]_vars => StoreInv' /\ SavedInv'
  BY StoreNext, SavedNext
<1>3. StoreInv /\ SavedInv /\ [Next]_vars => [Reloaded]_vars
  BY ReloadStep
<1>4. Spec => [][Reloaded]_vars
  BY <1>1, <1>2, <1>3, PTL DEF Spec
<1> QED
  BY <1>4 DEF ReloadKeepsIdentity

---------------------------------------------------------------------------
(* One user for an anonymous visitor.                                       *)
LEMMA JarsShrink ==
    ASSUME StoreInv, NEW p \in Pages, Open(p) \/ \A q \in Pages : ~Open(q), web' = web, kept' = kept,
           page' = [page EXCEPT ![p] = page'[p]], page'[p] # None,
           Backed(p) => page'[p].kind # memoryBackend /\ page'[p].site = page[p].site,
           NEW jar \in Jars, AnonymousJar(jar)'
    PROVE  /\ AnonymousJar(jar) /\ Visitor(jar)' = Visitor(jar)
           /\ page'[p].kind # memoryBackend => Jar(page'[p].site, web) # jar
<1>1. page = [q \in Pages |-> page[q]]
  BY DEF StoreInv, Paged
<1>2. ~Held(jar)' /\ kept[jar] # None /\ kept[jar].props[IDENTITY_STATE] = ANONYMOUS
  BY DEF AnonymousJar
<1>3. \A q \in Pages : Open(q) /\ page[q].kind # memoryBackend =>
         page'[q] # None /\ page'[q].kind # memoryBackend /\ page'[q].site = page[q].site
  BY <1>1 DEF Backed, Open
<1>4. \A q \in Pages : page'[q] # None /\ page'[q].kind # memoryBackend => Jar(page'[q].site, web) # jar
  BY <1>2 DEF Held, Backed, Open
<1>5. ~Held(jar)
  BY <1>3, <1>4 DEF Held, Backed
<1> QED
  BY <1>2, <1>4, <1>5 DEF AnonymousJar, Visitor

LEMMA Prior ==
    ASSUME VisitorInv, orderly
    PROVE  /\ LinksOnce
           /\ \A p \in Pages : AnonymousPage(p) => Unlinked(page[p].distinctId)
           /\ \A jar \in Jars : AnonymousJar(jar) => Unlinked(Visitor(jar))
           /\ \A p \in Pages, jar \in Jars :
                 AnonymousPage(p) /\ AnonymousJar(jar) => page[p].distinctId # Visitor(jar)
           /\ \A jar, other \in Jars :
                 AnonymousJar(jar) /\ AnonymousJar(other) /\ jar # other => Visitor(jar) # Visitor(other)
BY DEF VisitorInv

(* One page is open after the step, and the jars are as they were.          *)
LEMMA VisitorStep ==
    ASSUME StoreInv, VisitorInv, orderly, NEW p \in Pages, minted' \in Nat, minted <= minted',
           \A q \in Pages : page'[q] # None => q = p,
           \A jar \in Jars : AnonymousJar(jar)' =>
              /\ AnonymousJar(jar) /\ Visitor(jar)' = Visitor(jar)
              /\ \A link \in links' : link[1] # Visitor(jar)
              /\ page'[p].state = ANONYMOUS => page'[p].distinctId # Visitor(jar),
           \A one, other \in links' : one[1] = other[1] => one = other,
           \A link \in links' : link[1] \in 1..minted',
           page'[p].state = ANONYMOUS =>
              page'[p].distinctId \in 1..minted' /\ \A link \in links' : link[1] # page'[p].distinctId
    PROVE  VisitorInv'
<1>1. LinksOnce'
  BY DEF LinksOnce
<1>2. \A q \in Pages : AnonymousPage(q)' => q = p /\ page'[p].state = ANONYMOUS
  BY DEF AnonymousPage, Open
<1>3. \A q \in Pages : AnonymousPage(q)' => Unlinked(page[q].distinctId)'
  BY <1>2 DEF Unlinked
<1>4. \A jar \in Jars : AnonymousJar(jar)' => Unlinked(Visitor(jar))'
  <2>1. minted \in Nat /\ \A jar \in Jars : AnonymousJar(jar) => Visitor(jar) \in 1..minted
    BY Prior, IdentityBounds DEF Unlinked, StoreInv, Counted
  <2>2. \A jar \in Jars : AnonymousJar(jar)' => Visitor(jar)' \in 1..minted'
    BY <2>1
  <2> QED
    BY <2>2 DEF Unlinked
<1>5. \A q \in Pages, jar \in Jars :
         AnonymousPage(q)' /\ AnonymousJar(jar)' => page'[q].distinctId # Visitor(jar)'
  BY <1>2
<1>6. \A jar, other \in Jars :
         AnonymousJar(jar)' /\ AnonymousJar(other)' /\ jar # other => Visitor(jar)' # Visitor(other)'
  BY Prior
<1> QED
  BY <1>1, <1>3, <1>4, <1>5, <1>6 DEF VisitorInv

LEMMA VerbKeepsVisitor ==
    ASSUME StoreInv, SavedInv, VisitorInv, NEW p \in Pages, Verb(p)
    PROVE  VisitorInv'
<1>1. orderly' = orderly /\ minted' = minted /\ minted \in Nat
  BY IdentityBounds DEF Verb, StoreInv, Counted
<1>2. CASE ~orderly
  BY <1>1, <1>2 DEF VisitorInv
<1>3. CASE orderly
  <2>1. /\ Open(p) /\ page'[p] # None /\ web' = web /\ kept' = kept
        /\ page' = [page EXCEPT ![p] = page'[p]]
        /\ page'[p].site = page[p].site /\ page'[p].kind = page[p].kind
    BY ClientThere DEF Verb, Serves
  <2>2. \A q \in Pages : page'[q] # None => q = p
    BY <1>3, <2>1, OneOpen, NoneButOne
  <2>3. \A jar \in Jars : AnonymousJar(jar)' => AnonymousJar(jar) /\ Visitor(jar)' = Visitor(jar)
    BY <2>1, JarsShrink DEF Backed
  <2>4. /\ LinksOnce
        /\ page[p].state = ANONYMOUS =>
              /\ page[p].distinctId \in 1..minted /\ \A link \in links : link[1] # page[p].distinctId
              /\ \A jar \in Jars : AnonymousJar(jar) => page[p].distinctId # Visitor(jar)
        /\ \A jar \in Jars : AnonymousJar(jar) => \A link \in links : link[1] # Visitor(jar)
    BY <1>3, <2>1, Prior DEF AnonymousPage, Unlinked
  <2>5. CASE SameVisitor(page[p], page'[p]) /\ links' = links
    BY <1>1, <1>3, <2>2, <2>3, <2>4, <2>5, VisitorStep DEF SameVisitor, LinksOnce
  <2>6. CASE KnownNow(p)
    <3>1. page'[p].state # ANONYMOUS
      BY <2>6 DEF KnownNow, ANONYMOUS, IDENTIFIED
    <3>2. \/ links' = links
          \/ /\ page[p].state = ANONYMOUS
             /\ \E id \in Users : links' = links \cup {<<page[p].distinctId, id>>}
      BY <2>6 DEF KnownNow
    <3>3. /\ \A one, other \in links' : one[1] = other[1] => one = other
          /\ \A link \in links' : link[1] \in 1..minted
          /\ \A jar \in Jars : AnonymousJar(jar) => \A link \in links' : link[1] # Visitor(jar)
      <4>1. CASE links' = links
        BY <2>4, <4>1 DEF LinksOnce
      <4>2. CASE page[p].state = ANONYMOUS /\ \E id \in Users : links' = links \cup {<<page[p].distinctId, id>>}
        <5>1. PICK id \in Users : links' = links \cup {<<page[p].distinctId, id>>}
          BY <4>2
        <5>2. \A link \in links' : link \in links \/ link = <<page[p].distinctId, id>>
          BY <5>1
        <5> QED
          BY <2>4, <4>2, <5>2 DEF LinksOnce
      <4> QED
        BY <3>2, <4>1, <4>2
    <3> QED
      BY <1>1, <1>3, <2>2, <2>3, <3>1, <3>3, VisitorStep
  <2> QED
    BY <2>5, <2>6 DEF Verb
<1> QED
  BY <1>2, <1>3

LEMMA WriteKeepsVisitor ==
    ASSUME StoreInv, SavedInv, VisitorInv, NEW p \in Pages, Write(p)
    PROVE  VisitorInv'
<1>1. /\ orderly' = orderly /\ minted' \in Nat /\ minted <= minted' /\ minted \in Nat
      /\ links' = links
  BY IdentityBounds DEF Write, StoreInv, Counted
<1>2. CASE ~orderly
  BY <1>1, <1>2 DEF VisitorInv
<1>3. CASE orderly
  <2>1. /\ Open(p) /\ page'[p] # None /\ web' = web /\ kept' = kept
        /\ page' = [page EXCEPT ![p] = page'[p]]
        /\ page'[p].site = page[p].site
        /\ page[p].kind # memoryBackend => page'[p].kind # memoryBackend
    BY ClientThere DEF Write
  <2>2. \A q \in Pages : page'[q] # None => q = p
    BY <1>3, <2>1, OneOpen, NoneButOne
  <2>3. \A jar \in Jars : AnonymousJar(jar)' => AnonymousJar(jar) /\ Visitor(jar)' = Visitor(jar)
    BY <2>1, JarsShrink DEF Backed
  <2>4. /\ LinksOnce
        /\ page[p].state = ANONYMOUS =>
              /\ page[p].distinctId \in 1..minted /\ \A link \in links : link[1] # page[p].distinctId
              /\ \A jar \in Jars : AnonymousJar(jar) => page[p].distinctId # Visitor(jar)
        /\ \A jar \in Jars : AnonymousJar(jar) =>
              Visitor(jar) \in 1..minted /\ \A link \in links : link[1] # Visitor(jar)
    BY <1>3, <2>1, Prior DEF AnonymousPage, Unlinked
  <2>5. \A link \in links : link[1] \in 1..minted
    BY <2>4 DEF LinksOnce
  <2>6. page'[p].state = ANONYMOUS =>
           /\ page'[p].distinctId \in 1..minted' /\ \A link \in links : link[1] # page'[p].distinctId
           /\ \A jar \in Jars : AnonymousJar(jar) => page'[p].distinctId # Visitor(jar)
    <3>1. CASE SameVisitor(page[p], page'[p])
      BY <1>1, <2>4, <3>1 DEF SameVisitor
    <3>2. CASE page'[p].distinctId \in minted + 1..minted'
      <4>1. page'[p].distinctId \in 1..minted' /\ page'[p].distinctId \notin 1..minted
        BY <1>1, <3>2
      <4> QED
        BY <2>4, <2>5, <4>1
    <3> QED
      BY <3>1, <3>2 DEF Write
  <2>7. /\ \A one, other \in links' : one[1] = other[1] => one = other
        /\ \A link \in links' : link[1] \in 1..minted'
    BY <1>1, <2>4, <2>5 DEF LinksOnce
  <2> QED
    BY <1>1, <1>3, <2>2, <2>3, <2>4, <2>6, <2>7, VisitorStep
<1> QED
  BY <1>2, <1>3

LEMMA OpenedKeepsVisitor ==
    ASSUME StoreInv, SavedInv, VisitorInv, NEW p \in Pages, Opened(p)
    PROVE  VisitorInv'
<1>1. CASE ~orderly'
  BY <1>1 DEF VisitorInv
<1>2. CASE orderly'
  <2>1. PICK bare :
          /\ Seated(bare, minted) /\ IsEntry(bare.props, minted)
          /\ bare.props = parse(bare.kind, bare.site, web, disk)
          /\ page' = [page EXCEPT ![p] = page'[p]]
          /\ page'[p].site = bare.site /\ page'[p].kind = bare.kind
          /\ Whole(bare.props) =>
                /\ page'[p].distinctId = bare.props[DISTINCT_ID]
                /\ page'[p].state = bare.props[IDENTITY_STATE] /\ minted' = minted
          /\ ~Whole(bare.props) => page'[p].distinctId = minted + 2 /\ minted' = minted + 2
          /\ IsClient(page'[p], minted')
          /\ orderly /\ ~Outdated(bare) /\ \A q \in Pages : ~Open(q)
          /\ web' = web /\ disk' = disk /\ kept' = kept /\ links' = links
    BY <1>2 DEF Opened
  <2>2. minted \in Nat /\ minted' \in Nat /\ minted <= minted'
    BY <2>1, IdentityBounds DEF StoreInv, Counted
  <2>3. page'[p] # None /\ \A q \in Pages : page'[q] # None => q = p
    BY <2>1, ClientThere, NoneButOne
  <2>4. \A jar \in Jars : AnonymousJar(jar)' =>
           /\ AnonymousJar(jar) /\ Visitor(jar)' = Visitor(jar)
           /\ page'[p].kind # memoryBackend => Jar(page'[p].site, web) # jar
    BY <2>1, <2>3, JarsShrink DEF Backed
  <2>5. /\ LinksOnce
        /\ \A jar \in Jars : AnonymousJar(jar) =>
              Visitor(jar) \in 1..minted /\ \A link \in links : link[1] # Visitor(jar)
        /\ \A jar, other \in Jars :
              AnonymousJar(jar) /\ AnonymousJar(other) /\ jar # other => Visitor(jar) # Visitor(other)
    BY <2>1, Prior DEF Unlinked
  <2>6. \A link \in links : link[1] \in 1..minted
    BY <2>5 DEF LinksOnce
  <2>7. /\ \A one, other \in links' : one[1] = other[1] => one = other
        /\ \A link \in links' : link[1] \in 1..minted'
    BY <2>1, <2>2, <2>5, <2>6 DEF LinksOnce
  <2>8. CASE ~Whole(bare.props)
    <3>1. page'[p].distinctId \in 1..minted' /\ page'[p].distinctId \notin 1..minted
      BY <2>1, <2>2, <2>8
    <3> QED
      BY <2>1, <2>2, <2>3, <2>4, <2>5, <2>6, <2>7, <3>1, VisitorStep
  <2>9. CASE Whole(bare.props)
    <3>1. bare.kind # memoryBackend
      <4>1. CASE bare.kind = memoryBackend
        <5>1. bare.props = Empty
          BY <2>1, <4>1, Durables DEF parse, StoreInv, Counted
        <5> QED
          BY <2>9, <5>1, NoKeys
      <4> QED
        BY <4>1
    <3>2. PICK jar \in Jars : jar = Jar(bare.site, web)
      BY <2>1, JarsOfSites DEF Seated, Clients
    <3>3. ~Held(jar) /\ JarSaved(jar)
      BY <2>1 DEF SavedInv, Held, Backed
    <3>4. /\ kept[jar] # None /\ Left(kept[jar], minted)
          /\ cookieMirror(bare.props) = cookieMirror(kept[jar].props)
      BY <2>1, <2>9, <3>1, <3>2, <3>3, ReadBack
    <3>5. /\ bare.props[DISTINCT_ID] = Visitor(jar)
          /\ bare.props[IDENTITY_STATE] = kept[jar].props[IDENTITY_STATE]
      <4>1. \A key \in {DISTINCT_ID, IDENTITY_STATE} :
               /\ cookieMirror(bare.props)[key] = bare.props[key]
               /\ cookieMirror(kept[jar].props)[key] = kept[jar].props[key]
        BY <2>9, <3>4 DEF cookieMirror, Only, COOKIE_MIRRORED_KEYS, Whole, Left
      <4> QED
        BY <3>4, <4>1 DEF Visitor
    <3>6. page'[p].state = ANONYMOUS => AnonymousJar(jar) /\ page'[p].distinctId = Visitor(jar)
      BY <2>1, <2>9, <3>3, <3>4, <3>5 DEF AnonymousJar
    <3>7. page'[p].state = ANONYMOUS =>
             /\ page'[p].distinctId \in 1..minted' /\ \A link \in links' : link[1] # page'[p].distinctId
             /\ \A other \in Jars : AnonymousJar(other)' => page'[p].distinctId # Visitor(other)
      BY <2>1, <2>4, <2>5, <2>9, <3>1, <3>2, <3>6
    <3> QED
      BY <2>1, <2>2, <2>3, <2>4, <2>5, <2>7, <3>7, VisitorStep
  <2> QED
    BY <2>8, <2>9
<1> QED
  BY <1>1, <1>2

LEMMA GoneKeepsVisitor ==
    ASSUME StoreInv, SavedInv, VisitorInv, NEW p \in Pages, Gone(p)
    PROVE  VisitorInv'
<1>1. CASE ~orderly'
  BY <1>1 DEF VisitorInv
<1>2. CASE orderly'
  <2>1. /\ Open(p) /\ orderly /\ page = [q \in Pages |-> page[q]] /\ kept = [jar \in Jars |-> kept[jar]]
        /\ web' = web /\ minted' = minted /\ links' = links
        /\ IsClient(page[p], minted) /\ page[p].site \in Sites
    BY <1>2, Clienthood DEF Gone, StoreInv, Paged, Remembered
  <2>2. PICK here \in Jars : here = Jar(page[p].site, web)
    BY <2>1, JarsOfSites
  <2>3. \A q \in Pages : page'[q] = None
    BY <2>1, OneOpen DEF Gone, Open
  <2>4. \A q \in Pages : ~AnonymousPage(q)'
    BY <2>3 DEF AnonymousPage, Open
  <2>5. \A jar \in Jars : page[p].kind = memoryBackend \/ jar # here =>
           ~Held(jar) /\ kept'[jar] = kept[jar]
    BY <2>1, <2>2, OneOpen DEF Gone
  <2>6. \A jar \in Jars : (page[p].kind = memoryBackend \/ jar # here) /\ AnonymousJar(jar)' =>
           AnonymousJar(jar) /\ Visitor(jar)' = Visitor(jar)
    BY <2>5 DEF AnonymousJar, Visitor
  <2>7. page[p].kind # memoryBackend /\ AnonymousJar(here)' =>
           AnonymousPage(p) /\ Visitor(here)' = page[p].distinctId
    <3> SUFFICES ASSUME page[p].kind # memoryBackend, AnonymousJar(here)'
                 PROVE  AnonymousPage(p) /\ Visitor(here)' = page[p].distinctId
      OBVIOUS
    <3>1. kept'[here].props = page[p].props
      BY <2>1, <2>2 DEF Gone
    <3> QED
      BY <2>1, <3>1 DEF AnonymousJar, AnonymousPage, Visitor, IsClient, InLockstep
  <2>8. /\ LinksOnce
        /\ AnonymousPage(p) => Unlinked(page[p].distinctId)
        /\ \A jar \in Jars : AnonymousJar(jar) => Unlinked(Visitor(jar))
        /\ \A jar \in Jars : AnonymousPage(p) /\ AnonymousJar(jar) => page[p].distinctId # Visitor(jar)
        /\ \A jar, other \in Jars :
              AnonymousJar(jar) /\ AnonymousJar(other) /\ jar # other => Visitor(jar) # Visitor(other)
    BY <2>1, Prior
  <2>9. LinksOnce'
    BY <2>1, <2>8 DEF LinksOnce
  <2>10. \A jar \in Jars : AnonymousJar(jar)' =>
            \/ AnonymousJar(jar) /\ Visitor(jar)' = Visitor(jar)
            \/ jar = here /\ AnonymousPage(p) /\ Visitor(jar)' = page[p].distinctId
    BY <2>6, <2>7
  <2>11. \A jar \in Jars : AnonymousJar(jar)' => Unlinked(Visitor(jar))'
    BY <2>1, <2>8, <2>10 DEF Unlinked
  <2>12. \A jar, other \in Jars :
            AnonymousJar(jar)' /\ AnonymousJar(other)' /\ jar # other => Visitor(jar)' # Visitor(other)'
    BY <2>8, <2>10
  <2> QED
    BY <2>4, <2>9, <2>11, <2>12 DEF VisitorInv
<1> QED
  BY <1>1, <1>2

LEMMA VisitorInit == Init => VisitorInv
BY DEF Init, VisitorInv, LinksOnce, AnonymousPage, AnonymousJar, Open

LEMMA VisitorStutters == VisitorInv /\ UNCHANGED vars => VisitorInv'
BY DEF vars, VisitorInv, LinksOnce, AnonymousPage, AnonymousJar, Visitor, Unlinked, Open, Held, Backed

LEMMA VisitorNext == StoreInv /\ SavedInv /\ VisitorInv /\ [Next]_vars => VisitorInv'
BY Steps, VerbKeepsVisitor, WriteKeepsVisitor, GoneKeepsVisitor, OpenedKeepsVisitor, VisitorStutters

THEOREM Visitors == Spec => []IdentityInv
<1>1. Init => IdentityInv
  BY StoreInit, SavedInit, VisitorInit DEF IdentityInv
<1>2. IdentityInv /\ [Next]_vars => IdentityInv'
  BY StoreNext, SavedNext, VisitorNext DEF IdentityInv
<1> QED
  BY <1>1, <1>2, PTL DEF Spec

(* An anonymous visitor is merged into one user, and a merged one is nobody *)
(* any more (BrowserIdentity!OneUserPerAnonymousId).                        *)
THEOREM OneUserEach == Spec => []OneUserPerAnonymousId
<1>1. IdentityInv => OneUserPerAnonymousId
  <2> SUFFICES ASSUME IdentityInv, orderly
               PROVE  /\ \A one, other \in links : one[1] = other[1] => one = other
                      /\ \A link \in links : link[1] \notin Users
                      /\ \A p \in {q \in Pages : Open(q)} : page[p].state = ANONYMOUS =>
                            \A link \in links : link[1] # page[p].distinctId
    BY DEF OneUserPerAnonymousId
  <2>1. LinksOnce /\ \A p \in Pages : AnonymousPage(p) => Unlinked(page[p].distinctId)
    BY Prior DEF IdentityInv
  <2>2. \A link \in links : link[1] \notin Users
    <3>1. minted \in Nat
      BY IdentityBounds DEF IdentityInv, StoreInv, Counted
    <3> QED
      BY <2>1, <3>1, IdentityBounds DEF LinksOnce
  <2> QED
    BY <2>1, <2>2 DEF LinksOnce, AnonymousPage, Unlinked
<1> QED
  BY <1>1, Visitors, PTL
=============================================================================
