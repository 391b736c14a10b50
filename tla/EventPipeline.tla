---------------------------- MODULE EventPipeline ----------------------------
(***************************************************************************)
(* What becomes of a neutral event between capture() and the queue: the    *)
(* properties the browser adapter merges into it, and the wire event the   *)
(* mapper makes of it.                                                     *)
(*                                                                         *)
(* An event is a record [kind, event, distinctId, properties, enrichment]; *)
(* kind is "track", "page" or the internal kind the adapter minted it with,*)
(* enrichment the toggles that are on for it.  One key stands for each     *)
(* source of library properties, and "auto" for what the library computes. *)
(***************************************************************************)
EXTENDS PropertyStore

SET_TRAITS == "set_traits"
SET_TRAITS_ONCE == "set_traits_once"
GROUPS_WIRE == "$groups"
GEOIP_DISABLE_WIRE == "$geoip_disable"
TOKEN_WIRE == "token"
INITIAL_PROPS == "initial_referrer"

(* The keys under the reserved prefix: the memberships and any other.      *)
ReservedKeys == {GROUPS, "__ak_secret"}

LEGACY_HIDDEN_KEYS == {DISTINCT_ID, DEVICE_ID, ANONYMOUS_DISTINCT_ID, IDENTITY_STATE}

\* Mutant of internalKeyPolicy: only the prefix hides a key.
internalKeyPolicy_NoLegacy(key) ==
    IF key = GROUPS THEN "event" ELSE IF key \in ReservedKeys THEN "hidden" ELSE "consumer"

internalKeyPolicy(key) ==
    CASE key = GROUPS -> "event"
      [] key \in (ReservedKeys \ {GROUPS}) \cup LEGACY_HIDDEN_KEYS -> "hidden"
      [] OTHER -> "consumer"

Without(bag, keys) == Only(bag, DOMAIN bag \ keys)

----------------------------------------------------------------------------
(* The capture pipeline: each stage supplies defaults, what the event has  *)
(* already stays.                                                          *)
WithDefaults(event, defaults) == [event EXCEPT !.properties = @ @@ defaults]

mergeSuperProperties(client, event) ==
    WithDefaults(event, Only(client.props, {k \in DOMAIN client.props : internalKeyPolicy(k) # "hidden"}))

(* One key for each toggled group of the context, one that is always there.*)
buildContext(enrichment) ==
    [key \in {"lib"} \cup
             (IF "page" \in enrichment THEN {"current_url"} ELSE {}) \cup
             (IF "device" \in enrichment THEN {"device_type"} ELSE {}) \cup
             (IF "referrer" \in enrichment THEN {"referrer"} ELSE {}) |-> "auto"]

enrichContext(event) == WithDefaults(event, buildContext(event.enrichment))

(* The campaign parameters of the page, and the session's entry.           *)
enrichAttribution(event) ==
    WithDefaults(event, [key \in {"session_entry_url"} \cup
        (IF "utm" \in event.enrichment THEN {"utm_source"} ELSE {}) |-> "auto"])

(* The store's share: the first event of an identity writes where it came  *)
(* from, once, before the super properties are read.                       *)
writeInitialProps(client) == registerOnce(client, INITIAL_PROPS :> "auto")

runCapturePipeline(client, event) ==
    enrichAttribution(enrichContext(mergeSuperProperties(writeInitialProps(client), event)))

----------------------------------------------------------------------------
(* The wire mapper.                                                        *)
wireEventName(event) ==
    CASE event.kind = "page" -> "$pageview"
      [] event.kind = "pageleave" -> "$pageleave"
      [] event.kind = "autocapture" -> "$autocapture"
      [] event.kind = "group_identify" -> "$groupidentify"
      [] OTHER -> event.event

(* The bags of traits of a merge event move out of its properties.         *)
Lifted(properties, key) == IF Has(properties, key) THEN properties[key] ELSE Empty

normalizeMergeEvent(wire, properties) ==
    [wire EXCEPT !.properties = Without(properties, {SET_TRAITS, SET_TRAITS_ONCE}),
                 !.set_traits = Lifted(properties, SET_TRAITS),
                 !.set_traits_once = Lifted(properties, SET_TRAITS_ONCE)]

(* Hidden reserved keys are dropped, the memberships renamed; a renamed    *)
(* value replaces a property of the same wire name.                        *)
applyInternalKeyPolicy(wire) ==
    LET bag == wire.properties
        rest == Without(bag, ReservedKeys)
        renamed == IF Has(bag, GROUPS) THEN GROUPS_WIRE :> bag[GROUPS] ELSE Empty
    IN  [wire EXCEPT !.properties = renamed @@ rest]

stampGeoipDisable(wire, disableGeoip) ==
    IF disableGeoip THEN [wire EXCEPT !.properties = GEOIP_DISABLE_WIRE :> "auto" @@ @] ELSE wire

stampToken(wire) == [wire EXCEPT !.properties = TOKEN_WIRE :> "auto" @@ @]

mapEventToWire(event) ==
    LET base == [event |-> wireEventName(event), distinct_id |-> event.distinctId,
                 properties |-> event.properties, set_traits |-> Empty, set_traits_once |-> Empty]
        mapped == IF event.kind = "merge" THEN normalizeMergeEvent(base, event.properties) ELSE base
    IN  stampToken(stampGeoipDisable(applyInternalKeyPolicy(mapped),
                                     "disableGeoip" \in event.enrichment))

toWireEvent(client, event) == mapEventToWire(runCapturePipeline(client, event))
=============================================================================
