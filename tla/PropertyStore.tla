---------------------------- MODULE PropertyStore ----------------------------
(***************************************************************************)
(* The browser's property store over its storage backends.                 *)
(*                                                                         *)
(* A page holds the properties of its client in memory (the truth for      *)
(* reads) and writes the whole of them to one backend, 250 ms after the    *)
(* first of a burst of changes.  A backend is the page's own memory, a     *)
(* cookie, or localStorage with the identity keys mirrored in a cookie;    *)
(* localStorage belongs to a site (an origin), a cookie to a jar: the site *)
(* or, when the cookie is given a domain, every site of that domain.       *)
(*                                                                         *)
(* A client is a record with (at least) the fields site, kind (of          *)
(* backend), props and saveDue (the debounce timer is armed); what outlives*)
(* the page is a disk [local, cookie].  An absent entry and an empty one   *)
(* read the same, so both are Empty.                                       *)
(***************************************************************************)
EXTENDS Naturals

CONSTANTS
    Sites,            \* the origins the library runs on
    SuperKeys,        \* the keys a consumer registers, none of them internal
    Values            \* their values

DEVICE_ID == "device_id"
DISTINCT_ID == "distinct_id"
ANONYMOUS_DISTINCT_ID == "anonymous_distinct_id"
IDENTITY_STATE == "identity_state"
GROUPS == "__ak_groups"

(* The session's own keys are left to SessionReplay: here a capture may    *)
(* change them, which is to say that it may arm the save.                  *)
COOKIE_MIRRORED_KEYS ==
    {DISTINCT_ID, DEVICE_ID, ANONYMOUS_DISTINCT_ID, IDENTITY_STATE}

(* Bags of properties: one of a single key, and one laid over another.      *)
key :> value == [k \in {key} |-> value]

over @@ under ==
    [k \in DOMAIN over \cup DOMAIN under |-> IF k \in DOMAIN over THEN over[k] ELSE under[k]]

Empty == [k \in {} |-> {}]

Only(props, keys) == [k \in DOMAIN props \cap keys |-> props[k]]

Has(props, key) == key \in DOMAIN props

(***************************************************************************)
(* The backends.  `web' is what the configuration and the browser provide: *)
(* [mode, localStorage (it passes its probe), crossSubdomain, ...].        *)
(***************************************************************************)
(* The domain a cookie is written for: none, so the jar of the site alone, *)
(* unless sharing across subdomains is configured.                         *)
Jar(site, web) == IF web.crossSubdomain THEN "domain" ELSE site

Jars == Sites \cup {"domain"}

cookieEntry(site, web, disk) == disk.cookie[Jar(site, web)]

setCookie(site, web, entry, disk) == [disk EXCEPT !.cookie[Jar(site, web)] = entry]

localEntry(site, disk) == disk.local[site]

setLocal(site, entry, disk) == [disk EXCEPT !.local[site] = entry]

(* The identity half, which a cookie shares with the sites of its jar.     *)
cookieMirror(props) == Only(props, COOKIE_MIRRORED_KEYS)

setMirror(site, web, props, disk) ==
    IF cookieMirror(props) = Empty THEN disk ELSE setCookie(site, web, cookieMirror(props), disk)

memoryBackend == "memory"
cookieBackend == "cookie"
localStoragePlusCookie == "localStorage+cookie"

(* Which of them a configured mode gets.                                   *)
buildPropsBackend(mode, web) ==
    CASE mode = "memory" -> memoryBackend
      [] mode = "cookie" -> cookieBackend
      [] mode = "localStorage+cookie" ->
            IF web.localStorage THEN localStoragePlusCookie ELSE cookieBackend

(* Reading: the memory of a new page is empty, and where both halves have  *)
(* a key localStorage wins.                                                *)
parse(kind, site, web, disk) ==
    CASE kind = memoryBackend -> Empty
      [] kind = cookieBackend -> cookieEntry(site, web, disk)
      [] kind = localStoragePlusCookie -> localEntry(site, disk) @@ cookieEntry(site, web, disk)

(* Writing: the whole of the properties.                                   *)
set(kind, site, web, props, disk) ==
    CASE kind = memoryBackend -> disk
      [] kind = cookieBackend -> setCookie(site, web, props, disk)
      [] kind = localStoragePlusCookie ->
            setMirror(site, web, props, setLocal(site, props, disk))

remove(kind, site, web, disk) ==
    CASE kind = memoryBackend -> disk
      [] kind = cookieBackend -> setCookie(site, web, Empty, disk)
      [] kind = localStoragePlusCookie ->
            setCookie(site, web, Empty, setLocal(site, Empty, disk))

(***************************************************************************)
(* The store's operations.  Those that only touch the page return the      *)
(* client; what reaches the disk is writeNow, remove or nothing.      *)
(***************************************************************************)
save(client) == [client EXCEPT !.saveDue = TRUE]

(* An equal value changes nothing and arms nothing.                        *)
register(client, new) ==
    IF new @@ client.props = client.props THEN client
    ELSE save([client EXCEPT !.props = new @@ client.props])

(* A key that is there keeps its first value.                              *)
registerOnce(client, new) == register(client, client.props @@ new)

unregister(client, key) ==
    IF Has(client.props, key)
    THEN save([client EXCEPT !.props = Only(client.props, DOMAIN client.props \ {key})])
    ELSE client

writeNow(client, web, disk) == set(client.kind, client.site, web, client.props, disk)

(* The page's share of clear(): the pending write is cancelled with it.    *)
cleared(client) == [client EXCEPT !.saveDue = FALSE, !.props = Empty]

(* The page's share of promoteBackend(), which then writes at once.        *)
promoted(client, kind) == [client EXCEPT !.saveDue = FALSE, !.kind = kind]
=============================================================================
