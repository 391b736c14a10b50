-------------------------- MODULE MCBrowserIdentity --------------------------
(***************************************************************************)
(* The instance of BrowserIdentity that TLC checks: two tabs over one site *)
(* with each backend, and over two sites that share a domain cookie.       *)
(***************************************************************************)
EXTENDS BrowserIdentity

T == INSTANCE TLC

Web(mode, local, shared, dnt, sites) ==
    [mode |-> mode, localStorage |-> local, crossSubdomain |-> shared,
     doNotTrack |-> dnt, sites |-> sites]

MCWebs ==
    {Web("localStorage+cookie", TRUE, TRUE, FALSE, {"app", "www"}),
     Web("localStorage+cookie", FALSE, TRUE, FALSE, {"app", "www"}),
     Web("localStorage+cookie", TRUE, FALSE, TRUE, {"app"}),
     Web("memory", TRUE, FALSE, FALSE, {"app"})}

(* A plain event, a page view, and events of a scoped view whose properties*)
(* have the name of a registered one, of the library's, the memberships' or*)
(* a reserved one.                                                         *)
Given(kind, properties, enrichment) ==
    [kind |-> kind, event |-> "checkout", properties |-> properties, enrichment |-> enrichment]

MCEvents ==
    {Given("track", Empty, {"page", "device", "referrer", "utm"}),
     Given("page", "plan" :> "free" @@ "__ak_secret" :> "x" @@ GROUPS :> {"y"}, {"page"}),
     Given("track", DISTINCT_ID :> "x" @@ TOKEN_WIRE :> "x" @@ GROUPS_WIRE :> {"x"}, {"disableGeoip"})}

(* The users differ only in name, and so do the tabs.                      *)
Symmetry == T!Permutations(Users) \cup T!Permutations(Pages)
=============================================================================
