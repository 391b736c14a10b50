------------------------- MODULE BrowserFlagsProofs --------------------------
(***************************************************************************)
(* Proofs about the browser's flag client, for any callers, listeners,     *)
(* contexts and actors.                                                    *)
(*                                                                         *)
(* Refreshes that have not ended form a chain: each but the first waits    *)
(* for the one before it, only the first has been asked, and inFlight is   *)
(* the last.  So commits come in the order of the refreshes, and a forced  *)
(* evaluation, which started a refresh of its own, gets that one's flags.  *)
(***************************************************************************)
EXTENDS BrowserFlags, FiniteSetTheorems, TLAPS

Refresh ==
    [after : Nat, context : Actors \cup {None}, actor : Actors \cup {None},
     phase : {"chained", "asked", "done", "thrown"}]

Call ==
    [phase : {"idle", "settled", "rejected"}]
        \cup [phase : {"waiting"}, on : Nat, context : Contexts, forced : BOOLEAN, before : Nat]

Open(r) == refreshes[r].phase \in {"chained", "asked"}

(* The refreshes under way are a chain, and only its first is asked.       *)
Chain ==
    /\ \A r \in DOMAIN refreshes :
          refreshes[r].phase = "chained" => /\ r > 1 /\ refreshes[r].after = r - 1
                                            /\ Open(r - 1)
    /\ \A r, s \in DOMAIN refreshes : refreshes[r].phase = "asked" /\ Open(s) => r <= s
    /\ inFlight \in {0, Len(refreshes)}
    /\ inFlight = 0 => \A r \in DOMAIN refreshes : ~Open(r)
    /\ inFlight # 0 => Open(inFlight)

(* A spent refresh waits for none, and what is asked names its actor.      *)
Links ==
    \A r \in DOMAIN refreshes :
        /\ refreshes[r].after < r
        /\ ~Open(r) => refreshes[r].after = 0
        /\ refreshes[r].phase = "asked" <=> refreshes[r].actor # None
        /\ refreshes[r].phase = "asked" /\ refreshes[r].context # None =>
              refreshes[r].actor = refreshes[r].context

(* What the cache holds comes of a refresh older than any under way.       *)
CacheIsOlder ==
    cache # None => \A r \in DOMAIN refreshes : Open(r) => cache.by < r

(* An evaluation that waits, waits for a refresh under way: a forced one   *)
(* for a refresh that began after its call, and for its context.           *)
Waiting ==
    \A c \in Callers : calls[c].phase = "waiting" =>
        /\ calls[c].on \in DOMAIN refreshes /\ Open(calls[c].on)
        /\ calls[c].forced => /\ calls[c].on > calls[c].before
                              /\ refreshes[calls[c].on].context = calls[c].context

(* Whoever heard a commit heard the last, unless a listener threw.         *)
HeardLast ==
    (\A r \in DOMAIN refreshes : refreshes[r].phase # "thrown") =>
        \A l \in Range(listening) : heard[l] # None => heard[l] = currentSet(cache)

Typed ==
    /\ endpoint \in BOOLEAN /\ visitor \in Actors /\ switches \in 0..MaxSwitches
    /\ refreshes \in Seq(Refresh)
    /\ inFlight \in 0..Len(refreshes)
    /\ calls \in [Callers -> Call]
    /\ listening \in Seq(Listeners)
    /\ heard \in [Listeners -> Snapshots \cup {None}]
    /\ cache # None => IsSet(cache)
    /\ \A l \in Listeners : heard[l] # None => IsSet(heard[l])

FlagsInv == Typed /\ Chain /\ Links /\ CacheIsOlder /\ Waiting /\ HeardLast

----------------------------------------------------------------------------
(* A snapshot is not None, and what it says of itself is so.               *)
LEMMA SnapshotShape ==
    ASSUME NEW of \in Actors \cup {None}, NEW by \in 0..Len(refreshes), NEW degraded \in BOOLEAN,
           NEW reason \in {"unresolved", "bootstrap", "resolved", "stale"},
           Len(refreshes) \in Nat, degraded = (reason \in {"unresolved", "stale"})
    PROVE  /\ Snapshot(of, by, reason, degraded) # None
           /\ IsSet(Snapshot(of, by, reason, degraded))
<1>1. by \in Nat
  OBVIOUS
<1>2. Snapshot(of, by, reason, degraded) \in Snapshots
  BY <1>1 DEF Snapshot, Snapshots
<1>3. Snapshot(of, by, reason, degraded).degraded = degraded
      /\ Snapshot(of, by, reason, degraded).by = by
      /\ Snapshot(of, by, reason, degraded).reason = reason
  BY DEF Snapshot
<1>4. by <= Len(refreshes)
  OBVIOUS
<1>5. Snapshot(of, by, reason, degraded).by <= Len(refreshes)
  BY <1>3, <1>4
<1>6. Snapshot(of, by, reason, degraded).degraded
        = (Snapshot(of, by, reason, degraded).reason \in {"unresolved", "stale"})
  BY <1>3
<1> QED
  BY <1>2, <1>5, <1>6, FlagBounds DEF IsSet

LEMMA SettingUp == Init => FlagsInv
<1> SUFFICES ASSUME Init PROVE FlagsInv
  OBVIOUS
<1>1. refreshes = <<>> /\ Len(refreshes) = 0 /\ DOMAIN refreshes = {} /\ refreshes \in Seq(Refresh)
  BY DEF Init
<1>2. listening = <<>> /\ listening \in Seq(Listeners) /\ Range(listening) = {}
  BY DEF Init, Range
<1>3. calls \in [Callers -> Call] /\ \A c \in Callers : calls[c].phase = "idle"
  BY DEF Init, Call
<1>4. heard \in [Listeners -> Snapshots \cup {None}] /\ \A l \in Listeners : heard[l] = None
  BY DEF Init
<1>5. cache # None => IsSet(cache)
  <2>1. FALSE = ("bootstrap" \in {"unresolved", "stale"})
    OBVIOUS
  <2>2. 0 \in 0..Len(refreshes) /\ Len(refreshes) \in Nat
    BY <1>1
  <2>3. IsSet(Snapshot(None, 0, "bootstrap", FALSE))
    BY <2>1, <2>2, SnapshotShape
  <2> QED
    BY <2>3 DEF Init, seedBootstrap
<1>6. endpoint \in BOOLEAN /\ visitor \in Actors /\ switches \in 0..MaxSwitches /\ inFlight = 0
  BY FlagBounds DEF Init
<1>7. Typed
  BY <1>1, <1>2, <1>3, <1>4, <1>5, <1>6 DEF Typed
<1> QED
  BY <1>1, <1>2, <1>3, <1>6, <1>7 DEF FlagsInv, Chain, Links, CacheIsOlder, Waiting, HeardLast

----------------------------------------------------------------------------
(* A new refresh goes to the end of the chain, and the others stay.        *)
LEMMA Refreshing ==
    ASSUME Typed, Chain, Links, NEW context \in Contexts, NEW force \in BOOLEAN,
           refresh(context, force)
    PROVE  /\ refreshes' \in Seq(Refresh) /\ Len(refreshes') >= Len(refreshes)
           /\ \A r \in DOMAIN refreshes : r \in DOMAIN refreshes' /\ refreshes'[r] = refreshes[r]
           /\ \A r \in DOMAIN refreshes' \ DOMAIN refreshes :
                 r > Len(refreshes) /\ refreshes'[r].phase # "thrown"
           /\ inFlight' \in DOMAIN refreshes' /\ refreshes'[inFlight'].phase \in {"chained", "asked"}
           /\ force => /\ inFlight' > Len(refreshes)
                       /\ refreshes'[inFlight'].context = context
           /\ Chain' /\ Links'
<1>1. refreshes \in Seq(Refresh) /\ Len(refreshes) \in Nat /\ DOMAIN refreshes = 1..Len(refreshes)
      /\ inFlight \in 0..Len(refreshes)
  BY DEF Typed
<1>2. context \in Actors \cup {None} /\ visitor \in Actors
  BY FlagBounds DEF Typed
<1>3. CASE inFlight # 0 /\ ~force
  <2>1. refreshes' = refreshes /\ inFlight' = inFlight
    BY <1>3 DEF refresh
  <2>2. Chain' /\ Links'
    BY <2>1 DEF Chain, Links, Open
  <2>3. inFlight' \in DOMAIN refreshes' /\ refreshes'[inFlight'].phase \in {"chained", "asked"}
    <3>1. Open(inFlight)
      BY <1>3 DEF Chain
    <3>2. inFlight \in DOMAIN refreshes /\ refreshes[inFlight].phase \in {"chained", "asked"}
      BY <1>1, <1>3, <3>1 DEF Open
    <3> QED
      BY <2>1, <3>2
  <2> QED
    BY <1>1, <1>3, <2>1, <2>2, <2>3
<1>4. CASE inFlight = 0 \/ force
  <2> DEFINE new == refreshes'[Len(refreshes) + 1]
  <2>1. PICK x \in Refresh :
          /\ refreshes' = Append(refreshes, x) /\ inFlight' = Len(refreshes) + 1
          /\ x.context = context
          /\ IF inFlight # 0 THEN x.phase = "chained" /\ x.after = inFlight /\ x.actor = None
             ELSE /\ x.phase = "asked" /\ x.after = 0 /\ x.actor # None
                  /\ context # None => x.actor = context
    <3>1. CASE inFlight # 0
      <4>1. Asked(context, inFlight) \in Refresh
        BY <1>1, <1>2 DEF Asked, Refresh
      <4> QED
        BY <1>4, <3>1, <4>1 DEF refresh, Asked
    <3>2. CASE inFlight = 0
      <4> DEFINE y == fetchAndCommit(Asked(context, 0))
      <4>1. /\ y.after = 0 /\ y.context = context /\ y.phase = "asked"
            /\ y.actor = IF context # None THEN context ELSE visitor
        BY DEF fetchAndCommit, Asked, buildWireBody
      <4>2. y \in Refresh
        BY <1>2 DEF Refresh, fetchAndCommit, Asked, buildWireBody
      <4>3. refreshes' = Append(refreshes, y) /\ inFlight' = Len(refreshes) + 1
        BY <3>2 DEF refresh
      <4>4. y.actor # None
        BY <4>1, <1>2, FlagBounds
      <4> HIDE DEF y
      <4> QED
        BY <3>2, <4>1, <4>2, <4>3, <4>4
    <3> QED
      BY <3>1, <3>2
  <2>2. refreshes' \in Seq(Refresh) /\ Len(refreshes') = Len(refreshes) + 1
        /\ DOMAIN refreshes' = 1..Len(refreshes) + 1 /\ refreshes'[Len(refreshes) + 1] = x
        /\ \A r \in 1..Len(refreshes) : refreshes'[r] = refreshes[r]
    BY <1>1, <2>1
  <2>3. x.phase \in {"chained", "asked"} /\ inFlight' # 0
    BY <1>1, <2>1
  <2>4. Links'
    <3>1. SUFFICES ASSUME NEW r \in 1..Len(refreshes) + 1
                   PROVE  /\ refreshes'[r].after < r
                          /\ refreshes'[r].phase \notin {"chained", "asked"} => refreshes'[r].after = 0
                          /\ refreshes'[r].phase = "asked" <=> refreshes'[r].actor # None
                          /\ refreshes'[r].phase = "asked" /\ refreshes'[r].context # None =>
                                refreshes'[r].actor = refreshes'[r].context
      BY <2>2 DEF Links, Open
    <3>2. CASE r \in 1..Len(refreshes)
      BY <1>1, <2>2, <3>2 DEF Links, Open
    <3>3. CASE r = Len(refreshes) + 1
      BY <1>1, <2>1, <2>2, <2>3, <3>3
    <3> QED
      BY <1>1, <3>2, <3>3
  <2>5. Chain'
    <3>1. ASSUME NEW r \in 1..Len(refreshes) + 1, refreshes'[r].phase = "chained"
          PROVE  /\ r > 1 /\ refreshes'[r].after = r - 1
                 /\ refreshes'[r - 1].phase \in {"chained", "asked"}
      <4>1. CASE r \in 1..Len(refreshes)
        <5>1. r > 1 /\ refreshes[r].after = r - 1 /\ Open(r - 1)
          BY <1>1, <2>2, <3>1, <4>1 DEF Chain
        <5>2. r - 1 \in 1..Len(refreshes)
          BY <1>1, <4>1, <5>1
        <5> QED
          BY <2>2, <4>1, <5>1, <5>2 DEF Open
      <4>2. CASE r = Len(refreshes) + 1
        <5>1. inFlight # 0 /\ x.after = inFlight
          BY <2>1, <2>2, <3>1, <4>2
        <5>2. inFlight = Len(refreshes) /\ Open(inFlight)
          BY <5>1 DEF Chain
        <5> QED
          BY <1>1, <2>2, <4>2, <5>1, <5>2 DEF Open
      <4> QED
        BY <1>1, <4>1, <4>2
    <3>2. ASSUME NEW r \in 1..Len(refreshes) + 1, NEW s \in 1..Len(refreshes) + 1,
                 refreshes'[r].phase = "asked", refreshes'[s].phase \in {"chained", "asked"}
          PROVE  r <= s
      <4>1. CASE r \in 1..Len(refreshes) /\ s \in 1..Len(refreshes)
        BY <1>1, <2>2, <3>2, <4>1 DEF Chain, Open
      <4>2. CASE s = Len(refreshes) + 1
        BY <1>1, <4>2
      <4>3. CASE r = Len(refreshes) + 1 /\ s \in 1..Len(refreshes)
        <5>1. inFlight = 0
          BY <2>1, <2>2, <3>2, <4>3
        <5> QED
          BY <1>1, <2>2, <3>2, <4>3, <5>1 DEF Chain, Open
      <4> QED
        BY <1>1, <4>1, <4>2, <4>3
    <3> QED
      BY <2>1, <2>2, <2>3, <3>1, <3>2 DEF Chain, Open
  <2> QED
    BY <1>1, <1>4, <2>1, <2>2, <2>3, <2>4, <2>5
<1> QED
  BY <1>3, <1>4

----------------------------------------------------------------------------
(* What is still under way behind r when it ends: the next, and it alone,  *)
(* is asked.                                                               *)
LEMMA Ending ==
    ASSUME Typed, Chain, Links, NEW r \in DOMAIN refreshes, NEW outcome \in {"done", "thrown"},
           refreshes[r].phase = "asked", refreshes' = Chained(r, outcome),
           inFlight' = IF inFlight = r THEN 0 ELSE inFlight, Len(refreshes) \in Nat
    PROVE  /\ refreshes' \in Seq(Refresh) /\ Len(refreshes') = Len(refreshes)
           /\ refreshes'[r].phase = outcome
           /\ \A n \in DOMAIN refreshes' : n # r /\ Open(n) =>
                 /\ refreshes'[n].phase \in {"chained", "asked"}
                 /\ refreshes'[n].context = refreshes[n].context
           /\ \A n \in DOMAIN refreshes' : refreshes'[n].phase \in {"chained", "asked"} => n > r /\ Open(n)
           /\ Chain' /\ Links'
<1> DEFINE N == Len(refreshes)
<1>1. refreshes \in Seq(Refresh) /\ N \in Nat /\ DOMAIN refreshes = 1..N /\ visitor \in Actors
      /\ inFlight \in 0..N /\ r \in 1..N
  BY DEF Typed
<1>2. refreshes' = [n \in 1..N |->
                      IF n = r THEN Spent(outcome)
                      ELSE IF refreshes[n].after = r THEN fetchAndCommit(refreshes[n])
                      ELSE refreshes[n]]
  BY <1>1 DEF Chained
<1>3. Spent(outcome) \in Refresh /\ Spent(outcome).phase = outcome /\ Spent(outcome).after = 0
      /\ Spent(outcome).actor = None
  BY DEF Spent, Refresh
<1>4. ASSUME NEW x \in Refresh
      PROVE  /\ fetchAndCommit(x) \in Refresh /\ fetchAndCommit(x).phase = "asked"
             /\ fetchAndCommit(x).after = x.after /\ fetchAndCommit(x).context = x.context
             /\ fetchAndCommit(x).actor # None
             /\ x.context # None => fetchAndCommit(x).actor = x.context
  <2>1. x.context \in Actors \cup {None}
    BY DEF Refresh
  <2>2. (IF x.context # None THEN x.context ELSE visitor) \in Actors
    BY <1>1, <2>1
  <2>3. fetchAndCommit(x).actor = IF x.context # None THEN x.context ELSE visitor
    BY DEF fetchAndCommit, buildWireBody, Refresh
  <2> QED
    BY <2>2, <2>3, FlagBounds DEF fetchAndCommit, buildWireBody, Refresh
<1>5. \A n \in 1..N : refreshes[n].phase = "chained" =>
          n > 1 /\ refreshes[n].after = n - 1 /\ Open(n - 1)
  BY <1>1 DEF Chain
<1>6. \A n, m \in 1..N : refreshes[n].phase = "asked" /\ Open(m) => n <= m
  BY <1>1 DEF Chain
<1>7. \A n \in 1..N : refreshes[n].after < n /\ (~Open(n) => refreshes[n].after = 0)
  BY <1>1 DEF Links
<1>8. Open(r)
  BY DEF Open
<1> HIDE DEF N
<1>9. DOMAIN refreshes' = 1..N /\ refreshes'[r] = Spent(outcome)
      /\ \A n \in 1..N : n # r => refreshes'[n] = IF refreshes[n].after = r
                                                  THEN fetchAndCommit(refreshes[n]) ELSE refreshes[n]
  BY <1>1, <1>2
<1>10. \A n \in 1..N : refreshes[n] \in Refresh
  BY <1>1 DEF N
<1>11. \A n \in 1..N : refreshes'[n] \in Refresh
  BY <1>3, <1>4, <1>9, <1>10
<1>12. refreshes' \in Seq(Refresh) /\ Len(refreshes') = N
  BY <1>1, <1>9, <1>11, <1>2
<1>13. ASSUME NEW n \in 1..N, n # r
      PROVE  /\ refreshes[n].after = r <=> refreshes[n].phase = "chained" /\ n = r + 1
             /\ Open(n) <=> refreshes'[n].phase \in {"chained", "asked"}
             /\ refreshes[n].after # r => refreshes'[n] = refreshes[n]
             /\ Open(n) => n > r
             /\ refreshes'[n].context = refreshes[n].context
  <2>1. refreshes[n].phase \in {"chained", "asked", "done", "thrown"} /\ refreshes[n].after \in Nat
    BY <1>10 DEF Refresh
  <2>2. refreshes[n].after = r => refreshes[n].phase = "chained" /\ n = r + 1
    <3>1. CASE refreshes[n].phase = "asked"
      <4>1. n <= r /\ r <= n
        BY <1>1, <1>6, <1>8, <3>1 DEF Open
      <4> QED
        BY <1>1, <1>13, <4>1
    <3>2. CASE ~Open(n)
      BY <1>1, <1>7, <3>2
    <3>3. CASE refreshes[n].phase = "chained"
      BY <1>1, <1>5, <3>3
    <3> QED
      BY <2>1, <3>1, <3>2, <3>3 DEF Open
  <2>3. refreshes[n].phase = "chained" /\ n = r + 1 => refreshes[n].after = r
    BY <1>1, <1>5
  <2>4. Open(n) => n > r
    <3>1. Open(n) => r <= n
      BY <1>1, <1>6
    <3> QED
      BY <1>1, <1>13, <3>1
  <2>5. refreshes'[n] = IF refreshes[n].after = r THEN fetchAndCommit(refreshes[n]) ELSE refreshes[n]
    BY <1>9, <1>13
  <2>6. Open(n) <=> refreshes'[n].phase \in {"chained", "asked"}
    BY <1>4, <1>10, <2>2, <2>5 DEF Open
  <2>7. refreshes'[n].context = refreshes[n].context
    BY <1>4, <1>10, <2>5
  <2> QED
    BY <2>2, <2>3, <2>4, <2>5, <2>6, <2>7
<1>14. Links'
  <2>1. SUFFICES ASSUME NEW n \in 1..N
                 PROVE  /\ refreshes'[n].after < n
                        /\ refreshes'[n].phase \notin {"chained", "asked"} => refreshes'[n].after = 0
                        /\ refreshes'[n].phase = "asked" <=> refreshes'[n].actor # None
                        /\ refreshes'[n].phase = "asked" /\ refreshes'[n].context # None =>
                              refreshes'[n].actor = refreshes'[n].context
    BY <1>9 DEF Links, Open
  <2>2. CASE n = r
    BY <1>1, <1>3, <1>9, <2>2
  <2>3. CASE n # r /\ refreshes[n].after = r
    <3>1. refreshes'[n] = fetchAndCommit(refreshes[n])
      BY <1>9, <2>3
    <3>2. refreshes[n].after < n
      BY <1>1, <1>7
    <3> QED
      BY <1>4, <1>10, <3>1, <3>2
  <2>4. CASE n # r /\ refreshes[n].after # r
    BY <1>1, <1>13, <2>4 DEF Links, Open, N
  <2> QED
    BY <2>2, <2>3, <2>4
<1>15. ASSUME NEW n \in 1..N, refreshes'[n].phase = "chained"
       PROVE  n > 1 /\ refreshes'[n].after = n - 1 /\ refreshes'[n - 1].phase \in {"chained", "asked"}
  <2>1. n # r
    BY <1>3, <1>9, <1>15
  <2>2. refreshes'[n] = refreshes[n] /\ refreshes[n].after # r
    BY <1>4, <1>9, <1>10, <1>15, <2>1
  <2>3. n > 1 /\ refreshes[n].after = n - 1 /\ Open(n - 1)
    BY <1>1, <1>15, <1>5, <2>2
  <2>4. n - 1 \in 1..N /\ n - 1 # r
    BY <1>1, <2>2, <2>3
  <2> QED
    BY <1>13, <2>2, <2>3, <2>4
<1>16. ASSUME NEW n \in 1..N, NEW m \in 1..N,
              refreshes'[n].phase = "asked", refreshes'[m].phase \in {"chained", "asked"}
       PROVE  n <= m
  <2>1. n # r /\ m # r
    BY <1>3, <1>9, <1>16
  <2>2. Open(n) /\ Open(m) /\ m > r
    BY <1>13, <1>16, <2>1
  <2>3. n = r + 1
    <3>1. CASE refreshes[n].after = r
      BY <1>13, <2>1, <3>1
    <3>2. CASE refreshes[n].after # r
      <4>1. refreshes[n].phase = "asked"
        BY <1>13, <1>16, <2>1, <3>2
      <4>2. n <= r
        BY <1>1, <1>6, <1>8, <4>1
      <4> QED
        BY <1>1, <1>13, <2>1, <2>2, <4>2
    <3> QED
      BY <3>1, <3>2
  <2> QED
    BY <1>1, <2>2, <2>3
<1>17. inFlight' \in {0, N} /\ (inFlight' # 0 => refreshes'[inFlight'].phase \in {"chained", "asked"})
  <2>1. inFlight \in {0, N}
    BY DEF Chain, N
  <2>2. ASSUME inFlight' # 0
        PROVE  refreshes'[inFlight'].phase \in {"chained", "asked"}
    <3>1. inFlight' = inFlight /\ inFlight # r /\ inFlight \in 1..N
      BY <1>1, <2>2
    <3>2. Open(inFlight)
      BY <3>1 DEF Chain
    <3> QED
      BY <1>13, <3>1, <3>2
  <2> QED
    BY <2>1, <2>2
<1>18. ASSUME inFlight' = 0, NEW n \in 1..N
       PROVE  refreshes'[n].phase \notin {"chained", "asked"}
  <2>1. inFlight = r
    <3>1. inFlight # 0
      BY <1>1 DEF Chain, Open, N
    <3> QED
      BY <1>1, <1>18, <3>1
  <2>2. r = N
    BY <1>1, <2>1 DEF Chain, N
  <2>3. CASE n = r
    BY <1>3, <1>9, <2>3
  <2>4. CASE n # r
    <3>1. ~(n > r)
      BY <1>1, <2>2
    <3> QED
      BY <1>13, <2>4, <3>1
  <2> QED
    BY <2>3, <2>4
<1>19. Chain'
  BY <1>9, <1>12, <1>15, <1>16, <1>17, <1>18 DEF Chain, Open
<1>20. refreshes'[r].phase = outcome
  BY <1>3, <1>9
<1>21. \A n \in 1..N : n # r /\ Open(n) =>
          refreshes'[n].phase \in {"chained", "asked"} /\ refreshes'[n].context = refreshes[n].context
  BY <1>13
<1>22. \A n \in 1..N : refreshes'[n].phase \in {"chained", "asked"} => n > r /\ Open(n)
  BY <1>13, <1>20
<1> QED
  BY <1>9, <1>12, <1>14, <1>19, <1>20, <1>21, <1>22 DEF N

----------------------------------------------------------------------------
(* Sets that were proper stay so: there are only ever more refreshes.      *)
LEMMA SetsStay ==
    ASSUME NEW set, IsSet(set), Len(refreshes) \in Nat, Len(refreshes') \in Nat,
           Len(refreshes') >= Len(refreshes)
    PROVE  IsSet(set)'
<1>1. set \in Snapshots /\ set.by \in Nat /\ set.by <= Len(refreshes)
      /\ set.degraded = (set.reason \in {"unresolved", "stale"})
  BY DEF IsSet, Snapshots
<1>2. set.by <= Len(refreshes')
  BY <1>1
<1> QED
  BY <1>1, <1>2 DEF IsSet

(* A call that waits once there is one more refresh.                       *)
LEMMA Evaluating ==
    ASSUME FlagsInv, NEW c \in Callers, NEW context \in Contexts, NEW forced \in BOOLEAN,
           Evaluate(c, context, forced)
    PROVE  FlagsInv'
<1>1. Typed /\ Chain /\ Links /\ CacheIsOlder /\ Waiting /\ HeardLast
  BY DEF FlagsInv
<1>2. refreshes \in Seq(Refresh) /\ Len(refreshes) \in Nat /\ DOMAIN refreshes = 1..Len(refreshes)
      /\ calls \in [Callers -> Call]
  BY <1>1 DEF Typed
<1>3. UNCHANGED <<endpoint, visitor, switches, cache, listening, heard>>
  BY DEF Evaluate
<1>4. /\ refreshes' \in Seq(Refresh) /\ Len(refreshes') >= Len(refreshes)
      /\ \A r \in DOMAIN refreshes : r \in DOMAIN refreshes' /\ refreshes'[r] = refreshes[r]
      /\ \A r \in DOMAIN refreshes' \ DOMAIN refreshes :
            r > Len(refreshes) /\ refreshes'[r].phase # "thrown"
      /\ Chain' /\ Links' /\ inFlight' \in 0..Len(refreshes')
  <2>1. CASE \E force \in BOOLEAN : refresh(context, force)
    <3>1. PICK force \in BOOLEAN : refresh(context, force)
      BY <2>1
    <3> QED
      BY <1>1, <3>1, Refreshing
  <2>2. CASE UNCHANGED <<refreshes, inFlight>>
    <3>1. Chain' /\ Links'
      BY <1>1, <2>2 DEF Chain, Links, Open
    <3> QED
      BY <1>1, <1>2, <2>2, <3>1 DEF Typed
  <2> QED
    BY <2>1, <2>2 DEF Evaluate, Waits
<1>5. Len(refreshes') \in Nat /\ DOMAIN refreshes' = 1..Len(refreshes')
  BY <1>4
<1>6. \/ calls' = [calls EXCEPT ![c] = [phase |-> "settled"]]
      \/ /\ refreshes' \in Seq(Refresh)
         /\ inFlight' \in DOMAIN refreshes' /\ refreshes'[inFlight'].phase \in {"chained", "asked"}
         /\ forced => inFlight' > Len(refreshes) /\ refreshes'[inFlight'].context = context
         /\ calls' = [calls EXCEPT ![c] =
                [phase |-> "waiting", on |-> inFlight', context |-> context, forced |-> forced,
                 before |-> Len(refreshes)]]
  <2>1. CASE Waits(c, context, forced)
    <3>1. refresh(context, forced)
      BY <2>1 DEF Waits
    <3> QED
      BY <1>1, <2>1, <3>1, Refreshing DEF Waits
  <2> QED
    BY <2>1 DEF Evaluate, Ended
<1>7. calls' \in [Callers -> Call]
  <2>1. CASE calls' = [calls EXCEPT ![c] = [phase |-> "settled"]]
    <3>1. [phase |-> "settled"] \in Call
      BY DEF Call
    <3> QED
      BY <1>2, <2>1, <3>1
  <2>2. CASE calls' # [calls EXCEPT ![c] = [phase |-> "settled"]]
    <3> DEFINE x == [phase |-> "waiting", on |-> inFlight', context |-> context,
                     forced |-> forced, before |-> Len(refreshes)]
    <3>1. calls' = [calls EXCEPT ![c] = x] /\ inFlight' \in Nat
      BY <1>5, <1>6, <2>2
    <3>2. x \in Call
      BY <1>2, <3>1 DEF Call
    <3> HIDE DEF x
    <3> QED
      BY <1>2, <3>1, <3>2
  <2> QED
    BY <2>1, <2>2
<1>8. Typed'
  <2>1. cache' # None => IsSet(cache)'
    BY <1>1, <1>2, <1>3, <1>4, <1>5, SetsStay DEF Typed, IsSet
  <2>2. \A l \in Listeners : heard'[l] # None => IsSet(heard[l])'
    BY <1>1, <1>2, <1>3, <1>4, <1>5, SetsStay DEF Typed, IsSet
  <2> QED
    BY <1>1, <1>3, <1>4, <1>7, <2>1, <2>2 DEF Typed
<1>9. CacheIsOlder'
  <2>1. SUFFICES ASSUME cache # None, NEW r \in DOMAIN refreshes',
                        refreshes'[r].phase \in {"chained", "asked"}
                 PROVE  cache.by < r
    BY <1>3 DEF CacheIsOlder, Open
  <2>2. CASE r \in DOMAIN refreshes
    BY <1>1, <1>4, <2>1, <2>2 DEF CacheIsOlder, Open
  <2>3. CASE r \notin DOMAIN refreshes
    <3>1. r > Len(refreshes) /\ r \in Nat
      BY <1>4, <1>5, <2>3
    <3>2. cache.by \in Nat /\ cache.by <= Len(refreshes)
      BY <1>1, <2>1 DEF Typed, IsSet, Snapshots
    <3> QED
      BY <1>2, <3>1, <3>2
  <2> QED
    BY <2>2, <2>3
<1>10. Waiting'
  <2>1. SUFFICES ASSUME NEW d \in Callers, calls'[d].phase = "waiting"
                 PROVE  /\ calls'[d].on \in DOMAIN refreshes'
                        /\ refreshes'[calls'[d].on].phase \in {"chained", "asked"}
                        /\ calls'[d].forced =>
                              /\ calls'[d].on > calls'[d].before
                              /\ refreshes'[calls'[d].on].context = calls'[d].context
    BY DEF Waiting, Open
  <2>2. CASE d # c
    <3>1. calls'[d] = calls[d]
      BY <1>2, <1>6, <2>2
    <3> QED
      BY <1>1, <1>4, <2>1, <3>1 DEF Waiting, Open
  <2>3. CASE d = c
    <3>1. calls' # [calls EXCEPT ![c] = [phase |-> "settled"]]
      BY <1>2, <2>1, <2>3
    <3>2. calls'[d] = [phase |-> "waiting", on |-> inFlight', context |-> context,
                       forced |-> forced, before |-> Len(refreshes)]
      BY <1>2, <1>6, <2>3, <3>1
    <3> QED
      BY <1>6, <3>1, <3>2
  <2> QED
    BY <2>2, <2>3
<1>11. HeardLast'
  <2>1. (\A r \in DOMAIN refreshes' : refreshes'[r].phase # "thrown") =>
            (\A r \in DOMAIN refreshes : refreshes[r].phase # "thrown")
    BY <1>4
  <2> QED
    BY <1>1, <1>3, <2>1 DEF HeardLast, currentSet
<1> QED
  BY <1>4, <1>8, <1>9, <1>10, <1>11 DEF FlagsInv

----------------------------------------------------------------------------
(* What a refresh that ends leaves in the cache.                           *)
LEMMA Committing ==
    ASSUME FlagsInv, NEW r \in DOMAIN refreshes, refreshes[r].phase = "asked",
           NEW succeeds \in BOOLEAN
    PROVE  LET set == Committed(r, succeeds)
           IN  /\ set # None => IsSet(set) /\ set.by <= r
               /\ currentSet(set) # None /\ IsSet(currentSet(set))
               /\ cache # None => set # None /\ set.by >= cache.by
               /\ ~currentSet(set).degraded =>
                     /\ set.by = r
                     /\ refreshes[r].context # None => set.of = refreshes[r].context
<1> DEFINE set == Committed(r, succeeds)
<1>1. refreshes \in Seq(Refresh) /\ Len(refreshes) \in Nat /\ r \in 1..Len(refreshes)
      /\ refreshes[r].actor \in Actors \cup {None}
  <2>1. refreshes \in Seq(Refresh) /\ Len(refreshes) \in Nat /\ r \in 1..Len(refreshes)
    BY DEF FlagsInv, Typed
  <2>2. refreshes[r] \in Refresh
    BY <2>1
  <2> QED
    BY <2>1, <2>2 DEF Refresh
<1>2. refreshes[r].context # None => refreshes[r].actor = refreshes[r].context
  BY DEF FlagsInv, Links
<1>3. cache # None => /\ IsSet(cache) /\ cache.by < r /\ cache.by \in 0..Len(refreshes)
                      /\ cache.of \in Actors \cup {None}
  BY <1>1 DEF FlagsInv, Typed, CacheIsOlder, Open, IsSet, Snapshots
<1>4. FALSE = ("resolved" \in {"unresolved", "stale"}) /\ TRUE = ("stale" \in {"unresolved", "stale"})
      /\ TRUE = ("unresolved" \in {"unresolved", "stale"})
  OBVIOUS
<1>5. Snapshot(None, 0, "unresolved", TRUE) # None /\ IsSet(Snapshot(None, 0, "unresolved", TRUE))
      /\ Snapshot(None, 0, "unresolved", TRUE).degraded
  <2>1. 0 \in 0..Len(refreshes)
    BY <1>1
  <2> QED
    BY <1>1, <1>4, <2>1, SnapshotShape DEF Snapshot
<1>6. CASE succeeds
  <2>1. set = Snapshot(refreshes[r].actor, r, "resolved", FALSE)
    BY <1>6 DEF Committed
  <2>2. r \in 0..Len(refreshes)
    BY <1>1
  <2>3. set # None /\ IsSet(set)
    BY <1>1, <1>4, <2>1, <2>2, SnapshotShape
  <2>4. set.by = r /\ set.of = refreshes[r].actor
    BY <2>1 DEF Snapshot
  <2> HIDE DEF set
  <2>5. currentSet(set) = set
    BY <2>3 DEF currentSet
  <2>6. cache # None => set.by >= cache.by
    BY <1>1, <1>3, <2>4
  <2>7. set.by <= r
    BY <1>1, <2>4
  <2> QED
    BY <1>2, <2>3, <2>4, <2>5, <2>6, <2>7 DEF set
<1>7. CASE ~succeeds /\ cache = None
  <2>1. set = None /\ currentSet(set) = Snapshot(None, 0, "unresolved", TRUE)
    BY <1>7 DEF Committed, currentSet
  <2> QED
    BY <1>5, <1>7, <2>1
<1>8. CASE ~succeeds /\ cache # None
  <2>1. set = Snapshot(cache.of, cache.by, "stale", TRUE)
    BY <1>8 DEF Committed
  <2>2. set # None /\ IsSet(set)
    BY <1>1, <1>3, <1>4, <1>8, <2>1, SnapshotShape
  <2>3. set.by = cache.by /\ set.degraded
    BY <2>1 DEF Snapshot
  <2> HIDE DEF set
  <2>4. currentSet(set) = set
    BY <2>2 DEF currentSet
  <2>5. set.by <= r /\ set.by >= cache.by
    BY <1>1, <1>3, <1>8, <2>3
  <2> QED
    BY <2>2, <2>3, <2>4, <2>5 DEF set
<1> QED
  BY <1>6, <1>7, <1>8

(* A refresh that ends settles or rejects those who waited for it alone.   *)
LEMMA Settling ==
    ASSUME FlagsInv, NEW r \in DOMAIN refreshes, NEW succeeds \in BOOLEAN,
           NEW throws \in Listeners \cup {None}, Settle(r, succeeds, throws)
    PROVE  FlagsInv'
<1> DEFINE outcome == IF throws = None THEN "done" ELSE "thrown"
           ending  == IF throws = None THEN "settled" ELSE "rejected"
<1>1. Typed /\ Chain /\ Links /\ CacheIsOlder /\ Waiting /\ HeardLast
  BY DEF FlagsInv
<1>2. refreshes \in Seq(Refresh) /\ Len(refreshes) \in Nat /\ DOMAIN refreshes = 1..Len(refreshes)
      /\ listening \in Seq(Listeners) /\ calls \in [Callers -> Call]
      /\ heard \in [Listeners -> Snapshots \cup {None}]
  BY <1>1 DEF Typed
<1>3. /\ refreshes[r].phase = "asked"
      /\ cache' = Committed(r, succeeds)
      /\ UNCHANGED <<endpoint, visitor, switches, listening>>
  BY DEF Settle
<1>4. outcome \in {"done", "thrown"} /\ (outcome = "done" <=> throws = None)
  OBVIOUS
<1>5. /\ refreshes' \in Seq(Refresh) /\ Len(refreshes') = Len(refreshes)
      /\ refreshes'[r].phase = outcome
      /\ \A n \in DOMAIN refreshes' : n # r /\ Open(n) =>
            /\ refreshes'[n].phase \in {"chained", "asked"}
            /\ refreshes'[n].context = refreshes[n].context
      /\ \A n \in DOMAIN refreshes' : refreshes'[n].phase \in {"chained", "asked"} => n > r /\ Open(n)
      /\ Chain' /\ Links'
  <2>1. refreshes' = Chained(r, outcome) /\ inFlight' = IF inFlight = r THEN 0 ELSE inFlight
    BY DEF Settle
  <2> HIDE DEF outcome
  <2> QED
    BY <1>1, <1>2, <1>3, <1>4, <2>1, Ending
<1>6. /\ cache' # None => IsSet(cache') /\ cache'.by <= r
      /\ currentSet(cache') # None /\ IsSet(currentSet(cache'))
  BY <1>3, Committing
<1>7. \A l \in Listeners : heard'[l] \in {heard[l], currentSet(cache')}
  <2>1. PICK reached : heard' = [l \in Listeners |-> IF l \in Range(reached) THEN currentSet(cache')
                                                     ELSE heard[l]]
    BY DEF Settle, fireListeners
  <2> QED
    BY <2>1
<1>8. \A l \in Range(listening) : throws = None => heard'[l] = currentSet(cache')
  <2>1. SUFFICES ASSUME throws = None, NEW l \in Range(listening)
                 PROVE  heard'[l] = currentSet(cache')
    OBVIOUS
  <2>2. l \in Listeners /\ throws \notin Range(listening)
    BY <1>2, <2>1, FlagBounds DEF Range
  <2>3. heard' = [k \in Listeners |-> IF k \in Range(listening) THEN currentSet(cache') ELSE heard[k]]
    BY <2>2 DEF Settle, fireListeners
  <2> QED
    BY <2>2, <2>3
<1>9. heard' \in [Listeners -> Snapshots \cup {None}]
  <2>1. PICK reached : heard' = [l \in Listeners |-> IF l \in Range(reached) THEN currentSet(cache')
                                                     ELSE heard[l]]
    BY DEF Settle, fireListeners
  <2>2. currentSet(cache') \in Snapshots
    BY <1>6 DEF IsSet
  <2> QED
    BY <1>2, <2>1, <2>2
<1>10. \A c \in Callers :
          \/ calls'[c] = calls[c] /\ (calls[c].phase # "waiting" \/ calls[c].on # r)
          \/ calls'[c] = [phase |-> ending] /\ calls[c].phase = "waiting" /\ calls[c].on = r
  BY DEF Settle, Ended
<1>11. calls' \in [Callers -> Call]
  <2>1. [phase |-> "settled"] \in Call /\ [phase |-> "rejected"] \in Call
    BY DEF Call
  <2>2. calls' = [c \in Callers |-> IF calls[c].phase # "waiting" \/ calls[c].on # r THEN calls[c]
                                     ELSE [phase |-> ending]]
    BY DEF Settle, Ended
  <2> QED
    BY <1>2, <2>1, <2>2
<1>12. inFlight' \in 0..Len(refreshes')
  BY <1>1, <1>2, <1>5 DEF Typed, Settle
<1>13. ASSUME NEW set, IsSet(set)
       PROVE  set \in Snapshots /\ set.by <= Len(refreshes')
              /\ set.degraded = (set.reason \in {"unresolved", "stale"})
  BY <1>5, <1>13 DEF IsSet
<1>14. Typed'
  <2>1. ASSUME NEW l \in Listeners, heard'[l] # None
        PROVE  IsSet(heard[l])'
    <3>1. IsSet(heard'[l])
      BY <1>1, <1>6, <1>7, <2>1 DEF Typed
    <3> QED
      BY <1>13, <3>1 DEF IsSet
  <2>2. cache' # None => IsSet(cache)'
    BY <1>6, <1>13 DEF IsSet
  <2> QED
    BY <1>1, <1>3, <1>5, <1>9, <1>11, <1>12, <2>1, <2>2 DEF Typed
<1>15. CacheIsOlder'
  <2>1. SUFFICES ASSUME cache' # None, NEW n \in DOMAIN refreshes',
                        refreshes'[n].phase \in {"chained", "asked"}
                 PROVE  cache'.by < n
    BY DEF CacheIsOlder, Open
  <2>2. n > r /\ n \in Nat /\ r \in Nat
    BY <1>2, <1>5, <2>1
  <2>3. cache'.by <= r /\ cache'.by \in Nat
    BY <1>6, <2>1 DEF IsSet, Snapshots
  <2> QED
    BY <2>2, <2>3
<1>16. Waiting'
  <2>1. SUFFICES ASSUME NEW d \in Callers, calls'[d].phase = "waiting"
                 PROVE  /\ calls'[d].on \in DOMAIN refreshes'
                        /\ refreshes'[calls'[d].on].phase \in {"chained", "asked"}
                        /\ calls'[d].forced =>
                              /\ calls'[d].on > calls'[d].before
                              /\ refreshes'[calls'[d].on].context = calls'[d].context
    BY DEF Waiting, Open
  <2>2. calls'[d] = calls[d] /\ calls[d].on # r
    BY <1>10, <2>1
  <2>3. /\ calls[d].on \in DOMAIN refreshes /\ Open(calls[d].on)
        /\ calls[d].forced => calls[d].on > calls[d].before
                              /\ refreshes[calls[d].on].context = calls[d].context
    BY <1>1, <2>1, <2>2 DEF Waiting
  <2>4. DOMAIN refreshes' = DOMAIN refreshes
    BY <1>2, <1>5
  <2> QED
    BY <1>5, <2>2, <2>3, <2>4
<1>17. HeardLast'
  <2>1. CASE throws = None
    BY <1>3, <1>8, <2>1 DEF HeardLast
  <2>2. CASE throws # None
    <3>1. refreshes'[r].phase = "thrown" /\ r \in DOMAIN refreshes'
      BY <1>2, <1>5, <2>2
    <3> QED
      BY <3>1 DEF HeardLast
  <2> QED
    BY <2>1, <2>2
<1> QED
  BY <1>5, <1>14, <1>15, <1>16, <1>17 DEF FlagsInv

----------------------------------------------------------------------------
(* Listeners that come have heard nothing, those that go are gone.         *)
LEMMA Listening ==
    ASSUME FlagsInv, NEW l \in Listeners, onChange(l) \/ Unsubscribe(l)
    PROVE  FlagsInv'
<1>1. Typed /\ Chain /\ Links /\ CacheIsOlder /\ Waiting /\ HeardLast
  BY DEF FlagsInv
<1>2. UNCHANGED <<endpoint, visitor, switches, cache, refreshes, inFlight, calls>>
  BY DEF onChange, Unsubscribe
<1>3. /\ listening' \in Seq(Listeners) /\ heard' \in [Listeners -> Snapshots \cup {None}]
      /\ \A k \in Listeners : heard'[k] # None => heard'[k] = heard[k]
      /\ \A k \in Range(listening') : heard'[k] # None => k \in Range(listening)
  <2>1. listening \in Seq(Listeners) /\ heard \in [Listeners -> Snapshots \cup {None}]
    BY <1>1 DEF Typed
  <2>2. CASE onChange(l)
    <3>1. listening' = Append(listening, l) /\ heard' = [heard EXCEPT ![l] = None]
      BY <2>2 DEF onChange
    <3>2. \A k \in Range(listening') : k \in Range(listening) \/ k = l
      BY <2>1, <3>1 DEF Range
    <3> QED
      BY <2>1, <3>1, <3>2
  <2>3. CASE Unsubscribe(l)
    <3>1. PICK i \in DOMAIN listening :
            listening' = SubSeq(listening, 1, i - 1) \o SubSeq(listening, i + 1, Len(listening))
      BY <2>3 DEF Unsubscribe
    <3> DEFINE N == Len(listening)
               before == SubSeq(listening, 1, i - 1)
               behind == SubSeq(listening, i + 1, N)
    <3>2. N \in Nat /\ i \in 1..N
      BY <2>1
    <3>3. before \in Seq(Listeners) /\ \A j \in DOMAIN before : before[j] \in Range(listening)
      BY <2>1, <3>2 DEF Range
    <3>4. behind \in Seq(Listeners) /\ \A j \in DOMAIN behind : behind[j] \in Range(listening)
      BY <2>1, <3>2 DEF Range
    <3>5. listening' = before \o behind
      BY <3>1
    <3> HIDE DEF before, behind
    <3>6. listening' \in Seq(Listeners) /\ \A k \in Range(listening') : k \in Range(listening)
      <4>1. listening' \in Seq(Listeners) /\ DOMAIN listening' = 1..Len(before) + Len(behind)
        BY <3>3, <3>4, <3>5
      <4>2. \A j \in DOMAIN listening' : listening'[j] = IF j <= Len(before) THEN before[j]
                                                         ELSE behind[j - Len(before)]
        BY <3>3, <3>4, <3>5
      <4>3. ASSUME NEW j \in DOMAIN listening'
            PROVE  listening'[j] \in Range(listening)
        <5>1. Len(before) \in Nat /\ Len(behind) \in Nat /\ j \in 1..Len(before) + Len(behind)
              /\ DOMAIN before = 1..Len(before) /\ DOMAIN behind = 1..Len(behind)
          BY <3>3, <3>4, <4>1
        <5>2. CASE j <= Len(before)
          BY <3>3, <4>2, <5>1, <5>2
        <5>3. CASE ~(j <= Len(before))
          <6>1. j - Len(before) \in 1..Len(behind)
            BY <5>1, <5>3
          <6> QED
            BY <3>4, <4>2, <5>1, <5>3, <6>1
        <5> QED
          BY <5>2, <5>3
      <4> QED
        BY <4>1, <4>3 DEF Range
    <3>7. heard' = heard
      BY <2>3 DEF Unsubscribe
    <3> QED
      BY <2>1, <3>6, <3>7
  <2> QED
    BY <2>2, <2>3
<1>4. Typed'
  <2>1. \A k \in Listeners : heard'[k] # None => IsSet(heard[k])'
    BY <1>1, <1>2, <1>3 DEF Typed, IsSet
  <2>2. cache' # None => IsSet(cache)'
    BY <1>1, <1>2 DEF Typed, IsSet
  <2> QED
    BY <1>1, <1>2, <1>3, <2>1, <2>2 DEF Typed
<1>5. HeardLast'
  <2>1. ASSUME NEW k \in Range(listening'), heard'[k] # None
        PROVE  k \in Range(listening) /\ heard'[k] = heard[k]
    <3>1. k \in Listeners
      BY <1>3 DEF Range
    <3> QED
      BY <1>3, <2>1, <3>1
  <2> QED
    BY <1>1, <1>2, <2>1 DEF HeardLast, currentSet
<1>6. Chain' /\ Links'
  BY <1>1, <1>2 DEF Chain, Links, Open
<1>7. CacheIsOlder' /\ Waiting'
  BY <1>1, <1>2 DEF CacheIsOlder, Waiting, Open
<1> QED
  BY <1>4, <1>5, <1>6, <1>7 DEF FlagsInv

LEMMA Switching ==
    ASSUME FlagsInv, \/ \E id \in Actors : SwitchVisitor(id)
                     \/ UNCHANGED vars
    PROVE  FlagsInv'
<1>1. Typed /\ Chain /\ Links /\ CacheIsOlder /\ Waiting /\ HeardLast
  BY DEF FlagsInv
<1>2. /\ UNCHANGED <<endpoint, cache, refreshes, inFlight, calls, listening, heard>>
      /\ visitor' \in Actors /\ switches' \in 0..MaxSwitches
  BY <1>1, FlagBounds DEF SwitchVisitor, vars, Typed
<1>3. Typed'
  <2>1. \A k \in Listeners : heard'[k] # None => IsSet(heard[k])'
    BY <1>1, <1>2 DEF Typed, IsSet
  <2>2. cache' # None => IsSet(cache)'
    BY <1>1, <1>2 DEF Typed, IsSet
  <2> QED
    BY <1>1, <1>2, <2>1, <2>2 DEF Typed
<1>4. Chain' /\ Links'
  BY <1>1, <1>2 DEF Chain, Links, Open
<1>5. CacheIsOlder' /\ Waiting' /\ HeardLast'
  BY <1>1, <1>2 DEF CacheIsOlder, Waiting, HeardLast, currentSet, Open
<1> QED
  BY <1>3, <1>4, <1>5 DEF FlagsInv

LEMMA FlagsStep == FlagsInv /\ [Next]_vars => FlagsInv'
<1> SUFFICES ASSUME FlagsInv, [Next]_vars PROVE FlagsInv'
  OBVIOUS
<1>1. ASSUME NEW c \in Callers, NEW context \in Contexts, NEW forced \in BOOLEAN,
             Evaluate(c, context, forced)
      PROVE  FlagsInv'
  BY <1>1, Evaluating
<1>2. CASE Answered
  BY <1>2, Settling DEF Answered
<1>3. ASSUME NEW l \in Listeners, onChange(l) \/ Unsubscribe(l)
      PROVE  FlagsInv'
  BY <1>3, Listening
<1>4. CASE (\E id \in Actors : SwitchVisitor(id)) \/ UNCHANGED vars
  BY <1>4, Switching
<1> QED
  BY <1>1, <1>2, <1>3, <1>4 DEF Next

----------------------------------------------------------------------------
(* FlagsInv holds of every reachable state: refreshes form one chain, of   *)
(* which one request is on the network.                                    *)
THEOREM FlagsInvariant == Spec => []FlagsInv
<1> QED
  BY SettingUp, FlagsStep, PTL DEF Spec

(* BrowserFlags!TypeOK: what is not spent waits for something that is not  *)
(* either, and so does every evaluation.                                   *)
THEOREM FlagsTypes == Spec => []TypeOK
<1>1. FlagsInv => TypeOK
  <2> SUFFICES ASSUME FlagsInv PROVE TypeOK
    OBVIOUS
  <2>1. refreshes \in Seq(Refresh) /\ DOMAIN refreshes = 1..Len(refreshes) /\ Len(refreshes) \in Nat
    BY DEF FlagsInv, Typed
  <2>2. ASSUME NEW r \in DOMAIN refreshes
        PROVE  /\ refreshes[r].after < r /\ refreshes[r].phase \in {"chained", "asked", "done", "thrown"}
               /\ refreshes[r].phase = "asked" <=> refreshes[r].actor # None
               /\ refreshes[r].phase = "chained" =>
                     refreshes[refreshes[r].after].phase \in {"chained", "asked"}
    <3>1. refreshes[r] \in Refresh
      BY <2>1
    <3>2. refreshes[r].phase = "chained" => refreshes[r].after = r - 1 /\ Open(r - 1)
      BY DEF FlagsInv, Chain
    <3> QED
      BY <3>1, <3>2 DEF FlagsInv, Links, Open, Refresh
  <2>3. \A c \in Callers : calls[c].phase = "waiting" =>
            refreshes[calls[c].on].phase \in {"chained", "asked"}
    BY DEF FlagsInv, Waiting, Open
  <2> QED
    BY <2>2, <2>3 DEF FlagsInv, Typed, TypeOK
<1> QED
  BY <1>1, FlagsInvariant, PTL

(* A forced evaluation that settles undegraded has the flags of a request  *)
(* made after it was asked, for the actor it named: it joined no request   *)
(* that was under way.                                                     *)
THEOREM ForcedGetsFresh == Spec => ForcedIsFresh
<1>1. ASSUME FlagsInv, [Next]_vars, NEW c \in Callers,
             calls[c].phase = "waiting", calls[c].forced, calls'[c].phase = "settled",
             ~currentSet(cache').degraded
      PROVE  /\ cache'.by > calls[c].before
             /\ calls[c].context # None => cache'.of = calls[c].context
  <2>1. calls' # calls
    BY <1>1
  <2>2. calls \in [Callers -> Call]
    BY <1>1 DEF FlagsInv, Typed
  <2>3. ASSUME NEW d \in Callers, NEW context \in Contexts, NEW forced \in BOOLEAN,
               Evaluate(d, context, forced)
        PROVE  FALSE
    <3>1. d # c
      BY <1>1, <2>3 DEF Evaluate, Idle
    <3>2. calls'[c] = calls[c]
      BY <2>2, <2>3, <3>1 DEF Evaluate, Waits
    <3> QED
      BY <1>1, <3>2
  <2>4. PICK r \in DOMAIN refreshes, succeeds \in BOOLEAN, throws \in Listeners \cup {None} :
            Settle(r, succeeds, throws)
    BY <1>1, <2>1, <2>3 DEF Next, Answered, onChange, Unsubscribe, SwitchVisitor, vars
  <2>5. calls[c].on = r
    BY <1>1, <2>4 DEF Settle
  <2>6. calls[c].on > calls[c].before /\ refreshes[r].context = calls[c].context
    BY <1>1, <2>5 DEF FlagsInv, Waiting
  <2>7. cache' = Committed(r, succeeds) /\ refreshes[r].phase = "asked"
    BY <2>4 DEF Settle
  <2>8. cache'.by = r /\ (refreshes[r].context # None => cache'.of = refreshes[r].context)
    BY <1>1, <2>7, Committing
  <2> QED
    BY <2>5, <2>6, <2>8
<1>2. FlagsInv /\ [Next]_vars =>
        [\A c \in Callers :
          (calls[c].phase = "waiting" /\ calls[c].forced /\ calls'[c].phase = "settled"
           /\ ~currentSet(cache').degraded) =>
              /\ cache'.by > calls[c].before
              /\ calls[c].context # None => cache'.of = calls[c].context]_vars
  BY <1>1
<1> QED
  BY <1>2, FlagsInvariant, PTL DEF Spec, ForcedIsFresh

(* One request at a time: an asked refresh is the oldest under way.        *)
OneRequest == Cardinality({r \in DOMAIN refreshes : refreshes[r].phase = "asked"}) <= 1

LEMMA OneAsked == Typed /\ Chain => OneRequest
<1> SUFFICES ASSUME Typed, Chain PROVE OneRequest
  OBVIOUS
<1> DEFINE asked == {r \in DOMAIN refreshes : refreshes[r].phase = "asked"}
<1>1. DOMAIN refreshes = 1..Len(refreshes) /\ Len(refreshes) \in Nat
  BY DEF Typed
<1>2. CASE asked = {}
  BY <1>2, FS_EmptySet DEF OneRequest
<1>3. CASE asked # {}
  <2>1. PICK r \in asked : TRUE
    BY <1>3
  <2>2. asked = {r}
    <3>1. ASSUME NEW s \in asked
          PROVE  s = r
      <4>1. s <= r /\ r <= s
        BY <2>1, <3>1 DEF Chain, Open
      <4> QED
        BY <1>1, <2>1, <3>1, <4>1
    <3> QED
      BY <2>1, <3>1
  <2>3. Cardinality(asked) = 1
    BY <2>2, FS_Singleton
  <2> QED
    BY <2>3 DEF OneRequest
<1> QED
  BY <1>2, <1>3

(* Two commits never race for the cache: one request at a time, later ones *)
(* overwrite earlier ones, and whoever heard a commit has heard the last   *)
(* unless a listener threw.                                                *)
THEOREM CommitsComeInOrder == Spec => CommitsInOrder
<1>1. ASSUME FlagsInv, [Next]_vars
      PROVE  cache # None => cache'.by >= cache.by
  <2>1. cache # None => cache.by \in Nat
    BY <1>1 DEF FlagsInv, Typed, IsSet, Snapshots
  <2>2. CASE cache' = cache
    BY <2>1, <2>2
  <2>3. CASE cache' # cache
    <3>1. PICK r \in DOMAIN refreshes, succeeds \in BOOLEAN, throws \in Listeners \cup {None} :
            Settle(r, succeeds, throws)
      BY <1>1, <2>3 DEF Next, Answered, Evaluate, onChange, Unsubscribe, SwitchVisitor, vars
    <3>2. cache' = Committed(r, succeeds) /\ refreshes[r].phase = "asked"
      BY <3>1 DEF Settle
    <3> QED
      BY <1>1, <3>2, Committing
  <2> QED
    BY <2>2, <2>3
<1>2. ASSUME FlagsInv'
      PROVE  Cardinality({r \in DOMAIN refreshes' : refreshes'[r].phase = "asked"}) <= 1
  <2>1. Typed' /\ Chain'
    BY <1>2 DEF FlagsInv
  <2>2. OneRequest'
    BY <2>1, OneAsked, PTL
  <2> QED
    BY <2>2 DEF OneRequest
<1>3. ASSUME FlagsInv
      PROVE  \A l \in Range(listening) :
               (heard[l] # None /\ \A r \in DOMAIN refreshes : refreshes[r].phase # "thrown")
                   => heard[l] = currentSet(cache)
  BY <1>3 DEF FlagsInv, HeardLast
<1>4. FlagsInv /\ FlagsInv' /\ [Next]_vars =>
        [/\ Cardinality({r \in DOMAIN refreshes' : refreshes'[r].phase = "asked"}) <= 1
         /\ cache # None => cache'.by >= cache.by
         /\ \A l \in Range(listening) :
              (heard[l] # None /\ \A r \in DOMAIN refreshes : refreshes[r].phase # "thrown")
                  => heard[l] = currentSet(cache)]_vars
  BY <1>1, <1>2, <1>3
<1> QED
  BY <1>4, FlagsInvariant, PTL DEF Spec, CommitsInOrder
=============================================================================
