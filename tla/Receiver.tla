------------------------------ MODULE Receiver ------------------------------
(* ts/packages/node/src/receiver: the endpoint a self-hosting consumer       *)
(* mounts.  One request is one batch and one statement on the events table. *)
(* An event is [uuid, storable]; a batch is a sequence of events; a row is   *)
(* the position of the event in the sender's batch and the receipt instant. *)
EXTENDS Naturals, Sequences

CONSTANTS Uuid, NoRow

VARIABLE table      \* the events table: uuid -> row, NoRow where there is none

---------------------------------------------------------------------------
\* Mutant of Upsert: ON CONFLICT DO UPDATE.
Upsert_Updates(batch, receipt) ==
    [u \in Uuid |->
        LET same == {i \in DOMAIN batch : batch[i].uuid = u}
        IN  IF same = {} THEN table[u]
            ELSE LET last == CHOOSE i \in same : \A j \in same : j <= i
                 IN  [event |-> batch[last].position, receipt |-> receipt]]

(* INSERT ... ON CONFLICT (uuid) DO NOTHING of the whole batch: a uuid that *)
(* is in the table, or earlier in the statement, is skipped.                *)
Upsert(batch, receipt) ==
    [u \in Uuid |->
        LET same == {i \in DOMAIN batch : batch[i].uuid = u}
        IN  IF table[u] # NoRow \/ same = {} THEN table[u]
            ELSE LET first == CHOOSE i \in same : \A j \in same : i <= j
                 IN  [event |-> batch[first].position, receipt |-> receipt]]

\* Mutant of Executes: a value the driver refuses is written as the rest is.
Executes_RowByRow(batch, receipt, result) ==
    IF result = "unreachable" THEN table' = table
    ELSE table' = Upsert(SelectSeq(batch, LAMBDA e : e.storable), receipt)

(* A connection and a statement, which is atomic: one value the database    *)
(* refuses takes the whole batch with it.  Closing the connection is in the *)
(* finally, so it can fail after the commit.                                *)
Executes(batch, receipt, result) ==
    IF result = "unreachable" THEN table' = table
    ELSE /\ \A i \in DOMAIN batch : batch[i].storable
         /\ table' = Upsert(batch, receipt)

Refuses(batch) ==
    /\ \E i \in DOMAIN batch : ~batch[i].storable
    /\ table' = table

\* Mutant of translate: a write that throws is acknowledged.
translate_SwallowsFailure(outcome) ==
    IF outcome = "malformed_body" THEN "permanent" ELSE "accepted"

(* translate: accepted is 200, a malformed body 400, an exception 500, in   *)
(* the sender's terms "accepted", "permanent" and "transient".              *)
translate(outcome) ==
    CASE outcome = "accepted" -> "accepted"
      [] outcome = "malformed_body" -> "permanent"
      [] outcome = "throws" -> "transient"

(* receive: what a body comes to.  `readable` says that the raw body came   *)
(* with the Content-Encoding it has, and is an envelope with a batch.       *)
receive(batch, readable, receipt, outcome) ==
    \/ /\ ~readable
       /\ outcome = "malformed_body"
       /\ table' = table
    \/ /\ readable
       /\ \/ batch = <<>> /\ outcome = "accepted" /\ table' = table
          \/ batch # <<>> /\ outcome = "accepted" /\ Executes(batch, receipt, "closed")
          \/ batch # <<>> /\ outcome = "throws"
             /\ \/ \E result \in {"unreachable", "not closed"} : Executes(batch, receipt, result)
                \/ Refuses(batch)
=============================================================================
