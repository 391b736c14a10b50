----------------------------- MODULE EventTable -----------------------------
(* What the self-hosted ingest promises of the `events` table, whatever the *)
(* senders and the network do: an event is one row, written once, and what  *)
(* was written first stands.                                                *)
CONSTANTS Uuid, Row, NoRow

VARIABLE table

TableInit == table = [u \in Uuid |-> NoRow]

TableNext ==
    /\ table' \in [Uuid -> Row \cup {NoRow}]
    /\ \A u \in Uuid : table[u] # NoRow => table'[u] = table[u]

TableSpec == TableInit /\ [][TableNext]_table
=============================================================================
