------------------------------ MODULE Delivery ------------------------------
(* A delivery (SendBatch) into the self-hosted receiver (Receiver): the      *)
(* requests and answers between them can be lost, refused on the way, or    *)
(* arrive after the sender has given them up and sent the records again.    *)
EXTENDS SendBatch, FiniteSets, Sequences

CONSTANTS MaxFaulty,    \* bound: the records that cannot be serialised or stored
          MaxLate,      \* bound: given-up requests that still travel
          NoRow, NoRequest

ASSUME DeliveryAssumption ==
    /\ MaxFaulty \in Nat /\ MaxLate \in Nat
    /\ NoRow \notin [event : Nat, receipt : Nat]

VARIABLES uuid,         \* the dedupeId each record was captured with
          unstorable,   \* records the database refuses (a NUL in a string, say)
          table,        \* the events table
          request,      \* the request under way, with its reply once there is one
          late          \* requests the sender has given up that still travel

deliveryVars == <<vars, uuid, unstorable, table, request, late>>

Uuid == 1..MaxRecords

R == INSTANCE Receiver

(* dedupeId is the caller's or random: a record shares the uuid of an       *)
(* earlier one, or has its own.                                             *)
DeliveryInit ==
    /\ Init
    /\ unstorable \in SUBSET Record
    /\ Cardinality(unserialisable) + Cardinality(unstorable) <= MaxFaulty
    /\ uuid \in {f \in [Record -> Record] : \A r \in Record : f[r] <= r /\ f[f[r]] = f[r]}
    /\ table = [u \in Uuid |-> NoRow]
    /\ request = NoRequest
    /\ late = {}

---------------------------------------------------------------------------
(* The batch of the envelope, in the order of the slice.                    *)
Envelope(records) ==
    [i \in DOMAIN records |-> [position |-> records[i], uuid |-> uuid[records[i]],
                               storable |-> records[i] \notin unstorable]]

Local ==
    /\ ChooseSlice \/ SerialisationThrows \/ RetryDelayElapses \/ Finished
    /\ request = NoRequest
    /\ UNCHANGED <<uuid, unstorable, table, request, late>>

Post ==
    /\ delivering = "post"
    /\ Slice \cap unserialisable = {}
    /\ request = NoRequest
    /\ request' = [records |-> [i \in 1..slice |-> done + i], reply |-> "none"]
    /\ UNCHANGED <<vars, uuid, unstorable, table, late>>

(* The mount reads the raw body, calls the receiver and sets the status.    *)
Received ==
    /\ request # NoRequest
    /\ request.reply = "none"
    /\ \E readable \in BOOLEAN, outcome \in {"accepted", "malformed_body", "throws"} :
          /\ R!receive(Envelope(request.records), readable, posts, outcome)
          /\ request' = [request EXCEPT !.reply = R!translate(outcome)]
    /\ UNCHANGED <<vars, uuid, unstorable, late>>

(* External: a body limit or a gateway answers in the receiver's place.     *)
Intercepted ==
    /\ request # NoRequest
    /\ request.reply = "none"
    /\ \E status \in Statuses \ {"accepted"} : Answered(status)
    /\ request' = NoRequest
    /\ UNCHANGED <<uuid, unstorable, table, late>>

Replied ==
    /\ request # NoRequest
    /\ request.reply # "none"
    /\ Answered(request.reply)
    /\ request' = NoRequest
    /\ UNCHANGED <<uuid, unstorable, table, late>>

(* fetch rejects: the request was lost, or it, or its answer, still travels.*)
ConnectionLost ==
    /\ request # NoRequest
    /\ Answered("transient")
    /\ request' = NoRequest
    /\ \/ UNCHANGED late
       \/ /\ request.reply = "none"
          /\ Cardinality(late) < MaxLate
          /\ late' = late \cup {request.records}
    /\ UNCHANGED <<uuid, unstorable, table>>

ReceivedLate ==
    /\ \E records \in late :
          /\ \E readable \in BOOLEAN, outcome \in {"accepted", "malformed_body", "throws"} :
                R!receive(Envelope(records), readable, posts, outcome)
          /\ late' = late \ {records}
    /\ UNCHANGED <<vars, uuid, unstorable, request>>

DeliveryNext ==
    \/ Local
    \/ Post
    \/ Received
    \/ Intercepted
    \/ Replied
    \/ ConnectionLost
    \/ ReceivedLate

DeliverySpec == DeliveryInit /\ [][DeliveryNext]_deliveryVars

---------------------------------------------------------------------------
Rows == [event : Uuid, receipt : Nat]

DeliveryTypeOK ==
    /\ TypeOK
    /\ uuid \in [Record -> Record]
    /\ unstorable \subseteq Record
    /\ \A u \in Uuid : table[u] = NoRow \/ table[u] \in Rows
    /\ request = NoRequest \/ request \in [records : Seq(Record),
                                           reply : Statuses \cup {"none"}]
    /\ late \subseteq Seq(Record)

(* What the sender is told was accepted is in the table: as its own row, or *)
(* as that of the event whose dedupeId it shares.                           *)
AcceptedIsStored ==
    \A r \in Record : fate[r] = "accepted" =>
        table[uuid[r]] # NoRow /\ uuid[table[uuid[r]].event] = uuid[r]

Travelling == late \cup (IF request = NoRequest THEN {} ELSE {request.records})
RecordsOf(records) == {records[i] : i \in DOMAIN records}

(* A slice is stored whole or not at all: an event enters the table with    *)
(* all the events of a slice that travels, none of which the database       *)
(* refuses.  So one refused event keeps its slice out, and a write that     *)
(* failed half way leaves no part of a slice behind.                        *)
StoredWithoutRefused ==
    [][\A r \in Record :
          table[uuid[r]] = NoRow /\ table'[uuid[r]] # NoRow =>
              \E records \in Travelling :
                  /\ table'[uuid[r]].event \in RecordsOf(records)
                  /\ RecordsOf(records) \cap unstorable = {}
                  /\ \A s \in RecordsOf(records) : table'[uuid[s]] # NoRow]_deliveryVars

(* "ON CONFLICT (uuid) DO NOTHING makes it idempotent": retries, re-sliced  *)
(* and late requests and repeated dedupeIds leave one row per uuid, and the *)
(* first row, with its receipt instant, stands.                             *)
Promise == INSTANCE EventTable WITH Row <- Rows
ImplementsEventTable == Promise!TableSpec
=============================================================================
