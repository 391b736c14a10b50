------------------------- MODULE DropOldestBuffer -------------------------
(* What a server-side capture buffer promises, whatever drains it: events  *)
(* are accepted in order into a bounded buffer, the oldest one makes room  *)
(* when the buffer is full, and a drain hands over a prefix of the buffer. *)
(* The TypeScript BatchQueue and the Python BatchConsumer both implement   *)
(* this specification; neither timers, threads nor batches appear here.    *)
EXTENDS Naturals, Sequences

CONSTANTS Capacity,    \* how many events may wait at once
          MaxEvents    \* bound: how many events a behaviour accepts

VARIABLES accepted,    \* how many events were accepted; event n is the n-th
          waiting,     \* the events that wait, oldest first
          released,    \* the events handed over to a delivery
          lost         \* the events that made room, or were abandoned

bufferVars == <<accepted, waiting, released, lost>>

Elements(s) == {s[i] : i \in 1..Len(s)}

BufferInit == /\ accepted = 0
              /\ waiting = <<>>
              /\ released = {}
              /\ lost = {}

Accept ==
    /\ accepted < MaxEvents
    /\ accepted' = accepted + 1
    /\ LET full == Len(waiting) >= Capacity
       IN  /\ waiting' = Append(IF full THEN Tail(waiting) ELSE waiting, accepted')
           /\ lost' = IF full THEN lost \cup {Head(waiting)} ELSE lost
    /\ UNCHANGED released

Release ==
    /\ \E n \in 1..Len(waiting) :
          /\ waiting' = SubSeq(waiting, n + 1, Len(waiting))
          /\ released' = released \cup {waiting[i] : i \in 1..n}
    /\ UNCHANGED <<accepted, lost>>

Abandon ==
    /\ waiting' = <<>>
    /\ lost' = lost \cup Elements(waiting)
    /\ UNCHANGED <<accepted, released>>

BufferNext == Accept \/ Release \/ Abandon

BufferSafety == BufferInit /\ [][BufferNext]_bufferVars

BufferSpec == BufferSafety /\ WF_bufferVars(Release)
=============================================================================
