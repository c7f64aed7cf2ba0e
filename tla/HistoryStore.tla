---------------------------- MODULE HistoryStore ----------------------------
(***************************************************************************)
(* What the journal and its uploader promise together while the machine    *)
(* keeps its power: one history that only grows at its end, a replica in   *)
(* the database that is a prefix of it and grows by whole batches, and a   *)
(* cursor that never passes the replica.                                   *)
(***************************************************************************)
EXTENDS Naturals, Sequences

CONSTANT Record

VARIABLES
  history,   \* every record a client may be shown, in order
  replica,   \* how many of them the database holds
  cursor     \* how many of them the service knows the database to hold

hvars == <<history, replica, cursor>>

Init == history = <<>> /\ replica = 0 /\ cursor = 0

Accept(r) ==
  /\ history' = Append(history, r)
  /\ UNCHANGED <<replica, cursor>>

Replicate(n) ==
  /\ replica < n /\ n <= Len(history)
  /\ replica' = n
  /\ UNCHANGED <<history, cursor>>

Confirm(n) ==
  /\ cursor < n /\ n <= replica
  /\ cursor' = n
  /\ UNCHANGED <<history, replica>>

Next ==
  \/ \E r \in Record : Accept(r)
  \/ \E n \in 1..Len(history) : Replicate(n) \/ Confirm(n)

Spec == Init /\ [][Next]_hvars
=============================================================================
