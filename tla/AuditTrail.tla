------------------------------ MODULE AuditTrail ------------------------------
(***************************************************************************)
(* What the outbox promises about learning events, whatever its workers    *)
(* suffer: an event that was accepted is owed to the audit trail until it  *)
(* is in it, and it enters the trail at most once.                         *)
(* Outbox implements it (Outbox!Trail).                                    *)
(***************************************************************************)
EXTENDS Sequences

CONSTANT Events

VARIABLES
  owed,   \* accepted events the system still answers for
  known,  \* every event accepted so far
  trail   \* the complete rows of the audit trail

Recorded == {trail[i] : i \in DOMAIN trail}

Init == owed = {} /\ known = {} /\ trail = <<>>

Accept ==
  \E new \in SUBSET (Events \ known) :
    owed' = owed \cup new /\ known' = known \cup new /\ UNCHANGED trail

Write ==
  \E e \in known \ Recorded : trail' = Append(trail, e) /\ UNCHANGED <<owed, known>>

Settle ==
  \E e \in owed \cap Recorded : owed' = owed \ {e} /\ UNCHANGED <<known, trail>>

Next == Accept \/ Write \/ Settle

Spec == Init /\ [][Next]_<<owed, known, trail>>
=============================================================================
