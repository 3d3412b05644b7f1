------------------------- MODULE MCAssessmentWorkflow -------------------------
(* Instances of AssessmentWorkflow for TLC.  Request threads are alike. *)
EXTENDS AssessmentWorkflow, TLC

CONSTANTS t1, t2, s1, ra, rb, rb2, rc, rx

OneThread == {t1}
TwoThreads == {t1, t2}
ThreadSymmetry == Permutations(TwoThreads)
OneSubmission == {s1}
TwoItems == {"a", "b"}
ThreeItems == {"a", "b", "c"}
TargetOf == [q \in Reviews \cup Rescores |-> (ra :> "a" @@ rb :> "b" @@ rb2 :> "b" @@ rc :> "c" @@ rx :> "b")[q]]
Approve == [q \in Reviews |-> "approved"]
RejectB == [q \in Reviews |-> IF q = rb THEN "rejected" ELSE "approved"]
AllPending == {[a \in Audits |-> "pending"]}
AnyScores == [Audits -> {"pending", "approved"}]

Issued == {q \in Reviews \cup Rescores : forms[q] # NotIssued}

(* Either requests fail and other students post while both items are      *)
(* reviewed, or approvals, a rejection and a rescore race undisturbed.     *)
RacingForms ==
  \/ Issued \subseteq {ra, rb2}
  \/ faults = 0 /\ classV = Len(updates)

RacingSpec == Init /\ [][Next /\ RacingForms']_vars

(* Either requests fail, or a review is decided on a second, equal form. *)
RepeatedForms == faults = 0 \/ Issued \subseteq {ra, rb}

RepeatedSpec == Init /\ [][Next /\ RepeatedForms']_vars /\ Fairness
=============================================================================
