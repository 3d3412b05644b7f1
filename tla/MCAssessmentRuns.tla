-------------------------- MODULE MCAssessmentRuns --------------------------
(***************************************************************************)
(* One submit run under two threads, and the start of an assessment under  *)
(* two visitors: the two uses of a run's lease, checked side by side.      *)
(***************************************************************************)
EXTENDS AssessmentRuns, AssessmentStart, TLC

CONSTANTS t1, t2, f1, f2, v1, v2, hint, free

Pair == {t1, t2}
TwoFlows == {f1, f2}
DistinctFlows == t1 :> f1 @@ t2 :> f2
SubmitOps == {"s"}
SubmitKind == "s" :> "submit"
SubmitPaper == "s" :> "p"
SubmitVersions == "s" :> 12

(* A hint means one task, a free text may be read in three ways. *)
Meanings == (hint :> {"correction"}) @@ (free :> {"diagnostic", "practice", Refused})
NothingToPractise == {<<"practice", 1>>}
VisitorSymmetry == Permutations({v1, v2})

VARIABLE part

RunsInit ==
    /\ part \in {"submit", "start"}
    /\ Init /\ StartInit

RunsNext ==
    /\ UNCHANGED part
    /\ \/ /\ part = "submit"
          /\ Next
          /\ UNCHANGED startVars
       \/ /\ part = "start"
          /\ StartNext
          /\ UNCHANGED vars

RunsSpec == RunsInit /\ [][RunsNext]_<<part, vars, startVars>>

(* The variables of both keep their types. *)
RunsTypeOK == TypeOK /\ StartTypeOK
=============================================================================
