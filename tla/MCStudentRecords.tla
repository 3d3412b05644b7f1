-------------------------- MODULE MCStudentRecords --------------------------
(***************************************************************************)
(* Three parts of what is kept for a student that share no row, checked    *)
(* side by side: the assessment runs of one paper, the learning profile    *)
(* and the choice of the questions of a paper.  A behaviour chooses one of *)
(* them and leaves the others alone.                                       *)
(***************************************************************************)
EXTENDS AssessmentRuns, LearningProfile, PaperGeneration, TLC

CONSTANTS t1, t2, f1, f2, a1, a2, q1, q2, c1, c2, r1, r2

(* Runs: two submissions and two reviews of one paper. *)
Pair == {t1, t2}
TwoFlows == {f1, f2}
DistinctFlows == t1 :> f1 @@ t2 :> f2
PaperOps == {"s", "s2", "r1", "r2"}
PaperKind == "s" :> "submit" @@ "s2" :> "submit" @@ "r1" :> "review" @@ "r2" :> "review"
PaperPaper == [op \in PaperOps |-> "p"]
PaperVersions == "s" :> 4 @@ "s2" :> 3 @@ "r1" :> 8 @@ "r2" :> 3

(* Profile: two papers share a question, two questions share a concept. *)
TwoPapers == (a1 :> {q1, q2}) @@ (a2 :> {q1})
Links == (q1 :> {c1}) @@ (q2 :> {c1, c2})

(* Bound: up to the last result anything occurs together.  After it no question is *)
(* withdrawn, and a paper of corrections occurs beside one attempt, not two.       *)
ProfileBound ==
    Results < MaxResults \/ (offered = Items /\ (practice = <<>> \/ scores[a2] = <<>>))

(* Papers: every bank of three questions over two concepts against sections with *)
(* and without anchors and weights, a second section left with what remains.     *)
Cards == [concepts : {{1}, {2}, {1, 2}}, points : {1, 2}, objective : BOOLEAN]
BlueprintPlans ==
    { [mode |-> "blueprint", bank |-> bank, sections |-> <<first, second>>] :
        bank \in [1..3 -> {card \in Cards : card.objective = (card.points = 1)}],
        first \in [accepts : {{1, 2, 3}}, anchors : {<<>>, <<2>>}, count : {1, 2},
                   score : {2, 3}, weights : {<<>>, <<5, 5>>, <<7, 3>>}],
        second \in [accepts : {{1, 2}}, anchors : {<<>>}, count : {1}, score : {1},
                    weights : {<<>>}] }
Known == { [attempted |-> 0, correct |-> 0], [attempted |-> 2, correct |-> 1],
           [attempted |-> 1, correct |-> 1] }
StagePlans ==
    [mode : {"stage_assessment"}, bank : [1..5 -> [concepts : {{1}, {2}, {3}, {1, 2}}]],
     mastery : [1..3 -> Known]]
OtherPlans ==
    [mode : {"diagnostic", "practice", "correction"},
     bank : [1..4 -> [concepts : {{1}, {1, 2}}]] \union {<<>>},
     mastery : [1..2 -> Known], wrong : {{}, {1, 3, 5}}]
EmptyPlan == CHOOSE p \in OtherPlans : p.bank = <<>>
AllPlans == BlueprintPlans \union StagePlans \union OtherPlans

RequestSymmetry == Permutations({r1, r2})

VARIABLE part

RecordsInit ==
    /\ part \in {"runs", "profile", "paper"}
    /\ Init
    /\ part # "runs" => \A op \in LegacyOps : rows[op].status = "pending"
    /\ \/ part = "paper"
       \/ part # "paper" /\ plan = EmptyPlan
    /\ PaperInit /\ ProfileInit

RecordsNext ==
    /\ UNCHANGED part
    /\ \/ /\ part = "runs"
          /\ Next
          /\ UNCHANGED <<profileVars, paperVars>>
       \/ /\ part = "profile"
          /\ ProfileNext
          /\ UNCHANGED <<vars, paperVars>>
       \/ /\ part = "paper"
          /\ PaperNext
          /\ UNCHANGED <<vars, profileVars>>

RecordsSpec == RecordsInit /\ [][RecordsNext]_<<part, vars, profileVars, paperVars>>

(* The variables of the part at work keep their types. *)
RecordsTypeOK ==
    /\ part = "runs" => TypeOK
    /\ part = "profile" => ProfileTypeOK
    /\ part = "paper" => PaperTypeOK
=============================================================================
