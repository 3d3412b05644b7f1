---------------------------- MODULE ProfilePosting ----------------------------
(***************************************************************************)
(* What one attempt promises to the learner's profile and to the student,  *)
(* whatever requests, retries and crashes it takes: evidence is posted in  *)
(* growing portions and never twice, and the student's result is closed    *)
(* once, with a portion that has been posted.                              *)
(* AssessmentWorkflow implements it (AssessmentWorkflow!Posting).          *)
(***************************************************************************)
EXTENDS Naturals, Sequences, SequencesExt

VARIABLES
  posted,  \* the portions of evidence in the profile, in posting order
  answer   \* the portion the student's final result is based on, {} before

Init == posted = <<>> /\ answer = {}

Post ==
  /\ Len(posted') = Len(posted) + 1 /\ posted = Front(posted')
  /\ Last(posted') # {}
  /\ \A i \in DOMAIN posted :
       posted[i] \subseteq Last(posted') /\ posted[i] # Last(posted')
  /\ UNCHANGED answer

Close ==
  /\ answer = {}
  /\ \E i \in DOMAIN posted : answer' = posted[i]
  /\ UNCHANGED posted

Next == Post \/ Close

Spec == Init /\ [][Next]_<<posted, answer>>
=============================================================================
