------------------------- MODULE MCOutboxAndTutoring -------------------------
(***************************************************************************)
(* The outbox and the tutoring session, which share no row, side by side:  *)
(* a behaviour chooses one of them and leaves the other alone.             *)
(***************************************************************************)
EXTENDS Outbox, TutoringSession

Needs == <<"practise", "advance", "advance">>

VARIABLE part

BothInit == part \in {"outbox", "tutoring"} /\ Init /\ TutoringInit

BothNext ==
    /\ UNCHANGED part
    /\ \/ part = "outbox" /\ Next /\ UNCHANGED tutoringVars
       \/ part = "tutoring" /\ TutoringNext /\ UNCHANGED vars

(* Fairness and TutoringFairness, each for the part that runs. *)
BothFairness ==
    /\ \A w \in Workers : WF_vars(part = "outbox" /\ Step(w))
    /\ \A w \in Daemons :
         WF_vars(part = "outbox" /\ \E es \in SUBSET Events : ClaimBatch(w, es))
    /\ \A e \in Events :
         /\ WF_vars(part = "outbox" /\ Expire(e) /\ ~ Held(e))
         /\ WF_vars(part = "outbox" /\ BecomeDue(e))
    /\ \A t \in Threads : WF_tutoringVars(part = "tutoring" /\ TutoringStep(t))
    /\ \A k \in Scored :
         SF_tutoringVars(part = "tutoring" /\ \E t \in Threads : BeginScored(t, k))

BothSpec == BothInit /\ [][BothNext]_<<part, vars, tutoringVars>> /\ BothFairness

(* A session that runs settles its requests. *)
SessionSettles == part = "tutoring" => RequestsSettle
=============================================================================
