------------------------------- MODULE RunRows -------------------------------
(***************************************************************************)
(* The rows of m0_assessment_runs and the legal ways to change one row:    *)
(* modules/m0_platform/workflow.py together with the row-level part of     *)
(* infrastructure/sqlite/m0_repository.py.  There is no state here; the    *)
(* store (AssessmentRuns) and the request threads (AssessmentWorkflow) are *)
(* built from these operators.                                             *)
(*                                                                         *)
(* A row keeps what its guards look at.  Checksums, snapshot identities    *)
(* and policy identities are opaque values; updated_at, error_code and the *)
(* replay identity fields are left out (an operation is named by its       *)
(* identity, so two requests with different payloads are two operations).  *)
(***************************************************************************)
EXTENDS Naturals

CONSTANTS
  Checksums,   \* scoring-bundle checksums
  Baselines,   \* M5 baselines: a (learner snapshot, class snapshot) pair
  NoRef,       \* NULL of a reference column
  NoOwner      \* NULL of locked_by

ASSUME NullsAreNotValues == NoRef \notin Checksums /\ NoRef \notin Baselines

Kinds == {"start", "submit", "review", "rescore"}

WaitingStatuses == {"awaiting_review", "awaiting_rescore"}

Statuses == {"pending", "running", "failed", "completed"} \cup WaitingStatuses

(* The checkpoint chain of each operation, as a successor function. *)
After ==
  [start |->
     [pending |-> "claimed", claimed |-> "task_saved",
      task_saved |-> "paper_saved", paper_saved |-> "completed"],
   submit |->
     [pending |-> "claimed", claimed |-> "scoring_saved",
      scoring_saved |-> "events_appended",
      events_appended |-> "state_inputs_frozen",
      state_inputs_frozen |-> "state_saved", state_saved |-> "policy_frozen",
      policy_frozen |-> "tutoring_saved", tutoring_saved |-> "feedback_saved",
      feedback_saved |-> "analytics_saved", analytics_saved |-> "completed"],
   review |->
     [pending |-> "claimed", claimed |-> "decision_saved",
      decision_saved |-> "review_saved", review_saved |-> "events_appended",
      events_appended |-> "state_inputs_frozen",
      state_inputs_frozen |-> "state_saved", state_saved |-> "analytics_saved",
      analytics_saved |-> "completed"],
   rescore |->
     [pending |-> "claimed", claimed |-> "scoring_saved",
      scoring_saved |-> "completed"]]

Checkpoints(k) == DOMAIN After[k] \cup {"completed"}

AllCheckpoints == UNION {Checkpoints(k) : k \in Kinds}

PolicyBound ==
  {"policy_frozen", "tutoring_saved", "feedback_saved", "analytics_saved",
   "completed"}

PolicyAdoptable == {"tutoring_saved", "feedback_saved", "analytics_saved"}

PostState ==
  [start   |-> {},
   submit  |-> {"state_saved"} \cup PolicyBound,
   review  |-> {"state_saved", "analytics_saved", "completed"},
   rescore |-> {}]

(***************************************************************************)
(* previous_state_frozen is three-valued: "unset" is the NULL of a start   *)
(* row or of a row written before the column existed, "open" is 0 and      *)
(* "frozen" is 1.  stateV = 0 is a NULL state_version; deps says that the  *)
(* dependency columns are filled, policy that the policy columns are.      *)
(***************************************************************************)
Rows(owners) ==
  [checkpoint : AllCheckpoints,
   status     : Statuses,
   version    : Nat \ {0},
   owner      : owners \cup {NoOwner},
   lease      : Nat,
   scoring    : Checksums \cup {NoRef},
   stateV     : Nat,
   feedback   : BOOLEAN,
   report     : BOOLEAN,
   frozen     : {"unset", "open", "frozen"},
   base       : Baselines \cup {NoRef},
   policy     : BOOLEAN,
   deps       : BOOLEAN]

NewRow(k) ==
  [checkpoint |-> "pending", status |-> "pending", version |-> 1,
   owner |-> NoOwner, lease |-> 0, scoring |-> NoRef, stateV |-> 0,
   feedback |-> FALSE, report |-> FALSE,
   frozen |-> IF k = "start" THEN "unset" ELSE "open",
   base |-> NoRef, policy |-> FALSE, deps |-> TRUE]

(* What AssessmentRun.__post_init__ demands of a completed row. *)
CompletedRefsPresent(k, r) ==
  /\ k # "start" => r.scoring # NoRef
  /\ k = "submit" => r.feedback /\ ((r.stateV = 0) <=> ~ r.report)

(* AssessmentRun.__post_init__: a row that breaks this cannot be loaded. *)
ValidRow(k, r) ==
  /\ r.checkpoint \in Checkpoints(k)
  /\ r.policy => /\ k = "submit"
                 /\ r.checkpoint \in PolicyBound
                 /\ r.stateV # 0
                 /\ r.frozen = "frozen"
  /\ r.base # NoRef => r.frozen = "frozen"
  /\ r.status = "completed" => CompletedRefsPresent(k, r)
  /\ (r.owner = NoOwner) <=> (r.lease = 0)
-----------------------------------------------------------------------------
(* Leases.  `now` is the caller's clock reading, taken before the call. *)

Live(r, now) == r.status = "running" /\ r.owner # NoOwner /\ r.lease > now

(* Mutant: a take-over that forgets to compare the lease with the clock. *)
ExpiredAlways(r, now) == r.status = "running" /\ r.owner # NoOwner

Expired(r, now) == r.status = "running" /\ r.owner # NoOwner /\ r.lease <= now

Owned(r, version, owner) == r.version = version /\ r.owner = owner

Bump(r) == [r EXCEPT !.version = @ + 1]

(* Mutant: a lease granted without a new version. *)
LeasedInPlace(r, owner, until) == [r EXCEPT !.owner = owner, !.lease = until]

Leased(r, owner, until) == [Bump(r) EXCEPT !.owner = owner, !.lease = until]

Released(r) == [Bump(r) EXCEPT !.owner = NoOwner, !.lease = 0]
-----------------------------------------------------------------------------
(* claim_assessment_run: a pending row moves on, a failed one resumes. *)

(* Mutant: everything but a running row may be claimed. *)
ClaimableUnlessRunning(r) == r.status # "running"

Claimable(r) == r.status \in {"pending", "failed"}

(* Mutant: the status column receives the checkpoint's name. *)
ClaimedAsStatus(k, r, owner, until) ==
  [Leased(r, owner, until) EXCEPT !.status = "claimed"]

Claimed(k, r, owner, until) ==
  [Leased(r, owner, until) EXCEPT
     !.status = "running",
     !.checkpoint = IF r.status = "pending" THEN After[k][@] ELSE @]

(* The references an advance carries; these carry none. *)
NoRefs ==
  [scoring |-> NoRef, stateV |-> 0, feedback |-> FALSE, report |-> FALSE,
   frozen |-> FALSE, base |-> NoRef, policy |-> FALSE]

Pick(new, null, old) == IF new = null THEN old ELSE new

Advanced(r, cp, refs) ==
  LET done == cp = "completed"
  IN  [Bump(r) EXCEPT
         !.checkpoint = cp,
         !.status   = IF done THEN "completed" ELSE "running",
         !.owner    = IF done THEN NoOwner ELSE @,
         !.lease    = IF done THEN 0 ELSE @,
         !.scoring  = Pick(refs.scoring, NoRef, @),
         !.stateV   = Pick(refs.stateV, 0, @),
         !.feedback = @ \/ refs.feedback,
         !.report   = @ \/ refs.report,
         !.frozen   = IF refs.frozen THEN "frozen" ELSE @,
         !.base     = Pick(refs.base, NoRef, @),
         !.policy   = @ \/ refs.policy]

(* _validate_state_input_transition and _validate_policy_transition. *)
DedicatedCheckpoints(r, cp, refs) ==
  /\ IF cp = "state_inputs_frozen" THEN r.frozen = "open" /\ refs.frozen
                                   ELSE ~ refs.frozen /\ refs.base = NoRef
  /\ IF cp = "policy_frozen" THEN ~ r.policy /\ refs.policy ELSE ~ refs.policy

(* advance_assessment_run, once version, owner and lease have been checked. *)
CanAdvance(k, r, cp, refs) ==
  /\ r.status # "completed"
  /\ r.checkpoint \in DOMAIN After[k]
  /\ cp = After[k][r.checkpoint]
  /\ DedicatedCheckpoints(r, cp, refs)
  /\ ValidRow(k, Advanced(r, cp, refs))

(* rebase_review_state_inputs: only before the M5 write. *)
(* Mutant: a rebase allowed at any checkpoint of a frozen review. *)
CanRebaseAnytime(k, r) == k = "review" /\ r.status = "running" /\ r.frozen = "frozen"

CanRebase(k, r) ==
  /\ k = "review" /\ r.status = "running" /\ r.checkpoint = "state_inputs_frozen"
  /\ r.frozen = "frozen" /\ r.stateV = 0

Rebased(r, base) == [Bump(r) EXCEPT !.base = base]

Failed(r) == [Released(r) EXCEPT !.status = "failed"]

(* park_assessment_run: optional baseline and checksum overrides. *)
Parked(r, status, freeze, base, scoring) ==
  [Released(r) EXCEPT
     !.status  = status,
     !.frozen  = IF freeze THEN "frozen" ELSE @,
     !.base    = Pick(base, NoRef, @),
     !.scoring = Pick(scoring, NoRef, @)]

Resumed(r, owner, until) == [Leased(r, owner, until) EXCEPT !.status = "running"]

(* finish_assessment_run: completes from any checkpoint. *)
Finished(r, refs) ==
  [Released(r) EXCEPT
     !.checkpoint = "completed", !.status = "completed",
     !.scoring  = Pick(refs.scoring, NoRef, @),
     !.stateV   = Pick(refs.stateV, 0, @),
     !.feedback = @ \/ refs.feedback,
     !.report   = @ \/ refs.report]
-----------------------------------------------------------------------------
(* Rows written before the dependency columns existed, and their adoption. *)

LegacyRow(k, cp, status, owner, until) ==
  [NewRow(k) EXCEPT
     !.checkpoint = cp, !.status = status, !.owner = owner, !.lease = until, !.frozen = "unset", !.deps = FALSE,
     !.scoring = IF cp \in {"pending", "claimed"} THEN NoRef
                 ELSE CHOOSE c \in Checksums : TRUE,
     !.stateV = IF cp \in PostState[k] THEN 1 ELSE 0,
     !.feedback = k = "submit" /\ cp \in {"feedback_saved", "analytics_saved", "completed"},
     !.report = k = "submit" /\ cp \in {"analytics_saved", "completed"}]

(* reconcile_legacy_assessment_run: the dependency half. *)
CanAdoptDependencies(k, r) ==
  /\ ~ r.deps /\ r.frozen = "unset" /\ r.base = NoRef
  /\ r.checkpoint # "state_inputs_frozen"
  /\ k # "start" /\ r.checkpoint \in PostState[k] => r.stateV # 0

AdoptedDependencies(k, r) ==
  [Bump(r) EXCEPT
     !.deps = TRUE,
     !.frozen = IF k = "start" THEN "unset"
                ELSE IF r.checkpoint \in PostState[k] THEN "frozen" ELSE "open"]

(* _reconcile_legacy_policy_identity: the policy half. *)
(* Mutant: the policy identity is adopted at any post-state checkpoint. *)
CanAdoptPolicyEarly(k, r) ==
  r.deps /\ ~ r.policy /\ k = "submit" /\ r.stateV # 0 /\ r.frozen = "frozen"

CanAdoptPolicy(k, r) ==
  /\ r.deps /\ ~ r.policy /\ k = "submit"
  /\ r.checkpoint \in PolicyAdoptable
  /\ r.stateV # 0 /\ r.frozen = "frozen"

AdoptedPolicy(r) == [Bump(r) EXCEPT !.policy = TRUE]
=============================================================================
