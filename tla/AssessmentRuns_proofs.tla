------------------------ MODULE AssessmentRuns_proofs ------------------------
(***************************************************************************)
(* What holds of the assessment-run store for every set of operations,     *)
(* threads and baselines, every lease length and every bound.              *)
(*                                                                         *)
(* RowGood is the invariant of one row: with ValidRow it says what the     *)
(* checkpoint promises about the other columns.  The RowStep lemmas prove, *)
(* one per way of changing a row, that it is kept.  StoreInv adds what a   *)
(* thread's memory of a run has to do with the row; the theorems follow.   *)
(***************************************************************************)
EXTENDS AssessmentRuns, TLAPS

RowGood(k, r) ==
  /\ r \in Rows(Owners)
  /\ ValidRow(k, r)
  /\ r.status = "running" <=> r.owner # NoOwner
  /\ r.status = "pending" => r.checkpoint = "pending"
  /\ r.stateV # 0 => r.checkpoint \in PostState[k]

(* What the rows born with all their columns promise beyond that. *)
PolicyKnown(k, r) ==
  /\ r.deps
  /\ k = "submit" /\ r.checkpoint \in PolicyAdoptable \cup {"policy_frozen"} => r.policy

LegalRefs(refs) ==
  refs \in [scoring : Checksums \cup {NoRef}, stateV : Nat, feedback : BOOLEAN,
            report : BOOLEAN, frozen : BOOLEAN, base : Baselines \cup {NoRef},
            policy : BOOLEAN]
-----------------------------------------------------------------------------
(* The checkpoint chains. *)

(* A successor of a checkpoint is a checkpoint; a claimed row is claimed.    *)
LEMMA Chains ==
  ASSUME NEW k \in Kinds
  PROVE  /\ "pending" \in DOMAIN After[k] /\ After[k]["pending"] = "claimed"
         /\ "claimed" \in Checkpoints(k) /\ "pending" \in Checkpoints(k)
         /\ "completed" \in Checkpoints(k)
         /\ Checkpoints(k) \subseteq AllCheckpoints
         /\ \A cp \in DOMAIN After[k] : After[k][cp] \in Checkpoints(k)
BY DEF Kinds, After, Checkpoints, AllCheckpoints

(* Nothing is saved after the M5 write that the row does not know about.     *)
LEMMA PostStateClosed ==
  ASSUME NEW k \in Kinds
  PROVE  /\ \A cp \in DOMAIN After[k] : cp \in PostState[k] => After[k][cp] \in PostState[k]
         /\ "pending" \notin PostState[k] /\ "claimed" \notin PostState[k]
         /\ "scoring_saved" \notin PostState[k] /\ "review_saved" \notin PostState[k]
         /\ \A cp \in DOMAIN After[k] : After[k][cp] = "state_inputs_frozen" => cp \notin PostState[k]
         /\ \A cp \in DOMAIN After[k] : After[k][cp] = "state_saved" => k \in {"submit", "review"}
         /\ k \in {"submit", "review"} => "state_saved" \in PostState[k]
         /\ "completed" \in PostState["submit"]
BY DEF Kinds, After, PostState, PolicyBound

(* Checkpoints past the policy are entered from the policy.                  *)
LEMMA PolicyClosed ==
  /\ \A cp \in DOMAIN After["submit"] :
       After["submit"][cp] \in PolicyAdoptable => cp \in PolicyAdoptable \cup {"policy_frozen"}
  /\ "pending" \notin PolicyAdoptable \cup {"policy_frozen"}
  /\ "claimed" \notin PolicyAdoptable \cup {"policy_frozen"}
  /\ "completed" \notin PolicyAdoptable \cup {"policy_frozen"}
BY DEF After, PolicyAdoptable
-----------------------------------------------------------------------------
(* A row stays a row when one column gets a value of its type. *)
LEMMA VersionColumn ==
  ASSUME NEW r \in Rows(Owners) PROVE Bump(r) \in Rows(Owners)
BY DEF Rows, Bump

LEMMA CheckpointColumn ==
  ASSUME NEW r \in Rows(Owners), NEW x \in AllCheckpoints
  PROVE  [r EXCEPT !.checkpoint = x] \in Rows(Owners)
BY DEF Rows

LEMMA StatusColumn ==
  ASSUME NEW r \in Rows(Owners), NEW x \in Statuses
  PROVE  [r EXCEPT !.status = x] \in Rows(Owners)
BY DEF Rows

LEMMA OwnerColumn ==
  ASSUME NEW r \in Rows(Owners), NEW x \in Owners \cup {NoOwner}
  PROVE  [r EXCEPT !.owner = x] \in Rows(Owners)
BY DEF Rows

LEMMA LeaseColumn ==
  ASSUME NEW r \in Rows(Owners), NEW x \in Nat
  PROVE  [r EXCEPT !.lease = x] \in Rows(Owners)
BY DEF Rows

LEMMA ScoringColumn ==
  ASSUME NEW r \in Rows(Owners), NEW x \in Checksums \cup {NoRef}
  PROVE  [r EXCEPT !.scoring = x] \in Rows(Owners)
BY DEF Rows

LEMMA StateVColumn ==
  ASSUME NEW r \in Rows(Owners), NEW x \in Nat
  PROVE  [r EXCEPT !.stateV = x] \in Rows(Owners)
BY DEF Rows

LEMMA FeedbackColumn ==
  ASSUME NEW r \in Rows(Owners), NEW x \in BOOLEAN
  PROVE  [r EXCEPT !.feedback = x] \in Rows(Owners)
BY DEF Rows

LEMMA ReportColumn ==
  ASSUME NEW r \in Rows(Owners), NEW x \in BOOLEAN
  PROVE  [r EXCEPT !.report = x] \in Rows(Owners)
BY DEF Rows

LEMMA FrozenColumn ==
  ASSUME NEW r \in Rows(Owners), NEW x \in {"unset", "open", "frozen"}
  PROVE  [r EXCEPT !.frozen = x] \in Rows(Owners)
BY DEF Rows

LEMMA BaseColumn ==
  ASSUME NEW r \in Rows(Owners), NEW x \in Baselines \cup {NoRef}
  PROVE  [r EXCEPT !.base = x] \in Rows(Owners)
BY DEF Rows

LEMMA PolicyColumn ==
  ASSUME NEW r \in Rows(Owners), NEW x \in BOOLEAN
  PROVE  [r EXCEPT !.policy = x] \in Rows(Owners)
BY DEF Rows

LEMMA DepsColumn ==
  ASSUME NEW r \in Rows(Owners), NEW x \in BOOLEAN
  PROVE  [r EXCEPT !.deps = x] \in Rows(Owners)
BY DEF Rows

LEMMA LeaseColumns ==
  ASSUME NEW r \in Rows(Owners), NEW w \in Owners, NEW until \in Nat
  PROVE  Leased(r, w, until) \in Rows(Owners) /\ Released(r) \in Rows(Owners)
<1>1. Bump(r) \in Rows(Owners)
  BY VersionColumn
<1>2. Leased(r, w, until) \in Rows(Owners)
  BY <1>1, OwnerColumn, LeaseColumn DEF Leased
<1>3. Released(r) \in Rows(Owners)
  BY <1>1, OwnerColumn, LeaseColumn DEF Released
<1> QED
  BY <1>2, <1>3
-----------------------------------------------------------------------------
(* One lemma per way of changing a row. *)

LEMMA NewRowStep ==
  ASSUME NEW k \in Kinds
  PROVE  RowGood(k, NewRow(k)) /\ PolicyKnown(k, NewRow(k))
BY Chains, PolicyClosed
   DEF RowGood, PolicyKnown, NewRow, Rows, ValidRow, Statuses, WaitingStatuses, CompletedRefsPresent

LEMMA LegacyRowStep ==
  ASSUME NEW k \in Kinds, NEW r \in LegacyStates(k)
  PROVE  RowGood(k, r) /\ r.lease <= LeaseLen
<1>1. PICK cp \in Checkpoints(k) \ {"state_inputs_frozen"}, st \in Statuses \ WaitingStatuses,
           o \in Flows \cup {NoOwner}, l \in 0 .. LeaseLen :
        /\ r = LegacyRow(k, cp, st, o, l)
        /\ (r.status = "pending") <=> (r.checkpoint = "pending")
        /\ (r.status = "completed") <=> (r.checkpoint = "completed")
        /\ (r.status = "running") <=> (r.owner # NoOwner)
        /\ (r.lease = 0) <=> (r.owner = NoOwner)
  BY DEF LegacyStates
<1>2. /\ cp \in AllCheckpoints /\ cp \in Checkpoints(k)
      /\ (CHOOSE c \in Checksums : TRUE) \in Checksums
      /\ "completed" \in PostState["submit"]
  <2>1. cp \in Checkpoints(k)
    OBVIOUS
  <2>2. cp \in AllCheckpoints
    BY <2>1, Chains
  <2>3. (CHOOSE c \in Checksums : TRUE) \in Checksums
    BY ChecksumExists
  <2>4. "completed" \in PostState["submit"]
    BY PostStateClosed DEF Kinds
  <2> QED
    BY <2>1, <2>2, <2>3, <2>4
<1>3. o \in Owners \cup {NoOwner}
  BY DEF Owners
<1>4. l \in Nat /\ l <= LeaseLen
  BY Bounds
<1>5. /\ r.checkpoint = cp /\ r.status = st /\ r.owner = o /\ r.lease = l
      /\ r.scoring = IF cp \in {"pending", "claimed"} THEN NoRef
                     ELSE CHOOSE c \in Checksums : TRUE
      /\ r.stateV = IF cp \in PostState[k] THEN 1 ELSE 0
      /\ r.feedback <=> (k = "submit" /\ cp \in {"feedback_saved", "analytics_saved", "completed"})
      /\ r.report <=> (k = "submit" /\ cp \in {"analytics_saved", "completed"})
      /\ r.frozen = "unset" /\ r.base = NoRef /\ r.policy = FALSE /\ r.deps = FALSE
  BY <1>1 DEF LegacyRow, NewRow
<1>6. r \in Rows(Owners)
  <2>1. NewRow(k) \in Rows(Owners)
    BY NewRowStep DEF RowGood
  <2>2. /\ st \in Statuses /\ (IF cp \in PostState[k] THEN 1 ELSE 0) \in Nat
        /\ (IF cp \in {"pending", "claimed"} THEN NoRef ELSE CHOOSE c \in Checksums : TRUE)
             \in Checksums \cup {NoRef}
        /\ "unset" \in {"unset", "open", "frozen"} /\ FALSE \in BOOLEAN
        /\ (k = "submit" /\ cp \in {"feedback_saved", "analytics_saved", "completed"}) \in BOOLEAN
        /\ (k = "submit" /\ cp \in {"analytics_saved", "completed"}) \in BOOLEAN
    BY <1>2
  <2> QED
    BY <1>1, <1>2, <1>3, <1>4, <2>1, <2>2, CheckpointColumn, StatusColumn, OwnerColumn, LeaseColumn,
       FrozenColumn, DepsColumn, ScoringColumn, StateVColumn, FeedbackColumn, ReportColumn DEF LegacyRow
<1>7. r.status = "completed" => CompletedRefsPresent(k, r)
  BY <1>1, <1>2, <1>5, NullsAreNotValues DEF CompletedRefsPresent
<1>8. ValidRow(k, r)
  BY <1>1, <1>2, <1>5, <1>7 DEF ValidRow
<1> QED
  BY <1>1, <1>5, <1>6, <1>8, <1>4 DEF RowGood

LEMMA ClaimStep ==
  ASSUME NEW k \in Kinds, NEW r, RowGood(k, r), Claimable(r),
         NEW w \in Owners, NEW until \in Nat \ {0}
  PROVE  /\ RowGood(k, Claimed(k, r, w, until))
         /\ PolicyKnown(k, r) => PolicyKnown(k, Claimed(k, r, w, until))
<1> DEFINE c == Claimed(k, r, w, until)
           cp == IF r.status = "pending" THEN "claimed" ELSE r.checkpoint
<1>1. r \in Rows(Owners) /\ r.status \in {"pending", "failed"} /\ until # 0
  BY DEF RowGood, Claimable
<1>2. Leased(r, w, until) \in Rows(Owners)
  BY <1>1, LeaseColumns
<1>3. cp \in AllCheckpoints /\ cp \in Checkpoints(k) /\ "running" \in Statuses
  BY <1>1, Chains DEF RowGood, ValidRow, Statuses
<1>4. c = [[Leased(r, w, until) EXCEPT !.status = "running"] EXCEPT !.checkpoint = cp]
  BY <1>1, Chains DEF Claimed, Leased, Bump, RowGood, Rows
<1> HIDE DEF c, cp
<1>5. c \in Rows(Owners)
  BY <1>2, <1>3, <1>4, CheckpointColumn, StatusColumn
<1>6. /\ c.status = "running" /\ c.checkpoint = cp /\ c.owner = w /\ c.lease = until
      /\ c.scoring = r.scoring /\ c.stateV = r.stateV /\ c.feedback = r.feedback
      /\ c.report = r.report /\ c.frozen = r.frozen /\ c.base = r.base
      /\ c.policy = r.policy /\ c.deps = r.deps
  BY <1>1, <1>4 DEF Leased, Bump, Rows
<1> QED
  BY <1>1, <1>3, <1>5, <1>6, OwnersDistinct, PostStateClosed, PolicyClosed
     DEF c, cp, RowGood, PolicyKnown, ValidRow, CompletedRefsPresent, PolicyBound

LEMMA LeaseStep ==
  ASSUME NEW k \in Kinds, NEW r, RowGood(k, r), r.status = "running",
         NEW w \in Owners, NEW until \in Nat \ {0}
  PROVE  /\ RowGood(k, Leased(r, w, until))
         /\ PolicyKnown(k, r) => PolicyKnown(k, Leased(r, w, until))
<1> DEFINE c == Leased(r, w, until)
<1>1. r \in Rows(Owners) /\ c \in Rows(Owners) /\ until # 0
  BY LeaseColumns DEF RowGood
<1>2. /\ c.owner = w /\ c.lease = until
      /\ c.checkpoint = r.checkpoint /\ c.status = r.status
      /\ c.scoring = r.scoring /\ c.stateV = r.stateV /\ c.feedback = r.feedback
      /\ c.report = r.report /\ c.frozen = r.frozen /\ c.base = r.base
      /\ c.policy = r.policy /\ c.deps = r.deps
  BY <1>1 DEF Leased, Bump, Rows
<1> QED
  BY <1>1, <1>2, OwnersDistinct DEF RowGood, PolicyKnown, ValidRow, CompletedRefsPresent

LEMMA RenewStep ==
  ASSUME NEW k \in Kinds, NEW r, RowGood(k, r), r.status = "running", NEW until \in Nat \ {0}
  PROVE  /\ RowGood(k, [r EXCEPT !.lease = until])
         /\ PolicyKnown(k, r) => PolicyKnown(k, [r EXCEPT !.lease = until])
<1> DEFINE c == [r EXCEPT !.lease = until]
<1>1. r \in Rows(Owners) /\ c \in Rows(Owners) /\ until # 0
  BY LeaseColumn DEF RowGood
<1>2. /\ c.owner = r.owner /\ c.lease = until
      /\ c.checkpoint = r.checkpoint /\ c.status = r.status
      /\ c.scoring = r.scoring /\ c.stateV = r.stateV /\ c.feedback = r.feedback
      /\ c.report = r.report /\ c.frozen = r.frozen /\ c.base = r.base
      /\ c.policy = r.policy /\ c.deps = r.deps
  BY <1>1 DEF Rows
<1> HIDE DEF c
<1>3. RowGood(k, c) /\ (PolicyKnown(k, r) => PolicyKnown(k, c))
  BY <1>1, <1>2, OwnersDistinct DEF RowGood, PolicyKnown, ValidRow, CompletedRefsPresent
<1> QED
  BY <1>3 DEF c

LEMMA ResumeStep ==
  ASSUME NEW k \in Kinds, NEW r, RowGood(k, r), r.status \in WaitingStatuses,
         NEW w \in Owners, NEW until \in Nat \ {0}
  PROVE  /\ RowGood(k, Resumed(r, w, until))
         /\ PolicyKnown(k, r) => PolicyKnown(k, Resumed(r, w, until))
<1> DEFINE c == Resumed(r, w, until)
<1>1. r \in Rows(Owners) /\ until # 0 /\ "running" \in Statuses
  BY DEF RowGood, Statuses
<1>2. c \in Rows(Owners)
  BY <1>1, LeaseColumns, StatusColumn DEF Resumed
<1>3. /\ c.owner = w /\ c.lease = until /\ c.status = "running"
      /\ c.checkpoint = r.checkpoint /\ c.scoring = r.scoring
      /\ c.stateV = r.stateV /\ c.feedback = r.feedback /\ c.report = r.report
      /\ c.frozen = r.frozen /\ c.base = r.base /\ c.policy = r.policy
      /\ c.deps = r.deps
  BY <1>1 DEF Resumed, Leased, Bump, Rows
<1> QED
  BY <1>1, <1>2, <1>3, OwnersDistinct DEF RowGood, PolicyKnown, ValidRow, CompletedRefsPresent

LEMMA FailStep ==
  ASSUME NEW k \in Kinds, NEW r, RowGood(k, r)
  PROVE  /\ RowGood(k, Failed(r))
         /\ PolicyKnown(k, r) => PolicyKnown(k, Failed(r))
<1> DEFINE c == Failed(r)
<1>1. r \in Rows(Owners) /\ "failed" \in Statuses
  BY DEF RowGood, Statuses
<1>2. c \in Rows(Owners)
  BY <1>1, VersionColumn, OwnerColumn, LeaseColumn, StatusColumn DEF Failed, Released
<1>3. /\ c.owner = NoOwner /\ c.lease = 0 /\ c.status = "failed"
      /\ c.checkpoint = r.checkpoint /\ c.scoring = r.scoring
      /\ c.stateV = r.stateV /\ c.feedback = r.feedback /\ c.report = r.report
      /\ c.frozen = r.frozen /\ c.base = r.base /\ c.policy = r.policy
      /\ c.deps = r.deps
  BY <1>1 DEF Failed, Released, Bump, Rows
<1> QED
  BY <1>1, <1>2, <1>3 DEF RowGood, PolicyKnown, ValidRow, CompletedRefsPresent

LEMMA ParkStep ==
  ASSUME NEW k \in Kinds, NEW r, RowGood(k, r), NEW status \in WaitingStatuses,
         NEW freeze \in BOOLEAN, NEW base \in Baselines \cup {NoRef},
         NEW cs \in Checksums \cup {NoRef}, base # NoRef => freeze
  PROVE  /\ RowGood(k, Parked(r, status, freeze, base, cs))
         /\ PolicyKnown(k, r) => PolicyKnown(k, Parked(r, status, freeze, base, cs))
<1> DEFINE c == Parked(r, status, freeze, base, cs)
           frozen == IF freeze THEN "frozen" ELSE r.frozen
           base1 == Pick(base, NoRef, r.base)
           scoring == Pick(cs, NoRef, r.scoring)
<1>1. r \in Rows(Owners) /\ status \in Statuses /\ status \notin {"running", "pending", "completed"}
  BY DEF RowGood, Statuses, WaitingStatuses
<1>2. /\ frozen \in {"unset", "open", "frozen"}
      /\ base1 \in Baselines \cup {NoRef} /\ scoring \in Checksums \cup {NoRef}
  BY <1>1 DEF Rows, Pick
<1>3. c = [[[[Released(r) EXCEPT !.status = status] EXCEPT !.frozen = frozen]
                          EXCEPT !.base = base1] EXCEPT !.scoring = scoring]
  BY <1>1 DEF Parked, Released, Bump, Rows
<1>4. base1 # NoRef => frozen = "frozen"
  BY <1>1 DEF Pick, RowGood, ValidRow
<1>5. freeze => frozen = "frozen"
  OBVIOUS
<1>6. ~ freeze => frozen = r.frozen
  OBVIOUS
<1> HIDE DEF c, frozen, base1, scoring
<1>7. c \in Rows(Owners)
  BY <1>1, <1>2, <1>3, VersionColumn, OwnerColumn, LeaseColumn, StatusColumn, FrozenColumn,
     BaseColumn, ScoringColumn DEF Released
<1>8. /\ c.owner = NoOwner /\ c.lease = 0 /\ c.status = status
      /\ c.frozen = frozen /\ c.base = base1 /\ c.scoring = scoring
      /\ c.checkpoint = r.checkpoint /\ c.stateV = r.stateV
      /\ c.feedback = r.feedback /\ c.report = r.report /\ c.policy = r.policy
      /\ c.deps = r.deps
  BY <1>1, <1>3 DEF Released, Bump, Rows
<1>9. RowGood(k, c) /\ (PolicyKnown(k, r) => PolicyKnown(k, c))
  BY <1>1, <1>4, <1>5, <1>6, <1>7, <1>8 DEF RowGood, PolicyKnown, ValidRow, CompletedRefsPresent
<1> QED
  BY <1>9 DEF c

LEMMA RebaseStep ==
  ASSUME NEW k \in Kinds, NEW r, RowGood(k, r), CanRebase(k, r), NEW base \in Baselines
  PROVE  /\ RowGood(k, Rebased(r, base))
         /\ PolicyKnown(k, r) => PolicyKnown(k, Rebased(r, base))
<1> DEFINE c == Rebased(r, base)
<1>1. r \in Rows(Owners)
  BY DEF RowGood
<1>2. c \in Rows(Owners)
  BY <1>1, VersionColumn, BaseColumn DEF Rebased
<1>3. /\ c.owner = r.owner /\ c.lease = r.lease
      /\ c.checkpoint = r.checkpoint /\ c.status = r.status
      /\ c.scoring = r.scoring /\ c.stateV = r.stateV /\ c.feedback = r.feedback
      /\ c.report = r.report /\ c.frozen = r.frozen /\ c.policy = r.policy
      /\ c.deps = r.deps
  BY <1>1 DEF Rebased, Bump, Rows
<1> QED
  BY <1>1, <1>2, <1>3 DEF CanRebase, RowGood, PolicyKnown, ValidRow, CompletedRefsPresent

LEMMA AdoptDependenciesStep ==
  ASSUME NEW k \in Kinds, NEW r, RowGood(k, r), CanAdoptDependencies(k, r)
  PROVE  RowGood(k, AdoptedDependencies(k, r))
<1> DEFINE c == AdoptedDependencies(k, r)
           frozen == IF k = "start" THEN "unset"
                     ELSE IF r.checkpoint \in PostState[k] THEN "frozen" ELSE "open"
<1>1. r \in Rows(Owners) /\ frozen \in {"unset", "open", "frozen"} /\ TRUE \in BOOLEAN
  BY DEF RowGood
<1>2. c = [[Bump(r) EXCEPT !.deps = TRUE] EXCEPT !.frozen = frozen]
  BY DEF AdoptedDependencies
<1> HIDE DEF c, frozen
<1>3. c \in Rows(Owners)
  BY <1>1, <1>2, VersionColumn, DepsColumn, FrozenColumn
<1>4. /\ c.owner = r.owner /\ c.lease = r.lease
      /\ c.checkpoint = r.checkpoint /\ c.status = r.status
      /\ c.scoring = r.scoring /\ c.stateV = r.stateV /\ c.feedback = r.feedback
      /\ c.report = r.report /\ c.base = r.base /\ c.policy = r.policy
  BY <1>1, <1>2 DEF Bump, Rows
<1>5. RowGood(k, c)
  BY <1>1, <1>3, <1>4 DEF CanAdoptDependencies, RowGood, PolicyKnown, ValidRow, CompletedRefsPresent
<1> QED
  BY <1>5 DEF c

LEMMA AdoptPolicyStep ==
  ASSUME NEW k \in Kinds, NEW r, RowGood(k, r), CanAdoptPolicy(k, r)
  PROVE  RowGood(k, AdoptedPolicy(r))
<1> DEFINE c == AdoptedPolicy(r)
<1>1. r \in Rows(Owners) /\ TRUE \in BOOLEAN
  BY DEF RowGood
<1>2. c \in Rows(Owners)
  BY <1>1, VersionColumn, PolicyColumn DEF AdoptedPolicy
<1>3. /\ c.owner = r.owner /\ c.lease = r.lease
      /\ c.checkpoint = r.checkpoint /\ c.status = r.status
      /\ c.scoring = r.scoring /\ c.stateV = r.stateV /\ c.feedback = r.feedback
      /\ c.report = r.report /\ c.frozen = r.frozen /\ c.base = r.base
      /\ c.deps = r.deps
  BY <1>1 DEF AdoptedPolicy, Bump, Rows
<1> QED
  BY <1>1, <1>2, <1>3 DEF CanAdoptPolicy, PolicyAdoptable, PolicyBound, RowGood, PolicyKnown, ValidRow, CompletedRefsPresent

LEMMA RefsLegal ==
  ASSUME NEW cp \in AllCheckpoints, NEW refs \in RefsAt(cp)
  PROVE  LegalRefs(refs) /\ (refs.stateV # 0 => cp = "state_saved")
<1>1. CASE cp \in {"scoring_saved", "review_saved"}
  <2>1. PICK c \in Checksums : refs = [NoRefs EXCEPT !.scoring = c]
    BY <1>1 DEF RefsAt
  <2> QED
    BY <2>1 DEF NoRefs, LegalRefs
<1>2. CASE cp = "state_inputs_frozen"
  <2>1. PICK b \in Baselines \cup {NoRef} : refs = [NoRefs EXCEPT !.frozen = TRUE, !.base = b]
    BY <1>2 DEF RefsAt
  <2> QED
    BY <2>1 DEF NoRefs, LegalRefs
<1>3. CASE cp = "state_saved"
  <2>1. PICK v \in 1 .. MaxState : refs = [NoRefs EXCEPT !.stateV = v]
    BY <1>3 DEF RefsAt
  <2>2. v \in Nat
    BY Bounds
  <2> QED
    BY <1>3, <2>1, <2>2 DEF NoRefs, LegalRefs
<1>4. CASE cp \notin {"scoring_saved", "review_saved", "state_inputs_frozen", "state_saved"}
  <2>1. \/ refs = NoRefs
        \/ refs = [NoRefs EXCEPT !.policy = TRUE]
        \/ refs = [NoRefs EXCEPT !.feedback = TRUE]
        \/ refs = [NoRefs EXCEPT !.report = TRUE]
    BY <1>4 DEF RefsAt
  <2>2. /\ LegalRefs(NoRefs) /\ NoRefs.stateV = 0
    BY DEF NoRefs, LegalRefs
  <2>3. ASSUME refs = [NoRefs EXCEPT !.policy = TRUE] PROVE LegalRefs(refs) /\ refs.stateV = 0
    BY <2>3 DEF NoRefs, LegalRefs
  <2>4. ASSUME refs = [NoRefs EXCEPT !.feedback = TRUE] PROVE LegalRefs(refs) /\ refs.stateV = 0
    BY <2>4 DEF NoRefs, LegalRefs
  <2>5. ASSUME refs = [NoRefs EXCEPT !.report = TRUE] PROVE LegalRefs(refs) /\ refs.stateV = 0
    BY <2>5 DEF NoRefs, LegalRefs
  <2> QED
    BY <2>1, <2>2, <2>3, <2>4, <2>5
<1> QED
  BY <1>1, <1>2, <1>3, <1>4

LEMMA AdvanceStep ==
  ASSUME NEW k \in Kinds, NEW r, RowGood(k, r), r.status = "running",
         NEW cp \in Checkpoints(k), NEW refs \in RefsAt(cp), CanAdvance(k, r, cp, refs)
  PROVE  /\ RowGood(k, Advanced(r, cp, refs))
         /\ PolicyKnown(k, r) => PolicyKnown(k, Advanced(r, cp, refs))
<1> DEFINE c == Advanced(r, cp, refs)
           done == cp = "completed"
           status == IF done THEN "completed" ELSE "running"
           owner == IF done THEN NoOwner ELSE r.owner
           lease == IF done THEN 0 ELSE r.lease
           scoring == Pick(refs.scoring, NoRef, r.scoring)
           stateV == Pick(refs.stateV, 0, r.stateV)
           feedback == r.feedback \/ refs.feedback
           report == r.report \/ refs.report
           frozen == IF refs.frozen THEN "frozen" ELSE r.frozen
           base == Pick(refs.base, NoRef, r.base)
           policy == r.policy \/ refs.policy
<1>1. LegalRefs(refs) /\ (refs.stateV # 0 => cp = "state_saved")
  BY RefsLegal, Chains
<1>2. r \in Rows(Owners) /\ cp \in AllCheckpoints
  BY Chains DEF RowGood
<1>3. /\ status \in Statuses /\ owner \in Owners \cup {NoOwner} /\ lease \in Nat
      /\ scoring \in Checksums \cup {NoRef} /\ stateV \in Nat
      /\ frozen \in {"unset", "open", "frozen"} /\ base \in Baselines \cup {NoRef}
  BY <1>1, <1>2 DEF Rows, LegalRefs, Pick, Statuses
<1>4. feedback \in BOOLEAN /\ report \in BOOLEAN /\ policy \in BOOLEAN
  OBVIOUS
<1>5. c = [Bump(r) EXCEPT !.checkpoint = cp, !.status = status, !.owner = owner, !.lease = lease,
             !.scoring = scoring, !.stateV = stateV, !.feedback = feedback, !.report = report,
             !.frozen = frozen, !.base = base, !.policy = policy]
  BY <1>2 DEF Advanced, Bump, Rows
<1>6. ValidRow(k, c) /\ r.checkpoint \in DOMAIN After[k] /\ cp = After[k][r.checkpoint]
  BY DEF CanAdvance
<1>7. /\ status = "running" <=> owner # NoOwner
      /\ status # "pending"
  BY DEF RowGood
<1>8. stateV # 0 => cp \in PostState[k]
  <2>1. CASE refs.stateV = 0
    BY <2>1, <1>6, PostStateClosed DEF Pick, RowGood
  <2>2. CASE refs.stateV # 0
    BY <2>2, <1>1, <1>6, PostStateClosed
  <2> QED
    BY <2>1, <2>2
<1>9. ASSUME PolicyKnown(k, r), k = "submit", cp \in PolicyAdoptable \cup {"policy_frozen"}
      PROVE  policy
  <2>1. CASE cp = "policy_frozen"
    BY <2>1 DEF CanAdvance, DedicatedCheckpoints
  <2>2. CASE cp \in PolicyAdoptable
    <3>1. r.checkpoint \in PolicyAdoptable \cup {"policy_frozen"}
      BY <1>6, <1>9, <2>2, PolicyClosed
    <3> QED
      BY <1>9, <3>1 DEF PolicyKnown
  <2> QED
    BY <1>9, <2>1, <2>2
<1> HIDE DEF c, status, owner, lease, scoring, stateV, feedback, report, frozen, base, policy
<1>10. c \in Rows(Owners)
  <2> DEFINE c1 == [[[[Bump(r) EXCEPT !.checkpoint = cp] EXCEPT !.status = status]
                                EXCEPT !.owner = owner] EXCEPT !.lease = lease]
             c2 == [[[[c1 EXCEPT !.scoring = scoring] EXCEPT !.stateV = stateV]
                          EXCEPT !.feedback = feedback] EXCEPT !.report = report]
  <2>1. c1 \in Rows(Owners)
    BY <1>2, <1>3, VersionColumn, CheckpointColumn, StatusColumn, OwnerColumn, LeaseColumn
  <2>2. c = [[[c2 EXCEPT !.frozen = frozen] EXCEPT !.base = base] EXCEPT !.policy = policy]
    BY <1>5
  <2> HIDE DEF c1
  <2>3. c2 \in Rows(Owners)
    BY <2>1, <1>3, <1>4, ScoringColumn, StateVColumn, FeedbackColumn, ReportColumn
  <2> HIDE DEF c2
  <2> QED
    BY <2>2, <2>3, <1>3, <1>4, FrozenColumn, BaseColumn, PolicyColumn
<1>11. /\ c.checkpoint = cp /\ c.status = status /\ c.owner = owner /\ c.stateV = stateV
       /\ c.policy = policy /\ c.deps = r.deps
  BY <1>2, <1>5 DEF Bump, Rows
<1>12. RowGood(k, c) /\ (PolicyKnown(k, r) => PolicyKnown(k, c))
  BY <1>6, <1>7, <1>8, <1>9, <1>10, <1>11 DEF RowGood, PolicyKnown
<1> QED
  BY <1>12 DEF c

LEMMA FinishStep ==
  ASSUME NEW k \in Kinds, NEW r, RowGood(k, r), NEW refs, LegalRefs(refs),
         refs.stateV # 0 => k = "submit", ValidRow(k, Finished(r, refs))
  PROVE  /\ RowGood(k, Finished(r, refs))
         /\ PolicyKnown(k, r) => PolicyKnown(k, Finished(r, refs))
<1> DEFINE c == Finished(r, refs)
           scoring == Pick(refs.scoring, NoRef, r.scoring)
           stateV == Pick(refs.stateV, 0, r.stateV)
           feedback == r.feedback \/ refs.feedback
           report == r.report \/ refs.report
<1>1. r \in Rows(Owners) /\ "completed" \in AllCheckpoints /\ "completed" \in Statuses
  BY Chains DEF RowGood, Statuses
<1>2. /\ scoring \in Checksums \cup {NoRef} /\ stateV \in Nat
  BY <1>1 DEF Rows, LegalRefs, Pick
<1>3. feedback \in BOOLEAN /\ report \in BOOLEAN
  OBVIOUS
<1>4. c = [Released(r) EXCEPT !.checkpoint = "completed", !.status = "completed",
             !.scoring = scoring, !.stateV = stateV, !.feedback = feedback, !.report = report]
  BY <1>1 DEF Finished, Released, Bump, Rows
<1>5. stateV # 0 => "completed" \in PostState[k]
  BY PostStateClosed DEF Pick, RowGood, ValidRow, PostState, Kinds, PolicyBound
<1> HIDE DEF c, scoring, stateV, feedback, report
<1>6. c \in Rows(Owners)
  BY <1>1, <1>2, <1>3, <1>4, VersionColumn, OwnerColumn, LeaseColumn, CheckpointColumn,
     StatusColumn, ScoringColumn, StateVColumn, FeedbackColumn, ReportColumn DEF Released
<1>7. /\ c.checkpoint = "completed" /\ c.status = "completed" /\ c.owner = NoOwner
      /\ c.stateV = stateV /\ c.policy = r.policy /\ c.deps = r.deps
  BY <1>1, <1>4 DEF Released, Bump, Rows
<1>8. RowGood(k, c) /\ (PolicyKnown(k, r) => PolicyKnown(k, c))
  BY <1>5, <1>6, <1>7, PolicyClosed DEF RowGood, PolicyKnown, c
<1> QED
  BY <1>8 DEF c
-----------------------------------------------------------------------------
(* Every way the store changes a row, with leases ending no later than m.   *)
RowMove(k, r, r2, m) ==
  \/ r2 = r
  \/ \E w \in Owners, until \in 1 .. m :
       \/ Claimable(r) /\ r2 = Claimed(k, r, w, until)
       \/ r.status = "running" /\ r2 = Leased(r, w, until)
       \/ r.status = "running" /\ r2 = [r EXCEPT !.lease = until]
       \/ r.status \in WaitingStatuses /\ r2 = Resumed(r, w, until)
  \/ /\ r.status = "running"
     /\ \/ \E cp \in Checkpoints(k) : \E refs \in RefsAt(cp) :
             CanAdvance(k, r, cp, refs) /\ r2 = Advanced(r, cp, refs)
        \/ \E base \in Baselines : CanRebase(k, r) /\ r2 = Rebased(r, base)
        \/ r2 = Failed(r)
        \/ \E status \in WaitingStatuses :
             \/ \E base \in Baselines \cup {NoRef} :
                  /\ r.checkpoint = "scoring_saved"
                  /\ r2 = Parked(r, status, TRUE, base, NoRef)
             \/ \E c \in Checksums : r2 = Parked(r, status, FALSE, NoRef, c)
        \/ \E refs : /\ LegalRefs(refs) /\ (refs.stateV # 0 => k = "submit")
                     /\ ValidRow(k, Finished(r, refs)) /\ r2 = Finished(r, refs)
  \/ CanAdoptDependencies(k, r) /\ r2 = AdoptedDependencies(k, r)
  \/ CanAdoptPolicy(k, r) /\ r2 = AdoptedPolicy(r)

(* A change of a row keeps what is promised of it, moves the version by at  *)
(* most one and touches nothing but the lease when it does not move it.      *)
LEMMA RowMoveKeeps ==
  ASSUME NEW k \in Kinds, NEW r, NEW r2, NEW m \in Nat,
         RowGood(k, r), RowMove(k, r, r2, m)
  PROVE  /\ RowGood(k, r2)
         /\ PolicyKnown(k, r) => PolicyKnown(k, r2)
         /\ r2.version \in {r.version, r.version + 1}
         /\ r2.lease <= m \/ r2.lease = r.lease
<1>0. r \in Rows(Owners) /\ r.version \in Nat /\ r.lease \in Nat
  BY DEF RowGood, Rows
<1>1. CASE r2 = r
  BY <1>0, <1>1
<1>2. ASSUME NEW w \in Owners, NEW until \in 1 .. m, Claimable(r), r2 = Claimed(k, r, w, until)
      PROVE  RowGood(k, r2) /\ (PolicyKnown(k, r) => PolicyKnown(k, r2))
             /\ r2.version = r.version + 1 /\ r2.lease <= m
  <2>1. until \in Nat \ {0} /\ until <= m
    OBVIOUS
  <2>2. r2.version = r.version + 1 /\ r2.lease = until
    BY <1>0, <1>2 DEF Claimed, Leased, Bump, Rows
  <2> QED
    BY <1>2, <2>1, <2>2, ClaimStep
<1>3. ASSUME NEW w \in Owners, NEW until \in 1 .. m, r.status = "running", r2 = Leased(r, w, until)
      PROVE  RowGood(k, r2) /\ (PolicyKnown(k, r) => PolicyKnown(k, r2))
             /\ r2.version = r.version + 1 /\ r2.lease <= m
  <2>1. until \in Nat \ {0} /\ until <= m
    OBVIOUS
  <2>2. r2.version = r.version + 1 /\ r2.lease = until
    BY <1>0, <1>3 DEF Leased, Bump, Rows
  <2> QED
    BY <1>3, <2>1, <2>2, LeaseStep
<1>4. ASSUME NEW until \in 1 .. m, r.status = "running", r2 = [r EXCEPT !.lease = until]
      PROVE  RowGood(k, r2) /\ (PolicyKnown(k, r) => PolicyKnown(k, r2))
             /\ r2.version = r.version /\ r2.lease <= m
  <2>1. until \in Nat \ {0} /\ until <= m
    OBVIOUS
  <2>2. r2.version = r.version /\ r2.lease = until
    BY <1>0, <1>4 DEF Rows
  <2> QED
    BY <1>4, <2>1, <2>2, RenewStep
<1>5. ASSUME NEW w \in Owners, NEW until \in 1 .. m, r.status \in WaitingStatuses,
             r2 = Resumed(r, w, until)
      PROVE  RowGood(k, r2) /\ (PolicyKnown(k, r) => PolicyKnown(k, r2))
             /\ r2.version = r.version + 1 /\ r2.lease <= m
  <2>1. until \in Nat \ {0} /\ until <= m
    OBVIOUS
  <2>2. r2.version = r.version + 1 /\ r2.lease = until
    BY <1>0, <1>5 DEF Resumed, Leased, Bump, Rows
  <2> QED
    BY <1>5, <2>1, <2>2, ResumeStep
<1>6. ASSUME NEW cp \in Checkpoints(k), NEW refs \in RefsAt(cp), r.status = "running",
             CanAdvance(k, r, cp, refs), r2 = Advanced(r, cp, refs)
      PROVE  RowGood(k, r2) /\ (PolicyKnown(k, r) => PolicyKnown(k, r2))
             /\ r2.version = r.version + 1 /\ r2.lease \in {0, r.lease}
  <2>1. r2.version = r.version + 1 /\ r2.lease \in {0, r.lease}
    BY <1>0, <1>6 DEF Advanced, Bump, Rows
  <2> QED
    BY <1>6, <2>1, AdvanceStep
<1>7. ASSUME NEW base \in Baselines, CanRebase(k, r), r2 = Rebased(r, base)
      PROVE  RowGood(k, r2) /\ (PolicyKnown(k, r) => PolicyKnown(k, r2))
             /\ r2.version = r.version + 1 /\ r2.lease = r.lease
  <2>1. r2.version = r.version + 1 /\ r2.lease = r.lease
    BY <1>0, <1>7 DEF Rebased, Bump, Rows
  <2> QED
    BY <1>7, <2>1, RebaseStep
<1>8. ASSUME r2 = Failed(r)
      PROVE  RowGood(k, r2) /\ (PolicyKnown(k, r) => PolicyKnown(k, r2))
             /\ r2.version = r.version + 1 /\ r2.lease = 0
  <2>1. r2.version = r.version + 1 /\ r2.lease = 0
    BY <1>0, <1>8 DEF Failed, Released, Bump, Rows
  <2> QED
    BY <1>8, <2>1, FailStep
<1>9. ASSUME NEW status \in WaitingStatuses, NEW freeze \in BOOLEAN,
             NEW base \in Baselines \cup {NoRef}, NEW c \in Checksums \cup {NoRef},
             base # NoRef => freeze, r2 = Parked(r, status, freeze, base, c)
      PROVE  RowGood(k, r2) /\ (PolicyKnown(k, r) => PolicyKnown(k, r2))
             /\ r2.version = r.version + 1 /\ r2.lease = 0
  <2>1. r2.version = r.version + 1 /\ r2.lease = 0
    BY <1>0, <1>9 DEF Parked, Released, Bump, Rows
  <2> QED
    BY <1>9, <2>1, ParkStep
<1>10. ASSUME NEW refs, LegalRefs(refs), refs.stateV # 0 => k = "submit",
              ValidRow(k, Finished(r, refs)), r2 = Finished(r, refs)
       PROVE  RowGood(k, r2) /\ (PolicyKnown(k, r) => PolicyKnown(k, r2))
              /\ r2.version = r.version + 1 /\ r2.lease = 0
  <2>1. r2.version = r.version + 1 /\ r2.lease = 0
    BY <1>0, <1>10 DEF Finished, Released, Bump, Rows
  <2> QED
    BY <1>10, <2>1, FinishStep
<1>11. ASSUME CanAdoptDependencies(k, r), r2 = AdoptedDependencies(k, r)
       PROVE  RowGood(k, r2) /\ ~ PolicyKnown(k, r)
              /\ r2.version = r.version + 1 /\ r2.lease = r.lease
  <2>1. r2.version = r.version + 1 /\ r2.lease = r.lease
    BY <1>0, <1>11 DEF AdoptedDependencies, Bump, Rows
  <2>2. ~ PolicyKnown(k, r)
    BY <1>11 DEF CanAdoptDependencies, PolicyKnown
  <2> QED
    BY <1>11, <2>1, <2>2, AdoptDependenciesStep
<1>12. ASSUME CanAdoptPolicy(k, r), r2 = AdoptedPolicy(r)
       PROVE  RowGood(k, r2) /\ ~ PolicyKnown(k, r)
              /\ r2.version = r.version + 1 /\ r2.lease = r.lease
  <2>1. r2.version = r.version + 1 /\ r2.lease = r.lease
    BY <1>0, <1>12 DEF AdoptedPolicy, Bump, Rows
  <2>2. ~ PolicyKnown(k, r)
    BY <1>12 DEF CanAdoptPolicy, PolicyKnown
  <2> QED
    BY <1>12, <2>1, <2>2, AdoptPolicyStep
<1>13. \A status \in WaitingStatuses :
         /\ \A base \in Baselines \cup {NoRef} : r2 = Parked(r, status, TRUE, base, NoRef) =>
              RowGood(k, r2) /\ (PolicyKnown(k, r) => PolicyKnown(k, r2))
                /\ r2.version = r.version + 1 /\ r2.lease = 0
         /\ \A c \in Checksums : r2 = Parked(r, status, FALSE, NoRef, c) =>
              RowGood(k, r2) /\ (PolicyKnown(k, r) => PolicyKnown(k, r2))
                /\ r2.version = r.version + 1 /\ r2.lease = 0
  BY <1>9
<1> DEFINE Goal == /\ RowGood(k, r2)
                   /\ PolicyKnown(k, r) => PolicyKnown(k, r2)
                   /\ r2.version \in {r.version, r.version + 1}
                   /\ r2.lease <= m \/ r2.lease = r.lease
<1>14. r.lease >= 0 /\ 0 <= m
  BY <1>0
<1>15. ASSUME NEW w \in Owners, NEW until \in 1 .. m,
              \/ Claimable(r) /\ r2 = Claimed(k, r, w, until)
              \/ r.status = "running" /\ r2 = Leased(r, w, until)
              \/ r.status = "running" /\ r2 = [r EXCEPT !.lease = until]
              \/ r.status \in WaitingStatuses /\ r2 = Resumed(r, w, until)
       PROVE  Goal
  BY <1>2, <1>3, <1>4, <1>5, <1>15
<1>16. ASSUME r.status = "running",
              \/ \E cp \in Checkpoints(k) : \E refs \in RefsAt(cp) :
                   CanAdvance(k, r, cp, refs) /\ r2 = Advanced(r, cp, refs)
              \/ \E base \in Baselines : CanRebase(k, r) /\ r2 = Rebased(r, base)
              \/ r2 = Failed(r)
       PROVE  Goal
  BY <1>6, <1>7, <1>8, <1>14, <1>16
<1>17. ASSUME \/ \E status \in WaitingStatuses :
                   \/ \E base \in Baselines \cup {NoRef} : r2 = Parked(r, status, TRUE, base, NoRef)
                   \/ \E c \in Checksums : r2 = Parked(r, status, FALSE, NoRef, c)
              \/ \E refs : /\ LegalRefs(refs) /\ (refs.stateV # 0 => k = "submit")
                           /\ ValidRow(k, Finished(r, refs)) /\ r2 = Finished(r, refs)
       PROVE  Goal
  BY <1>10, <1>13, <1>14, <1>17
<1>18. CASE \/ CanAdoptDependencies(k, r) /\ r2 = AdoptedDependencies(k, r)
            \/ CanAdoptPolicy(k, r) /\ r2 = AdoptedPolicy(r)
  BY <1>11, <1>12, <1>18
<1>19. CASE r2 = r
  BY <1>1, <1>19
<1> HIDE DEF Goal
<1>20. Goal
  BY <1>15, <1>16, <1>17, <1>18, <1>19 DEF RowMove, Goal
<1> QED
  BY <1>20 DEF Goal
-----------------------------------------------------------------------------
(* The inductive invariant of the store. *)
StoreInv ==
  /\ TypeOK
  /\ LeaseBounded
  /\ \A op \in Ops : RowGood(KindOf[op], rows[op])
  /\ \A op \in Ops \ LegacyOps : PolicyKnown(KindOf[op], rows[op])
  /\ \A t \in Threads, op \in Ops : held[t][op].version <= rows[op].version

(* What a call of thread t on op may do: change that row and no other, and  *)
(* either keep, drop or refresh what t remembers of it.                     *)
Effect(t, op, r) ==
  /\ RowMove(KindOf[op], rows[op], r, clock + LeaseLen)
  /\ rows' = [rows EXCEPT ![op] = r]
  /\ \/ held' = held
     \/ held' = [held EXCEPT ![t] = [@ EXCEPT ![op] = NotHeld]]
     \/ /\ held' = [held EXCEPT ![t] =
                      [@ EXCEPT ![op] = [version |-> r.version, owner |-> r.owner]]]
        /\ r.version = rows[op].version + 1 \/ r.owner \notin Flows

LEMMA CallEffect ==
  ASSUME StoreInv, NEW t \in Threads, NEW op \in Ops, NEW n \in since[t] .. clock,
         ThreadStep(t, op, n)
  PROVE  \E r : Effect(t, op, r)
<1> DEFINE k == KindOf[op]
           row == rows[op]
           m == clock + LeaseLen
           until == n + LeaseLen
<1>1. /\ k \in Kinds /\ row \in Rows(Owners) /\ RowGood(k, row) /\ until \in 1 .. m
      /\ FlowOf[t] \in Owners /\ \A role \in Roles : SideOwner(role, op) \in Owners
      /\ SideOwner("rescore", op) \in SideOwners
      /\ \A role \in Roles : SideOwner(role, op) \notin Flows
  <2>1. k \in Kinds /\ row \in Rows(Owners) /\ RowGood(k, row)
    BY Shapes DEF StoreInv, TypeOK
  <2>2. until \in 1 .. m
    BY Bounds DEF StoreInv, TypeOK
  <2>3. \A role \in Roles : SideOwner(role, op) \in SideOwners
    BY DEF SideOwners, SideOwner
  <2>4. FlowOf[t] \in Flows /\ "rescore" \in Roles
    BY Shapes DEF Roles
  <2> QED
    BY <2>1, <2>2, <2>3, <2>4, OwnersDistinct DEF Owners
<1>2. \A w \in Owners : /\ Claimed(k, row, w, until).version = row.version + 1
                        /\ Leased(row, w, until).version = row.version + 1
                        /\ Resumed(row, w, until).version = row.version + 1
  BY <1>1 DEF Claimed, Resumed, Leased, Bump, Rows
<1>3. /\ AdoptedPolicy(row).version = row.version + 1
      /\ \A cp, refs : Advanced(row, cp, refs).version = row.version + 1
      /\ \A base : Rebased(row, base).version = row.version + 1
  BY <1>1 DEF AdoptedPolicy, Advanced, Rebased, Bump, Rows
<1>4. ASSUME AdoptPolicy(t, op, n) PROVE \E r : Effect(t, op, r)
  BY <1>3, <1>4 DEF AdoptPolicy, Grant, Effect, RowMove
<1>5. ASSUME Claim(t, op, n) PROVE \E r : Effect(t, op, r)
  BY <1>1, <1>2, <1>5 DEF Claim, Grant, Effect, RowMove
<1>6. ASSUME Reclaim(t, op, n) PROVE \E r : Effect(t, op, r)
  BY <1>1, <1>2, <1>6 DEF Reclaim, Expired, Grant, Effect, RowMove
<1>7. ASSUME Renew(t, op, n) PROVE \E r : Effect(t, op, r)
  <2>1. rows' = [rows EXCEPT ![op] = [row EXCEPT !.lease = until]]
    BY <1>7 DEF Renew
  <2> QED
    BY <1>1, <1>7, <2>1 DEF Renew, Accepted, Live, Effect, RowMove
<1>8. ASSUME NEW cp \in Checkpoints(k), NEW refs \in RefsAt(cp), Advance(t, op, n, cp, refs)
      PROVE  \E r : Effect(t, op, r)
  <2>1. RowMove(k, row, Advanced(row, cp, refs), m)
    BY <1>8 DEF Advance, Accepted, Live, RowMove
  <2>2. CASE cp = "completed"
    BY <1>8, <2>1, <2>2 DEF Advance, GiveUp, Effect
  <2>3. CASE cp # "completed"
    BY <1>3, <1>8, <2>1, <2>3 DEF Advance, Grant, Effect
  <2> QED
    BY <2>2, <2>3
<1>9. ASSUME NEW base \in Baselines, Rebase(t, op, n, base) PROVE \E r : Effect(t, op, r)
  BY <1>1, <1>3, <1>9 DEF Rebase, Accepted, Live, Grant, Effect, RowMove
<1>10. ASSUME Fail(t, op, n) PROVE \E r : Effect(t, op, r)
  BY <1>1, <1>10 DEF Fail, Live, GiveUp, Effect, RowMove
<1>11. ASSUME NEW status \in WaitingStatuses, NEW base \in Baselines \cup {NoRef},
              ParkScored(t, op, n, status, base)
       PROVE  \E r : Effect(t, op, r)
  BY <1>1, <1>11 DEF ParkScored, Accepted, Live, GiveUp, Effect, RowMove
<1>12. ASSUME NEW status \in WaitingStatuses, NEW c \in Checksums,
              ParkResumed(t, op, n, status, c)
       PROVE  \E r : Effect(t, op, r)
  BY <1>1, <1>12 DEF ParkResumed, Accepted, Live, GiveUp, Effect, RowMove
<1>13. ASSUME NEW role \in Roles, Resume(t, op, n, role) PROVE \E r : Effect(t, op, r)
  BY <1>1, <1>2, <1>13 DEF Resume, Grant, Effect, RowMove
<1>14. ASSUME EnsureClaim(t, op, n) PROVE \E r : Effect(t, op, r)
  <2>1. SideOwner("rescore", op) \in Owners /\ k = "submit"
    BY <1>1, <1>14 DEF EnsureClaim, Roles
  <2>2. CASE row.status = "failed" /\ Grant(t, op, Claimed("submit", row, SideOwner("rescore", op), until))
    BY <1>1, <1>2, <2>1, <2>2 DEF Grant, Claimable, Effect, RowMove
  <2>3. CASE Expired(row, n) /\ Grant(t, op, Leased(row, SideOwner("rescore", op), until))
    BY <1>1, <1>2, <2>1, <2>3 DEF Grant, Expired, Effect, RowMove
  <2> QED
    BY <1>14, <2>2, <2>3 DEF EnsureClaim
<1>15. ASSUME EnsureJoin(t, op, n) PROVE \E r : Effect(t, op, r)
  BY <1>1, <1>15 DEF EnsureJoin, Grant, Effect, RowMove, Roles
<1>16. ASSUME NEW refs, LegalRefs(refs), refs.stateV # 0 => k = "submit", Finish(t, op, n, refs)
       PROVE  \E r : Effect(t, op, r)
  BY <1>1, <1>16 DEF Finish, Accepted, Live, GiveUp, Effect, RowMove
<1>17. ASSUME FinishTransient(t, op, n) PROVE \E r : Effect(t, op, r)
  <2> DEFINE refs == [NoRefs EXCEPT !.feedback = TRUE]
  <2>1. LegalRefs(refs) /\ refs.stateV = 0
    BY DEF NoRefs, LegalRefs
  <2> QED
    BY <1>16, <1>17, <2>1 DEF FinishTransient
<1>18. ASSUME FinishUndecided(t, op, n) PROVE \E r : Effect(t, op, r)
  <2>1. LegalRefs(NoRefs) /\ NoRefs.stateV = 0
    BY DEF NoRefs, LegalRefs
  <2> QED
    BY <1>16, <1>18, <2>1 DEF FinishUndecided
<1>19. ASSUME NEW c \in Checksums, NEW v \in 1 .. MaxState, CommitWaiting(t, op, n, c, v)
       PROVE  \E r : Effect(t, op, r)
  <2> DEFINE refs == [NoRefs EXCEPT !.scoring = c, !.stateV = v, !.feedback = TRUE, !.report = TRUE]
  <2>1. v \in Nat
    BY Bounds
  <2>2. LegalRefs(refs)
    BY <2>1 DEF NoRefs, LegalRefs
  <2> QED
    BY <1>16, <1>19, <2>2 DEF CommitWaiting
<1> QED
  BY <1>4, <1>5, <1>6, <1>7, <1>8, <1>9, <1>10, <1>11, <1>12, <1>13, <1>14, <1>15, <1>17,
     <1>18, <1>19 DEF ThreadStep

LEMMA StepsAreCalls ==
  ASSUME NEW t, NEW op, NEW n, ThreadStep(t, op, n)
  PROVE  Calls(t, op, n)
BY DEF ThreadStep, AdoptPolicy, Claim, Reclaim, Renew, Advance, Rebase, Fail, ParkScored,
       ParkResumed, Resume, EnsureClaim, EnsureJoin, FinishTransient, FinishUndecided,
       CommitWaiting, Finish

(* What holds after any step, relative to the state before. *)
LEMMA StepShape ==
  ASSUME StoreInv, [Next]_vars
  PROVE  /\ clock' \in Nat /\ clock <= clock' /\ since' \in [Threads -> Nat]
         /\ \A t \in Threads : since'[t] <= clock'
         /\ recorded' \subseteq Ops
         /\ \A op \in Ops : RowMove(KindOf[op], rows[op], rows'[op], clock + LeaseLen)
         /\ DOMAIN rows' = Ops /\ rows' = [op \in Ops |-> rows'[op]]
         /\ \/ held' = held
            \/ \E t \in Threads, op \in Ops :
                 /\ held' = [held EXCEPT ![t] = [@ EXCEPT ![op] = NotHeld]]
            \/ \E t \in Threads, op \in Ops :
                 /\ held' = [held EXCEPT ![t] = [@ EXCEPT ![op] =
                               [version |-> rows'[op].version, owner |-> rows'[op].owner]]]
                 /\ rows'[op].version = rows[op].version + 1 \/ rows'[op].owner \notin Flows
<1>1. /\ DOMAIN rows = Ops /\ rows = [op \in Ops |-> rows[op]]
      /\ \A op \in Ops : RowMove(KindOf[op], rows[op], rows[op], clock + LeaseLen)
  BY DEF StoreInv, TypeOK, RowMove
<1>2. clock \in Nat /\ since \in [Threads -> Nat] /\ \A t \in Threads : since[t] <= clock
  BY DEF StoreInv, TypeOK
<1>3. ASSUME NEW op \in Ops, Record(op) \/ AdoptDependencies(op)
      PROVE  /\ UNCHANGED <<held, since, clock>> /\ recorded' \subseteq Ops
             /\ \E r : /\ rows' = [rows EXCEPT ![op] = r]
                       /\ RowMove(KindOf[op], rows[op], r, clock + LeaseLen)
  <2>1. CASE Record(op)
    <3>1. rows' = [rows EXCEPT ![op] = rows[op]]
      BY <1>1, <2>1 DEF Record
    <3> QED
      BY <1>1, <2>1, <3>1 DEF Record, StoreInv, TypeOK
  <2>2. CASE AdoptDependencies(op)
    <3>1. rows' = [rows EXCEPT ![op] = AdoptedDependencies(KindOf[op], rows[op])]
      BY <2>2 DEF AdoptDependencies
    <3>2. RowMove(KindOf[op], rows[op], AdoptedDependencies(KindOf[op], rows[op]), clock + LeaseLen)
      BY <2>2 DEF AdoptDependencies, RowMove
    <3> QED
      BY <2>2, <3>1, <3>2 DEF AdoptDependencies, StoreInv, TypeOK
  <2> QED
    BY <1>3, <2>1, <2>2
<1>4. ASSUME NEW t \in Threads, NEW op \in Ops, NEW n \in since[t] .. clock, ThreadStep(t, op, n)
      PROVE  /\ clock' = clock /\ recorded' = recorded /\ since' = [since EXCEPT ![t] = clock]
             /\ \E r : Effect(t, op, r)
  <2>1. Calls(t, op, n)
    BY <1>4, StepsAreCalls
  <2> QED
    BY <1>4, <2>1, CallEffect DEF Calls
<1>5. CASE \E op \in Ops : Record(op) \/ AdoptDependencies(op)
  <2>1. PICK op \in Ops : Record(op) \/ AdoptDependencies(op)
    BY <1>5
  <2>2. PICK r : /\ rows' = [rows EXCEPT ![op] = r]
                 /\ RowMove(KindOf[op], rows[op], r, clock + LeaseLen)
    BY <1>3, <2>1
  <2>3. UNCHANGED <<held, since, clock>> /\ recorded' \subseteq Ops
    BY <1>3, <2>1
  <2>4. \A o \in Ops : rows'[o] = IF o = op THEN r ELSE rows[o]
    BY <1>1, <2>2
  <2>5. DOMAIN rows' = Ops /\ rows' = [o \in Ops |-> rows'[o]]
    BY <1>1, <2>2
  <2> QED
    BY <1>1, <1>2, <2>2, <2>3, <2>4, <2>5
<1>6. CASE \E t \in Threads, op \in Ops : Abandon(t, op)
  <2>1. /\ UNCHANGED <<recorded, rows, since, clock>>
        /\ \E t \in Threads, op \in Ops : held' = [held EXCEPT ![t] = [@ EXCEPT ![op] = NotHeld]]
    BY <1>6 DEF Abandon
  <2>2. recorded' \subseteq Ops
    BY <2>1 DEF StoreInv, TypeOK
  <2>3. /\ DOMAIN rows' = Ops /\ rows' = [op \in Ops |-> rows'[op]]
        /\ \A op \in Ops : RowMove(KindOf[op], rows[op], rows'[op], clock + LeaseLen)
    BY <1>1, <2>1
  <2>4. /\ clock' \in Nat /\ clock <= clock' /\ since' \in [Threads -> Nat]
        /\ \A t \in Threads : since'[t] <= clock'
    BY <1>2, <2>1
  <2> QED
    BY <2>1, <2>2, <2>3, <2>4
<1>7. CASE \E t \in Threads, op \in Ops : \E n \in since[t] .. clock : ThreadStep(t, op, n)
  <2>1. PICK t \in Threads, op \in Ops : \E n \in since[t] .. clock : ThreadStep(t, op, n)
    BY <1>7
  <2>2. /\ clock' = clock /\ recorded' = recorded /\ since' = [since EXCEPT ![t] = clock]
        /\ \E r : Effect(t, op, r)
    BY <1>4, <2>1
  <2>3. PICK r : Effect(t, op, r)
    BY <2>2
  <2>4. rows'[op] = r /\ \A o \in Ops : rows'[o] = IF o = op THEN r ELSE rows[o]
    BY <1>1, <2>3 DEF Effect
  <2>5. DOMAIN rows' = Ops /\ rows' = [o \in Ops |-> rows'[o]]
    BY <1>1, <2>3 DEF Effect
  <2>6. \A o \in Ops : RowMove(KindOf[o], rows[o], rows'[o], clock + LeaseLen)
    BY <1>1, <2>3, <2>4 DEF Effect
  <2>7. since' \in [Threads -> Nat] /\ \A u \in Threads : since'[u] <= clock'
    BY <1>2, <2>2
  <2> QED
    BY <1>2, <2>2, <2>3, <2>4, <2>5, <2>6, <2>7 DEF Effect, StoreInv, TypeOK
<1>8. CASE Tick
  <2>1. clock' = clock + 1 /\ UNCHANGED <<recorded, rows, held, since>>
    BY <1>8 DEF Tick
  <2>2. clock' \in Nat /\ clock <= clock' /\ \A t \in Threads : since[t] <= clock + 1
    BY <1>2, <2>1
  <2> QED
    BY <1>1, <1>2, <2>1, <2>2 DEF StoreInv, TypeOK
<1>9. CASE UNCHANGED vars
  BY <1>1, <1>2, <1>9 DEF vars, StoreInv, TypeOK
<1> QED
  BY <1>5, <1>6, <1>7, <1>8, <1>9 DEF Next

LEMMA StoreInit == Init => StoreInv
<1> SUFFICES ASSUME Init PROVE StoreInv
  OBVIOUS
<1>1. \A op \in Ops : /\ RowGood(KindOf[op], rows[op]) /\ rows[op].lease <= LeaseLen
                      /\ op \notin LegacyOps => PolicyKnown(KindOf[op], rows[op])
  <2>1. PICK old \in [LegacyOps -> UNION {LegacyStates(k) : k \in Kinds}] :
          /\ \A op \in LegacyOps : old[op] \in LegacyStates(KindOf[op])
          /\ rows = [op \in Ops |-> IF op \in LegacyOps THEN old[op] ELSE NewRow(KindOf[op])]
    BY DEF Init
  <2>2. TAKE op \in Ops
  <2>3. KindOf[op] \in Kinds
    BY Shapes
  <2>4. CASE op \in LegacyOps
    <3>1. rows[op] \in LegacyStates(KindOf[op])
      BY <2>1, <2>4
    <3> QED
      BY <2>3, <2>4, <3>1, LegacyRowStep
  <2>5. CASE op \notin LegacyOps
    BY <2>1, <2>3, <2>5, NewRowStep, Bounds DEF NewRow
  <2> QED
    BY <2>4, <2>5
<1>2. rows \in [Ops -> Rows(Owners)]
  <2>1. DOMAIN rows = Ops /\ rows = [op \in Ops |-> rows[op]]
    BY DEF Init
  <2> QED
    BY <1>1, <2>1 DEF RowGood
<1>3. TypeOK
  BY <1>2, Shapes DEF Init, TypeOK, NotHeld
<1>4. \A t \in Threads, op \in Ops : held[t][op].version <= rows[op].version
  BY <1>2 DEF Init, NotHeld, Rows
<1>5. LeaseBounded
  BY <1>1, Bounds DEF Init, LeaseBounded
<1> QED
  BY <1>1, <1>3, <1>4, <1>5 DEF StoreInv

LEMMA StoreStep == StoreInv /\ [Next]_vars => StoreInv'
<1> SUFFICES ASSUME StoreInv, [Next]_vars PROVE StoreInv'
  OBVIOUS
<1>1. clock + LeaseLen \in Nat /\ clock' \in Nat /\ clock <= clock'
  BY StepShape, Bounds DEF StoreInv, TypeOK
<1>2. \A op \in Ops :
        /\ RowGood(KindOf[op], rows'[op])
        /\ PolicyKnown(KindOf[op], rows[op]) => PolicyKnown(KindOf[op], rows'[op])
        /\ rows'[op].version \in {rows[op].version, rows[op].version + 1}
        /\ rows'[op].lease <= clock + LeaseLen \/ rows'[op].lease = rows[op].lease
  <2>1. TAKE op \in Ops
  <2>2. KindOf[op] \in Kinds
    BY Shapes
  <2>3. RowGood(KindOf[op], rows[op]) /\ RowMove(KindOf[op], rows[op], rows'[op], clock + LeaseLen)
    BY StepShape DEF StoreInv
  <2> QED
    BY <1>1, <2>2, <2>3, RowMoveKeeps
<1>3. rows' \in [Ops -> Rows(Owners)]
  BY <1>2, StepShape DEF RowGood
<1>4. \A op \in Ops : /\ rows[op].version \in Nat /\ rows'[op].version \in Nat
                      /\ rows[op].version <= rows'[op].version
                      /\ rows'[op].owner \in Owners \cup {NoOwner}
  <2>1. rows \in [Ops -> Rows(Owners)]
    BY DEF StoreInv, TypeOK
  <2> QED
    BY <1>2, <1>3, <2>1 DEF Rows
<1>5. /\ held' \in [Threads -> [Ops -> [version : Nat, owner : Owners \cup {NoOwner}]]]
      /\ \A t \in Threads, op \in Ops : held'[t][op].version <= rows'[op].version
  <2> DEFINE Holdings == [version : Nat, owner : Owners \cup {NoOwner}]
  <2>1. /\ held \in [Threads -> [Ops -> Holdings]]
        /\ \A t \in Threads, op \in Ops : /\ held[t][op].version \in Nat
                                          /\ held[t][op].version <= rows'[op].version
    BY <1>4 DEF StoreInv, TypeOK
  <2>2. ASSUME NEW t \in Threads, NEW op \in Ops, NEW h \in Holdings,
               h.version <= rows'[op].version, held' = [held EXCEPT ![t] = [@ EXCEPT ![op] = h]]
        PROVE  /\ held' \in [Threads -> [Ops -> Holdings]]
               /\ \A u \in Threads, o \in Ops : held'[u][o].version <= rows'[o].version
    BY <2>1, <2>2
  <2>3. NotHeld \in Holdings /\ \A op \in Ops : NotHeld.version <= rows'[op].version
    BY <1>4 DEF NotHeld
  <2>4. \A op \in Ops : LET h == [version |-> rows'[op].version, owner |-> rows'[op].owner]
                        IN  h \in Holdings /\ h.version <= rows'[op].version
    BY <1>4
  <2> DEFINE Kept == /\ held' \in [Threads -> [Ops -> Holdings]]
                     /\ \A u \in Threads, o \in Ops : held'[u][o].version <= rows'[o].version
  <2> HIDE DEF Holdings
  <2>5. ASSUME held' = held PROVE Kept
    BY <2>1, <2>5
  <2>6. ASSUME NEW t \in Threads, NEW op \in Ops,
               held' = [held EXCEPT ![t] = [@ EXCEPT ![op] = NotHeld]]
        PROVE  Kept
    BY <2>2, <2>3, <2>6
  <2>7. ASSUME NEW t \in Threads, NEW op \in Ops,
               held' = [held EXCEPT ![t] = [@ EXCEPT ![op] =
                          [version |-> rows'[op].version, owner |-> rows'[op].owner]]]
        PROVE  Kept
    BY <2>2, <2>4, <2>7
  <2> HIDE DEF Kept
  <2>8. Kept
    BY <2>5, <2>6, <2>7, StepShape
  <2> QED
    BY <2>8 DEF Kept, Holdings
<1>6. TypeOK'
  BY <1>3, <1>5, StepShape DEF TypeOK
<1>7. LeaseBounded'
  <2>1. ASSUME NEW op \in Ops PROVE rows'[op].lease <= clock' + LeaseLen
    <3>1. rows'[op].lease \in Nat /\ LeaseLen \in Nat /\ clock \in Nat
      BY <1>3, Bounds DEF Rows, StoreInv, TypeOK
    <3>2. rows[op].lease <= clock + LeaseLen
      BY DEF StoreInv, LeaseBounded
    <3> QED
      BY <1>1, <1>2, <3>1, <3>2
  <2> QED
    BY <2>1 DEF LeaseBounded
<1>8. \A op \in Ops \ LegacyOps : PolicyKnown(KindOf[op], rows'[op])
  BY <1>2 DEF StoreInv
<1> QED
  BY <1>2, <1>5, <1>6, <1>7, <1>8 DEF StoreInv

LEMMA StoreInvariant == Spec => []StoreInv
BY StoreInit, StoreStep, PTL DEF Spec
-----------------------------------------------------------------------------
(* Type correctness of the run store and of what the threads remember.      *)
THEOREM Typing == Spec => []TypeOK
<1>1. StoreInv => TypeOK
  BY DEF StoreInv
<1> QED
  BY <1>1, StoreInvariant, PTL

(* Every row that any interleaving of claims, take-overs, failures, parking *)
(* and adoption leaves behind can be loaded again.                          *)
THEOREM Reloadable == Spec => []RowsReloadable
<1>1. StoreInv => RowsReloadable
  BY DEF StoreInv, RowGood, RowsReloadable
<1> QED
  BY <1>1, StoreInvariant, PTL

(* Renewals and resumptions never push a lease further than LeaseLen away.  *)
THEOREM LeasesBounded == Spec => []LeaseBounded
<1>1. StoreInv => LeaseBounded
  BY DEF StoreInv
<1> QED
  BY <1>1, StoreInvariant, PTL

(* Of any number of threads that think they own a run, with whatever        *)
(* take-overs and zombies, at most one knows the version it must present.   *)
THEOREM SoleHolding == Spec => []SoleHolder
<1>1. Init => SoleHolder
  <2>1. NotHeld.owner \notin Flows
    BY OwnersDistinct DEF NotHeld, Owners
  <2> QED
    BY <2>1 DEF Init, SoleHolder, HoldsOwn
<1>2. StoreInv /\ SoleHolder /\ [Next]_vars => SoleHolder'
  <2> SUFFICES ASSUME StoreInv, SoleHolder, [Next]_vars PROVE SoleHolder'
    OBVIOUS
  <2>1. /\ held \in [Threads -> [Ops -> [version : Nat, owner : Owners \cup {NoOwner}]]]
        /\ \A op \in Ops : rows[op].version \in Nat
        /\ \A t \in Threads, op \in Ops : held[t][op].version <= rows[op].version
    BY DEF StoreInv, TypeOK, Rows
  <2>2. NotHeld.owner \notin Flows
    BY OwnersDistinct DEF NotHeld, Owners
  <2>3. ASSUME held' = held PROVE SoleHolder'
    BY <2>3 DEF SoleHolder, HoldsOwn
  <2>4. ASSUME NEW t \in Threads, NEW op \in Ops,
               held' = [held EXCEPT ![t] = [@ EXCEPT ![op] = NotHeld]]
        PROVE  SoleHolder'
    <3>1. \A u \in Threads, o \in Ops :
            held'[u][o] = IF u = t /\ o = op THEN NotHeld ELSE held[u][o]
      BY <2>1, <2>4
    <3> QED
      BY <2>2, <3>1 DEF SoleHolder, HoldsOwn
  <2>5. ASSUME NEW t \in Threads, NEW op \in Ops,
               held' = [held EXCEPT ![t] = [@ EXCEPT ![op] =
                          [version |-> rows'[op].version, owner |-> rows'[op].owner]]],
               rows'[op].version = rows[op].version + 1 \/ rows'[op].owner \notin Flows
        PROVE  SoleHolder'
    <3> DEFINE h == [version |-> rows'[op].version, owner |-> rows'[op].owner]
    <3>1. \A u \in Threads, o \in Ops : held'[u][o] = IF u = t /\ o = op THEN h ELSE held[u][o]
      BY <2>1, <2>5
    <3>2. h.owner \in Flows => h.version = rows[op].version + 1
      BY <2>5
    <3>3. \A u \in Threads : h.owner \in Flows => held[u][op].version # h.version
      BY <2>1, <3>2
    <3> HIDE DEF h
    <3> QED
      BY <3>1, <3>3 DEF SoleHolder, HoldsOwn
  <2> HIDE DEF SoleHolder
  <2> QED
    BY <2>3, <2>4, <2>5, StepShape
<1> QED
  BY <1>1, <1>2, StoreInvariant, PTL DEF Spec

(* What a change of a row leaves alone. *)
LEMMA RowMoveFinal ==
  ASSUME NEW k \in Kinds, NEW r, NEW r2, NEW m, RowGood(k, r), RowMove(k, r, r2, m),
         r.status = "completed"
  PROVE  /\ r2.status = "completed" /\ r2.scoring = r.scoring /\ r2.stateV = r.stateV
         /\ r2.feedback = r.feedback /\ r2.report = r.report
<1>1. r \in Rows(Owners)
  BY DEF RowGood
<1>2. r2 = r \/ r2 = AdoptedDependencies(k, r) \/ r2 = AdoptedPolicy(r)
  BY DEF RowMove, Claimable, WaitingStatuses
<1> QED
  BY <1>1, <1>2 DEF AdoptedDependencies, AdoptedPolicy, Bump, Rows

LEMMA RowMoveBaseline ==
  ASSUME NEW k \in Kinds, NEW r, NEW r2, NEW m, RowGood(k, r), RowMove(k, r, r2, m),
         r.stateV # 0
  PROVE  r2.base = r.base
<1>1. r \in Rows(Owners) /\ r.checkpoint \in PostState[k]
  BY DEF RowGood
<1>2. CASE r2 = r
  BY <1>2
<1>3. ASSUME NEW w \in Owners, NEW until \in 1 .. m,
             \/ r2 = Claimed(k, r, w, until) \/ r2 = Leased(r, w, until)
             \/ r2 = [r EXCEPT !.lease = until] \/ r2 = Resumed(r, w, until)
      PROVE  r2.base = r.base
  BY <1>1, <1>3 DEF Claimed, Resumed, Leased, Bump, Rows
<1>4. ASSUME NEW cp \in Checkpoints(k), NEW refs \in RefsAt(cp), CanAdvance(k, r, cp, refs),
             r2 = Advanced(r, cp, refs)
      PROVE  r2.base = r.base
  <2>1. cp # "state_inputs_frozen"
    BY <1>1, <1>4, PostStateClosed DEF CanAdvance
  <2>2. refs.base = NoRef
    BY <1>4, <2>1 DEF CanAdvance, DedicatedCheckpoints
  <2> QED
    BY <1>1, <1>4, <2>2 DEF Advanced, Pick, Bump, Rows
<1>5. ASSUME NEW base, CanRebase(k, r) PROVE FALSE
  BY <1>5 DEF CanRebase
<1>6. ASSUME r2 = Failed(r) PROVE r2.base = r.base
  BY <1>1, <1>6 DEF Failed, Released, Bump, Rows
<1>7. ASSUME r.checkpoint = "scoring_saved" PROVE FALSE
  BY <1>1, <1>7, PostStateClosed
<1>8. ASSUME NEW status, NEW c, r2 = Parked(r, status, FALSE, NoRef, c) PROVE r2.base = r.base
  BY <1>1, <1>8 DEF Parked, Pick, Released, Bump, Rows
<1>9. ASSUME NEW refs, r2 = Finished(r, refs) PROVE r2.base = r.base
  BY <1>1, <1>9 DEF Finished, Released, Bump, Rows
<1>10. CASE r2 = AdoptedDependencies(k, r) \/ r2 = AdoptedPolicy(r)
  BY <1>1, <1>10 DEF AdoptedDependencies, AdoptedPolicy, Bump, Rows
<1> QED
  BY <1>2, <1>3, <1>4, <1>5, <1>6, <1>7, <1>8, <1>9, <1>10 DEF RowMove

(* What a completed run answers never changes.                              *)
THEOREM ResultsFinal == Spec => CompletedResultsFinal
<1>1. StoreInv /\ [Next]_vars =>
        [\A op \in Ops : rows[op].status = "completed" =>
           /\ rows'[op].status = "completed"
           /\ \A f \in {"scoring", "stateV", "feedback", "report"} :
                rows'[op][f] = rows[op][f]]_vars
  <2> SUFFICES ASSUME StoreInv, [Next]_vars, NEW op \in Ops, rows[op].status = "completed"
               PROVE  /\ rows'[op].status = "completed"
                      /\ \A f \in {"scoring", "stateV", "feedback", "report"} :
                           rows'[op][f] = rows[op][f]
    OBVIOUS
  <2>1. KindOf[op] \in Kinds /\ RowGood(KindOf[op], rows[op])
          /\ RowMove(KindOf[op], rows[op], rows'[op], clock + LeaseLen)
    BY StepShape, Shapes DEF StoreInv
  <2> QED
    BY <2>1, RowMoveFinal
<1> QED
  BY <1>1, StoreInvariant, PTL DEF Spec, CompletedResultsFinal

(* The baseline a saved M5 state was computed from is never replaced.       *)
THEOREM BaselineKept == Spec => SavedBaselineKept
<1>1. StoreInv /\ [Next]_vars =>
        [\A op \in Ops : rows[op].stateV # 0 => rows'[op].base = rows[op].base]_vars
  <2> SUFFICES ASSUME StoreInv, [Next]_vars, NEW op \in Ops, rows[op].stateV # 0
               PROVE  rows'[op].base = rows[op].base
    OBVIOUS
  <2>1. KindOf[op] \in Kinds /\ RowGood(KindOf[op], rows[op])
          /\ RowMove(KindOf[op], rows[op], rows'[op], clock + LeaseLen)
    BY StepShape, Shapes DEF StoreInv
  <2> QED
    BY <2>1, RowMoveBaseline
<1> QED
  BY <1>1, StoreInvariant, PTL DEF Spec, SavedBaselineKept

(* One submit and one unfinished review per paper.                          *)
THEOREM PapersExclusive == Spec => []PaperExclusive
<1>1. Init => PaperExclusive
  BY LegacyRowsDistinct, Shapes DEF Init, PaperExclusive
<1>2. StoreInv /\ PaperExclusive /\ [Next]_vars => PaperExclusive'
  <2> SUFFICES ASSUME StoreInv, PaperExclusive, [Next]_vars PROVE PaperExclusive'
    OBVIOUS
  <2>1. \A op \in Ops : rows[op].status = "completed" => rows'[op].status = "completed"
    <3>1. TAKE op \in Ops
    <3>2. KindOf[op] \in Kinds /\ RowGood(KindOf[op], rows[op])
            /\ RowMove(KindOf[op], rows[op], rows'[op], clock + LeaseLen)
      BY StepShape, Shapes DEF StoreInv
    <3> QED
      BY <3>2, RowMoveFinal
  <2>2. recorded \subseteq Ops
    BY DEF StoreInv, TypeOK
  <2>3. CASE recorded' = recorded
    BY <2>1, <2>2, <2>3 DEF PaperExclusive
  <2>4. ASSUME NEW op \in Ops, Record(op) PROVE PaperExclusive'
    <3>1. recorded' = recorded \cup {op} /\ rows' = rows
      BY <2>4 DEF Record
    <3>2. ASSUME NEW o \in recorded, PaperOf[o] = PaperOf[op]
          PROVE  /\ ~ (KindOf[o] = "submit" /\ KindOf[op] = "submit")
                 /\ KindOf[o] = "review" /\ KindOf[op] = "review" => rows[o].status = "completed"
      BY <2>4, <3>2 DEF Record
    <3> QED
      BY <3>1, <3>2 DEF PaperExclusive
  <2>5. recorded' = recorded \/ \E op \in Ops : Record(op)
    <3>1. \A t, op, n : ThreadStep(t, op, n) => recorded' = recorded
      BY StepsAreCalls DEF Calls
    <3> QED
      BY <3>1 DEF Next, AdoptDependencies, Abandon, Tick, vars
  <2> QED
    BY <2>3, <2>4, <2>5
<1> QED
  BY <1>1, <1>2, StoreInvariant, PTL DEF Spec
-----------------------------------------------------------------------------
(* Fencing: when request flows have one thread each, a thread whose run is  *)
(* still owned by its flow knows the run's current version.                 *)
FlowsDistinct == \A t, u \in Threads : t # u => FlowOf[t] # FlowOf[u]

Fenced ==
  \A op \in Ops \ LegacyOps, t \in Threads :
    HoldsOwn(t, op) =>
      /\ held[t][op].owner = FlowOf[t]
      /\ rows[op].owner = FlowOf[t] => held[t][op].version = rows[op].version

(* What a step does to one run and to what the threads remember of it.      *)
Still(op) ==
  /\ rows'[op].version = rows[op].version /\ rows'[op].owner = rows[op].owner
  /\ \A t \in Threads : held'[t][op] \in {held[t][op], NotHeld} \/ held'[t][op].owner \notin Flows

Moved(op, u) ==
  /\ rows'[op].version = rows[op].version + 1
  /\ rows'[op].owner \notin Flows \/ rows'[op].owner = FlowOf[u]
  /\ \/ held'[u][op] = NotHeld
     \/ held'[u][op] = [version |-> rows'[op].version, owner |-> rows'[op].owner]
  /\ \A t \in Threads : t # u => held'[t][op] = held[t][op]
  /\ Live(rows[op], clock) => Holds(u, op) /\ held[u][op].version = rows[op].version

LEMMA CallMoves ==
  ASSUME StoreInv, Fenced, NEW op \in Ops \ LegacyOps, NEW t \in Threads,
         NEW n \in since[t] .. clock, ThreadStep(t, op, n)
  PROVE  Still(op) \/ Moved(op, t)
<1> DEFINE k == KindOf[op]
           row == rows[op]
           until == n + LeaseLen
<1>1. /\ row \in Rows(Owners) /\ RowGood(k, row) /\ k \in Kinds /\ rows \in [Ops -> Rows(Owners)]
      /\ held \in [Threads -> [Ops -> [version : Nat, owner : Owners \cup {NoOwner}]]]
      /\ clock \in Nat /\ n \in Nat /\ n <= clock /\ PolicyKnown(k, row)
  BY Shapes DEF StoreInv, TypeOK
<1>2. /\ FlowOf[t] \in Flows /\ NoOwner \notin Flows
      /\ \A role \in Roles : SideOwner(role, op) \notin Flows
  <2>1. \A role \in Roles : SideOwner(role, op) \in SideOwners
    BY DEF SideOwners, SideOwner
  <2> QED
    BY <2>1, Shapes, OwnersDistinct DEF Owners
<1>3. ASSUME NEW r, rows' = [rows EXCEPT ![op] = r], r.version = row.version + 1,
             r.owner \notin Flows \/ r.owner = FlowOf[t],
             Grant(t, op, r) \/ GiveUp(t, op, r),
             Live(row, clock) => Holds(t, op) /\ held[t][op].version = row.version
      PROVE  Moved(op, t)
  <2>1. rows'[op] = r
    BY <1>1, <1>3
  <2>2. \A u \in Threads : u # t => held'[u][op] = held[u][op]
    BY <1>1, <1>3 DEF Grant, GiveUp
  <2>3. held'[t][op] \in {NotHeld, [version |-> r.version, owner |-> r.owner]}
    BY <1>1, <1>3 DEF Grant, GiveUp
  <2> QED
    BY <1>3, <2>1, <2>2, <2>3 DEF Moved
<1>4. Accepted(t, op, n) => /\ Holds(t, op) /\ held[t][op].version = row.version
                            /\ row.owner = held[t][op].owner
  BY DEF Accepted, Owned
<1>5. ASSUME AdoptPolicy(t, op, n) PROVE FALSE
  BY <1>1, <1>5 DEF AdoptPolicy, CanAdoptPolicy, PolicyKnown
<1>6. ASSUME Claim(t, op, n) PROVE Moved(op, t)
  <2> DEFINE r == Claimed(k, row, FlowOf[t], until)
  <2>1. r.version = row.version + 1 /\ r.owner = FlowOf[t]
    BY <1>1 DEF Claimed, Leased, Bump, Rows
  <2>2. ~ Live(row, clock) /\ Grant(t, op, r)
    BY <1>6 DEF Claim, Claimable, Live
  <2> HIDE DEF r
  <2> QED
    BY <1>3, <2>1, <2>2 DEF Grant
<1>7. ASSUME Reclaim(t, op, n) PROVE Moved(op, t)
  <2> DEFINE r == Leased(row, FlowOf[t], until)
  <2>1. r.version = row.version + 1 /\ r.owner = FlowOf[t]
    BY <1>1 DEF Leased, Bump, Rows
  <2>2. ~ Live(row, clock) /\ Grant(t, op, r)
    <3>1. Expired(row, n) /\ row.lease \in Nat
      BY <1>1, <1>7 DEF Reclaim, Rows
    <3> QED
      BY <1>1, <1>7, <3>1 DEF Reclaim, Expired, Live
  <2> HIDE DEF r
  <2> QED
    BY <1>3, <2>1, <2>2 DEF Grant
<1>8. ASSUME Renew(t, op, n) PROVE Still(op)
  <2>1. rows' = [rows EXCEPT ![op] = [row EXCEPT !.lease = until]] /\ held' = held
    BY <1>8 DEF Renew
  <2>2. rows'[op] = [row EXCEPT !.lease = until]
    BY <1>1, <2>1
  <2> QED
    BY <1>1, <2>1, <2>2 DEF Still, Rows
<1>9. ASSUME NEW cp \in Checkpoints(k), NEW refs \in RefsAt(cp), Advance(t, op, n, cp, refs)
      PROVE  Moved(op, t)
  <2> DEFINE r == Advanced(row, cp, refs)
  <2>1. Accepted(t, op, n) /\ HoldsOwn(t, op) /\ (Grant(t, op, r) \/ GiveUp(t, op, r))
    BY <1>9 DEF Advance
  <2>2. r.version = row.version + 1 /\ r.owner \in {NoOwner, row.owner}
    BY <1>1 DEF Advanced, Bump, Rows
  <2>3. row.owner = FlowOf[t]
    BY <1>4, <2>1 DEF Fenced
  <2> HIDE DEF r
  <2> QED
    BY <1>2, <1>3, <1>4, <2>1, <2>2, <2>3 DEF Grant, GiveUp
<1>10. ASSUME NEW base \in Baselines, Rebase(t, op, n, base) PROVE Moved(op, t)
  <2> DEFINE r == Rebased(row, base)
  <2>1. Accepted(t, op, n) /\ HoldsOwn(t, op) /\ Grant(t, op, r)
    BY <1>10 DEF Rebase
  <2>2. r.version = row.version + 1 /\ r.owner = row.owner
    BY <1>1 DEF Rebased, Bump, Rows
  <2>3. row.owner = FlowOf[t]
    BY <1>4, <2>1 DEF Fenced
  <2> HIDE DEF r
  <2> QED
    BY <1>3, <1>4, <2>1, <2>2, <2>3 DEF Grant
<1>11. ASSUME Fail(t, op, n) PROVE Moved(op, t)
  <2> DEFINE r == Failed(row)
  <2>1. Holds(t, op) /\ HoldsOwn(t, op) /\ row.owner = held[t][op].owner /\ GiveUp(t, op, r)
    BY <1>11 DEF Fail
  <2>2. r.version = row.version + 1 /\ r.owner = NoOwner
    BY <1>1 DEF Failed, Released, Bump, Rows
  <2>3. held[t][op].version = row.version
    BY <2>1 DEF Fenced
  <2> HIDE DEF r
  <2> QED
    BY <1>2, <1>3, <2>1, <2>2, <2>3 DEF GiveUp
<1>12. ASSUME NEW status, NEW freeze, NEW base, NEW c, Accepted(t, op, n),
              GiveUp(t, op, Parked(row, status, freeze, base, c))
       PROVE  Moved(op, t)
  <2> DEFINE r == Parked(row, status, freeze, base, c)
  <2>1. r.version = row.version + 1 /\ r.owner = NoOwner
    BY <1>1 DEF Parked, Released, Bump, Rows
  <2>2. GiveUp(t, op, r)
    BY <1>12
  <2> HIDE DEF r
  <2> QED
    BY <1>2, <1>3, <1>4, <1>12, <2>1, <2>2 DEF GiveUp
<1>13. ASSUME NEW role \in Roles, Resume(t, op, n, role) PROVE Moved(op, t)
  <2> DEFINE r == Resumed(row, SideOwner(role, op), until)
  <2>1. r.version = row.version + 1 /\ r.owner = SideOwner(role, op)
    BY <1>1 DEF Resumed, Leased, Bump, Rows
  <2>2. ~ Live(row, clock) /\ Grant(t, op, r)
    BY <1>13 DEF Resume, WaitingStatuses, Live
  <2> HIDE DEF r
  <2> QED
    BY <1>2, <1>3, <2>1, <2>2 DEF Grant
<1>14. ASSUME EnsureClaim(t, op, n) PROVE Moved(op, t)
  <2> DEFINE w == SideOwner("rescore", op)
  <2>1. w \notin Flows
    BY <1>2 DEF Roles
  <2>2. CASE row.status = "failed" /\ Grant(t, op, Claimed("submit", row, w, until))
    <3> DEFINE r == Claimed("submit", row, w, until)
    <3>1. r.version = row.version + 1 /\ r.owner = w
      BY <1>1 DEF Claimed, Leased, Bump, Rows
    <3>2. ~ Live(row, clock) /\ Grant(t, op, r)
      BY <2>2 DEF Live
    <3> HIDE DEF r, w
    <3> QED
      BY <1>3, <2>1, <3>1, <3>2 DEF Grant
  <2>3. CASE Expired(row, n) /\ Grant(t, op, Leased(row, w, until))
    <3> DEFINE r == Leased(row, w, until)
    <3>1. r.version = row.version + 1 /\ r.owner = w
      BY <1>1 DEF Leased, Bump, Rows
    <3>2. ~ Live(row, clock) /\ Grant(t, op, r)
      <4>1. row.lease \in Nat
        BY <1>1 DEF Rows
      <4> QED
        BY <1>1, <2>3, <4>1 DEF Expired, Live
    <3> HIDE DEF r, w
    <3> QED
      BY <1>3, <2>1, <3>1, <3>2 DEF Grant
  <2> QED
    BY <1>14, <2>2, <2>3 DEF EnsureClaim
<1>15. ASSUME EnsureJoin(t, op, n) PROVE Still(op)
  <2>1. rows' = [rows EXCEPT ![op] = row] /\ row.owner = SideOwner("rescore", op)
        /\ held' = [held EXCEPT ![t] = [@ EXCEPT ![op] = [version |-> row.version, owner |-> row.owner]]]
    BY <1>15 DEF EnsureJoin, Grant
  <2>2. rows'[op] = row /\ row.owner \notin Flows
    BY <1>1, <1>2, <2>1 DEF Roles
  <2>3. \A u \in Threads : held'[u][op] = IF u = t THEN [version |-> row.version, owner |-> row.owner]
                                                   ELSE held[u][op]
    BY <1>1, <2>1
  <2> QED
    BY <2>2, <2>3 DEF Still
<1>16. ASSUME NEW refs, Finish(t, op, n, refs) PROVE Moved(op, t)
  <2> DEFINE r == Finished(row, refs)
  <2>1. r.version = row.version + 1 /\ r.owner = NoOwner
    BY <1>1 DEF Finished, Released, Bump, Rows
  <2>2. Accepted(t, op, n) /\ GiveUp(t, op, r)
    BY <1>16 DEF Finish
  <2> HIDE DEF r
  <2> QED
    BY <1>2, <1>3, <1>4, <2>1, <2>2 DEF GiveUp
<1> QED
  BY <1>5, <1>6, <1>7, <1>8, <1>9, <1>10, <1>11, <1>12, <1>13, <1>14, <1>15, <1>16
     DEF ThreadStep, ParkScored, ParkResumed, FinishTransient, FinishUndecided, CommitWaiting

LEMMA StepMoves ==
  ASSUME StoreInv, Fenced, Next, NEW op \in Ops \ LegacyOps
  PROVE  Still(op) \/ \E u \in Threads : Moved(op, u)
<1>1. /\ rows \in [Ops -> Rows(Owners)]
      /\ held \in [Threads -> [Ops -> [version : Nat, owner : Owners \cup {NoOwner}]]]
  BY DEF StoreInv, TypeOK
<1>2. ASSUME rows'[op] = rows[op], \A t \in Threads : held'[t][op] = held[t][op] PROVE Still(op)
  BY <1>2 DEF Still
<1>3. CASE \E o \in Ops : Record(o) \/ AdoptDependencies(o)
  <2>1. PICK o \in Ops : Record(o) \/ AdoptDependencies(o)
    BY <1>3
  <2>2. o = op => ~ AdoptDependencies(o)
    BY DEF AdoptDependencies, CanAdoptDependencies, StoreInv, PolicyKnown
  <2>3. rows'[op] = rows[op] /\ held' = held
    BY <1>1, <2>1, <2>2 DEF Record, AdoptDependencies
  <2> QED
    BY <1>2, <2>3
<1>4. CASE \E t \in Threads, o \in Ops : Abandon(t, o)
  <2>1. PICK t \in Threads, o \in Ops : Abandon(t, o)
    BY <1>4
  <2>2. rows' = rows /\ \A u \in Threads : held'[u][op] \in {held[u][op], NotHeld}
    BY <1>1, <2>1 DEF Abandon
  <2> QED
    BY <2>2 DEF Still
<1>5. CASE \E t \in Threads, o \in Ops : \E n \in since[t] .. clock : ThreadStep(t, o, n)
  <2>1. PICK t \in Threads, o \in Ops : \E n \in since[t] .. clock : ThreadStep(t, o, n)
    BY <1>5
  <2>2. CASE o = op
    BY <2>1, <2>2, CallMoves
  <2>3. CASE o # op
    <3>1. PICK r : Effect(t, o, r)
      BY <2>1, CallEffect
    <3>2. rows'[op] = rows[op]
      BY <1>1, <2>3, <3>1 DEF Effect
    <3>3. ASSUME NEW h, held' = [held EXCEPT ![t] = [@ EXCEPT ![o] = h]]
          PROVE  \A u \in Threads : held'[u][op] = held[u][op]
      BY <1>1, <2>3, <3>3
    <3>4. \A u \in Threads : held'[u][op] = held[u][op]
      BY <3>1, <3>3 DEF Effect
    <3> QED
      BY <1>2, <3>2, <3>4
  <2> QED
    BY <2>2, <2>3
<1>6. CASE Tick
  BY <1>2, <1>6 DEF Tick
<1> QED
  BY <1>3, <1>4, <1>5, <1>6 DEF Next

LEMMA FencedInvariant ==
  ASSUME FlowsDistinct
  PROVE  Spec => []Fenced
<1>1. Init => Fenced
  <2>1. NotHeld.owner \notin Flows
    BY OwnersDistinct DEF NotHeld, Owners
  <2> QED
    BY <2>1 DEF Init, Fenced, HoldsOwn
<1>2. StoreInv /\ Fenced /\ [Next]_vars => Fenced'
  <2> SUFFICES ASSUME StoreInv, Fenced, [Next]_vars, NEW op \in Ops \ LegacyOps,
                      NEW t \in Threads, HoldsOwn(t, op)'
               PROVE  /\ held'[t][op].owner = FlowOf[t]
                      /\ rows'[op].owner = FlowOf[t] => held'[t][op].version = rows'[op].version
    BY DEF Fenced
  <2>1. held'[t][op].owner \in Flows /\ NotHeld.owner \notin Flows /\ FlowOf[t] \in Flows
    BY Shapes, OwnersDistinct DEF HoldsOwn, NotHeld, Owners
  <2>2. held[t][op].owner \in Flows =>
          /\ held[t][op].owner = FlowOf[t]
          /\ rows[op].owner = FlowOf[t] => held[t][op].version = rows[op].version
    BY DEF Fenced, HoldsOwn
  <2>3. CASE UNCHANGED vars
    BY <2>1, <2>2, <2>3 DEF vars
  <2>4. CASE Still(op)
    BY <2>1, <2>2, <2>4 DEF Still
  <2>5. ASSUME NEW u \in Threads, Moved(op, u)
        PROVE  /\ held'[t][op].owner = FlowOf[t]
               /\ rows'[op].owner = FlowOf[t] => held'[t][op].version = rows'[op].version
    <3>1. CASE u = t
      BY <2>1, <2>5, <3>1 DEF Moved
    <3>2. CASE u # t
      BY <2>1, <2>2, <2>5, <3>2, FlowsDistinct DEF Moved, FlowsDistinct
    <3> QED
      BY <3>1, <3>2
  <2> QED
    BY <2>3, <2>4, <2>5, StepMoves
<1> QED
  BY <1>1, <1>2, StoreInvariant, PTL DEF Spec

(* A live run is changed only by the thread that holds its current version, *)
(* provided no two requests share a flow.  (With a shared flow it is not:   *)
(* the run RunsSharedFlow shows how AssessmentRecovery.fail breaks it.)     *)
THEOREM LiveFencing ==
  ASSUME FlowsDistinct
  PROVE  Spec => LiveRunFenced
<1>1. StoreInv /\ Fenced /\ [Next]_vars =>
        [\A op \in Ops \ LegacyOps :
           Live(rows[op], clock) /\ rows'[op].version # rows[op].version =>
             \E t \in Threads : /\ Holds(t, op)
                                 /\ held[t][op].version = rows[op].version
                                 /\ held'[t][op] # held[t][op]]_vars
  <2> SUFFICES ASSUME StoreInv, Fenced, Next, NEW op \in Ops \ LegacyOps,
                      Live(rows[op], clock), rows'[op].version # rows[op].version
               PROVE  \E t \in Threads : /\ Holds(t, op)
                                          /\ held[t][op].version = rows[op].version
                                          /\ held'[t][op] # held[t][op]
    BY DEF vars
  <2>1. PICK u \in Threads : Moved(op, u)
    BY StepMoves DEF Still
  <2>2. Holds(u, op) /\ held[u][op].version = rows[op].version
    BY <2>1 DEF Moved
  <2>3. held'[u][op] # held[u][op]
    <3>1. rows[op].version \in Nat
      BY DEF StoreInv, TypeOK, Rows
    <3> QED
      BY <2>1, <2>2, <3>1 DEF Moved, Holds
  <2> QED
    BY <2>2, <2>3
<1> QED
  BY <1>1, StoreInvariant, FencedInvariant, PTL DEF Spec, LiveRunFenced
=============================================================================
