------------------------ MODULE AssessmentWorkflow_proofs ------------------------
(***************************************************************************)
(* What holds of the submission, reviews and rescores of an attempt for    *)
(* any number of requests, items and threads, and any number of failures:  *)
(* whatever a request has in hand refers to something that is stored, what *)
(* is posted to the profile is computed from the snapshots it replaces,    *)
(* and evidence that was posted is not posted again, although the check    *)
(* and the posting are two transactions and neither looks at the lease.    *)
(***************************************************************************)
EXTENDS AssessmentWorkflow, WellFoundedInduction, SequenceTheorems, TLAPS

Workers == Requests \cup {"review:", "commit:", "rescore:"}
AuditRecord == [status : {"pending", "approved", "rejected"}, by : Ops]
Bundle  == [hist : [Audits -> Seq(AuditRecord)], at : Nat]
Update  == [bundle : Nat, v : Nat \ {0}, base : Nat \X Nat]

StoresOK ==
  /\ bundles \in Seq(Bundle)
  /\ updates \in Seq(Update) /\ \A i \in DOMAIN updates : updates[i].bundle \in DOMAIN bundles
  /\ classV \in Nat /\ Len(updates) <= classV
  /\ decisions \subseteq Reviews
  /\ today \in Nat /\ \A i \in DOMAIN bundles : bundles[i].at <= today
  /\ forms \in [Reviews \cup Rescores -> [version : Nat, at : 0 .. today]]
  /\ faults \in Nat

(* A row names a bundle that is stored and a baseline that existed: when   *)
(* the class has not moved since, neither has the learner.                 *)
BaseOK(base) == base[2] <= classV /\ (base[2] = classV => base[1] = Len(updates))
RefsOK(r) ==
  /\ r.scoring # NoRef => r.scoring \in DOMAIN bundles
  /\ r.base # NoRef => BaseOK(r.base)

Frozen == {"state_inputs_frozen", "state_saved", "policy_frozen", "tutoring_saved",
           "feedback_saved", "analytics_saved"}

(* What a checkpoint and a status promise of the other columns. *)
RowOK(op, r) ==
  /\ r \in Rows(Workers) /\ RefsOK(r)
  /\ r.checkpoint \in Checkpoints(KindOf(op))
  /\ r.status = "pending" <=> r.checkpoint = "pending"
  /\ r.status = "completed" <=> r.checkpoint = "completed"
  /\ r.frozen # "unset" /\ (r.frozen = "frozen" => r.base # NoRef)
  /\ r.checkpoint \in Frozen => r.frozen = "frozen"
  /\ r.checkpoint \in {"scoring_saved", "completed"} \/ r.status \in WaitingStatuses =>
        r.scoring # NoRef

RowsOK ==
  /\ rows \in [Ops -> Rows(Workers)] /\ recorded \subseteq Ops
  /\ \A op \in Ops : RowOK(op, rows[op])
  /\ lastReview \in Reviews \cup {NoRequest}
  /\ lastReview # NoRequest => rows[lastReview].status = "completed"

Early == {"idle", "read", "record", "claim"}
SubmitOnly == {"score", "grade", "route"}
ReviewOnly == {"base", "decide", "decided", "lookup", "branch", "undecided", "rebase", "commit", "finish"}
RescoreOnly == {"rescore", "ensure"}
Updating == {"inputs", "check", "post", "close"}
Either == {"apply", "reviewed", "park"}

(* Which handler a label belongs to. *)
OpSuits(pc, op) ==
  /\ pc \in SubmitOnly => op = Submit
  /\ pc \in ReviewOnly => op \in Reviews
  /\ pc \in RescoreOnly => op \in Rescores
  /\ pc \in Updating => op \notin Rescores
  /\ pc \in Either => op # Submit

PlaceOK(l) ==
  /\ l.pc # "idle" => l.req \in Requests
  /\ l.pc \notin {"idle", "read", "record"} =>
        /\ l.op \in Ops /\ (l.op # Submit => l.req \notin Submissions)
        /\ l.op = Submit => l.req \in Submissions
  /\ OpSuits(l.pc, l.op)

(* A bundle in hand is stored. *)
Based == {"decide", "decided", "lookup", "apply"}
Scored == Updating \cup
  {"route", "reviewed", "branch", "park", "undecided", "rebase", "commit", "finish", "ensure"}

BundlesOK(l) ==
  /\ l.pc \notin {"idle", "read"} /\ l.req \notin Submissions => l.sub.scoring \in DOMAIN bundles
  /\ l.pc \in Based => l.cur \in DOMAIN bundles
  /\ l.pc \in Scored => l.rev \in DOMAIN bundles

(* The run of a submission or review in progress. *)
RunOK(l) ==
  /\ RefsOK(l.run)
  /\ l.pc \notin Early \cup {"fail"} /\ l.op \notin Rescores => RowOK(l.op, l.run)
  /\ l.pc \notin Early \cup {"fail", "commit", "finish"} /\ l.op \notin Rescores =>
        l.run.status = "running"
  /\ l.pc \in {"check", "post"} => l.run.base # NoRef
  /\ l.pc \in Updating /\ l.op = Submit => l.run.checkpoint \in Frozen \cup {"events_appended"}

(* While the baseline is current, what is about to be posted is new. *)
EvidenceOK(l) ==
  l.pc = "post" /\ l.run.base[2] = classV => ~ (Keys(bundles[l.rev]) \subseteq Processed)

LocalOK(l) == l \in Locals /\ PlaceOK(l) /\ BundlesOK(l) /\ RunOK(l) /\ EvidenceOK(l)

(* A thread that knows its run's version knows its checkpoint and checksum. *)
LinkOK(t, l) ==
  /\ l.pc \in Early => \A o \in Ops : t \notin current[o]
  /\ l.pc \notin Early \cup {"fail"} /\ l.op \notin Rescores /\ t \in current[l.op] =>
        rows[l.op].checkpoint = l.run.checkpoint /\ rows[l.op].scoring = l.run.scoring

ThreadsOK ==
  /\ th \in [Threads -> Locals] /\ current \in [Ops -> SUBSET Threads]
  /\ \A t \in Threads : LocalOK(th[t]) /\ LinkOK(t, th[t])

Inv == StoresOK /\ RowsOK /\ ThreadsOK

LEMMA OpFacts ==
  ASSUME NEW op \in Ops
  PROVE  KindOf(op) \in Kinds \ {"start"} /\ op # NoRequest
BY Disjoint DEF Ops, KindOf, Kinds, Requests

LEMMA NewRowOK ==
  ASSUME NEW op \in Ops PROVE RowOK(op, NewRow(KindOf(op)))
<1>1. KindOf(op) \in {"submit", "review", "rescore"}
  BY DEF KindOf
<1>2. NewRow(KindOf(op)) \in Rows(Workers)
  BY <1>1 DEF NewRow, Rows, AllCheckpoints, Statuses, Kinds, Checkpoints, After
<1> QED
  BY <1>1, <1>2 DEF NewRow, RowOK, RefsOK, Frozen, WaitingStatuses, Checkpoints, After
-----------------------------------------------------------------------------
(* A row stays a row when one column gets a value of its type. *)
LEMMA VersionColumn ==
  ASSUME NEW r \in Rows(Workers), NEW x \in Nat \ {0}
  PROVE  [r EXCEPT !.version = x] \in Rows(Workers)
BY DEF Rows

LEMMA CheckpointColumn ==
  ASSUME NEW r \in Rows(Workers), NEW x \in AllCheckpoints
  PROVE  [r EXCEPT !.checkpoint = x] \in Rows(Workers)
BY DEF Rows

LEMMA StatusColumn ==
  ASSUME NEW r \in Rows(Workers), NEW x \in Statuses
  PROVE  [r EXCEPT !.status = x] \in Rows(Workers)
BY DEF Rows

LEMMA OwnerColumn ==
  ASSUME NEW r \in Rows(Workers), NEW x \in Workers \cup {NoOwner}
  PROVE  [r EXCEPT !.owner = x] \in Rows(Workers)
BY DEF Rows

LEMMA LeaseColumn ==
  ASSUME NEW r \in Rows(Workers), NEW x \in Nat
  PROVE  [r EXCEPT !.lease = x] \in Rows(Workers)
BY DEF Rows

LEMMA ScoringColumn ==
  ASSUME NEW r \in Rows(Workers), NEW x \in Nat \cup {NoRef}
  PROVE  [r EXCEPT !.scoring = x] \in Rows(Workers)
BY DEF Rows

LEMMA StateVColumn ==
  ASSUME NEW r \in Rows(Workers), NEW x \in Nat
  PROVE  [r EXCEPT !.stateV = x] \in Rows(Workers)
BY DEF Rows

LEMMA FeedbackColumn ==
  ASSUME NEW r \in Rows(Workers), NEW x \in BOOLEAN
  PROVE  [r EXCEPT !.feedback = x] \in Rows(Workers)
BY DEF Rows

LEMMA ReportColumn ==
  ASSUME NEW r \in Rows(Workers), NEW x \in BOOLEAN
  PROVE  [r EXCEPT !.report = x] \in Rows(Workers)
BY DEF Rows

LEMMA FrozenColumn ==
  ASSUME NEW r \in Rows(Workers), NEW x \in {"unset", "open", "frozen"}
  PROVE  [r EXCEPT !.frozen = x] \in Rows(Workers)
BY DEF Rows

LEMMA BaseColumn ==
  ASSUME NEW r \in Rows(Workers), NEW x \in (Nat \X Nat) \cup {NoRef}
  PROVE  [r EXCEPT !.base = x] \in Rows(Workers)
BY DEF Rows

LEMMA PolicyColumn ==
  ASSUME NEW r \in Rows(Workers), NEW x \in BOOLEAN
  PROVE  [r EXCEPT !.policy = x] \in Rows(Workers)
BY DEF Rows

LEMMA BumpOK == ASSUME NEW r \in Rows(Workers) PROVE Bump(r) \in Rows(Workers)
BY DEF Rows, Bump

LEMMA LeaseColumns ==
  ASSUME NEW r \in Rows(Workers), NEW w \in Workers, NEW u \in Nat
  PROVE  Leased(r, w, u) \in Rows(Workers) /\ Released(r) \in Rows(Workers)
<1>1. Bump(r) \in Rows(Workers) /\ 0 \in Nat
  BY BumpOK
<1>2. Leased(r, w, u) \in Rows(Workers)
  BY <1>1, OwnerColumn, LeaseColumn DEF Leased
<1>3. Released(r) \in Rows(Workers)
  BY <1>1, OwnerColumn, LeaseColumn DEF Released
<1> QED
  BY <1>2, <1>3

LEMMA AllStatuses ==
  /\ "pending" \in Statuses /\ "running" \in Statuses /\ "failed" \in Statuses
  /\ "completed" \in Statuses /\ WaitingStatuses \subseteq Statuses
BY DEF Statuses
-----------------------------------------------------------------------------
(* The legal ways to change a row. *)

SameRefs(n, r) == n.scoring = r.scoring /\ n.base = r.base /\ n.frozen = r.frozen

One(r) == [r EXCEPT !.version = 1]

LEMMA OneRow ==
  ASSUME NEW op \in Ops, NEW r, RowOK(op, r)
  PROVE  /\ RowOK(op, One(r)) /\ SameRefs(One(r), r) /\ One(r).checkpoint = r.checkpoint
         /\ One(r).status = r.status /\ One(r).owner = r.owner
<1>1. One(r) \in Rows(Workers) /\ r \in Rows(Workers)
  BY VersionColumn DEF RowOK, One
<1>2. /\ SameRefs(One(r), r) /\ One(r).checkpoint = r.checkpoint
      /\ One(r).status = r.status /\ One(r).owner = r.owner
  BY <1>1 DEF Rows, SameRefs, One
<1> QED
  BY <1>1, <1>2 DEF RowOK, RefsOK, SameRefs

LEMMA LeasedRow ==
  ASSUME NEW op \in Ops, NEW r, RowOK(op, r), NEW o \in Workers, NEW u \in Nat
  PROVE  LET n == Leased(r, o, u)
         IN  /\ RowOK(op, n) /\ SameRefs(n, r) /\ n.checkpoint = r.checkpoint
             /\ n.status = r.status /\ n.owner = o
<1> DEFINE n == Leased(r, o, u)
<1>1. n \in Rows(Workers) /\ r \in Rows(Workers)
  BY LeaseColumns DEF RowOK
<1>2. SameRefs(n, r) /\ n.checkpoint = r.checkpoint /\ n.status = r.status /\ n.owner = o
  BY <1>1 DEF Rows, SameRefs, Leased, Bump
<1> HIDE DEF n
<1>3. RowOK(op, n)
  BY <1>1, <1>2 DEF RowOK, RefsOK, SameRefs
<1> QED
  BY <1>2, <1>3 DEF n

LEMMA ReleasedRow ==
  ASSUME NEW op \in Ops, NEW r, RowOK(op, r)
  PROVE  LET n == Released(r)
         IN  /\ RowOK(op, n) /\ SameRefs(n, r) /\ n.checkpoint = r.checkpoint
             /\ n.status = r.status /\ n.owner = NoOwner
             /\ n.stateV = r.stateV /\ n.feedback = r.feedback /\ n.report = r.report
<1> DEFINE n == Released(r)
<1>1. n \in Rows(Workers) /\ r \in Rows(Workers)
  BY BumpOK, OwnerColumn, LeaseColumn DEF RowOK, Released
<1>2. /\ SameRefs(n, r) /\ n.checkpoint = r.checkpoint /\ n.status = r.status /\ n.owner = NoOwner
      /\ n.stateV = r.stateV /\ n.feedback = r.feedback /\ n.report = r.report
  BY <1>1 DEF Rows, SameRefs, Released, Bump
<1> HIDE DEF n
<1>3. RowOK(op, n)
  BY <1>1, <1>2 DEF RowOK, RefsOK, SameRefs
<1> QED
  BY <1>2, <1>3 DEF n

LEMMA ClaimedRow ==
  ASSUME NEW op \in Ops, NEW r, RowOK(op, r), NEW o \in Workers, NEW u \in Nat, Claimable(r)
  PROVE  LET n == Claimed(KindOf(op), r, o, u)
         IN  RowOK(op, n) /\ n.status = "running" /\ n.owner = o
<1> DEFINE n == Claimed(KindOf(op), r, o, u)
           cp == IF r.status = "pending" THEN "claimed" ELSE r.checkpoint
<1>1. KindOf(op) \in {"submit", "review", "rescore"} /\ r \in Rows(Workers)
  BY DEF KindOf, RowOK
<1>2. /\ cp \in AllCheckpoints /\ cp \in Checkpoints(KindOf(op))
      /\ cp # "pending" /\ cp # "completed"
      /\ cp \in Frozen => r.checkpoint \in Frozen
      /\ cp = "scoring_saved" => r.checkpoint = "scoring_saved"
  BY <1>1 DEF RowOK, Claimable, Checkpoints, AllCheckpoints, After, Kinds, Frozen
<1>3. n = [[Leased(r, o, u) EXCEPT !.status = "running"] EXCEPT !.checkpoint = cp]
  <2>1. Leased(r, o, u).checkpoint = r.checkpoint
    BY <1>1 DEF Leased, Bump, Rows
  <2>2. r.status = "pending" => After[KindOf(op)][r.checkpoint] = "claimed"
    BY <1>1 DEF RowOK, After
  <2> QED
    BY <1>1, <2>1, <2>2 DEF Claimed
<1> HIDE DEF n, cp
<1>4. n \in Rows(Workers)
  BY <1>1, <1>2, <1>3, LeaseColumns, StatusColumn, CheckpointColumn, AllStatuses
<1>5. SameRefs(n, r) /\ n.checkpoint = cp /\ n.status = "running" /\ n.owner = o
  BY <1>1, <1>3 DEF Rows, SameRefs, Leased, Bump
<1>6. RowOK(op, n)
  BY <1>2, <1>4, <1>5 DEF RowOK, RefsOK, SameRefs, WaitingStatuses
<1> QED
  BY <1>5, <1>6 DEF n

LEMMA ResumedRow ==
  ASSUME NEW op \in Ops, NEW r, RowOK(op, r), NEW o \in Workers, NEW u \in Nat,
         r.status \in WaitingStatuses
  PROVE  LET n == Resumed(r, o, u)
         IN  RowOK(op, n) /\ n.status = "running" /\ n.owner = o
<1> DEFINE n == Resumed(r, o, u)
<1>1. n \in Rows(Workers) /\ r \in Rows(Workers)
  BY LeaseColumns, StatusColumn, AllStatuses DEF RowOK, Resumed
<1>2. SameRefs(n, r) /\ n.checkpoint = r.checkpoint /\ n.status = "running" /\ n.owner = o
  BY <1>1 DEF Rows, SameRefs, Resumed, Leased, Bump
<1> HIDE DEF n
<1>3. RowOK(op, n)
  BY <1>1, <1>2 DEF RowOK, RefsOK, SameRefs, WaitingStatuses
<1> QED
  BY <1>2, <1>3 DEF n

LEMMA FailedRow ==
  ASSUME NEW op \in Ops, NEW r, RowOK(op, r), r.status = "running"
  PROVE  LET n == Failed(r)
         IN  RowOK(op, n) /\ n.status = "failed" /\ n.owner = NoOwner
<1> DEFINE n == Failed(r)
<1>1. n \in Rows(Workers) /\ r \in Rows(Workers)
  BY BumpOK, OwnerColumn, LeaseColumn, StatusColumn, AllStatuses DEF RowOK, Failed, Released
<1>2. SameRefs(n, r) /\ n.checkpoint = r.checkpoint /\ n.status = "failed" /\ n.owner = NoOwner
  BY <1>1 DEF Rows, SameRefs, Failed, Released, Bump
<1> HIDE DEF n
<1>3. RowOK(op, n)
  BY <1>1, <1>2 DEF RowOK, RefsOK, SameRefs, WaitingStatuses
<1> QED
  BY <1>2, <1>3 DEF n

LEMMA RebasedRow ==
  ASSUME NEW op \in Ops, NEW r, RowOK(op, r), r.frozen = "frozen",
         NEW base \in Nat \X Nat, BaseOK(base)
  PROVE  LET n == Rebased(r, base)
         IN  /\ RowOK(op, n) /\ n.base = base /\ n.scoring = r.scoring
             /\ n.checkpoint = r.checkpoint /\ n.status = r.status /\ n.owner = r.owner
<1> DEFINE n == Rebased(r, base)
<1>1. n \in Rows(Workers) /\ r \in Rows(Workers) /\ base # NoRef
  BY BumpOK, BaseColumn, Nulls DEF RowOK, Rebased
<1>2. /\ n.base = base /\ n.scoring = r.scoring /\ n.frozen = r.frozen
      /\ n.checkpoint = r.checkpoint /\ n.status = r.status /\ n.owner = r.owner
  BY <1>1 DEF Rows, Rebased, Bump
<1> HIDE DEF n
<1>3. RowOK(op, n)
  BY <1>1, <1>2 DEF RowOK, RefsOK
<1> QED
  BY <1>2, <1>3 DEF n

LEMMA ParkedRow ==
  ASSUME NEW op \in Ops, NEW r, RowOK(op, r), r.status = "running",
         NEW status \in WaitingStatuses, NEW freeze \in BOOLEAN,
         NEW base \in (Nat \X Nat) \cup {NoRef}, base # NoRef => BaseOK(base), freeze => base # NoRef,
         NEW cs \in Nat \cup {NoRef}, cs # NoRef => cs \in DOMAIN bundles,
         cs = NoRef => r.scoring # NoRef
  PROVE  LET n == Parked(r, status, freeze, base, cs)
         IN  RowOK(op, n) /\ n.status = status /\ n.owner = NoOwner
<1> DEFINE n == Parked(r, status, freeze, base, cs)
           frozen == IF freeze THEN "frozen" ELSE r.frozen
           base1 == Pick(base, NoRef, r.base)
           scoring == Pick(cs, NoRef, r.scoring)
<1>1. r \in Rows(Workers) /\ status \in Statuses /\ status \notin {"running", "pending", "completed"}
  BY DEF RowOK, Statuses, WaitingStatuses
<1>2. /\ frozen \in {"unset", "open", "frozen"}
      /\ base1 \in (Nat \X Nat) \cup {NoRef} /\ scoring \in Nat \cup {NoRef}
  BY <1>1 DEF Rows, Pick
<1>3. n = [[[[Released(r) EXCEPT !.status = status] EXCEPT !.frozen = frozen]
                          EXCEPT !.base = base1] EXCEPT !.scoring = scoring]
  BY <1>1 DEF Parked, Released, Bump, Rows
<1>4. /\ scoring # NoRef /\ scoring \in DOMAIN bundles
      /\ base1 # NoRef => BaseOK(base1)
      /\ frozen # "unset" /\ (frozen = "frozen" => base1 # NoRef)
      /\ r.frozen = "frozen" => frozen = "frozen"
  BY DEF Pick, RowOK, RefsOK
<1> HIDE DEF n, frozen, base1, scoring
<1>5. n \in Rows(Workers)
  BY <1>1, <1>2, <1>3, BumpOK, OwnerColumn, LeaseColumn, StatusColumn, FrozenColumn,
     BaseColumn, ScoringColumn DEF Released
<1>6. /\ n.owner = NoOwner /\ n.status = status /\ n.checkpoint = r.checkpoint
      /\ n.frozen = frozen /\ n.base = base1 /\ n.scoring = scoring
  BY <1>1, <1>3 DEF Released, Bump, Rows
<1>7. RowOK(op, n)
  BY <1>1, <1>4, <1>5, <1>6 DEF RowOK, RefsOK
<1> QED
  BY <1>6, <1>7 DEF n

LEMMA FinishedRow ==
  ASSUME NEW op \in Ops, NEW r, RowOK(op, r), r.status = "running",
         NEW refs \in [scoring : Nat \cup {NoRef}, stateV : Nat, feedback : BOOLEAN, report : BOOLEAN,
                       frozen : BOOLEAN, base : (Nat \X Nat) \cup {NoRef}, policy : BOOLEAN],
         refs.scoring # NoRef => refs.scoring \in DOMAIN bundles,
         ValidRow(KindOf(op), Finished(r, refs))
  PROVE  LET n == Finished(r, refs)
         IN  RowOK(op, n) /\ n.status = "completed" /\ n.owner = NoOwner
<1> DEFINE n == Finished(r, refs)
           scoring == Pick(refs.scoring, NoRef, r.scoring)
           stateV == Pick(refs.stateV, 0, r.stateV)
           feedback == r.feedback \/ refs.feedback
           report == r.report \/ refs.report
<1>1. r \in Rows(Workers) /\ KindOf(op) \in {"submit", "review", "rescore"}
  BY DEF RowOK, KindOf
<1>2. /\ "completed" \in AllCheckpoints /\ "completed" \in Checkpoints(KindOf(op))
      /\ "completed" \notin Frozen
  BY <1>1 DEF AllCheckpoints, Checkpoints, Kinds, Frozen
<1>3. scoring \in Nat \cup {NoRef} /\ stateV \in Nat
  BY <1>1 DEF Rows, Pick
<1>4. feedback \in BOOLEAN /\ report \in BOOLEAN
  OBVIOUS
<1>5. /\ Released(r).scoring = r.scoring /\ Released(r).stateV = r.stateV
      /\ Released(r).feedback = r.feedback /\ Released(r).report = r.report
  BY ReleasedRow DEF SameRefs
<1>6. n = [Released(r) EXCEPT !.checkpoint = "completed", !.status = "completed", !.scoring = scoring,
             !.stateV = stateV, !.feedback = feedback, !.report = report]
  BY <1>5 DEF Finished
<1>7. scoring # NoRef => scoring \in DOMAIN bundles
  BY DEF Pick, RowOK, RefsOK
<1> HIDE DEF n, scoring, stateV, feedback, report
<1>8. n = [[[[[[Released(r) EXCEPT !.checkpoint = "completed"] EXCEPT !.status = "completed"]
                EXCEPT !.scoring = scoring] EXCEPT !.stateV = stateV]
                EXCEPT !.feedback = feedback] EXCEPT !.report = report]
  BY <1>6
<1>9. n \in Rows(Workers)
  BY <1>1, <1>2, <1>3, <1>4, <1>8, AllStatuses, BumpOK, OwnerColumn, LeaseColumn, CheckpointColumn,
     StatusColumn, ScoringColumn, StateVColumn, FeedbackColumn, ReportColumn DEF Released
<1>10. /\ n.owner = NoOwner /\ n.status = "completed" /\ n.checkpoint = "completed"
       /\ n.scoring = scoring /\ n.frozen = r.frozen /\ n.base = r.base
  BY <1>1, <1>8 DEF Released, Bump, Rows
<1>11. n.scoring # NoRef
  BY <1>1, <1>10 DEF n, ValidRow, CompletedRefsPresent
<1>12. RowOK(op, n)
  BY <1>2, <1>7, <1>9, <1>10, <1>11 DEF RowOK, RefsOK
<1> QED
  BY <1>10, <1>12 DEF n

(* What the references of an advance may be. *)
RefRows ==
  [scoring : Nat \cup {NoRef}, stateV : Nat, feedback : BOOLEAN, report : BOOLEAN,
   frozen : BOOLEAN, base : (Nat \X Nat) \cup {NoRef}, policy : BOOLEAN]

GoodRefs(cp, refs) ==
  /\ refs \in RefRows
  /\ refs.scoring # NoRef => refs.scoring \in DOMAIN bundles
  /\ cp = "scoring_saved" => refs.scoring # NoRef
  /\ refs.base # NoRef => BaseOK(refs.base)
  /\ refs.frozen => refs.base # NoRef

LEMMA NextCheckpoint ==
  ASSUME NEW k \in {"submit", "review", "rescore"}, NEW c \in DOMAIN After[k]
  PROVE  LET cp == After[k][c]
         IN  /\ cp \in AllCheckpoints /\ cp \in Checkpoints(k) /\ cp # "pending"
             /\ cp \in Frozen => cp = "state_inputs_frozen" \/ c \in Frozen
<1>1. CASE k = "submit"
  BY <1>1 DEF After, Checkpoints, AllCheckpoints, Kinds, Frozen
<1>2. CASE k = "review"
  BY <1>2 DEF After, Checkpoints, AllCheckpoints, Kinds, Frozen
<1>3. CASE k = "rescore"
  BY <1>3 DEF After, Checkpoints, AllCheckpoints, Kinds, Frozen
<1> QED
  BY <1>1, <1>2, <1>3

LEMMA AdvancedRow ==
  ASSUME NEW op \in Ops, NEW r, RowOK(op, r), NEW cp, NEW refs, GoodRefs(cp, refs),
         CanAdvance(KindOf(op), r, cp, refs)
  PROVE  LET n == Advanced(r, cp, refs)
         IN  /\ RowOK(op, n) /\ n.checkpoint = cp
             /\ n.status = IF cp = "completed" THEN "completed" ELSE "running"
             /\ n.owner = IF cp = "completed" THEN NoOwner ELSE r.owner
             /\ n.base = Pick(refs.base, NoRef, r.base)
<1> DEFINE n == Advanced(r, cp, refs)
           done == cp = "completed"
           status == IF done THEN "completed" ELSE "running"
           owner == IF done THEN NoOwner ELSE r.owner
           lease == IF done THEN 0 ELSE r.lease
           scoring == Pick(refs.scoring, NoRef, r.scoring)
           stateV == Pick(refs.stateV, 0, r.stateV)
           feedback == r.feedback \/ refs.feedback
           report == r.report \/ refs.report
           frozen == IF refs.frozen THEN "frozen" ELSE r.frozen
           base == Pick(refs.base, NoRef, r.base)
           policy == r.policy \/ refs.policy
<1>1. r \in Rows(Workers) /\ KindOf(op) \in {"submit", "review", "rescore"} /\ refs \in RefRows
  BY DEF RowOK, KindOf, GoodRefs
<1>2. /\ cp \in AllCheckpoints /\ cp \in Checkpoints(KindOf(op)) /\ cp # "pending"
      /\ cp \in Frozen => cp = "state_inputs_frozen" \/ r.checkpoint \in Frozen
  BY <1>1, NextCheckpoint DEF CanAdvance
<1>3. cp = "state_inputs_frozen" => refs.frozen
  BY DEF CanAdvance, DedicatedCheckpoints
<1>4. /\ status \in Statuses /\ status \in {"running", "completed"}
      /\ owner \in Workers \cup {NoOwner} /\ lease \in Nat
  BY <1>1, AllStatuses DEF Rows
<1>5. /\ scoring \in Nat \cup {NoRef} /\ stateV \in Nat
      /\ frozen \in {"unset", "open", "frozen"} /\ base \in (Nat \X Nat) \cup {NoRef}
  BY <1>1 DEF Rows, RefRows, Pick
<1>6. feedback \in BOOLEAN /\ report \in BOOLEAN /\ policy \in BOOLEAN
  OBVIOUS
<1>7. /\ scoring # NoRef => scoring \in DOMAIN bundles
      /\ cp = "scoring_saved" => scoring # NoRef
      /\ base # NoRef => BaseOK(base)
      /\ frozen # "unset" /\ (frozen = "frozen" => base # NoRef)
      /\ cp \in Frozen => frozen = "frozen"
  BY <1>2, <1>3 DEF Pick, RowOK, RefsOK, GoodRefs
<1>8. /\ Bump(r).owner = r.owner /\ Bump(r).lease = r.lease /\ Bump(r).scoring = r.scoring
      /\ Bump(r).stateV = r.stateV /\ Bump(r).feedback = r.feedback /\ Bump(r).report = r.report
      /\ Bump(r).frozen = r.frozen /\ Bump(r).base = r.base /\ Bump(r).policy = r.policy
  BY <1>1 DEF Bump, Rows
<1>9. n = [Bump(r) EXCEPT !.checkpoint = cp, !.status = status, !.owner = owner, !.lease = lease,
             !.scoring = scoring, !.stateV = stateV, !.feedback = feedback, !.report = report,
             !.frozen = frozen, !.base = base, !.policy = policy]
  BY <1>8 DEF Advanced
<1> HIDE DEF n, status, owner, lease, scoring, stateV, feedback, report, frozen, base, policy
<1>10. n = [[[[[[[[[[[Bump(r) EXCEPT !.checkpoint = cp] EXCEPT !.status = status] EXCEPT !.owner = owner]
                  EXCEPT !.lease = lease] EXCEPT !.scoring = scoring] EXCEPT !.stateV = stateV]
                  EXCEPT !.feedback = feedback] EXCEPT !.report = report] EXCEPT !.frozen = frozen]
                  EXCEPT !.base = base] EXCEPT !.policy = policy]
  BY <1>9
<1>11. n \in Rows(Workers)
  <2>1. PICK m \in Rows(Workers) :
          m = [[[[Bump(r) EXCEPT !.checkpoint = cp] EXCEPT !.status = status] EXCEPT !.owner = owner]
                         EXCEPT !.lease = lease]
    BY <1>1, <1>2, <1>4, BumpOK, CheckpointColumn, StatusColumn, OwnerColumn, LeaseColumn
  <2>2. PICK q \in Rows(Workers) :
          q = [[[[m EXCEPT !.scoring = scoring] EXCEPT !.stateV = stateV]
                  EXCEPT !.feedback = feedback] EXCEPT !.report = report]
    BY <1>5, <1>6, ScoringColumn, StateVColumn, FeedbackColumn, ReportColumn
  <2>3. n = [[[q EXCEPT !.frozen = frozen] EXCEPT !.base = base] EXCEPT !.policy = policy]
    BY <1>10, <2>1, <2>2
  <2> QED
    BY <1>5, <1>6, <2>3, FrozenColumn, BaseColumn, PolicyColumn
<1>12. /\ n.owner = owner /\ n.status = status /\ n.checkpoint = cp
       /\ n.scoring = scoring /\ n.frozen = frozen /\ n.base = base
  BY <1>1, <1>10 DEF Bump, Rows
<1>13. cp = "completed" => n.scoring # NoRef
  BY <1>1, <1>12 DEF CanAdvance, ValidRow, CompletedRefsPresent, n, status
<1>14. RowOK(op, n)
  BY <1>2, <1>4, <1>7, <1>11, <1>12, <1>13 DEF RowOK, RefsOK, WaitingStatuses, status
<1> QED
  BY <1>12, <1>14 DEF n, status, owner, base
-----------------------------------------------------------------------------
(* How the stores change: bundles are only appended, and the class moves   *)
(* with every state update.                                                *)
Grows ==
  /\ \A i \in DOMAIN bundles : i \in DOMAIN bundles' /\ bundles'[i] = bundles[i]
  /\ UNCHANGED <<updates, classV>> \/ classV' = classV + 1

LEMMA RefsStill ==
  ASSUME StoresOK, Grows, NEW r \in Rows(Workers), RefsOK(r) PROVE RefsOK(r)'
<1>1. ASSUME r.base # NoRef PROVE BaseOK(r.base)'
  <2>1. PICK x \in Nat, y \in Nat : r.base = <<x, y>>
    BY <1>1 DEF Rows
  <2>2. y <= classV /\ (y = classV => x = Len(updates)) /\ classV \in Nat
    BY <1>1, <2>1 DEF RefsOK, BaseOK, StoresOK
  <2>3. y <= classV' /\ (y = classV' => x = Len(updates'))
    BY <2>2 DEF Grows
  <2> QED
    BY <2>1, <2>3 DEF BaseOK
<1> QED
  BY <1>1 DEF Grows, RefsOK

LEMMA RowStill ==
  ASSUME StoresOK, Grows, NEW op \in Ops, NEW r, RowOK(op, r) PROVE RowOK(op, r)'
BY RefsStill DEF RowOK

LEMMA KeysStill ==
  ASSUME StoresOK, Grows, UNCHANGED updates PROVE Processed' = Processed
<1>1. \A i \in DOMAIN updates : Keys(bundles'[updates[i].bundle]) = Keys(bundles[updates[i].bundle])
  BY DEF StoresOK, Grows
<1> QED
  BY <1>1 DEF Processed

LEMMA EvidenceStill ==
  ASSUME StoresOK, Grows, NEW l, LocalOK(l) PROVE EvidenceOK(l)'
<1> SUFFICES ASSUME l.pc = "post", l.run.base[2] = classV'
             PROVE  ~ (Keys(bundles'[l.rev]) \subseteq Processed')
  BY DEF EvidenceOK
<1>1. l.rev \in DOMAIN bundles /\ l.run.base # NoRef /\ BaseOK(l.run.base)
  BY DEF LocalOK, BundlesOK, Scored, RunOK, Updating, RefsOK
<1>2. PICK x \in Nat, y \in Nat : l.run.base = <<x, y>>
  BY <1>1 DEF LocalOK, Locals, Rows
<1>3. UNCHANGED <<updates, classV>>
  BY <1>1, <1>2 DEF BaseOK, Grows, StoresOK
<1>4. Processed' = Processed /\ Keys(bundles'[l.rev]) = Keys(bundles[l.rev])
  BY <1>1, <1>3, KeysStill DEF Grows
<1> QED
  BY <1>3, <1>4 DEF LocalOK, EvidenceOK

LEMMA LocalStill ==
  ASSUME StoresOK, Grows, NEW l, LocalOK(l) PROVE LocalOK(l)'
<1>1. l \in Locals /\ PlaceOK(l)
  BY DEF LocalOK
<1>2. BundlesOK(l)'
  BY DEF LocalOK, BundlesOK, Grows
<1>3. l.run \in Rows(Workers) /\ (l.pc \notin {"idle", "read", "record"} => l.op \in Ops)
  BY <1>1 DEF Locals, Workers, PlaceOK
<1>4. RunOK(l)'
  <2>1. RefsOK(l.run)'
    BY <1>3, RefsStill DEF LocalOK, RunOK
  <2>2. ASSUME l.pc \notin Early \cup {"fail"}, l.op \notin Rescores PROVE RowOK(l.op, l.run)'
    BY <1>3, <2>2, RowStill DEF LocalOK, RunOK, Early
  <2> QED
    BY <2>1, <2>2 DEF LocalOK, RunOK
<1> QED
  BY <1>1, <1>2, <1>4, EvidenceStill DEF LocalOK

LEMMA RowsStill ==
  ASSUME Inv, Grows, UNCHANGED <<rows, lastReview>>, recorded' \subseteq Ops PROVE RowsOK'
<1>1. ASSUME NEW op \in Ops PROVE RowOK(op, rows[op])'
  <2>1. PICK r \in Rows(Workers) : r = rows[op] /\ RowOK(op, r)
    BY DEF Inv, RowsOK
  <2> QED
    BY <2>1, RowStill DEF Inv
<1> QED
  BY <1>1 DEF Inv, RowsOK

(* A thread moves; the others keep what they know. *)
LEMMA Moved ==
  ASSUME Inv, Grows, StoresOK', RowsOK', NEW t \in Threads,
         current' \in [Ops -> SUBSET Threads],
         \A o \in Ops, u \in Threads \ {t} : u \in current'[o] =>
            /\ u \in current[o]
            /\ rows'[o].checkpoint = rows[o].checkpoint /\ rows'[o].scoring = rows[o].scoring,
         NEW l, th' = [th EXCEPT ![t] = l], LocalOK(l)', LinkOK(t, l)'
  PROVE  Inv'
<1>1. th' \in [Threads -> Locals]
  BY DEF Inv, ThreadsOK, LocalOK, Locals
<1>2. th'[t] = l /\ \A u \in Threads \ {t} : th'[u] = th[u]
  BY DEF Inv, ThreadsOK
<1>3. ASSUME NEW u \in Threads \ {t} PROVE LocalOK(th[u])' /\ LinkOK(u, th[u])'
  <2>1. PICK m : m = th[u] /\ LocalOK(m) /\ LinkOK(u, m) /\ m = th'[u]
    BY <1>2 DEF Inv, ThreadsOK
  <2>2. LocalOK(m)'
    BY <2>1, LocalStill DEF Inv
  <2>3. m.pc \notin {"idle", "read", "record"} => m.op \in Ops
    BY <2>1 DEF LocalOK, PlaceOK
  <2>4. LinkOK(u, m)'
    BY <2>1, <2>3 DEF LinkOK, Early
  <2> QED
    BY <2>1, <2>2, <2>4
<1> QED
  BY <1>1, <1>2, <1>3 DEF Inv, ThreadsOK

(* The locals of a thread stay locals when one of them gets a value of its type. *)
LEMMA PcLocal ==
  ASSUME NEW l \in Locals, NEW x \in Labels
  PROVE  [l EXCEPT !.pc = x] \in Locals
BY DEF Locals

LEMMA ReqLocal ==
  ASSUME NEW l \in Locals, NEW x \in Requests
  PROVE  [l EXCEPT !.req = x] \in Locals
BY DEF Locals

LEMMA OpLocal ==
  ASSUME NEW l \in Locals, NEW x \in Ops
  PROVE  [l EXCEPT !.op = x] \in Locals
BY DEF Locals

LEMMA RunLocal ==
  ASSUME NEW l \in Locals, NEW x \in Rows(Workers)
  PROVE  [l EXCEPT !.run = x] \in Locals
BY DEF Locals, Workers

LEMMA CurLocal ==
  ASSUME NEW l \in Locals, NEW x \in Nat
  PROVE  [l EXCEPT !.cur = x] \in Locals
BY DEF Locals

LEMMA CurVLocal ==
  ASSUME NEW l \in Locals, NEW x \in Nat
  PROVE  [l EXCEPT !.curV = x] \in Locals
BY DEF Locals

LEMMA RevLocal ==
  ASSUME NEW l \in Locals, NEW x \in Nat
  PROVE  [l EXCEPT !.rev = x] \in Locals
BY DEF Locals

LEMMA PostedLocal ==
  ASSUME NEW l \in Locals, NEW x \in Nat
  PROVE  [l EXCEPT !.stateV = x] \in Locals
BY DEF Locals

LEMMA RetryLocal ==
  ASSUME NEW l \in Locals, NEW x \in BOOLEAN
  PROVE  [l EXCEPT !.retry = x] \in Locals
BY DEF Locals

LEMMA SubLocal ==
  ASSUME NEW l \in Locals, NEW x \in [status : Statuses, scoring : Nat \cup {NoRef}]
  PROVE  [l EXCEPT !.sub = x] \in Locals
BY DEF Locals

LEMMA IdleOK == LocalOK(Idle)
<1>1. Idle \in Locals /\ Idle.run.scoring = NoRef /\ Idle.run.base = NoRef
  <2>1. PICK r : r = NewRow("start")
    OBVIOUS
  <2>2. "pending" \in AllCheckpoints
    BY DEF AllCheckpoints, Kinds, Checkpoints, After
  <2>3. r \in Rows(Workers) /\ r.scoring = NoRef /\ r.base = NoRef
    BY <2>1, <2>2, AllStatuses DEF NewRow, Rows
  <2>4. Idle = [pc |-> "idle", req |-> NoRequest, op |-> NoRequest, run |-> r,
                sub |-> [status |-> "pending", scoring |-> NoRef],
                retry |-> FALSE, cur |-> 0, curV |-> 0, rev |-> 0, stateV |-> 0]
    BY <2>1 DEF Idle, NoBundle
  <2>5. [status |-> "pending", scoring |-> NoRef] \in [status : Statuses, scoring : Nat \cup {NoRef}]
    BY AllStatuses
  <2>6. PICK sub \in [status : Statuses, scoring : Nat \cup {NoRef}] :
            sub = [status |-> "pending", scoring |-> NoRef]
    BY <2>5
  <2>7. Idle \in Locals
    <3>1. Idle = [pc |-> "idle", req |-> NoRequest, op |-> NoRequest, run |-> r, sub |-> sub,
                  retry |-> FALSE, cur |-> 0, curV |-> 0, rev |-> 0, stateV |-> 0]
      BY <2>4, <2>6
    <3>2. "idle" \in Labels /\ 0 \in Nat /\ FALSE \in BOOLEAN
      BY DEF Labels
    <3> QED
      BY <2>3, <3>1, <3>2 DEF Locals, Workers
  <2> QED
    BY <2>3, <2>4, <2>7
<1>2. Idle.pc = "idle"
  BY DEF Idle
<1>3. PlaceOK(Idle)
  BY <1>2 DEF PlaceOK, OpSuits, SubmitOnly, ReviewOnly, RescoreOnly, Updating, Either
<1>4. BundlesOK(Idle)
  BY <1>2 DEF BundlesOK, Based, Scored, Updating
<1>5. RunOK(Idle)
  BY <1>1, <1>2 DEF RunOK, RefsOK, Early, Updating
<1> QED
  BY <1>1, <1>2, <1>3, <1>4, <1>5 DEF LocalOK, EvidenceOK

LEMMA Still == UNCHANGED stores => Grows
BY DEF stores, Grows

LEMMA StoresStill ==
  ASSUME Inv, UNCHANGED <<stores, browser>>, faults' \in Nat PROVE StoresOK' /\ Grows
BY Still DEF Inv, StoresOK, stores, browser

(* The thread goes on without a write to its row. *)
LEMMA GoOn ==
  ASSUME Inv, NEW t \in Threads, Grows, StoresOK', UNCHANGED <<rows, current, lastReview>>,
         recorded' \subseteq Ops,
         NEW l, th' = [th EXCEPT ![t] = l], LocalOK(l)',
         l.pc \in Early => th[t].pc \in Early,
         l.pc \notin Early \cup {"fail"} /\ l.op \notin Rescores =>
            /\ l.op = th[t].op /\ l.run.checkpoint = th[t].run.checkpoint
            /\ l.run.scoring = th[t].run.scoring
            /\ th[t].pc \notin Early \cup {"fail"}
  PROVE  Inv'
<1>1. RowsOK' /\ current' \in [Ops -> SUBSET Threads]
  BY RowsStill DEF Inv, ThreadsOK
<1>2. PICK m : m = th[t] /\ LinkOK(t, m) /\ LocalOK(m)
  BY DEF Inv, ThreadsOK
<1>3. LinkOK(t, l)'
  BY <1>2 DEF LinkOK
<1> QED
  BY <1>1, <1>3, Moved

LEMMA LeaveOK ==
  ASSUME Inv, NEW t \in Threads, Exit(t), UNCHANGED <<rows, lastReview, stores, browser>>,
         recorded' \subseteq Ops, faults' \in Nat
  PROVE  Inv'
<1>1. StoresOK' /\ Grows
  BY StoresStill
<1>2. RowsOK'
  BY <1>1, RowsStill
<1>3. current' \in [Ops -> SUBSET Threads] /\ \A o \in Ops : current'[o] = current[o] \ {t}
  BY DEF Exit, Inv, ThreadsOK
<1>4. LocalOK(Idle)'
  BY <1>1, IdleOK, LocalStill DEF Inv
<1>5. LinkOK(t, Idle)'
  BY <1>3 DEF LinkOK, Idle, Early
<1> QED
  BY <1>1, <1>2, <1>3, <1>4, <1>5, Moved DEF Exit

(* What the thread may have in hand after a commit of row r of op. *)
Hands(t, op, r, l) ==
  \/ l = Idle /\ r.owner = NoOwner
  \/ /\ l.pc \notin Early
     /\ l.pc # "fail" /\ l.op \notin Rescores =>
          IF l.op = op THEN l.run.checkpoint = r.checkpoint /\ l.run.scoring = r.scoring
          ELSE /\ l.op = th[t].op /\ l.run = th[t].run
               /\ th[t].pc \notin Early \cup {"fail"}

LEMMA CommitOK ==
  ASSUME Inv, NEW t \in Threads, NEW op \in Ops, NEW r, RowOK(op, r), NEW l, LocalOK(l),
         Commit(t, op, r, l), rows[op].status # "completed", Hands(t, op, r, l),
         UNCHANGED <<stores, browser>>, recorded' \subseteq Ops, faults' \in Nat
  PROVE  Inv'
<1>1. StoresOK' /\ Grows
  BY StoresStill
<1>2. PICK n \in Rows(Workers) :
         /\ n = One(r) /\ RowOK(op, n) /\ n.checkpoint = r.checkpoint /\ n.scoring = r.scoring
         /\ n.status = r.status
  BY OneRow DEF SameRefs, RowOK
<1>3. rows' = [rows EXCEPT ![op] = n]
  BY <1>2 DEF Commit, One
<1>4. RowsOK'
  <2>1. rows' \in [Ops -> Rows(Workers)]
    BY <1>3 DEF Inv, RowsOK
  <2>2. ASSUME NEW o \in Ops PROVE RowOK(o, rows[o])'
    <3>1. PICK x : x = rows'[o] /\ RowOK(o, x)
      BY <1>2, <1>3 DEF Inv, RowsOK
    <3> QED
      BY <1>1, <3>1, RowStill DEF Inv
  <2>3. lastReview' \in Reviews \cup {NoRequest} /\ op # NoRequest /\ NoRequest \notin Ops
    BY Disjoint DEF Commit, Inv, RowsOK
  <2>4. lastReview' # NoRequest => rows'[lastReview'].status = "completed"
    <3>1. CASE op \in Reviews /\ r.status = "completed"
      BY <1>2, <1>3, <3>1 DEF Commit, Inv, RowsOK
    <3>2. CASE ~(op \in Reviews /\ r.status = "completed")
      BY <1>3, <3>2 DEF Commit, Inv, RowsOK, Ops
    <3> QED
      BY <3>1, <3>2
  <2> QED
    BY <2>1, <2>2, <2>3, <2>4 DEF RowsOK
<1>5. /\ current' \in [Ops -> SUBSET Threads]
      /\ current'[op] = IF r.owner = NoOwner THEN {} ELSE {t}
      /\ \A o \in Ops \ {op} : current'[o] = IF l = Idle THEN current[o] \ {t} ELSE current[o]
  BY DEF Commit, Inv, ThreadsOK
<1>6. LocalOK(l)'
  BY <1>1, LocalStill DEF Inv
<1>7. rows'[op] = n /\ \A o \in Ops \ {op} : rows'[o] = rows[o]
  BY <1>3 DEF Inv, RowsOK
<1>8. LinkOK(t, l)'
  <2>1. CASE l = Idle /\ r.owner = NoOwner
    BY <1>5, <2>1 DEF LinkOK, Idle, Early
  <2>2. CASE l.pc \notin Early
    <3>1. PICK m : m = th[t] /\ LinkOK(t, m) /\ LocalOK(m)
      BY DEF Inv, ThreadsOK
    <3>2. l # Idle
      BY <2>2 DEF Idle, Early
    <3>3. l.op \in Ops
      BY <2>2 DEF LocalOK, PlaceOK, Early
    <3>4. CASE l.op = op
      BY <1>2, <1>7, <2>2, <3>2, <3>4 DEF Hands, LinkOK
    <3>5. CASE l.op # op
      BY <1>5, <1>7, <2>2, <3>1, <3>2, <3>3, <3>5 DEF Hands, LinkOK
    <3> QED
      BY <3>4, <3>5
  <2> QED
    BY <2>1, <2>2 DEF Hands
<1>9. \A o \in Ops, u \in Threads \ {t} : u \in current'[o] =>
         /\ u \in current[o]
         /\ rows'[o].checkpoint = rows[o].checkpoint /\ rows'[o].scoring = rows[o].scoring
  BY <1>5, <1>7
<1> QED
  BY <1>1, <1>4, <1>5, <1>6, <1>8, <1>9, Moved DEF Commit

(* A thread of the try block, and its way to the handler of exceptions. *)
LEMMA Mine ==
  ASSUME Inv, NEW t \in Threads
  PROVE  \E l \in Locals : l = th[t] /\ LocalOK(l) /\ LinkOK(t, l)
BY DEF Inv, ThreadsOK, LocalOK

LEMMA ToFail ==
  ASSUME NEW l, LocalOK(l), l.pc \notin Early
  PROVE  \E n : n = [l EXCEPT !.pc = "fail"] /\ LocalOK(n) /\ n.pc = "fail"
<1>1. PICK n : n = [l EXCEPT !.pc = "fail"]
  OBVIOUS
<1>2. /\ n \in Locals /\ n.pc = "fail" /\ n.op = l.op /\ n.req = l.req
      /\ n.run = l.run /\ n.sub = l.sub
  <2>1. l \in Locals /\ "fail" \in Labels
    BY DEF LocalOK, Labels
  <2>2. n \in Locals
    BY <1>1, <2>1, PcLocal
  <2> QED
    BY <1>1, <2>1 DEF Locals
<1>3. PlaceOK(n) /\ BundlesOK(n) /\ RunOK(n) /\ EvidenceOK(n)
  BY <1>2 DEF LocalOK, PlaceOK, BundlesOK, RunOK, EvidenceOK, Early, OpSuits, SubmitOnly, ReviewOnly,
     RescoreOnly, Updating, Either, Based, Scored
<1> QED
  BY <1>1, <1>2, <1>3 DEF LocalOK

LEMMA Raised ==
  ASSUME Inv, NEW t \in Threads, th[t].pc \notin Early, Goto(t, "fail"), Grows, StoresOK',
         UNCHANGED <<rows, current, lastReview>>, recorded' \subseteq Ops
  PROVE  Inv'
<1>1. PICK l \in Locals : l = th[t] /\ LocalOK(l)
  BY Mine
<1>2. PICK n : n = [l EXCEPT !.pc = "fail"] /\ LocalOK(n) /\ n.pc = "fail"
  BY <1>1, ToFail
<1>3. th' = [th EXCEPT ![t] = n]
  BY <1>1, <1>2 DEF Goto, Inv, ThreadsOK
<1>4. LocalOK(n)'
  BY <1>2, LocalStill DEF Inv
<1> QED
  BY <1>2, <1>3, <1>4, GoOn DEF Early

LEMMA FencedOK ==
  ASSUME Inv, NEW t \in Threads, NEW op \in Ops, NEW allowed, NEW r, NEW l,
         Fenced(t, op, allowed, r, l), th[t].pc \notin Early,
         /\ rows[op].status = "running" /\ t \in current[op] /\ rows[op].owner # NoOwner /\ allowed
         => RowOK(op, r) /\ LocalOK(l) /\ Hands(t, op, r, l)
  PROVE  Inv'
<1>1. recorded' \subseteq Ops /\ faults' \in Nat /\ UNCHANGED <<stores, browser>>
  BY DEF Fenced, Inv, RowsOK, StoresOK
<1>2. CASE Accepted(t, op) /\ allowed
  <2>1. Commit(t, op, r, l)
    BY <1>2 DEF Fenced
  <2>2. rows[op].status = "running" /\ t \in current[op] /\ rows[op].owner # NoOwner
    BY <1>2 DEF Accepted, Live
  <2> QED
    BY <1>1, <1>2, <2>1, <2>2, CommitOK
<1>3. CASE ~(Accepted(t, op) /\ allowed)
  BY <1>1, <1>3, Raised, StoresStill DEF Fenced
<1> QED
  BY <1>2, <1>3

(* The next step of a handler, but for the check of the evidence. *)
LEMMA Onward ==
  ASSUME NEW l, LocalOK(l), l.pc \notin {"idle", "read", "record"},
         NEW m \in Locals, m.op = l.op, m.req = l.req, m.sub = l.sub,
         m.pc \notin Early \cup {"post"}, OpSuits(m.pc, m.op),
         m.pc \in Based => m.cur \in DOMAIN bundles, m.pc \in Scored => m.rev \in DOMAIN bundles,
         RunOK(m)
  PROVE  LocalOK(m)
BY DEF LocalOK, PlaceOK, BundlesOK, EvidenceOK, Early

Into == Labels \ (Early \cup {"fail", "check", "post"})

Onto(l, r, pc) == [l EXCEPT !.run = [r EXCEPT !.version = 1], !.pc = pc]

LEMMA WithRow ==
  ASSUME NEW l, LocalOK(l), l.pc \notin {"idle", "read", "record"},
         NEW r, RowOK(l.op, r), NEW pc \in Labels \ (Early \cup {"post"}), OpSuits(pc, l.op),
         pc \in Based => l.cur \in DOMAIN bundles, pc \in Scored => l.rev \in DOMAIN bundles,
         r.status = "running" \/ pc \in {"commit", "finish"} \/ l.op \in Rescores,
         pc = "check" => r.base # NoRef,
         pc \in Updating /\ l.op = Submit => r.checkpoint \in Frozen \cup {"events_appended"}
  PROVE  /\ LocalOK(Onto(l, r, pc)) /\ Onto(l, r, pc).pc = pc /\ Onto(l, r, pc).op = l.op
         /\ Onto(l, r, pc).run.checkpoint = r.checkpoint /\ Onto(l, r, pc).run.scoring = r.scoring
<1>1. l \in Locals /\ l.op \in Ops /\ pc \in Labels
  BY DEF LocalOK, PlaceOK, Early
<1>2. PICK x \in Rows(Workers) :
         /\ x = [r EXCEPT !.version = 1] /\ RowOK(l.op, x) /\ x.checkpoint = r.checkpoint
         /\ x.scoring = r.scoring /\ x.status = r.status /\ x.base = r.base
  BY <1>1, OneRow DEF RowOK, SameRefs, One
<1>3. PICK m \in Locals : m = [l EXCEPT !.run = x, !.pc = pc]
  <2>1. [l EXCEPT !.run = x] \in Locals
    BY <1>1, RunLocal
  <2> QED
    BY <1>1, <2>1, PcLocal
<1>4. /\ m.op = l.op /\ m.req = l.req /\ m.sub = l.sub /\ m.cur = l.cur /\ m.rev = l.rev
      /\ m.pc = pc /\ m.run = x
  BY <1>1, <1>3 DEF Locals
<1>5. RunOK(m)
  BY <1>2, <1>4 DEF RunOK, RowOK
<1>6. LocalOK(m)
  BY <1>4, <1>5, Onward
<1>7. m = Onto(l, r, pc)
  BY <1>2, <1>3 DEF Onto
<1> QED
  BY <1>2, <1>4, <1>6, <1>7

LEMMA AdvanceOK ==
  ASSUME Inv, NEW t \in Threads, NEW l, l = th[t], LocalOK(l), l.pc \notin Early \cup {"fail"},
         NEW cp, NEW refs, GoodRefs(cp, refs), NEW pc \in Into \cup {"idle"}, Advance(t, cp, refs, pc),
         IF pc = "idle" THEN cp = "completed"
         ELSE /\ OpSuits(pc, l.op)
              /\ pc \in Based => l.cur \in DOMAIN bundles
              /\ pc \in Scored => l.rev \in DOMAIN bundles
              /\ cp = "completed" => pc \in {"commit", "finish"} \/ l.op \in Rescores
              /\ pc \in Updating /\ l.op = Submit => cp \in Frozen \cup {"events_appended"}
  PROVE  Inv'
<1> DEFINE r == Advanced(rows[l.op], cp, refs)
           allowed == CanAdvance(KindOf(l.op), rows[l.op], cp, refs)
           upd == IF pc = "idle" THEN Idle ELSE With(t, r, pc)
<1>1. l.op \in Ops
  BY DEF LocalOK, PlaceOK, Early
<1>2. Fenced(t, l.op, allowed, r, upd)
  BY DEF Advance, Op
<1>3. ASSUME allowed PROVE RowOK(l.op, r) /\ LocalOK(upd) /\ Hands(t, l.op, r, upd)
  <2>1. PICK row : row = rows[l.op] /\ RowOK(l.op, row)
    BY <1>1 DEF Inv, RowsOK
  <2>2. PICK n : /\ n = r /\ RowOK(l.op, n) /\ n.checkpoint = cp
                 /\ n.status = (IF cp = "completed" THEN "completed" ELSE "running")
                 /\ cp = "completed" => n.owner = NoOwner
    BY <1>1, <1>3, <2>1, AdvancedRow
  <2>3. CASE pc = "idle"
    BY <2>2, <2>3, IdleOK DEF Hands
  <2>4. CASE pc # "idle"
    <3>3. pc \in Labels \ (Early \cup {"post"}) /\ pc # "check"
          /\ l.pc \notin {"idle", "read", "record"}
      BY <2>4 DEF Into, Early
    <3>4. n.status = "running" \/ pc \in {"commit", "finish"} \/ l.op \in Rescores
      BY <2>2, <2>4
    <3>5. /\ OpSuits(pc, l.op)
          /\ pc \in Based => l.cur \in DOMAIN bundles
          /\ pc \in Scored => l.rev \in DOMAIN bundles
          /\ pc \in Updating /\ l.op = Submit => n.checkpoint \in Frozen \cup {"events_appended"}
      BY <2>2, <2>4
    <3>1. PICK m : /\ m = Onto(l, n, pc) /\ LocalOK(m) /\ m.pc = pc /\ m.op = l.op
                   /\ m.run.checkpoint = n.checkpoint /\ m.run.scoring = n.scoring
      BY <2>2, <3>3, <3>4, <3>5, WithRow
    <3>2. upd = m
      BY <2>2, <2>4, <3>1 DEF With, Onto
    <3> QED
      BY <2>2, <2>4, <3>1, <3>2 DEF Hands, Into
  <2> QED
    BY <2>3, <2>4
<1> HIDE DEF r, allowed, upd
<1> QED
  BY <1>1, <1>2, <1>3, FencedOK

LEMMA OnGo ==
  ASSUME Inv, NEW t \in Threads, NEW l, l = th[t], LocalOK(l),
         l.pc \notin Early \cup {"fail", "commit", "finish"},
         NEW m \in Locals, th' = [th EXCEPT ![t] = m],
         m.op = l.op, m.req = l.req, m.sub = l.sub, m.run = l.run,
         m.pc \notin Early \cup {"fail", "post"}, OpSuits(m.pc, m.op),
         m.pc \in Based => m.cur \in DOMAIN bundles', m.pc \in Scored => m.rev \in DOMAIN bundles',
         m.pc = "check" => l.run.base # NoRef,
         m.pc \in Updating /\ m.op = Submit => l.run.checkpoint \in Frozen \cup {"events_appended"},
         UNCHANGED <<rows, current, lastReview>>, recorded' \subseteq Ops, Grows, StoresOK'
  PROVE  Inv'
<1>1. LocalOK(l)'
  BY LocalStill DEF Inv
<1>2. RunOK(m)'
  BY <1>1 DEF LocalOK, RunOK, Early
<1>3. LocalOK(m)'
  BY <1>1, <1>2 DEF LocalOK, PlaceOK, BundlesOK, EvidenceOK, Early
<1> QED
  BY <1>3, GoOn

LEMMA OnlyOK ==
  ASSUME Inv, NEW t \in Threads, NEW l, l = th[t], LocalOK(l),
         l.pc \notin Early \cup {"fail", "commit", "finish"},
         NEW pc \in Labels \ (Early \cup {"fail", "post"}), Only(t, pc), OpSuits(pc, l.op),
         pc \in Based => l.cur \in DOMAIN bundles, pc \in Scored => l.rev \in DOMAIN bundles,
         pc = "check" => l.run.base # NoRef,
         pc \in Updating /\ l.op = Submit => l.run.checkpoint \in Frozen \cup {"events_appended"}
  PROVE  Inv'
<1>1. PICK m \in Locals : m = [l EXCEPT !.pc = pc]
  BY PcLocal DEF LocalOK
<1>2. /\ m.op = l.op /\ m.req = l.req /\ m.sub = l.sub /\ m.run = l.run
      /\ m.cur = l.cur /\ m.rev = l.rev /\ m.pc = pc
  BY <1>1 DEF LocalOK, Locals
<1>3. th' = [th EXCEPT ![t] = m]
  BY <1>1 DEF Only, Goto, Inv, ThreadsOK
<1>4. /\ UNCHANGED <<rows, current, lastReview>> /\ recorded' \subseteq Ops
      /\ faults' \in Nat /\ UNCHANGED <<stores, browser>>
  BY DEF Only, m0, Inv, RowsOK, StoresOK
<1>5. Grows /\ StoresOK' /\ DOMAIN bundles' = DOMAIN bundles
  BY <1>4, StoresStill DEF stores
<1>6. /\ m.pc \notin Early \cup {"fail", "post"} /\ OpSuits(m.pc, m.op)
      /\ m.pc \in Based => m.cur \in DOMAIN bundles'
      /\ m.pc \in Scored => m.rev \in DOMAIN bundles'
      /\ m.pc = "check" => l.run.base # NoRef
      /\ m.pc \in Updating /\ m.op = Submit => l.run.checkpoint \in Frozen \cup {"events_appended"}
  BY <1>2, <1>5
<1>7. Grows /\ StoresOK' /\ UNCHANGED <<rows, current, lastReview>> /\ recorded' \subseteq Ops
  BY <1>4, <1>5
<1>8. m.op = l.op /\ m.req = l.req /\ m.sub = l.sub /\ m.run = l.run
  BY <1>2
<1> QED
  BY <1>3, <1>6, <1>7, <1>8, OnGo

LEMMA OnlyFail ==
  ASSUME Inv, NEW t \in Threads, th[t].pc \notin Early, Only(t, "fail") PROVE Inv'
<1>1. /\ UNCHANGED <<rows, current, lastReview>> /\ recorded' \subseteq Ops
      /\ faults' \in Nat /\ UNCHANGED <<stores, browser>> /\ Goto(t, "fail")
  BY DEF Only, m0, Inv, RowsOK, StoresOK
<1> QED
  BY <1>1, StoresStill, Raised

(* No thread moves. *)
LEMMA Unmoved ==
  ASSUME Inv, Grows, StoresOK', RowsOK', UNCHANGED <<th, current>>,
         \A o \in Ops : rows'[o].checkpoint = rows[o].checkpoint /\ rows'[o].scoring = rows[o].scoring
  PROVE  Inv'
<1>1. ASSUME NEW u \in Threads PROVE LocalOK(th[u])' /\ LinkOK(u, th[u])'
  <2>1. PICK m : m = th[u] /\ LocalOK(m) /\ LinkOK(u, m) /\ m = th'[u]
    BY DEF Inv, ThreadsOK
  <2>2. LocalOK(m)'
    BY <2>1, LocalStill DEF Inv
  <2>3. m.pc \notin {"idle", "read", "record"} => m.op \in Ops
    BY <2>1 DEF LocalOK, PlaceOK
  <2>4. LinkOK(u, m)'
    BY <2>1, <2>3 DEF LinkOK, Early
  <2> QED
    BY <2>1, <2>2, <2>4
<1> QED
  BY <1>1 DEF Inv, ThreadsOK
-----------------------------------------------------------------------------
(* The first state, and the steps of the browser and of the others. *)

LEMMA InitOK == ASSUME Init PROVE Inv
<1>1. StoresOK
  <2>1. bundles = <<>> /\ updates = <<>>
    BY DEF Init
  <2>2. bundles \in Seq(Bundle) /\ updates \in Seq(Update) /\ DOMAIN bundles = {} /\ DOMAIN updates = {}
        /\ Len(updates) = 0
    BY <2>1
  <2>3. forms \in [Reviews \cup Rescores -> [version : Nat, at : 0 .. today]]
    BY DEF Init, NotIssued
  <2> QED
    BY <2>2, <2>3 DEF Init, StoresOK
<1>2. RowsOK
  <2>1. ASSUME NEW op \in Ops PROVE rows[op] \in Rows(Workers) /\ RowOK(op, rows[op])
    <3>1. rows[op] = NewRow(KindOf(op))
      BY DEF Init
    <3> QED
      BY <3>1, NewRowOK DEF RowOK
  <2>2. DOMAIN rows = Ops /\ rows = [op \in Ops |-> rows[op]]
    BY DEF Init
  <2> QED
    BY <2>1, <2>2 DEF Init, RowsOK
<1>3. ThreadsOK
  <2>1. Idle \in Locals /\ LocalOK(Idle)
    BY IdleOK DEF LocalOK
  <2>2. ASSUME NEW t \in Threads PROVE LinkOK(t, Idle)
    BY DEF Init, LinkOK, Idle, Early
  <2> QED
    BY <2>1, <2>2 DEF Init, ThreadsOK
<1> QED
  BY <1>1, <1>2, <1>3 DEF Inv

LEMMA IssueFormOK == ASSUME Inv, NEW q \in Reviews \cup Rescores, IssueForm(q) PROVE Inv'
<1>1. PICK v \in 1 .. Len(bundles) : forms' = [forms EXCEPT ![q] = [version |-> v, at |-> today + 1]]
  BY DEF IssueForm
<1>2. today' = today + 1 /\ today \in Nat /\ v \in Nat
  BY DEF IssueForm, Inv, StoresOK
<1>3. /\ UNCHANGED <<rows, current, lastReview, recorded, th, faults>>
      /\ UNCHANGED stores /\ UNCHANGED <<bundles, decisions, updates, classV>>
  BY DEF IssueForm, m0, stores
<1>4. forms' \in [Reviews \cup Rescores -> [version : Nat, at : 0 .. today']]
  <2>1. [version |-> v, at |-> today + 1] \in [version : Nat, at : 0 .. today']
    BY <1>2
  <2>2. ASSUME NEW p \in Reviews \cup Rescores PROVE forms[p] \in [version : Nat, at : 0 .. today']
    BY <1>2 DEF Inv, StoresOK
  <2>3. DOMAIN forms = Reviews \cup Rescores
    BY DEF Inv, StoresOK
  <2> QED
    BY <1>1, <2>1, <2>2, <2>3
<1>5. \A i \in DOMAIN bundles : bundles[i].at <= today'
  <2>1. ASSUME NEW i \in DOMAIN bundles PROVE bundles[i].at <= today'
    <3>1. bundles[i] \in Bundle /\ bundles[i].at <= today
      BY DEF Inv, StoresOK
    <3> QED
      BY <1>2, <3>1 DEF Bundle
  <2> QED
    BY <2>1
<1>6. StoresOK' /\ Grows
  BY <1>2, <1>3, <1>4, <1>5, Still DEF Inv, StoresOK
<1>7. RowsOK'
  BY <1>3, <1>6, RowsStill DEF Inv, RowsOK
<1> QED
  BY <1>3, <1>6, <1>7, Unmoved

LEMMA OtherPostOK == ASSUME Inv, OtherPost PROVE Inv'
<1>1. /\ UNCHANGED <<rows, current, lastReview, recorded, th, faults, bundles, decisions, updates, forms, today>>
      /\ classV' = classV + 1
  BY DEF OtherPost, m0, browser
<1>2. Grows
  BY <1>1 DEF Grows
<1>3. StoresOK'
  BY <1>1 DEF Inv, StoresOK
<1>4. RowsOK'
  BY <1>1, <1>2, RowsStill DEF Inv, RowsOK
<1> QED
  BY <1>1, <1>2, <1>3, <1>4, Unmoved

LEMMA ExpireOK == ASSUME Inv, NEW op \in Ops, Expire(op) PROVE Inv'
<1>1. PICK row \in Rows(Workers) : row = rows[op] /\ RowOK(op, row)
  BY DEF Inv, RowsOK
<1>2. PICK n \in Rows(Workers) : n = [row EXCEPT !.lease = 1]
  BY LeaseColumn
<1>3. SameRefs(n, row) /\ n.checkpoint = row.checkpoint /\ n.status = row.status
  BY <1>2 DEF Rows, SameRefs
<1>4. RowOK(op, n)
  BY <1>1, <1>3 DEF RowOK, RefsOK, SameRefs
<1>5. rows' = [rows EXCEPT ![op] = n]
  BY <1>1, <1>2 DEF Expire, Inv, RowsOK
<1>6. UNCHANGED <<recorded, current, lastReview, th>> /\ UNCHANGED <<stores, browser>> /\ faults' \in Nat
  BY DEF Expire, Fault, Inv, StoresOK
<1>7. StoresOK' /\ Grows
  BY <1>6, StoresStill
<1>8. RowsOK'
  <2>1. rows' \in [Ops -> Rows(Workers)]
    BY <1>5 DEF Inv, RowsOK
  <2>2. ASSUME NEW o \in Ops PROVE RowOK(o, rows[o])'
    <3>1. PICK x : x = rows'[o] /\ RowOK(o, x)
      BY <1>4, <1>5 DEF Inv, RowsOK
    <3> QED
      BY <1>7, <3>1, RowStill DEF Inv
  <2>3. lastReview # NoRequest => rows'[lastReview].status = "completed"
    BY <1>1, <1>3, <1>5 DEF Inv, RowsOK, Ops
  <2> QED
    BY <1>6, <2>1, <2>2, <2>3 DEF Inv, RowsOK
<1>9. \A o \in Ops : rows'[o].checkpoint = rows[o].checkpoint /\ rows'[o].scoring = rows[o].scoring
  BY <1>1, <1>3, <1>5 DEF Inv, RowsOK, SameRefs
<1> QED
  BY <1>6, <1>7, <1>8, <1>9, Unmoved

LEMMA PostOK == ASSUME Inv, NEW t \in Threads, NEW q \in Requests, Post(t, q) PROVE Inv'
<1>1. PICK l \in Locals : l = th[t] /\ LocalOK(l)
  BY Mine
<1> DEFINE pc == IF q \in Submissions THEN "record" ELSE "read"
<1>2. pc \in Labels /\ pc \in Early /\ pc \notin {"idle", "claim"} /\ (pc = "record" => q \in Submissions)
  BY DEF Labels, Early
<1>3. l.pc = "idle" /\ th' = [th EXCEPT ![t].req = q, ![t].pc = pc]
  BY <1>1 DEF Post, At
<1> HIDE DEF pc
<1>4. PICK m \in Locals : m = [l EXCEPT !.req = q, !.pc = pc]
  <2>1. [l EXCEPT !.req = q] \in Locals
    BY ReqLocal
  <2> QED
    BY <1>2, <2>1, PcLocal
<1>5. m.pc = pc /\ m.req = q /\ m.run = l.run
  BY <1>4 DEF Locals
<1>6. th' = [th EXCEPT ![t] = m]
  BY <1>1, <1>3, <1>4 DEF Inv, ThreadsOK
<1>7. LocalOK(m)
  <2>1. PlaceOK(m) /\ BundlesOK(m) /\ EvidenceOK(m)
    BY <1>2, <1>5 DEF Early, PlaceOK, BundlesOK, EvidenceOK, OpSuits, SubmitOnly, ReviewOnly, RescoreOnly,
       Updating, Either, Based, Scored
  <2>2. RunOK(m)
    BY <1>1, <1>2, <1>5 DEF LocalOK, RunOK, Early, Updating
  <2> QED
    BY <2>1, <2>2 DEF LocalOK
<1>8. UNCHANGED <<rows, current, lastReview, recorded, faults>> /\ UNCHANGED <<stores, browser>>
  BY DEF Post, m0
<1>9. StoresOK' /\ Grows /\ recorded' \subseteq Ops
  BY <1>8, StoresStill DEF Inv, StoresOK, RowsOK
<1>10. LocalOK(m)'
  BY <1>7, <1>9, LocalStill DEF Inv
<1>11. m.pc \in Early => th[t].pc \in Early
  BY <1>1, <1>3 DEF Early
<1> QED
  BY <1>2, <1>5, <1>6, <1>8, <1>9, <1>10, <1>11, GoOn

LEMMA ReadSubmitOK == ASSUME Inv, NEW t \in Threads, ReadSubmit(t) PROVE Inv'
<1>1. PICK l \in Locals : l = th[t] /\ LocalOK(l)
  BY Mine
<1>2. PICK s \in Rows(Workers) : s = rows[Submit] /\ RowOK(Submit, s)
  BY DEF Inv, RowsOK, Ops
<1>3. UNCHANGED <<recorded, rows, lastReview, faults>> /\ UNCHANGED <<stores, browser>>
  BY DEF ReadSubmit
<1>4. StoresOK' /\ Grows /\ recorded' \subseteq Ops /\ faults' \in Nat
  BY <1>3, StoresStill DEF Inv, StoresOK, RowsOK
<1>5. CASE Exit(t)
  BY <1>3, <1>4, <1>5, LeaveOK
<1>6. CASE ~Exit(t)
  <2>1. /\ th' = [th EXCEPT ![t].sub = [status |-> s.status, scoring |-> s.scoring], ![t].pc = "record"]
        /\ UNCHANGED current
        /\ s.status # "pending" /\ ~(s.status \in {"running", "failed"} /\ s.scoring = NoRef)
    BY <1>2, <1>6 DEF ReadSubmit
  <2>2. s.scoring # NoRef /\ s.scoring \in DOMAIN bundles
    BY <1>2, <2>1 DEF RowOK, RefsOK, Rows, Statuses
  <2>3. PICK sub \in [status : Statuses, scoring : Nat \cup {NoRef}] :
           sub = [status |-> s.status, scoring |-> s.scoring]
    BY DEF Rows
  <2>4. PICK m \in Locals : m = [l EXCEPT !.sub = sub, !.pc = "record"]
    <3>1. [l EXCEPT !.sub = sub] \in Locals /\ "record" \in Labels
      BY SubLocal DEF Labels
    <3> QED
      BY <3>1, PcLocal
  <2>5. m.pc = "record" /\ m.req = l.req /\ m.run = l.run /\ m.sub = sub
    BY <2>4 DEF Locals
  <2>6. th' = [th EXCEPT ![t] = m]
    BY <1>1, <2>1, <2>3, <2>4 DEF Inv, ThreadsOK
  <2>7. l.pc = "read"
    BY <1>1 DEF ReadSubmit, At
  <2>8. LocalOK(m)
    <3>1. PlaceOK(m) /\ EvidenceOK(m)
      BY <1>1, <2>5, <2>7 DEF LocalOK, PlaceOK, EvidenceOK, OpSuits, SubmitOnly, ReviewOnly, RescoreOnly,
         Updating, Either
    <3>2. BundlesOK(m)
      BY <2>2, <2>3, <2>5 DEF BundlesOK, Based, Scored, Updating
    <3>3. RunOK(m)
      BY <1>1, <2>5 DEF LocalOK, RunOK, Early, Updating
    <3> QED
      BY <3>1, <3>2, <3>3 DEF LocalOK
  <2>9. LocalOK(m)'
    BY <1>4, <2>8, LocalStill DEF Inv
  <2>10. m.pc \in Early /\ th[t].pc \in Early
    BY <1>1, <2>5, <2>7 DEF Early
  <2> QED
    BY <1>3, <1>4, <2>1, <2>6, <2>9, <2>10, GoOn
<1> QED
  BY <1>5, <1>6

LEMMA OperationOK ==
  ASSUME NEW q \in Requests
  PROVE  LET op == OperationOf(q)
         IN  /\ op \in Ops /\ (op # Submit => q \notin Submissions) /\ (op = Submit => q \in Submissions)
<1>1. CASE q \in Submissions
  BY <1>1 DEF OperationOf, Ops
<1>2. CASE q \notin Submissions /\ q \in Reviews /\ Recoverable(q) # {}
  <2>1. OperationOf(q) \in Recoverable(q)
    BY <1>2 DEF OperationOf
  <2> QED
    BY <1>2, <2>1, Disjoint DEF Recoverable, Ops
<1>3. CASE q \notin Submissions /\ ~(q \in Reviews /\ Recoverable(q) # {})
  BY <1>3, Disjoint DEF OperationOf, Requests, Ops
<1> QED
  BY <1>1, <1>2, <1>3

LEMMA RecordOK == ASSUME Inv, NEW t \in Threads, Record(t) PROVE Inv'
<1>1. PICK l \in Locals : l = th[t] /\ LocalOK(l)
  BY Mine
<1>2. l.pc = "record" /\ l.req \in Requests
  BY <1>1 DEF Record, At, LocalOK, PlaceOK
<1>3. PICK op \in Ops : /\ op = OperationOf(l.req)
                        /\ op # Submit => l.req \notin Submissions
                        /\ op = Submit => l.req \in Submissions
  BY <1>2, OperationOK
<1>4. PICK row \in Rows(Workers) : row = rows[op] /\ RowOK(op, row)
  BY DEF Inv, RowsOK
<1>5. /\ UNCHANGED <<rows, lastReview, faults>> /\ UNCHANGED <<stores, browser>>
      /\ recorded' \subseteq Ops
  BY <1>1, <1>3 DEF Record, Req, Inv, RowsOK
<1>6. StoresOK' /\ Grows /\ faults' \in Nat
  BY <1>5, StoresStill DEF Inv, StoresOK
<1>7. CASE Exit(t)
  BY <1>5, <1>6, <1>7, LeaveOK
<1>8. CASE /\ op \in Rescores /\ row.status = "completed" /\ UNCHANGED current
           /\ th' = [th EXCEPT ![t].op = op, ![t].rev = row.scoring, ![t].pc = "ensure"]
  <2>1. row.scoring \in DOMAIN bundles /\ row.scoring \in Nat
    BY <1>4, <1>8 DEF RowOK, RefsOK, Inv, StoresOK, Rows
  <2>2. PICK m \in Locals : m = [l EXCEPT !.op = op, !.rev = row.scoring, !.pc = "ensure"]
    <3>1. PICK x \in Locals : x = [l EXCEPT !.op = op]
      BY OpLocal
    <3>2. PICK y \in Locals : y = [x EXCEPT !.rev = row.scoring]
      BY <2>1, RevLocal
    <3>3. [y EXCEPT !.pc = "ensure"] \in Locals
      BY PcLocal DEF Labels
    <3> QED
      BY <3>1, <3>2, <3>3
  <2>3. /\ m.pc = "ensure" /\ m.req = l.req /\ m.run = l.run /\ m.sub = l.sub /\ m.op = op
        /\ m.rev = row.scoring
    BY <2>2 DEF Locals
  <2>4. th' = [th EXCEPT ![t] = m]
    BY <1>1, <1>8, <2>2 DEF Inv, ThreadsOK
  <2>5. LocalOK(m)
    <3>1. PlaceOK(m) /\ EvidenceOK(m)
      BY <1>2, <1>3, <1>8, <2>3, Disjoint
         DEF PlaceOK, EvidenceOK, OpSuits, SubmitOnly, ReviewOnly, RescoreOnly, Updating, Either
    <3>2. BundlesOK(m)
      BY <1>1, <1>2, <2>1, <2>3 DEF LocalOK, BundlesOK, Based
    <3>3. RunOK(m)
      BY <1>1, <1>8, <2>3 DEF LocalOK, RunOK, Updating
    <3> QED
      BY <3>1, <3>2, <3>3 DEF LocalOK
  <2>6. LocalOK(m)'
    BY <1>6, <2>5, LocalStill DEF Inv
  <2>7. m.pc \notin Early
    BY <2>3 DEF Early
  <2> QED
    BY <1>5, <1>6, <1>8, <2>3, <2>4, <2>6, <2>7, GoOn
<1>9. CASE /\ UNCHANGED current
           /\ th' = [th EXCEPT ![t].op = op, ![t].retry = row.status = "failed", ![t].pc = "claim"]
  <2>1. PICK retry \in BOOLEAN : retry = (row.status = "failed")
    OBVIOUS
  <2>2. PICK m \in Locals : m = [l EXCEPT !.op = op, !.retry = retry, !.pc = "claim"]
    <3>1. PICK x \in Locals : x = [l EXCEPT !.op = op]
      BY OpLocal
    <3>2. PICK y \in Locals : y = [x EXCEPT !.retry = retry]
      BY RetryLocal
    <3>3. [y EXCEPT !.pc = "claim"] \in Locals
      BY PcLocal DEF Labels
    <3> QED
      BY <3>1, <3>2, <3>3
  <2>3. m.pc = "claim" /\ m.req = l.req /\ m.run = l.run /\ m.sub = l.sub /\ m.op = op
    BY <2>2 DEF Locals
  <2>4. th' = [th EXCEPT ![t] = m]
    BY <1>1, <1>9, <2>1, <2>2 DEF Inv, ThreadsOK
  <2>5. LocalOK(m)
    <3>1. PlaceOK(m) /\ EvidenceOK(m)
      BY <1>2, <1>3, <2>3
         DEF PlaceOK, EvidenceOK, OpSuits, SubmitOnly, ReviewOnly, RescoreOnly, Updating, Either
    <3>2. BundlesOK(m)
      BY <1>1, <1>2, <2>3 DEF LocalOK, BundlesOK, Based, Scored, Updating
    <3>3. RunOK(m)
      BY <1>1, <2>3 DEF LocalOK, RunOK, Early, Updating
    <3> QED
      BY <3>1, <3>2, <3>3 DEF LocalOK
  <2>6. LocalOK(m)'
    BY <1>6, <2>5, LocalStill DEF Inv
  <2>7. m.pc \in Early /\ th[t].pc \in Early
    BY <1>1, <1>2, <2>3 DEF Early
  <2> QED
    BY <1>5, <1>6, <1>9, <2>4, <2>6, <2>7, GoOn
<1> QED
  BY <1>1, <1>3, <1>4, <1>7, <1>8, <1>9 DEF Record, Req

LEMMA ClaimOK == ASSUME Inv, NEW t \in Threads, Claim(t) PROVE Inv'
<1>1. PICK l \in Locals : l = th[t] /\ LocalOK(l)
  BY Mine
<1>2. l.pc = "claim" /\ l.op \in Ops /\ l.req \in Workers /\ 2 \in Nat
  BY <1>1 DEF Claim, At, LocalOK, PlaceOK, Workers
<1>3. PICK row : row = rows[l.op] /\ RowOK(l.op, row)
  BY <1>2 DEF Inv, RowsOK
<1>4. UNCHANGED <<recorded, faults>> /\ UNCHANGED <<stores, browser>> /\ recorded' \subseteq Ops /\ faults' \in Nat
  BY DEF Claim, Inv, RowsOK, StoresOK
<1> DEFINE mine == IF Claimable(row) THEN Claimed(KindOf(l.op), row, l.req, 2)
                                     ELSE Leased(row, l.req, 2)
<1>5. CASE Claimable(row) \/ Expired(row, 1)
  <2>1. PICK r : r = mine /\ RowOK(l.op, r) /\ r.status = "running" /\ row.status # "completed"
    <3>1. CASE Claimable(row)
      BY <1>2, <1>3, <3>1, ClaimedRow DEF Claimable
    <3>2. CASE ~Claimable(row)
      BY <1>2, <1>3, <1>5, <3>2, LeasedRow DEF Expired
    <3> QED
      BY <3>1, <3>2
  <2>2. PICK pc : pc = FirstStep(l.op)
    OBVIOUS
  <2>3. /\ pc \in Labels \ (Early \cup {"post"}) /\ pc \notin Based \cup Scored \cup Updating \cup {"check"}
        /\ OpSuits(pc, l.op)
    BY <1>2, <2>2, Disjoint DEF FirstStep, Labels, Early, Based, Scored, Updating, OpSuits, SubmitOnly,
       ReviewOnly, RescoreOnly, Either, Ops
  <2>4. l.pc \notin {"idle", "read", "record"}
    BY <1>2
  <2>5. PICK m : /\ m = Onto(l, r, pc) /\ LocalOK(m) /\ m.pc = pc /\ m.op = l.op
                 /\ m.run.checkpoint = r.checkpoint /\ m.run.scoring = r.scoring
    BY <1>1, <2>1, <2>3, <2>4, WithRow
  <2>6. Commit(t, l.op, r, m)
    BY <1>1, <1>3, <1>5, <2>1, <2>2, <2>5 DEF Claim, Op, Req, With, Onto
  <2>7. Hands(t, l.op, r, m)
    BY <2>3, <2>5 DEF Hands
  <2> QED
    BY <1>2, <1>3, <1>4, <2>1, <2>5, <2>6, <2>7, CommitOK
<1>6. CASE ~(Claimable(row) \/ Expired(row, 1))
  BY <1>1, <1>3, <1>4, <1>6, LeaveOK DEF Claim, Op
<1> QED
  BY <1>5, <1>6

LEMMA FailOK == ASSUME Inv, NEW t \in Threads, Fail(t) PROVE Inv'
<1>1. PICK l \in Locals : l = th[t] /\ LocalOK(l)
  BY Mine
<1>2. l.op \in Ops
  BY <1>1 DEF Fail, At, LocalOK, PlaceOK
<1>3. PICK row : row = rows[l.op] /\ RowOK(l.op, row)
  BY <1>2 DEF Inv, RowsOK
<1>4. UNCHANGED <<recorded, faults>> /\ UNCHANGED <<stores, browser>> /\ recorded' \subseteq Ops /\ faults' \in Nat
  BY DEF Fail, Inv, RowsOK, StoresOK
<1>5. CASE row.owner = l.req /\ Live(row, 1)
  <2>1. PICK r : r = Failed(row) /\ RowOK(l.op, r) /\ r.owner = NoOwner
    BY <1>2, <1>3, <1>5, FailedRow DEF Live
  <2>2. Commit(t, l.op, r, Idle)
    BY <1>1, <1>3, <1>5, <2>1 DEF Fail, Op, Req
  <2>3. rows[l.op].status # "completed" /\ Hands(t, l.op, r, Idle)
    BY <1>3, <1>5, <2>1 DEF Live, Hands
  <2> QED
    BY <1>2, <1>4, <2>1, <2>2, <2>3, IdleOK, CommitOK
<1>6. CASE ~(row.owner = l.req /\ Live(row, 1))
  BY <1>1, <1>3, <1>4, <1>6, LeaveOK DEF Fail, Op, Req
<1> QED
  BY <1>5, <1>6

LEMMA CrashOK == ASSUME Inv, NEW t \in Threads, Crash(t) PROVE Inv'
<1>1. /\ UNCHANGED <<recorded, rows, lastReview>> /\ UNCHANGED <<stores, browser>>
      /\ faults' \in Nat /\ recorded' \subseteq Ops
  BY DEF Crash, Fault, Inv, StoresOK, RowsOK
<1> QED
  BY <1>1, LeaveOK DEF Crash

LEMMA RaiseOK == ASSUME Inv, NEW t \in Threads, Raise(t) PROVE Inv'
<1>1. /\ UNCHANGED <<recorded, rows, current, lastReview>> /\ UNCHANGED <<stores, browser>>
      /\ faults' \in Nat /\ recorded' \subseteq Ops
  BY DEF Raise, Fault, m0, Inv, StoresOK, RowsOK
<1>2. th[t].pc \notin Early
  BY DEF Raise, At, Early
<1> QED
  BY <1>1, <1>2, StoresStill, Raised DEF Raise
-----------------------------------------------------------------------------
(* What the choices return. *)

Less == OpToRel(<, Nat)

LEMMA LeastExists ==
  ASSUME NEW S \in SUBSET Nat, S # {} PROVE \E x \in S : \A y \in S : x <= y
<1>1. IsWellFoundedOn(Less, Nat)
  BY NatLessThanWellFounded DEF Less
<1>2. PICK x \in S : \A y \in S : ~(<<y, x>> \in Less)
  BY <1>1, WFMin
<1>3. \A y \in S : y \in Nat /\ x \in Nat /\ ~(y < x)
  BY <1>2 DEF Less, OpToRel
<1> QED
  BY <1>3

LEMMA BundleFacts ==
  ASSUME Inv
  PROVE  /\ bundles \in Seq(Bundle) /\ DOMAIN bundles = 1 .. Len(bundles) /\ Len(bundles) \in Nat
         /\ today \in Nat
         /\ \A i \in DOMAIN bundles :
              /\ bundles[i] \in Bundle /\ bundles[i].at \in Nat /\ bundles[i].at <= today
              /\ bundles[i].hist \in [Audits -> Seq(AuditRecord)]
<1>1. bundles \in Seq(Bundle) /\ today \in Nat /\ \A i \in DOMAIN bundles : bundles[i].at <= today
  BY DEF Inv, StoresOK
<1>2. DOMAIN bundles = 1 .. Len(bundles) /\ Len(bundles) \in Nat
  BY <1>1
<1>3. \A i \in DOMAIN bundles : bundles[i] \in Bundle
  BY <1>1
<1>4. \A b \in Bundle : b.at \in Nat /\ b.hist \in [Audits -> Seq(AuditRecord)]
  BY DEF Bundle
<1> QED
  BY <1>1, <1>2, <1>3, <1>4

LEMMA WinnerOK == ASSUME Inv, bundles # <<>> PROVE Winner(bundles) \in DOMAIN bundles
<1>1. /\ DOMAIN bundles = 1 .. Len(bundles) /\ Len(bundles) \in Nat /\ Len(bundles) > 0 /\ today \in Nat
      /\ \A i \in DOMAIN bundles : bundles[i].at \in Nat /\ bundles[i].at <= today
  <2>1. Len(bundles) > 0
    BY BundleFacts
  <2> QED
    BY <2>1, BundleFacts
<1> DEFINE S == {today - bundles[i].at : i \in DOMAIN bundles}
<1>2. S \in SUBSET Nat /\ S # {}
  <2>1. 1 \in DOMAIN bundles
    BY <1>1
  <2> QED
    BY <1>1, <2>1
<1>3. PICK x \in S : \A y \in S : x <= y
  BY <1>2, LeastExists
<1>4. PICK k \in DOMAIN bundles : x = today - bundles[k].at
  BY <1>3
<1>5. \A j \in DOMAIN bundles : bundles[j].at <= bundles[k].at
  <2>1. ASSUME NEW j \in DOMAIN bundles PROVE today - bundles[k].at <= today - bundles[j].at
    BY <1>3, <1>4
  <2> QED
    BY <1>1, <2>1
<1> DEFINE L == {i \in DOMAIN bundles : bundles[i].at = bundles[k].at}
           T == {Len(bundles) - i : i \in L}
<1>6. T \in SUBSET Nat /\ T # {}
  BY <1>1
<1>7. PICK y \in T : \A z \in T : y <= z
  BY <1>6, LeastExists
<1>8. PICK n \in L : y = Len(bundles) - n
  BY <1>7
<1>9. \A j \in L : j <= n
  <2>1. ASSUME NEW j \in L PROVE Len(bundles) - n <= Len(bundles) - j
    BY <1>7, <1>8
  <2> QED
    BY <1>1, <2>1
<1>10. \A j \in DOMAIN bundles :
         bundles[j].at < bundles[n].at \/ (bundles[j].at = bundles[n].at /\ j <= n)
  BY <1>1, <1>5, <1>9
<1> QED
  BY <1>10 DEF Winner

LEMMA FirstWithOK ==
  ASSUME Inv, NEW a, NEW v \in Nat
  PROVE  FirstWith(bundles, a, v) \in DOMAIN bundles \cup {NoBundle}
<1> DEFINE H == {i \in DOMAIN bundles : Version(bundles[i], a) >= v}
<1>1. CASE H = {}
  BY <1>1 DEF FirstWith
<1>2. CASE H # {}
  <2>1. H \subseteq Nat /\ \A i \in H : bundles[i].at \in Nat
    BY BundleFacts
  <2> DEFINE S == {bundles[i].at : i \in H}
  <2>2. S \in SUBSET Nat /\ S # {}
    BY <1>2, <2>1
  <2>3. PICK x \in S : \A y \in S : x <= y
    BY <2>2, LeastExists
  <2> DEFINE L == {i \in H : bundles[i].at = x}
  <2>4. L \in SUBSET Nat /\ L # {}
    BY <2>1, <2>3
  <2>5. PICK n \in L : \A m \in L : n <= m
    BY <2>4, LeastExists
  <2>6. \A j \in H : bundles[n].at < bundles[j].at \/ (bundles[n].at = bundles[j].at /\ n <= j)
    BY <2>1, <2>3, <2>5
  <2> QED
    BY <1>2, <2>5, <2>6 DEF FirstWith
<1> QED
  BY <1>1, <1>2

LEMMA BaselinesOK ==
  ASSUME Inv
  PROVE  /\ LatestBaseline \in Nat \X Nat /\ BaseOK(LatestBaseline)
         /\ NoBaseline \in Nat \X Nat /\ BaseOK(NoBaseline)
<1>1. classV \in Nat /\ Len(updates) \in Nat /\ Len(updates) <= classV
  BY DEF Inv, StoresOK
<1> QED
  BY <1>1 DEF LatestBaseline, NoBaseline, BaseOK

LEMMA EffectiveOK ==
  ASSUME Inv, NEW op, EffectiveBut(op) # NoRequest
  PROVE  /\ EffectiveBut(op) \in Ops
         /\ rows[EffectiveBut(op)].scoring \in DOMAIN bundles
         /\ rows[EffectiveBut(op)].stateV \in Nat
<1>1. PICK e : e = EffectiveBut(op)
  OBVIOUS
<1>2. e \in Ops /\ rows[e].status \in {"completed"} \cup WaitingStatuses
  BY <1>1 DEF EffectiveBut, Inv, RowsOK, Ops, Waits
<1>3. RowOK(e, rows[e]) /\ rows[e] \in Rows(Workers)
  BY <1>2 DEF Inv, RowsOK
<1>4. rows[e].scoring # NoRef
  BY <1>2, <1>3 DEF RowOK
<1> QED
  BY <1>1, <1>2, <1>3, <1>4 DEF RowOK, RefsOK, Rows
-----------------------------------------------------------------------------
(* submit *)

(* A step of the handler that looks something up. *)
LEMMA Noted ==
  ASSUME Inv, NEW t \in Threads
  PROVE  \E l \in Locals :
            /\ l = th[t] /\ LocalOK(l) /\ LinkOK(t, l)
            /\ l.pc \notin Early => l.op \in Ops
            /\ l.pc \notin Early \cup {"fail"} /\ l.op \notin Rescores => RowOK(l.op, l.run)
            /\ l.pc \notin Early \cup {"fail", "commit", "finish"} /\ l.op \notin Rescores =>
                  l.run.status = "running"
BY Mine DEF LocalOK, PlaceOK, RunOK, Early

LEMMA ScoreOK == ASSUME Inv, NEW t \in Threads, Score(t) PROVE Inv'
<1>1. PICK l \in Locals : l = th[t] /\ LocalOK(l)
  BY Mine
<1>2. l.pc = "score" /\ l.op = Submit
  BY <1>1 DEF Score, At, LocalOK, PlaceOK, OpSuits, SubmitOnly
<1> DEFINE found == IF l.run.scoring # NoRef THEN l.run.scoring
                    ELSE IF bundles # <<>> THEN Winner(bundles) ELSE NoBundle
           pc == IF found = NoBundle THEN "grade" ELSE "route"
<1>3. found \in Nat /\ (found # NoBundle => found \in DOMAIN bundles)
  <2>1. l.run.scoring # NoRef => l.run.scoring \in DOMAIN bundles
    BY <1>1 DEF LocalOK, RunOK, RefsOK
  <2>2. DOMAIN bundles \subseteq Nat
    BY DEF Inv, StoresOK
  <2> QED
    BY <2>1, <2>2, WinnerOK DEF NoBundle
<1>4. th' = [th EXCEPT ![t].rev = found, ![t].pc = pc]
  BY <1>1 DEF Score, Run
<1>5. pc \in Labels /\ pc \in SubmitOnly /\ (pc = "grade" \/ found # NoBundle)
  BY DEF Labels, SubmitOnly
<1> HIDE DEF found, pc
<1>6. PICK m \in Locals : m = [l EXCEPT !.rev = found, !.pc = pc]
  <2>1. [l EXCEPT !.rev = found] \in Locals
    BY <1>3, RevLocal
  <2> QED
    BY <1>5, <2>1, PcLocal
<1>7. /\ m.op = l.op /\ m.req = l.req /\ m.sub = l.sub /\ m.run = l.run
      /\ m.rev = found /\ m.pc = pc
  BY <1>6 DEF Locals
<1>8. th' = [th EXCEPT ![t] = m]
  BY <1>1, <1>4, <1>6 DEF Inv, ThreadsOK
<1>9. /\ UNCHANGED <<rows, current, lastReview, bundles, faults>> /\ UNCHANGED <<stores, browser>>
      /\ recorded' \subseteq Ops
  BY DEF Score, m0, stores, Inv, RowsOK
<1>10. StoresOK' /\ Grows
  BY <1>9, StoresStill DEF Inv, StoresOK
<1>11. /\ m.pc \notin Early \cup {"fail", "post", "check"} /\ m.pc \notin Based \cup Updating
       /\ OpSuits(m.pc, m.op) /\ (m.pc \in Scored => m.rev \in DOMAIN bundles')
  BY <1>2, <1>3, <1>5, <1>7, <1>9 DEF SubmitOnly, Early, Based, Updating, OpSuits, ReviewOnly,
     RescoreOnly, Either, Scored
<1>12. l.pc \notin Early \cup {"fail", "commit", "finish"}
  BY <1>2 DEF Early
<1> QED
  BY <1>1, <1>7, <1>8, <1>9, <1>10, <1>11, <1>12, OnGo

LEMMA Appends ==
  ASSUME Inv, NEW b \in Bundle, b.at <= today', bundles' = Append(bundles, b), today <= today',
         today' \in Nat, UNCHANGED <<decisions, updates, classV, forms, faults>>
  PROVE  /\ StoresOK' /\ Grows /\ Len(bundles) + 1 \in DOMAIN bundles'
         /\ \A i \in DOMAIN bundles : i \in DOMAIN bundles'
<1>1. /\ bundles \in Seq(Bundle) /\ Len(bundles) \in Nat /\ today \in Nat
      /\ \A i \in DOMAIN bundles : bundles[i] \in Bundle /\ bundles[i].at \in Nat /\ bundles[i].at <= today
  BY BundleFacts
<1>2. /\ bundles' \in Seq(Bundle) /\ DOMAIN bundles' = 1 .. (Len(bundles) + 1)
      /\ DOMAIN bundles = 1 .. Len(bundles)
      /\ bundles'[Len(bundles) + 1] = b
      /\ \A i \in DOMAIN bundles : bundles'[i] = bundles[i]
  BY <1>1
<1>3. Grows /\ Len(bundles) + 1 \in DOMAIN bundles' /\ \A i \in DOMAIN bundles : i \in DOMAIN bundles'
  BY <1>1, <1>2 DEF Grows
<1>4. \A i \in DOMAIN bundles' : bundles'[i].at <= today'
  BY <1>1, <1>2
<1>5. forms' \in [Reviews \cup Rescores -> [version : Nat, at : 0 .. today']]
  <2>1. ASSUME NEW p \in Reviews \cup Rescores PROVE forms[p] \in [version : Nat, at : 0 .. today']
    BY <1>1 DEF Inv, StoresOK
  <2> QED
    BY <2>1 DEF Inv, StoresOK
<1>6. \A i \in DOMAIN updates : updates[i].bundle \in DOMAIN bundles'
  BY <1>3 DEF Inv, StoresOK
<1> QED
  BY <1>2, <1>3, <1>4, <1>5, <1>6 DEF Inv, StoresOK

LEMMA FirstBundle ==
  ASSUME Inv, NEW scores \in FirstScores
  PROVE  [hist |-> [a \in Audits |-> <<[status |-> scores[a], by |-> Submit]>>], at |-> today] \in Bundle
<1>1. scores \in [Audits -> {"pending", "approved", "rejected"}] /\ Submit \in Ops /\ today \in Nat
  BY Scores DEF Ops, Inv, StoresOK
<1>2. ASSUME NEW a \in Audits PROVE <<[status |-> scores[a], by |-> Submit]>> \in Seq(AuditRecord)
  <2>1. scores[a] \in {"pending", "approved", "rejected"}
    BY <1>1
  <2>2. [status |-> scores[a], by |-> Submit] \in AuditRecord
    BY <1>1, <2>1 DEF AuditRecord
  <2> QED
    BY <2>2
<1> DEFINE hist == [a \in Audits |-> <<[status |-> scores[a], by |-> Submit]>>]
<1>3. hist \in [Audits -> Seq(AuditRecord)]
  BY <1>2
<1> HIDE DEF hist
<1>4. [hist |-> hist, at |-> today] \in Bundle
  BY <1>1, <1>3 DEF Bundle
<1> QED
  BY <1>4 DEF hist

(* The locals of a thread that found or wrote a bundle. *)
SetRev(t, rev, pc) == th' = [th EXCEPT ![t].rev = rev, ![t].pc = pc]

LEMMA RevSet ==
  ASSUME Inv, NEW t \in Threads, NEW l \in Locals, l = th[t], LocalOK(l),
         l.pc \notin Early \cup {"fail", "commit", "finish"},
         NEW rev \in Nat, rev \in DOMAIN bundles', NEW pc \in {"route", "reviewed"}, OpSuits(pc, l.op),
         SetRev(t, rev, pc), UNCHANGED <<rows, current, lastReview, recorded>>, Grows, StoresOK'
  PROVE  Inv'
<1>1. PICK m \in Locals : m = [l EXCEPT !.rev = rev, !.pc = pc]
  <2>1. [l EXCEPT !.rev = rev] \in Locals /\ pc \in Labels
    BY RevLocal DEF Labels
  <2> QED
    BY <2>1, PcLocal
<1>2. /\ m.op = l.op /\ m.req = l.req /\ m.sub = l.sub /\ m.run = l.run
      /\ m.rev = rev /\ m.pc = pc
  BY <1>1 DEF Locals
<1>3. th' = [th EXCEPT ![t] = m]
  BY <1>1 DEF SetRev, Inv, ThreadsOK
<1>4. /\ m.pc \notin Early \cup {"fail", "post", "check"} /\ m.pc \notin Based \cup Updating
      /\ OpSuits(m.pc, m.op) /\ m.rev \in DOMAIN bundles'
  BY <1>2 DEF Early, Based, Updating
<1>5. recorded' \subseteq Ops
  BY DEF Inv, RowsOK
<1>6. /\ m.pc \notin Early \cup {"fail", "post"} /\ m.pc # "check"
      /\ m.pc \in Based => m.cur \in DOMAIN bundles'
      /\ m.pc \in Updating /\ m.op = Submit => l.run.checkpoint \in Frozen \cup {"events_appended"}
  BY <1>4
<1> QED
  BY <1>2, <1>3, <1>4, <1>5, <1>6, OnGo

LEMMA GradeOK == ASSUME Inv, NEW t \in Threads, Grade(t) PROVE Inv'
<1>1. PICK l \in Locals : l = th[t] /\ LocalOK(l)
  BY Mine
<1>2. l.pc = "grade" /\ l.op = Submit
  BY <1>1 DEF Grade, At, LocalOK, PlaceOK, OpSuits, SubmitOnly
<1>3. l.pc \notin Early \cup {"fail", "commit", "finish"} /\ OpSuits("route", l.op)
  BY <1>2 DEF Early, OpSuits, SubmitOnly, ReviewOnly, RescoreOnly, Updating, Either
<1>4. PICK scores \in FirstScores, b \in Bundle :
        /\ b.at = today
        /\ IF bundles = <<>>
           THEN bundles' = <<b>> /\ th' = [th EXCEPT ![t].rev = 1, ![t].pc = "route"]
           ELSE /\ UNCHANGED bundles
                /\ IF SameResult(bundles[1], b)
                   THEN th' = [th EXCEPT ![t].rev = 1, ![t].pc = "route"]
                   ELSE Goto(t, "fail")
  BY FirstBundle DEF Grade
<1>5. /\ UNCHANGED <<rows, current, lastReview, recorded, decisions, updates, classV, faults, forms, today>>
      /\ UNCHANGED browser /\ recorded' \subseteq Ops
  BY DEF Grade, m0, browser, Inv, RowsOK
<1>6. CASE bundles = <<>>
  <2>1. bundles' = Append(bundles, b) /\ Len(bundles) + 1 = 1
    BY <1>4, <1>6
  <2>2. today' \in Nat /\ b.at <= today' /\ today <= today'
    BY <1>4, <1>5, BundleFacts
  <2>3. StoresOK' /\ Grows /\ 1 \in DOMAIN bundles' /\ 1 \in Nat
    BY <1>5, <2>1, <2>2, Appends
  <2> QED
    BY <1>1, <1>3, <1>4, <1>5, <1>6, <2>3, RevSet DEF SetRev
<1>7. CASE bundles # <<>>
  <2>1. UNCHANGED stores /\ 1 \in DOMAIN bundles' /\ 1 \in Nat
    BY <1>4, <1>5, <1>7, BundleFacts DEF stores
  <2>2. StoresOK' /\ Grows
    BY <1>5, <2>1, StoresStill DEF Inv, StoresOK
  <2>3. CASE SameResult(bundles[1], b)
    BY <1>1, <1>3, <1>4, <1>5, <1>7, <2>1, <2>2, <2>3, RevSet DEF SetRev
  <2>4. CASE ~SameResult(bundles[1], b)
    BY <1>1, <1>3, <1>4, <1>5, <1>7, <2>2, <2>4, Raised
  <2> QED
    BY <2>3, <2>4
<1> QED
  BY <1>6, <1>7

LEMMA NoRefsFit == NoRefs \in RefRows /\ \A cp : cp # "scoring_saved" => GoodRefs(cp, NoRefs)
BY DEF NoRefs, RefRows, GoodRefs

LEMMA ScoringRefs ==
  ASSUME NEW cp, NEW x \in DOMAIN bundles, x \in Nat
  PROVE  GoodRefs(cp, [NoRefs EXCEPT !.scoring = x])
<1>1. x # NoRef
  BY Nulls
<1> QED
  BY <1>1 DEF NoRefs, RefRows, GoodRefs

(* park_assessment_run of the submission, by its own handler or another one. *)
LEMMA ParkOK ==
  ASSUME Inv, NEW t \in Threads, th[t].pc \notin Early,
         NEW b, NEW freeze \in BOOLEAN, NEW base \in (Nat \X Nat) \cup {NoRef}, base # NoRef => BaseOK(base),
         freeze => base # NoRef,
         NEW cs \in Nat \cup {NoRef}, cs # NoRef => cs \in DOMAIN bundles,
         cs = NoRef /\ t \in current[Submit] => rows[Submit].scoring # NoRef,
         NEW m, LocalOK(m),
         Fenced(t, Submit, TRUE, Parked(rows[Submit], WaitingFor(b), freeze, base, cs), m),
         \/ m = Idle
         \/ /\ m.pc \notin Early /\ m.op # Submit /\ m.op = th[t].op /\ m.run = th[t].run
            /\ th[t].pc # "fail"
  PROVE  Inv'
<1>1. PICK row : row = rows[Submit] /\ RowOK(Submit, row) /\ Submit \in Ops
  BY DEF Inv, RowsOK, Ops
<1>2. PICK st \in WaitingStatuses : st = WaitingFor(b)
  BY DEF WaitingFor, WaitingStatuses
<1>3. PICK r : r = Parked(row, st, freeze, base, cs)
  OBVIOUS
<1>4. ASSUME row.status = "running", t \in current[Submit]
      PROVE  RowOK(Submit, r) /\ r.owner = NoOwner
  <2>1. cs = NoRef => row.scoring # NoRef
    BY <1>1, <1>4
  <2> QED
    BY <1>1, <1>3, <1>4, <2>1, ParkedRow
<1>5. Fenced(t, Submit, TRUE, r, m)
  BY <1>1, <1>2, <1>3
<1>6. rows[Submit].status = "running" /\ t \in current[Submit] =>
         RowOK(Submit, r) /\ LocalOK(m) /\ Hands(t, Submit, r, m)
  BY <1>1, <1>4 DEF Hands
<1> QED
  BY <1>1, <1>5, <1>6, FencedOK

LEMMA RouteOK == ASSUME Inv, NEW t \in Threads, Route(t) PROVE Inv'
<1>1. PICK l \in Locals :
         /\ l = th[t] /\ LocalOK(l) /\ LinkOK(t, l)
         /\ l.pc \notin Early \cup {"fail"} /\ l.op \notin Rescores => RowOK(l.op, l.run)
         /\ l.pc \notin Early \cup {"fail", "commit", "finish"} /\ l.op \notin Rescores =>
               l.run.status = "running"
  BY Noted
<1>2. l.pc = "route" /\ l.op = Submit /\ Submit \in Ops /\ Submit \notin Rescores
  BY <1>1, Disjoint DEF Route, At, LocalOK, PlaceOK, OpSuits, SubmitOnly, Ops
<1>3. l.pc \notin Early \cup {"fail", "commit", "finish"} /\ l.rev \in DOMAIN bundles /\ l.rev \in Nat
  BY <1>1, <1>2, BundleFacts DEF Early, LocalOK, BundlesOK, Scored
<1>4. CASE l.run.checkpoint = "claimed"
           /\ Advance(t, "scoring_saved", [NoRefs EXCEPT !.scoring = l.rev], "route")
  <2>1. GoodRefs("scoring_saved", [NoRefs EXCEPT !.scoring = l.rev])
    BY <1>3, ScoringRefs
  <2>2. "route" \in Into \cup {"idle"} /\ OpSuits("route", l.op) /\ "route" \notin Based \cup Updating
    BY <1>2 DEF Into, Labels, Early, OpSuits, SubmitOnly, ReviewOnly, RescoreOnly, Updating, Either, Based
  <2> QED
    BY <1>1, <1>3, <1>4, <2>1, <2>2, AdvanceOK
<1>5. CASE /\ l.run.checkpoint = "scoring_saved"
           /\ Fenced(t, Submit, TRUE,
                     Parked(rows[Submit], WaitingFor(Rev(t)), TRUE, LatestBaseline, NoRef), Idle)
  <2>1. RowOK(Submit, rows[Submit])
    BY <1>2 DEF Inv, RowsOK
  <2>2. t \in current[Submit] => rows[Submit].scoring # NoRef
    BY <1>1, <1>2, <1>3, <1>5, <2>1 DEF LinkOK, RowOK
  <2>3. LatestBaseline \in Nat \X Nat /\ BaseOK(LatestBaseline) /\ LatestBaseline # NoRef
    BY BaselinesOK, Nulls
  <2> QED
    BY <1>1, <1>3, <1>5, <2>2, <2>3, IdleOK, ParkOK
<1>6. CASE l.run.checkpoint = "scoring_saved" /\ Advance(t, "events_appended", NoRefs, "inputs")
  <2>1. "inputs" \in Into \cup {"idle"} /\ OpSuits("inputs", l.op) /\ "inputs" \notin Based
    BY <1>2 DEF Into, Labels, Early, OpSuits, SubmitOnly, ReviewOnly, RescoreOnly, Updating, Either, Based
  <2> QED
    BY <1>1, <1>3, <1>6, <2>1, NoRefsFit, AdvanceOK
<1>7. CASE l.run.checkpoint \notin {"claimed", "scoring_saved"} /\ Only(t, "inputs")
  <2>1. /\ "inputs" \in Labels \ (Early \cup {"fail", "post"}) /\ OpSuits("inputs", l.op)
        /\ "inputs" \notin Based
    BY <1>2 DEF Labels, Early, OpSuits, SubmitOnly, ReviewOnly, RescoreOnly, Updating, Either, Based
  <2>2. l.run.checkpoint \in Frozen \cup {"events_appended"}
    BY <1>1, <1>2, <1>3, <1>7 DEF RowOK, KindOf, Checkpoints, After, Frozen
  <2> QED
    BY <1>1, <1>3, <1>7, <2>1, <2>2, OnlyOK
<1> QED
  BY <1>1, <1>4, <1>5, <1>6, <1>7 DEF Route, Run, Rev

(* The version of the posted state does not matter to what refers to what. *)
LEMMA PostedOK ==
  ASSUME NEW l, LocalOK(l), NEW x \in Nat
  PROVE  \E m \in Locals :
           /\ m = [l EXCEPT !.stateV = x] /\ LocalOK(m)
           /\ m.pc = l.pc /\ m.op = l.op /\ m.run = l.run /\ m.req = l.req /\ m.sub = l.sub
           /\ m.cur = l.cur /\ m.rev = l.rev
<1>1. l \in Locals
  BY DEF LocalOK
<1>2. PICK m \in Locals : m = [l EXCEPT !.stateV = x]
  BY <1>1, PostedLocal
<1>3. /\ m.pc = l.pc /\ m.op = l.op /\ m.run = l.run /\ m.req = l.req /\ m.sub = l.sub
      /\ m.cur = l.cur /\ m.rev = l.rev
  BY <1>1, <1>2 DEF Locals
<1>4. LocalOK(m)
  BY <1>3 DEF LocalOK, PlaceOK, BundlesOK, RunOK, EvidenceOK
<1> QED
  BY <1>2, <1>3, <1>4

LEMMA InputsOK ==
  ASSUME Inv, NEW t \in Threads, NEW l \in Locals, l = th[t], LocalOK(l), l.pc = "inputs",
         NEW known \in Nat, NEW base \in Nat \X Nat, BaseOK(base),
         NEW pc \in {"check", "close", "fail", "rebase"}, OpSuits(pc, l.op),
         pc = "check" => l.run.checkpoint \in Frozen \cup {"events_appended"},
         Inputs(t, known, base, pc)
  PROVE  Inv'
<1>1. /\ l.op \in Ops /\ l.op \notin Rescores /\ l.rev \in DOMAIN bundles /\ RowOK(l.op, l.run)
      /\ l.run.status = "running"
      /\ l.op = Submit => l.run.checkpoint \in Frozen \cup {"events_appended"}
  BY DEF LocalOK, PlaceOK, BundlesOK, RunOK, OpSuits, Updating, Scored, Early
<1>2. l.pc \notin Early \cup {"fail", "commit", "finish"} /\ l.pc \notin {"idle", "read", "record"}
  BY DEF Early
<1>3. /\ pc \in Labels \ (Early \cup {"post"}) /\ pc \notin Based
      /\ pc # "fail" => pc \in Scored
  BY DEF Labels, Early, Based, Scored, Updating
<1>4. base # NoRef
  BY Nulls
<1> DEFINE cp == "state_inputs_frozen"
           refs == [NoRefs EXCEPT !.frozen = TRUE, !.base = base]
           r == Advanced(rows[l.op], cp, refs)
           allowed == CanAdvance(KindOf(l.op), rows[l.op], cp, refs)
<1>5. GoodRefs(cp, refs) /\ refs.base = base
  BY <1>4 DEF GoodRefs, NoRefs, RefRows
<1> HIDE DEF cp, refs, r, allowed
<1>6. CASE l.run.checkpoint = "events_appended" /\ l.run.frozen = "open"
  <2>1. Fenced(t, l.op, allowed, r, [With(t, r, pc) EXCEPT !.stateV = known])
    BY <1>6 DEF Inputs, Run, Op, r, allowed, refs, cp
  <2>2. ASSUME allowed
        PROVE  /\ RowOK(l.op, r) /\ LocalOK([With(t, r, pc) EXCEPT !.stateV = known])
               /\ Hands(t, l.op, r, [With(t, r, pc) EXCEPT !.stateV = known])
    <3>1. PICK row : row = rows[l.op] /\ RowOK(l.op, row)
      BY <1>1 DEF Inv, RowsOK
    <3>2. PICK n : /\ n = r /\ RowOK(l.op, n) /\ n.checkpoint = "state_inputs_frozen"
                   /\ n.status = "running" /\ n.base = base
      <4>1. PICK c : c = "state_inputs_frozen" /\ c # "completed"
        OBVIOUS
      <4>2. PICK f : f = refs /\ GoodRefs(c, f) /\ f.base = base
        BY <1>5, <4>1 DEF cp
      <4>3. CanAdvance(KindOf(l.op), row, c, f) /\ r = Advanced(row, c, f)
        BY <2>2, <3>1, <4>1, <4>2 DEF allowed, r, cp
      <4>4. PICK n : n = Advanced(row, c, f)
        OBVIOUS
      <4>5. /\ RowOK(l.op, n) /\ n.checkpoint = c
            /\ n.status = (IF c = "completed" THEN "completed" ELSE "running")
            /\ n.base = Pick(f.base, NoRef, row.base)
        BY <1>1, <3>1, <4>2, <4>3, <4>4, AdvancedRow
      <4> QED
        BY <1>4, <4>1, <4>2, <4>3, <4>4, <4>5 DEF Pick
    <3>3. pc = "check" => n.base # NoRef
      BY <1>4, <3>2
    <3>4. /\ pc \in Based => l.cur \in DOMAIN bundles
          /\ pc \in Scored => l.rev \in DOMAIN bundles
          /\ pc \in Updating /\ l.op = Submit => n.checkpoint \in Frozen \cup {"events_appended"}
          /\ n.status = "running" \/ pc \in {"commit", "finish"} \/ l.op \in Rescores
      BY <1>1, <1>3, <3>2 DEF Frozen
    <3>5. PICK m : /\ m = Onto(l, n, pc) /\ LocalOK(m) /\ m.pc = pc /\ m.op = l.op
                   /\ m.run.checkpoint = n.checkpoint /\ m.run.scoring = n.scoring
      BY <1>2, <1>3, <3>2, <3>3, <3>4, WithRow
    <3>6. PICK q \in Locals :
             /\ q = [m EXCEPT !.stateV = known] /\ LocalOK(q)
             /\ q.pc = m.pc /\ q.op = m.op /\ q.run = m.run /\ q.req = m.req /\ q.sub = m.sub
             /\ q.cur = m.cur /\ q.rev = m.rev
      <4>1. LocalOK(m) /\ known \in Nat
        BY <3>5
      <4> QED
        BY <4>1, PostedOK
    <3>7. q = [With(t, r, pc) EXCEPT !.stateV = known]
      BY <3>2, <3>5, <3>6 DEF With, Onto
    <3>8. Hands(t, l.op, r, q)
      <4>1. /\ q.pc \notin Early /\ q.op = l.op
            /\ q.run.checkpoint = n.checkpoint /\ q.run.scoring = n.scoring
        BY <1>3, <3>5, <3>6
      <4> QED
        BY <3>2, <4>1 DEF Hands
    <3> QED
      BY <3>2, <3>6, <3>7, <3>8
  <2> QED
    BY <1>1, <1>2, <2>1, <2>2, FencedOK
<1>7. CASE ~(l.run.checkpoint = "events_appended" /\ l.run.frozen = "open")
  <2>1. /\ th' = [th EXCEPT ![t].stateV = known, ![t].pc = pc]
        /\ UNCHANGED <<m0, stores, browser, faults>>
    BY <1>7 DEF Inputs, Run
  <2>2. /\ UNCHANGED <<rows, current, lastReview>> /\ recorded' \subseteq Ops
        /\ faults' \in Nat /\ UNCHANGED <<stores, browser>>
    BY <2>1 DEF m0, Inv, RowsOK, StoresOK
  <2>3. Grows /\ StoresOK' /\ DOMAIN bundles' = DOMAIN bundles
    BY <2>2, StoresStill DEF stores
  <2>4. PICK m \in Locals : m = [l EXCEPT !.stateV = known, !.pc = pc]
    <3>1. [l EXCEPT !.stateV = known] \in Locals /\ pc \in Labels
      BY <1>3, PostedLocal
    <3> QED
      BY <3>1, PcLocal
  <2>5. /\ m.op = l.op /\ m.req = l.req /\ m.sub = l.sub /\ m.run = l.run
        /\ m.cur = l.cur /\ m.rev = l.rev /\ m.pc = pc
    BY <2>4 DEF Locals
  <2>6. th' = [th EXCEPT ![t] = m]
    BY <2>1, <2>4 DEF Inv, ThreadsOK
  <2>7. CASE pc = "fail"
    <3>1. LocalOK(m)
      BY <2>5, <2>7 DEF LocalOK, PlaceOK, BundlesOK, RunOK, EvidenceOK, Early, OpSuits, SubmitOnly,
         ReviewOnly, RescoreOnly, Updating, Either, Based, Scored
    <3>2. LocalOK(m)' /\ m.pc = "fail"
      BY <2>3, <2>5, <2>7, <3>1, LocalStill DEF Inv
    <3> QED
      BY <2>2, <2>3, <2>6, <3>2, GoOn DEF Early
  <2>8. CASE pc # "fail"
    <3>1. pc = "check" => l.run.base # NoRef
      <4>1. ASSUME pc = "check" PROVE l.run.frozen = "frozen"
        <5>1. CASE l.run.checkpoint \in Frozen
          BY <1>1, <5>1 DEF RowOK
        <5>2. CASE l.run.checkpoint = "events_appended"
          BY <1>1, <1>7, <5>2 DEF RowOK, Rows
        <5> QED
          BY <4>1, <5>1, <5>2
      <4> QED
        BY <1>1, <4>1 DEF RowOK
    <3>2. /\ m.pc \notin Early \cup {"fail", "post"} /\ OpSuits(m.pc, m.op)
          /\ m.pc \in Based => m.cur \in DOMAIN bundles'
          /\ m.pc \in Scored => m.rev \in DOMAIN bundles'
          /\ m.pc = "check" => l.run.base # NoRef
          /\ m.pc \in Updating /\ m.op = Submit => l.run.checkpoint \in Frozen \cup {"events_appended"}
      BY <1>1, <1>3, <2>3, <2>5, <2>8, <3>1
    <3> QED
      BY <1>2, <2>2, <2>3, <2>5, <2>6, <3>2, OnGo
  <2> QED
    BY <2>7, <2>8
<1> QED
  BY <1>6, <1>7

LEMMA SubmitInputsOK == ASSUME Inv, NEW t \in Threads, SubmitInputs(t) PROVE Inv'
<1>1. PICK l \in Locals : l = th[t] /\ LocalOK(l)
  BY Mine
<1>2. l.pc = "inputs" /\ l.op = Submit /\ Submit \notin Rescores /\ Submit \notin Reviews
  BY <1>1, Disjoint DEF SubmitInputs, At, Op
<1>3. l.run.checkpoint \in Frozen \cup {"events_appended"} /\ l.run.stateV \in Nat
  BY <1>1, <1>2 DEF LocalOK, RunOK, Updating, Locals, Rows
<1> DEFINE known == IF l.run.stateV # 0 THEN l.run.stateV
                    ELSE IF updates = <<>> THEN 0 ELSE updates[Len(updates)].v
<1>4. known \in Nat
  <2>1. ASSUME updates # <<>> PROVE updates[Len(updates)].v \in Nat
    <3>1. updates \in Seq(Update) /\ Len(updates) \in DOMAIN updates
      BY <2>1 DEF Inv, StoresOK
    <3>2. updates[Len(updates)] \in Update
      BY <3>1
    <3> QED
      BY <3>2 DEF Update
  <2> QED
    BY <1>3, <2>1
<1>5. OpSuits("check", l.op) /\ OpSuits("close", l.op)
  BY <1>2 DEF OpSuits, SubmitOnly, ReviewOnly, RescoreOnly, Updating, Either
<1>6. IF known = 0 THEN Inputs(t, 0, LatestBaseline, "check")
                   ELSE Inputs(t, known, NoBaseline, "close")
  BY <1>1 DEF SubmitInputs, Run
<1> HIDE DEF known
<1>7. CASE known = 0
  BY <1>1, <1>2, <1>3, <1>5, <1>6, <1>7, BaselinesOK, InputsOK
<1>8. CASE known # 0
  BY <1>1, <1>2, <1>3, <1>4, <1>5, <1>6, <1>8, BaselinesOK, InputsOK
<1> QED
  BY <1>7, <1>8

(* References that name no bundle and no baseline. *)
PlainRefs(refs) == refs \in RefRows /\ refs.scoring = NoRef /\ refs.base = NoRef /\ ~ refs.frozen

LEMMA PlainRefsFit ==
  /\ \A x \in Nat : PlainRefs([NoRefs EXCEPT !.stateV = x])
  /\ \A f \in BOOLEAN : PlainRefs([NoRefs EXCEPT !.report = TRUE, !.feedback = f])
  /\ PlainRefs([NoRefs EXCEPT !.policy = TRUE]) /\ PlainRefs([NoRefs EXCEPT !.feedback = TRUE])
  /\ PlainRefs([NoRefs EXCEPT !.report = TRUE]) /\ PlainRefs(NoRefs)
BY DEF NoRefs, RefRows, PlainRefs

LEMMA PlainRefsGood ==
  ASSUME NEW cp, cp # "scoring_saved", NEW refs, PlainRefs(refs) PROVE GoodRefs(cp, refs)
BY DEF GoodRefs, PlainRefs

LEMMA SubmitCloseOK == ASSUME Inv, NEW t \in Threads, SubmitClose(t) PROVE Inv'
<1>1. PICK l \in Locals : l = th[t] /\ LocalOK(l)
  BY Mine
<1>2. /\ l.pc = "close" /\ l.op = Submit
      /\ l.pc \notin Early /\ l.pc \notin Early \cup {"fail"} /\ l.rev \in DOMAIN bundles
  BY <1>1 DEF SubmitClose, At, Op, Early, LocalOK, BundlesOK, Scored, Updating
<1>3. l.run.checkpoint \in Frozen \cup {"events_appended"} /\ l.stateV \in Nat
  BY <1>1, <1>2 DEF LocalOK, RunOK, Updating, Locals
<1>4. CASE l.run.checkpoint = "events_appended"
  BY <1>1, <1>2, <1>4, OnlyFail DEF SubmitClose, Run
<1>5. CASE l.run.checkpoint # "events_appended"
  <2>1. PICK cp \in Frozen : cp = l.run.checkpoint
    BY <1>3, <1>5
  <2>2. PICK refs : refs = CASE cp = "state_inputs_frozen" -> [NoRefs EXCEPT !.stateV = l.stateV]
                             [] cp = "state_saved"         -> [NoRefs EXCEPT !.policy = TRUE]
                             [] cp = "tutoring_saved"      -> [NoRefs EXCEPT !.feedback = TRUE]
                             [] cp = "feedback_saved"      -> [NoRefs EXCEPT !.report = TRUE]
                             [] OTHER                      -> NoRefs
    OBVIOUS
  <2>3. PlainRefs(refs)
    <3>1. CASE cp = "state_inputs_frozen"
      BY <1>3, <2>2, <3>1, PlainRefsFit
    <3>2. CASE cp = "state_saved"
      BY <2>2, <3>2, PlainRefsFit
    <3>3. CASE cp = "tutoring_saved"
      BY <2>2, <3>3, PlainRefsFit
    <3>4. CASE cp = "feedback_saved"
      BY <2>2, <3>4, PlainRefsFit
    <3>5. CASE cp \notin {"state_inputs_frozen", "state_saved", "tutoring_saved", "feedback_saved"}
      BY <2>2, <3>5, PlainRefsFit
    <3> QED
      BY <3>1, <3>2, <3>3, <3>4, <3>5
  <2>4. PICK next : next = After.submit[cp]
    OBVIOUS
  <2>5. /\ next # "scoring_saved"
        /\ cp = "analytics_saved" => next = "completed"
        /\ cp # "analytics_saved" => next \in Frozen /\ next # "completed"
    BY <2>4 DEF After, Frozen
  <2>6. PICK pc : pc = IF cp = "analytics_saved" THEN "idle" ELSE "close"
    OBVIOUS
  <2>7. GoodRefs(next, refs)
    BY <2>3, <2>5, PlainRefsGood
  <2>8. Advance(t, next, refs, pc)
    BY <1>1, <1>5, <2>1, <2>2, <2>4, <2>6 DEF SubmitClose, Run
  <2>9. /\ pc \in Into \cup {"idle"}
        /\ IF pc = "idle" THEN next = "completed"
           ELSE /\ OpSuits(pc, l.op)
                /\ pc \in Based => l.cur \in DOMAIN bundles
                /\ pc \in Scored => l.rev \in DOMAIN bundles
                /\ next = "completed" => pc \in {"commit", "finish"} \/ l.op \in Rescores
                /\ pc \in Updating /\ l.op = Submit => next \in Frozen \cup {"events_appended"}
    BY <1>1, <1>2, <2>5, <2>6 DEF LocalOK, PlaceOK, Into, Labels, Early, Based
  <2> QED
    BY <1>1, <1>2, <2>7, <2>8, <2>9, AdvanceOK
<1> QED
  BY <1>4, <1>5

LEMMA CheckProcessedOK == ASSUME Inv, NEW t \in Threads, CheckProcessed(t) PROVE Inv'
<1>1. PICK l \in Locals : l = th[t] /\ LocalOK(l)
  BY Mine
<1>2. l.pc = "check" /\ l.pc \notin Early /\ l.op \in Ops /\ l.op \notin Rescores
  BY <1>1 DEF CheckProcessed, At, Early, LocalOK, PlaceOK, OpSuits, Updating
<1>3. CASE Rejected(bundles[l.rev]) \/ Keys(bundles[l.rev]) \subseteq Processed
  BY <1>1, <1>2, <1>3, OnlyFail DEF CheckProcessed, Rev
<1>4. CASE ~(Rejected(bundles[l.rev]) \/ Keys(bundles[l.rev]) \subseteq Processed)
  <2>1. Only(t, "post")
    BY <1>1, <1>4 DEF CheckProcessed, Rev
  <2>2. PICK m \in Locals : m = [l EXCEPT !.pc = "post"]
    BY PcLocal DEF Labels
  <2>3. /\ m.op = l.op /\ m.req = l.req /\ m.sub = l.sub /\ m.run = l.run
        /\ m.cur = l.cur /\ m.rev = l.rev /\ m.pc = "post"
    BY <2>2 DEF Locals
  <2>4. th' = [th EXCEPT ![t] = m]
    BY <1>1, <2>1, <2>2 DEF Only, Goto, Inv, ThreadsOK
  <2>5. LocalOK(m)
    <3>1. PlaceOK(m) /\ BundlesOK(m)
      BY <1>1, <1>2, <2>3 DEF LocalOK, PlaceOK, BundlesOK, OpSuits, SubmitOnly, ReviewOnly,
         RescoreOnly, Updating, Either, Based, Scored
    <3>2. RunOK(m)
      BY <1>1, <1>2, <2>3 DEF LocalOK, RunOK, Early, Updating
    <3>3. EvidenceOK(m)
      BY <1>4, <2>3 DEF EvidenceOK
    <3> QED
      BY <3>1, <3>2, <3>3 DEF LocalOK
  <2>6. /\ UNCHANGED <<rows, current, lastReview>> /\ recorded' \subseteq Ops
        /\ faults' \in Nat /\ UNCHANGED <<stores, browser>>
    BY <2>1 DEF Only, m0, Inv, RowsOK, StoresOK
  <2>7. StoresOK' /\ Grows
    BY <2>6, StoresStill
  <2>8. LocalOK(m)'
    BY <2>5, <2>7, LocalStill DEF Inv
  <2>9. /\ m.pc \notin Early /\ th[t].pc \notin Early \cup {"fail"}
        /\ m.op = th[t].op /\ m.run = th[t].run
    BY <1>1, <1>2, <2>3 DEF Early
  <2> QED
    BY <2>4, <2>6, <2>7, <2>8, <2>9, GoOn
<1> QED
  BY <1>3, <1>4

(* ... and gets as far as the next step or to the handler of exceptions. *)
LEMMA OnOrOut ==
  ASSUME Inv, NEW t \in Threads, NEW l, l = th[t], LocalOK(l),
         l.pc \notin Early \cup {"fail", "commit", "finish"},
         NEW m \in Locals, th' = [th EXCEPT ![t] = m],
         m.op = l.op, m.req = l.req, m.sub = l.sub, m.run = l.run,
         m.pc \notin Early \cup {"post"}, OpSuits(m.pc, m.op),
         m.pc \in Based => m.cur \in DOMAIN bundles', m.pc \in Scored => m.rev \in DOMAIN bundles',
         m.pc = "check" => l.run.base # NoRef,
         m.pc \in Updating /\ m.op = Submit => l.run.checkpoint \in Frozen \cup {"events_appended"},
         UNCHANGED <<rows, current, lastReview>>, recorded' \subseteq Ops, Grows, StoresOK'
  PROVE  Inv'
<1>1. CASE m.pc = "fail"
  <2>1. LocalOK(l)'
    BY LocalStill DEF Inv
  <2>2. RunOK(m)'
    BY <1>1, <2>1 DEF LocalOK, RunOK, Updating
  <2>3. LocalOK(m)'
    BY <1>1, <2>1, <2>2 DEF LocalOK, PlaceOK, BundlesOK, EvidenceOK, Early, Based, Scored, Updating
  <2> QED
    BY <1>1, <2>3, GoOn DEF Early
<1>2. CASE m.pc # "fail"
  <2>1. m.pc \notin Early \cup {"fail", "post"}
    BY <1>2
  <2> QED
    BY <2>1, OnGo
<1> QED
  BY <1>1, <1>2

SetPosted(t, v, pc) == th' = [th EXCEPT ![t].stateV = v, ![t].pc = pc]

LEMMA CloseOK ==
  ASSUME Inv, NEW t \in Threads, NEW l \in Locals, l = th[t], LocalOK(l), l.pc = "post",
         NEW v \in Nat, SetPosted(t, v, "close"), DOMAIN bundles' = DOMAIN bundles,
         UNCHANGED <<rows, current, lastReview>>, recorded' \subseteq Ops, Grows, StoresOK'
  PROVE  Inv'
<1>1. /\ l.pc \notin Early \cup {"fail", "commit", "finish"} /\ l.op \notin Rescores
      /\ l.rev \in DOMAIN bundles
      /\ l.op = Submit => l.run.checkpoint \in Frozen \cup {"events_appended"}
  BY DEF Early, LocalOK, PlaceOK, OpSuits, Updating, BundlesOK, RunOK, Scored
<1>2. PICK m \in Locals : m = [l EXCEPT !.stateV = v, !.pc = "close"]
  <2>1. [l EXCEPT !.stateV = v] \in Locals /\ "close" \in Labels
    BY PostedLocal DEF Labels
  <2> QED
    BY <2>1, PcLocal
<1>3. /\ m.op = l.op /\ m.req = l.req /\ m.sub = l.sub /\ m.run = l.run
      /\ m.cur = l.cur /\ m.rev = l.rev /\ m.pc = "close"
  BY <1>2 DEF Locals
<1>4. th' = [th EXCEPT ![t] = m]
  BY <1>2 DEF SetPosted, Inv, ThreadsOK
<1>5. /\ m.pc \notin Early \cup {"post"} /\ OpSuits(m.pc, m.op) /\ m.pc \notin Based
      /\ m.rev \in DOMAIN bundles' /\ m.pc # "check"
  BY <1>1, <1>3 DEF Early, OpSuits, SubmitOnly, ReviewOnly, RescoreOnly, Updating, Either, Based
<1> QED
  BY <1>1, <1>3, <1>4, <1>5, OnOrOut

LEMMA PostUpdateOK == ASSUME Inv, NEW t \in Threads, PostUpdate(t) PROVE Inv'
<1>1. PICK l \in Locals : l = th[t] /\ LocalOK(l)
  BY Mine
<1>2. /\ l.pc = "post" /\ l.pc \notin Early /\ l.pc \notin Early \cup {"fail", "commit", "finish"}
      /\ l.op \notin Rescores
  BY <1>1 DEF PostUpdate, At, Early, LocalOK, PlaceOK, OpSuits, Updating
<1>3. /\ l.rev \in DOMAIN bundles /\ l.rev \in Nat
      /\ l.op = Submit => l.run.checkpoint \in Frozen \cup {"events_appended"}
  BY <1>1, <1>2 DEF LocalOK, BundlesOK, RunOK, Scored, Updating, Locals
<1>4. PICK base \in Nat \X Nat : base = l.run.base
  BY <1>1, <1>2 DEF LocalOK, RunOK, Locals, Rows
<1>5. PICK mine \in Update : mine = [bundle |-> l.rev, v |-> UpdateV(base), base |-> base]
  <2>1. base[1] \in Nat
    OBVIOUS
  <2>2. UpdateV(base) \in Nat \ {0}
    BY <2>1 DEF UpdateV
  <2> QED
    BY <1>3, <2>2 DEF Update
<1>6. mine.v \in Nat /\ mine.bundle = l.rev
  BY <1>5 DEF Update
<1>7. UNCHANGED <<rows, current, lastReview, recorded, bundles, decisions, forms, today, faults>>
  BY DEF PostUpdate, m0, browser
<1>8. UNCHANGED <<rows, current, lastReview>> /\ recorded' \subseteq Ops
  BY <1>7 DEF Inv, RowsOK
<1>9. ASSUME SetPosted(t, mine.v, "close"), Grows, StoresOK'
      PROVE  Inv'
  <2>1. UNCHANGED <<rows, current, lastReview>> /\ DOMAIN bundles' = DOMAIN bundles
    BY <1>7
  <2> QED
    BY <1>1, <1>2, <1>3, <1>6, <1>8, <1>9, <2>1, CloseOK
<1>10. ASSUME UNCHANGED <<updates, classV>> PROVE Grows /\ StoresOK'
  BY <1>7, <1>10, StoresStill DEF stores, browser, Inv, StoresOK
<1>11. CASE UNCHANGED <<updates, classV>> /\ Goto(t, "fail")
  BY <1>1, <1>2, <1>7, <1>8, <1>10, <1>11, Raised
<1>12. CASE UNCHANGED <<updates, classV>> /\ SetPosted(t, mine.v, "close")
  BY <1>9, <1>10, <1>12
<1>13. CASE /\ updates' = Append(updates, mine) /\ classV' = classV + 1
            /\ SetPosted(t, mine.v, "close")
  <2>1. Grows
    BY <1>7, <1>13 DEF Grows
  <2>2. /\ updates \in Seq(Update) /\ classV \in Nat /\ Len(updates) <= classV
        /\ \A i \in DOMAIN updates : updates[i].bundle \in DOMAIN bundles
    BY DEF Inv, StoresOK
  <2>3. /\ updates' \in Seq(Update) /\ classV' \in Nat /\ Len(updates') <= classV'
        /\ \A i \in DOMAIN updates' : updates'[i].bundle \in DOMAIN bundles'
    BY <1>3, <1>6, <1>7, <1>13, <2>2
  <2>4. StoresOK'
    BY <1>7, <2>3 DEF Inv, StoresOK
  <2> QED
    BY <1>9, <1>13, <2>1, <2>4
<1> QED
  BY <1>1, <1>4, <1>5, <1>11, <1>12, <1>13 DEF PostUpdate, Run, SetPosted
-----------------------------------------------------------------------------
(* review *)

LEMMA ReviewBaseOK == ASSUME Inv, NEW t \in Threads, ReviewBase(t) PROVE Inv'
<1>1. PICK l \in Locals : l = th[t] /\ LocalOK(l)
  BY Mine
<1>2. /\ l.pc = "base" /\ l.pc \notin Early /\ l.pc \notin Early \cup {"fail", "commit", "finish"}
      /\ l.op \in Reviews
  BY <1>1 DEF ReviewBase, At, Early, LocalOK, PlaceOK, OpSuits, ReviewOnly
<1>3. /\ UNCHANGED <<rows, current, lastReview, faults>> /\ UNCHANGED <<stores, browser>>
      /\ recorded' \subseteq Ops /\ faults' \in Nat
  BY DEF ReviewBase, m0, Inv, RowsOK, StoresOK
<1>4. StoresOK' /\ Grows /\ DOMAIN bundles' = DOMAIN bundles
  BY <1>3, StoresStill DEF stores
<1>5. PICK run : run = EffectiveBut(l.op)
  OBVIOUS
<1>6. CASE run = NoRequest
  BY <1>1, <1>2, <1>3, <1>4, <1>5, <1>6, Raised DEF ReviewBase, Op
<1>7. CASE run # NoRequest
  <2>1. rows[run].scoring \in DOMAIN bundles /\ rows[run].stateV \in Nat
    BY <1>5, <1>7, EffectiveOK
  <2>2. rows[run].scoring \in Nat
    BY <2>1, BundleFacts
  <2>3. PICK m \in Locals : m = [l EXCEPT !.cur = rows[run].scoring, !.curV = rows[run].stateV, !.pc = "decide"]
    <3>1. PICK x \in Locals : x = [l EXCEPT !.cur = rows[run].scoring]
      BY <2>2, CurLocal
    <3>2. PICK y \in Locals : y = [x EXCEPT !.curV = rows[run].stateV]
      BY <2>1, CurVLocal
    <3>3. [y EXCEPT !.pc = "decide"] \in Locals
      BY PcLocal DEF Labels
    <3> QED
      BY <3>1, <3>2, <3>3
  <2>4. /\ m.op = l.op /\ m.req = l.req /\ m.sub = l.sub /\ m.run = l.run
        /\ m.cur = rows[run].scoring /\ m.pc = "decide"
    BY <2>3 DEF Locals
  <2>5. th' = [th EXCEPT ![t] = m]
    BY <1>1, <1>5, <1>7, <2>3 DEF ReviewBase, Op, Inv, ThreadsOK
  <2>6. /\ m.pc \notin Early \cup {"post"} /\ OpSuits(m.pc, m.op) /\ m.pc \notin Scored
        /\ m.pc \notin Updating /\ m.pc # "check" /\ m.cur \in DOMAIN bundles'
    BY <1>2, <1>4, <2>1, <2>4 DEF Early, OpSuits, SubmitOnly, ReviewOnly, RescoreOnly, Updating, Either, Scored
  <2> QED
    BY <1>1, <1>2, <1>3, <1>4, <2>4, <2>5, <2>6, OnOrOut
<1> QED
  BY <1>6, <1>7

LEMMA DecideOK == ASSUME Inv, NEW t \in Threads, Decide(t) PROVE Inv'
<1>1. PICK l \in Locals : l = th[t] /\ LocalOK(l)
  BY Mine
<1>2. /\ l.pc = "decide" /\ l.pc \notin Early /\ l.pc \notin Early \cup {"fail", "commit", "finish"}
      /\ l.op \in Reviews /\ l.cur \in DOMAIN bundles
  BY <1>1 DEF Decide, At, Early, LocalOK, PlaceOK, OpSuits, ReviewOnly, BundlesOK, Based
<1>3. /\ UNCHANGED <<rows, current, lastReview, recorded, bundles, updates, classV, forms, today, faults>>
      /\ recorded' \subseteq Ops
  BY DEF Decide, m0, browser, Inv, RowsOK
<1>4. Grows
  BY <1>3 DEF Grows
<1>5. PICK pc \in {"decided", "fail"} :
        /\ Goto(t, pc) /\ decisions' \subseteq Reviews
  BY <1>1, <1>2 DEF Decide, Op, Inv, StoresOK
<1>6. StoresOK'
  BY <1>3, <1>5 DEF Inv, StoresOK
<1>7. PICK m \in Locals : m = [l EXCEPT !.pc = pc]
  BY PcLocal DEF Labels
<1>8. /\ m.op = l.op /\ m.req = l.req /\ m.sub = l.sub /\ m.run = l.run
      /\ m.cur = l.cur /\ m.pc = pc
  BY <1>7 DEF Locals
<1>9. th' = [th EXCEPT ![t] = m]
  BY <1>1, <1>5, <1>7 DEF Goto, Inv, ThreadsOK
<1>10. /\ m.pc \notin Early \cup {"post"} /\ OpSuits(m.pc, m.op) /\ m.pc \notin Scored
       /\ m.pc \notin Updating /\ m.pc # "check" /\ m.cur \in DOMAIN bundles'
  BY <1>2, <1>3, <1>8 DEF Early, OpSuits, SubmitOnly, ReviewOnly, RescoreOnly, Updating, Either, Scored
<1> QED
  BY <1>1, <1>2, <1>3, <1>4, <1>6, <1>8, <1>9, <1>10, OnOrOut

LEMMA DecisionSavedOK == ASSUME Inv, NEW t \in Threads, DecisionSaved(t) PROVE Inv'
<1>1. PICK l \in Locals : l = th[t] /\ LocalOK(l)
  BY Mine
<1>2. /\ l.pc = "decided" /\ l.pc \notin Early \cup {"fail", "commit", "finish"}
      /\ l.op \in Reviews /\ l.cur \in DOMAIN bundles
  BY <1>1 DEF DecisionSaved, At, Early, LocalOK, PlaceOK, OpSuits, ReviewOnly, BundlesOK, Based
<1>3. OpSuits("lookup", l.op) /\ "lookup" \notin Scored \cup Updating
  BY <1>2 DEF OpSuits, SubmitOnly, ReviewOnly, RescoreOnly, Updating, Either, Scored
<1>4. CASE Advance(t, "decision_saved", NoRefs, "lookup")
  <2>1. "lookup" \in Into \cup {"idle"}
    BY DEF Into, Labels, Early
  <2> QED
    BY <1>1, <1>2, <1>3, <1>4, <2>1, NoRefsFit, AdvanceOK
<1>5. CASE Only(t, "lookup")
  <2>1. "lookup" \in Labels \ (Early \cup {"fail", "post"})
    BY DEF Labels, Early
  <2> QED
    BY <1>1, <1>2, <1>3, <1>5, <2>1, OnlyOK
<1> QED
  BY <1>4, <1>5 DEF DecisionSaved

LEMMA LookupOK == ASSUME Inv, NEW t \in Threads, Lookup(t) PROVE Inv'
<1>1. PICK l \in Locals : l = th[t] /\ LocalOK(l)
  BY Mine
<1>2. /\ l.pc = "lookup" /\ l.pc \notin Early \cup {"fail", "commit", "finish"}
      /\ l.op \in Reviews /\ l.cur \in DOMAIN bundles
  BY <1>1 DEF Lookup, At, Early, LocalOK, PlaceOK, OpSuits, ReviewOnly, BundlesOK, Based
<1>3. /\ UNCHANGED <<rows, current, lastReview, faults>> /\ UNCHANGED <<stores, browser>>
      /\ recorded' \subseteq Ops /\ faults' \in Nat
  BY DEF Lookup, m0, Inv, RowsOK, StoresOK
<1>4. StoresOK' /\ Grows /\ DOMAIN bundles' = DOMAIN bundles
  BY <1>3, StoresStill DEF stores
<1>5. PICK ex \in Nat : ex = Expected(t)
  BY <1>1, <1>2 DEF Expected, Op, Inv, StoresOK
<1>6. PICK found : found = IF Run(t).scoring # NoRef THEN Run(t).scoring
                           ELSE FirstWith(bundles, Audit(t), Expected(t) + 1)
  OBVIOUS
<1>7. found \in DOMAIN bundles \cup {NoBundle}
  <2>1. Run(t).scoring # NoRef => Run(t).scoring \in DOMAIN bundles
    BY <1>1 DEF LocalOK, RunOK, RefsOK, Run
  <2>2. FirstWith(bundles, Audit(t), Expected(t) + 1) \in DOMAIN bundles \cup {NoBundle}
    BY <1>5, FirstWithOK
  <2> QED
    BY <1>6, <2>1, <2>2
<1>8. PICK x \in DOMAIN bundles : x = IF found # NoBundle THEN found ELSE l.cur
  BY <1>2, <1>7
<1>9. PICK rev, pc :
        /\ th' = [th EXCEPT ![t].rev = rev, ![t].pc = pc]
        /\ rev \in DOMAIN bundles \cup {NoBundle}
        /\ pc \in {"apply", "reviewed", "fail"}
        /\ pc = "reviewed" => rev \in DOMAIN bundles
  <2>1. PICK v : v = Version(bundles[x], Audit(t))
    OBVIOUS
  <2>2. PICK rev : rev = IF v = Expected(t) THEN found ELSE x
    OBVIOUS
  <2>3. PICK pc \in {"apply", "reviewed", "fail"} :
          /\ pc = IF v = Expected(t) /\ found = NoBundle THEN "apply"
                  ELSE IF /\ v = Expected(t) + 1
                          /\ Latest(bundles[x], Audit(t)) = [status |-> Verdict[Op(t)], by |-> Op(t)]
                       THEN "reviewed" ELSE "fail"
    OBVIOUS
  <2>4. th' = [th EXCEPT ![t].rev = rev, ![t].pc = pc]
    BY <1>1, <1>6, <1>8, <2>1, <2>2, <2>3 DEF Lookup
  <2>5. pc = "reviewed" => v # Expected(t)
    BY <1>5, <2>3
  <2> QED
    BY <1>7, <2>2, <2>3, <2>4, <2>5
<1>10. rev \in Nat
  BY <1>9, BundleFacts DEF NoBundle
<1>11. PICK m \in Locals : m = [l EXCEPT !.rev = rev, !.pc = pc]
  <2>1. [l EXCEPT !.rev = rev] \in Locals /\ pc \in Labels
    BY <1>9, <1>10, RevLocal DEF Labels
  <2> QED
    BY <2>1, PcLocal
<1>12. /\ m.op = l.op /\ m.req = l.req /\ m.sub = l.sub /\ m.run = l.run
       /\ m.cur = l.cur /\ m.rev = rev /\ m.pc = pc
  BY <1>11 DEF Locals
<1>13. th' = [th EXCEPT ![t] = m]
  BY <1>1, <1>9, <1>11 DEF Inv, ThreadsOK
<1>14. /\ m.pc \notin Early \cup {"post"} /\ OpSuits(m.pc, m.op) /\ m.pc \notin Updating /\ m.pc # "check"
       /\ m.pc \in Scored => m.rev \in DOMAIN bundles'
       /\ m.cur \in DOMAIN bundles'
  BY <1>2, <1>4, <1>9, <1>12, Disjoint DEF Early, OpSuits, SubmitOnly, ReviewOnly, RescoreOnly, Updating, Either,
     Scored
<1> QED
  BY <1>1, <1>2, <1>3, <1>4, <1>12, <1>13, <1>14, OnOrOut

LEMMA AppendedOK ==
  ASSUME NEW b \in Bundle, NEW a \in Audits, NEW status \in {"pending", "approved", "rejected"},
         NEW by \in Ops, NEW at \in Nat
  PROVE  Appended(b, a, status, by, at) \in Bundle /\ Appended(b, a, status, by, at).at = at
<1>1. PICK rec \in AuditRecord : rec = [status |-> status, by |-> by]
  BY DEF AuditRecord
<1>2. b.hist \in [Audits -> Seq(AuditRecord)]
  BY DEF Bundle
<1>3. PICK h : h = [b.hist EXCEPT ![a] = Append(@, rec)]
  OBVIOUS
<1>4. h \in [Audits -> Seq(AuditRecord)]
  <2>1. Append(b.hist[a], rec) \in Seq(AuditRecord)
    BY <1>2
  <2> QED
    BY <1>2, <1>3, <2>1
<1>5. Appended(b, a, status, by, at) = [hist |-> h, at |-> at]
  BY <1>1, <1>3 DEF Appended
<1> QED
  BY <1>4, <1>5 DEF Bundle

LEMMA ApplyOK ==
  ASSUME Inv, NEW t \in Threads, NEW l \in Locals, l = th[t], LocalOK(l), l.pc = "apply",
         NEW status \in {"pending", "approved", "rejected"}, NEW at \in Nat, Apply(t, status, at),
         UNCHANGED <<rows, current, lastReview, recorded, decisions, updates, classV, forms, faults>>,
         IF bundles' = bundles THEN today' = today
         ELSE today' \in Nat /\ at <= today' /\ today <= today'
  PROVE  Inv'
<1>1. /\ l.pc \notin Early /\ l.pc \notin Early \cup {"fail", "commit", "finish"} /\ l.op \in Ops \ {Submit}
      /\ l.cur \in DOMAIN bundles
  BY DEF Early, LocalOK, PlaceOK, OpSuits, Either, BundlesOK, Based
<1>2. OpSuits("reviewed", l.op)
  BY <1>1 DEF OpSuits, SubmitOnly, ReviewOnly, RescoreOnly, Updating, Either
<1>3. l.op \in Reviews \cup Rescores /\ Audit(t) \in Audits
  BY <1>1, Forms DEF Ops, Audit, Op
<1>4. PICK new \in Bundle :
        new = Appended(bundles[l.cur], Audit(t), status, l.op, at) /\ new.at = at
  <2>1. bundles[l.cur] \in Bundle /\ Audit(t) \in Audits /\ l.op \in Ops
    BY <1>1, <1>3, BundleFacts
  <2> QED
    BY <2>1, AppendedOK
<1>5. PICK found : found = CHOOSE i \in SameKey(bundles, new) : TRUE
  OBVIOUS
<1>6. \/ /\ IsReplay(bundles, new) /\ UNCHANGED bundles
         /\ SetRev(t, found, "reviewed")
      \/ bundles' = Append(bundles, new) /\ SetRev(t, Len(bundles) + 1, "reviewed")
      \/ UNCHANGED bundles /\ Goto(t, "fail")
  BY <1>4, <1>5 DEF Apply, Op, SetRev
<1>7. recorded' \subseteq Ops /\ UNCHANGED <<rows, current, lastReview, recorded>>
  BY DEF Inv, RowsOK
<1>8. ASSUME UNCHANGED bundles PROVE StoresOK' /\ Grows
  BY <1>8, StoresStill DEF stores, browser, Inv, StoresOK
<1>9. CASE IsReplay(bundles, new) /\ UNCHANGED bundles /\ SetRev(t, found, "reviewed")
  <2>1. found \in DOMAIN bundles
    BY <1>5, <1>9 DEF IsReplay, SameKey
  <2>2. found \in Nat /\ found \in DOMAIN bundles'
    BY <1>9, <2>1, BundleFacts
  <2> QED
    BY <1>1, <1>2, <1>7, <1>8, <1>9, <2>2, RevSet
<1>10. CASE bundles' = Append(bundles, new) /\ SetRev(t, Len(bundles) + 1, "reviewed")
  <2>1. bundles' # bundles
    <3>1. bundles \in Seq(Bundle)
      BY BundleFacts
    <3>2. Len(bundles') = Len(bundles) + 1 /\ Len(bundles) \in Nat
      BY <1>10, <3>1
    <3> QED
      BY <3>2
  <2>2. today' \in Nat /\ new.at <= today' /\ today <= today'
    BY <1>4, <2>1
  <2>3. StoresOK' /\ Grows /\ Len(bundles) + 1 \in DOMAIN bundles'
    BY <1>10, <2>2, Appends
  <2>4. Len(bundles) + 1 \in Nat
    BY BundleFacts
  <2> QED
    BY <1>1, <1>2, <1>7, <1>10, <2>3, <2>4, RevSet
<1>11. CASE UNCHANGED bundles /\ Goto(t, "fail")
  BY <1>1, <1>7, <1>8, <1>11, Raised
<1> QED
  BY <1>6, <1>9, <1>10, <1>11

LEMMA ApplyReviewOK == ASSUME Inv, NEW t \in Threads, ApplyReview(t) PROVE Inv'
<1>1. PICK l \in Locals : l = th[t] /\ LocalOK(l)
  BY Mine
<1>2. l.pc = "apply" /\ l.op \in Reviews /\ today \in Nat
  BY <1>1 DEF ApplyReview, At, Op, Inv, StoresOK
<1>3. Verdict[l.op] \in {"pending", "approved", "rejected"}
  BY <1>2, Forms
<1>4. forms[l.op].at \in Nat /\ forms[l.op].at <= today
  BY <1>2 DEF Inv, StoresOK
<1>5. /\ UNCHANGED <<rows, current, lastReview, recorded, decisions, updates, classV, forms, faults>>
      /\ today' = today
  BY DEF ApplyReview, m0, browser
<1>6. Apply(t, Verdict[l.op], forms[l.op].at)
  BY <1>1 DEF ApplyReview, Op
<1>7. IF bundles' = bundles THEN today' = today
      ELSE today' \in Nat /\ forms[l.op].at <= today' /\ today <= today'
  BY <1>2, <1>4, <1>5
<1> QED
  BY <1>1, <1>2, <1>3, <1>4, <1>5, <1>6, <1>7, ApplyOK

LEMMA ReviewSavedOK == ASSUME Inv, NEW t \in Threads, ReviewSaved(t) PROVE Inv'
<1>1. PICK l \in Locals : l = th[t] /\ LocalOK(l)
  BY Mine
<1>2. /\ l.pc = "reviewed" /\ l.pc \notin Early \cup {"fail", "commit", "finish"}
      /\ l.op \in Reviews /\ l.rev \in DOMAIN bundles /\ l.rev \in Nat
  BY <1>1, BundleFacts DEF ReviewSaved, At, Op, Early, LocalOK, BundlesOK, Scored
<1>3. OpSuits("branch", l.op) /\ "branch" \notin Updating \cup Based
  BY <1>2 DEF OpSuits, SubmitOnly, ReviewOnly, RescoreOnly, Updating, Either, Based
<1>4. CASE Advance(t, "review_saved", [NoRefs EXCEPT !.scoring = l.rev], "branch")
  <2>1. "branch" \in Into \cup {"idle"}
    BY DEF Into, Labels, Early
  <2>2. GoodRefs("review_saved", [NoRefs EXCEPT !.scoring = l.rev])
    BY <1>2, ScoringRefs
  <2> QED
    BY <1>1, <1>2, <1>3, <1>4, <2>1, <2>2, AdvanceOK
<1>5. CASE Only(t, "branch")
  <2>1. "branch" \in Labels \ (Early \cup {"fail", "post"})
    BY DEF Labels, Early
  <2> QED
    BY <1>1, <1>2, <1>3, <1>5, <2>1, OnlyOK
<1> QED
  BY <1>1, <1>4, <1>5 DEF ReviewSaved

(* A review takes the waiting submission over; its own run stays as it is. *)
LEMMA ResumeSubmitOK ==
  ASSUME Inv, NEW t \in Threads, NEW l \in Locals, l = th[t], LocalOK(l), l.op \in Reviews,
         l.pc \in {"branch", "commit"}, NEW owner \in Workers,
         NEW pc \in {"park", "finish"}, l.pc = "commit" => pc = "finish",
         ResumeSubmit(t, owner, pc)
  PROVE  Inv'
<1>1. /\ l.pc \notin Early /\ l.pc \notin Early \cup {"fail"} /\ l.pc \notin {"idle", "read", "record"}
      /\ l.rev \in DOMAIN bundles
      /\ l.op # Submit /\ l.op \notin Rescores /\ Submit \in Ops
  BY Disjoint DEF Early, LocalOK, BundlesOK, Scored, Ops
<1>2. UNCHANGED <<recorded, faults>> /\ UNCHANGED <<stores, browser>> /\ recorded' \subseteq Ops /\ faults' \in Nat
  BY DEF ResumeSubmit, Inv, RowsOK, StoresOK
<1>3. CASE rows[Submit].status \in WaitingStatuses
  <2>1. PICK row : row = rows[Submit] /\ RowOK(Submit, row) /\ row.status \in WaitingStatuses
    BY <1>1, <1>3 DEF Inv, RowsOK
  <2>2. PICK r : r = Resumed(row, owner, 2) /\ RowOK(Submit, r)
    BY <1>1, <2>1, ResumedRow
  <2>3. PICK m \in Locals : m = [l EXCEPT !.pc = pc]
    BY PcLocal DEF Labels
  <2>4. /\ m.op = l.op /\ m.req = l.req /\ m.sub = l.sub /\ m.run = l.run
        /\ m.cur = l.cur /\ m.rev = l.rev /\ m.pc = pc
    BY <2>3 DEF Locals
  <2>5. RunOK(m)
    BY <1>1, <2>4 DEF LocalOK, RunOK, Updating, Early
  <2>6. m.pc \notin Early \cup {"post"} /\ OpSuits(m.pc, m.op) /\ m.pc \notin Based /\ m.rev \in DOMAIN bundles
    BY <1>1, <2>4 DEF Early, OpSuits, SubmitOnly, ReviewOnly, RescoreOnly, Updating, Either, Based
  <2>7. LocalOK(m)
    BY <1>1, <2>4, <2>5, <2>6, Onward
  <2>8. Commit(t, Submit, r, m)
    BY <1>3, <2>1, <2>2, <2>3 DEF ResumeSubmit
  <2>9. Hands(t, Submit, r, m) /\ rows[Submit].status # "completed"
    BY <1>1, <2>1, <2>4, <2>6 DEF Hands, WaitingStatuses
  <2> QED
    BY <1>1, <1>2, <2>2, <2>7, <2>8, <2>9, CommitOK
<1>4. CASE rows[Submit].status \notin WaitingStatuses
  <2>1. UNCHANGED <<rows, current, lastReview>> /\ Goto(t, "fail")
    BY <1>4 DEF ResumeSubmit
  <2> QED
    BY <1>1, <1>2, <2>1, StoresStill, Raised
<1> QED
  BY <1>3, <1>4

LEMMA BranchOK == ASSUME Inv, NEW t \in Threads, Branch(t) PROVE Inv'
<1>1. PICK l \in Locals : l = th[t] /\ LocalOK(l)
  BY Mine
<1>2. /\ l.pc = "branch" /\ l.pc \notin Early \cup {"fail", "commit", "finish"}
      /\ l.op \in Reviews /\ l.op # Submit /\ l.rev \in DOMAIN bundles
  BY <1>1, Disjoint DEF Branch, At, Early, LocalOK, PlaceOK, BundlesOK, OpSuits, ReviewOnly, Scored
<1>3. OpSuits("inputs", l.op) /\ "inputs" \notin Based
  BY <1>2, Disjoint DEF OpSuits, SubmitOnly, ReviewOnly, RescoreOnly, Updating, Either, Based
<1>4. CASE Only(t, "inputs")
  <2>1. "inputs" \in Labels \ (Early \cup {"fail", "post"})
    BY DEF Labels, Early
  <2> QED
    BY <1>1, <1>2, <1>3, <1>4, <2>1, OnlyOK
<1>5. CASE ResumeSubmit(t, "review:", "park")
  <2>1. "review:" \in Workers
    BY DEF Workers
  <2> QED
    BY <1>1, <1>2, <1>5, <2>1, ResumeSubmitOK
<1>6. CASE Advance(t, "events_appended", NoRefs, "inputs")
  <2>1. "inputs" \in Into \cup {"idle"}
    BY DEF Into, Labels, Early
  <2> QED
    BY <1>1, <1>2, <1>3, <1>6, <2>1, NoRefsFit, AdvanceOK
<1> QED
  BY <1>4, <1>5, <1>6 DEF Branch

LEMMA ParkReviewedOK == ASSUME Inv, NEW t \in Threads, ParkReviewed(t) PROVE Inv'
<1>1. PICK l \in Locals : l = th[t] /\ LocalOK(l)
  BY Mine
<1>2. /\ l.pc = "park" /\ l.pc \notin Early /\ l.pc \notin {"idle", "read", "record"}
      /\ l.op \in Reviews /\ l.op # Submit /\ l.op \notin Rescores
      /\ l.rev \in DOMAIN bundles /\ l.rev \in Nat
  BY <1>1, BundleFacts, Disjoint DEF ParkReviewed, At, Op, Early, LocalOK, BundlesOK, Scored
<1>3. PICK m \in Locals : m = [l EXCEPT !.pc = "undecided"]
  BY PcLocal DEF Labels
<1>4. /\ m.op = l.op /\ m.req = l.req /\ m.sub = l.sub /\ m.run = l.run
      /\ m.cur = l.cur /\ m.rev = l.rev /\ m.pc = "undecided"
  BY <1>3 DEF Locals
<1>5. RunOK(m)
  BY <1>1, <1>2, <1>4 DEF LocalOK, RunOK, Updating, Early
<1>6. m.pc \notin Early \cup {"post"} /\ OpSuits(m.pc, m.op) /\ m.pc \notin Based /\ m.rev \in DOMAIN bundles
  BY <1>2, <1>4 DEF Early, OpSuits, SubmitOnly, ReviewOnly, RescoreOnly, Updating, Either, Based
<1>7. LocalOK(m)
  BY <1>1, <1>2, <1>4, <1>5, <1>6, Onward
<1>8. Fenced(t, Submit, TRUE, Parked(rows[Submit], WaitingFor(Rev(t)), FALSE, NoRef, l.rev), m)
  BY <1>1, <1>3 DEF ParkReviewed
<1>9. FALSE \in BOOLEAN /\ NoRef \in (Nat \X Nat) \cup {NoRef} /\ l.rev # NoRef
  BY <1>2, Nulls
<1>10. m.pc \notin Early /\ m.op # Submit /\ m.op = th[t].op /\ m.run = th[t].run /\ th[t].pc # "fail"
  BY <1>1, <1>2, <1>4, <1>6
<1> QED
  BY <1>1, <1>2, <1>7, <1>8, <1>9, <1>10, ParkOK

LEMMA FinishUndecidedOK == ASSUME Inv, NEW t \in Threads, FinishUndecided(t) PROVE Inv'
<1>1. PICK l \in Locals : l = th[t] /\ LocalOK(l)
  BY Mine
<1>2. /\ l.pc = "undecided" /\ l.pc \notin Early /\ l.op \in Ops /\ KindOf(l.op) = "review"
  BY <1>1, Disjoint DEF FinishUndecided, At, Early, LocalOK, PlaceOK, OpSuits, ReviewOnly, Ops, KindOf
<1>3. PICK row : row = rows[l.op] /\ RowOK(l.op, row)
  BY <1>2 DEF Inv, RowsOK
<1>4. PICK r : r = Finished(row, NoRefs)
  OBVIOUS
<1>5. Fenced(t, l.op, ValidRow("review", r), r, Idle)
  BY <1>1, <1>3, <1>4 DEF FinishUndecided, Op
<1>6. PICK refs \in RefRows : refs = NoRefs /\ refs.scoring = NoRef
  BY NoRefsFit DEF NoRefs
<1>7. ASSUME row.status = "running", ValidRow("review", r)
      PROVE  RowOK(l.op, r) /\ r.owner = NoOwner
  <2>1. r = Finished(row, refs) /\ ValidRow(KindOf(l.op), Finished(row, refs))
    BY <1>2, <1>4, <1>6, <1>7
  <2> QED
    BY <1>2, <1>3, <1>6, <1>7, <2>1, FinishedRow DEF RefRows
<1>8. rows[l.op].status = "running" /\ ValidRow("review", r) =>
         RowOK(l.op, r) /\ LocalOK(Idle) /\ Hands(t, l.op, r, Idle)
  BY <1>3, <1>7, IdleOK DEF Hands
<1> QED
  BY <1>1, <1>2, <1>5, <1>8, FencedOK

LEMMA ReviewInputsOK == ASSUME Inv, NEW t \in Threads, ReviewInputs(t) PROVE Inv'
<1>1. PICK l \in Locals : l = th[t] /\ LocalOK(l)
  BY Mine
<1>2. l.pc = "inputs" /\ l.op \in Reviews /\ l.op # Submit /\ l.op \notin Rescores
  BY <1>1, Disjoint DEF ReviewInputs, At, Op
<1> DEFINE rejected == Rejected(Rev(t))
           posted == {updates[i].v : i \in {j \in DOMAIN updates :
                                               KeyOf(t) \in Keys(bundles[updates[j].bundle])}}
           least == CHOOSE v \in posted : \A w \in posted : v <= w
           known == IF Run(t).stateV # 0 THEN Run(t).stateV
                    ELSE IF rejected \/ posted = {} THEN 0 ELSE least
           kept == IF known # 0 THEN known ELSE IF Waits(th[t].sub.status) THEN 0 ELSE th[t].curV
           next == IF ~ (Run(t).checkpoint \in {"events_appended", "state_inputs_frozen"}) THEN "fail"
                   ELSE IF th[t].retry THEN "rebase" ELSE "check"
<1>3. \/ Inputs(t, kept, LatestBaseline, IF kept = 0 THEN "fail" ELSE "close")
      \/ Inputs(t, known, LatestBaseline, "close")
      \/ Inputs(t, known, LatestBaseline, next)
  BY Zenon DEF ReviewInputs
<1>4. posted \in SUBSET Nat
  <2>1. \A i \in DOMAIN updates : updates[i] \in Update
    BY DEF Inv, StoresOK
  <2>2. \A i \in DOMAIN updates : updates[i].v \in Nat
    BY <2>1 DEF Update
  <2> QED
    BY <2>2
<1> HIDE DEF posted, rejected
<1>5. ASSUME posted # {} PROVE least \in Nat
  <2>1. \E v \in posted : \A w \in posted : v <= w
    BY <1>4, <1>5, LeastExists
  <2> QED
    BY <1>4, <2>1
<1> HIDE DEF least
<1>6. l.run.stateV \in Nat /\ l.curV \in Nat
  BY DEF Locals, Rows
<1>7. known \in Nat
  BY <1>1, <1>5, <1>6 DEF Run
<1> HIDE DEF known
<1>8. kept \in Nat
  BY <1>1, <1>6, <1>7
<1>9. /\ next \in {"fail", "rebase", "check"}
      /\ next = "check" => l.run.checkpoint \in Frozen \cup {"events_appended"}
  BY <1>1 DEF Run, Frozen
<1> HIDE DEF kept, next
<1>10. PICK k \in Nat, pc \in {"check", "close", "fail", "rebase"} :
         /\ Inputs(t, k, LatestBaseline, pc)
         /\ pc = "check" => l.run.checkpoint \in Frozen \cup {"events_appended"}
  <2>1. CASE Inputs(t, kept, LatestBaseline, IF kept = 0 THEN "fail" ELSE "close")
    BY <1>8, <2>1
  <2>2. CASE Inputs(t, known, LatestBaseline, "close")
    BY <1>7, <2>2
  <2>3. CASE Inputs(t, known, LatestBaseline, next)
    BY <1>7, <1>9, <2>3
  <2> QED
    BY <1>3, <2>1, <2>2, <2>3
<1>11. OpSuits(pc, l.op)
  BY <1>2 DEF OpSuits, SubmitOnly, ReviewOnly, RescoreOnly, Updating, Either
<1>12. LatestBaseline \in Nat \X Nat /\ BaseOK(LatestBaseline)
  BY BaselinesOK
<1> QED
  BY <1>1, <1>2, <1>10, <1>11, <1>12, InputsOK

LEMMA RebaseReviewOK == ASSUME Inv, NEW t \in Threads, RebaseReview(t) PROVE Inv'
<1>1. PICK l \in Locals : l = th[t] /\ LocalOK(l)
  BY Mine
<1>2. /\ l.pc = "rebase" /\ l.pc \notin Early /\ l.pc \notin {"idle", "read", "record"}
      /\ l.op \in Reviews /\ l.op \in Ops /\ l.op # Submit /\ l.rev \in DOMAIN bundles
  BY <1>1, Disjoint DEF RebaseReview, At, Early, LocalOK, PlaceOK, BundlesOK, OpSuits, ReviewOnly, Scored, Ops
<1>3. PICK row : row = rows[l.op] /\ RowOK(l.op, row)
  BY <1>2 DEF Inv, RowsOK
<1>4. PICK base \in Nat \X Nat : base = LatestBaseline /\ BaseOK(base) /\ base # NoRef
  BY BaselinesOK, Nulls
<1>5. PICK r : r = Rebased(row, base)
  OBVIOUS
<1>6. Fenced(t, l.op, CanRebase("review", row), r, With(t, r, "check"))
  BY <1>1, <1>3, <1>4, <1>5 DEF RebaseReview, Op
<1>7. ASSUME row.status = "running", CanRebase("review", row)
      PROVE  RowOK(l.op, r) /\ LocalOK(With(t, r, "check")) /\ Hands(t, l.op, r, With(t, r, "check"))
  <2>1. row.frozen = "frozen"
    BY <1>7 DEF CanRebase
  <2>2. RowOK(l.op, r) /\ r.base = base /\ r.status = "running"
    BY <1>2, <1>3, <1>4, <1>5, <1>7, <2>1, RebasedRow
  <2>3. /\ "check" \in Labels \ (Early \cup {"post"}) /\ OpSuits("check", l.op) /\ "check" \notin Based
    BY <1>2, Disjoint DEF Labels, Early, OpSuits, SubmitOnly, ReviewOnly, RescoreOnly, Updating, Either, Based
  <2>4. PICK m : /\ m = Onto(l, r, "check") /\ LocalOK(m) /\ m.pc = "check" /\ m.op = l.op
                 /\ m.run.checkpoint = r.checkpoint /\ m.run.scoring = r.scoring
    BY <1>1, <1>2, <1>4, <2>2, <2>3, WithRow
  <2>5. m = With(t, r, "check")
    BY <1>1, <2>4 DEF With, Onto
  <2>6. Hands(t, l.op, r, m)
    BY <2>3, <2>4 DEF Hands
  <2> QED
    BY <2>2, <2>4, <2>5, <2>6
<1> QED
  BY <1>1, <1>2, <1>3, <1>6, <1>7, FencedOK

LEMMA ReviewCloseOK == ASSUME Inv, NEW t \in Threads, ReviewClose(t) PROVE Inv'
<1>1. PICK l \in Locals : l = th[t] /\ LocalOK(l)
  BY Mine
<1>2. /\ l.pc = "close" /\ l.pc \notin Early \cup {"fail"} /\ l.op \in Reviews /\ l.op # Submit
      /\ l.op \notin Rescores /\ l.rev \in DOMAIN bundles /\ l.stateV \in Nat
      /\ RowOK(l.op, l.run) /\ l.run.status = "running" /\ KindOf(l.op) = "review"
  BY <1>1, Disjoint DEF ReviewClose, At, Op, Early, LocalOK, BundlesOK, RunOK, Scored, Updating, Locals, KindOf
<1>3. PICK cp \in DOMAIN After.review \ {"pending"} : cp = l.run.checkpoint
  BY <1>2 DEF RowOK, Checkpoints, After
<1> DEFINE waits == Waits(th[t].sub.status)
<1>4. PICK low \in BOOLEAN : low = (waits /\ ~ Rejected(Rev(t)))
  OBVIOUS
<1>5. PICK refs : refs = CASE cp = "state_inputs_frozen" -> [NoRefs EXCEPT !.stateV = l.stateV]
                           [] cp = "state_saved" -> [NoRefs EXCEPT !.report = TRUE, !.feedback = low]
                           [] OTHER -> NoRefs
  OBVIOUS
<1>6. PlainRefs(refs)
  <2>1. CASE cp = "state_inputs_frozen"
    BY <1>2, <1>5, <2>1, PlainRefsFit
  <2>2. CASE cp = "state_saved"
    BY <1>5, <2>2, PlainRefsFit
  <2>3. CASE cp \notin {"state_inputs_frozen", "state_saved"}
    BY <1>5, <2>3, PlainRefsFit
  <2> QED
    BY <2>1, <2>2, <2>3
<1>7. PICK next : next = After.review[cp]
  OBVIOUS
<1>8. next # "scoring_saved" /\ (next = "completed" <=> cp = "analytics_saved")
  BY <1>3, <1>7 DEF After
<1>9. PICK pc : pc = IF cp # "analytics_saved" THEN "close" ELSE IF waits THEN "commit" ELSE "idle"
  OBVIOUS
<1>10. Advance(t, next, refs, pc)
  BY <1>1, <1>3, <1>4, <1>5, <1>7, <1>9 DEF ReviewClose, Run
<1>11. GoodRefs(next, refs)
  BY <1>6, <1>8, PlainRefsGood
<1>12. /\ pc \in Into \cup {"idle"}
       /\ IF pc = "idle" THEN next = "completed"
          ELSE /\ OpSuits(pc, l.op)
               /\ pc \in Based => l.cur \in DOMAIN bundles
               /\ pc \in Scored => l.rev \in DOMAIN bundles
               /\ next = "completed" => pc \in {"commit", "finish"} \/ l.op \in Rescores
               /\ pc \in Updating /\ l.op = Submit => next \in Frozen \cup {"events_appended"}
  BY <1>2, <1>8, <1>9 DEF Into, Labels, Early, Based, OpSuits, SubmitOnly, ReviewOnly, RescoreOnly,
     Updating, Either
<1> QED
  BY <1>1, <1>2, <1>10, <1>11, <1>12, AdvanceOK

LEMMA CommitResumeOK == ASSUME Inv, NEW t \in Threads, CommitResume(t) PROVE Inv'
<1>1. PICK l \in Locals : l = th[t] /\ LocalOK(l)
  BY Mine
<1>2. l.pc = "commit" /\ l.op \in Reviews
  BY <1>1 DEF CommitResume, At, LocalOK, PlaceOK, OpSuits, ReviewOnly
<1>3. "commit:" \in Workers /\ ResumeSubmit(t, "commit:", "finish")
  BY DEF CommitResume, Workers
<1> QED
  BY <1>1, <1>2, <1>3, ResumeSubmitOK

LEMMA CommitFinishOK == ASSUME Inv, NEW t \in Threads, CommitFinish(t) PROVE Inv'
<1>1. PICK l \in Locals : l = th[t] /\ LocalOK(l)
  BY Mine
<1>2. /\ l.pc = "finish" /\ l.pc \notin Early /\ Submit \in Ops /\ KindOf(Submit) = "submit"
      /\ l.rev \in DOMAIN bundles /\ l.rev \in Nat /\ l.stateV \in Nat
  BY <1>1 DEF CommitFinish, At, Early, LocalOK, BundlesOK, Scored, Ops, KindOf, Locals
<1>3. PICK row : row = rows[Submit] /\ RowOK(Submit, row)
  BY <1>2 DEF Inv, RowsOK
<1>4. PICK refs \in RefRows :
        /\ refs = [NoRefs EXCEPT !.scoring = l.rev, !.stateV = l.stateV, !.feedback = TRUE, !.report = TRUE]
        /\ refs.scoring \in DOMAIN bundles
  <2>1. PICK refs : refs = [NoRefs EXCEPT !.scoring = l.rev, !.stateV = l.stateV, !.feedback = TRUE, !.report = TRUE]
    OBVIOUS
  <2>2. refs = [scoring |-> l.rev, stateV |-> l.stateV, feedback |-> TRUE, report |-> TRUE,
                frozen |-> FALSE, base |-> NoRef, policy |-> FALSE]
    BY <2>1 DEF NoRefs
  <2>3. refs \in RefRows /\ refs.scoring \in DOMAIN bundles
    <3>1. TRUE \in BOOLEAN /\ FALSE \in BOOLEAN /\ NoRef \in (Nat \X Nat) \cup {NoRef}
      OBVIOUS
    <3> QED
      BY <1>2, <2>2, <3>1 DEF RefRows
  <2> QED
    BY <2>1, <2>3
<1>5. PICK r : r = Finished(row, refs)
  OBVIOUS
<1>6. Fenced(t, Submit, ValidRow("submit", r), r, Idle)
  BY <1>1, <1>3, <1>4, <1>5 DEF CommitFinish
<1>7. ASSUME row.status = "running", ValidRow("submit", r)
      PROVE  RowOK(Submit, r) /\ r.owner = NoOwner
  <2>1. ValidRow(KindOf(Submit), Finished(row, refs))
    BY <1>2, <1>5, <1>7
  <2>2. /\ refs \in [scoring : Nat \cup {NoRef}, stateV : Nat, feedback : BOOLEAN, report : BOOLEAN,
                    frozen : BOOLEAN, base : (Nat \X Nat) \cup {NoRef}, policy : BOOLEAN]
        /\ refs.scoring \in DOMAIN bundles
    BY <1>4 DEF RefRows
  <2> QED
    BY <1>2, <1>3, <1>5, <1>7, <2>1, <2>2, FinishedRow
<1>8. rows[Submit].status = "running" /\ ValidRow("submit", r) =>
         RowOK(Submit, r) /\ LocalOK(Idle) /\ Hands(t, Submit, r, Idle)
  BY <1>3, <1>7, IdleOK DEF Hands
<1> QED
  BY <1>1, <1>2, <1>6, <1>8, FencedOK
-----------------------------------------------------------------------------
(* rescore *)

LEMMA RescoreBaseOK == ASSUME Inv, NEW t \in Threads, RescoreBase(t) PROVE Inv'
<1>1. PICK l \in Locals : l = th[t] /\ LocalOK(l)
  BY Mine
<1>2. /\ l.pc = "rescore" /\ l.pc \notin Early /\ l.pc \notin Early \cup {"fail", "commit", "finish"}
      /\ l.op \in Rescores /\ l.op # Submit /\ l.req \notin Submissions
  BY <1>1, Disjoint DEF RescoreBase, At, Early, LocalOK, PlaceOK, OpSuits, RescoreOnly
<1>3. l.sub.scoring \in DOMAIN bundles /\ l.sub.scoring \in Nat
  BY <1>1, <1>2, BundleFacts DEF LocalOK, BundlesOK
<1>4. /\ UNCHANGED <<rows, current, lastReview, recorded, faults>> /\ UNCHANGED <<stores, browser>>
      /\ recorded' \subseteq Ops /\ faults' \in Nat
  BY DEF RescoreBase, m0, Inv, RowsOK, StoresOK
<1>5. StoresOK' /\ Grows /\ DOMAIN bundles' = DOMAIN bundles
  BY <1>4, StoresStill DEF stores
<1>6. OpSuits("reviewed", l.op) /\ OpSuits("apply", l.op)
  BY <1>2, Disjoint DEF OpSuits, SubmitOnly, ReviewOnly, RescoreOnly, Updating, Either
<1>7. CASE Goto(t, "fail")
  BY <1>1, <1>2, <1>4, <1>5, <1>7, Raised
<1>8. CASE l.run.scoring # NoRef /\ SetRev(t, l.run.scoring, "reviewed")
  <2>1. l.run.scoring \in DOMAIN bundles'
    BY <1>1, <1>5, <1>8 DEF LocalOK, RunOK, RefsOK
  <2>2. l.run.scoring \in Nat
    BY <1>5, <2>1, BundleFacts
  <2> QED
    BY <1>1, <1>2, <1>4, <1>5, <1>6, <1>8, <2>1, <2>2, RevSet
<1>9. CASE th' = [th EXCEPT ![t].cur = l.sub.scoring, ![t].pc = "apply"]
  <2>1. PICK m \in Locals : m = [l EXCEPT !.cur = l.sub.scoring, !.pc = "apply"]
    <3>1. [l EXCEPT !.cur = l.sub.scoring] \in Locals /\ "apply" \in Labels
      BY <1>3, CurLocal DEF Labels
    <3> QED
      BY <3>1, PcLocal
  <2>2. /\ m.op = l.op /\ m.req = l.req /\ m.sub = l.sub /\ m.run = l.run
        /\ m.cur = l.sub.scoring /\ m.pc = "apply"
    BY <2>1 DEF Locals
  <2>3. th' = [th EXCEPT ![t] = m]
    BY <1>1, <1>9, <2>1 DEF Inv, ThreadsOK
  <2>4. /\ m.pc \notin Early \cup {"post"} /\ OpSuits(m.pc, m.op) /\ m.pc \notin Scored
        /\ m.pc \notin Updating /\ m.pc # "check" /\ m.cur \in DOMAIN bundles'
    BY <1>3, <1>5, <1>6, <2>2 DEF Early, Updating, Scored
  <2> QED
    BY <1>1, <1>2, <1>4, <1>5, <2>2, <2>3, <2>4, OnOrOut
<1> QED
  BY <1>1, <1>7, <1>8, <1>9 DEF RescoreBase, Run, SetRev

LEMMA ApplyRescoreOK == ASSUME Inv, NEW t \in Threads, ApplyRescore(t) PROVE Inv'
<1>1. PICK l \in Locals : l = th[t] /\ LocalOK(l)
  BY Mine
<1>2. l.pc = "apply" /\ today \in Nat /\ today + 1 \in Nat
  BY <1>1 DEF ApplyRescore, At, Inv, StoresOK
<1>3. UNCHANGED <<rows, current, lastReview, recorded, decisions, updates, classV, forms, faults>>
  BY DEF ApplyRescore, m0
<1>4. Apply(t, "pending", today + 1)
  BY DEF ApplyRescore
<1>5. IF bundles' = bundles THEN today' = today
      ELSE today' \in Nat /\ today + 1 <= today' /\ today <= today'
  BY <1>2 DEF ApplyRescore
<1> QED
  BY <1>1, <1>2, <1>3, <1>4, <1>5, ApplyOK

LEMMA RescoreSavedOK == ASSUME Inv, NEW t \in Threads, RescoreSaved(t) PROVE Inv'
<1>1. PICK l \in Locals : l = th[t] /\ LocalOK(l)
  BY Mine
<1>2. /\ l.pc = "reviewed" /\ l.pc \notin Early \cup {"fail"} /\ l.op \in Rescores
      /\ l.rev \in DOMAIN bundles /\ l.rev \in Nat
  BY <1>1, BundleFacts DEF RescoreSaved, At, Op, Early, LocalOK, BundlesOK, Scored
<1>3. /\ OpSuits("reviewed", l.op) /\ "reviewed" \notin Updating \cup Based
      /\ OpSuits("ensure", l.op) /\ "ensure" \notin Updating \cup Based
  BY <1>2, Disjoint DEF OpSuits, SubmitOnly, ReviewOnly, RescoreOnly, Updating, Either, Based
<1>4. "reviewed" \in Into \cup {"idle"} /\ "ensure" \in Into \cup {"idle"}
  BY DEF Into, Labels, Early
<1>5. CASE Advance(t, "scoring_saved", [NoRefs EXCEPT !.scoring = l.rev], "reviewed")
  <2>1. GoodRefs("scoring_saved", [NoRefs EXCEPT !.scoring = l.rev])
    BY <1>2, ScoringRefs
  <2> QED
    BY <1>1, <1>2, <1>3, <1>4, <1>5, <2>1, AdvanceOK
<1>6. CASE Advance(t, "completed", NoRefs, "ensure")
  BY <1>1, <1>2, <1>3, <1>4, <1>6, NoRefsFit, AdvanceOK
<1> QED
  BY <1>1, <1>5, <1>6 DEF RescoreSaved

LEMMA EnsureOK == ASSUME Inv, NEW t \in Threads, Ensure(t) PROVE Inv'
<1>1. PICK l \in Locals : l = th[t] /\ LocalOK(l)
  BY Mine
<1>2. /\ l.pc = "ensure" /\ l.pc \notin {"idle", "read", "record"}
      /\ l.op \in Rescores /\ l.op # Submit /\ l.rev \in DOMAIN bundles
      /\ Submit \in Ops /\ KindOf(Submit) = "submit" /\ "rescore:" \in Workers /\ 2 \in Nat
  BY <1>1, Disjoint DEF Ensure, At, LocalOK, PlaceOK, BundlesOK, OpSuits, RescoreOnly, Scored, Ops,
     KindOf, Workers
<1>3. PICK s : s = rows[Submit] /\ RowOK(Submit, s)
  BY <1>2 DEF Inv, RowsOK
<1>4. PICK m \in Locals : m = [l EXCEPT !.pc = "park"]
  BY PcLocal DEF Labels
<1>5. /\ m.op = l.op /\ m.req = l.req /\ m.sub = l.sub /\ m.run = l.run
      /\ m.cur = l.cur /\ m.rev = l.rev /\ m.pc = "park"
  BY <1>4 DEF Locals
<1>6. m.pc \notin Early /\ m.pc \notin Early \cup {"post"} /\ OpSuits(m.pc, m.op) /\ m.pc \notin Based
  BY <1>2, <1>5 DEF Early, OpSuits, SubmitOnly, ReviewOnly, RescoreOnly, Updating, Either, Based
<1>7. RunOK(m)
  BY <1>1, <1>2, <1>5 DEF LocalOK, RunOK, Updating
<1>8. LocalOK(m)
  BY <1>1, <1>2, <1>5, <1>6, <1>7, Onward
<1>9. /\ UNCHANGED <<recorded, faults>> /\ UNCHANGED <<stores, browser>>
      /\ recorded' \subseteq Ops /\ faults' \in Nat
  BY DEF Ensure, Inv, RowsOK, StoresOK
<1>10. ASSUME NEW r, RowOK(Submit, r), s.status # "completed", Commit(t, Submit, r, m)
       PROVE  Inv'
  <2>1. Hands(t, Submit, r, m)
    BY <1>2, <1>5, <1>6 DEF Hands
  <2> QED
    BY <1>2, <1>3, <1>8, <1>9, <1>10, <2>1, CommitOK
<1>11. CASE Exit(t) /\ UNCHANGED <<rows, lastReview>>
  BY <1>9, <1>11, LeaveOK
<1>12. CASE Waits(s.status) /\ Commit(t, Submit, Resumed(s, "rescore:", 2), m)
  <2>1. s.status \in WaitingStatuses /\ s.status # "completed"
    BY <1>12 DEF Waits, WaitingStatuses
  <2> QED
    BY <1>2, <1>3, <1>10, <1>12, <2>1, ResumedRow
<1>13. CASE s.status = "failed" /\ Commit(t, Submit, Claimed("submit", s, "rescore:", 2), m)
  <2>1. Claimable(s) /\ s.status # "completed"
    BY <1>13 DEF Claimable
  <2> QED
    BY <1>2, <1>3, <1>10, <1>13, <2>1, ClaimedRow
<1>14. CASE Expired(s, 1) /\ Commit(t, Submit, Leased(s, "rescore:", 2), m)
  <2>1. s.status # "completed"
    BY <1>14 DEF Expired
  <2> QED
    BY <1>2, <1>3, <1>10, <1>14, <2>1, LeasedRow
<1>15. CASE /\ current' = [current EXCEPT ![Submit] = @ \cup {t}]
            /\ th' = [th EXCEPT ![t] = m] /\ UNCHANGED <<rows, lastReview>>
  <2>1. StoresOK' /\ Grows
    BY <1>9, StoresStill
  <2>2. RowsOK'
    BY <1>9, <1>15, <2>1, RowsStill
  <2>3. current' \in [Ops -> SUBSET Threads]
    BY <1>2, <1>15 DEF Inv, ThreadsOK
  <2>4. \A o \in Ops, u \in Threads \ {t} : u \in current'[o] =>
           /\ u \in current[o]
           /\ rows'[o].checkpoint = rows[o].checkpoint /\ rows'[o].scoring = rows[o].scoring
    BY <1>2, <1>15 DEF Inv, ThreadsOK
  <2>5. LocalOK(m)'
    BY <1>8, <2>1, LocalStill DEF Inv
  <2>6. LinkOK(t, m)'
    BY <1>2, <1>5, <1>6 DEF LinkOK
  <2>7. th' = [th EXCEPT ![t] = m]
    BY <1>15
  <2> QED
    BY <2>1, <2>2, <2>3, <2>4, <2>5, <2>6, <2>7, Moved
<1> QED
  BY <1>1, <1>3, <1>4, <1>11, <1>12, <1>13, <1>14, <1>15 DEF Ensure

LEMMA ParkRescoredOK == ASSUME Inv, NEW t \in Threads, ParkRescored(t) PROVE Inv'
<1>1. PICK l \in Locals : l = th[t] /\ LocalOK(l)
  BY Mine
<1>2. l.pc = "park" /\ l.pc \notin Early /\ l.rev \in DOMAIN bundles /\ l.rev \in Nat
  BY <1>1, BundleFacts DEF ParkRescored, At, Early, LocalOK, BundlesOK, Scored
<1>3. Fenced(t, Submit, TRUE, Parked(rows[Submit], WaitingFor(Rev(t)), FALSE, NoRef, l.rev), Idle)
  BY <1>1 DEF ParkRescored
<1>4. FALSE \in BOOLEAN /\ NoRef \in (Nat \X Nat) \cup {NoRef} /\ l.rev # NoRef
  BY <1>2, Nulls
<1> QED
  BY <1>1, <1>2, <1>3, <1>4, IdleOK, ParkOK
-----------------------------------------------------------------------------
(* All steps. *)

LEMMA StepOK == ASSUME Inv, NEW t \in Threads, Step(t) PROVE Inv'
<1>1. CASE ReadSubmit(t) \/ Record(t) \/ Claim(t)
  BY <1>1, ReadSubmitOK, RecordOK, ClaimOK
<1>2. CASE Score(t) \/ Grade(t) \/ Route(t) \/ SubmitInputs(t) \/ SubmitClose(t)
  BY <1>2, ScoreOK, GradeOK, RouteOK, SubmitInputsOK, SubmitCloseOK
<1>3. CASE CheckProcessed(t) \/ PostUpdate(t)
  BY <1>3, CheckProcessedOK, PostUpdateOK
<1>4. CASE \/ ReviewBase(t) \/ Decide(t) \/ DecisionSaved(t) \/ Lookup(t) \/ ApplyReview(t)
           \/ ReviewSaved(t) \/ Branch(t) \/ ParkReviewed(t) \/ FinishUndecided(t)
  BY <1>4, ReviewBaseOK, DecideOK, DecisionSavedOK, LookupOK, ApplyReviewOK, ReviewSavedOK, BranchOK,
     ParkReviewedOK, FinishUndecidedOK
<1>5. CASE ReviewInputs(t) \/ RebaseReview(t) \/ ReviewClose(t) \/ CommitResume(t) \/ CommitFinish(t)
  BY <1>5, ReviewInputsOK, RebaseReviewOK, ReviewCloseOK, CommitResumeOK, CommitFinishOK
<1>6. CASE RescoreBase(t) \/ ApplyRescore(t) \/ RescoreSaved(t) \/ Ensure(t) \/ ParkRescored(t)
  BY <1>6, RescoreBaseOK, ApplyRescoreOK, RescoreSavedOK, EnsureOK, ParkRescoredOK
<1>7. CASE Fail(t)
  BY <1>7, FailOK
<1> QED
  BY <1>1, <1>2, <1>3, <1>4, <1>5, <1>6, <1>7 DEF Step

LEMMA NextOK == ASSUME Inv, [Next]_vars PROVE Inv'
<1>1. ASSUME NEW t \in Threads, Step(t) \/ Raise(t) \/ Crash(t) \/ \E q \in Requests : Post(t, q)
      PROVE  Inv'
  BY <1>1, StepOK, RaiseOK, CrashOK, PostOK
<1>2. ASSUME NEW q \in Reviews \cup Rescores, IssueForm(q) PROVE Inv'
  BY <1>2, IssueFormOK
<1>3. ASSUME NEW op \in Ops, Expire(op) PROVE Inv'
  BY <1>3, ExpireOK
<1>4. CASE OtherPost
  BY <1>4, OtherPostOK
<1>5. CASE UNCHANGED vars
  <2>1. /\ UNCHANGED <<stores, browser>> /\ faults' \in Nat /\ recorded' \subseteq Ops
        /\ UNCHANGED <<rows, lastReview, th, current>>
    BY <1>5 DEF vars, stores, browser, Inv, StoresOK, RowsOK
  <2>2. StoresOK' /\ Grows
    BY <2>1, StoresStill
  <2>3. RowsOK'
    BY <2>1, <2>2, RowsStill
  <2> QED
    BY <2>1, <2>2, <2>3, Unmoved
<1> QED
  BY <1>1, <1>2, <1>3, <1>4, <1>5 DEF Next

(* Only one step of one handler posts to the profile. *)
LEMMA OnlyPosts ==
  ASSUME [Next]_vars, updates' # updates PROVE \E t \in Threads : PostUpdate(t)
<1>1. ASSUME NEW t \in Threads, Step(t) PROVE PostUpdate(t)
  <2>1. CASE ReadSubmit(t) \/ Record(t) \/ Claim(t) \/ Fail(t) \/ Ensure(t) \/ Lookup(t) \/ Score(t)
             \/ ReviewBase(t) \/ RescoreBase(t)
    BY <2>1 DEF ReadSubmit, Record, Claim, Fail, Ensure, Lookup, Score, ReviewBase, RescoreBase, stores
  <2>2. CASE Grade(t) \/ Decide(t) \/ ApplyReview(t) \/ ApplyRescore(t)
    BY <2>2 DEF Grade, Decide, ApplyReview, ApplyRescore
  <2>3. CASE Route(t) \/ SubmitInputs(t) \/ SubmitClose(t) \/ CheckProcessed(t)
    BY <2>3 DEF Route, SubmitInputs, SubmitClose, CheckProcessed, Inputs, Advance, Fenced, Only, stores
  <2>4. CASE DecisionSaved(t) \/ ReviewSaved(t) \/ Branch(t) \/ ParkReviewed(t) \/ FinishUndecided(t)
    BY <2>4 DEF DecisionSaved, ReviewSaved, Branch, ParkReviewed, FinishUndecided, ResumeSubmit, Advance,
       Fenced, Only, stores
  <2>5. CASE RebaseReview(t) \/ ReviewClose(t) \/ CommitResume(t) \/ CommitFinish(t)
             \/ RescoreSaved(t) \/ ParkRescored(t)
    BY <2>5 DEF RebaseReview, ReviewClose, CommitResume, CommitFinish, RescoreSaved, ParkRescored,
       ResumeSubmit, Advance, Fenced, Only, stores
  <2>6. CASE ReviewInputs(t)
    <3>1. \A k, b, pc : Inputs(t, k, b, pc) => UNCHANGED updates
      BY DEF Inputs, Fenced, stores
    <3> QED
      BY <2>6, <3>1 DEF ReviewInputs
  <2> QED
    BY <1>1, <2>1, <2>2, <2>3, <2>4, <2>5, <2>6 DEF Step
<1>2. ASSUME NEW t \in Threads, Raise(t) \/ Crash(t) \/ \E q \in Requests : Post(t, q) PROVE FALSE
  BY <1>2 DEF Raise, Crash, Post, stores
<1>3. ASSUME NEW q \in Reviews \cup Rescores, IssueForm(q) PROVE FALSE
  BY <1>3 DEF IssueForm, stores
<1>4. ASSUME NEW op \in Ops, Expire(op) PROVE FALSE
  BY <1>4 DEF Expire, stores
<1>5. CASE OtherPost \/ UNCHANGED vars
  BY <1>5 DEF OtherPost, vars
<1> QED
  BY <1>1, <1>2, <1>3, <1>4, <1>5 DEF Next

(* What it posts, and onto what. *)
LEMMA Posts ==
  ASSUME Inv, NEW t \in Threads, PostUpdate(t), updates' # updates
  PROVE  /\ updates'[Len(updates')].base = LatestBaseline
         /\ ~ (Keys(bundles[updates'[Len(updates')].bundle]) \subseteq Processed)
<1>1. PICK l \in Locals : l = th[t] /\ LocalOK(l)
  BY Mine
<1>2. l.pc = "post" /\ l.run.base # NoRef /\ BaseOK(l.run.base)
  BY <1>1 DEF PostUpdate, At, LocalOK, RunOK, RefsOK
<1>3. PICK x \in Nat, y \in Nat : l.run.base = <<x, y>>
  BY <1>2 DEF Locals, Rows
<1>4. PICK mine : mine = [bundle |-> l.rev, v |-> UpdateV(l.run.base), base |-> l.run.base]
  OBVIOUS
<1>5. updates' = Append(updates, mine) /\ BaselineCurrent(l.run.base)
  BY <1>1, <1>4 DEF PostUpdate, Run
<1>6. updates'[Len(updates')] = mine
  BY <1>5 DEF Inv, StoresOK
<1>7. y = classV /\ x = Len(updates)
  BY <1>2, <1>3, <1>5 DEF BaselineCurrent, BaseOK
<1>8. ~ (Keys(bundles[l.rev]) \subseteq Processed)
  BY <1>1, <1>2, <1>3, <1>7 DEF LocalOK, EvidenceOK
<1> QED
  BY <1>3, <1>4, <1>6, <1>7, <1>8 DEF LatestBaseline
-----------------------------------------------------------------------------
LEMMA Invariance == Spec => []Inv
<1>1. Init => Inv
  BY InitOK
<1>2. Inv /\ [Next]_vars => Inv'
  BY NextOK
<1> QED
  BY <1>1, <1>2, PTL DEF Spec

(* The rows of M0, the locals of the requests and the records of M8, M9    *)
(* and M5 keep their types, and a state update names a bundle that is      *)
(* stored, whatever the requests and their failures are.                   *)
THEOREM WorkflowTyping == Spec => []TypeOK
<1>1. Inv => TypeOK
  BY DEF Inv, StoresOK, RowsOK, ThreadsOK, TypeOK, Workers
<1> QED
  BY <1>1, Invariance, PTL

(* A page that shows a run shows a bundle: the completed or waiting run    *)
(* that effective_completed_run picks refers to a scoring result of M8,    *)
(* and so does every waiting or completed row.                             *)
THEOREM PagesResolve ==
  Spec => [](/\ Effective # NoRequest => rows[Effective].scoring \in DOMAIN bundles
             /\ \A op \in Ops : rows[op].status \in WaitingStatuses \cup {"completed"} =>
                  rows[op].scoring \in DOMAIN bundles)
<1>1. ASSUME Inv
      PROVE  /\ Effective # NoRequest => rows[Effective].scoring \in DOMAIN bundles
             /\ \A op \in Ops : rows[op].status \in WaitingStatuses \cup {"completed"} =>
                  rows[op].scoring \in DOMAIN bundles
  <2>1. Effective # NoRequest => rows[Effective].scoring \in DOMAIN bundles
    BY <1>1, EffectiveOK DEF Effective
  <2>2. ASSUME NEW op \in Ops, rows[op].status \in WaitingStatuses \cup {"completed"}
        PROVE  rows[op].scoring \in DOMAIN bundles
    <3>1. RowOK(op, rows[op])
      BY <1>1 DEF Inv, RowsOK
    <3>2. rows[op].scoring # NoRef
      BY <2>2, <3>1 DEF RowOK
    <3> QED
      BY <3>1, <3>2 DEF RowOK, RefsOK
  <2> QED
    BY <2>1, <2>2
<1> QED
  BY <1>1, Invariance, PTL

(* A state update is computed from the learner and class snapshots it      *)
(* replaces: PostUpdate compares the class snapshot only, and the frozen   *)
(* baseline of a row always pairs it with its learner snapshot.            *)
THEOREM NeverOverwritten == Spec => NothingOverwritten
<1>1. ASSUME Inv, [Next]_vars
      PROVE  [updates' # updates => updates'[Len(updates')].base = LatestBaseline]_updates
  BY <1>1, OnlyPosts, Posts
<1> QED
  BY <1>1, Invariance, PTL DEF Spec, NothingOverwritten

(* A state update posts an audit version that no earlier one has posted,   *)
(* although the watermark is read in one transaction and the update        *)
(* inserted in a later one, and a run that has lost its lease meanwhile    *)
(* is not stopped: whoever posted in between has moved the class state.    *)
THEOREM NewEvidence ==
  Spec => [][updates' # updates =>
               ~ (Keys(bundles[updates'[Len(updates')].bundle]) \subseteq Processed)]_updates
<1>1. ASSUME Inv, [Next]_vars
      PROVE  [updates' # updates =>
                ~ (Keys(bundles[updates'[Len(updates')].bundle]) \subseteq Processed)]_updates
  BY <1>1, OnlyPosts, Posts
<1> QED
  BY <1>1, Invariance, PTL DEF Spec
=============================================================================
