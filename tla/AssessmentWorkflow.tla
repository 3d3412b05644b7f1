-------------------------- MODULE AssessmentWorkflow --------------------------
(***************************************************************************)
(* The submission, teacher reviews and model rescores of one attempt       *)
(* (application/assessment_workflow.py), from the click in a browser to    *)
(* the rows they leave in M0, M8, M9 and M5, with the recovery of          *)
(* assessment_recovery.py.  Requests run concurrently in threads, lose     *)
(* their leases, raise and crash at any step, and are posted again.        *)
(*                                                                         *)
(* Each action is one transaction, or one transaction and the reads that   *)
(* only it can make stale.  An effect on M8, M9 or M5 is not fenced by the *)
(* run's lease; every checkpoint is.                                       *)
(*                                                                         *)
(* A row's version is only ever compared for equality with the version a   *)
(* thread was last given, so the version column is kept at 1 and           *)
(* current[op] is the set of threads that know the row's version           *)
(* (AssessmentRuns shows that a version names its holder).  The clock      *)
(* stands still at 1: a lease of 2 is live and a lease of 1 has expired.   *)
(***************************************************************************)
EXTENDS ScoreHistory

CONSTANTS
  NoRef,        \* NULL of a reference column
  NoOwner,      \* NULL of locked_by
  Threads,      \* request threads of all web processes
  Submit,       \* the operation "submit:<submission id>"
  Submissions,  \* forms that post the student's answers
  Reviews,      \* forms of the teacher, each one is one review operation
  Rescores,     \* forms asking for a model rescore, one operation each
  Target,       \* [Reviews \cup Rescores -> Audits]
  Verdict,      \* [Reviews -> {"approved", "rejected"}]
  FirstScores,  \* what the first scoring may say: a set of [Audits -> statuses]
  NoRequest,
  Faults,       \* bound on crashes, exceptions and lost leases
  OtherPosts    \* bound on state updates by other students of the class

Requests == Submissions \cup Reviews \cup Rescores
Ops == {Submit} \cup Reviews \cup Rescores
KindOf(op) == IF op = Submit THEN "submit" ELSE IF op \in Reviews THEN "review" ELSE "rescore"

ASSUME Disjoint == /\ Submit \notin Reviews \cup Rescores /\ NoRequest \notin Requests \cup Ops
                   /\ Submissions \cap (Reviews \cup Rescores) = {} /\ Reviews \cap Rescores = {}
ASSUME Forms == /\ Target \in [Reviews \cup Rescores -> Audits]
                /\ Verdict \in [Reviews -> {"approved", "rejected"}]
ASSUME Budgets == Faults \in Nat /\ OtherPosts \in Nat
ASSUME Scores == FirstScores \subseteq [Audits -> {"pending", "approved", "rejected"}]
ASSUME Nulls == NoRef \notin Nat /\ NoRef \notin Nat \X Nat

(* A checksum is the bundle's position, a baseline the version of the      *)
(* learner's state and the one of the class state.                         *)
INSTANCE RunRows WITH Checksums <- Nat, Baselines <- Nat \X Nat

VARIABLES
  recorded,    \* m0: operations that have a row
  rows,        \* m0: the rows
  current,     \* current[op]: the threads that know the row's version
  lastReview,  \* m0: the completed review updated last
  bundles,     \* m8: the attempt's scoring results, in insertion order
  decisions,   \* m9: the reviews whose decision is recorded
  updates,     \* m5: the attempt's state updates, in insertion order
  classV,      \* m5: version of the class state
  forms,       \* forms[q]: the audit version a form was issued for, and when
  today,       \* time of the last form or rescore
  th,          \* th[t]: the locals of a request thread
  faults       \* crashes, exceptions and lost leases so far

vars == <<recorded, rows, current, lastReview, bundles, decisions, updates,
          classV, forms, today, th, faults>>

Idle == [pc |-> "idle", req |-> NoRequest, op |-> NoRequest, run |-> NewRow("start"),
         sub |-> [status |-> "pending", scoring |-> NoRef],
         retry |-> FALSE, cur |-> NoBundle, curV |-> 0, rev |-> NoBundle, stateV |-> 0]

NotIssued == [version |-> 0, at |-> 0]

Init ==
  /\ recorded = {}
  /\ rows = [op \in Ops |-> NewRow(KindOf(op))]
  /\ current = [op \in Ops |-> {}]
  /\ lastReview = NoRequest
  /\ bundles = <<>> /\ decisions = {} /\ updates = <<>> /\ classV = 0
  /\ forms = [q \in Reviews \cup Rescores |-> NotIssued]
  /\ today = 0
  /\ th = [t \in Threads |-> Idle]
  /\ faults = 0

m0 == <<recorded, rows, current, lastReview>>
stores == <<bundles, decisions, updates, classV>>
browser == <<forms, today>>
-----------------------------------------------------------------------------
(* Threads. *)

At(t, pc) == th[t].pc = pc
Op(t) == th[t].op
Run(t) == th[t].run
Req(t) == th[t].req
Rev(t) == bundles[th[t].rev]

Goto(t, pc) == th' = [th EXCEPT ![t].pc = pc]

(* The handler returns or dies; nobody knows its version any more. *)
Exit(t) ==
  /\ th' = [th EXCEPT ![t] = Idle]
  /\ current' = [op \in Ops |-> current[op] \ {t}]

(* expected_version, worker id and lease of a fenced call. *)
Accepted(t, op) == t \in current[op] /\ Live(rows[op], 1)

(* Commit a row and hand it to t, or to nobody once it is released; t goes *)
(* on with the locals `upd`.                                               *)
Commit(t, op, r, upd) ==
  /\ rows' = [rows EXCEPT ![op] = [r EXCEPT !.version = 1]]
  /\ current' = [o \in Ops |->
       IF o = op THEN IF r.owner = NoOwner THEN {} ELSE {t}
       ELSE IF upd = Idle THEN current[o] \ {t} ELSE current[o]]
  /\ lastReview' = IF op \in Reviews /\ r.status = "completed" THEN op ELSE lastReview
  /\ th' = [th EXCEPT ![t] = upd]

(* A fenced call; its refusal is an exception (WORKFLOW_LEASE_LOST). *)
Fenced(t, op, allowed, r, upd) ==
  /\ IF Accepted(t, op) /\ allowed
     THEN Commit(t, op, r, upd)
     ELSE Goto(t, "fail") /\ UNCHANGED <<rows, current, lastReview>>
  /\ UNCHANGED <<recorded, stores, browser, faults>>

(* The thread goes on with row r of its own run. *)
With(t, r, pc) == [th[t] EXCEPT !.run = [r EXCEPT !.version = 1], !.pc = pc]

Advance(t, cp, refs, pc) ==
  LET r == Advanced(rows[Op(t)], cp, refs)
  IN  Fenced(t, Op(t), CanAdvance(KindOf(Op(t)), rows[Op(t)], cp, refs), r,
             IF pc = "idle" THEN Idle ELSE With(t, r, pc))

Only(t, pc) == Goto(t, pc) /\ UNCHANGED <<m0, stores, browser, faults>>

(* resume_parked_assessment_run under a worker id shared by all requests. *)
ResumeSubmit(t, owner, pc) ==
  /\ IF rows[Submit].status \in WaitingStatuses
     THEN Commit(t, Submit, Resumed(rows[Submit], owner, 2), [th[t] EXCEPT !.pc = pc])
     ELSE Goto(t, "fail") /\ UNCHANGED <<rows, current, lastReview>>
  /\ UNCHANGED <<recorded, stores, browser, faults>>
-----------------------------------------------------------------------------
(* What the pages show, and the requests they post. *)

Waits(status) == status \in WaitingStatuses

(* effective_completed_run; NoRequest when it raises. *)
EffectiveBut(op) ==
  IF lastReview \notin {NoRequest, op} /\ rows[lastReview].stateV # 0 THEN lastReview
  ELSE IF Submit \in recorded /\ (rows[Submit].status = "completed" \/ Waits(rows[Submit].status))
       THEN Submit ELSE NoRequest

Effective == EffectiveBut(NoRequest)

Shows(q, v) ==
  /\ Effective # NoRequest
  /\ LET b == bundles[rows[Effective].scoring]
     IN  /\ Version(b, Target[q]) = v
         /\ q \in Rescores => Latest(b, Target[q]).status = "rejected"

(* GET of a review page: the flow token binds the audit version and its    *)
(* issue time becomes the decision's reviewed_at.                          *)
IssueForm(q) ==
  /\ forms[q] = NotIssued
  /\ \E v \in 1 .. Len(bundles) :
       Shows(q, v) /\ forms' = [forms EXCEPT ![q] = [version |-> v, at |-> today + 1]]
  /\ today' = today + 1
  /\ UNCHANGED <<m0, stores, th, faults>>

(* POST, the first time or again; a teacher's form must match the page. *)
Post(t, q) ==
  /\ At(t, "idle")
  /\ q \notin Submissions => forms[q] # NotIssued /\ Shows(q, forms[q].version)
  /\ th' = [th EXCEPT ![t].req = q, ![t].pc = IF q \in Submissions THEN "record" ELSE "read"]
  /\ UNCHANGED <<m0, stores, browser, faults>>

(* scored_submit, read once and used until the request ends. *)
ReadSubmit(t) ==
  /\ At(t, "read")
  /\ LET s == rows[Submit]
         q == Req(t)
     IN  IF \/ Submit \notin recorded \/ s.status = "pending"
            \/ s.status \in {"running", "failed"} /\ s.scoring = NoRef
            \/ /\ q \in Rescores /\ s.status # "awaiting_rescore"
               /\ ~ (q \in recorded /\ rows[q].status = "completed")
         THEN Exit(t)
         ELSE /\ th' = [th EXCEPT ![t].sub = [status |-> s.status, scoring |-> s.scoring],
                                  ![t].pc = "record"]
              /\ UNCHANGED current
  /\ UNCHANGED <<recorded, rows, lastReview, stores, browser, faults>>

(* _recoverable_failed_review_submission: an equivalent failed review.  A  *)
(* page is bound to one audit version, so its form's audit stands for the  *)
(* decision's.                                                             *)
Recoverable(q) ==
  {r \in recorded \cap Reviews :
     /\ rows[r].status = "failed" /\ rows[r].checkpoint = "state_inputs_frozen"
     /\ Target[r] = Target[q] /\ forms[r].version = forms[q].version
     /\ r \in decisions /\ Verdict[r] = Verdict[q]}

(* Mutant: a new form always is an operation of its own. *)
OperationOfForm(q) == IF q \in Submissions THEN Submit ELSE q

OperationOf(q) ==
  IF q \in Submissions THEN Submit
  ELSE IF q \in Reviews /\ Recoverable(q) # {} THEN CHOOSE r \in Recoverable(q) : TRUE
  ELSE q

ReviewBusy(op) ==
  op \in Reviews \ recorded /\ \E r \in recorded \cap Reviews : rows[r].status # "completed"

(* _record, and the replay of a finished or waiting run. *)
Record(t) ==
  /\ At(t, "record")
  /\ LET op == OperationOf(Req(t))
         row == rows[op]
     IN  IF ReviewBusy(op)
         THEN Exit(t) /\ UNCHANGED recorded
         ELSE /\ recorded' = recorded \cup {op}
              /\ IF op \in Rescores /\ row.status = "completed"
                 THEN /\ th' = [th EXCEPT ![t].op = op, ![t].rev = row.scoring, ![t].pc = "ensure"]
                      /\ UNCHANGED current
                 ELSE IF row.status = "completed" \/ Waits(row.status)
                 THEN Exit(t)
                 ELSE /\ th' = [th EXCEPT ![t].op = op, ![t].retry = row.status = "failed",
                                          ![t].pc = "claim"]
                      /\ UNCHANGED current
  /\ UNCHANGED <<rows, lastReview, stores, browser, faults>>

FirstStep(op) == IF op = Submit THEN "score" ELSE IF op \in Reviews THEN "base" ELSE "rescore"

Claim(t) ==
  /\ At(t, "claim")
  /\ LET row == rows[Op(t)]
         mine == IF Claimable(row) THEN Claimed(KindOf(Op(t)), row, Req(t), 2)
                                   ELSE Leased(row, Req(t), 2)
     IN  IF Claimable(row) \/ Expired(row, 1)
         THEN Commit(t, Op(t), mine, With(t, mine, FirstStep(Op(t))))
         ELSE Exit(t) /\ UNCHANGED <<rows, lastReview>>
  /\ UNCHANGED <<recorded, stores, browser, faults>>
-----------------------------------------------------------------------------
(* M5: posting the scores of a bundle onto a frozen baseline. *)

LatestBaseline == <<Len(updates), classV>>

(* get_processed_audit_ids. *)
Processed == UNION {Keys(bundles[updates[i].bundle]) : i \in DOMAIN updates}

(* Mutant: the watermark of processed audit versions is not looked at. *)
CheckUsable(t) ==
  /\ At(t, "check")
  /\ Only(t, IF Rejected(Rev(t)) THEN "fail" ELSE "post")

(* assert_score_usable and the watermark. *)
CheckProcessed(t) ==
  /\ At(t, "check")
  /\ Only(t, IF Rejected(Rev(t)) \/ Keys(Rev(t)) \subseteq Processed
             THEN "fail" ELSE "post")

(* Mutant: the class snapshot is not compared with the expected one. *)
BaselineUnchecked(base) == TRUE

BaselineCurrent(base) == base[2] = classV

UpdateV(base) == base[1] + 1

(* insert_or_get_state_update; when the version exists already the two     *)
(* results agree if both were computed before the first was inserted.      *)
PostUpdate(t) ==
  /\ At(t, "post")
  /\ LET base == Run(t).base
         mine == [bundle |-> th[t].rev, v |-> UpdateV(base), base |-> base]
         same == {i \in DOMAIN updates : updates[i].v = mine.v}
     IN  IF same # {}
         THEN /\ UNCHANGED <<updates, classV>>
              /\ \/ /\ \E i \in same : updates[i] = mine
                    /\ th' = [th EXCEPT ![t].stateV = mine.v, ![t].pc = "close"]
                 \/ Goto(t, "fail")
         ELSE IF ~ BaselineCurrent(base)
         THEN Goto(t, "fail") /\ UNCHANGED <<updates, classV>>
         ELSE /\ updates' = Append(updates, mine)
              /\ classV' = classV + 1
              /\ th' = [th EXCEPT ![t].stateV = mine.v, ![t].pc = "close"]
  /\ UNCHANGED <<m0, bundles, decisions, browser, faults>>

(* Another student of the class posts. *)
OtherPost ==
  /\ classV - Len(updates) < OtherPosts
  /\ classV' = classV + 1
  /\ UNCHANGED <<m0, bundles, decisions, updates, browser, th, faults>>
-----------------------------------------------------------------------------
(* submit. *)

(* exact_scoring, or get_scoring_result for a run that saved none. *)
Score(t) ==
  /\ At(t, "score")
  /\ LET found == IF Run(t).scoring # NoRef THEN Run(t).scoring
                  ELSE IF bundles # <<>> THEN Winner(bundles) ELSE NoBundle
     IN  th' = [th EXCEPT ![t].rev = found, ![t].pc = IF found = NoBundle THEN "grade" ELSE "route"]
  /\ UNCHANGED <<m0, stores, browser, faults>>

(* finalize_scoring: the first bundle, or the same one from another try. *)
Grade(t) ==
  /\ At(t, "grade")
  /\ \E scores \in FirstScores :
       LET b == [hist |-> [a \in Audits |-> <<[status |-> scores[a], by |-> Submit]>>],
                 at |-> today]
       IN  IF bundles = <<>>
           THEN bundles' = <<b>> /\ th' = [th EXCEPT ![t].rev = 1, ![t].pc = "route"]
           ELSE /\ UNCHANGED bundles
                /\ IF SameResult(bundles[1], b)
                   THEN th' = [th EXCEPT ![t].rev = 1, ![t].pc = "route"]
                   ELSE Goto(t, "fail")
  /\ UNCHANGED <<m0, decisions, updates, classV, browser, faults>>

(* Up to the waiting room or to the outbox. *)
Route(t) ==
  /\ At(t, "route")
  /\ LET cp == Run(t).checkpoint
         b == Rev(t)
     IN  \/ /\ cp = "claimed"
            /\ Advance(t, "scoring_saved", [NoRefs EXCEPT !.scoring = th[t].rev], "route")
         \/ /\ cp = "scoring_saved" /\ Undecided(b)
            /\ Fenced(t, Submit, TRUE,
                      Parked(rows[Submit], WaitingFor(b), TRUE, LatestBaseline, NoRef), Idle)
         \/ /\ cp = "scoring_saved" /\ ~ Undecided(b)
            /\ Advance(t, "events_appended", NoRefs, "inputs")
         \/ cp \notin {"claimed", "scoring_saved"} /\ Only(t, "inputs")

(* Find the state this run has posted, or freeze the inputs to post it.     *)
(* freeze_state_inputs leaves a run that parked before as it is.            *)
Inputs(t, known, base, pc) ==
  LET r == Advanced(rows[Op(t)], "state_inputs_frozen",
                    [NoRefs EXCEPT !.frozen = TRUE, !.base = base])
      refs == [NoRefs EXCEPT !.frozen = TRUE, !.base = base]
  IN  IF Run(t).checkpoint = "events_appended" /\ Run(t).frozen = "open"
      THEN Fenced(t, Op(t), CanAdvance(KindOf(Op(t)), rows[Op(t)], "state_inputs_frozen", refs),
                  r, [With(t, r, pc) EXCEPT !.stateV = known])
      ELSE /\ th' = [th EXCEPT ![t].stateV = known, ![t].pc = pc]
           /\ UNCHANGED <<m0, stores, browser, faults>>

NoBaseline == <<0, 0>>

SubmitInputs(t) ==
  /\ At(t, "inputs") /\ Op(t) = Submit
  /\ LET known == IF Run(t).stateV # 0 THEN Run(t).stateV
                  ELSE IF updates = <<>> THEN 0 ELSE updates[Len(updates)].v
     IN  IF known = 0 THEN Inputs(t, 0, LatestBaseline, "check")
                      ELSE Inputs(t, known, NoBaseline, "close")

(* From the posted state to completed; a run that could not freeze its     *)
(* inputs is refused when it tries to adopt a policy identity.             *)
SubmitClose(t) ==
  /\ At(t, "close") /\ Op(t) = Submit
  /\ LET cp == Run(t).checkpoint
         refs == CASE cp = "state_inputs_frozen" -> [NoRefs EXCEPT !.stateV = th[t].stateV]
                   [] cp = "state_saved"         -> [NoRefs EXCEPT !.policy = TRUE]
                   [] cp = "tutoring_saved"      -> [NoRefs EXCEPT !.feedback = TRUE]
                   [] cp = "feedback_saved"      -> [NoRefs EXCEPT !.report = TRUE]
                   [] OTHER                      -> NoRefs
     IN  IF cp = "events_appended" THEN Only(t, "fail")
         ELSE Advance(t, After.submit[cp], refs,
                      IF cp = "analytics_saved" THEN "idle" ELSE "close")
-----------------------------------------------------------------------------
(* review. *)

Audit(t) == Target[Op(t)]
Expected(t) == forms[Op(t)].version
KeyOf(t) == <<Audit(t), Expected(t) + 1>>

(* base_run and current. *)
ReviewBase(t) ==
  /\ At(t, "base")
  /\ LET run == EffectiveBut(Op(t))
     IN  IF run = NoRequest THEN Goto(t, "fail")
         ELSE th' = [th EXCEPT ![t].cur = rows[run].scoring,
                               ![t].curV = rows[run].stateV, ![t].pc = "decide"]
  /\ UNCHANGED <<m0, stores, browser, faults>>

(* M9 record_teacher_review: one decision per audit version. *)
Decide(t) ==
  /\ At(t, "decide")
  /\ LET rival == \E d \in decisions : /\ d # Op(t) /\ Target[d] = Audit(t)
                                       /\ forms[d].version = Expected(t)
         allowed == \/ Op(t) \in decisions
                    \/ Version(bundles[th[t].cur], Audit(t)) = Expected(t) /\ ~ rival
     IN  IF allowed
         THEN decisions' = decisions \cup {Op(t)} /\ Goto(t, "decided")
         ELSE Goto(t, "fail") /\ UNCHANGED decisions
  /\ UNCHANGED <<m0, bundles, updates, classV, browser, faults>>

DecisionSaved(t) ==
  /\ At(t, "decided")
  /\ IF Run(t).checkpoint = "claimed" THEN Advance(t, "decision_saved", NoRefs, "lookup")
                                      ELSE Only(t, "lookup")

(* Has this decision been applied?  (existing_review.) *)
Lookup(t) ==
  /\ At(t, "lookup")
  /\ LET found == IF Run(t).scoring # NoRef THEN Run(t).scoring
                  ELSE FirstWith(bundles, Audit(t), Expected(t) + 1)
         x == IF found # NoBundle THEN found ELSE th[t].cur
         v == Version(bundles[x], Audit(t))
         applied == Latest(bundles[x], Audit(t)) = [status |-> Verdict[Op(t)], by |-> Op(t)]
     IN  th' = [th EXCEPT ![t].rev = IF v = Expected(t) THEN found ELSE x,
                          ![t].pc = IF v = Expected(t) /\ found = NoBundle THEN "apply"
                                    ELSE IF v = Expected(t) + 1 /\ applied THEN "reviewed"
                                    ELSE "fail"]
  /\ UNCHANGED <<m0, stores, browser, faults>>

(* apply_teacher_review and apply_model_rescore. *)
Apply(t, status, at) ==
  LET new == Appended(bundles[th[t].cur], Audit(t), status, Op(t), at)
      found == CHOOSE i \in SameKey(bundles, new) : TRUE
  IN  IF IsReplay(bundles, new)
      THEN UNCHANGED bundles /\ th' = [th EXCEPT ![t].rev = found, ![t].pc = "reviewed"]
      ELSE IF CanAppend(bundles, new, Audit(t), Expected(t))
      THEN /\ bundles' = Append(bundles, new)
           /\ th' = [th EXCEPT ![t].rev = Len(bundles) + 1, ![t].pc = "reviewed"]
      ELSE UNCHANGED bundles /\ Goto(t, "fail")

ApplyReview(t) ==
  /\ At(t, "apply") /\ Op(t) \in Reviews
  /\ Apply(t, Verdict[Op(t)], forms[Op(t)].at)
  /\ UNCHANGED <<m0, decisions, updates, classV, browser, faults>>

ReviewSaved(t) ==
  /\ At(t, "reviewed") /\ Op(t) \in Reviews
  /\ IF Run(t).checkpoint = "decision_saved"
     THEN Advance(t, "review_saved", [NoRefs EXCEPT !.scoring = th[t].rev], "branch")
     ELSE Only(t, "branch")

(* The submit stays in the waiting room while an item is open. *)
StaysWaiting(t) == Waits(th[t].sub.status) /\ Undecided(Rev(t))

Branch(t) ==
  /\ At(t, "branch")
  /\ IF Run(t).checkpoint # "review_saved" THEN Only(t, "inputs")
     ELSE IF StaysWaiting(t) THEN ResumeSubmit(t, "review:", "park")
     ELSE Advance(t, "events_appended", NoRefs, "inputs")

ParkReviewed(t) ==
  /\ At(t, "park") /\ Op(t) \in Reviews
  /\ Fenced(t, Submit, TRUE,
            Parked(rows[Submit], WaitingFor(Rev(t)), FALSE, NoRef, th[t].rev),
            [th[t] EXCEPT !.pc = "undecided"])

FinishUndecided(t) ==
  /\ At(t, "undecided")
  /\ LET r == Finished(rows[Op(t)], NoRefs)
     IN  Fenced(t, Op(t), ValidRow("review", r), r, Idle)

(* get_state_update_for_audit, then the frozen baseline and what is left   *)
(* to post; a rejected score posts nothing and keeps the base run's state. *)
ReviewInputs(t) ==
  /\ At(t, "inputs") /\ Op(t) \in Reviews
  /\ LET rejected == Rejected(Rev(t))
         posted == {updates[i].v : i \in {j \in DOMAIN updates :
                                            KeyOf(t) \in Keys(bundles[updates[j].bundle])}}
         known == IF Run(t).stateV # 0 THEN Run(t).stateV
                  ELSE IF rejected \/ posted = {} THEN 0
                  ELSE CHOOSE v \in posted : \A w \in posted : v <= w
         frozen == Run(t).checkpoint \in {"events_appended", "state_inputs_frozen"}
     IN  IF rejected
         THEN LET kept == IF known # 0 THEN known
                          ELSE IF Waits(th[t].sub.status) THEN 0 ELSE th[t].curV
              IN  Inputs(t, kept, LatestBaseline, IF kept = 0 THEN "fail" ELSE "close")
         ELSE IF known \in posted THEN Inputs(t, known, LatestBaseline, "close")
         ELSE Inputs(t, known, LatestBaseline,
                     IF ~ frozen THEN "fail" ELSE IF th[t].retry THEN "rebase" ELSE "check")

(* Mutant: a retry posts onto the baseline it has frozen. *)
RebaseNothing(t) == At(t, "rebase") /\ Only(t, "check")

RebaseReview(t) ==
  /\ At(t, "rebase")
  /\ LET r == Rebased(rows[Op(t)], LatestBaseline)
     IN  Fenced(t, Op(t), CanRebase("review", rows[Op(t)]), r, With(t, r, "check"))

(* From the posted state to completed, then the waiting submit. *)
ReviewClose(t) ==
  /\ At(t, "close") /\ Op(t) \in Reviews
  /\ LET cp == Run(t).checkpoint
         waits == Waits(th[t].sub.status)
     IN  Advance(t, After.review[cp],
                 CASE cp = "state_inputs_frozen" -> [NoRefs EXCEPT !.stateV = th[t].stateV]
                   [] cp = "state_saved" ->
                        [NoRefs EXCEPT !.report = TRUE, !.feedback = waits /\ ~ Rejected(Rev(t))]
                   [] OTHER -> NoRefs,
                 IF cp # "analytics_saved" THEN "close" ELSE IF waits THEN "commit" ELSE "idle")

CommitResume(t) == At(t, "commit") /\ ResumeSubmit(t, "commit:", "finish")

(* _finish_waiting_submit. *)
CommitFinish(t) ==
  /\ At(t, "finish")
  /\ LET r == Finished(rows[Submit],
                       [NoRefs EXCEPT !.scoring = th[t].rev, !.stateV = th[t].stateV,
                                      !.feedback = TRUE, !.report = TRUE])
     IN  Fenced(t, Submit, ValidRow("submit", r), r, Idle)
-----------------------------------------------------------------------------
(* rescore. *)

(* The rejected audit, in the bundle of the submit read at the start. *)
RescoreBase(t) ==
  /\ At(t, "rescore")
  /\ LET b == bundles[th[t].sub.scoring]
         targeted == Version(b, Audit(t)) = Expected(t) /\ Latest(b, Audit(t)).status = "rejected"
     IN  IF ~ targeted THEN Goto(t, "fail")
         ELSE IF Run(t).scoring # NoRef
         THEN th' = [th EXCEPT ![t].rev = Run(t).scoring, ![t].pc = "reviewed"]
         ELSE th' = [th EXCEPT ![t].cur = th[t].sub.scoring, ![t].pc = "apply"]
  /\ UNCHANGED <<m0, stores, browser, faults>>

ApplyRescore(t) ==
  /\ At(t, "apply") /\ Op(t) \in Rescores
  /\ Apply(t, "pending", today + 1)
  /\ today' = IF bundles' = bundles THEN today ELSE today + 1
  /\ UNCHANGED <<m0, decisions, updates, classV, forms, faults>>

RescoreSaved(t) ==
  /\ At(t, "reviewed") /\ Op(t) \in Rescores
  /\ IF Run(t).checkpoint = "claimed"
     THEN Advance(t, "scoring_saved", [NoRefs EXCEPT !.scoring = th[t].rev], "reviewed")
     ELSE Advance(t, "completed", NoRefs, "ensure")

(* ensure_waiting reads the submit and takes it over in whatever state. *)
Ensure(t) ==
  /\ At(t, "ensure")
  /\ LET s == rows[Submit]
         park == [th[t] EXCEPT !.pc = "park"]
     IN  \/ /\ s.status = WaitingFor(Rev(t)) /\ s.scoring = th[t].rev
            /\ Exit(t) /\ UNCHANGED <<rows, lastReview>>
         \/ /\ Waits(s.status) /\ ~ (s.status = WaitingFor(Rev(t)) /\ s.scoring = th[t].rev)
            /\ Commit(t, Submit, Resumed(s, "rescore:", 2), park)
         \/ s.status = "failed" /\ Commit(t, Submit, Claimed("submit", s, "rescore:", 2), park)
         \/ Expired(s, 1) /\ Commit(t, Submit, Leased(s, "rescore:", 2), park)
         \/ /\ Live(s, 1) /\ s.owner = "rescore:"
            /\ current' = [current EXCEPT ![Submit] = @ \cup {t}]
            /\ th' = [th EXCEPT ![t] = park]
            /\ UNCHANGED <<rows, lastReview>>
         \/ /\ s.status = "completed" \/ (Live(s, 1) /\ s.owner # "rescore:")
            /\ Exit(t) /\ UNCHANGED <<rows, lastReview>>
  /\ UNCHANGED <<recorded, stores, browser, faults>>

ParkRescored(t) ==
  /\ At(t, "park") /\ Op(t) \in Rescores
  /\ Fenced(t, Submit, TRUE,
            Parked(rows[Submit], WaitingFor(Rev(t)), FALSE, NoRef, th[t].rev), Idle)
-----------------------------------------------------------------------------
(* Failures. *)

(* AssessmentRecovery.fail compares the worker id, not the version. *)
Fail(t) ==
  /\ At(t, "fail")
  /\ IF rows[Op(t)].owner = Req(t) /\ Live(rows[Op(t)], 1)
     THEN Commit(t, Op(t), Failed(rows[Op(t)]), Idle)
     ELSE Exit(t) /\ UNCHANGED <<rows, lastReview>>
  /\ UNCHANGED <<recorded, stores, browser, faults>>

Fault == faults < Faults /\ faults' = faults + 1

(* A step of the try block raises. *)
Raise(t) ==
  /\ ~ At(t, "idle") /\ ~ At(t, "read") /\ ~ At(t, "record") /\ ~ At(t, "claim") /\ ~ At(t, "fail")
  /\ Goto(t, "fail") /\ Fault
  /\ UNCHANGED <<m0, stores, browser>>

Crash(t) ==
  /\ ~ At(t, "idle")
  /\ Exit(t) /\ Fault
  /\ UNCHANGED <<recorded, rows, lastReview, stores, browser>>

(* A lease runs out: at once when nobody renews it, else by a stall. *)
Expire(op) ==
  /\ Live(rows[op], 1)
  /\ rows' = [rows EXCEPT ![op].lease = 1]
  /\ IF current[op] = {} THEN UNCHANGED faults ELSE Fault
  /\ UNCHANGED <<recorded, current, lastReview, stores, browser, th>>
-----------------------------------------------------------------------------
Step(t) ==
  \/ ReadSubmit(t) \/ Record(t) \/ Claim(t)
  \/ Score(t) \/ Grade(t) \/ Route(t) \/ SubmitInputs(t) \/ SubmitClose(t)
  \/ CheckProcessed(t) \/ PostUpdate(t)
  \/ ReviewBase(t) \/ Decide(t) \/ DecisionSaved(t) \/ Lookup(t) \/ ApplyReview(t)
  \/ ReviewSaved(t) \/ Branch(t) \/ ParkReviewed(t) \/ FinishUndecided(t)
  \/ ReviewInputs(t) \/ RebaseReview(t) \/ ReviewClose(t) \/ CommitResume(t) \/ CommitFinish(t)
  \/ RescoreBase(t) \/ ApplyRescore(t) \/ RescoreSaved(t) \/ Ensure(t) \/ ParkRescored(t)
  \/ Fail(t)

Next ==
  \/ \E t \in Threads : Step(t) \/ Raise(t) \/ Crash(t) \/ \E q \in Requests : Post(t, q)
  \/ \E q \in Reviews \cup Rescores : IssueForm(q)
  \/ \E op \in Ops : Expire(op)
  \/ OtherPost

Spec == Init /\ [][Next]_vars
-----------------------------------------------------------------------------
(* The next step of a request's handler. *)
Labels ==
  {"idle", "read", "record", "claim", "score", "grade", "route", "inputs", "check", "post",
   "close", "base", "decide", "decided", "lookup", "apply", "reviewed", "branch", "park",
   "undecided", "rebase", "commit", "finish", "rescore", "ensure", "fail"}

Locals ==
  [pc : Labels, req : Requests \cup {NoRequest}, op : Ops \cup {NoRequest},
   run : Rows(Requests \cup {"review:", "commit:", "rescore:"}),
   sub : [status : Statuses, scoring : Nat \cup {NoRef}], retry : BOOLEAN,
   cur : Nat, curV : Nat, rev : Nat, stateV : Nat]

TypeOK ==
  /\ recorded \subseteq Ops
  /\ rows \in [Ops -> Rows(Requests \cup {"review:", "commit:", "rescore:"})]
  /\ current \in [Ops -> SUBSET Threads]
  /\ decisions \subseteq Reviews
  /\ \A i \in DOMAIN updates : updates[i].bundle \in DOMAIN bundles
  /\ th \in [Threads -> Locals]

(* A decision whose review has completed stays in the score history: the   *)
(* attempt has a bundle with the audit version it made, and no bundle says *)
(* anything else about that version, whatever reviews, rescores and late   *)
(* requests append to bundles they have read before.                       *)
CompletedReviewsKept ==
  \A r \in recorded \cap Reviews : rows[r].status = "completed" =>
    LET v == forms[r].version + 1
        having == {i \in DOMAIN bundles : Version(bundles[i], Target[r]) >= v}
    IN  /\ having # {}
        /\ \A i \in having :
             bundles[i].hist[Target[r]][v] = [status |-> Verdict[r], by |-> r]

(* A state update is computed from the learner and class snapshots it       *)
(* replaces, however long its review or its retry has waited: nothing that  *)
(* was posted in between is overwritten.                                    *)
NothingOverwritten ==
  [][updates' # updates => updates'[Len(updates')].base = LatestBaseline]_updates

(* A score waiting for a teacher or a rescore is not posted to the profile: *)
(* it takes effect after the teacher has confirmed it.                      *)
PendingNeverPosted ==
  \A i \in DOMAIN updates : \A a \in Audits :
    Latest(bundles[updates[i].bundle], a).status = "approved"

(* The attempt keeps the promise of ProfilePosting: scores reach the       *)
(* profile in growing portions, never twice, and a completed submission    *)
(* refers for good to exactly the portion its state update posted.         *)
Posting == INSTANCE ProfilePosting WITH
    posted  <- [i \in DOMAIN updates |-> Keys(bundles[updates[i].bundle])],
    answer  <- IF rows[Submit].status # "completed" THEN {}
               ELSE Keys(bundles[rows[Submit].scoring])

PostsOnce == Posting!Spec
-----------------------------------------------------------------------------
(* Handlers run to their end, the leases of dead ones run out, and students *)
(* and teachers post a form again as long as its page accepts it, or else a *)
(* form with the same decision that they have been given since.             *)
Alike(q) ==
  {q} \cup {r \in Reviews : q \in Reviews /\ Target[r] = Target[q] /\ Verdict[r] = Verdict[q]}

Fairness ==
  /\ \A t \in Threads : WF_vars(Step(t))
  /\ \A op \in Ops : WF_vars(Expire(op) /\ current[op] = {})
  /\ \A q \in Requests : SF_vars(\E t \in Threads, r \in Alike(q) : Post(t, r))

FairSpec == Spec /\ Fairness

(* A recorded submission is eventually scored and posted, or waits for a   *)
(* teacher, whatever exceptions and crashes its requests go through; only  *)
(* a state update of another student of the class can leave it behind.     *)
SubmissionSettles ==
  Submit \in recorded ~>
    \/ rows[Submit].status \in {"completed"} \cup WaitingStatuses
    \/ classV > Len(updates)

(* A recorded decision is eventually applied and its review completed, so  *)
(* that it does not block the other reviews of the paper.  A review that   *)
(* another posting of the class has stopped is carried on by the same form *)
(* or by the next one with the same decision: nobody decides twice.  Not   *)
(* when a request fails on the way, nor when a form has been posted after  *)
(* one issued later: bundles are then taken in the order of the forms.     *)
DecisionsSettle ==
  []<>(\/ \A r \in decisions : rows[r].status = "completed"
       \/ faults > 0
       \/ bundles # <<>> /\ Winner(bundles) # Len(bundles))

(* What a form has recorded is brought to an end, submissions and decisions. *)
RecordedFormsEnd == SubmissionSettles /\ DecisionsSettle

(* Decisions also when requests fail: a review is repeated until it completes.   *)
FailedReviewsSettle ==
  \A r \in Reviews : r \in decisions ~> rows[r].status = "completed"
=============================================================================
