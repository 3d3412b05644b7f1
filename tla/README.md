# TLA+ verification of 课业智析 (course_insight)

course_insight is a teaching-assistance platform that runs on one machine or in
one school: a Django web application, an ingestion worker and an outbox worker
share a SQLite or PostgreSQL database and a directory of files. This directory
holds TLA+ specifications of the parts of it whose correctness depends on the
order in which things happen, the TLC configurations that check them on small
instances, and TLAPS proofs of the main safety theorems for every size.

Source paths below are relative to `src/src/course_insight/`; a line number is
written `file:line`.

## The system

| Component | State it keeps | Operations | Here |
|---|---|---|---|
| m0 assessment-run store (`modules/m0_platform/workflow.py`, `infrastructure/*/m0_repository.py`) | one row per operation (`submit:…`, `review:…`, `rescore:…`): status, checkpoint, version, `locked_by`, lease, references | insert, adopt legacy, claim, reclaim, renew, advance, rebase, complete, fail, park, resume, finish | `RunRows`, `AssessmentRuns` |
| assessment recovery (`application/assessment_recovery.py`) | none; the run a request thread believes it owns | the calls above with lease, version and clock | `AssessmentRuns`, `AssessmentWorkflow` |
| assessment workflow (`application/assessment_workflow.py`, `assessment_results.py`) | none; locals of a request | start, submit, review, rescore, result pages | `AssessmentWorkflow`, `AssessmentStart` |
| m8 scoring history (`infrastructure/sqlite/m8_repository.py`, `modules/m8_assessment_scoring/`) | append-only scoring bundles | finalize, apply review, apply rescore | `ScoreHistory`, `AssessmentWorkflow` |
| m5 state updates (`infrastructure/sqlite/m5_repository.py`) | learner and class snapshots | insert_or_get_state_update | `AssessmentWorkflow`, `ProfilePosting` |
| m9 review decisions | one decision per audit version | record_teacher_review | `AssessmentWorkflow` |
| form flows (`django_app/flow_tokens.py`) | identity and issue time of a form | issue, post | `AssessmentWorkflow` |
| m0 event outbox (`outbox.py`, `outbox_worker.py`, `m0_outbox_repository.py`, `event_store.py`) | events, delivery rows, JSONL audit log | append, claim, renew, deliver, acknowledge, fail | `Outbox`, `AuditTrail` |
| knowledge ingestion (`application/knowledge_ingestion.py`, `django_app/views/knowledge.py`, `ingestion_worker.py`) | files and versions, jobs with stage, lease and operations, releases, active release of a class | upload, edit, stage a deletion, confirm, claim, build, publish, fail | `KnowledgeIngestion`, `ReleaseLine` |
| learning projection (`django_app/learning_projection.py`, `suggested_reviews.py`) | receipts, concept counters, wrong-question ledger, suggested cases, correction papers | project, revise, rebuild, follow up | `LearningProfile` |
| m6 tutoring state machine (`modules/m6_tutoring_fsm/`, `infrastructure/*/m6_repository.py`) | chain of turns of a session, policy executions | prepare execution, decide next action | `TutoringSession` |
| m1 import, m2 index and m3 publication on PostgreSQL (`application/coordinator.py`, `infrastructure/postgresql/m1_m2_m3_repository.py`, `modules/m3_knowledge_bundle/`) | course import, vector index with staging, knowledge bundle, teacher reviews | initialize_course; draft, submit, approve, reject, recall | `CoursePublication` |
| SQLite to PostgreSQL import (`infrastructure/postgresql/sqlite_import*.py`) | checkpoint file with a cursor | run, verify, apply a batch | `SqliteImport` |
| account and class governance (`django_app/account_governance.py`, `account_file_cleanup.py`, `class_management.py`) | accounts, memberships, queue of files to remove | erase an account, add and remove students, clean up | `AccountErasure` |
| m4 task orchestration (`modules/m4_task_orchestration/`, `infrastructure/sqlite/m4_repository.py`) | intent decisions, task plans | create_task_plan | `AssessmentStart` |
| m8 paper generation (`modules/m8_assessment_scoring/paper_generator.py`, `selection_policy.py`) | frozen papers | generate_paper | `PaperGeneration`, `AssessmentStart` |
| m5 learner models, m7, scoring rules, m9 reports, views, configuration, command line | files, numbers, texts | parsing, arithmetic, calls of a language model, rendering | not modelled, see the end |

`PROJECT.json` lists every component with its files and what is left out.

### How the parts interact

A request thread records its operation in m0 (`_record`), claims it under a
lease, and then works through a chain of checkpoints. Between two checkpoints it
changes *other* stores: M8 (scores), M9 (decisions), M5 (learner and class
state), M6 (tutoring). Those stores do not know the lease. A thread that dies,
raises or stalls is replaced by a later request with the same operation
identity, which repeats what was not checkpointed and relies on each store to
recognise the repetition. A submission with items that need a teacher is
*parked*; every review (and rescore) resumes it and parks it again under a
worker id that all requests share, and the last one completes it. After the
workflow has answered, the web view projects the result into the learning
profile, in transactions of its own. Learning events leave through the outbox:
one transaction stores event and delivery row, worker processes claim rows in
leased batches and append them to a log file under a file lock.

Beside that, a teacher's knowledge files become releases: the web views record
what is to change and confirm it into a job, and a worker builds the release in
many small statements and publishes it in one transaction. On PostgreSQL a course
is published through M1, M2 and M3 by `initialize_course`. Accounts are erased by
the administrator across all modules, and a database is moved from SQLite to
PostgreSQL by an import that can be interrupted.

### What is hard

Interleavings of requests on one paper; leases that expire under a thread that
still runs; failures between an effect and its checkpoint; values read once and
used much later (the submit's status, the effective bundle, the frozen
baselines, a tutoring state, a result to project, the clock); retries that must
finish what another request began; two workers that clean up after each other; an
approval that is recalled while it is being used; a log file that a crash leaves
half written. `PROJECT.json` lists these hazards under "hazards", each at its
line with the properties that cover it.

### What makes each part correct

- *Run store*: a stored row can always be loaded again; two threads never hold
  one version of a run; a live lease protects its run; a completed run never
  changes; a baseline is final once state was computed from it; one submit and
  one open review per paper.
- *Workflow*: evidence reaches the profile in growing portions, once, on current
  baselines and only when decided (it does not always); no completed decision is lost
  from the history; no decision disappears from the page (one can); score
  histories chain (they need not); submissions and decisions settle.
- *Start*: every page a student was sent to can be shown again, all posts of one
  form come to the same page, and a form posted often enough is answered (it is not).
- *Papers*: a section is built exactly when some choice of questions meets its
  blueprint, and what is built does; weak concepts get their share of a stage paper.
- *Outbox*: no event is lost, none is logged twice, a lease is respected, every
  event ends in the log or as a dead letter.
- *Ingestion*: releases form one line, one job adds at most one; a job that ended
  keeps its result; a successful release drops no file; every job ends.
- *Learning profile*: counters and ledger are those of the results the receipts
  name, in whatever order and however often results are projected.
- *Tutoring*: every turn is safe after the turn it follows and decided under the
  policy bound first; requests settle.
- *Publication*: an index is complete when it becomes ready, what is published stays
  (a ready index can lose documents to an open cleanup), it is
  published only while approved, every request is answered.
- *Import*: a checkpoint never covers a row that is not there, an import replaces
  nothing and completes.
- *Erasure*: what remains of an erased student was written after the erasure had
  passed; queued files go.

## Modules

| Module | Role |
|---|---|
| `RunRows` | operators on one row: checkpoint chains, `ValidRow` (`AssessmentRun.__post_init__`), lease tests, one operator per way to change a row; no state |
| `AssessmentRuns` | the store, request threads with their memory of runs, a clock |
| `AssessmentRuns_proofs` | eight theorems about it |
| `ScoreHistory` | bundles of an attempt and what M8 accepts; no state |
| `AssessmentWorkflow` | handlers of submit, review and rescore over m0, m5, m8, m9 and the browser; composes `RunRows` and `ScoreHistory` |
| `AssessmentWorkflow_proofs` | typing, and what a state update posts and replaces |
| `ProfilePosting` | abstract specification of an attempt, implemented by `AssessmentWorkflow` (`PostsOnce`) |
| `Outbox` | outbox rows, daemons, flushers, the log |
| `AuditTrail` | abstract specification of the outbox, implemented by `Outbox` (`DeliveredOnce`) |
| `Outbox_proofs` | its invariants and the refinement |
| `KnowledgeIngestion` | knowledge files, jobs, workers and releases of one class |
| `ReleaseLine` | abstract specification of the releases, implemented by `KnowledgeIngestion` (`PublishesOnce`) |
| `KnowledgeIngestion_proofs` | its invariants, the refinement, and what one worker at a time keeps |
| `LearningProfile` | the projection of results into one student's profile |
| `AssessmentStart` | posting the start form: m4's decision and task, m8's paper, the start run; composes `RunRows` |
| `AssessmentStart_proofs` | typing, that every page can be shown again, and the typing of the run store beside it |
| `PaperGeneration` | which questions a paper gets: the search for the sections of a blueprint, call by call, and the selection modes |
| `TutoringSession` | one tutoring session and the threads that decide its turns |
| `TutoringSession_proofs` | typing, the safety envelope and the binding of policies |
| `MCOutboxAndTutoring` | runs `Outbox` and `TutoringSession` side by side |
| `CoursePublication` | one course on PostgreSQL: import, index, bundle, review |
| `SqliteImport` | the import and its checkpoint, beside both applications |
| `AccountErasure` | a student, a teacher and their erasure |
| `MCCourseDatabase` | runs `CoursePublication`, `SqliteImport` and `AccountErasure` side by side (they share no row) |
| `CourseDatabase_proofs` | safety theorems about the three parts, and the typing of all of them together |
| `MCStudentRecords` | runs `AssessmentRuns` (one paper), `LearningProfile` and `PaperGeneration` side by side |
| `StudentRecords_proofs` | that the profile is what the newest results say, that the search is exact, that stage papers are fair, and the typing of all three parts |
| `MCAssessmentRuns` | runs `AssessmentRuns` (one submit) and `AssessmentStart` side by side |
| other `MC…` | constants for TLC |

### `AssessmentRuns`: state and actions against the code

`rows` is the table `m0_assessment_runs` (checksums, snapshot pairs and policy
identities are opaque; `updated_at` and `error_code` are left out). Every
repository method is one `BEGIN IMMEDIATE` transaction and so one action; its
row-level part is an operator of `RunRows` with the method's guards. `held[t][op]`
is the `AssessmentRun` object in a thread's hand (version and owner are all that
is compared). The caller reads `clock` *before* the transaction: a call of thread
`t` works with any reading between its previous call (`since[t]`) and now, which
is where late renewals and take-overs come from. The worker id of a request is
its form flow (`FlowOf`); side owners are the ids `review:`, `commit:` and
`rescore:` under which a request moves a submit it did not record.

Actions and methods: `Record` insert_or_get_assessment_run; `AdoptDependencies`,
`AdoptPolicy` adopt_legacy_assessment_run and the replay path; `Claim`, `Reclaim`
AssessmentRecovery.claim; `Renew` \_renew; `Advance` advance and complete;
`Rebase` rebase_review_state_inputs; `Fail` fail; `Abandon` a crash or an
exception that cannot be recorded; `ParkScored`, `ParkResumed`, `Resume`,
`EnsureClaim`, `EnsureJoin` the waiting room; `FinishTransient`,
`FinishUndecided`, `CommitWaiting` finish.

Legacy rows (written before the dependency columns) are initial states:
`LegacyOps` says which rows are old, `LegacyStates` which columns they can have; a
running one is held by a process of the old version and has a lease that may be live.

### `AssessmentWorkflow`

One attempt, one paper, one learner; `th[t]` holds the locals of a request
thread and its program counter, one label per transaction. An effect and the
read that decides it are separate actions when another thread can come between.
A row's version matters only as "is it the one I was given", so the module keeps
the set `current[op]` of threads that know the current version; `AssessmentRuns`
shows why this is enough. The clock stands still: a lease is live until `Expire`
takes it away. A form carries the audit version of its page and its issue time,
which becomes `reviewed_at` and then `finalized_at` of a bundle.

Other students of the class are one action that moves the class version (`OtherPost`).

### `Outbox`

`rows` is `m0_event_outbox` (a deleted or never written row is "none"),
`accepted` is `m0_learning_events`, `log` the complete lines of the JSONL file and
`torn` a partial last line. A daemon claims a batch, renews before each record,
delivers it in a sink thread with a heartbeat, and acknowledges or records the
failure; a flusher (`deliver_pending`) claims a single row. `available_at` is
reduced to *due or not*, a lease to *live or not*; both change at any moment. The
sink refuses a log it cannot validate: a torn line, and a record that
`str.splitlines()` cuts in two (`Splitting`).

### `KnowledgeIngestion`

`source` and `version` are the statuses of the files and their versions, `jobs`
the job rows with their operations, `releases` the releases in order of their
version numbers. The teacher's views are the actions `Upload`, `StageDelete`,
`EditQuestion`, `ConfirmRead` and `ConfirmSave` (the view reads the pending
changes and saves the job later). A worker opens a job (`Open` chooses a full or
an incremental build), reads files, extracts batches, links, and publishes:
`Publish` is the one transaction of `_publish_release`. Failing is three steps, as
in the code. A file's text is "readable or not", the links have "issues or not". A
lease is none, live or lapsed; it lapses under a living worker only as often as
`MaxStalls` allows. Nothing in `_record_stage` and `_fail_job` compares the worker.

### `LearningProfile`

`scores[a]` are the results M8 has stored for an attempt, `receipt[a]` the one the
profile reflects. A request first *holds* a result (`Submit`, `Review` followed by
`ReadContext`, `View`), then synchronises the suggested cases, then projects it:
first projection and revision are separate actions because the insertion of the
receipt can be refused. Correction papers and withdrawn questions touch the same
ledger. `Rebuild` recomputes everything from the receipts.

### `AssessmentStart`

One post of the form is a request that goes through `visit[v].at`: it reads the
profile (`selection_context_for_learner`), looks its intent up, decides, stores the
decision and goes on with the one that was stored first, saves the task, stores the
paper, and drives the start run through `RunRows`. The form's token fixes the
session; the release it is posted under is part of the form, since it is part of
every identity m4 derives. A paper is known by the profile it was generated from, as
far as its mode reads one (`same_paper_generation` compares all but the time). Rows
carry no growing version: `holds` says whether a request's version is the current
one. `claim` has no effect unless it succeeds, so it is one action with the
`reclaim` that may follow it. All requests of a start share one worker id.

### `PaperGeneration`

The search of both `_select_*_items` is a state machine over `search`: `order`, the
ranked candidates behind the anchors; `failed`, the keys of positions remembered to
have failed; `calls`, the open calls of the recursion, each with its position and what
it has still to try. `BuildSection` checks the section and makes the first call; `Take`
and `LeaveOut` are the two recursive calls, `Return` is `return None`, `RefuseSection`
and `FillSection` end the recursion without and with a selection, which passes through
all open calls. In an unweighted section every question counts for concept 0, of which
no places are due, so both variants of the code share one search. Every step of
the search being an action, the module needs no `RECURSIVE` operator and can be proved
about. `Orders` is any ranking of interchangeable questions that the personalisation
can produce and more.

A selection mode is one action, and the stage assessment one action per round. Points
are integers and shares exact fractions (ranks of remainders), where the code adds
floats with a tolerance of 1e-9. The branch of `_stage` for a round that takes nothing
cannot be reached with exact shares (`SharesAddUp` below), and is left out. The
refusals behind the search repeat what the search has established
(`paper_generator.py:324`, `:330`) or what the blueprint's contract has (`:153`,
`contracts/knowledge.py:580`), so they cannot be reached either; the one of a question
whose fixed parameter its own rule does not accept (`:603`) can: parameters are not
modelled, and banks are assumed to have none of these.
`PlansAssumption` is what the contracts validate before a paper is asked for.

### `TutoringSession`

`turns` is the chain of decisions, `executions` the policy executions by request,
`frozen` the policy recorded in the assessment run. A thread loads the execution,
resolves the previous turn, reads the evidence, binds, freezes, looks the decision
up and commits; every one of these reads is an action, and the commit compares
what the repository's transaction compares. The bandit is "any candidate".

### `CoursePublication`, `SqliteImport`, `AccountErasure`

Every transaction is one action. `CoursePublication` keeps transactions that hold
the advisory lock of a review open over several actions; one index batch is one
action, and what a batch holds is the content it was computed from. The cleanup of a
staging index is a transaction of two statements at READ COMMITTED that does not lock
the index row: `DeleteDocuments` notes in `call[c].deleted` which documents the first
deletes, `DropIndex` is the second with the commit, which makes the deletion visible.
In between `publish` counts these documents still, while a second deletion of them
waits for the commit (`NoneDeletedBut`).
`SqliteImport` has one row per batch; a row refers to at most one other row.
`AccountErasure` has one student, whose request writes to three stores and one
file, and one teacher; `late` is a history variable: what was written to a store
the erasure had passed. Queued files are removed by two callers, the commit of an
erasure and the command; each reads a batch and then, job by job, removes the file
and the row of the job in two steps. `roster_version` is left out, since nothing reads it.

## Runs

At most two threads or workers, since the hazards are pairwise (an owner and a
successor, a builder and one that cleans up). `CHECK_DEADLOCK FALSE` stands where
bounds on versions, faults or forms let every instance stop.

| Run | Instance | Shows |
|---|---|---|
| `RunsLeases`, submit | two threads with distinct flows, one submit, lease 1, clock ≤ 2 (one expiry and the take-over's expiry), version ≤ 12 (the nine transitions to completion and three failures or take-overs) | `SoleHolder`, `LiveRunFenced`, `CompletedResultsFinal` |
| `RunsLeases`, start | one form with a hint or a free text that can be read as diagnostic, practice or nothing; two requests, one change of the profile (which leaves practice without questions), one death or stall | `AnswersRecoverable` |
| `WorkflowRaces` | two open items, two threads; one fault, another student's posting and a review of each item; or no fault, two approvals, a rejection and a rescore | `TypeOK`, `CompletedReviewsKept`, `PostsOnce`, `NothingOverwritten` |
| `WorkflowRepeats` | a submission with any mixture of open and settled items, another student posts once, one thread; two faults and a review of each item; or no fault, a review of one item and two equal reviews of the other | `RecordedFormsEnd` (`SubmissionSettles` and `DecisionsSettle`) |
| `WorkflowPendingPosted` | three open items, a review of each, two threads, no fault | violated: `PendingNeverPosted` |
| `WorkflowReviewCrash` | two reviews, one crash | violated: `FailedReviewsSettle` |
| `OutboxAndTutoring`, outbox | two events, one of them unreadable once logged; two daemons (batch 2), one flusher, two faults, two retries | `TypeOK`, `ClaimRespected`, `DeliveredOnce`, `EventsSettle` |
| `OutboxAndTutoring`, tutoring | three results, two threads, one failure, crash or take-over, active policy | `TutoringTypeOK`, `EveryTurnSafe`, `PolicyBound`, `SessionSettles` (`RequestsSettle`) |
| `IngestionJobs` | one worker that may die once, a knowledge and a question file with up to two versions, two jobs, one edit or deletion | `TypeOK`, `SettledJobsKept`, `NothingDropped`, `JobsSettle` |
| `IngestionTakeover` | two workers, one stall, two jobs | `PublishesOnce` |
| `StudentRecords`, runs | two submissions (one a legacy row in any old state) and two reviews of one paper, two baselines, no expiry | `RowsReloadable`, `PaperExclusive`, `SavedBaselineKept` |
| `StudentRecords`, profile | two attempts that share a question, three results, two requests, a correction paper, a withdrawn question (after the third result none is withdrawn, and the paper occurs beside one attempt) | `ProfileMatchesReceipts` |
| `StudentRecords`, papers | all banks of three questions over two concepts with one or two points against 24 first sections (anchor or none, one or two places, equal, unequal or no weights) and a second one; five questions over three concepts with every combination of three masteries and three places; the other modes with up to four questions | `SectionExact`, `StagePaperFair` |
| `StartCrash` | one form with a hint, one request at a time, one death or stall | violated: `FormsSettle` |
| `CourseDatabase`, publication | two requests for one course with two contents, three seeds (two valid), one review, index of two batches, one killed request; lexical with approval, lexical without, vector | `ReadyWhenComplete`, `PublishedStays`, `PublishedWhileApproved`, `EverythingEnds` (`PublicationRequestsEnd`) |
| `IndexDiscardRace` | as `CourseDatabase`, publication | violated: `ReadyIndexImmutable` |
| `CourseDatabase`, import | two runs on one checkpoint, three rows (one refers to another), three starts, one death, one write of either application | `CheckpointCovered`, `NeverReplaces`, `EverythingEnds` (`ImportCompletes`) |
| `CourseDatabase`, erasure | both databases, two attempts in two classes, two requests, a failure, an erased teacher, one file that cannot be removed, batches of two | `ResidueIsLate`, `EverythingEnds` (`FilesRemoved`) |

`WorkflowRaces` and `WorkflowRepeats` allow either of two sets of forms and
disturbances (`RacingForms`, `RepeatedForms` in `MCAssessmentWorkflow`); what does
not occur together in one of them is not explored. The threads of the first are
alike, which TLC uses as a symmetry. `CourseDatabase`, `RunsLeases` and `StudentRecords` also check the type invariants
of their parts (`TypeOK`, `RunsTypeOK`, `RecordsTypeOK`). A behaviour of these three and of `OutboxAndTutoring`
chooses one part and leaves the others alone: the parts share no row, so their
product would only repeat the states.

Bounds. `MaxVersion`, `MaxTime`, `MaxState` (`AssessmentRuns`), `Faults`,
`OtherPosts` (`AssessmentWorkflow`), `MaxClaims`, `Faults` (`Outbox`), and all
constants that begin with `Max` in the other modules exist for TLC only, but for
`MaxRetries` (`Outbox`), which is a setting. `MaxClaims` = 5 is never what stops a
daemon of the intact specification: a flusher leaves at most `MaxRetries` = 2
attempts, each of the two faults can cost one more claim, and the next failure
ends the row. One fault per instance is what separates an interrupted request from
its retry. Three results or seeds are needed for "older, newer, newest" to differ.
A paper of three places for
five questions needs two or three rounds. In the erasure, batches of two and one stuck file make the queue longer than a
batch with a failing job at its head.

Each property of a passing run comes with a mutant of one modelled definition,
defined in the module just before the definition it replaces, under which TLC
finds the property violated.

### Fairness

- `AssessmentWorkflow!Fairness`: a running handler goes on to its end (weak
  fairness on `Step`: no handler waits for another one, and the database lock is
  released by every transaction), a lease nobody holds any more runs out, and a
  user posts a form again and again as long as the page accepts it, or an equal form
  (the same item and verdict) that the page has issued since (strong
  fairness on `Post`: the page may be busy in between). Nothing forces a fault.
- The liveness runs of the workflow use one thread. With two requests of one
  form flow, the superseded one can fail its successor's run again and again; and
  `retrying_failed` is read when the run is recorded, before it is claimed, so two
  requests that alternate can both miss that they have to rebase.
  A livelock of two tabs that post in step for ever is not a question asked here.
- `DecisionsSettle` excepts failed requests, which `WorkflowReviewCrash` is about, and
  a form posted after one that was issued later (see below). Decisions and completed
  reviews are never undone, so "again and again all recorded decisions are complete"
  says of each that it is completed eventually; `EventsSettle` and `RequestsSettle`
  are put in the same way.
- `Outbox!Fairness`: daemons poll, a worker that has begun works on, an abandoned
  lease runs out, a delay passes. Nothing forces a flusher to claim.
- `KnowledgeIngestion!Fairness`: the worker loops for ever, a confirm request
  ends, a lease that nobody renews lapses. Teachers are free not to do anything.
- `TutoringFairness`: threads go on, and a result that was not saved is posted
  again (the assessment run stays claimable).
- `PublicationFairness`: a request that has begun goes on; nobody need begin one.
- `ImportFairness`: the command goes on and is started again after a death.
  `ImportCompletes` is conditional on nobody writing either database, which is
  what the operator is told to ensure.
- `StartFairness`: a request goes on to its end, a lease lapses (at once when its
  request is dead; under a living request only as a stall, which counts as a fault),
  and the student posts the form again and again.
- `ErasureFairness`: the cleanup command is run again and again.

## What the violated runs show

`WorkflowReviewCrash` (`application/assessment_workflow.py:810`): a crash between
parking the submit and completing the review leaves the review neither resumable
(the page has moved on) nor replaceable (`WORKFLOW_BUSY`).

`WorkflowPendingPosted` (`application/assessment_workflow.py:681`): a review reads the
submit once. Another review parks it again on its own result and has it resumed
("running") for the moment between `resume_parked` (801) and `park` (806). Who reads it
then concludes that nothing waits, skips the waiting room (792) and posts the whole
bundle to the profile, with the score of the third item, which is still open. With one
or two open items no review both reads in that moment and leaves an item open.

`IndexDiscardRace` (`infrastructure/postgresql/m1_m2_m3_repository.py:1438`): the
first statement of `discard` deletes the documents of a staging index; before it
commits, another builder's `publish` counts them all and sets `ready`; the second
statement then finds nothing to delete, and the commit leaves a ready index without
documents, which a second build refuses to touch.

`StartCrash` (`application/assessment_workflow.py:192`): a request that dies after
the checkpoint `task_saved` leaves a start that nobody completes. The next post
reclaims the run and advances it to `task_saved` again, which `advance_run` refuses;
so does every post after it, and the paper, stored as it is, can never be answered.
With the step that follows the row's own checkpoint in place of `NextStep`, the
property holds.

## Other behaviours seen while modelling

The instances above stay clear of the following, or the properties are stated so
that they do not exclude it; nothing is claimed about them.

Workflow and outbox:

- `fail` (`assessment_recovery.py:182`) reads the row again and compares only
  `locked_by`. A double POST has one worker id, so the first request's exception
  fails the run the second has taken over; `LiveRunFenced` therefore needs
  distinct flows.
- `PostsOnce` holds in the instances of `WorkflowRaces`. With three open items it
  fails for the reason `WorkflowPendingPosted` shows. With two it fails when a lease
  runs out under a rejection: the rejecting review is posted while another review
  has just completed and is about to finish the waiting submit; it parks the submit
  and is posted a second time in that moment, and the second request, which has read
  the submit as not waiting, keeps the state of the other review (841). The third
  request then finds a state and finishes the submit with the rejected bundle.
  `CompletedReviewsKept` holds there too.
- Three open items and one lost lease: `resume_parked` (`assessment_recovery.py:274`)
  checks neither version nor lease and every review of a paper has the same worker id
  there. A review that has lost its lease after its bundle was saved parks the submit
  on that bundle, after another review was completed on a newer one: the page no
  longer shows what the completed review has decided.
- The newest bundle may lack a decision (`m8_repository.py:422`). A review of item b
  rejects, and the review of item a, from a form issued before, has saved its bundle
  but not parked the submit. The rescore of b starts from the bundle the submit refers
  to (`assessment_workflow.py:1149`). The writer compares it with the bundle of the
  latest `finalized_at`, which is b's, and not with the one saved last, so the new
  bundle lacks the review of a. `CompletedReviewsKept` claims only that the record of
  a decision stays in the history and that no other takes its version.
- No overlap is needed for this one (same line): the form for b is issued, then the
  one for a; a is posted first, then b. `finalized_at` is the time the form was
  issued, so a's bundle, which lacks b's review, stays the winner. The next review of
  b saves its decision, is refused as `REVIEW_VERSION_CONFLICT` on every attempt, and
  the paper is `WORKFLOW_BUSY` for every other review.
- A submit that froze its class baseline before another student posted is refused
  on every retry (`m5_repository.py:109`); only reviews may rebase.
  `SubmissionSettles` excepts it.
- The sink cuts the log with `splitlines()` (`outbox.py:195`), which also breaks
  at U+0085, U+2028 and U+2029. `json_io` leaves these in a record, so one event
  that holds one makes the log unreadable, and all later events become dead
  letters. A dead letter counts as settled in `EventsSettle`.

Start:

- A start that was interrupted after its paper was stored, and is repeated after
  another attempt changed the profile, generates another paper for the same task and
  is refused for ever (`m8_repository.py:710`), with an exception the view does not
  catch. `FormsSettle` is checked with a profile that stays.

Ingestion:

- With two workers `SettledJobsKept` fails: `_record_stage` and `_fail_job` of the
  late worker write over a job the other one has settled. The lock file
  (`run_ingestion_worker.py:189`) is what keeps the second process away; it is
  not modelled, and its removal of a stale lock is itself a race.
- A source whose deletion is pending is activated again when an earlier job
  publishes (`knowledge_ingestion.py:1770`): the deleted content stays published.
- `_process_incremental_knowledge_change` (`knowledge_ingestion.py:607`) marks a
  version that cannot be read FAILED even when it is the active one (the full build
  and the question path touch staged versions only). After a second confirmation of
  a published file and a job that fails, the next full build finds no version for
  it, and a release that is reported succeeded drops it. `NothingDropped` therefore
  excepts files whose shown version is no longer active; the first attempt at its
  proof found this, with three jobs where the run has two.
- A version that failed and is confirmed again gives a job that succeeds although
  the file is not in the release; an edit uploaded while a job runs loses its
  staged status.

Learning profile and class snapshots:

- A result is read before the projecting transaction and projected without
  comparing versions: an older one may replace a newer until the next view.
- A request that dies between submit and synchronisation never creates the
  suggested case; a late synchronisation reopens a decided question; an abandoned
  correction paper stays linked and blocks the resolution; a rebuild reopens
  retired rows.
- Class snapshots are found by their input checksum: after the roster went A, B, A
  the row with the latest creation time is B's (`current_class_learning_snapshot`);
  the views use the function that finds the right one.

Tutoring:

- An execution bound before another turn of the same session commits can never be
  used again; it takes two requests that share a session. A session at S5 has no
  candidates, and every further request fails.
- `_commit_policy_execution` swallows a repository failure. A rules execution
  frozen into the run that way is not the one stored later, and
  `verify_policy_execution` (`assessment_dependencies.py:110`) then fails for ever.
  `RequestsSettle` excepts these three cases by name.

Publication and import:

- Two conflicting drafts of one review created at once on PostgreSQL: both calls
  report success, one draft is not stored (`ON CONFLICT DO NOTHING` without a
  second look), where `teacher_review.py:132` promises to "reject a conflicting
  identity". Retrieval audits are inserted the same way.
- `initialize_course` makes the index ready before M3 validates or asks for an
  approval, and a ready index refuses a second `begin`: a request that fails later
  cannot be repeated for the same package version. Two builders can both fail,
  each cleaning up the staging of the other. A rejected validation stored under
  the review lock is rolled back with it. The web entry to the review is disabled
  (`teacher.py:1655` answers 410); only API and tests call it.
- On SQLite the review lock is local to a process; the module models PostgreSQL.
- Two import runs may set the shared cursor back, which costs work but loses
  nothing. A row the live application changed makes the import stop for ever; an
  outbox row delivered and deleted between a batch and its cursor is inserted
  again.

Erasure:

- On PostgreSQL `_frozen_attempt_ids_for_actor` (`account_governance.py:327`)
  returns nothing, so frozen submissions are never removed, and the erasure of a
  teacher always fails. A request that is running while its student is erased
  leaves rows or a file that nothing removes: also a file that is frozen between the
  two steps by which its job is cleaned (`FilesRemoved` excepts late files). A thousand files that cannot be
  removed at the head of the queue stop the cleanup.

## Proofs

tlapm checks every step of the proof modules with Z3, Zenon and LS4.

`AssessmentRuns_proofs` holds for every set of operations, threads, flows,
baselines and checksums, every lease length and every bound, from the named
assumptions of `RunRows` and `AssessmentRuns`.

- *Typing*, *Reloadable*, *LeasesBounded*, *SoleHolding*: `RowsReloadable` is not
  inductive: that a completed submit has a report exactly when it has a state
  follows from which checkpoints it passed. `RowGood` adds that a pending row is
  at its first checkpoint, that a row is owned exactly while running, and that a
  state reference exists only past the M5 write. One lemma per way to change a
  row shows `RowGood` kept. `StoreInv` adds that a thread never holds a version
  above the row's and that two threads never hold the same one; it is preserved
  because every call that hands out a run moves the version.
- *ResultsFinal*, *BaselineKept*: action properties, from the effect a call can
  have on a row (`RowMove`) under `StoreInv`.
- *PapersExclusive*: for any number of papers; it needs `LegacyRowsDistinct`, the
  assumption that old rows did not break it already.
- *LiveFencing*: `LiveRunFenced` under `FlowsDistinct` (no two requests share a
  flow); the first observation above shows that the assumption is needed. The
  invariant `Fenced` says that a running row's owner is a thread that holds its
  current version or has let it go.

`Outbox_proofs` holds for every set of events, daemons and flushers, every batch
size, retry limit and number of faults. `Inv` = `TypeOK` ∧ `NeverLost` ∧
`LoggedOnce` ∧ `Grounded`, where `Grounded` says that only accepted events have
rows and claims, and that a worker about to acknowledge has its event in the log:
without it a deletion could lose an event. One lemma per action shows that it
keeps `Inv`, is a step or a stutter of `AuditTrail`, and respects live leases;
*NothingLost*, *NothingLoggedTwice*, *ClaimsRespected* and *Implements* follow.

`CourseDatabase_proofs`, publication: for every number of callers, contents, seeds,
reviews and batches and all settings. `PublicationInv` = `StoreOK` ∧ `IndexOK` ∧ `CallsOK`:
`IndexOK` says that a row of an index, staged or ready, was computed from the
package that is stored, whoever wrote it; this is why `publish` may count rows
instead of comparing them: an index that becomes ready has all its rows at that moment
(*ReadyIndexComplete*). That a vector index keeps them cannot be proved, see
`IndexDiscardRace`; a lexical one, which is never cleaned up, does, and the invariant
says so. `CallsOK` says what each request
relies on between its transactions: a request past the second look at its review
holds the lock and the review is still approved, and at most one request is about
to commit a bundle, which its seeds may be stored as. Every step keeps it, since
one caller touches nothing that another relies on (`Yields`).
*PublishedUnderApproval* and *PublishedForGood* follow; the latter says that a bundle
never changes and that a ready index changes only by the commit of such a cleanup.

`CourseDatabase_proofs`, import: for every number of rows, references between them,
versions of a row, runs and deaths. `ImportInv` adds to `ImportTypeOK` and
`CheckpointCovered` what a run relies on between two of its transactions
(`RunOK`): a run that applies or writes its cursor has everything below the cursor
in the target, whatever made it trust the cursor at first. *CheckpointsCovered* and
*NothingReplaced* follow from one lemma per action.

`CourseDatabase_proofs`, erasure: for every number of classes and attempts, all
stores in any order, every batch size and bound. `ErasureInv` says why
`ResidueIsLate` survives a step: a store this erasure has purged holds late rows
only (`PurgedLate`); on SQLite a file on disk belongs to a run the erasure will
find, or is queued, or late (`FilesReached`); cleaners are at work only after an
erasure, so a file that comes back under their hands is late (`CleanerOK`). The
lemmas on queueing (`SetToSeq`) and on dropping a job (`RemoveAt`) say what both
do to the set of queued files. *ErasureTyping* and *NothingElseStays* follow.
Each step of `MCCourseDatabase` is a step of one part and a stutter of the others,
so its behaviours are behaviours of every part (`EachPart`) and what is proved of a
part holds beside the others; *DatabaseTyping* is the typing of all three.

`StudentRecords_proofs` has three subjects. What it says of the profile holds
for every set of attempts, finite papers, knowledge points, requests and
results. *FirstProjectionOnce* says that an attempt in the ledger has its
receipt and was applied once; *ProfileIsOfReceipts* that mastery is what a
rebuild from the receipts would compute, however projections, corrections and
rebuilds followed one another.
Three things carry the proof:

- A counter is the number of pairs (attempt, item) that answer its concept
  (`AnsweredBy`, `RightBy`). A first projection adds the pairs of an attempt that
  has none yet (`OneMore`); a correction leaves the pairs answered alone and
  exchanges those it wins for those it loses (`GainedAndLost`), which is what the
  differences computed by `_apply_revision` add up to.
- `Inv` adds `RequestOK`: what a request found in its transaction about the receipt
  and the rows of the ledger is still so when it writes. Without it the correction
  would be computed from a receipt that is no longer there.
- The rebuild walks the receipts in a recursive function. That such a function
  exists is not given by its definition: a least number without a value would have
  a predecessor with one (`LoopExists`). The same argument over the receipts shows
  that the walk counts every pair once (`ReplayedMatches`).

What it says of papers holds for every blueprint, bank, mastery and paper size that the
contracts let through. `PaperInv` has a part for each kind of paper.

- *SearchIsExact*. The search forgets how it came to a position and trusts the key it
  remembers, so the invariant says what a key is worth: no position with a failed key
  can be completed by any choice of the questions from there on (`FailedOK`,
  `Completable`). A position that can be completed has a next call that can
  (`Branching`), a dead end has none (`Hopeless`), and whether it can is decided by
  the key alone (`SameKey`): this is what the mutant `KeyWithoutLeft` breaks. Every
  open call that can be completed at all can be completed by what it has still to try
  or by the call inside it (`CallsOK`), so when the first call returns no choice of
  questions meets the section (`MeetsCompletes`). What has been taken on the way is one
  choice with the points, places and concepts used up (`Progress`), so when a call
  succeeds the section is met (`FoundMeets`). The order of the candidates is any
  order, so a refusal is final whatever the ranking was.
- *StagePapersFair*. The shares of a round add up to the places (`SharesAddUp`): the
  remainders are worth a whole number of places, fewer than there are concepts, and
  ranks run from 0 without gaps (`LowestSize`, `RankExists`).
  Shares grow with the weights (`SharesMonotone`). So after every round a concept that
  has more to offer has no fewer places than any stronger one (`RoundTakes`,
  `StageShared`).
- *PaperTyping* follows, and *RecordsTyping* puts it beside the run store and the
  profile: the part at work keeps its own invariant (`RecordsInv`).

Sums are cardinalities of sets of pairs (`TotalOf`), about which the library has what
the proofs need; induction over them is replaced by a smallest counterexample
(`SmallestSubset`).

`TutoringSession_proofs` holds for every number of results, threads and failures,
every table of needs and every policy mode. The invariant adds to `EveryTurnSafe`
and `PolicyBound` what a call relies on between its reads and its commit
(`CallOK`): what it read is no newer than the session, and as long as no turn was
added it is what the session says now. The commit compares the turn, so one of the
two always applies. No binding is ever replaced (`WriteOnce`).

`KnowledgeIngestion_proofs` needs only that sources are numbered and the bounds are
numbers. *Typing* and *OneLine* hold for any number of workers: `LineOK` (a job has
at most one release, only the last is active, the workspace points at it) is all
that the refinement to `ReleaseLine` needs, since `Publish` is one transaction that
looks at the job's own release first. *ResultsStay* and *NoFileLost* assume one
worker (`Alone`): with two `SettledJobsKept` is false, as observed above. Their
invariant says that a shown file keeps an active version unless it was given up,
and what a run has done, or has left to do, about every shown file (`Covers`).

`AssessmentStart_proofs` holds for every number of forms, visitors, readings of a
text and profiles. The invariant says that what a request goes on with is what is
stored, and what an answer names is stored, decided and completed; no store is
written twice (`Keep`). *PagesRecoverable* is `AnswersRecoverable`. *RunsTyping*
composes it with *Typing* of `AssessmentRuns_proofs`: `MCAssessmentRuns` runs both side by side.

`AssessmentWorkflow_proofs` holds for every number of items, submissions, reviews,
rescores, threads, failures and posts of other students. The assumptions are that
the kinds of requests are disjoint, forms name items and verdicts, and the null
values are none of the others. `Inv` = `StoresOK` ∧ `RowsOK` ∧ `ThreadsOK`:

- a frozen baseline is one pair of learner and class versions for which equality
  of the class version, the only one `m5_repository` compares, implies equality of
  the learner version (`BaseOK`);
- rows and threads name stored bundles (`RowsOK`, `BundlesOK`, `RunOK`), and a
  thread that knows the current version of its row knows its checkpoint and its
  checksum (`LinkOK`);
- as long as the baseline a thread posts from is current, what it is about to
  post is new (`EvidenceOK`); this is what makes the watermark, read in an earlier
  transaction, enough.

`Moved`, `CommitOK` and `FencedOK` show once that a step of one thread disturbs no
other. *NeverOverwritten* is `NothingOverwritten`; *NewEvidence* is the part of
`PostsOnce` that holds without a bound: every update posts an audit version that
none has posted before. *PagesResolve* says that a result page finds its bundle.

Only model-checked:

- all liveness (`RecordedFormsEnd`, `EventsSettle`, `JobsSettle`,
  `RequestsSettle`, `FormsSettle`, `EverythingEnds`), which is
  beyond the prover;
- `CompletedReviewsKept` and `PostsOnce`; the latter is false with more items or
  with a fault beside a rejection, so no theorem can state it for every value of the
  constants.

## Not modelled

- m4 routing and intent classification, m8 scoring rules, parameter substitution and
  adaptive selection, m3 validation and concept merging:
  pure functions of one call over texts and numbers; m5 learner models: floating
  point; m7: the answers of a language model; m9 reports: reads only.
- Views and forms beyond what they do to the modelled state; configuration,
  secrets, logging, command line and launcher; schema migrations, which run once
  in a transaction each.
- Of modelled parts: class snapshots, the worker's lock
  file, the in-process cache of processed evidence in front of the M5 watermark,
  the one-off cleanup of old profiles, rewards and evaluation of tutoring
  policies, the creation of accounts and classes.

## Plan

1. Run store, workflow, outbox with their proofs. *Done*.
2. Start and papers, ingestion, learning profile, tutoring, publication, import, erasure, and the
   safety proofs of publication and import. *Done* but for what "Not modelled" lists.
3. Proofs about ingestion, tutoring, start, workflow and erasure. *Done*: typing of
   all of them, the refinement to `ReleaseLine`, and the safety properties that hold
   without a bound; the learning profile, for any number of attempts; the typing of
   parts that run side by side; the search and the stage papers of `PaperGeneration`.
   To come: the operator lemmas of `ScoreHistory`.
4. If a further component is worth it: the lock file of the ingestion worker, with
   mutual exclusion of its owners as the property.

Runs are few on purpose: a new component replaces a question that a theorem or a
stronger property answers already.
