-------------------------- MODULE KnowledgeIngestion --------------------------
(***************************************************************************)
(* The knowledge files of one class and the jobs that turn them into a     *)
(* published release.  The teacher uploads, edits and stages deletions of  *)
(* files (views/knowledge.py) and confirms them into a job; worker         *)
(* processes claim jobs under a five-minute lease (ingestion_worker.py)    *)
(* and build a release in steps (knowledge_ingestion.py), each step one or *)
(* a few statements of its own on the database.  Only the publication is   *)
(* one transaction.  A process may die between any two steps, and a stalled*)
(* one may find that its lease has lapsed and its job is run by another.   *)
(***************************************************************************)
EXTENDS Integers, Sequences, FiniteSets, FiniteSetsExt

CONSTANTS
    Workers,           \* worker processes
    Sources,           \* files of the class: numbers, in the order they are read
    QuestionSources,   \* those that hold questions; the others hold knowledge
    MaxVersions,       \* bound: versions of one file
    MaxJobs,           \* bound: confirmed jobs
    MaxChanges,        \* bound: deletions marked and questions edited
    MaxCrashes,        \* bound: worker processes that die
    MaxStalls          \* bound: leases that lapse under a living worker

ASSUME SourcesAssumption == Sources \subseteq Nat /\ QuestionSources \subseteq Sources
ASSUME BoundsAssumption ==
    MaxVersions \in Nat \ {0} /\ {MaxJobs, MaxChanges, MaxCrashes, MaxStalls} \subseteq Nat

VARIABLES
    source,      \* CourseSource.status of each file, "absent" before its upload
    version,     \* CourseSourceVersion.status of each version of each file
    jobs,        \* KnowledgeIngestionJob rows with their operations, in creation order
    releases,    \* CourseKnowledgeRelease rows, in the order of their version numbers
    workspace,   \* the class workspace: [active_release, content_revision]
    form,        \* operations a confirm request has read and not yet saved
    worker,      \* what each worker process is doing
    changes, crashes, stalls     \* counted against their bounds

vars == <<source, version, jobs, releases, workspace, form, worker, changes, crashes, stalls>>

-------------------------------------------------------------------------------
(* Rows. *)

SourceStatuses  == {"absent", "staged", "active", "pending_delete", "deleted"}
VersionStatuses == {"staged", "active", "retired", "failed", "deleted"}
JobStatuses     == {"queued", "running", "succeeded", "partial", "failed"}
Settled         == {"succeeded", "partial", "failed"}
Operations      == {"upsert", "delete", "edit"}
Leases          == {"none", "live", "lapsed"}
Stages          == {"confirmed", "building", "published"}
Held            == Sources \X (1..MaxVersions)

\* KnowledgeIngestionJob._TRANSITIONS
MayBecome(from, to) ==
    \/ from = "queued"  /\ to \in {"running", "failed"}
    \/ from = "running" /\ to \in Settled

NewJob(ops) == [status |-> "queued", stage |-> "confirmed", lease |-> "none",
                ops |-> ops, done |-> [s \in DOMAIN ops |-> "pending"], saved |-> {}]

Idle == [at |-> "idle", job |-> 0, mode |-> "none", seen |-> <<>>, todo |-> {}, kept |-> {},
         picked |-> {}, failed |-> {}, left |-> {}, issues |-> FALSE]

JobRows ==
    [status: JobStatuses, stage: Stages, lease: Leases,
     ops: UNION {[D -> Operations] : D \in SUBSET Sources},
     done: UNION {[D -> {"pending", "succeeded", "failed"}] : D \in SUBSET Sources},
     saved: SUBSET Held]

ReleaseRows == [job: 1..MaxJobs, status: {"active", "retired"}, holds: SUBSET Held]

-------------------------------------------------------------------------------
(* Files and their versions. *)

Number(s, in, statuses) == {n \in DOMAIN in[s] : in[s][n] \in statuses}

\* _preferred_version: the newest staged version, or the newest active one.
Preferred(s, in) ==
    LET staged == Number(s, in, {"staged"})
        active == Number(s, in, {"active"})
        best   == IF staged # {} THEN staged ELSE active
    IN  IF best = {} THEN 0 ELSE Max(best)

\* _active_version(source, excluding): what a failed file falls back to.
ActiveBeside(s, in, v) ==
    LET active == Number(s, in, {"active"}) \ {v}
    IN  IF active = {} THEN 0 ELSE Max(active)

\* _activate_source_versions: each selected version is its file's active one.
Activated(in, held) ==
    [s \in Sources |-> [n \in DOMAIN in[s] |->
        IF <<s, n>> \in held THEN "active"
        ELSE IF in[s][n] = "active" /\ (\E h \in held : h[1] = s) THEN "retired"
        ELSE in[s][n]]]

ActivatedSources(in, held) ==
    [s \in Sources |-> IF \E h \in held : h[1] = s THEN "active" ELSE in[s]]

\* _finalize_deleted_sources: every version goes, the file only if still marked.
Deletes(ops) == {s \in DOMAIN ops : ops[s] = "delete"}
WithoutVersions(in, gone) ==
    [s \in Sources |-> IF s \in gone THEN [n \in DOMAIN in[s] |-> "deleted"] ELSE in[s]]
WithoutSources(in, gone) ==
    [s \in Sources |-> IF s \in gone /\ in[s] = "pending_delete" THEN "deleted" ELSE in[s]]

\* _operation_payload
OperationOn(s) ==
    CASE source[s] = "pending_delete" -> "delete"
      [] source[s] # "pending_delete" /\ s \in QuestionSources /\ Len(version[s]) > 1 -> "edit"
      [] OTHER -> "upsert"

QuestionOnly(ops)  == DOMAIN ops # {} /\ DOMAIN ops \subseteq QuestionSources
KnowledgeOnly(ops) == /\ DOMAIN ops # {} /\ DOMAIN ops \cap QuestionSources = {}
                      /\ \A s \in DOMAIN ops : ops[s] \in {"upsert", "delete"}
Changed(ops)       == {s \in DOMAIN ops : ops[s] # "delete"}

-------------------------------------------------------------------------------
(* The teacher. *)

Init ==
    /\ source = [s \in Sources |-> "absent"]
    /\ version = [s \in Sources |-> <<>>]
    /\ jobs = <<>> /\ releases = <<>>
    /\ workspace = [active |-> 0, revision |-> 0]
    /\ form = <<>>
    /\ worker = [w \in Workers |-> Idle]
    /\ changes = 0 /\ crashes = 0 /\ stalls = 0

BuildUnchanged == UNCHANGED <<releases, workspace, worker, crashes, stalls>>

Upload(s) ==
    /\ source[s] = "absent"
    /\ source' = [source EXCEPT ![s] = "staged"]
    /\ version' = [version EXCEPT ![s] = <<"staged">>]
    /\ BuildUnchanged /\ UNCHANGED <<jobs, form, changes>>

StageDelete(s) ==
    /\ changes < MaxChanges /\ changes' = changes + 1
    /\ source[s] \in {"staged", "active"}
    /\ source' = [source EXCEPT ![s] = "pending_delete"]
    /\ BuildUnchanged /\ UNCHANGED <<version, jobs, form>>

EditQuestion(s) ==
    /\ changes < MaxChanges /\ changes' = changes + 1
    /\ s \in QuestionSources /\ source[s] \in {"staged", "active"}
    /\ Len(version[s]) < MaxVersions
    /\ version' = [version EXCEPT ![s] = Append(@, "staged")]
    /\ source' = [source EXCEPT ![s] = "staged"]
    /\ BuildUnchanged /\ UNCHANGED <<jobs, form>>

\* The request reads the pending changes first and saves the job afterwards.
ConfirmRead ==
    LET pending == {s \in Sources : source[s] \in {"staged", "pending_delete"}}
    IN  /\ form = <<>> /\ pending # {} /\ Len(jobs) < MaxJobs
        /\ form' = [s \in pending |-> OperationOn(s)]
        /\ BuildUnchanged /\ UNCHANGED <<source, version, jobs, changes>>

ConfirmSave ==
    /\ form # <<>>
    /\ jobs' = Append(jobs, NewJob(form))
    /\ form' = <<>>
    /\ BuildUnchanged /\ UNCHANGED <<source, version, changes>>

-------------------------------------------------------------------------------
(* Leases and the claim. *)

\* Mutants of Claimable: a dead worker's job is forgotten; a partial job is retried.
ClaimableQueued  == {j \in DOMAIN jobs : jobs[j].status = "queued"}
ClaimablePartial == {j \in DOMAIN jobs : \/ jobs[j].status \in {"queued", "partial"}
                                         \/ jobs[j].status = "running" /\ jobs[j].lease # "live"}

Claimable == {j \in DOMAIN jobs : \/ jobs[j].status = "queued"
                                  \/ jobs[j].status = "running" /\ jobs[j].lease # "live"}

FilesUnchanged == UNCHANGED <<source, version, form, changes>>

Busy(w) == worker[w].at # "idle"

\* KnowledgeIngestionWorker.run_once: the oldest claimable job, whoever held it.
Claim(w) ==
    /\ ~Busy(w) /\ Claimable # {}
    /\ LET j == Min(Claimable)
       IN  /\ jobs' = [jobs EXCEPT ![j].status = "running", ![j].lease = "live"]
           /\ worker' = [worker EXCEPT ![w] = [Idle EXCEPT !.at = "open", !.job = j]]
    /\ FilesUnchanged /\ UNCHANGED <<releases, workspace, crashes, stalls>>

\* Five minutes without a renewal.
Lapse(j) ==
    /\ jobs[j].status = "running" /\ jobs[j].lease = "live"
    /\ jobs' = [jobs EXCEPT ![j].lease = "lapsed"]
    /\ IF \E w \in Workers : worker[w].job = j
       THEN stalls < MaxStalls /\ stalls' = stalls + 1
       ELSE UNCHANGED stalls
    /\ FilesUnchanged /\ UNCHANGED <<releases, workspace, worker, crashes>>

\* The process dies, or a database error outside the handlers ends its run.
Crash(w) ==
    /\ Busy(w) /\ crashes < MaxCrashes
    /\ crashes' = crashes + 1
    /\ worker' = [worker EXCEPT ![w] = Idle]
    /\ FilesUnchanged /\ UNCHANGED <<jobs, releases, workspace, stalls>>

-------------------------------------------------------------------------------
(* The run of one job. *)

\* _record_stage and _renew_lease: stage and lease, without looking at the worker.
Staged(j) == [jobs EXCEPT ![j].stage = "building", ![j].lease = "live"]

Become(w, run) == worker' = [worker EXCEPT ![w] = run]
RowsUnchanged  == UNCHANGED <<releases, workspace, crashes, stalls>>

ReleaseOf(j) == {n \in DOMAIN releases : releases[n].job = j}

\* What an incremental build keeps of the active release.
Shown == IF workspace.active = 0 THEN {} ELSE releases[workspace.active].holds
KeptByQuestions(ops) == {h \in Shown : h[1] \notin DOMAIN ops}
\* Mutant: the questions are left to a later job.
KeptWithoutQuestions(ops) == {h \in Shown : h[1] \notin Deletes(ops) \union QuestionSources}
KeptByKnowledge(ops) == {h \in Shown : h[1] \notin Deletes(ops)}

ModeOf(ops) ==
    CASE workspace.active # 0 /\ QuestionOnly(ops) -> "question"
      [] workspace.active # 0 /\ KnowledgeOnly(ops) -> "knowledge"
      [] OTHER -> "full"

\* Where a run goes on: the next file, then the batches that no earlier run has
\* saved, then the questions.  A change of questions extracts nothing.
Restored(j) == jobs[j].saved
Parsed(run) ==
    CASE run.todo # {} -> [run EXCEPT !.at = "read"]
      [] run.todo = {} /\ run.mode # "question" /\ run.left \ Restored(run.job) # {} ->
            [run EXCEPT !.at = "extract", !.left = @ \ Restored(run.job)]
      [] OTHER -> [run EXCEPT !.at = "link", !.left = {}]

\* A job that has its release is only replayed; one that ended cannot run again.
Replayed(j) == ReleaseOf(j) # {}
Runnable(j) == ~Replayed(j) /\ jobs[j].status = "running"

\* KnowledgeIngestionProcessor.process up to the reading of the files.
Open(w) ==
    LET run == worker[w]  ops == jobs[run.job].ops  start == [run EXCEPT !.mode = ModeOf(ops)]
    IN  /\ run.at = "open"
        /\ Become(w,
             IF ~Runnable(run.job) THEN Idle
             ELSE Parsed(CASE start.mode = "full" ->
                                [start EXCEPT !.seen = version,
                                     !.todo = {s \in Sources : source[s] \in {"staged", "active"}}]
                           [] start.mode = "question" ->
                                [start EXCEPT !.todo = Changed(ops), !.kept = KeptByQuestions(ops)]
                           [] start.mode = "knowledge" ->
                                [start EXCEPT !.todo = Changed(ops), !.kept = KeptByKnowledge(ops)]))
        /\ FilesUnchanged /\ RowsUnchanged /\ UNCHANGED jobs

\* One file of a run is read: its version v, or the version back behind it.
ReadFile(w, s, v, back, readable, mark) ==
    LET use == {<<s, n>> : n \in {v, back} \cap readable}
        bad == v # 0 /\ v \notin readable
    IN  /\ Become(w, Parsed([worker[w] EXCEPT
               !.todo = @ \ {s}, !.picked = @ \union use,
               !.failed = IF bad THEN @ \union {s} ELSE @,
               !.left = IF s \in QuestionSources THEN @ ELSE @ \union use]))
        /\ jobs' = Staged(worker[w].job)
        /\ version' = IF bad /\ mark THEN [version EXCEPT ![s][v] = "failed"] ELSE version
        /\ RowsUnchanged /\ UNCHANGED <<source, form, changes>>

Reading(w, mode) == worker[w].at = "read" /\ worker[w].mode = mode
Back(s, in, v, readable) == IF v \in readable \union {0} THEN 0 ELSE ActiveBeside(s, in, v)

\* The full build chooses among the versions it listed at the start.
ReadAny(w, readable) ==
    /\ Reading(w, "full")
    /\ LET s == Min(worker[w].todo)  seen == worker[w].seen  v == Preferred(s, seen)
       IN  ReadFile(w, s, v, Back(s, seen, v, readable), readable,
                    v # 0 /\ seen[s][v] = "staged")

ReadQuestion(w, readable) ==
    /\ Reading(w, "question")
    /\ LET s == Min(worker[w].todo)  v == Preferred(s, version)
       IN  ReadFile(w, s, v, Back(s, version, v, readable), readable,
                    v # 0 /\ version[s][v] = "staged")

\* An incremental knowledge change has no fallback and gives up any version.
ReadKnowledge(w, readable) ==
    /\ Reading(w, "knowledge")
    /\ LET s == Min(worker[w].todo)  v == Preferred(s, version)
       IN  ReadFile(w, s, v, 0, readable, TRUE)

\* One batch of _extract_all completes and is saved for a later run.
Saved(j, b) == [Staged(j) EXCEPT ![j].saved = @ \union {b}]
ExtractBatch(w, b) ==
    /\ worker[w].at = "extract" /\ b \in worker[w].left
    /\ Become(w, Parsed([worker[w] EXCEPT !.left = @ \ {b}]))
    /\ jobs' = Saved(worker[w].job, b)
    /\ FilesUnchanged /\ RowsUnchanged

\* Questions are linked one by one; a link that fails is an issue, not an error.
Link(w, mode, issues) ==
    /\ worker[w].at = "link" /\ worker[w].mode = mode
    /\ Become(w, [worker[w] EXCEPT !.at = "publish", !.issues = issues])
    /\ jobs' = Staged(worker[w].job)
    /\ FilesUnchanged /\ RowsUnchanged

LinkAll(w, issues)     == Link(w, "full", issues)
LinkChanged(w, issues) == Link(w, "question", issues)
\* Kept questions are linked anew only when the change brings new concepts.
Relink(w, issues)      == Link(w, "knowledge", issues) /\ (issues => worker[w].picked # {})

\* A batch fails, the files yield no concept, or a question file does not parse.
BuildFails(w) ==
    /\ worker[w].at \in {"extract", "link"}
    /\ worker[w].at = "extract" => worker[w].picked # {}
    /\ Become(w, [worker[w] EXCEPT !.at = "fail"])
    /\ FilesUnchanged /\ RowsUnchanged /\ UNCHANGED jobs

-------------------------------------------------------------------------------
(* Publication: one transaction, refused by the job's own state machine. *)

\* Mutant: the stage is taken for the status.
OutcomeAsStage(run) == "published"
Outcome(run) == IF run.failed # {} \/ run.issues THEN "partial" ELSE "succeeded"

PublishedJob(job, run) ==
    [job EXCEPT !.status = Outcome(run), !.stage = "published", !.lease = "none",
                !.done = [s \in DOMAIN job.ops |->
                            CASE s \in run.failed -> "failed"
                              [] s \notin run.failed /\ @[s] = "pending" -> "succeeded"
                              [] OTHER -> @[s]]]

Published(line, run) ==
    Append([n \in DOMAIN line |-> [line[n] EXCEPT !.status = "retired"]],
           [job |-> run.job, status |-> "active", holds |-> run.kept \union run.picked])

\* Mutant: publishing again refreshes the release.
MayPublishAgain(j) == jobs[j].status # "failed"
MayPublish(j) == ~Replayed(j) /\ MayBecome(jobs[j].status, "succeeded")

Publish(w) ==
    LET run == worker[w]  j == run.job
        held == run.kept \union run.picked  gone == Deletes(jobs[j].ops)
    IN  /\ run.at = "publish" /\ MayPublish(j)
        /\ releases' = Published(releases, run)
        /\ workspace' = [active |-> Len(releases'), revision |-> workspace.revision + 1]
        /\ version' = WithoutVersions(Activated(version, held), gone)
        /\ source' = WithoutSources(ActivatedSources(source, held), gone)
        /\ jobs' = [jobs EXCEPT ![j] = PublishedJob(@, run)]
        /\ Become(w, Idle)
        /\ UNCHANGED <<form, changes, crashes, stalls>>

\* The job has its release already, or its row refuses to become succeeded.
PublishRefused(w) ==
    LET run == worker[w]
    IN  /\ run.at = "publish" /\ ~MayPublish(run.job)
        /\ Become(w, IF Replayed(run.job) THEN Idle ELSE [run EXCEPT !.at = "fail"])
        /\ FilesUnchanged /\ RowsUnchanged /\ UNCHANGED jobs

-------------------------------------------------------------------------------
(* _fail_job: three statements, guarded by a status read before them. *)

FailRead(w) ==
    LET run == worker[w]
    IN  /\ run.at = "fail"
        /\ Become(w, IF jobs[run.job].status = "running"
                     THEN [run EXCEPT !.at = "fail operations"] ELSE Idle)
        /\ FilesUnchanged /\ RowsUnchanged /\ UNCHANGED jobs

FailOperations(w) ==
    LET run == worker[w]
    IN  /\ run.at = "fail operations"
        /\ jobs' = [jobs EXCEPT
               ![run.job].done = [s \in DOMAIN @ |-> IF @[s] = "pending" THEN "failed" ELSE @[s]],
               ![run.job].lease = "none"]
        /\ Become(w, [run EXCEPT !.at = "fail job"])
        /\ FilesUnchanged /\ RowsUnchanged

\* transition_to checks the status held in memory, and saves over the row.
FailJob(w) ==
    LET run == worker[w]
    IN  /\ run.at = "fail job"
        /\ jobs' = [jobs EXCEPT ![run.job].status = "failed"]
        /\ Become(w, Idle)
        /\ FilesUnchanged /\ RowsUnchanged

-------------------------------------------------------------------------------
Teacher == \/ \E s \in Sources : Upload(s) \/ StageDelete(s) \/ EditQuestion(s)
           \/ ConfirmRead \/ ConfirmSave

Run(w) == \/ Open(w)
          \/ \E readable \in SUBSET (1..MaxVersions) :
                ReadAny(w, readable) \/ ReadQuestion(w, readable) \/ ReadKnowledge(w, readable)
          \/ \E b \in Held : ExtractBatch(w, b)
          \/ \E issues \in BOOLEAN : LinkAll(w, issues) \/ LinkChanged(w, issues) \/ Relink(w, issues)
          \/ BuildFails(w)
          \/ Publish(w) \/ PublishRefused(w)
          \/ FailRead(w) \/ FailOperations(w) \/ FailJob(w)

Next == \/ Teacher
        \/ \E w \in Workers : Claim(w) \/ Run(w) \/ Crash(w)
        \/ \E j \in DOMAIN jobs : Lapse(j)

\* A worker loops for ever, a started request ends, and time passes.
Fairness == /\ \A w \in Workers : WF_vars(Claim(w)) /\ WF_vars(Run(w))
            /\ WF_vars(ConfirmSave)
            /\ \A j \in 1..MaxJobs : WF_vars(j \in DOMAIN jobs /\ Lapse(j))

Spec == Init /\ [][Next]_vars /\ Fairness

-------------------------------------------------------------------------------
(* Properties. *)

TypeOK ==
    /\ source \in [Sources -> SourceStatuses]
    /\ \A s \in Sources : version[s] \in Seq(VersionStatuses) /\ Len(version[s]) <= MaxVersions
    /\ jobs \in Seq(JobRows) /\ Len(jobs) <= MaxJobs
    /\ releases \in Seq(ReleaseRows)
    /\ workspace = [active |-> Len(releases), revision |-> Len(releases)]
    /\ \A w \in Workers : worker[w].job \in 0..Len(jobs)

\* The published line as students see it: the release marked active, which must
\* be the one the workspace points at.
ActiveReleases == {n \in DOMAIN releases : releases[n].status = "active"}
Line == INSTANCE ReleaseLine WITH
    Contents <- SUBSET Held, Jobs <- 1..MaxJobs,
    line <- [n \in DOMAIN releases |-> [job |-> releases[n].job, holds |-> releases[n].holds]],
    shown <- IF ActiveReleases = {} THEN 0
             ELSE IF ActiveReleases = {workspace.active} THEN workspace.active ELSE -1

\* However many workers run a job, and whatever dies or stalls, it publishes at
\* most one release, and releases form one line with the last one active.
PublishesOnce == Line!Spec

\* While one worker at a time is at work, a job that has ended keeps its result:
\* no later step of a run of it rewrites its status, stage or operations.
SettledJobsKept ==
    [][\A j \in DOMAIN jobs :
         jobs[j].status \in Settled =>
            /\ jobs'[j].status = jobs[j].status /\ jobs'[j].stage = jobs[j].stage
            /\ jobs'[j].done = jobs[j].done]_vars

\* While one worker at a time is at work, a release that reports success drops no
\* file of the release before it, but for those its job changes, those the teacher
\* has marked for deletion and those whose version an earlier run has given up or
\* deleted meanwhile.
NothingDropped ==
    [][Len(releases') > Len(releases) =>
         LET new == releases'[Len(releases')]  job == jobs'[new.job]
         IN  job.status = "succeeded" =>
               \A h \in Shown : \/ h[1] \in DOMAIN job.ops
                               \/ source[h[1]] = "pending_delete"
                               \/ version[h[1]][h[2]] # "active"
                               \/ \E k \in new.holds : k[1] = h[1]]_vars

\* Every confirmed job ends: a dead worker's job is claimed again when its lease
\* lapses, and a run that fails settles its job.
JobsSettle == \A j \in 1..MaxJobs : j \in DOMAIN jobs ~> (j \in DOMAIN jobs /\ jobs[j].status \in Settled)
=============================================================================
