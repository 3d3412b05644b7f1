---------------------- MODULE KnowledgeIngestion_proofs ----------------------
(***************************************************************************)
(* What holds of the ingestion of a class's files for any number of        *)
(* workers, files, jobs and failures: the published releases form one line *)
(* and a job adds at most one to it.  While a single worker is at work, a  *)
(* job that ended keeps its result and a release that reports success      *)
(* drops no file.                                                          *)
(***************************************************************************)
EXTENDS KnowledgeIngestion, WellFoundedInduction, SequenceTheorems, TLAPS

OpsRows  == UNION {[D -> Operations] : D \in SUBSET Sources}
DoneRows == UNION {[D -> {"pending", "succeeded", "failed"}] : D \in SUBSET Sources}
Rows     == [status: JobStatuses, stage: Stages, lease: Leases, ops: OpsRows, done: DoneRows,
             saved: SUBSET Held]

Ats   == {"idle", "open", "read", "extract", "link", "publish",
          "fail", "fail operations", "fail job"}
Modes == {"none", "full", "question", "knowledge"}
Runs  == [at : Ats, job : 0..MaxJobs, mode : Modes,
          seen : [Sources -> Seq(VersionStatuses)] \cup {<<>>}, todo : SUBSET Sources,
          kept : SUBSET Held, picked : SUBSET Held, failed : SUBSET Sources,
          left : SUBSET Held, issues : BOOLEAN]

FilesOK ==
    /\ source \in [Sources -> SourceStatuses]
    /\ version \in [Sources -> Seq(VersionStatuses)]
    /\ \A s \in Sources : Len(version[s]) <= MaxVersions
    /\ form # <<>> => form \in OpsRows

JobsOK ==
    /\ jobs \in Seq(Rows) /\ Len(jobs) <= MaxJobs
    /\ \A j \in DOMAIN jobs : DOMAIN jobs[j].done = DOMAIN jobs[j].ops

(* The releases are one line: a job has at most one, only the last is      *)
(* active, and the workspace points at it.                                 *)
LineOK ==
    /\ releases \in Seq(ReleaseRows)
    /\ workspace = [active |-> Len(releases), revision |-> Len(releases)]
    /\ \A m, n \in DOMAIN releases : releases[m].job = releases[n].job => m = n
    /\ \A n \in DOMAIN releases : releases[n].status = "active" <=> n = Len(releases)

RunOK(run) ==
    /\ run.job \in 0..Len(jobs)
    /\ run.at # "idle" => run.job # 0
    /\ run.at = "read" => run.todo # {}

WorkersOK ==
    /\ worker \in [Workers -> Runs]
    /\ \A w \in Workers : RunOK(worker[w])

(* A request that has read the pending changes finds room for its job. *)
Room == form # <<>> => Len(jobs) < MaxJobs

Inv == FilesOK /\ JobsOK /\ LineOK /\ WorkersOK /\ Room
-----------------------------------------------------------------------------
(* One worker. *)

Alone == \A v, w \in Workers : v = w

(* A file students see keeps a version that is active, unless it was given *)
(* up or deleted, and stays with the class while it does.                  *)
ShownOK ==
    /\ \A h \in Shown :
          /\ h[2] \in DOMAIN version[h[1]]
          /\ version[h[1]][h[2]] \in {"active", "failed", "deleted"}
          /\ version[h[1]][h[2]] = "active" => source[h[1]] \in {"staged", "active", "pending_delete"}
    /\ \A s \in Sources : source[s] = "absent" => DOMAIN version[s] = {}

(* What a run has left to do with a file that students see.                *)
Covered(run, h) ==
    \/ source[h[1]] = "pending_delete"
    \/ version[h[1]][h[2]] # "active"
    \/ /\ h[1] \in run.todo /\ run.seen # <<>>
       /\ h[2] \in DOMAIN run.seen[h[1]] /\ run.seen[h[1]][h[2]] = "active"
    \/ h[1] \in run.failed
    \/ \E k \in run.picked : k[1] = h[1]

(* A full build answers for every file students see, an incremental one    *)
(* keeps those its job does not change.                                    *)
Keeps(run, ops) ==
    /\ run.mode \in {"full", "question", "knowledge"}
    /\ run.mode = "question" => run.kept = KeptByQuestions(ops)
    /\ run.mode = "knowledge" => run.kept = KeptByKnowledge(ops)
    /\ run.mode = "full" =>
          /\ \A h \in Shown : Covered(run, h)
          /\ \A s \in run.todo : run.seen # <<>> /\ DOMAIN run.seen[s] \subseteq DOMAIN version[s]

Covers(run) ==
    /\ run.at # "idle" => jobs[run.job].status = "running"
    /\ run.at \in {"extract", "link", "publish"} => run.todo = {}
    /\ run.at \in {"read", "extract", "link", "publish"} => Keeps(run, jobs[run.job].ops)
    /\ \A h \in run.kept \cup run.picked : h[2] \in DOMAIN version[h[1]]

AloneOK == ShownOK /\ \A w \in Workers : Covers(worker[w])
-----------------------------------------------------------------------------
(* Numbers and sequences. *)

LEMMA Bounds == /\ MaxVersions \in Nat /\ MaxVersions > 0 /\ MaxJobs \in Nat
                /\ MaxChanges \in Nat /\ MaxCrashes \in Nat /\ MaxStalls \in Nat
BY BoundsAssumption

Less == OpToRel(<, Nat)

LEMMA LeastExists ==
  ASSUME NEW S \in SUBSET Nat, S # {} PROVE \E x \in S : \A y \in S : x <= y
<1>1. IsWellFoundedOn(Less, Nat)
  BY NatLessThanWellFounded DEF Less
<1>2. PICK x \in S : \A y \in S : ~(<<y, x>> \in Less)
  BY <1>1, WFMin
<1>3. \A y \in S : y \in Nat /\ x \in Nat /\ ~(y < x)
  BY <1>2 DEF Less, OpToRel
<1> QED
  BY <1>3

LEMMA MinOK == ASSUME NEW S \in SUBSET Nat, S # {} PROVE Min(S) \in S
BY LeastExists DEF Min

LEMMA MaxOK ==
  ASSUME NEW n \in Nat, NEW S \in SUBSET (1..n), S # {} PROVE Max(S) \in S
<1>1. {m \in 0..n : n - m \in S} \in SUBSET Nat /\ {m \in 0..n : n - m \in S} # {}
  <2>1. PICK x : x \in S
    OBVIOUS
  <2>2. n - x \in 0..n /\ n - (n - x) = x
    BY <2>1
  <2>3. n - x \in {m \in 0..n : n - m \in S}
    BY <2>1, <2>2
  <2> QED
    BY <2>3
<1>2. PICK m \in 0..n : n - m \in S /\ \A k \in 0..n : n - k \in S => m <= k
  BY <1>1, LeastExists
<1>3. ASSUME NEW y \in S PROVE n - m >= y
  <2>1. n - y \in 0..n /\ n - (n - y) = y
    OBVIOUS
  <2>2. m <= n - y
    BY <1>2, <2>1
  <2> QED
    BY <2>2
<1>4. \E x \in S : \A y \in S : x >= y
  BY <1>2, <1>3
<1> QED
  BY <1>4 DEF Max

(* A function on the positions of a sequence is a sequence of its length.  *)
LEMMA SameLength ==
  ASSUME NEW T, NEW U, NEW q \in Seq(T), NEW r, r \in [DOMAIN q -> U]
  PROVE  r \in Seq(U) /\ Len(r) = Len(q) /\ DOMAIN r = DOMAIN q
<1>1. Len(q) \in Nat /\ DOMAIN q = 1..Len(q)
  BY LenProperties
<1>2. r \in [1..Len(q) -> U]
  BY <1>1
<1>3. r \in Seq(U)
  BY <1>1, <1>2, SeqDef
<1>4. DOMAIN r = 1..Len(q) /\ Len(r) \in Nat /\ DOMAIN r = 1..Len(r)
  BY <1>2, <1>3, LenProperties
<1>5. Len(r) = Len(q)
  BY <1>1, <1>4
<1> QED
  BY <1>1, <1>3, <1>4, <1>5

LEMMA RowsEq == JobRows = Rows
BY DEF JobRows, Rows, OpsRows, DoneRows

LEMMA OpsTyped == ASSUME NEW f \in OpsRows PROVE DOMAIN f \subseteq Sources /\ \A s \in DOMAIN f : f[s] \in Operations
BY DEF OpsRows

LEMMA DoneTyped ==
  ASSUME NEW D \in SUBSET Sources, NEW f, f \in [D -> {"pending", "succeeded", "failed"}]
  PROVE  f \in DoneRows
BY DEF DoneRows
-----------------------------------------------------------------------------
(* Frames. *)

LEMMA FilesStill == ASSUME FilesOK, FilesUnchanged PROVE FilesOK'
BY DEF FilesOK, FilesUnchanged

LEMMA LineStill == ASSUME LineOK, UNCHANGED <<releases, workspace>> PROVE LineOK'
BY DEF LineOK

LEMMA JobsStill == ASSUME JobsOK, UNCHANGED jobs PROVE JobsOK'
BY DEF JobsOK

LEMMA JobsLen ==
  ASSUME JobsOK
  PROVE  Len(jobs) \in Nat /\ Len(jobs) \in 0..MaxJobs /\ DOMAIN jobs = 1..Len(jobs)
BY Bounds DEF JobsOK

LEMMA SameLen ==
  ASSUME JobsOK, Len(jobs') = Len(jobs) PROVE Len(jobs') \in Nat /\ Len(jobs) <= Len(jobs')
BY JobsLen

(* One row of the jobs is written. *)
LEMMA JobWritten ==
  ASSUME JobsOK, NEW j \in DOMAIN jobs, NEW r \in Rows, DOMAIN r.done = DOMAIN r.ops,
         jobs' = [jobs EXCEPT ![j] = r]
  PROVE  JobsOK' /\ Len(jobs') = Len(jobs) /\ DOMAIN jobs' = DOMAIN jobs
<1>1. jobs \in Seq(Rows) /\ j \in 1..Len(jobs)
  BY DEF JobsOK
<1>2. jobs' \in Seq(Rows) /\ Len(jobs') = Len(jobs)
  BY <1>1, ExceptSeq
<1>3. DOMAIN jobs' = DOMAIN jobs
  OBVIOUS
<1>4. \A i \in DOMAIN jobs' : DOMAIN jobs'[i].done = DOMAIN jobs'[i].ops
  BY DEF JobsOK
<1> QED
  BY <1>2, <1>3, <1>4 DEF JobsOK

LEMMA RunStill == ASSUME JobsOK, NEW n, n = Len(jobs'), n \in Nat, Len(jobs) <= n,
                        NEW r, RunOK(r) PROVE RunOK(r)'
BY JobsLen DEF RunOK

LEMMA RunWritten ==
  ASSUME WorkersOK, JobsOK, Len(jobs') \in Nat, Len(jobs) <= Len(jobs'), NEW w \in Workers,
         NEW r \in Runs, RunOK(r)', worker' = [worker EXCEPT ![w] = r]
  PROVE  WorkersOK'
<1>1. worker' \in [Workers -> Runs]
  BY DEF WorkersOK
<1>2. ASSUME NEW v \in Workers PROVE RunOK(worker[v])'
  <2>1. CASE v = w
    BY <2>1 DEF WorkersOK
  <2>2. CASE v # w
    <3>1. RunOK(worker[v]) /\ worker'[v] = worker[v]
      BY <2>2 DEF WorkersOK
    <3>2. PICK l : l = worker[v]
      OBVIOUS
    <3>3. RunOK(l)'
      BY <3>1, <3>2, RunStill
    <3> QED
      BY <3>1, <3>2, <3>3
  <2> QED
    BY <2>1, <2>2
<1> QED
  BY <1>1, <1>2 DEF WorkersOK

LEMMA WorkersStill ==
  ASSUME WorkersOK, JobsOK, Len(jobs') \in Nat, Len(jobs) <= Len(jobs'), UNCHANGED worker
  PROVE  WorkersOK'
<1>1. ASSUME NEW v \in Workers PROVE RunOK(worker[v])'
  <2>1. PICK l : l = worker[v] /\ RunOK(l) /\ l = worker'[v]
    BY DEF WorkersOK
  <2>2. RunOK(l)'
    BY <2>1, RunStill
  <2> QED
    BY <2>1, <2>2
<1> QED
  BY <1>1 DEF WorkersOK

LEMMA IdleOK == Idle \in Runs /\ (JobsOK' => RunOK(Idle)') /\ (JobsOK => RunOK(Idle))
BY Bounds, JobsLen DEF Idle, Runs, RunOK, Ats, Modes, JobsOK

(* The run of a busy worker and the row of its job. *)
LEMMA RunOf ==
  ASSUME Inv, NEW w \in Workers, worker[w].at # "idle"
  PROVE  \E run \in Runs, job \in Rows :
            /\ run = worker[w] /\ run.job \in DOMAIN jobs /\ RunOK(run)
            /\ job = jobs[run.job] /\ DOMAIN job.done = DOMAIN job.ops
<1>1. worker[w] \in Runs /\ RunOK(worker[w])
  BY DEF Inv, WorkersOK
<1>2. worker[w].job \in DOMAIN jobs
  BY <1>1, JobsLen DEF Inv, RunOK
<1>3. jobs[worker[w].job] \in Rows
  BY <1>2 DEF Inv, JobsOK
<1> QED
  BY <1>1, <1>2, <1>3 DEF Inv, JobsOK

LEMMA StagedOK ==
  ASSUME JobsOK, NEW j \in DOMAIN jobs, jobs' = Staged(j)
  PROVE  /\ JobsOK' /\ Len(jobs') = Len(jobs) /\ DOMAIN jobs' = DOMAIN jobs
         /\ \A i \in DOMAIN jobs : jobs'[i].ops = jobs[i].ops /\ jobs'[i].status = jobs[i].status
<1>1. PICK row \in Rows : row = jobs[j] /\ DOMAIN row.done = DOMAIN row.ops
  BY DEF JobsOK
<1>2. PICK r : r = [row EXCEPT !.stage = "building", !.lease = "live"]
  OBVIOUS
<1>3. /\ r \in Rows /\ r.ops = row.ops /\ r.done = row.done /\ r.status = row.status
  BY <1>1, <1>2 DEF Rows, Stages, Leases
<1>4. jobs' = [jobs EXCEPT ![j] = r]
  BY <1>1, <1>2 DEF Staged, JobsOK
<1> QED
  BY <1>1, <1>3, <1>4, JobWritten

LEMMA ParsedOK ==
  ASSUME NEW run \in Runs
  PROVE  /\ Parsed(run) \in Runs /\ Parsed(run).at \in {"read", "extract", "link"}
         /\ Parsed(run).at = "read" <=> run.todo # {}
         /\ Parsed(run).job = run.job /\ Parsed(run).mode = run.mode
         /\ Parsed(run).seen = run.seen /\ Parsed(run).todo = run.todo
         /\ Parsed(run).kept = run.kept /\ Parsed(run).picked = run.picked
         /\ Parsed(run).failed = run.failed /\ Parsed(run).issues = run.issues
<1>1. CASE run.todo # {}
  <2>1. Parsed(run) = [run EXCEPT !.at = "read"]
    BY <1>1 DEF Parsed
  <2> QED
    BY <1>1, <2>1 DEF Runs, Ats
<1>2. CASE run.todo = {} /\ run.mode # "question" /\ run.left \ Restored(run.job) # {}
  <2>1. Parsed(run) = [run EXCEPT !.at = "extract", !.left = @ \ Restored(run.job)]
    BY <1>2 DEF Parsed
  <2>2. PICK r : r = [run EXCEPT !.at = "extract"]
    OBVIOUS
  <2>3. /\ r \in Runs /\ r.at = "extract" /\ r.left = run.left
        /\ r.job = run.job /\ r.mode = run.mode /\ r.seen = run.seen /\ r.todo = run.todo
        /\ r.kept = run.kept /\ r.picked = run.picked /\ r.failed = run.failed /\ r.issues = run.issues
    BY <2>2 DEF Runs, Ats
  <2>4. Parsed(run) = [r EXCEPT !.left = @ \ Restored(run.job)]
    BY <2>1, <2>2, <2>3
  <2> QED
    BY <1>2, <2>3, <2>4 DEF Runs
<1>3. CASE run.todo = {} /\ ~(run.mode # "question" /\ run.left \ Restored(run.job) # {})
  <2>1. Parsed(run) = [run EXCEPT !.at = "link", !.left = {}]
    BY <1>3 DEF Parsed
  <2> QED
    BY <1>3, <2>1 DEF Runs, Ats
<1> QED
  BY <1>1, <1>2, <1>3

LEMMA ShownHeld == ASSUME LineOK PROVE Shown \subseteq Held
<1>1. CASE workspace.active = 0
  BY <1>1 DEF Shown
<1>2. CASE workspace.active # 0
  <2>1. workspace.active = Len(releases) /\ Len(releases) \in Nat
    BY DEF LineOK
  <2>2. releases[workspace.active] \in ReleaseRows
    BY <1>2, <2>1 DEF LineOK
  <2> QED
    BY <1>2, <2>2 DEF Shown, ReleaseRows
<1> QED
  BY <1>1, <1>2
-----------------------------------------------------------------------------
(* The teacher. *)

LEMMA InitOK == Init => Inv
<1> SUFFICES ASSUME Init PROVE Inv
  OBVIOUS
<1>1. FilesOK
  <2>1. <<>> \in Seq(VersionStatuses) /\ Len(<<>>) = 0
    BY EmptySeq
  <2> QED
    BY <2>1, Bounds DEF Init, FilesOK, SourceStatuses
<1>2. JobsOK
  BY Bounds DEF Init, JobsOK
<1>3. LineOK
  BY DEF Init, LineOK
<1>4. WorkersOK
  BY <1>2, IdleOK DEF Init, WorkersOK
<1> QED
  BY <1>1, <1>2, <1>3, <1>4 DEF Inv, Init, Room

(* A step that leaves the jobs, the line and the workers alone. *)
LEMMA TeacherStep ==
  ASSUME Inv, UNCHANGED <<jobs, releases, workspace, worker>>, FilesOK',
         form' = form \/ Len(jobs) < MaxJobs
  PROVE  Inv'
<1>1. JobsOK' /\ LineOK' /\ Len(jobs') \in Nat /\ Len(jobs) <= Len(jobs')
  BY JobsStill, LineStill, JobsLen DEF Inv
<1>2. WorkersOK'
  BY <1>1, WorkersStill DEF Inv
<1> QED
  BY <1>1, <1>2 DEF Inv, Room

LEMMA UploadOK == ASSUME Inv, NEW s \in Sources, Upload(s) PROVE Inv'
<1>1. <<"staged">> \in Seq(VersionStatuses) /\ Len(<<"staged">>) = 1
  BY DEF VersionStatuses
<1>2. FilesOK'
  BY <1>1, Bounds DEF Upload, Inv, FilesOK, SourceStatuses
<1> QED
  BY <1>2, TeacherStep DEF Upload, BuildUnchanged

LEMMA StageDeleteOK == ASSUME Inv, NEW s \in Sources, StageDelete(s) PROVE Inv'
<1>1. FilesOK'
  BY DEF StageDelete, Inv, FilesOK, SourceStatuses
<1> QED
  BY <1>1, TeacherStep DEF StageDelete, BuildUnchanged

LEMMA EditQuestionOK == ASSUME Inv, NEW s \in Sources, EditQuestion(s) PROVE Inv'
<1>1. PICK q : q = Append(version[s], "staged")
  OBVIOUS
<1>2. q \in Seq(VersionStatuses) /\ Len(q) <= MaxVersions
  BY <1>1, Bounds DEF EditQuestion, Inv, FilesOK, VersionStatuses
<1>3. version' = [version EXCEPT ![s] = q]
  BY <1>1 DEF EditQuestion, Inv, FilesOK
<1>4. FilesOK'
  BY <1>2, <1>3 DEF EditQuestion, Inv, FilesOK, SourceStatuses
<1> QED
  BY <1>4, TeacherStep DEF EditQuestion, BuildUnchanged

LEMMA ConfirmReadOK == ASSUME Inv, ConfirmRead PROVE Inv'
<1>1. PICK D \in SUBSET Sources : form' = [s \in D |-> OperationOn(s)]
  BY DEF ConfirmRead
<1>2. \A s : OperationOn(s) \in Operations
  BY DEF OperationOn, Operations
<1>3. form' \in OpsRows
  BY <1>1, <1>2 DEF OpsRows
<1>4. FilesOK'
  BY <1>3 DEF ConfirmRead, Inv, FilesOK
<1> QED
  BY <1>4, TeacherStep DEF ConfirmRead, BuildUnchanged

LEMMA ConfirmSaveOK == ASSUME Inv, ConfirmSave PROVE Inv'
<1>1. form \in OpsRows /\ DOMAIN form \subseteq Sources
  BY OpsTyped DEF ConfirmSave, Inv, FilesOK
<1>2. PICK r : r = NewJob(form)
  OBVIOUS
<1>3. [s \in DOMAIN form |-> "pending"] \in DoneRows
  BY <1>1, DoneTyped
<1>4. r \in Rows /\ DOMAIN r.done = DOMAIN r.ops
  BY <1>1, <1>2, <1>3 DEF NewJob, Rows, JobStatuses, Stages, Leases
<1>5. jobs' = Append(jobs, r) /\ jobs \in Seq(Rows)
  BY <1>2 DEF ConfirmSave, Inv, JobsOK
<1>6. jobs' \in Seq(Rows) /\ Len(jobs') = Len(jobs) + 1 /\ Len(jobs) \in Nat
  BY <1>4, <1>5
<1>7. \A i \in DOMAIN jobs' : jobs'[i] = r \/ (i \in DOMAIN jobs /\ jobs'[i] = jobs[i])
  BY <1>4, <1>5
<1>8. JobsOK'
  BY <1>4, <1>6, <1>7, Bounds DEF Inv, JobsOK, Room, ConfirmSave
<1>9. WorkersOK'
  BY <1>6, WorkersStill DEF Inv, ConfirmSave, BuildUnchanged
<1>10. FilesOK' /\ LineOK'
  BY LineStill DEF Inv, FilesOK, ConfirmSave, BuildUnchanged
<1> QED
  BY <1>8, <1>9, <1>10 DEF Inv, Room, ConfirmSave
-----------------------------------------------------------------------------
(* Claims, leases, deaths. *)

(* A step that writes neither files nor releases and keeps the number of jobs. *)
LEMMA WorkerStep ==
  ASSUME Inv, FilesOK', UNCHANGED <<releases, workspace, form>>,
         JobsOK', Len(jobs') = Len(jobs), WorkersOK'
  PROVE  Inv'
<1>1. LineOK'
  BY LineStill DEF Inv
<1> QED
  BY <1>1 DEF Inv, Room

LEMMA RunReplaced ==
  ASSUME Inv, NEW w \in Workers, NEW r \in Runs, RunOK(r), Become(w, r), UNCHANGED jobs
  PROVE  WorkersOK' /\ JobsOK'
<1>1. JobsOK /\ JobsOK' /\ Len(jobs') \in Nat /\ Len(jobs) <= Len(jobs')
  BY JobsStill, SameLen DEF Inv
<1>2. RunOK(r)'
  BY <1>1, RunStill
<1>3. worker' = [worker EXCEPT ![w] = r]
  BY DEF Become
<1> QED
  BY <1>1, <1>2, <1>3, RunWritten DEF Inv

LEMMA ClaimOK == ASSUME Inv, NEW w \in Workers, Claim(w) PROVE Inv'
<1>1. Claimable \in SUBSET Nat /\ Claimable # {} /\ Claimable \subseteq DOMAIN jobs
  <2>1. Claimable # {}
    BY DEF Claim
  <2>2. Claimable \subseteq DOMAIN jobs
    BY DEF Claimable
  <2>3. DOMAIN jobs = 1..Len(jobs) /\ Len(jobs) \in Nat
    BY JobsLen DEF Inv
  <2>4. DOMAIN jobs \subseteq Nat
    BY <2>3
  <2> QED
    BY <2>1, <2>2, <2>4
<1>2. PICK j \in DOMAIN jobs : j = Min(Claimable)
  BY <1>1, MinOK
<1>3. PICK row \in Rows : row = jobs[j] /\ DOMAIN row.done = DOMAIN row.ops
  BY DEF Inv, JobsOK
<1>4. PICK r : r = [row EXCEPT !.status = "running", !.lease = "live"]
  OBVIOUS
<1>5. r \in Rows /\ DOMAIN r.done = DOMAIN r.ops
  BY <1>3, <1>4 DEF Rows, JobStatuses, Leases
<1>6. jobs' = [jobs EXCEPT ![j] = r]
  BY <1>2, <1>3, <1>4 DEF Claim, Inv, JobsOK
<1>7. JobsOK' /\ Len(jobs') = Len(jobs)
  BY <1>5, <1>6, JobWritten DEF Inv
<1>8. PICK k : k = [Idle EXCEPT !.at = "open", !.job = j]
  OBVIOUS
<1>9. j \in 1..Len(jobs) /\ Len(jobs) \in 0..MaxJobs
  BY JobsLen DEF Inv
<1>10. k \in Runs /\ k.at = "open" /\ k.job = j
  <2>1. j \in 0..MaxJobs
    BY <1>9, Bounds
  <2> QED
    BY <1>8, <2>1, IdleOK DEF Runs, Ats
<1>11. RunOK(k)'
  BY <1>7, <1>9, <1>10 DEF RunOK
<1>12. worker' = [worker EXCEPT ![w] = k]
  BY <1>2, <1>8 DEF Claim
<1>13. WorkersOK'
  BY <1>7, SameLen, <1>10, <1>11, <1>12, RunWritten DEF Inv
<1> QED
  BY <1>7, <1>13, FilesStill, WorkerStep DEF Claim, Inv, FilesUnchanged

LEMMA LapseOK == ASSUME Inv, NEW j \in DOMAIN jobs, Lapse(j) PROVE Inv'
<1>1. PICK row \in Rows : row = jobs[j] /\ DOMAIN row.done = DOMAIN row.ops
  BY DEF Inv, JobsOK
<1>2. PICK r : r = [row EXCEPT !.lease = "lapsed"]
  OBVIOUS
<1>3. r \in Rows /\ DOMAIN r.done = DOMAIN r.ops
  BY <1>1, <1>2 DEF Rows, Leases
<1>4. jobs' = [jobs EXCEPT ![j] = r]
  BY <1>1, <1>2 DEF Lapse, Inv, JobsOK
<1>5. JobsOK' /\ Len(jobs') = Len(jobs)
  BY <1>3, <1>4, JobWritten DEF Inv
<1>6. WorkersOK'
  BY <1>5, SameLen, WorkersStill DEF Inv, Lapse
<1> QED
  BY <1>5, <1>6, FilesStill, WorkerStep DEF Lapse, Inv, FilesUnchanged

LEMMA CrashOK == ASSUME Inv, NEW w \in Workers, Crash(w) PROVE Inv'
<1>1. WorkersOK' /\ JobsOK'
  BY IdleOK, RunReplaced DEF Crash, Become, Inv
<1> QED
  BY <1>1, FilesStill, WorkerStep DEF Crash, Inv, FilesUnchanged
-----------------------------------------------------------------------------
(* The steps of a run. *)

LEMMA KeptHeld ==
  ASSUME LineOK, NEW ops
  PROVE  KeptByQuestions(ops) \subseteq Held /\ KeptByKnowledge(ops) \subseteq Held
BY ShownHeld DEF KeptByQuestions, KeptByKnowledge

(* What a run starts with after its job has been opened. *)
Started(run, r) ==
    LET ops == jobs[run.job].ops
    IN  /\ r.mode = ModeOf(ops) /\ r.job = run.job /\ r.picked = run.picked
        /\ \/ /\ r.mode = "full" /\ r.seen = version /\ r.kept = run.kept
              /\ r.todo = {s \in Sources : source[s] \in {"staged", "active"}}
           \/ /\ r.mode = "question" /\ r.seen = run.seen
              /\ r.todo = Changed(ops) /\ r.kept = KeptByQuestions(ops)
           \/ /\ r.mode = "knowledge" /\ r.seen = run.seen
              /\ r.todo = Changed(ops) /\ r.kept = KeptByKnowledge(ops)

LEMMA OpenMoves ==
  ASSUME Inv, NEW w \in Workers, Open(w), Runnable(worker[w].job)
  PROVE  \E r \in Runs : Started(worker[w], r) /\ Become(w, Parsed(r))
<1>1. PICK run \in Runs, job \in Rows :
          /\ run = worker[w] /\ run.job \in DOMAIN jobs /\ job = jobs[run.job]
  BY RunOf DEF Open
<1>2. PICK start : start = [run EXCEPT !.mode = ModeOf(job.ops)]
  OBVIOUS
<1>3. ModeOf(job.ops) \in {"full", "question", "knowledge"}
  BY DEF ModeOf
<1>4. /\ start \in Runs /\ start.mode = ModeOf(job.ops) /\ start.job = run.job
      /\ start.seen = run.seen /\ start.kept = run.kept /\ start.picked = run.picked
  BY <1>2, <1>3 DEF Runs, Modes
<1>5. Changed(job.ops) \subseteq Sources
  BY OpsTyped DEF Changed, Rows
<1>6. KeptByQuestions(job.ops) \subseteq Held /\ KeptByKnowledge(job.ops) \subseteq Held
  BY KeptHeld DEF Inv
<1>7. CASE start.mode = "full"
  <2>1. PICK r : r = [start EXCEPT !.seen = version,
                            !.todo = {s \in Sources : source[s] \in {"staged", "active"}}]
    OBVIOUS
  <2>2. Become(w, Parsed(r))
    BY <1>1, <1>2, <1>7, <2>1 DEF Open
  <2>3. r \in Runs
    BY <1>4, <2>1 DEF Runs, Inv, FilesOK
  <2>4. Started(run, r)
    BY <1>1, <1>4, <1>7, <2>1 DEF Started, Runs
  <2> QED
    BY <1>1, <2>2, <2>3, <2>4
<1>8. CASE start.mode = "question"
  <2>1. PICK r : r = [start EXCEPT !.todo = Changed(job.ops), !.kept = KeptByQuestions(job.ops)]
    OBVIOUS
  <2>2. Become(w, Parsed(r))
    BY <1>1, <1>2, <1>8, <2>1 DEF Open
  <2>3. r \in Runs
    BY <1>4, <1>5, <1>6, <2>1 DEF Runs
  <2>4. Started(run, r)
    BY <1>1, <1>4, <1>8, <2>1 DEF Started, Runs
  <2> QED
    BY <1>1, <2>2, <2>3, <2>4
<1>9. CASE start.mode = "knowledge"
  <2>1. PICK r : r = [start EXCEPT !.todo = Changed(job.ops), !.kept = KeptByKnowledge(job.ops)]
    OBVIOUS
  <2>2. Become(w, Parsed(r))
    BY <1>1, <1>2, <1>9, <2>1 DEF Open
  <2>3. r \in Runs
    BY <1>4, <1>5, <1>6, <2>1 DEF Runs
  <2>4. Started(run, r)
    BY <1>1, <1>4, <1>9, <2>1 DEF Started, Runs
  <2> QED
    BY <1>1, <2>2, <2>3, <2>4
<1> QED
  BY <1>3, <1>4, <1>7, <1>8, <1>9

LEMMA OpenOK == ASSUME Inv, NEW w \in Workers, Open(w) PROVE Inv'
<1>1. UNCHANGED jobs /\ FilesUnchanged /\ RowsUnchanged
  BY DEF Open
<1>2. WorkersOK' /\ JobsOK'
  <2>1. CASE ~Runnable(worker[w].job)
    <3>1. Become(w, Idle)
      BY <2>1 DEF Open
    <3> QED
      BY <1>1, <3>1, IdleOK, RunReplaced DEF Inv
  <2>2. CASE Runnable(worker[w].job)
    <3>1. PICK r \in Runs : Started(worker[w], r) /\ Become(w, Parsed(r))
      BY <2>2, OpenMoves
    <3>2. r.job = worker[w].job /\ worker[w].job \in 1..Len(jobs)
      BY <3>1, RunOf, JobsLen DEF Started, Open, Inv
    <3>3. Parsed(r) \in Runs /\ RunOK(Parsed(r))
      BY <3>2, ParsedOK DEF RunOK
    <3> QED
      BY <1>1, <3>1, <3>3, RunReplaced
  <2> QED
    BY <2>1, <2>2
<1> QED
  BY <1>1, <1>2, FilesStill, WorkerStep DEF Inv, FilesUnchanged, RowsUnchanged

(* What reading file s does to the run: its version v, or back behind it,  *)
(* is taken if it is readable, and the file has failed if v is not.        *)
FileRead(run, r, s, v, back, readable) ==
    /\ r.job = run.job /\ r.mode = run.mode /\ r.seen = run.seen /\ r.kept = run.kept
    /\ r.todo = run.todo \ {s}
    /\ r.picked = run.picked \cup {<<s, n>> : n \in {v, back} \cap readable}
    /\ r.failed = IF v # 0 /\ v \notin readable THEN run.failed \cup {s} ELSE run.failed

LEMMA ReadMoves ==
  ASSUME Inv, NEW w \in Workers, worker[w].at = "read", NEW s \in Sources, NEW v, NEW back,
         NEW readable \in SUBSET (1..MaxVersions), NEW mark,
         ReadFile(w, s, v, back, readable, mark)
  PROVE  \E r \in Runs : FileRead(worker[w], r, s, v, back, readable) /\ Become(w, Parsed(r))
<1>1. PICK run \in Runs : run = worker[w]
  BY RunOf
<1>2. PICK use : use = {<<s, n>> : n \in {v, back} \cap readable}
  OBVIOUS
<1>3. use \subseteq Held
  <2>1. ASSUME NEW h \in use PROVE h \in Held
    <3>1. PICK n \in 1..MaxVersions : h = <<s, n>>
      BY <1>2, <2>1
    <3> QED
      BY <3>1 DEF Held
  <2> QED
    BY <2>1
<1>4. PICK r : r = [run EXCEPT
               !.todo = @ \ {s}, !.picked = @ \union use,
               !.failed = IF v # 0 /\ v \notin readable THEN @ \union {s} ELSE @,
               !.left = IF s \in QuestionSources THEN @ ELSE @ \union use]
  OBVIOUS
<1>5. Become(w, Parsed(r))
  BY <1>1, <1>2, <1>4 DEF ReadFile
<1>6. r \in Runs
  <2>1. /\ run.todo \ {s} \in SUBSET Sources /\ run.picked \cup use \in SUBSET Held
        /\ run.failed \cup {s} \in SUBSET Sources /\ run.left \cup use \in SUBSET Held
    BY <1>3 DEF Runs
  <2> QED
    BY <1>4, <2>1 DEF Runs
<1>7. FileRead(run, r, s, v, back, readable)
  BY <1>2, <1>4 DEF FileRead, Runs
<1> QED
  BY <1>1, <1>5, <1>6, <1>7

LEMMA VersionMarked ==
  ASSUME FilesOK, NEW s \in Sources, NEW v,
         version' = [version EXCEPT ![s][v] = "failed"] \/ UNCHANGED version
  PROVE  /\ version' \in [Sources -> Seq(VersionStatuses)]
         /\ \A u \in Sources : Len(version'[u]) = Len(version[u])
                              /\ DOMAIN version'[u] = DOMAIN version[u]
         /\ \A u \in Sources : \A n \in DOMAIN version[u] :
               version'[u][n] = version[u][n] \/ (u = s /\ n = v /\ version'[u][n] = "failed")
<1>1. CASE UNCHANGED version
  BY <1>1 DEF FilesOK
<1>2. CASE version' = [version EXCEPT ![s][v] = "failed"]
  <2>1. PICK q \in Seq(VersionStatuses) : q = version[s]
    BY DEF FilesOK
  <2>2. PICK r : r = [q EXCEPT ![v] = "failed"]
    OBVIOUS
  <2>3. r \in [DOMAIN q -> VersionStatuses]
    <3>1. q \in [DOMAIN q -> VersionStatuses]
      BY LenProperties
    <3> QED
      BY <2>2, <3>1 DEF VersionStatuses
  <2>4. r \in Seq(VersionStatuses) /\ Len(r) = Len(q) /\ DOMAIN r = DOMAIN q
    BY <2>3, SameLength
  <2>5. \A n \in DOMAIN q : r[n] = q[n] \/ (n = v /\ r[n] = "failed")
    <3>1. q \in [DOMAIN q -> VersionStatuses]
      BY LenProperties
    <3> QED
      BY <2>2, <3>1
  <2>6. version' = [version EXCEPT ![s] = r]
    BY <1>2, <2>1, <2>2 DEF FilesOK
  <2>7. \A u \in Sources : version'[u] = IF u = s THEN r ELSE version[u]
    BY <2>6 DEF FilesOK
  <2>8. version' \in [Sources -> Seq(VersionStatuses)]
    BY <2>4, <2>6 DEF FilesOK
  <2> QED
    BY <2>1, <2>4, <2>5, <2>7, <2>8
<1> QED
  BY <1>1, <1>2

LEMMA ReadFileOK ==
  ASSUME Inv, NEW w \in Workers, worker[w].at = "read", NEW s \in Sources, NEW v, NEW back,
         NEW readable \in SUBSET (1..MaxVersions), NEW mark,
         ReadFile(w, s, v, back, readable, mark)
  PROVE  Inv'
<1>1. PICK run \in Runs : run = worker[w] /\ run.job \in DOMAIN jobs
  BY RunOf
<1>2. JobsOK' /\ Len(jobs') = Len(jobs)
  BY <1>1, StagedOK DEF ReadFile, Inv
<1>3. PICK r \in Runs : FileRead(run, r, s, v, back, readable) /\ Become(w, Parsed(r))
  BY <1>1, ReadMoves
<1>4. WorkersOK'
  <2>1. Parsed(r) \in Runs /\ Parsed(r).job = run.job /\ RunOK(Parsed(r))
    BY <1>1, <1>3, ParsedOK, JobsLen DEF FileRead, RunOK, Inv
  <2>3. PICK k : k = Parsed(r) /\ RunOK(k)
    BY <2>1
  <2>4. RunOK(k)'
    BY <1>2, SameLen, <2>3, RunStill DEF Inv
  <2>5. worker' = [worker EXCEPT ![w] = k]
    BY <1>3, <2>3 DEF Become
  <2> QED
    BY <1>2, SameLen, <2>1, <2>3, <2>4, <2>5, RunWritten DEF Inv
<1>5. FilesOK'
  <2>1. version' = [version EXCEPT ![s][v] = "failed"] \/ UNCHANGED version
    BY DEF ReadFile
  <2>2. /\ version' \in [Sources -> Seq(VersionStatuses)]
        /\ \A u \in Sources : Len(version'[u]) = Len(version[u])
    BY <2>1, VersionMarked DEF Inv
  <2> QED
    BY <2>2 DEF ReadFile, Inv, FilesOK
<1> QED
  BY <1>2, <1>4, <1>5, WorkerStep DEF ReadFile, RowsUnchanged

(* Which file the three readers read. *)
LEMMA NextFile ==
  ASSUME Inv, NEW w \in Workers, worker[w].at = "read"
  PROVE  Min(worker[w].todo) \in worker[w].todo /\ Min(worker[w].todo) \in Sources
<1>1. PICK run \in Runs : run = worker[w] /\ RunOK(run)
  BY RunOf
<1>2. run.todo \in SUBSET Nat /\ run.todo # {} /\ run.todo \subseteq Sources
  BY <1>1, SourcesAssumption DEF RunOK, Runs
<1> QED
  BY <1>1, <1>2, MinOK

LEMMA ReadersOK ==
  ASSUME Inv, NEW w \in Workers, NEW readable \in SUBSET (1..MaxVersions),
         ReadAny(w, readable) \/ ReadQuestion(w, readable) \/ ReadKnowledge(w, readable)
  PROVE  Inv'
<1>1. worker[w].at = "read"
  BY DEF ReadAny, ReadQuestion, ReadKnowledge, Reading
<1>2. PICK s \in Sources : s = Min(worker[w].todo)
  BY <1>1, NextFile
<1>3. \E v, back, mark : ReadFile(w, s, v, back, readable, mark)
  BY <1>2 DEF ReadAny, ReadQuestion, ReadKnowledge
<1> QED
  BY <1>1, <1>3, ReadFileOK

(* A step of a run that leaves the files and the job alone. *)
LEMMA RunStep ==
  ASSUME Inv, NEW w \in Workers, NEW a \in Ats \ {"read"}, worker[w].at # "idle",
         Become(w, [worker[w] EXCEPT !.at = a]), JobsOK', Len(jobs') = Len(jobs),
         FilesUnchanged, RowsUnchanged
  PROVE  Inv'
<1>1. PICK run \in Runs : run = worker[w] /\ RunOK(run)
  BY RunOf
<1>2. PICK r : r = [run EXCEPT !.at = a]
  OBVIOUS
<1>3. r \in Runs /\ r.at = a /\ r.job = run.job /\ RunOK(r)
  BY <1>1, <1>2 DEF Runs, RunOK
<1>4. RunOK(r)'
  BY <1>3, SameLen, RunStill DEF Inv
<1>5. worker' = [worker EXCEPT ![w] = r]
  BY <1>1, <1>2 DEF Become
<1>6. WorkersOK'
  BY <1>3, <1>4, <1>5, SameLen, RunWritten DEF Inv
<1> QED
  BY <1>6, FilesStill, WorkerStep DEF Inv, FilesUnchanged, RowsUnchanged

LEMMA RunEnds ==
  ASSUME Inv, NEW w \in Workers, Become(w, Idle), JobsOK', Len(jobs') = Len(jobs),
         FilesUnchanged, RowsUnchanged
  PROVE  Inv'
<1>1. WorkersOK'
  BY IdleOK, SameLen, RunWritten DEF Inv, Become
<1> QED
  BY <1>1, FilesStill, WorkerStep DEF Inv, FilesUnchanged, RowsUnchanged

LEMMA ExtractMoves ==
  ASSUME Inv, NEW w \in Workers, NEW b, ExtractBatch(w, b)
  PROVE  \E r \in Runs : r = [worker[w] EXCEPT !.left = @ \ {b}] /\ Become(w, Parsed(r))
<1>1. PICK run \in Runs : run = worker[w]
  BY RunOf DEF ExtractBatch
<1>2. [run EXCEPT !.left = @ \ {b}] \in Runs
  BY DEF Runs
<1> QED
  BY <1>1, <1>2 DEF ExtractBatch

LEMMA ExtractBatchOK == ASSUME Inv, NEW w \in Workers, NEW b \in Held, ExtractBatch(w, b) PROVE Inv'
<1>1. PICK run \in Runs, job \in Rows :
          /\ run = worker[w] /\ run.job \in DOMAIN jobs /\ RunOK(run)
          /\ job = jobs[run.job] /\ DOMAIN job.done = DOMAIN job.ops
  BY RunOf DEF ExtractBatch
<1>2. JobsOK' /\ Len(jobs') = Len(jobs)
  <2>1. PICK row : row = [job EXCEPT !.stage = "building", !.lease = "live", !.saved = @ \cup {b}]
    OBVIOUS
  <2>2. row \in Rows /\ DOMAIN row.done = DOMAIN row.ops
    BY <1>1, <2>1 DEF Rows, Stages, Leases
  <2>3. jobs' = [jobs EXCEPT ![run.job] = row]
    <3>1. jobs' = [jobs EXCEPT ![run.job].stage = "building", ![run.job].lease = "live",
                               ![run.job].saved = @ \cup {b}]
      BY <1>1 DEF ExtractBatch, Saved, Staged
    <3>2. jobs \in Seq(Rows)
      BY DEF Inv, JobsOK
    <3> QED
      BY <1>1, <2>1, <3>1, <3>2
  <2> QED
    BY <1>1, <2>2, <2>3, JobWritten DEF Inv
<1>3. PICK r \in Runs : r = [run EXCEPT !.left = @ \ {b}] /\ Become(w, Parsed(r))
  BY <1>1, ExtractMoves
<1>4. WorkersOK'
  <2>1. PICK k \in Runs : k = Parsed(r) /\ RunOK(k)
    <3>1. r.job = run.job /\ r.todo = run.todo
      BY <1>3 DEF Runs
    <3> QED
      BY <1>1, <3>1, ParsedOK, JobsLen DEF RunOK, Inv
  <2>2. RunOK(k)'
    BY <1>2, SameLen, <2>1, RunStill DEF Inv
  <2>3. worker' = [worker EXCEPT ![w] = k]
    BY <1>3, <2>1 DEF Become
  <2> QED
    BY <1>2, SameLen, <2>1, <2>2, <2>3, RunWritten DEF Inv
<1> QED
  BY <1>2, <1>4, FilesStill, WorkerStep DEF ExtractBatch, Inv, FilesUnchanged, RowsUnchanged

LEMMA LinkOK ==
  ASSUME Inv, NEW w \in Workers, NEW mode, NEW issues \in BOOLEAN, Link(w, mode, issues) PROVE Inv'
<1>1. PICK run \in Runs : run = worker[w] /\ RunOK(run) /\ run.job \in DOMAIN jobs
  BY RunOf DEF Link
<1>2. JobsOK' /\ Len(jobs') = Len(jobs)
  BY <1>1, StagedOK DEF Link, Inv
<1>3. PICK r : r = [run EXCEPT !.at = "publish", !.issues = issues]
  OBVIOUS
<1>4. r \in Runs /\ r.at = "publish" /\ r.job = run.job
  BY <1>3 DEF Runs, Ats
<1>5. RunOK(r)
  BY <1>1, <1>4, JobsLen DEF RunOK, Inv
<1>6. RunOK(r)'
  BY <1>2, <1>5, SameLen, RunStill DEF Inv
<1>7. worker' = [worker EXCEPT ![w] = r]
  BY <1>1, <1>3 DEF Link, Become
<1>8. WorkersOK'
  BY <1>2, <1>4, <1>6, <1>7, SameLen, RunWritten DEF Inv
<1> QED
  BY <1>2, <1>8, FilesStill, WorkerStep DEF Link, Inv, FilesUnchanged, RowsUnchanged

LEMMA BuildFailsOK == ASSUME Inv, NEW w \in Workers, BuildFails(w) PROVE Inv'
BY JobsStill, RunStep DEF BuildFails, Inv, Ats

LEMMA PublishRefusedOK == ASSUME Inv, NEW w \in Workers, PublishRefused(w) PROVE Inv'
BY JobsStill, RunStep, RunEnds DEF PublishRefused, Inv, Ats

LEMMA FailReadOK == ASSUME Inv, NEW w \in Workers, FailRead(w) PROVE Inv'
BY JobsStill, RunStep, RunEnds DEF FailRead, Inv, Ats

LEMMA FailOperationsOK == ASSUME Inv, NEW w \in Workers, FailOperations(w) PROVE Inv'
<1>1. PICK run \in Runs, job \in Rows :
          /\ run = worker[w] /\ run.job \in DOMAIN jobs
          /\ job = jobs[run.job] /\ DOMAIN job.done = DOMAIN job.ops
  BY RunOf DEF FailOperations
<1>2. PICK done : done = [s \in DOMAIN job.done |->
                             IF job.done[s] = "pending" THEN "failed" ELSE job.done[s]]
  OBVIOUS
<1>3. done \in DoneRows /\ DOMAIN done = DOMAIN job.ops
  <2>1. \A s \in DOMAIN job.done : job.done[s] \in {"pending", "succeeded", "failed"}
    BY <1>1 DEF Rows, DoneRows
  <2>2. DOMAIN job.ops \subseteq Sources
    BY <1>1, OpsTyped DEF Rows
  <2> QED
    BY <1>1, <1>2, <2>1, <2>2, DoneTyped
<1>4. PICK row : row = [job EXCEPT !.done = done, !.lease = "none"]
  OBVIOUS
<1>5. row \in Rows /\ DOMAIN row.done = DOMAIN row.ops
  BY <1>1, <1>3, <1>4 DEF Rows, Leases
<1>6. jobs' = [jobs EXCEPT ![run.job] = row]
  BY <1>1, <1>2, <1>4 DEF FailOperations, Inv, JobsOK
<1>7. JobsOK' /\ Len(jobs') = Len(jobs)
  BY <1>1, <1>5, <1>6, JobWritten DEF Inv
<1> QED
  BY <1>1, <1>7, RunStep DEF FailOperations, Ats

LEMMA FailJobOK == ASSUME Inv, NEW w \in Workers, FailJob(w) PROVE Inv'
<1>1. PICK run \in Runs, job \in Rows :
          /\ run = worker[w] /\ run.job \in DOMAIN jobs
          /\ job = jobs[run.job] /\ DOMAIN job.done = DOMAIN job.ops
  BY RunOf DEF FailJob
<1>2. PICK row : row = [job EXCEPT !.status = "failed"]
  OBVIOUS
<1>3. row \in Rows /\ DOMAIN row.done = DOMAIN row.ops
  BY <1>1, <1>2 DEF Rows, JobStatuses
<1>4. jobs' = [jobs EXCEPT ![run.job] = row]
  BY <1>1, <1>2 DEF FailJob, Inv, JobsOK
<1>5. JobsOK' /\ Len(jobs') = Len(jobs)
  BY <1>1, <1>3, <1>4, JobWritten DEF Inv
<1> QED
  BY <1>5, RunEnds DEF FailJob
-----------------------------------------------------------------------------
(* The publication. *)

(* The line gets one release more, for a job that had none, at its end.    *)
LEMMA LineGrows ==
  ASSUME Inv, NEW w \in Workers, Publish(w)
  PROVE  /\ LineOK' /\ Len(releases') = Len(releases) + 1 /\ Len(releases) \in Nat
         /\ \A n \in 1..Len(releases) : /\ releases'[n].job = releases[n].job
                                        /\ releases'[n].holds = releases[n].holds
                                        /\ releases[n].job # worker[w].job
         /\ releases'[Len(releases')].job = worker[w].job
         /\ releases'[Len(releases')].holds = worker[w].kept \cup worker[w].picked
<1>1. PICK run \in Runs : run = worker[w] /\ run.job \in DOMAIN jobs
  BY RunOf DEF Publish
<1>2. PICK held \in SUBSET Held : held = run.kept \cup run.picked
  BY DEF Runs
<1>3. run.job \in 1..MaxJobs
  <2>1. run.job \in 1..Len(jobs) /\ Len(jobs) \in 0..MaxJobs
    BY <1>1, JobsLen DEF Inv
  <2> QED
    BY <2>1, Bounds
<1>4. releases \in Seq(ReleaseRows) /\ Len(releases) \in Nat /\ DOMAIN releases = 1..Len(releases)
  BY DEF Inv, LineOK
<1>5. PICK old : old = [n \in DOMAIN releases |-> [releases[n] EXCEPT !.status = "retired"]]
  OBVIOUS
<1>6. \A n \in 1..Len(releases) : /\ old[n] \in ReleaseRows /\ old[n].status = "retired"
                                  /\ old[n].job = releases[n].job /\ old[n].holds = releases[n].holds
  <2>1. ASSUME NEW n \in 1..Len(releases)
        PROVE  /\ old[n] \in ReleaseRows /\ old[n].status = "retired"
               /\ old[n].job = releases[n].job /\ old[n].holds = releases[n].holds
    <3>1. PICK rel \in ReleaseRows : rel = releases[n]
      BY <1>4
    <3>2. old[n] = [rel EXCEPT !.status = "retired"]
      BY <1>4, <1>5, <3>1
    <3> QED
      BY <3>1, <3>2 DEF ReleaseRows
  <2> QED
    BY <2>1
<1>7. old \in Seq(ReleaseRows) /\ Len(old) = Len(releases)
  <2>1. old \in [DOMAIN releases -> ReleaseRows]
    BY <1>4, <1>5, <1>6
  <2> QED
    BY <1>4, <2>1, SameLength
<1>8. PICK new : new = [job |-> run.job, status |-> "active", holds |-> held]
  OBVIOUS
<1>9. new \in ReleaseRows /\ new.job = run.job /\ new.status = "active" /\ new.holds = held
  BY <1>2, <1>3, <1>8 DEF ReleaseRows
<1>10. releases' = Append(old, new)
  BY <1>1, <1>2, <1>5, <1>8 DEF Publish, Published
<1>11. /\ releases' \in Seq(ReleaseRows) /\ Len(releases') = Len(releases) + 1
       /\ DOMAIN releases' = 1..(Len(releases) + 1)
       /\ releases'[Len(releases')] = new
       /\ \A n \in 1..Len(releases) : releases'[n] = old[n]
  BY <1>4, <1>7, <1>9, <1>10
<1>12. \A n \in 1..Len(releases) : releases[n].job # run.job
  BY <1>1, <1>4 DEF Publish, MayPublish, Replayed, ReleaseOf
<1>13. LineOK'
  <2>1. workspace' = [active |-> Len(releases'), revision |-> Len(releases')]
    BY <1>4, <1>11 DEF Publish, Inv, LineOK
  <2>2. \A n \in DOMAIN releases' : n \in 1..Len(releases) \/ n = Len(releases')
    BY <1>4, <1>11
  <2>3. \A m, n \in 1..Len(releases) : releases[m].job = releases[n].job => m = n
    BY <1>4 DEF Inv, LineOK
  <2>4. \A m, n \in DOMAIN releases' : releases'[m].job = releases'[n].job => m = n
    BY <1>6, <1>9, <1>11, <1>12, <2>2, <2>3
  <2>5. \A n \in DOMAIN releases' : releases'[n].status = "active" <=> n = Len(releases')
    BY <1>4, <1>6, <1>9, <1>11, <2>2
  <2> QED
    BY <1>11, <2>1, <2>4, <2>5 DEF LineOK
<1> QED
  BY <1>1, <1>2, <1>4, <1>6, <1>9, <1>11, <1>12, <1>13

(* Its versions are marked active, those of deleted files deleted; no      *)
(* version comes or goes.                                                  *)
LEMMA VersionsPublished ==
  ASSUME FilesOK, NEW held \in SUBSET Held, NEW gone \in SUBSET Sources,
         version' = WithoutVersions(Activated(version, held), gone)
  PROVE  /\ version' \in [Sources -> Seq(VersionStatuses)]
         /\ \A s \in Sources : /\ Len(version'[s]) = Len(version[s])
                               /\ DOMAIN version'[s] = DOMAIN version[s]
         /\ \A s \in Sources : \A n \in DOMAIN version[s] :
               version'[s][n] = IF s \in gone THEN "deleted"
                                ELSE IF <<s, n>> \in held THEN "active"
                                ELSE IF version[s][n] = "active" /\ (\E h \in held : h[1] = s)
                                THEN "retired" ELSE version[s][n]
<1>1. PICK a : a = Activated(version, held)
  OBVIOUS
<1>2. ASSUME NEW s \in Sources
      PROVE  /\ version'[s] \in [DOMAIN version[s] -> VersionStatuses]
             /\ \A n \in DOMAIN version[s] :
               version'[s][n] = IF s \in gone THEN "deleted"
                                ELSE IF <<s, n>> \in held THEN "active"
                                ELSE IF version[s][n] = "active" /\ (\E h \in held : h[1] = s)
                                THEN "retired" ELSE version[s][n]
  <2>1. PICK q \in Seq(VersionStatuses) : q = version[s]
    BY DEF FilesOK
  <2>2. \A n \in DOMAIN q : q[n] \in VersionStatuses
    BY LenProperties
  <2>3. PICK b : b = a[s] /\ b = [n \in DOMAIN q |->
            IF <<s, n>> \in held THEN "active"
            ELSE IF q[n] = "active" /\ (\E h \in held : h[1] = s) THEN "retired"
            ELSE q[n]]
    BY <1>1, <2>1 DEF Activated
  <2>4. version'[s] = IF s \in gone THEN [n \in DOMAIN b |-> "deleted"] ELSE b
    BY <1>1, <2>3 DEF WithoutVersions
  <2>5. DOMAIN b = DOMAIN q
    BY <2>3
  <2>6. \A n \in DOMAIN q : version'[s][n] = IF s \in gone THEN "deleted"
                                ELSE IF <<s, n>> \in held THEN "active"
                                ELSE IF q[n] = "active" /\ (\E h \in held : h[1] = s)
                                THEN "retired" ELSE q[n]
    BY <2>3, <2>4, <2>5
  <2>7. \A n \in DOMAIN q : version'[s][n] \in VersionStatuses
    BY <2>2, <2>6 DEF VersionStatuses
  <2>8. version'[s] = [n \in DOMAIN q |-> version'[s][n]]
    <3>1. CASE s \in gone
      BY <2>4, <2>5, <3>1
    <3>2. CASE s \notin gone
      BY <2>3, <2>4, <3>2
    <3> QED
      BY <3>1, <3>2
  <2> QED
    BY <2>1, <2>6, <2>7, <2>8
<1>3. ASSUME NEW s \in Sources
      PROVE  /\ version'[s] \in Seq(VersionStatuses) /\ Len(version'[s]) = Len(version[s])
             /\ DOMAIN version'[s] = DOMAIN version[s]
  <2>1. PICK q \in Seq(VersionStatuses) : q = version[s]
    BY DEF FilesOK
  <2>2. PICK r : r = version'[s] /\ r \in [DOMAIN q -> VersionStatuses]
    BY <1>2, <2>1
  <2> QED
    BY <2>1, <2>2, SameLength
<1>4. version' = [s \in Sources |-> version'[s]]
  BY DEF WithoutVersions
<1>5. version' \in [Sources -> Seq(VersionStatuses)]
  BY <1>3, <1>4
<1> QED
  BY <1>2, <1>3, <1>5

LEMMA SourcesPublished ==
  ASSUME FilesOK, NEW held \in SUBSET Held, NEW gone \in SUBSET Sources,
         source' = WithoutSources(ActivatedSources(source, held), gone)
  PROVE  /\ source' \in [Sources -> SourceStatuses]
         /\ \A s \in Sources :
               source'[s] = IF \E h \in held : h[1] = s THEN "active"
                            ELSE IF s \in gone /\ source[s] = "pending_delete" THEN "deleted"
                            ELSE source[s]
<1>1. PICK a : a = ActivatedSources(source, held)
                /\ a = [s \in Sources |-> IF \E h \in held : h[1] = s THEN "active" ELSE source[s]]
  BY DEF ActivatedSources
<1>2. source' = [s \in Sources |-> IF s \in gone /\ a[s] = "pending_delete" THEN "deleted" ELSE a[s]]
  BY <1>1 DEF WithoutSources
<1>3. ASSUME NEW s \in Sources
      PROVE  /\ source'[s] \in SourceStatuses
             /\ source'[s] = IF \E h \in held : h[1] = s THEN "active"
                            ELSE IF s \in gone /\ source[s] = "pending_delete" THEN "deleted"
                            ELSE source[s]
  <2>1. source[s] \in SourceStatuses
    BY DEF FilesOK
  <2>2. a[s] = IF \E h \in held : h[1] = s THEN "active" ELSE source[s]
    BY <1>1
  <2>3. source'[s] = IF s \in gone /\ a[s] = "pending_delete" THEN "deleted" ELSE a[s]
    BY <1>2
  <2> QED
    BY <2>1, <2>2, <2>3 DEF SourceStatuses
<1> QED
  BY <1>2, <1>3

LEMMA PublishedOK ==
  ASSUME NEW job \in Rows, DOMAIN job.done = DOMAIN job.ops, NEW run \in Runs
  PROVE  /\ PublishedJob(job, run) \in Rows
         /\ DOMAIN PublishedJob(job, run).done = DOMAIN PublishedJob(job, run).ops
         /\ PublishedJob(job, run).status = Outcome(run) /\ PublishedJob(job, run).ops = job.ops
<1>1. PICK done : done = [s \in DOMAIN job.ops |->
                            CASE s \in run.failed -> "failed"
                              [] s \notin run.failed /\ job.done[s] = "pending" -> "succeeded"
                              [] OTHER -> job.done[s]]
  OBVIOUS
<1>2. \A s \in DOMAIN job.done : job.done[s] \in {"pending", "succeeded", "failed"}
  BY DEF Rows, DoneRows
<1>3. DOMAIN job.ops \subseteq Sources
  BY OpsTyped DEF Rows
<1>4. \A s \in DOMAIN job.ops :
          (CASE s \in run.failed -> "failed"
             [] s \notin run.failed /\ job.done[s] = "pending" -> "succeeded"
             [] OTHER -> job.done[s]) \in {"pending", "succeeded", "failed"}
  BY <1>2
<1>5. done \in [DOMAIN job.ops -> {"pending", "succeeded", "failed"}]
  BY <1>1, <1>4
<1>6. done \in DoneRows /\ DOMAIN done = DOMAIN job.ops
  BY <1>3, <1>5, DoneTyped
<1>7. Outcome(run) \in {"partial", "succeeded"}
  BY DEF Outcome
<1>8. PublishedJob(job, run) =
          [job EXCEPT !.status = Outcome(run), !.stage = "published", !.lease = "none", !.done = done]
  BY <1>1 DEF PublishedJob
<1> QED
  BY <1>6, <1>7, <1>8 DEF Rows, JobStatuses, Stages, Leases

(* The run, the row of its job, what it holds and what it deletes. *)
LEMMA PublishMoves ==
  ASSUME Inv, NEW w \in Workers, Publish(w)
  PROVE  \E run \in Runs, job \in Rows, held \in SUBSET Held, gone \in SUBSET Sources :
            /\ run = worker[w] /\ run.job \in DOMAIN jobs /\ run.at = "publish"
            /\ job = jobs[run.job] /\ DOMAIN job.done = DOMAIN job.ops
            /\ held = run.kept \cup run.picked /\ gone = Deletes(job.ops)
            /\ version' = WithoutVersions(Activated(version, held), gone)
            /\ source' = WithoutSources(ActivatedSources(source, held), gone)
            /\ jobs' = [jobs EXCEPT ![run.job] = PublishedJob(job, run)]
            /\ Become(w, Idle) /\ form' = form
<1>1. PICK run \in Runs, job \in Rows :
          /\ run = worker[w] /\ run.job \in DOMAIN jobs
          /\ job = jobs[run.job] /\ DOMAIN job.done = DOMAIN job.ops
  BY RunOf DEF Publish
<1>2. run.kept \cup run.picked \in SUBSET Held
  BY DEF Runs
<1>3. Deletes(job.ops) \in SUBSET Sources
  BY OpsTyped DEF Deletes, Rows
<1>4. jobs' = [jobs EXCEPT ![run.job] = PublishedJob(job, run)]
  BY <1>1 DEF Publish
<1> QED
  BY <1>1, <1>2, <1>3, <1>4 DEF Publish

LEMMA PublishOK == ASSUME Inv, NEW w \in Workers, Publish(w) PROVE Inv'
<1>1. PICK run \in Runs, job \in Rows, held \in SUBSET Held, gone \in SUBSET Sources :
            /\ run = worker[w] /\ run.job \in DOMAIN jobs
            /\ job = jobs[run.job] /\ DOMAIN job.done = DOMAIN job.ops
            /\ version' = WithoutVersions(Activated(version, held), gone)
            /\ source' = WithoutSources(ActivatedSources(source, held), gone)
            /\ jobs' = [jobs EXCEPT ![run.job] = PublishedJob(job, run)]
            /\ Become(w, Idle) /\ form' = form
  BY PublishMoves
<1>2. PICK r \in Rows : r = PublishedJob(job, run) /\ DOMAIN r.done = DOMAIN r.ops
  BY <1>1, PublishedOK
<1>3. JobsOK' /\ Len(jobs') = Len(jobs)
  BY <1>1, <1>2, JobWritten DEF Inv
<1>4. WorkersOK'
  BY <1>1, <1>3, IdleOK, SameLen, RunWritten DEF Inv, Become
<1>5. FilesOK'
  BY <1>1, VersionsPublished, SourcesPublished DEF Inv, FilesOK
<1>6. LineOK'
  BY LineGrows
<1> QED
  BY <1>1, <1>3, <1>4, <1>5, <1>6 DEF Inv, Room
-----------------------------------------------------------------------------
LEMMA StutterOK == ASSUME Inv, UNCHANGED vars PROVE Inv'
<1>1. FilesOK' /\ JobsOK' /\ LineOK' /\ Len(jobs') = Len(jobs)
  BY LineStill, JobsStill DEF vars, Inv, FilesOK
<1>2. WorkersOK'
  BY <1>1, SameLen, WorkersStill DEF vars, Inv
<1> QED
  BY <1>1, <1>2, WorkerStep DEF vars

LEMMA RunOfOK == ASSUME Inv, NEW w \in Workers, Run(w) PROVE Inv'
<1>1. ASSUME NEW issues \in BOOLEAN,
             LinkAll(w, issues) \/ LinkChanged(w, issues) \/ Relink(w, issues)
      PROVE  Inv'
  <2>1. \E mode : Link(w, mode, issues)
    BY <1>1 DEF LinkAll, LinkChanged, Relink
  <2> QED
    BY <2>1, LinkOK
<1> QED
  BY <1>1, OpenOK, ReadersOK, ExtractBatchOK, BuildFailsOK, PublishOK, PublishRefusedOK,
     FailReadOK, FailOperationsOK, FailJobOK DEF Run

LEMMA NextOK == Inv /\ [Next]_vars => Inv'
BY StutterOK, UploadOK, StageDeleteOK, EditQuestionOK, ConfirmReadOK, ConfirmSaveOK,
   ClaimOK, RunOfOK, CrashOK, LapseOK DEF Next, Teacher

LEMMA Invariance == Spec => []Inv
BY InitOK, NextOK, PTL DEF Spec

(* Every row keeps its shape, no file has more versions than were saved    *)
(* for it, and the workspace points at the last release however many       *)
(* processes publish, stall and die.                                       *)
THEOREM Typing == Spec => []TypeOK
<1>1. Inv => TypeOK
  BY RowsEq DEF Inv, FilesOK, JobsOK, LineOK, WorkersOK, RunOK, TypeOK
<1> QED
  BY <1>1, Invariance, PTL
-----------------------------------------------------------------------------
(* The line as students see it.                                            *)

Line1    == [job : 1..MaxJobs, holds : SUBSET Held]
Rel(rows) == [n \in DOMAIN rows |-> [job |-> rows[n].job, holds |-> rows[n].holds]]
Actives(rows) == {n \in DOMAIN rows : rows[n].status = "active"}
Front(rows, at) == IF Actives(rows) = {} THEN 0 ELSE IF Actives(rows) = {at} THEN at ELSE -1

LEMMA FrontIsLast ==
  ASSUME NEW rows \in Seq(ReleaseRows),
         \A n \in DOMAIN rows : rows[n].status = "active" <=> n = Len(rows)
  PROVE  Front(rows, Len(rows)) = Len(rows)
<1>1. Len(rows) \in Nat /\ DOMAIN rows = 1..Len(rows)
  OBVIOUS
<1>2. CASE Len(rows) = 0
  <2>1. Actives(rows) = {}
    BY <1>1, <1>2 DEF Actives
  <2> QED
    BY <1>2, <2>1 DEF Front
<1>3. CASE Len(rows) # 0
  <2>1. Len(rows) \in DOMAIN rows
    BY <1>1, <1>3
  <2>2. Actives(rows) = {Len(rows)}
    BY <2>1 DEF Actives
  <2> QED
    BY <2>2 DEF Front
<1> QED
  BY <1>2, <1>3

LEMMA RelOK ==
  ASSUME NEW rows \in Seq(ReleaseRows)
  PROVE  Rel(rows) \in Seq(Line1) /\ Len(Rel(rows)) = Len(rows) /\ Len(rows) \in Nat
         /\ \A n \in 1..Len(rows) : /\ Rel(rows)[n].job = rows[n].job
                                    /\ Rel(rows)[n].holds = rows[n].holds
                                    /\ Rel(rows)[n] = [job |-> rows[n].job, holds |-> rows[n].holds]
<1>1. DOMAIN rows = 1..Len(rows) /\ Len(rows) \in Nat
  OBVIOUS
<1>2. ASSUME NEW n \in DOMAIN rows
      PROVE  rows[n].job \in 1..MaxJobs /\ rows[n].holds \in SUBSET Held
  <2>1. rows[n] \in ReleaseRows
    BY <1>1
  <2> QED
    BY <2>1 DEF ReleaseRows
<1>3. PICK r : r = Rel(rows)
  OBVIOUS
<1>4. r \in [DOMAIN rows -> Line1]
  BY <1>2, <1>3 DEF Rel, Line1
<1>5. \A n \in 1..Len(rows) : r[n] = [job |-> rows[n].job, holds |-> rows[n].holds]
  BY <1>1, <1>3 DEF Rel
<1>6. r \in Seq(Line1) /\ Len(r) = Len(rows)
  BY <1>4, SameLength
<1> QED
  BY <1>1, <1>3, <1>5, <1>6

(* Only a publication moves the line. *)
LEMMA RunMoves ==
  ASSUME NEW w \in Workers, Run(w) PROVE UNCHANGED <<releases, workspace>> \/ Publish(w)
<1>1. ASSUME NEW readable,
             ReadAny(w, readable) \/ ReadQuestion(w, readable) \/ ReadKnowledge(w, readable)
      PROVE  UNCHANGED <<releases, workspace>>
  <2>1. \E s, v, back, mark : ReadFile(w, s, v, back, readable, mark)
    BY <1>1 DEF ReadAny, ReadQuestion, ReadKnowledge
  <2> QED
    BY <2>1 DEF ReadFile, RowsUnchanged
<1>2. ASSUME NEW issues, LinkAll(w, issues) \/ LinkChanged(w, issues) \/ Relink(w, issues)
      PROVE  UNCHANGED <<releases, workspace>>
  BY <1>2 DEF LinkAll, LinkChanged, Relink, Link, RowsUnchanged
<1>3. Open(w) \/ BuildFails(w) \/ PublishRefused(w) \/ FailRead(w) \/ FailOperations(w) \/ FailJob(w)
        \/ (\E b : ExtractBatch(w, b)) => RowsUnchanged
  BY DEF Open, BuildFails, PublishRefused, FailRead, FailOperations, FailJob, ExtractBatch
<1> QED
  BY <1>1, <1>2, <1>3 DEF Run, RowsUnchanged

LEMMA LineSteps ==
  ASSUME [Next]_vars PROVE UNCHANGED <<releases, workspace>> \/ \E w \in Workers : Publish(w)
<1>1. CASE UNCHANGED vars
  BY <1>1 DEF vars
<1>2. CASE Teacher
  BY <1>2 DEF Teacher, Upload, StageDelete, EditQuestion, ConfirmRead, ConfirmSave, BuildUnchanged
<1>3. CASE \E j \in DOMAIN jobs : Lapse(j)
  BY <1>3 DEF Lapse
<1>4. CASE \E w \in Workers : Claim(w) \/ Run(w) \/ Crash(w)
  BY <1>4, RunMoves DEF Claim, Crash
<1> QED
  BY <1>1, <1>2, <1>3, <1>4 DEF Next

LEMMA PublishAdds == ASSUME Inv, NEW w \in Workers, Publish(w) PROVE Line!Next
<1>1. PICK old, new : old = releases /\ new = releases'
  OBVIOUS
<1>2. PICK job, holds : job = worker[w].job /\ holds = worker[w].kept \cup worker[w].picked
  OBVIOUS
<1>3. /\ old \in Seq(ReleaseRows) /\ new \in Seq(ReleaseRows)
      /\ Len(old) \in Nat /\ Len(new) = Len(old) + 1
      /\ \A n \in DOMAIN new : new[n].status = "active" <=> n = Len(new)
      /\ workspace'.active = Len(new)
  BY <1>1, LineGrows DEF Inv, LineOK
<1>4. /\ \A n \in 1..Len(old) : /\ new[n].job = old[n].job /\ new[n].holds = old[n].holds
                                /\ old[n].job # job
      /\ new[Len(new)].job = job /\ new[Len(new)].holds = holds
  BY <1>1, <1>2, LineGrows
<1>5. Len(new) \in 1..Len(new)
  BY <1>3
<1>6. PICK o, m : o = Rel(old) /\ m = Rel(new)
  OBVIOUS
<1>7. /\ o \in Seq(Line1) /\ Len(o) = Len(old)
      /\ \A n \in 1..Len(old) : o[n] = [job |-> old[n].job, holds |-> old[n].holds]
      /\ \A n \in 1..Len(old) : o[n].job = old[n].job
  BY <1>3, <1>6, RelOK
<1>8. /\ m \in Seq(Line1) /\ Len(m) = Len(new)
      /\ \A n \in 1..Len(new) : m[n] = [job |-> new[n].job, holds |-> new[n].holds]
  BY <1>3, <1>6, RelOK
<1>9. PICK k : k = [job |-> job, holds |-> holds]
  OBVIOUS
<1>10. m[Len(new)] = k
  BY <1>4, <1>5, <1>8, <1>9
<1>11. k \in Line1
  BY <1>5, <1>8, <1>10
<1>12. job \in 1..MaxJobs /\ holds \in SUBSET Held
  BY <1>9, <1>11 DEF Line1
<1>13. m = Append(o, k)
  <2>1. PICK a : a = Append(o, k)
    OBVIOUS
  <2>2. /\ a \in Seq(Line1) /\ Len(a) = Len(old) + 1
        /\ \A n \in 1..Len(old) : a[n] = o[n]
        /\ a[Len(old) + 1] = k
    BY <1>3, <1>7, <1>11, <2>1
  <2>3. ASSUME NEW n \in 1..Len(old) PROVE n \in 1..Len(new) /\ m[n] = o[n]
    <3>1. n \in 1..Len(new)
      BY <1>3
    <3>2. m[n] = [job |-> new[n].job, holds |-> new[n].holds]
      BY <1>8, <3>1
    <3>3. o[n] = [job |-> old[n].job, holds |-> old[n].holds]
      BY <1>7
    <3>4. new[n].job = old[n].job /\ new[n].holds = old[n].holds
      BY <1>4
    <3> QED
      BY <3>1, <3>2, <3>3, <3>4
  <2>4. \A n \in 1..(Len(old) + 1) : m[n] = a[n]
    BY <1>3, <1>10, <2>2, <2>3
  <2> QED
    BY <1>3, <1>8, <2>1, <2>2, <2>4, SeqEqual
<1>14. Front(new, Len(new)) = Len(m)
  BY <1>3, <1>8, FrontIsLast
<1>15. \A n \in 1..Len(o) : o[n].job # job
  BY <1>4, <1>7
<1>16. Rel(releases) = o /\ Rel(releases)' = m /\ Front(releases, workspace.active)' = Len(m)
  <2>1. Rel(releases)' = Rel(new)
    BY <1>1 DEF Rel
  <2>2. Front(releases, workspace.active)' = Front(new, Len(new))
    BY <1>1, <1>3 DEF Front, Actives
  <2> QED
    BY <1>1, <1>6, <1>14, <2>1, <2>2
<1>17. Line!Publish(job, holds)
  BY <1>9, <1>13, <1>15, <1>16 DEF Line!Publish, Rel, Front, Actives, ActiveReleases
<1> QED
  BY <1>12, <1>17 DEF Line!Next

(* However many processes run a job, and whatever dies or stalls, each job *)
(* adds at most one release to the end of the line, releases never change, *)
(* and students see the last one.                                          *)
THEOREM OneLine == Spec => PublishesOnce
<1>1. Init => Line!Init
  BY DEF Init, Line!Init, ActiveReleases
<1>2. Inv /\ [Next]_vars => [Line!Next]_(Line!vars)
  <2> SUFFICES ASSUME Inv, [Next]_vars PROVE Line!Next \/ UNCHANGED Line!vars
    OBVIOUS
  <2>1. CASE UNCHANGED <<releases, workspace>>
    BY <2>1 DEF Line!vars, ActiveReleases
  <2>2. CASE \E w \in Workers : Publish(w)
    BY <2>2, PublishAdds
  <2> QED
    BY <2>1, <2>2, LineSteps
<1> QED
  BY <1>1, <1>2, Invariance, PTL DEF Spec, PublishesOnce, Line!Spec
-----------------------------------------------------------------------------
(* One worker at a time: what it works on stays as it was.                 *)

With == {"staged", "active", "pending_delete"}

(* Files only grow and versions are only given up; jobs keep what they are *)
(* to do and how they stand.                                               *)
Grow ==
    \A s \in Sources :
        /\ source[s] \in With => source'[s] \in With
        /\ source[s] = "pending_delete" => source'[s] = "pending_delete"
        /\ source'[s] = "absent" => source[s] = "absent" /\ DOMAIN version'[s] = DOMAIN version[s]
        /\ DOMAIN version[s] \subseteq DOMAIN version'[s]
        /\ \A n \in DOMAIN version[s] : version'[s][n] = version[s][n] \/ version'[s][n] = "failed"

KeepJobs == \A i \in DOMAIN jobs : /\ i \in DOMAIN jobs' /\ jobs'[i].ops = jobs[i].ops
                                   /\ jobs'[i].status = jobs[i].status

LEMMA StillGrows == ASSUME FilesUnchanged PROVE Grow
BY DEF FilesUnchanged, Grow

LEMMA HeldPlaces == ASSUME NEW h \in Held PROVE h[1] \in Sources
BY DEF Held

LEMMA ShownGrows ==
  ASSUME Inv, ShownOK, Grow, UNCHANGED <<releases, workspace>> PROVE ShownOK'
<1>1. Shown' = Shown /\ Shown \subseteq Held
  BY ShownHeld DEF Shown, Inv
<1>2. ASSUME NEW h \in Shown
      PROVE  /\ h[2] \in DOMAIN version'[h[1]]
             /\ version'[h[1]][h[2]] \in {"active", "failed", "deleted"}
             /\ version'[h[1]][h[2]] = "active" => source'[h[1]] \in With
  <2>1. PICK s, n : s \in Sources /\ s = h[1] /\ n = h[2]
    BY <1>1, HeldPlaces
  <2>2. /\ n \in DOMAIN version[s] /\ version[s][n] \in {"active", "failed", "deleted"}
        /\ version[s][n] = "active" => source[s] \in With
    BY <2>1 DEF ShownOK, With
  <2> QED
    BY <2>1, <2>2 DEF Grow
<1>3. \A s \in Sources : source'[s] = "absent" => DOMAIN version'[s] = {}
  BY DEF ShownOK, Grow
<1> QED
  BY <1>1, <1>2, <1>3 DEF ShownOK, With

LEMMA CoveredGrows ==
  ASSUME Grow, NEW run, NEW h \in Held, h[2] \in DOMAIN version[h[1]], Covered(run, h)
  PROVE  Covered(run, h)'
<1>1. PICK s, n : s \in Sources /\ s = h[1] /\ n = h[2] /\ n \in DOMAIN version[s]
  BY HeldPlaces
<1>2. /\ source[s] = "pending_delete" => source'[s] = "pending_delete"
      /\ version[s][n] # "active" => version'[s][n] # "active"
  BY <1>1 DEF Grow
<1> QED
  BY <1>1, <1>2 DEF Covered

LEMMA CoversGrows ==
  ASSUME Inv, ShownOK, Grow, KeepJobs, UNCHANGED <<releases, workspace>>,
         NEW run \in Runs, run.at # "idle" => run.job \in DOMAIN jobs, Covers(run)
  PROVE  Covers(run)'
<1>1. Shown' = Shown /\ Shown \subseteq Held
  BY ShownHeld DEF Shown, Inv
<1>2. run.at # "idle" => jobs'[run.job].status = "running"
  BY DEF Covers, KeepJobs
<1>3. ASSUME run.at \in {"read", "extract", "link", "publish"}
      PROVE  Keeps(run, jobs[run.job].ops)'
  <2>1. PICK ops : ops = jobs[run.job].ops /\ ops = jobs'[run.job].ops
    BY <1>3 DEF KeepJobs
  <2>2. Keeps(run, ops)
    BY <1>3, <2>1 DEF Covers
  <2>3. KeptByQuestions(ops)' = KeptByQuestions(ops) /\ KeptByKnowledge(ops)' = KeptByKnowledge(ops)
    BY <1>1 DEF KeptByQuestions, KeptByKnowledge
  <2>4. ASSUME run.mode = "full", NEW h \in Shown PROVE Covered(run, h)'
    <3>1. h \in Held /\ h[2] \in DOMAIN version[h[1]] /\ Covered(run, h)
      BY <1>1, <2>2, <2>4 DEF Keeps, ShownOK
    <3> QED
      BY <3>1, CoveredGrows
  <2>5. ASSUME run.mode = "full", NEW s \in run.todo
        PROVE  run.seen # <<>> /\ DOMAIN run.seen[s] \subseteq DOMAIN version'[s]
    <3>1. s \in Sources /\ run.seen # <<>> /\ DOMAIN run.seen[s] \subseteq DOMAIN version[s]
      BY <2>2, <2>5 DEF Keeps, Runs
    <3> QED
      BY <3>1 DEF Grow
  <2>6. Keeps(run, ops)'
    BY <1>1, <2>2, <2>3, <2>4, <2>5 DEF Keeps
  <2> QED
    BY <2>1, <2>6
<1>4. ASSUME NEW h \in run.kept \cup run.picked PROVE h[2] \in DOMAIN version'[h[1]]
  <2>1. h \in Held /\ h[2] \in DOMAIN version[h[1]]
    BY <1>4 DEF Covers, Runs
  <2> QED
    BY <2>1, HeldPlaces DEF Grow
<1> QED
  BY <1>2, <1>3, <1>4 DEF Covers

(* A step in which no worker moves. *)
LEMMA AloneStill ==
  ASSUME Inv, AloneOK, Grow, KeepJobs, UNCHANGED <<releases, workspace, worker>> PROVE AloneOK'
<1>1. ASSUME NEW u \in Workers PROVE Covers(worker[u])'
  <2>1. PICK l \in Runs : l = worker[u] /\ RunOK(l) /\ Covers(l)
    BY DEF Inv, WorkersOK, AloneOK
  <2>2. l.at # "idle" => l.job \in DOMAIN jobs
    BY <2>1, RunOf
  <2>3. Covers(l)'
    BY <2>1, <2>2, CoversGrows DEF AloneOK
  <2>4. worker'[u] = l
    BY <2>1
  <2> QED
    BY <2>3, <2>4
<1> QED
  BY <1>1, ShownGrows DEF AloneOK

(* A step in which one worker moves on. *)
LEMMA AloneMoves ==
  ASSUME Inv, AloneOK, Grow, KeepJobs, UNCHANGED <<releases, workspace>>, NEW w \in Workers,
         NEW r \in Runs, r.at # "idle" => r.job \in DOMAIN jobs, Covers(r), Become(w, r)
  PROVE  AloneOK'
<1>1. ASSUME NEW u \in Workers PROVE Covers(worker[u])'
  <2>1. CASE u = w
    <3>1. worker'[u] = r
      BY <2>1 DEF Become, Inv, WorkersOK
    <3>2. Covers(r)'
      BY CoversGrows DEF AloneOK
    <3> QED
      BY <3>1, <3>2
  <2>2. CASE u # w
    <3>1. PICK l \in Runs : l = worker[u] /\ RunOK(l) /\ Covers(l)
      BY DEF Inv, WorkersOK, AloneOK
    <3>2. l.at # "idle" => l.job \in DOMAIN jobs
      BY <3>1, RunOf
    <3>3. Covers(l)'
      BY <3>1, <3>2, CoversGrows DEF AloneOK
    <3>4. worker'[u] = l
      BY <2>2, <3>1 DEF Become, Inv, WorkersOK
    <3> QED
      BY <3>3, <3>4
  <2> QED
    BY <2>1, <2>2
<1> QED
  BY <1>1, ShownGrows DEF AloneOK

(* With no other worker, the moving one is all there is to cover. *)
LEMMA AloneRests ==
  ASSUME Alone, Inv, NEW w \in Workers, NEW r, Become(w, r), Covers(r)', ShownOK' PROVE AloneOK'
<1>1. \A u \in Workers : worker'[u] = r
  BY DEF Alone, Become, Inv, WorkersOK
<1> QED
  BY <1>1 DEF AloneOK

LEMMA CoversIdle == Covers(Idle) /\ Covers(Idle)' /\ Idle.at = "idle" /\ Idle.kept = {} /\ Idle.picked = {}
BY DEF Covers, Idle

LEMMA AloneInit == ASSUME Init PROVE AloneOK
<1>1. ShownOK
  <2>1. Shown = {}
    BY DEF Init, Shown
  <2>2. \A s \in Sources : version[s] = <<>>
    BY DEF Init
  <2> QED
    BY <2>1, <2>2 DEF ShownOK
<1> QED
  BY <1>1, CoversIdle DEF Init, AloneOK

LEMMA AloneTeacher == ASSUME Inv, AloneOK, Teacher PROVE AloneOK'
<1>1. UNCHANGED <<releases, workspace, worker>>
  BY DEF Teacher, Upload, StageDelete, EditQuestion, ConfirmRead, ConfirmSave, BuildUnchanged
<1>2. KeepJobs
  <2>1. CASE UNCHANGED jobs
    BY <2>1 DEF KeepJobs
  <2>2. CASE \E r : jobs' = Append(jobs, r)
    <3>1. PICK r : jobs' = Append(jobs, r)
      BY <2>2
    <3>2. DOMAIN jobs = 1..Len(jobs) /\ Len(jobs) \in Nat
      BY JobsLen DEF Inv
    <3>3. DOMAIN jobs' = 1..(Len(jobs) + 1) /\ \A i \in 1..Len(jobs) : jobs'[i] = jobs[i]
      BY <3>1, <3>2 DEF Inv, JobsOK
    <3> QED
      BY <3>2, <3>3 DEF KeepJobs
  <2> QED
    BY <2>1, <2>2 DEF Teacher, Upload, StageDelete, EditQuestion, ConfirmRead, ConfirmSave
<1>3. ASSUME NEW s \in Sources, Upload(s) PROVE Grow
  <2>1. source[s] = "absent" /\ DOMAIN version[s] = {}
    BY <1>3 DEF Upload, AloneOK, ShownOK
  <2> QED
    BY <1>3, <2>1 DEF Upload, Grow, With, Inv, FilesOK
<1>4. ASSUME NEW s \in Sources, StageDelete(s) PROVE Grow
  BY <1>4 DEF StageDelete, Grow, With, Inv, FilesOK
<1>5. ASSUME NEW s \in Sources, EditQuestion(s) PROVE Grow
  <2>1. PICK q \in Seq(VersionStatuses) : q = version[s]
    BY DEF Inv, FilesOK
  <2>2. PICK a : a = Append(q, "staged")
    OBVIOUS
  <2>3. DOMAIN q \subseteq DOMAIN a /\ \A n \in DOMAIN q : a[n] = q[n]
    BY <2>2
  <2>4. version' = [version EXCEPT ![s] = a] /\ source' = [source EXCEPT ![s] = "staged"]
        /\ source[s] \in {"staged", "active"}
    BY <1>5, <2>1, <2>2 DEF EditQuestion, Inv, FilesOK
  <2>5. \A t \in Sources : /\ version'[t] = (IF t = s THEN a ELSE version[t])
                           /\ source'[t] = (IF t = s THEN "staged" ELSE source[t])
    BY <2>4 DEF Inv, FilesOK
  <2> QED
    BY <2>1, <2>3, <2>4, <2>5 DEF Grow, With
<1>6. ConfirmRead \/ ConfirmSave => Grow
  BY DEF ConfirmRead, ConfirmSave, Grow
<1>7. Grow
  BY <1>3, <1>4, <1>5, <1>6 DEF Teacher
<1> QED
  BY <1>1, <1>2, <1>7, AloneStill

LEMMA LapseKeeps == ASSUME Inv, NEW j \in DOMAIN jobs, Lapse(j) PROVE KeepJobs /\ \A i \in DOMAIN jobs :
    jobs'[i].status = jobs[i].status /\ jobs'[i].stage = jobs[i].stage /\ jobs'[i].done = jobs[i].done
<1>1. PICK row \in Rows : row = jobs[j]
  BY DEF Inv, JobsOK
<1>2. PICK r : r = [row EXCEPT !.lease = "lapsed"]
  OBVIOUS
<1>3. r.status = row.status /\ r.ops = row.ops /\ r.stage = row.stage /\ r.done = row.done
  BY <1>1, <1>2 DEF Rows
<1>4. jobs' = [jobs EXCEPT ![j] = r]
  BY <1>1, <1>2 DEF Lapse, Inv, JobsOK
<1> QED
  BY <1>1, <1>3, <1>4 DEF KeepJobs

LEMMA AloneLapse == ASSUME Inv, AloneOK, NEW j \in DOMAIN jobs, Lapse(j) PROVE AloneOK'
BY LapseKeeps, StillGrows, AloneStill DEF Lapse

LEMMA SameJobs == ASSUME UNCHANGED jobs PROVE KeepJobs
BY DEF KeepJobs

LEMMA AloneCrash == ASSUME Inv, AloneOK, NEW w \in Workers, Crash(w) PROVE AloneOK'
BY SameJobs, StillGrows, AloneMoves, IdleOK, CoversIdle DEF Crash, Become

(* The oldest claimable job starts to run. *)
LEMMA ClaimMoves ==
  ASSUME Inv, NEW w \in Workers, Claim(w)
  PROVE  \E j \in DOMAIN jobs, r \in Runs :
            /\ jobs[j].status \in {"queued", "running"} /\ r.at = "open" /\ r.job = j
            /\ r.kept = {} /\ r.picked = {} /\ Become(w, r)
            /\ jobs' = [jobs EXCEPT ![j].status = "running", ![j].lease = "live"]
<1>1. Claimable \in SUBSET Nat /\ Claimable # {} /\ Claimable \subseteq DOMAIN jobs
  <2>1. Claimable # {}
    BY DEF Claim
  <2>2. Claimable \subseteq DOMAIN jobs
    BY DEF Claimable
  <2>3. DOMAIN jobs = 1..Len(jobs) /\ Len(jobs) \in Nat
    BY JobsLen DEF Inv
  <2>4. DOMAIN jobs \subseteq Nat
    BY <2>3
  <2> QED
    BY <2>1, <2>2, <2>4
<1>2. PICK j \in Claimable : j = Min(Claimable)
  BY <1>1, MinOK
<1>3. PICK r : r = [Idle EXCEPT !.at = "open", !.job = j]
  OBVIOUS
<1>4. j \in DOMAIN jobs /\ j \in 0..MaxJobs
  <2>1. j \in 1..Len(jobs) /\ Len(jobs) \in 0..MaxJobs
    BY <1>1, JobsLen DEF Inv
  <2> QED
    BY <1>1, <2>1, Bounds
<1>5. r \in Runs /\ r.at = "open" /\ r.job = j /\ r.kept = {} /\ r.picked = {}
  <2>1. Idle \in Runs
    BY IdleOK
  <2> QED
    BY <1>3, <1>4, <2>1, CoversIdle DEF Runs, Ats
<1>6. Become(w, r) /\ jobs' = [jobs EXCEPT ![j].status = "running", ![j].lease = "live"]
  BY <1>2, <1>3 DEF Claim, Become
<1>7. jobs[j].status \in {"queued", "running"}
  BY DEF Claimable
<1> QED
  BY <1>4, <1>5, <1>6, <1>7

LEMMA AloneClaim == ASSUME Alone, Inv, AloneOK, NEW w \in Workers, Claim(w) PROVE AloneOK'
<1>1. PICK j \in DOMAIN jobs, r \in Runs :
            /\ r.at = "open" /\ r.job = j /\ r.kept = {} /\ r.picked = {} /\ Become(w, r)
            /\ jobs' = [jobs EXCEPT ![j].status = "running", ![j].lease = "live"]
  BY ClaimMoves
<1>2. jobs'[j].status = "running"
  <2>1. PICK row \in Rows : row = jobs[j]
    BY DEF Inv, JobsOK
  <2>2. PICK k : k = [row EXCEPT !.status = "running", !.lease = "live"]
    OBVIOUS
  <2>3. jobs' = [jobs EXCEPT ![j] = k]
    BY <1>1, <2>1, <2>2 DEF Inv, JobsOK
  <2> QED
    BY <2>1, <2>2, <2>3 DEF Rows
<1>3. Covers(r)'
  BY <1>1, <1>2 DEF Covers
<1>4. ShownOK'
  BY ShownGrows, StillGrows DEF Claim, AloneOK
<1> QED
  BY <1>1, <1>3, <1>4, AloneRests
-----------------------------------------------------------------------------
(* One worker at a time: the steps of its run.                             *)

LEMMA KeepsSame ==
  ASSUME NEW r, NEW k, NEW ops, Keeps(r, ops), k.mode = r.mode, k.kept = r.kept, k.seen = r.seen,
         k.todo = r.todo, k.picked = r.picked, k.failed = r.failed
  PROVE  Keeps(k, ops)
BY DEF Keeps, Covered

LEMMA CoversParsed ==
  ASSUME NEW r \in Runs, jobs[r.job].status = "running", Keeps(r, jobs[r.job].ops),
         \A h \in r.kept \cup r.picked : h[2] \in DOMAIN version[h[1]]
  PROVE  Covers(Parsed(r))
<1>1. PICK k : k = Parsed(r)
  OBVIOUS
<1>2. /\ k \in Runs /\ k.at \in {"read", "extract", "link"} /\ (k.at = "read" <=> r.todo # {})
      /\ k.job = r.job /\ k.mode = r.mode /\ k.seen = r.seen /\ k.todo = r.todo
      /\ k.kept = r.kept /\ k.picked = r.picked /\ k.failed = r.failed
  BY <1>1, ParsedOK
<1>3. Keeps(k, jobs[k.job].ops)
  BY <1>2, KeepsSame
<1> QED
  BY <1>1, <1>2, <1>3 DEF Covers

(* The run of a worker at work, with what it covers. *)
LEMMA AloneRun ==
  ASSUME Inv, AloneOK, NEW w \in Workers, worker[w].at # "idle"
  PROVE  \E run \in Runs : /\ run = worker[w] /\ run.at # "idle" /\ run.job \in DOMAIN jobs
                           /\ Covers(run) /\ jobs[run.job].status = "running"
                           /\ \A h \in run.kept \cup run.picked : h[2] \in DOMAIN version[h[1]]
<1>1. PICK run \in Runs : run = worker[w] /\ run.job \in DOMAIN jobs
  BY RunOf
<1>2. Covers(run)
  BY <1>1 DEF AloneOK
<1> QED
  BY <1>1, <1>2 DEF Covers

LEMMA StagedKeeps == ASSUME JobsOK, NEW j \in DOMAIN jobs, jobs' = Staged(j) PROVE KeepJobs
BY StagedOK DEF KeepJobs

LEMMA CoversFailing ==
  ASSUME NEW run \in Runs, Covers(run), run.at # "idle",
         NEW a \in {"fail", "fail operations", "fail job"}
  PROVE  [run EXCEPT !.at = a] \in Runs /\ Covers([run EXCEPT !.at = a])
<1>1. PICK r : r = [run EXCEPT !.at = a]
  OBVIOUS
<1>2. r \in Runs /\ r.at = a /\ r.job = run.job /\ r.kept = run.kept /\ r.picked = run.picked
  BY <1>1 DEF Runs, Ats
<1>3. Covers(r)
  BY <1>2 DEF Covers
<1> QED
  BY <1>1, <1>2, <1>3

(* The run fails, or goes on failing, or ends. *)
LEMMA AloneFails ==
  ASSUME Inv, AloneOK, NEW w \in Workers, worker[w].at # "idle", FilesUnchanged, KeepJobs,
         UNCHANGED <<releases, workspace>>,
         \/ Become(w, Idle)
         \/ \E a \in {"fail", "fail operations", "fail job"} : Become(w, [worker[w] EXCEPT !.at = a])
  PROVE  AloneOK'
<1>1. Grow
  BY StillGrows
<1>2. CASE Become(w, Idle)
  BY <1>1, <1>2, AloneMoves, IdleOK, CoversIdle
<1>3. CASE \E a \in {"fail", "fail operations", "fail job"} : Become(w, [worker[w] EXCEPT !.at = a])
  <2>1. PICK a \in {"fail", "fail operations", "fail job"} : Become(w, [worker[w] EXCEPT !.at = a])
    BY <1>3
  <2>2. PICK run \in Runs : run = worker[w] /\ run.job \in DOMAIN jobs /\ Covers(run)
    BY AloneRun
  <2>3. PICK r \in Runs : r = [run EXCEPT !.at = a] /\ Covers(r) /\ r.job = run.job
    <3>1. [run EXCEPT !.at = a].job = run.job
      BY <2>2 DEF Runs
    <3> QED
      BY <2>2, <3>1, CoversFailing
  <2> QED
    BY <1>1, <2>1, <2>2, <2>3, AloneMoves
<1> QED
  BY <1>2, <1>3

LEMMA AloneBuildFails ==
  ASSUME Inv, AloneOK, NEW w \in Workers, BuildFails(w) \/ PublishRefused(w) \/ FailRead(w) PROVE AloneOK'
BY AloneFails, SameJobs DEF BuildFails, PublishRefused, FailRead, RowsUnchanged

LEMMA FailOperationsMoves ==
  ASSUME Inv, NEW w \in Workers, FailOperations(w)
  PROVE  KeepJobs /\ \A i \in DOMAIN jobs : i # worker[w].job => jobs'[i] = jobs[i]
<1>1. PICK run \in Runs, job \in Rows : run = worker[w] /\ run.job \in DOMAIN jobs /\ job = jobs[run.job]
  BY RunOf DEF FailOperations
<1>2. PICK done : done = [s \in DOMAIN job.done |->
                             IF job.done[s] = "pending" THEN "failed" ELSE job.done[s]]
  OBVIOUS
<1>3. PICK row : row = [job EXCEPT !.done = done, !.lease = "none"]
  OBVIOUS
<1>4. row.ops = job.ops /\ row.status = job.status
  BY <1>1, <1>3 DEF Rows
<1>5. jobs' = [jobs EXCEPT ![run.job] = row]
  BY <1>1, <1>2, <1>3 DEF FailOperations, Inv, JobsOK
<1> QED
  BY <1>1, <1>4, <1>5 DEF KeepJobs

LEMMA AloneFailOperations ==
  ASSUME Inv, AloneOK, NEW w \in Workers, FailOperations(w) PROVE AloneOK'
BY AloneFails, FailOperationsMoves DEF FailOperations, RowsUnchanged

LEMMA AloneFailJob == ASSUME Alone, Inv, AloneOK, NEW w \in Workers, FailJob(w) PROVE AloneOK'
<1>1. ShownOK'
  BY ShownGrows, StillGrows DEF FailJob, RowsUnchanged, AloneOK
<1> QED
  BY <1>1, CoversIdle, AloneRests DEF FailJob

LEMMA AloneExtract ==
  ASSUME Inv, AloneOK, NEW w \in Workers, NEW b \in Held, ExtractBatch(w, b) PROVE AloneOK'
<1>1. PICK run \in Runs :
          /\ run = worker[w] /\ run.at = "extract" /\ run.job \in DOMAIN jobs
          /\ Covers(run) /\ jobs[run.job].status = "running"
          /\ \A h \in run.kept \cup run.picked : h[2] \in DOMAIN version[h[1]]
  BY AloneRun DEF ExtractBatch
<1>2. PICK r \in Runs : r = [run EXCEPT !.left = @ \ {b}] /\ Become(w, Parsed(r))
  BY <1>1, ExtractMoves
<1>3. /\ r.job = run.job /\ r.mode = run.mode /\ r.seen = run.seen /\ r.todo = run.todo
      /\ r.kept = run.kept /\ r.picked = run.picked /\ r.failed = run.failed
  BY <1>2 DEF Runs
<1>4. Keeps(run, jobs[run.job].ops)
  BY <1>1 DEF Covers
<1>5. Keeps(r, jobs[r.job].ops)
  BY <1>3, <1>4, KeepsSame
<1>6. Covers(Parsed(r)) /\ Parsed(r) \in Runs /\ Parsed(r).job \in DOMAIN jobs
  BY <1>1, <1>3, <1>5, CoversParsed, ParsedOK
<1>7. KeepJobs
  <2>1. PICK job \in Rows : job = jobs[run.job]
    BY <1>1 DEF Inv, JobsOK
  <2>2. PICK row : row = [job EXCEPT !.stage = "building", !.lease = "live", !.saved = @ \cup {b}]
    OBVIOUS
  <2>3. row.ops = job.ops /\ row.status = job.status
    BY <2>1, <2>2 DEF Rows
  <2>4. jobs' = [jobs EXCEPT ![run.job] = row]
    <3>1. jobs' = [[jobs EXCEPT ![run.job].stage = "building", ![run.job].lease = "live"]
                     EXCEPT ![run.job].saved = @ \cup {b}]
      BY <1>1 DEF ExtractBatch, Saved, Staged
    <3>2. jobs \in Seq(Rows) /\ run.job \in DOMAIN jobs
      BY <1>1 DEF Inv, JobsOK
    <3> QED
      BY <2>1, <2>2, <3>1, <3>2
  <2> QED
    BY <1>1, <2>1, <2>3, <2>4 DEF KeepJobs
<1> QED
  BY <1>2, <1>6, <1>7, StillGrows, AloneMoves DEF ExtractBatch, RowsUnchanged

LEMMA AloneLink ==
  ASSUME Inv, AloneOK, NEW w \in Workers, NEW mode, NEW issues \in BOOLEAN, Link(w, mode, issues)
  PROVE  AloneOK'
<1>1. PICK run \in Runs :
          /\ run = worker[w] /\ run.at = "link" /\ run.job \in DOMAIN jobs
          /\ Covers(run) /\ jobs[run.job].status = "running"
          /\ \A h \in run.kept \cup run.picked : h[2] \in DOMAIN version[h[1]]
  BY AloneRun DEF Link
<1>2. PICK r : r = [run EXCEPT !.at = "publish", !.issues = issues]
  OBVIOUS
<1>3. /\ r \in Runs /\ r.at = "publish"
      /\ r.job = run.job /\ r.mode = run.mode /\ r.seen = run.seen /\ r.todo = run.todo
      /\ r.kept = run.kept /\ r.picked = run.picked /\ r.failed = run.failed
  BY <1>2 DEF Runs, Ats
<1>4. Keeps(run, jobs[run.job].ops) /\ run.todo = {}
  BY <1>1 DEF Covers
<1>5. Keeps(r, jobs[r.job].ops)
  BY <1>3, <1>4, KeepsSame
<1>6. Covers(r)
  BY <1>1, <1>3, <1>4, <1>5 DEF Covers
<1>7. Become(w, r) /\ KeepJobs /\ FilesUnchanged /\ RowsUnchanged
  BY <1>1, <1>2, StagedKeeps DEF Link, Inv
<1> QED
  BY <1>1, <1>3, <1>6, <1>7, StillGrows, AloneMoves DEF RowsUnchanged
LEMMA VersionsThere == ASSUME FilesOK, NEW s \in Sources PROVE version # <<>>
<1>1. DOMAIN version = Sources /\ DOMAIN <<>> = {}
  BY DEF FilesOK
<1> QED
  BY <1>1

LEMMA AloneOpen == ASSUME Inv, AloneOK, NEW w \in Workers, Open(w) PROVE AloneOK'
<1>1. UNCHANGED jobs /\ FilesUnchanged /\ RowsUnchanged /\ worker[w].at # "idle"
  BY DEF Open
<1>2. CASE ~Runnable(worker[w].job)
  <2>1. Become(w, Idle)
    BY <1>2 DEF Open
  <2> QED
    BY <1>1, <2>1, AloneFails, SameJobs DEF RowsUnchanged
<1>3. CASE Runnable(worker[w].job)
  <2>1. PICK run \in Runs :
            /\ run = worker[w] /\ run.job \in DOMAIN jobs /\ jobs[run.job].status = "running"
            /\ \A h \in run.kept \cup run.picked : h[2] \in DOMAIN version[h[1]]
    BY <1>1, AloneRun
  <2>2. PICK r \in Runs : Started(run, r) /\ Become(w, Parsed(r))
    BY <1>3, <2>1, OpenMoves
  <2>3. PICK ops : ops = jobs[run.job].ops
    OBVIOUS
  <2>4. r.job = run.job /\ r.picked = run.picked
    BY <2>2 DEF Started
  <2>5. \A h \in Shown : h \in Held /\ h[1] \in Sources /\ h[2] \in DOMAIN version[h[1]]
    BY ShownHeld, HeldPlaces DEF AloneOK, ShownOK, Inv
  <2>6. \A h \in r.kept : h[2] \in DOMAIN version[h[1]]
    <3>1. r.kept = run.kept \/ r.kept \subseteq Shown
      BY <2>2 DEF Started, KeptByQuestions, KeptByKnowledge
    <3> QED
      BY <2>1, <2>5, <3>1
  <2>7. Keeps(r, ops)
    <3>1. r.mode = "question" => r.kept = KeptByQuestions(ops)
      BY <2>2, <2>3 DEF Started
    <3>2. r.mode = "knowledge" => r.kept = KeptByKnowledge(ops)
      BY <2>2, <2>3 DEF Started
    <3>3. r.mode \in {"full", "question", "knowledge"}
      BY <2>2 DEF Started
    <3>4. ASSUME r.mode = "full", NEW h \in Shown PROVE Covered(r, h)
      <4>1. r.seen = version /\ r.todo = {s \in Sources : source[s] \in {"staged", "active"}}
        BY <2>2, <3>4 DEF Started
      <4>2. PICK s, n : s \in Sources /\ s = h[1] /\ n = h[2] /\ n \in DOMAIN version[s]
        BY <2>5
      <4>3. version[s][n] = "active" => source[s] \in {"staged", "active", "pending_delete"}
        BY <4>2 DEF AloneOK, ShownOK
      <4>4. version # <<>>
        BY <4>2, VersionsThere DEF Inv
      <4> QED
        BY <4>1, <4>2, <4>3, <4>4 DEF Covered
    <3>5. ASSUME r.mode = "full", NEW s \in r.todo
          PROVE  r.seen # <<>> /\ DOMAIN r.seen[s] \subseteq DOMAIN version[s]
      <4>1. r.seen = version /\ s \in Sources
        BY <2>2, <3>5 DEF Started
      <4> QED
        BY <4>1, VersionsThere DEF Inv
    <3> QED
      BY <3>1, <3>2, <3>3, <3>4, <3>5 DEF Keeps
  <2>8. Covers(Parsed(r)) /\ Parsed(r) \in Runs /\ Parsed(r).job \in DOMAIN jobs
    BY <2>1, <2>3, <2>4, <2>6, <2>7, CoversParsed, ParsedOK
  <2> QED
    BY <1>1, <2>2, <2>8, SameJobs, StillGrows, AloneMoves DEF RowsUnchanged
<1> QED
  BY <1>2, <1>3

(* The version of a file that is read is one it has. *)
LEMMA PreferredOK ==
  ASSUME NEW s, NEW in, in[s] \in Seq(VersionStatuses)
  PROVE  /\ Preferred(s, in) \in DOMAIN in[s] \/ Preferred(s, in) = 0
         /\ (\E n \in DOMAIN in[s] : in[s][n] = "active") => Preferred(s, in) \in DOMAIN in[s]
<1>1. PICK n \in Nat : n = Len(in[s]) /\ DOMAIN in[s] = 1..n
  BY LenProperties
<1>2. PICK staged, active : staged = Number(s, in, {"staged"}) /\ active = Number(s, in, {"active"})
  OBVIOUS
<1>3. staged \subseteq 1..n /\ active \subseteq 1..n
  BY <1>1, <1>2 DEF Number
<1>4. PICK best \in SUBSET (1..n) : best = IF staged # {} THEN staged ELSE active
  BY <1>3
<1>5. Preferred(s, in) = IF best = {} THEN 0 ELSE Max(best)
  BY <1>2, <1>4 DEF Preferred
<1>6. best # {} => Max(best) \in best
  BY MaxOK
<1>7. (\E m \in DOMAIN in[s] : in[s][m] = "active") => best # {}
  BY <1>2, <1>4 DEF Number
<1> QED
  BY <1>1, <1>4, <1>5, <1>6, <1>7

LEMMA ActiveBesideOK ==
  ASSUME NEW s, NEW in, in[s] \in Seq(VersionStatuses), NEW v
  PROVE  ActiveBeside(s, in, v) \in DOMAIN in[s] \/ ActiveBeside(s, in, v) = 0
<1>1. PICK n \in Nat : n = Len(in[s]) /\ DOMAIN in[s] = 1..n
  BY LenProperties
<1>2. PICK best \in SUBSET (1..n) : best = Number(s, in, {"active"}) \ {v}
  BY <1>1 DEF Number
<1>3. best # {} => Max(best) \in best
  BY MaxOK
<1>4. ActiveBeside(s, in, v) = IF best = {} THEN 0 ELSE Max(best)
  BY <1>2 DEF ActiveBeside
<1> QED
  BY <1>1, <1>3, <1>4

(* Whichever build reads the next file, it reads versions the file has; a  *)
(* full one reads one when it saw an active one.                           *)
LEMMA ReadsAVersion ==
  ASSUME Inv, AloneOK, NEW w \in Workers, NEW readable,
         ReadAny(w, readable) \/ ReadQuestion(w, readable) \/ ReadKnowledge(w, readable)
  PROVE  \E s, v, back, mark :
            /\ s \in Sources
            /\ ReadFile(w, s, v, back, readable, mark)
            /\ v \in DOMAIN version[s] \/ v = 0
            /\ back \in DOMAIN version[s] \/ back = 0
            /\ worker[w].mode = "full" =>
                  ((\E n \in DOMAIN worker[w].seen[s] : worker[w].seen[s][n] = "active") => v # 0)
<1>1. worker[w].at = "read"
  BY DEF ReadAny, ReadQuestion, ReadKnowledge, Reading
<1>2. PICK s \in Sources : s = Min(worker[w].todo) /\ s \in worker[w].todo
  BY <1>1, NextFile
<1>3. PICK run \in Runs : run = worker[w] /\ Covers(run)
  BY <1>1, AloneRun
<1>4. version[s] \in Seq(VersionStatuses)
  BY DEF Inv, FilesOK
<1>5. CASE ReadAny(w, readable)
  <2>1. run.mode = "full" /\ run.at = "read"
    BY <1>3, <1>5 DEF ReadAny, Reading
  <2>2. PICK seen : seen = run.seen /\ seen[s] \in Seq(VersionStatuses)
                    /\ DOMAIN seen[s] \subseteq DOMAIN version[s]
    BY <1>2, <1>3, <2>1 DEF Covers, Keeps, Runs
  <2>3. PICK v : v = Preferred(s, seen)
    OBVIOUS
  <2>4. PICK back : back = Back(s, seen, v, readable)
    OBVIOUS
  <2>5. ReadFile(w, s, v, back, readable, v # 0 /\ seen[s][v] = "staged")
    BY <1>2, <1>3, <1>5, <2>2, <2>3, <2>4 DEF ReadAny
  <2>6. /\ v \in DOMAIN seen[s] \/ v = 0
        /\ (\E n \in DOMAIN seen[s] : seen[s][n] = "active") => v \in DOMAIN seen[s]
    BY <2>2, <2>3, PreferredOK
  <2>7. back \in DOMAIN seen[s] \/ back = 0
    BY <2>2, <2>4, ActiveBesideOK DEF Back
  <2>8. 0 \notin DOMAIN seen[s]
    BY <2>2
  <2> QED
    BY <1>3, <2>2, <2>5, <2>6, <2>7, <2>8
<1>6. CASE ReadQuestion(w, readable)
  <2>1. run.mode = "question"
    BY <1>3, <1>6 DEF ReadQuestion, Reading
  <2>2. PICK v : v = Preferred(s, version)
    OBVIOUS
  <2>3. PICK back : back = Back(s, version, v, readable)
    OBVIOUS
  <2>4. ReadFile(w, s, v, back, readable, v # 0 /\ version[s][v] = "staged")
    BY <1>2, <1>6, <2>2, <2>3 DEF ReadQuestion
  <2> QED
    BY <1>3, <1>4, <2>1, <2>2, <2>3, <2>4, PreferredOK, ActiveBesideOK DEF Back
<1>7. CASE ReadKnowledge(w, readable)
  <2>1. run.mode = "knowledge"
    BY <1>3, <1>7 DEF ReadKnowledge, Reading
  <2>2. PICK v : v = Preferred(s, version)
    OBVIOUS
  <2>3. ReadFile(w, s, v, 0, readable, TRUE)
    BY <1>2, <1>7, <2>2 DEF ReadKnowledge
  <2> QED
    BY <1>3, <1>4, <2>1, <2>2, <2>3, PreferredOK
<1> QED
  BY <1>5, <1>6, <1>7
LEMMA AloneRead ==
  ASSUME Inv, AloneOK, NEW w \in Workers, NEW readable \in SUBSET (1..MaxVersions),
         ReadAny(w, readable) \/ ReadQuestion(w, readable) \/ ReadKnowledge(w, readable)
  PROVE  AloneOK' /\ KeepJobs
<1>1. worker[w].at = "read"
  BY DEF ReadAny, ReadQuestion, ReadKnowledge, Reading
<1>2. PICK s, v, back, mark :
            /\ s \in Sources
            /\ ReadFile(w, s, v, back, readable, mark)
            /\ v \in DOMAIN version[s] \/ v = 0
            /\ back \in DOMAIN version[s] \/ back = 0
            /\ worker[w].mode = "full" =>
                  ((\E n \in DOMAIN worker[w].seen[s] : worker[w].seen[s][n] = "active") => v # 0)
  BY ReadsAVersion
<1>3. PICK run \in Runs :
            /\ run = worker[w] /\ run.job \in DOMAIN jobs /\ jobs[run.job].status = "running"
            /\ Covers(run) /\ \A h \in run.kept \cup run.picked : h[2] \in DOMAIN version[h[1]]
  BY <1>1, AloneRun
<1>4. PICK r \in Runs : FileRead(run, r, s, v, back, readable) /\ Become(w, Parsed(r))
  BY <1>1, <1>2, <1>3, ReadMoves
<1>5. PICK ops : ops = jobs[run.job].ops /\ Keeps(run, ops)
  BY <1>1, <1>3 DEF Covers
<1>6. PICK use : use = {<<s, n>> : n \in {v, back} \cap readable} /\ r.picked = run.picked \cup use
  BY <1>4 DEF FileRead
<1>7. \A h \in use : h[1] = s /\ h[2] \in DOMAIN version[s]
  <2>1. 0 \notin readable
    OBVIOUS
  <2> QED
    BY <1>2, <1>6, <2>1
<1>8. \A h \in r.kept \cup r.picked : h[2] \in DOMAIN version[h[1]]
  BY <1>3, <1>4, <1>6, <1>7 DEF FileRead
<1>9. Keeps(r, ops)
  <2>1. /\ r.mode = run.mode /\ r.seen = run.seen /\ r.kept = run.kept /\ r.todo = run.todo \ {s}
        /\ run.failed \subseteq r.failed
        /\ v # 0 => (v \in readable \/ s \in r.failed)
    BY <1>4 DEF FileRead
  <2>2. ASSUME r.mode = "full", NEW h \in Shown PROVE Covered(r, h)
    <3>1. Covered(run, h)
      BY <1>5, <2>1, <2>2 DEF Keeps
    <3>2. CASE h[1] # s
      BY <1>6, <2>1, <3>1, <3>2 DEF Covered
    <3>3. CASE h[1] = s
      <4>1. CASE v # 0 /\ v \in readable
        <5>1. <<s, v>> \in r.picked /\ <<s, v>>[1] = s
          BY <1>6, <4>1
        <5> QED
          BY <3>3, <5>1 DEF Covered
      <4>2. CASE v # 0 /\ v \notin readable
        BY <2>1, <3>3, <4>2 DEF Covered
      <4>3. CASE v = 0
        BY <1>2, <1>3, <1>6, <2>1, <2>2, <3>1, <3>3, <4>3 DEF Covered
      <4> QED
        BY <4>1, <4>2, <4>3
    <3> QED
      BY <3>2, <3>3
  <2> QED
    BY <1>5, <2>1, <2>2 DEF Keeps
<1>10. Parsed(r) \in Runs /\ Parsed(r).job = run.job /\ r.job = run.job
  BY <1>4, ParsedOK DEF FileRead
<1>11. Covers(Parsed(r))
  BY <1>3, <1>5, <1>8, <1>9, <1>10, CoversParsed
<1>12. KeepJobs /\ source' = source /\ UNCHANGED <<releases, workspace>>
  BY <1>2, <1>3, StagedKeeps DEF ReadFile, RowsUnchanged, Inv
<1>13. Grow
  <2>1. version' = [version EXCEPT ![s][v] = "failed"] \/ UNCHANGED version
    BY <1>2 DEF ReadFile
  <2>2. \A u \in Sources : /\ DOMAIN version'[u] = DOMAIN version[u]
                           /\ \A n \in DOMAIN version[u] :
                                 version'[u][n] = version[u][n] \/ version'[u][n] = "failed"
    BY <1>2, <2>1, VersionMarked DEF Inv
  <2> QED
    BY <1>12, <2>2 DEF Grow
<1> QED
  BY <1>3, <1>4, <1>10, <1>11, <1>12, <1>13, AloneMoves

(* The release that is published holds versions that are active now.       *)
LEMMA AlonePublish == ASSUME Alone, Inv, AloneOK, NEW w \in Workers, Publish(w) PROVE AloneOK'
<1>1. PICK run \in Runs, held \in SUBSET Held, gone \in SUBSET Sources :
            /\ run = worker[w] /\ run.at = "publish"
            /\ held = run.kept \cup run.picked
            /\ version' = WithoutVersions(Activated(version, held), gone)
            /\ source' = WithoutSources(ActivatedSources(source, held), gone)
            /\ Become(w, Idle)
  BY PublishMoves
<1>2. \A h \in held : h[2] \in DOMAIN version[h[1]]
  BY <1>1, AloneRun
<1>3. /\ Len(releases') \in Nat /\ Len(releases') # 0 /\ workspace'.active = Len(releases')
      /\ releases'[Len(releases')].holds = held
  <2>1. LineOK' /\ Len(releases') = Len(releases) + 1 /\ Len(releases) \in Nat
    BY LineGrows
  <2> QED
    BY <1>1, <2>1, LineGrows DEF LineOK
<1>4. Shown' = held
  BY <1>3 DEF Shown
<1>5. \A s \in Sources : \A n \in DOMAIN version[s] :
          /\ n \in DOMAIN version'[s]
          /\ <<s, n>> \in held => version'[s][n] = "deleted" \/ version'[s][n] = "active"
  <2>1. \A s \in Sources : DOMAIN version'[s] = DOMAIN version[s]
    BY <1>1, VersionsPublished DEF Inv
  <2>2. ASSUME NEW s \in Sources, NEW n \in DOMAIN version[s], <<s, n>> \in held
        PROVE  version'[s][n] = "deleted" \/ version'[s][n] = "active"
    <3>1. FilesOK /\ version' = WithoutVersions(Activated(version, held), gone)
      BY <1>1 DEF Inv
    <3>2. version'[s][n] = IF s \in gone THEN "deleted"
                           ELSE IF <<s, n>> \in held THEN "active"
                           ELSE IF version[s][n] = "active" /\ (\E h \in held : h[1] = s)
                           THEN "retired" ELSE version[s][n]
      BY <3>1, VersionsPublished
    <3> QED
      BY <2>2, <3>2
  <2> QED
    BY <2>1, <2>2
<1>6. \A s \in Sources : source'[s] = IF \E h \in held : h[1] = s THEN "active"
                            ELSE IF s \in gone /\ source[s] = "pending_delete" THEN "deleted"
                            ELSE source[s]
  BY <1>1, SourcesPublished DEF Inv
<1>7. ASSUME NEW h \in held
      PROVE  /\ h[2] \in DOMAIN version'[h[1]]
             /\ version'[h[1]][h[2]] \in {"active", "failed", "deleted"}
             /\ source'[h[1]] = "active"
  <2>1. PICK s, n : s \in Sources /\ h = <<s, n>> /\ s = h[1] /\ n = h[2]
    BY DEF Held
  <2>2. n \in DOMAIN version[s]
    BY <1>2, <2>1
  <2>3. version'[s][n] = "deleted" \/ version'[s][n] = "active"
    BY <1>5, <2>1, <2>2
  <2>4. source'[s] = "active"
    BY <1>6, <2>1
  <2> QED
    BY <1>5, <2>1, <2>2, <2>3, <2>4
<1>8. \A s \in Sources : source'[s] = "absent" => DOMAIN version'[s] = {}
  <2>1. \A s \in Sources : DOMAIN version'[s] = DOMAIN version[s]
    BY <1>1, VersionsPublished DEF Inv
  <2> QED
    BY <1>6, <2>1 DEF AloneOK, ShownOK
<1>9. ShownOK'
  BY <1>4, <1>7, <1>8 DEF ShownOK
<1> QED
  BY <1>1, <1>9, CoversIdle, AloneRests
-----------------------------------------------------------------------------
LEMMA AloneNext == ASSUME Alone, Inv, AloneOK, [Next]_vars PROVE AloneOK'
<1>1. CASE UNCHANGED vars
  <2>1. Grow /\ KeepJobs
    BY <1>1 DEF vars, Grow, KeepJobs
  <2> QED
    BY <1>1, <2>1, AloneStill DEF vars
<1>2. CASE \E w \in Workers : Run(w)
  <2>1. PICK w \in Workers : Run(w)
    BY <1>2
  <2>2. ASSUME NEW issues \in BOOLEAN,
               LinkAll(w, issues) \/ LinkChanged(w, issues) \/ Relink(w, issues)
        PROVE  AloneOK'
    <3>1. \E mode : Link(w, mode, issues)
      BY <2>2 DEF LinkAll, LinkChanged, Relink
    <3> QED
      BY <3>1, AloneLink
  <2> QED
    BY <2>1, <2>2, AloneOpen, AloneRead, AloneExtract, AloneBuildFails, AlonePublish,
       AloneFailOperations, AloneFailJob DEF Run
<1> QED
  BY <1>1, <1>2, AloneTeacher, AloneClaim, AloneCrash, AloneLapse DEF Next

LEMMA AloneInvariance == Alone => (Spec => [](Inv /\ AloneOK))
<1> SUFFICES ASSUME Alone PROVE Spec => [](Inv /\ AloneOK)
  OBVIOUS
<1>1. Init => Inv /\ AloneOK
  BY InitOK, AloneInit
<1>2. (Inv /\ AloneOK) /\ [Next]_vars => (Inv /\ AloneOK)'
  BY NextOK, AloneNext
<1> QED
  BY <1>1, <1>2, PTL DEF Spec
(* Rows other than that of the worker's job are left alone by a run. *)
LEMMA RunWrites ==
  ASSUME Inv, NEW w \in Workers, Run(w), NEW i \in DOMAIN jobs, i # worker[w].job
  PROVE  jobs'[i] = jobs[i]
<1>1. worker[w].at # "idle"
  BY DEF Run, Open, ReadAny, ReadQuestion, ReadKnowledge, Reading, ExtractBatch, LinkAll,
     LinkChanged, Relink, Link, BuildFails, Publish, PublishRefused, FailRead, FailOperations, FailJob
<1>2. PICK run \in Runs : run = worker[w] /\ run.job \in DOMAIN jobs /\ run.job # i
  BY <1>1, RunOf
<1>3. Staged(run.job)[i] = jobs[i] /\ \A b : Saved(run.job, b)[i] = jobs[i]
  BY <1>2 DEF Staged, Saved, Inv, JobsOK
<1>4. ASSUME NEW readable,
             ReadAny(w, readable) \/ ReadQuestion(w, readable) \/ ReadKnowledge(w, readable)
      PROVE  jobs'[i] = jobs[i]
  <2>1. \E s, v, back, mark : ReadFile(w, s, v, back, readable, mark)
    BY <1>4 DEF ReadAny, ReadQuestion, ReadKnowledge
  <2> QED
    BY <1>2, <1>3, <2>1 DEF ReadFile
<1>5. ASSUME NEW issues, LinkAll(w, issues) \/ LinkChanged(w, issues) \/ Relink(w, issues)
      PROVE  jobs'[i] = jobs[i]
  BY <1>2, <1>3, <1>5 DEF LinkAll, LinkChanged, Relink, Link
<1>6. (\E b : ExtractBatch(w, b)) => jobs'[i] = jobs[i]
  BY <1>2, <1>3 DEF ExtractBatch
<1>7. Open(w) \/ BuildFails(w) \/ PublishRefused(w) \/ FailRead(w) => jobs'[i] = jobs[i]
  BY DEF Open, BuildFails, PublishRefused, FailRead
<1>8. Publish(w) \/ FailOperations(w) \/ FailJob(w) => jobs'[i] = jobs[i]
  BY <1>2 DEF Publish, FailOperations, FailJob, Inv, JobsOK
<1> QED
  BY <1>4, <1>5, <1>6, <1>7, <1>8 DEF Run

LEMMA SettledStep ==
  ASSUME Inv, AloneOK, [Next]_vars, NEW j \in DOMAIN jobs, jobs[j].status \in Settled
  PROVE  jobs'[j].status = jobs[j].status /\ jobs'[j].stage = jobs[j].stage
         /\ jobs'[j].done = jobs[j].done
<1>1. "running" \notin Settled /\ "queued" \notin Settled
  BY DEF Settled
<1>2. CASE UNCHANGED vars
  BY <1>2 DEF vars
<1>3. CASE Teacher
  <2>1. CASE UNCHANGED jobs
    BY <2>1
  <2>2. CASE \E r : jobs' = Append(jobs, r)
    <3>1. j \in 1..Len(jobs) /\ Len(jobs) \in Nat /\ jobs \in Seq(Rows)
      BY JobsLen DEF Inv, JobsOK
    <3>2. jobs'[j] = jobs[j]
      BY <2>2, <3>1
    <3> QED
      BY <3>2
  <2> QED
    BY <1>3, <2>1, <2>2
       DEF Teacher, Upload, StageDelete, EditQuestion, ConfirmRead, ConfirmSave
<1>4. ASSUME NEW w \in Workers, Claim(w) PROVE jobs'[j] = jobs[j]
  BY <1>1, <1>4, ClaimMoves DEF Inv, JobsOK
<1>5. ASSUME NEW w \in Workers, Run(w) PROVE jobs'[j] = jobs[j]
  <2>1. worker[w].at # "idle"
    BY <1>5 DEF Run, Open, ReadAny, ReadQuestion, ReadKnowledge, Reading, ExtractBatch, LinkAll,
       LinkChanged, Relink, Link, BuildFails, Publish, PublishRefused, FailRead, FailOperations, FailJob
  <2>2. jobs[worker[w].job].status = "running"
    BY <2>1, AloneRun
  <2> QED
    BY <1>1, <1>5, <2>2, RunWrites
<1>6. (\E w \in Workers : Crash(w)) => jobs' = jobs
  BY DEF Crash
<1>7. CASE \E i \in DOMAIN jobs : Lapse(i)
  BY <1>7, LapseKeeps
<1> QED
  BY <1>2, <1>3, <1>4, <1>5, <1>6, <1>7 DEF Next

(* While one worker at a time is at work, a job that has ended keeps its   *)
(* result: transition_to and the writes of _fail_job and _record_stage only *)
(* meet a job that runs.                                                   *)
THEOREM ResultsStay == Alone => (Spec => SettledJobsKept)
<1> SUFFICES ASSUME Alone PROVE Spec => SettledJobsKept
  OBVIOUS
<1>1. (Inv /\ AloneOK) /\ [Next]_vars =>
        [\A j \in DOMAIN jobs :
           jobs[j].status \in Settled =>
              /\ jobs'[j].status = jobs[j].status /\ jobs'[j].stage = jobs[j].stage
              /\ jobs'[j].done = jobs[j].done]_vars
  BY SettledStep
<1>2. Spec => [](Inv /\ AloneOK)
  BY AloneInvariance
<1> QED
  BY <1>1, <1>2, PTL DEF Spec, SettledJobsKept

LEMMA PublishDrops ==
  ASSUME Inv, AloneOK, NEW w \in Workers, Publish(w),
         NEW new, new = releases'[Len(releases')], jobs'[new.job].status = "succeeded",
         NEW h \in Shown
  PROVE  \/ h[1] \in DOMAIN jobs'[new.job].ops
         \/ source[h[1]] = "pending_delete"
         \/ version[h[1]][h[2]] # "active"
         \/ \E k \in new.holds : k[1] = h[1]
<1>1. PICK run \in Runs, job \in Rows, held \in SUBSET Held :
            /\ run = worker[w] /\ run.job \in DOMAIN jobs /\ run.at = "publish"
            /\ job = jobs[run.job] /\ DOMAIN job.done = DOMAIN job.ops
            /\ held = run.kept \cup run.picked
            /\ jobs' = [jobs EXCEPT ![run.job] = PublishedJob(job, run)]
  BY PublishMoves
<1>2. new.job = run.job /\ new.holds = held
  BY <1>1, LineGrows
<1>3. jobs'[run.job].ops = job.ops /\ jobs'[run.job].status = Outcome(run)
  <2>1. PICK r : r = PublishedJob(job, run)
    OBVIOUS
  <2>2. r.ops = job.ops /\ r.status = Outcome(run)
    BY <1>1, <2>1, PublishedOK
  <2>3. jobs'[run.job] = r
    BY <1>1, <2>1 DEF Inv, JobsOK
  <2> QED
    BY <2>2, <2>3
<1>4. run.failed = {}
  BY <1>2, <1>3 DEF Outcome
<1>5. run.todo = {} /\ Keeps(run, job.ops)
  <2>1. Covers(run)
    BY <1>1 DEF AloneOK
  <2> QED
    BY <1>1, <2>1 DEF Covers
<1>6. CASE run.mode = "full"
  <2>1. Covered(run, h)
    BY <1>5, <1>6 DEF Keeps
  <2> QED
    BY <1>1, <1>2, <1>4, <1>5, <2>1 DEF Covered
<1>7. CASE run.mode \in {"question", "knowledge"}
  <2>1. h[1] \in DOMAIN job.ops \/ h \in run.kept
    BY <1>5, <1>7 DEF Keeps, KeptByQuestions, KeptByKnowledge, Deletes
  <2> QED
    BY <1>1, <1>2, <1>3, <2>1
<1> QED
  BY <1>5, <1>6, <1>7 DEF Keeps

(* While one worker at a time is at work, a release that reports success   *)
(* drops no file but those its job changes, those marked for deletion and  *)
(* those whose version was given up or deleted, whatever the teacher does  *)
(* between the run's reads and its publication.                            *)
THEOREM NoFileLost == Alone => (Spec => NothingDropped)
<1> SUFFICES ASSUME Alone PROVE Spec => NothingDropped
  OBVIOUS
<1>1. (Inv /\ AloneOK) /\ [Next]_vars =>
        [Len(releases') > Len(releases) =>
           LET new == releases'[Len(releases')]  job == jobs'[new.job]
           IN  job.status = "succeeded" =>
                 \A h \in Shown : \/ h[1] \in DOMAIN job.ops
                                 \/ source[h[1]] = "pending_delete"
                                 \/ version[h[1]][h[2]] # "active"
                                 \/ \E k \in new.holds : k[1] = h[1]]_vars
  <2> SUFFICES ASSUME Inv, AloneOK, [Next]_vars, Len(releases') > Len(releases),
                      NEW new, new = releases'[Len(releases')],
                      jobs'[new.job].status = "succeeded", NEW h \in Shown
               PROVE  \/ h[1] \in DOMAIN jobs'[new.job].ops
                      \/ source[h[1]] = "pending_delete"
                      \/ version[h[1]][h[2]] # "active"
                      \/ \E k \in new.holds : k[1] = h[1]
    BY Zenon
  <2>1. Len(releases) \in Nat
    BY DEF Inv, LineOK
  <2>2. PICK w \in Workers : Publish(w)
    BY <2>1, LineSteps
  <2> QED
    BY <2>2, PublishDrops
<1>2. Spec => [](Inv /\ AloneOK)
  BY AloneInvariance
<1> QED
  BY <1>1, <1>2, PTL DEF Spec, NothingDropped
=============================================================================
