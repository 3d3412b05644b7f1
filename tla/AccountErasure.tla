--------------------------- MODULE AccountErasure ---------------------------
(***************************************************************************)
(* The erasure of accounts and what it races with.  One teacher owns the   *)
(* classes, one student takes attempts in them.  A student's request       *)
(* records its run, freezes the submission in a file, scores and posts, in *)
(* transactions of its own.  The administrator erases the student: on      *)
(* SQLite in one transaction over all rows, on PostgreSQL one module after *)
(* the other beside the transaction that deletes the account.  Files are   *)
(* removed later, from a queue, a bounded batch at a time.  The version    *)
(* number of a class roster is written but never read, and left out.       *)
(***************************************************************************)
EXTENDS Integers, Sequences, FiniteSets, SequencesExt

CONSTANTS
    Vendors,      \* databases to run on: "sqlite", "postgresql"
    Classes,      \* classes of the teacher
    Attempts,     \* attempts of the student, and their frozen submissions
    ClassOf,      \* the class of an attempt
    Uploads,      \* files the teacher uploaded
    Stuck,        \* files the file system refuses to remove
    PurgeOrder,   \* stores in the order the coordinator purges them
    BatchLimit,   \* cleanup jobs in one batch
    MaxSubmits,   \* bound: requests of the student
    MaxRosterCalls, \* bound: additions to and removals from a class
    MaxErasureFaults \* bound: failures of an erasure, deaths of a process

Stores == {PurgeOrder[i] : i \in 1..Len(PurgeOrder)}

ASSUME ErasureAssumption ==
    /\ Vendors \subseteq {"sqlite", "postgresql"}
    /\ ClassOf \in [Attempts -> Classes]
    /\ Attempts \cap Uploads = {}
    /\ Stuck \subseteq Attempts \cup Uploads
    /\ "m0" \in Stores /\ "m5" \in Stores /\ "m8" \in Stores
    /\ IsFiniteSet(Attempts) /\ IsFiniteSet(Uploads)
    /\ PurgeOrder \in Seq(Stores)
    /\ BatchLimit \in Nat \ {0}

VARIABLES
    vendor,    \* the database of this installation
    live,      \* the accounts that exist
    roster,    \* classes the student is an active member of
    rows,      \* <<store, attempt>>: the rows of the student
    files,     \* files on disk
    queue,     \* ErasureFileCleanup in the order of queued_at, pk
    request,   \* what the student's request is doing
    eraser,    \* what the administrator's request is doing
    cleaner,   \* what is left of a batch of cleanup jobs
    late,      \* rows and files written after the erasure had passed them
    submits, rosterCalls, erasureFaults \* counters of the bounds

erasureVars == <<vendor, live, roster, rows, files, queue,
                 request, eraser, cleaner, late, submits, rosterCalls,
                 erasureFaults>>

erasureCounters == <<submits, rosterCalls, erasureFaults>>

Files == Attempts \cup Uploads

NoSubmission == [step |-> "none"]

NoErasure == [step |-> "none"]

Cleaners == {"commit", "command"}

Resting == [step |-> "idle", jobs |-> <<>>]

ErasureTypeOK ==
    /\ vendor \in Vendors
    /\ live \subseteq {"student", "teacher"}
    /\ roster \subseteq Classes
    /\ rows \subseteq Stores \X Attempts
    /\ files \subseteq Files
    /\ queue \in Seq(Files) /\ IsInjective(queue)
    /\ request \in {NoSubmission} \cup
            [step : {"record", "file", "claim", "m8", "m5"},
             attempt : Attempts]
    /\ eraser \in {NoErasure} \cup [step : {"files"}] \cup
            [step : {"purge"}, done : 0..Len(PurgeOrder)]
    /\ cleaner \in [Cleaners -> [step : {"idle", "unlink", "drop"}, jobs : Seq(Files)]]

ErasureInit ==
    /\ vendor \in Vendors
    /\ live = {"student", "teacher"}
    /\ roster = Classes
    /\ rows = {}
    /\ files = Uploads
    /\ queue = <<>>
    /\ request = NoSubmission
    /\ eraser = NoErasure
    /\ cleaner = [c \in Cleaners |-> Resting]
    /\ late = {}
    /\ submits = 0 /\ rosterCalls = 0 /\ erasureFaults = 0

Fail ==
    /\ erasureFaults < MaxErasureFaults
    /\ erasureFaults' = erasureFaults + 1

-----------------------------------------------------------------------------
(* The student. *)

(* What an erasure has passed: everything once the account or the class is *)
(* gone, and the stores the coordinator has purged so far.                 *)
Passed(store) ==
    \/ live # {"student", "teacher"}
    \/ /\ eraser.step = "purge"
       /\ \E i \in 1..eraser.done : PurgeOrder[i] = store

Write(store, a) ==
    /\ rows' = rows \cup {<<store, a>>}
    /\ late' = IF Passed(store) THEN late \cup {<<store, a>>} ELSE late

(* The view checks the session and the roster, and submit that the paper   *)
(* was started,                                                            *)
Submit(a) ==
    /\ request = NoSubmission
    /\ submits < MaxSubmits
    /\ submits' = submits + 1
    /\ "student" \in live
    /\ ClassOf[a] \in roster
    /\ request' = [step |-> "record", attempt |-> a]
    /\ UNCHANGED <<vendor, cleaner, live, roster, rows, files, queue,
                   eraser, late, rosterCalls, erasureFaults>>

(* before the run is recorded, *)
RecordRun ==
    /\ request.step = "record"
    /\ Write("m0", request.attempt)
    /\ request' = [request EXCEPT !.step = "file"]
    /\ UNCHANGED <<vendor, cleaner, live, roster, files, queue, eraser,
                   erasureCounters>>

(* the submission is frozen (_persist_frozen_submission), *)
FreezeSubmission ==
    /\ request.step = "file"
    /\ files' = files \cup {request.attempt}
    /\ late' = IF Passed("m0")
               THEN late \cup {<<"file", request.attempt>>} ELSE late
    /\ request' = [request EXCEPT !.step = "claim"]
    /\ UNCHANGED <<vendor, cleaner, live, roster, rows, queue, eraser,
                   erasureCounters>>

RunThere == <<"m0", request.attempt>> \in rows

(* and the run is claimed, if it is still there. *)
ClaimRun ==
    /\ request.step = "claim"
    /\ request' = IF RunThere
                  THEN [request EXCEPT !.step = "m8"] ELSE NoSubmission
    /\ UNCHANGED <<vendor, cleaner, live, roster, rows, files, queue,
                   eraser, late, erasureCounters>>

(* The M8 and the M5 writes are followed by an advance of the run, which   *)
(* ends the request if the run is gone.                                    *)
StoreResult(store, next) ==
    /\ request.step = store
    /\ Write(store, request.attempt)
    /\ request' = IF RunThere /\ next # "none"
                  THEN [request EXCEPT !.step = next]
                  ELSE NoSubmission
    /\ UNCHANGED <<vendor, cleaner, live, roster, files, queue, eraser,
                   erasureCounters>>

Score == StoreResult("m8", "m5")

Post == StoreResult("m5", "none")

-----------------------------------------------------------------------------
(* The class.  A membership refers to the account, whose row the erasure   *)
(* on PostgreSQL holds locked: an addition waits and then finds it gone.   *)

ChangeRoster(c, members) ==
    /\ rosterCalls < MaxRosterCalls
    /\ rosterCalls' = rosterCalls + 1
    /\ "teacher" \in live
    /\ roster' = members
    /\ UNCHANGED <<vendor, cleaner, live, rows, files, queue, request, eraser, late,
                   submits, erasureFaults>>

AddStudent(c) ==
    /\ c \notin roster
    /\ "student" \in live
    /\ eraser.step # "purge"
    /\ ChangeRoster(c, roster \cup {c})

RemoveStudent(c) == c \in roster /\ ChangeRoster(c, roster \ {c})

-----------------------------------------------------------------------------
(* The erasure. *)

(* Its purge reaches rows written after an earlier one, but a file only    *)
(* through the run it belongs to.                                          *)
LateFiles == {w \in late : w[1] = "file"}

(* _frozen_attempt_ids_for_actor reads the runs on SQLite only. *)
FrozenAttempts ==
    IF vendor = "sqlite" THEN {a \in Attempts : <<"m0", a>> \in rows} ELSE {}

(* bulk_create(ignore_conflicts): jobs that are queued already stay.       *)
Queued(jobs) == queue \o SetToSeq(jobs \ ToSet(queue))

(* One transaction; the writer lock of SQLite is taken at its begin.       *)
EraseOnSqlite ==
    /\ vendor = "sqlite"
    /\ eraser = NoErasure
    /\ "student" \in live
    /\ queue' = Queued(FrozenAttempts)
    /\ rows' = {}
    /\ live' = live \ {"student"}
    /\ roster' = {}
    /\ late' = LateFiles
    /\ eraser' = [step |-> "files"]
    /\ UNCHANGED <<vendor, cleaner, files, request, erasureCounters>>

(* On PostgreSQL the account row is locked ... *)
BeginErasure ==
    /\ vendor = "postgresql"
    /\ eraser = NoErasure
    /\ "student" \in live
    /\ eraser' = [step |-> "purge", done |-> 0]
    /\ late' = LateFiles
    /\ UNCHANGED <<vendor, cleaner, live, roster, rows, files, queue,
                   request, erasureCounters>>

PurgedFromSecond(done) ==
    PurgeOrder[IF done + 1 < Len(PurgeOrder) THEN done + 2 ELSE done + 1]

PurgedFrom(done) == PurgeOrder[done + 1]

(* ... each purge_actor commits for itself ... *)
PurgeStore ==
    /\ eraser.step = "purge"
    /\ eraser.done < Len(PurgeOrder)
    /\ rows' = {w \in rows : w[1] # PurgedFrom(eraser.done)}
    /\ eraser' = [eraser EXCEPT !.done = @ + 1]
    /\ UNCHANGED <<vendor, cleaner, live, roster, files, queue, request,
                   late, erasureCounters>>

(* ... and the account goes with the commit of the Django transaction. *)
CommitErasure ==
    /\ eraser.step = "purge"
    /\ eraser.done = Len(PurgeOrder)
    /\ live' = live \ {"student"}
    /\ roster' = {}
    /\ eraser' = [step |-> "files"]
    /\ UNCHANGED <<vendor, cleaner, rows, files, queue, request, late, erasureCounters>>

(* A failure rolls the Django transaction back; what was purged is gone.   *)
FailErasure ==
    /\ Fail
    /\ eraser.step = "purge"
    /\ eraser' = NoErasure
    /\ UNCHANGED <<vendor, cleaner, live, roster, rows, files, queue,
                   request, late, submits, rosterCalls>>

(* The classes of a teacher go with the account.  PostgreSQL has no adapter *)
(* for them: there the call fails and changes nothing.                      *)
EraseTeacher ==
    /\ vendor = "sqlite"
    /\ eraser = NoErasure
    /\ "teacher" \in live
    /\ queue' = Queued(FrozenAttempts \cup Uploads)
    /\ rows' = {}
    /\ live' = live \ {"teacher"}
    /\ roster' = {}
    /\ eraser' = [step |-> "files"]
    /\ UNCHANGED <<vendor, cleaner, files, request, late,
                   erasureCounters>>

-----------------------------------------------------------------------------
(* The files. *)

(* purge_pending_erasure_files works through the first jobs of the queue,   *)
(* read once.  A file and the row of its job are removed in two steps.  It  *)
(* runs on the commit of an erasure and in the cleanup_erasure_files command, *)
(* which both may be at work.                                              *)

Batch == SubSeq(queue, 1, IF Len(queue) < BatchLimit THEN Len(queue) ELSE BatchLimit)

(* What a caller goes on with; after the last job the erasure is over.     *)
GoOn(c, jobs) ==
    /\ cleaner' = [cleaner EXCEPT ![c] = IF jobs = <<>> THEN Resting
                                         ELSE [step |-> "unlink", jobs |-> jobs]]
    /\ eraser' = IF c = "commit" /\ jobs = <<>> THEN NoErasure ELSE eraser

ReadBatch(c) ==
    /\ cleaner[c] = Resting
    /\ IF c = "commit" THEN eraser.step = "files" ELSE queue # <<>>
    /\ GoOn(c, Batch)
    /\ UNCHANGED <<vendor, live, roster, rows, files, queue, request, late,
                   erasureCounters>>

(* A job whose file cannot be removed stays; the others of the batch go.   *)
UnlinkFile(c) ==
    /\ cleaner[c].step = "unlink"
    /\ LET job == Head(cleaner[c].jobs)
       IN  IF job \in Stuck
           THEN GoOn(c, Tail(cleaner[c].jobs)) /\ UNCHANGED files
           ELSE /\ files' = files \ {job}
                /\ cleaner' = [cleaner EXCEPT ![c].step = "drop"]
                /\ UNCHANGED eraser
    /\ UNCHANGED <<vendor, live, roster, rows, queue, request, late,
                   erasureCounters>>

(* The other caller may have been faster. *)
DropJob(c) ==
    /\ cleaner[c].step = "drop"
    /\ LET job == Head(cleaner[c].jobs)
       IN  \/ job \notin ToSet(queue) /\ UNCHANGED queue
           \/ \E i \in DOMAIN queue : queue[i] = job /\ queue' = RemoveAt(queue, i)
    /\ GoOn(c, Tail(cleaner[c].jobs))
    /\ UNCHANGED <<vendor, live, roster, rows, files, request, late,
                   erasureCounters>>

(* The process dies after the commit, before or amid its cleanup, or the   *)
(* command does.                                                           *)
DieCleaning(c) ==
    /\ Fail
    /\ IF c = "commit" THEN eraser.step = "files" ELSE cleaner[c] # Resting
    /\ GoOn(c, <<>>)
    /\ UNCHANGED <<vendor, live, roster, rows, files, queue,
                   request, late, submits, rosterCalls>>

Clean(c) == ReadBatch(c) \/ UnlinkFile(c) \/ DropJob(c)

-----------------------------------------------------------------------------

EraseStudent == EraseOnSqlite \/ BeginErasure

ProceedErasure == PurgeStore \/ CommitErasure

ErasureNext ==
    \/ \E a \in Attempts : Submit(a)
    \/ RecordRun \/ FreezeSubmission \/ ClaimRun \/ Score \/ Post
    \/ \E c \in Classes : AddStudent(c) \/ RemoveStudent(c)
    \/ EraseStudent \/ ProceedErasure \/ FailErasure \/ EraseTeacher
    \/ \E c \in Cleaners : Clean(c) \/ DieCleaning(c)

(* The command is run from time to time. *)
ErasureFairness == WF_erasureVars(Clean("command"))

-----------------------------------------------------------------------------
(* Properties. *)

(* Of an erased student nothing is left but what a request that was        *)
(* running at the time wrote after the erasure had passed: not after       *)
(* failed erasures and retries, not where a class was erased before.  On   *)
(* SQLite this includes the frozen submissions, removed or still queued.   *)
ResidueIsLate ==
    "student" \notin live =>
        /\ rows \subseteq late
        /\ vendor = "sqlite" =>
              \A a \in Attempts \cap files :
                  a \in ToSet(queue) \/ <<"file", a>> \in late

(* Every queued file is removed in the end, whatever other jobs fail, if   *)
(* the command is run again and again and fewer files than one batch       *)
(* refuse to go.  A late file is excepted: it may be written between the   *)
(* removal of the file before it and the removal of the job.               *)
FilesRemoved ==
    \A f \in Files \ Stuck :
        f \in ToSet(queue) ~> f \notin files \/ <<"file", f>> \in late
=============================================================================
