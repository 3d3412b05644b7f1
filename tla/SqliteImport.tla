---------------------------- MODULE SqliteImport ----------------------------
(***************************************************************************)
(* The import of a SQLite database into PostgreSQL.  A run reads one       *)
(* snapshot of the source, cuts it into batches (parents before children), *)
(* verifies the batches its checkpoint calls done and applies the others,  *)
(* each in a transaction of its own, moving the checkpoint after each.     *)
(* The run may die anywhere and is started again; two runs may share one   *)
(* checkpoint file; the old application may still write the source and the *)
(* new one the destination.                                                *)
(*                                                                         *)
(* Rows are numbered in the order of the import and a batch is one row: a  *)
(* transaction of several rows differs in nothing but the number of rows.  *)
(***************************************************************************)
EXTENDS Integers

CONSTANTS
    Migrators,   \* processes of the import command
    RowCount,    \* rows of the source
    Parent,      \* Parent[r]: the row that r refers to, or 0
    Versions,    \* contents a row can have
    Absent,      \* no row, no checkpoint
    MaxRuns,     \* bound: starts of the command
    MaxDeaths,   \* bound: runs that die
    MaxWrites    \* bound: writes of the two applications

Rows == 1..RowCount

ASSUME ImportAssumption ==
    /\ RowCount \in Nat \ {0}
    /\ Parent \in [Rows -> 0..RowCount]
    /\ \A r \in Rows : Parent[r] < r
    /\ Versions # {} /\ Absent \notin Versions
    /\ MaxRuns \in Nat /\ MaxDeaths \in Nat /\ MaxWrites \in Nat

VARIABLES
    source,       \* the SQLite rows
    target,       \* the PostgreSQL rows
    touched,      \* rows the new application wrote or deleted
    checkpoint,   \* the checkpoint file
    migrator,     \* the runs
    runs, deaths, writes  \* counters of the bounds

importVars ==
    <<source, target, touched, checkpoint, migrator, runs, deaths, writes>>

Stopped == [step |-> "stopped", snapshot |-> Absent, next |-> 0]

Checkpoint ==
    [status : {"applying", "completed"}, snapshot : [Rows -> Versions],
     next : 0..RowCount]

ImportTypeOK ==
    /\ source \in [Rows -> Versions]
    /\ target \in [Rows -> Versions \cup {Absent}]
    /\ touched \subseteq Rows
    /\ checkpoint \in Checkpoint \cup {Absent}
    /\ migrator \in [Migrators ->
            [step : {"stopped", "load", "create", "verify", "apply", "mark"},
             snapshot : [Rows -> Versions] \cup {Absent},
             next : 0..RowCount]]

ImportInit ==
    /\ source = [r \in Rows |-> CHOOSE v \in Versions : TRUE]
    /\ target = [r \in Rows |-> Absent]
    /\ touched = {}
    /\ checkpoint = Absent
    /\ migrator = [m \in Migrators |-> Stopped]
    /\ runs = 0 /\ deaths = 0 /\ writes = 0

-----------------------------------------------------------------------------
(* The run. *)

Cursor(status, snapshot, n) ==
    [status |-> status, snapshot |-> snapshot, next |-> n]

StatusAfter(n) == IF n = RowCount THEN "completed" ELSE "applying"

Stop(m) == migrator' = [migrator EXCEPT ![m] = Stopped]

(* read_and_validate_source: one query-only snapshot. *)
StartRun(m) ==
    /\ migrator[m].step = "stopped"
    /\ runs < MaxRuns
    /\ runs' = runs + 1
    /\ migrator' = [migrator EXCEPT ![m] =
           [step |-> "load", snapshot |-> source, next |-> 0]]
    /\ UNCHANGED <<source, target, touched, checkpoint, deaths, writes>>

(* load_or_create_checkpoint: a checkpoint of another snapshot refuses the *)
(* run (MIGRATION_CHECKPOINT_SOURCE_MISMATCH).                             *)
LoadCheckpoint(m) ==
    LET snapshot == migrator[m].snapshot
    IN  /\ migrator[m].step = "load"
        /\ IF checkpoint = Absent
           THEN migrator' = [migrator EXCEPT ![m].step = "create"]
           ELSE IF checkpoint.snapshot = snapshot
           THEN migrator' = [migrator EXCEPT
                    ![m].step = "verify", ![m].next = checkpoint.next]
           ELSE Stop(m)
        /\ UNCHANGED <<source, target, touched, checkpoint,
                       runs, deaths, writes>>

(* The file is created, or replaced if another run created it meanwhile. *)
CreateCheckpoint(m) ==
    /\ migrator[m].step = "create"
    /\ checkpoint' = Cursor("applying", migrator[m].snapshot, 0)
    /\ migrator' = [migrator EXCEPT ![m].step = "apply"]
    /\ UNCHANGED <<source, target, touched, runs, deaths, writes>>

(* The batches below the cursor must still be what was imported. *)
VerifiesDone(m) ==
    \A r \in Rows : r <= migrator[m].next =>
        target[r] = migrator[m].snapshot[r]

(* verify_batch; a difference is MIGRATION_CHECKPOINT_TARGET_MISMATCH.     *)
(* With nothing left to apply the run only writes its last cursor again.   *)
VerifyTarget(m) ==
    /\ migrator[m].step = "verify"
    /\ IF VerifiesDone(m)
       THEN migrator' = [migrator EXCEPT ![m].step =
                IF migrator[m].next < RowCount THEN "apply" ELSE "mark"]
       ELSE Stop(m)
    /\ UNCHANGED <<source, target, touched, checkpoint, runs, deaths, writes>>

ReplacedRow(r, version) == version

(* INSERT ... ON CONFLICT DO NOTHING. *)
InsertedRow(r, version) == IF target[r] = Absent THEN version ELSE target[r]

CanRefer(r) == Parent[r] = 0 \/ target[Parent[r]] # Absent

(* apply_batch inserts and verifies in one transaction; a row that is      *)
(* there with another content, or a missing parent, rolls it back and the  *)
(* run fails with MIGRATION_BATCH_FAILED.                                  *)
ApplyBatch(m) ==
    LET r == migrator[m].next + 1
        version == migrator[m].snapshot[r]
        inserted == InsertedRow(r, version)
    IN  /\ migrator[m].step = "apply"
        /\ IF inserted = version /\ CanRefer(r)
           THEN /\ target' = [target EXCEPT ![r] = inserted]
                /\ migrator' = [migrator EXCEPT ![m].step = "mark",
                                                ![m].next = r]
           ELSE Stop(m) /\ UNCHANGED target
        /\ UNCHANGED <<source, touched, checkpoint, runs, deaths, writes>>

CursorAhead(n) == n + 1

CursorAt(n) == n

(* write_checkpoint replaces the file atomically.  The status "completed"  *)
(* is written after the last cursor; the two writes are one step here.     *)
MarkBatch(m) ==
    LET n == migrator[m].next
    IN  /\ migrator[m].step = "mark"
        /\ checkpoint' =
               Cursor(StatusAfter(n), migrator[m].snapshot, CursorAt(n))
        /\ IF n = RowCount
           THEN Stop(m)
           ELSE migrator' = [migrator EXCEPT ![m].step = "apply"]
        /\ UNCHANGED <<source, target, touched, runs, deaths, writes>>

Die(m) ==
    /\ migrator[m].step # "stopped"
    /\ deaths < MaxDeaths
    /\ deaths' = deaths + 1
    /\ Stop(m)
    /\ UNCHANGED <<source, target, touched, checkpoint, runs, writes>>

-----------------------------------------------------------------------------
(* The applications. *)

WriteSource ==
    /\ writes < MaxWrites
    /\ writes' = writes + 1
    /\ \E r \in Rows, v \in Versions :
          source[r] # v /\ source' = [source EXCEPT ![r] = v]
    /\ UNCHANGED <<target, touched, checkpoint, migrator, runs, deaths>>

(* The application on PostgreSQL changes a row, or deletes one that no     *)
(* other row refers to (a delivered outbox record, an erased account).     *)
WriteTarget ==
    /\ writes < MaxWrites
    /\ writes' = writes + 1
    /\ \E r \in Rows, v \in Versions \cup {Absent} :
          /\ target[r] # v
          /\ target[r] # Absent \/ Parent[r] = 0
          /\ v = Absent => \A q \in Rows : Parent[q] = r => target[q] = Absent
          /\ target' = [target EXCEPT ![r] = v]
          /\ touched' = touched \cup {r}
    /\ UNCHANGED <<source, checkpoint, migrator, runs, deaths>>

ProceedRun(m) ==
    \/ LoadCheckpoint(m) \/ CreateCheckpoint(m) \/ VerifyTarget(m)
    \/ ApplyBatch(m) \/ MarkBatch(m)

ImportNext ==
    \/ \E m \in Migrators : StartRun(m) \/ ProceedRun(m) \/ Die(m)
    \/ WriteSource
    \/ WriteTarget

-----------------------------------------------------------------------------
(* Properties. *)

(* The checkpoint never calls a row done that is not in the destination as *)
(* the snapshot of the checkpoint has it, unless the application on        *)
(* PostgreSQL wrote it: not after a crash between a batch and its cursor,  *)
(* not with two runs on one file.                                          *)
CheckpointCovered ==
    checkpoint # Absent =>
        \A r \in Rows : r <= checkpoint.next =>
            target[r] = checkpoint.snapshot[r] \/ r \in touched

(* The import never replaces a row: what the application on PostgreSQL     *)
(* wrote stays as it wrote it.                                             *)
NeverReplaces ==
    [][ writes' = writes =>
          \A r \in Rows :
              target[r] # Absent => target'[r] = target[r] ]_importVars

(* If neither application writes, an import that was started, and is        *)
(* started again after each death, completes from whatever point it died   *)
(* at.                                                                     *)
ImportCompletes ==
    [](writes = 0) /\ <>(runs > 0) =>
        <>(checkpoint # Absent /\ checkpoint.status = "completed")
=============================================================================
