-------------------------------- MODULE Outbox --------------------------------
(***************************************************************************)
(* The event outbox of m0_platform: learning events and their delivery     *)
(* rows are stored in one transaction (m0_outbox_repository.py), worker    *)
(* processes claim the rows in leased batches and append them to one JSONL *)
(* audit log (outbox_worker.py, outbox.py), and a compatibility call       *)
(* flushes the outbox from the caller's thread (event_store.py).           *)
(*                                                                         *)
(* There is no clock: a lease is live until it has run out, and a delayed  *)
(* retry is not due until its time has come; both can happen at any        *)
(* moment.  The order in which a batch is chosen and worked off (by        *)
(* available_at) is left open.                                             *)
(***************************************************************************)
EXTENDS Naturals, Sequences, SequencesExt, FiniteSets

CONSTANTS
  Events,
  Daemons,     \* outbox worker processes
  Flushers,    \* threads that call deliver_pending
  NoWorker, NoClaim,
  Splitting,   \* events whose record holds a character splitlines() breaks at
  Batch,       \* batch_size of a daemon; a flusher claims one row
  MaxRetries,  \* max_retries
  MaxClaims,   \* bound on the claims of one row (a flusher's: MaxRetries)
  Faults       \* bound on crashes, I/O errors and lost leases

Workers == Daemons \cup Flushers

(* What a worker remembers of a row it has claimed. *)
Claims == [event : Events, version : Nat, attempts : Nat]

ASSUME Actors == Daemons \cap Flushers = {} /\ NoWorker \notin Workers
ASSUME Unclaimed == NoClaim \notin Claims /\ Splitting \subseteq Events
ASSUME Bounds == /\ Batch \in Nat \ {0} /\ MaxRetries \in Nat \ {0}
                 /\ MaxClaims \in Nat /\ Faults \in Nat

VARIABLES
  accepted,  \* m0_learning_events
  rows,      \* m0_event_outbox; a row is "none" before and after its life
  log,       \* the complete rows of the audit log
  torn,      \* the audit log ends in a partial row
  pc,        \* control of each worker
  batch,     \* the claims a worker has still to work off
  cur,       \* the claim it is delivering
  leased,    \* lease_current of that delivery
  faults

vars == <<accepted, rows, log, torn, pc, batch, cur, leased, faults>>

Row == [status : {"none", "pending", "processing", "dead"}, attempts : Nat, version : Nat,
        due : BOOLEAN, owner : Workers \cup {NoWorker}, live : BOOLEAN]

NoRow == [status |-> "none", attempts |-> 0, version |-> 0, due |-> FALSE,
          owner |-> NoWorker, live |-> FALSE]

Logged == ToSet(log)

Init ==
  /\ accepted = {} /\ rows = [e \in Events |-> NoRow]
  /\ log = <<>> /\ torn = FALSE
  /\ pc = [w \in Workers |-> "idle"]
  /\ batch = [w \in Workers |-> {}]
  /\ cur = [w \in Workers |-> NoClaim]
  /\ leased = [w \in Workers |-> FALSE]
  /\ faults = 0

store == <<accepted, rows>>
file == <<log, torn>>
workers == <<pc, batch, cur, leased>>

Fault == faults < Faults /\ faults' = faults + 1
-----------------------------------------------------------------------------
(* append_events: an event that is known already is a duplicate. *)
AppendEvents(new) ==
  /\ new \subseteq Events \ accepted /\ new # {}
  /\ accepted' = accepted \cup new
  /\ rows' = [e \in Events |->
                IF e \in new THEN [NoRow EXCEPT !.status = "pending", !.version = 1, !.due = TRUE]
                ELSE rows[e]]
  /\ UNCHANGED <<file, workers, faults>>

(* Mutant: the rows a dead worker left in processing are not taken over. *)
ReadyPendingOnly(e) == rows[e].status = "pending" /\ rows[e].due

Ready(e) == \/ rows[e].status = "pending" /\ rows[e].due
            \/ rows[e].status = "processing" /\ ~ rows[e].live

Due == {e \in Events : Ready(e)}

Limit(w) == IF w \in Daemons THEN Batch ELSE 1

Claimed(e, w) ==
  [rows[e] EXCEPT !.status = "processing", !.attempts = @ + 1, !.version = @ + 1,
                  !.owner = w, !.live = TRUE]

(* append_if_absent starts in a thread of its own. *)
Deliver(w, c) ==
  /\ pc' = [pc EXCEPT ![w] = "append"]
  /\ cur' = [cur EXCEPT ![w] = c]
  /\ leased' = [leased EXCEPT ![w] = TRUE]

(* claim_outbox_batch; a flusher goes straight to the delivery. *)
ClaimBatch(w, es) ==
  /\ pc[w] = "idle"
  /\ es # {} /\ es \subseteq Due
  /\ IF Cardinality(Due) <= Limit(w) THEN es = Due ELSE Cardinality(es) = Limit(w)
  /\ \A e \in es : rows[e].attempts < IF w \in Daemons THEN MaxClaims ELSE MaxRetries
  /\ rows' = [e \in Events |-> IF e \in es THEN Claimed(e, w) ELSE rows[e]]
  /\ batch' = [batch EXCEPT ![w] = {[event |-> e, version |-> rows'[e].version,
                                     attempts |-> rows'[e].attempts] : e \in es}]
  /\ IF w \in Daemons
     THEN pc' = [pc EXCEPT ![w] = "next"] /\ UNCHANGED <<cur, leased>>
     ELSE \E c \in batch'[w] : Deliver(w, c)
  /\ UNCHANGED <<accepted, file, faults>>

(* Mutant: acknowledgements and failures name the row only. *)
CurrentByName(w, c) == rows[c.event].status = "processing"

(* locked_by and version of the row are those of the claim. *)
Current(w, c) ==
  /\ rows[c.event].status = "processing"
  /\ rows[c.event].owner = w
  /\ rows[c.event].version = c.version

(* Mutant: the record just worked off stays the current one. *)
DropLeavingCurrent(w, c) ==
  /\ batch' = [batch EXCEPT ![w] = @ \ {c}]
  /\ pc' = [pc EXCEPT ![w] = IF batch'[w] = {} THEN "idle" ELSE "next"]
  /\ UNCHANGED <<cur, leased>>

(* The worker is done with the claim. *)
Drop(w, c) ==
  /\ batch' = [batch EXCEPT ![w] = @ \ {c}]
  /\ pc' = [pc EXCEPT ![w] = IF batch'[w] = {} THEN "idle" ELSE "next"]
  /\ cur' = [cur EXCEPT ![w] = NoClaim]
  /\ leased' = [leased EXCEPT ![w] = FALSE]

(* renew_outbox_leases of the claims cs: the current ones with a live       *)
(* lease.  A clock read before the lease ran out revives it.                *)
Renew(w, cs, revived) ==
  LET renewed == {c \in cs : Current(w, c) /\ (rows[c.event].live \/ c \in revived)}
  IN  rows' = [e \in Events |-> IF \E c \in renewed : c.event = e
                                THEN [rows[e] EXCEPT !.live = TRUE] ELSE rows[e]]

(* _renew before a delivery; a claim that is not renewed is left alone.     *)
RenewNext(w, c, revived) ==
  /\ pc[w] = "next" /\ c \in batch[w]
  /\ Renew(w, batch[w], revived)
  /\ IF Current(w, c) /\ rows'[c.event].live
     THEN Deliver(w, c) /\ UNCHANGED batch
     ELSE Drop(w, c)
  /\ UNCHANGED <<accepted, file, faults>>

(* The heartbeat while the sink thread works. *)
Heartbeat(w, revived) ==
  /\ pc[w] = "append" /\ leased[w]
  /\ Renew(w, batch[w], revived)
  /\ leased' = [leased EXCEPT ![w] = Current(w, cur[w]) /\ rows'[cur[w].event].live]
  /\ UNCHANGED <<accepted, file, pc, batch, cur, faults>>

(* After append_if_absent has returned; without the lease nothing is       *)
(* acknowledged.                                                           *)
Returned(w) ==
  IF leased[w] THEN pc' = [pc EXCEPT ![w] = "ack"] /\ UNCHANGED <<batch, cur, leased>>
               ELSE Drop(w, cur[w])

(* After it has raised: a flusher without the lease writes no failure. *)
Raised(w) ==
  IF w \in Daemons \/ leased[w]
  THEN pc' = [pc EXCEPT ![w] = "failure"] /\ UNCHANGED <<batch, cur, leased>>
  ELSE Drop(w, cur[w])

(* What _validated_existing_records finds: a partial row at the end is     *)
(* refused, and so is a row that splitlines() takes for two.               *)
Readable == ~ torn /\ Logged \cap Splitting = {}

AppendOnce(e) == IF e \in Logged THEN log ELSE Append(log, e)

(* append_if_absent, alone under the file lock. *)
AppendIfAbsent(w) ==
  /\ pc[w] = "append" /\ Readable
  /\ log' = AppendOnce(cur[w].event)
  /\ Returned(w)
  /\ UNCHANGED <<store, torn, faults>>

RefuseLog(w) ==
  /\ pc[w] = "append" /\ ~ Readable
  /\ Raised(w)
  /\ UNCHANGED <<store, file, faults>>

(* The ways an append that goes wrong can leave the file: nothing, a       *)
(* partial or a complete row.                                              *)
Damage(w) ==
  \/ UNCHANGED file
  \/ /\ Readable /\ cur[w].event \notin Logged
     /\ \/ torn' = TRUE /\ UNCHANGED log
        \/ log' = Append(log, cur[w].event) /\ UNCHANGED torn

AppendError(w) ==
  /\ pc[w] = "append" /\ Fault
  /\ Damage(w)
  /\ Raised(w)
  /\ UNCHANGED store

(* mark_outbox_delivered deletes the row. *)
Acknowledge(w) ==
  /\ pc[w] = "ack"
  /\ rows' = IF Current(w, cur[w])
             THEN [rows EXCEPT ![cur[w].event].status = "none"] ELSE rows
  /\ Drop(w, cur[w])
  /\ UNCHANGED <<accepted, file, faults>>

Exhausted(c) == IF c.attempts >= MaxRetries THEN "dead" ELSE "pending"

(* A daemon retries after a delay, max_retries times; a flusher leaves the *)
(* row due.                                                                *)
Failed(w, c) ==
  [rows[c.event] EXCEPT
     !.status = IF w \in Daemons THEN Exhausted(c) ELSE "pending",
     !.version = @ + 1, !.owner = NoWorker, !.live = FALSE, !.due = w \in Flushers]

(* mark_outbox_failed. *)
RecordFailure(w) ==
  /\ pc[w] = "failure"
  /\ rows' = IF Current(w, cur[w])
             THEN [rows EXCEPT ![cur[w].event] = Failed(w, cur[w])] ELSE rows
  /\ Drop(w, cur[w])
  /\ UNCHANGED <<accepted, file, faults>>

(* The database is away: a renewal, an acknowledgement or a failure is lost. *)
DatabaseAway(w, c) ==
  /\ pc[w] \in {"next", "ack", "failure"} /\ Fault
  /\ c \in batch[w] /\ (pc[w] # "next" => c = cur[w])
  /\ Drop(w, c)
  /\ UNCHANGED <<store, file>>

(* A heartbeat that raises ends lease_current. *)
HeartbeatAway(w) ==
  /\ pc[w] = "append" /\ leased[w] /\ Fault
  /\ leased' = [leased EXCEPT ![w] = FALSE]
  /\ UNCHANGED <<store, file, pc, batch, cur>>

(* The process dies, or it is asked to stop and leaves its batch behind. *)
Crash(w) ==
  /\ pc[w] # "idle" /\ Fault
  /\ IF pc[w] = "append" THEN Damage(w) ELSE UNCHANGED file
  /\ pc' = [pc EXCEPT ![w] = "idle"]
  /\ batch' = [batch EXCEPT ![w] = {}]
  /\ cur' = [cur EXCEPT ![w] = NoClaim]
  /\ leased' = [leased EXCEPT ![w] = FALSE]
  /\ UNCHANGED store

(* Time: a worker that still works on the row has stalled. *)
Held(e) == \E w \in Workers : \E c \in batch[w] : c.event = e /\ Current(w, c)

Expire(e) ==
  /\ rows[e].status = "processing" /\ rows[e].live
  /\ rows' = [rows EXCEPT ![e].live = FALSE]
  /\ IF Held(e) THEN Fault ELSE UNCHANGED faults
  /\ UNCHANGED <<accepted, file, workers>>

BecomeDue(e) ==
  /\ rows[e].status = "pending" /\ ~ rows[e].due
  /\ rows' = [rows EXCEPT ![e].due = TRUE]
  /\ UNCHANGED <<accepted, file, workers, faults>>
-----------------------------------------------------------------------------
Step(w) ==
  \/ \E c \in batch[w] : RenewNext(w, c, {}) \/ RenewNext(w, c, batch[w])
  \/ AppendIfAbsent(w) \/ RefuseLog(w) \/ Acknowledge(w) \/ RecordFailure(w)

Disturb(w) ==
  \/ Heartbeat(w, {}) \/ Heartbeat(w, batch[w])
  \/ AppendError(w) \/ HeartbeatAway(w) \/ Crash(w)
  \/ \E c \in batch[w] : DatabaseAway(w, c)

Next ==
  \/ \E new \in SUBSET Events : AppendEvents(new)
  \/ \E w \in Workers : Step(w) \/ Disturb(w) \/ \E es \in SUBSET Events : ClaimBatch(w, es)
  \/ \E e \in Events : Expire(e) \/ BecomeDue(e)

Spec == Init /\ [][Next]_vars
-----------------------------------------------------------------------------
TypeOK ==
  /\ accepted \in SUBSET Events
  /\ rows \in [Events -> Row]
  /\ log \in Seq(Events) /\ torn \in BOOLEAN
  /\ pc \in [Workers -> {"idle", "next", "append", "ack", "failure"}]
  /\ batch \in [Workers -> SUBSET Claims]
  /\ cur \in [Workers -> Claims \cup {NoClaim}]
  /\ \A w \in Workers : IF pc[w] \in {"idle", "next"} THEN cur[w] = NoClaim
                                                     ELSE cur[w] \in batch[w]
  /\ leased \in [Workers -> BOOLEAN]
  /\ faults \in Nat

(* A delivery row only disappears once its event is durably in the log. *)
NeverLost == \A e \in accepted : rows[e].status = "none" => e \in Logged

(* The log has no event twice, and none that was not accepted: the sink    *)
(* would refuse a log with a duplicate for ever.                           *)
LoggedOnce ==
  /\ Logged \subseteq accepted
  /\ \A i, j \in DOMAIN log : log[i] = log[j] => i = j

(* While a lease lives, the row is neither settled nor claimed away by     *)
(* anyone but the holder of exactly this claim: a worker that had stalled  *)
(* and lost the row to another cannot undo the other's delivery.           *)
ClaimRespected ==
  [][\A e \in Events :
       /\ rows[e].status = "processing" /\ rows[e].live
       /\ rows'[e].status # "processing" \/ rows'[e].version # rows[e].version
       => \E c \in batch[rows[e].owner] : c.event = e /\ c.version = rows[e].version
                                          /\ c \notin batch'[rows[e].owner]]_vars

(* The outbox implements AuditTrail: at most once, and answered for until  *)
(* it is in the log (a dead row is still answered for).                    *)
Owed == {e \in Events : rows[e].status # "none"}

Trail == INSTANCE AuditTrail WITH owed <- Owed, known <- accepted, trail <- log

DeliveredOnce == Trail!Spec
-----------------------------------------------------------------------------
(* Daemons poll, every worker finishes what it started, abandoned leases   *)
(* run out and delays pass.                                                *)
Fairness ==
  /\ \A w \in Workers : WF_vars(Step(w))
  /\ \A w \in Daemons : WF_vars(\E es \in SUBSET Events : ClaimBatch(w, es))
  /\ \A e \in Events : WF_vars(Expire(e) /\ ~ Held(e)) /\ WF_vars(BecomeDue(e))

FairSpec == Spec /\ Fairness

(* Every accepted event reaches the log, or its row ends as a dead letter  *)
(* that operators can see; none is retried for ever or forgotten.          *)
EventsSettle ==
  []<>(\A e \in accepted : e \in Logged \/ rows[e].status = "dead")
=============================================================================
