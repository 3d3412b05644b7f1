---------------------------- MODULE AssessmentRuns ----------------------------
(***************************************************************************)
(* The assessment-run store (m0_assessment_runs) and the request threads   *)
(* that drive it through application/assessment_recovery.py: claims,       *)
(* leases, optimistic versions, waiting rooms, failures and take-overs.    *)
(*                                                                         *)
(* Every repository call is one BEGIN IMMEDIATE transaction, hence one     *)
(* action.  The caller reads its clock before the call and may then wait   *)
(* for the database, so a call works with any reading n between the return *)
(* of its previous call (since[t]) and the clock at its transaction.       *)
(* A thread remembers a run it was handed as (version, owner); nothing     *)
(* tells it that the run has moved on.                                     *)
(***************************************************************************)
EXTENDS RunRows

CONSTANTS
  Ops,         \* operation identities, e.g. "submit:<submission id>"
  KindOf,      \* [Ops -> Kinds]
  PaperOf,     \* [Ops -> papers]
  LegacyOps,   \* operations whose row predates the dependency columns
  Threads,     \* request threads of all web processes
  FlowOf,      \* [Threads -> Flows]: request_id, derived from the form's flow
  Flows,       \* flow identities, used as worker ids of a request's own run
  LeaseLen,    \* _lease_seconds, in ticks
  MaxTime,     \* bound on the clock
  MaxVersion,  \* bound on the version of each row
  MaxState     \* bound on state_version references

(* Worker ids under which a request moves a submit it does not own. *)
Roles == {"review", "commit", "rescore"}
SideOwner(role, op) == <<role, op>>
SideOwners == Roles \X Ops
Owners == Flows \cup SideOwners

ASSUME Shapes ==
  /\ KindOf \in [Ops -> Kinds]
  /\ DOMAIN PaperOf = Ops
  /\ FlowOf \in [Threads -> Flows]
  /\ LegacyOps \subseteq Ops
ASSUME Bounds ==
  /\ LeaseLen \in Nat \ {0}
  /\ MaxTime \in Nat /\ MaxVersion \in [Ops -> Nat] /\ MaxState \in Nat
ASSUME OwnersDistinct == NoOwner \notin Owners /\ Flows \cap SideOwners = {}
ASSUME ChecksumExists == Checksums # {}
ASSUME LegacyRowsDistinct ==
  \A a, b \in LegacyOps :
    a # b /\ KindOf[a] = KindOf[b] => PaperOf[a] # PaperOf[b]

VARIABLES
  recorded,  \* operations that have a row
  rows,      \* the rows; of no meaning for an operation not recorded
  held,      \* held[t][op]: the run a thread believes it owns
  since,     \* since[t]: the clock when the thread's last call returned
  clock

vars == <<recorded, rows, held, since, clock>>

NotHeld == [version |-> 0, owner |-> NoOwner]

(* A running row belongs to a process of the version before the migration. *)
LegacyStates(k) ==
  {r \in {LegacyRow(k, cp, st, owner, until) :
            cp \in Checkpoints(k) \ {"state_inputs_frozen"},
            st \in Statuses \ WaitingStatuses,
            owner \in Flows \cup {NoOwner}, until \in 0 .. LeaseLen} :
     /\ (r.status = "pending") <=> (r.checkpoint = "pending")
     /\ (r.status = "completed") <=> (r.checkpoint = "completed")
     /\ (r.status = "running") <=> (r.owner # NoOwner)
     /\ (r.lease = 0) <=> (r.owner = NoOwner)}

Init ==
  /\ recorded = LegacyOps
  /\ \E old \in [LegacyOps -> UNION {LegacyStates(k) : k \in Kinds}] :
       /\ \A op \in LegacyOps : old[op] \in LegacyStates(KindOf[op])
       /\ rows = [op \in Ops |-> IF op \in LegacyOps THEN old[op] ELSE NewRow(KindOf[op])]
  /\ held = [t \in Threads |-> [op \in Ops |-> NotHeld]]
  /\ since = [t \in Threads |-> 0]
  /\ clock = 0
-----------------------------------------------------------------------------
(* One call of thread t on op, working with the clock reading n. *)

Calls(t, op, n) ==
  /\ op \in recorded
  /\ n \in since[t] .. clock
  /\ since' = [since EXCEPT ![t] = clock]
  /\ UNCHANGED <<recorded, clock>>

Room(op) == rows[op].version < MaxVersion[op]

(* The call commits row r; Grant hands it to the thread, GiveUp does not. *)
Grant(t, op, r) ==
  /\ rows' = [rows EXCEPT ![op] = r]
  /\ held' = [held EXCEPT ![t] =
                [@ EXCEPT ![op] = [version |-> r.version, owner |-> r.owner]]]

GiveUp(t, op, r) ==
  /\ rows' = [rows EXCEPT ![op] = r]
  /\ held' = [held EXCEPT ![t] = [@ EXCEPT ![op] = NotHeld]]

Holds(t, op) == held[t][op] # NotHeld

HoldsOwn(t, op) == held[t][op].owner \in Flows

(* expected_version and worker_id match and the lease is live. *)
Accepted(t, op, n) ==
  /\ Holds(t, op)
  /\ Owned(rows[op], held[t][op].version, held[t][op].owner)
  /\ Live(rows[op], n)

(* Mutant: a review only waits for reviews that are running. *)
RecordBesideFailed(op) ==
  /\ op \notin recorded
  /\ KindOf[op] = "submit" =>
       ~ \E o \in recorded : KindOf[o] = "submit" /\ PaperOf[o] = PaperOf[op]
  /\ KindOf[op] = "review" =>
       ~ \E o \in recorded : /\ KindOf[o] = "review" /\ PaperOf[o] = PaperOf[op]
                             /\ rows[o].status = "running"
  /\ recorded' = recorded \cup {op}
  /\ UNCHANGED <<rows, held, since, clock>>

(* insert_or_get_assessment_run, first arrival. *)
Record(op) ==
  /\ op \notin recorded
  /\ KindOf[op] = "submit" =>
       ~ \E o \in recorded : KindOf[o] = "submit" /\ PaperOf[o] = PaperOf[op]
  /\ KindOf[op] = "review" =>
       ~ \E o \in recorded : /\ KindOf[o] = "review" /\ PaperOf[o] = PaperOf[op]
                             /\ rows[o].status # "completed"
  /\ recorded' = recorded \cup {op}
  /\ UNCHANGED <<rows, held, since, clock>>

(* A replayed request (or adopt_legacy_assessment_run) fills the dependency *)
(* columns of a legacy row.  It owns nothing and still moves the version.   *)
AdoptDependencies(op) ==
  /\ op \in recorded
  /\ CanAdoptDependencies(KindOf[op], rows[op]) /\ Room(op)
  /\ rows' = [rows EXCEPT ![op] = AdoptedDependencies(KindOf[op], @)]
  /\ UNCHANGED <<recorded, held, since, clock>>

(* A submit thread adopts the policy identity and goes on with the row as   *)
(* it finds it, whoever owns it: neither version nor owner is compared.     *)
AdoptPolicy(t, op, n) ==
  /\ Calls(t, op, n)
  /\ Holds(t, op) /\ HoldsOwn(t, op)
  /\ CanAdoptPolicy(KindOf[op], rows[op]) /\ Room(op)
  /\ Grant(t, op, AdoptedPolicy(rows[op]))

(* AssessmentRecovery.claim, first try. *)
Claim(t, op, n) ==
  /\ Calls(t, op, n)
  /\ ~ Holds(t, op) /\ Claimable(rows[op]) /\ Room(op)
  /\ Grant(t, op, Claimed(KindOf[op], rows[op], FlowOf[t], n + LeaseLen))

(* AssessmentRecovery.claim, when the row is running with an expired lease. *)
Reclaim(t, op, n) ==
  /\ Calls(t, op, n)
  /\ ~ Holds(t, op) /\ Expired(rows[op], n) /\ Room(op)
  /\ Grant(t, op, Leased(rows[op], FlowOf[t], n + LeaseLen))

(* _renew, before and during a slow step; the version stays. *)
Renew(t, op, n) ==
  /\ Calls(t, op, n)
  /\ Accepted(t, op, n)
  /\ rows' = [rows EXCEPT ![op].lease = n + LeaseLen]
  /\ UNCHANGED held

(* The references each checkpoint is saved with. *)
RefsAt(cp) ==
  CASE cp \in {"scoring_saved", "review_saved"} ->
         {[NoRefs EXCEPT !.scoring = c] : c \in Checksums}
    [] cp = "state_inputs_frozen" ->
         {[NoRefs EXCEPT !.frozen = TRUE, !.base = b] : b \in Baselines \cup {NoRef}}
    [] cp = "state_saved" -> {[NoRefs EXCEPT !.stateV = v] : v \in 1 .. MaxState}
    [] cp = "policy_frozen" -> {[NoRefs EXCEPT !.policy = TRUE]}
    [] cp = "feedback_saved" -> {[NoRefs EXCEPT !.feedback = TRUE]}
    [] cp = "analytics_saved" -> {[NoRefs EXCEPT !.report = TRUE]}
    [] OTHER -> {NoRefs}

(* advance_assessment_run and complete_assessment_run. *)
Advance(t, op, n, cp, refs) ==
  /\ Calls(t, op, n)
  /\ Accepted(t, op, n) /\ HoldsOwn(t, op) /\ Room(op)
  /\ CanAdvance(KindOf[op], rows[op], cp, refs)
  /\ LET r == Advanced(rows[op], cp, refs)
     IN  IF cp = "completed" THEN GiveUp(t, op, r) ELSE Grant(t, op, r)

(* rebase_review_state_inputs. *)
Rebase(t, op, n, base) ==
  /\ Calls(t, op, n)
  /\ Accepted(t, op, n) /\ HoldsOwn(t, op) /\ Room(op)
  /\ CanRebase(KindOf[op], rows[op])
  /\ Grant(t, op, Rebased(rows[op], base))

(* AssessmentRecovery.fail after an exception: it reads the row again and   *)
(* fails whatever version it finds, if the owner is its own and the lease   *)
(* is live; the thread then ends.                                           *)
Fail(t, op, n) ==
  /\ Calls(t, op, n)
  /\ Holds(t, op) /\ HoldsOwn(t, op) /\ Room(op)
  /\ rows[op].owner = held[t][op].owner
  /\ Live(rows[op], n)
  /\ GiveUp(t, op, Failed(rows[op]))

(* The thread ends without a write: crash, lost lease, refused failure. *)
Abandon(t, op) ==
  /\ Holds(t, op)
  /\ held' = [held EXCEPT ![t] = [@ EXCEPT ![op] = NotHeld]]
  /\ UNCHANGED <<recorded, rows, since, clock>>

(* submit parks its own run with the baseline it read, once scored. *)
ParkScored(t, op, n, status, base) ==
  /\ Calls(t, op, n)
  /\ Accepted(t, op, n) /\ HoldsOwn(t, op) /\ Room(op)
  /\ KindOf[op] = "submit" /\ rows[op].checkpoint = "scoring_saved"
  /\ GiveUp(t, op, Parked(rows[op], status, TRUE, base, NoRef))

(* A review or rescore parks the submit it resumed, with a new checksum. *)
ParkResumed(t, op, n, status, scoring) ==
  /\ Calls(t, op, n)
  /\ Accepted(t, op, n) /\ Room(op)
  /\ held[t][op].owner \in {SideOwner("review", op), SideOwner("rescore", op)}
  /\ GiveUp(t, op, Parked(rows[op], status, FALSE, NoRef, scoring))

(* resume_parked_assessment_run, under a worker id shared by all requests. *)
Resume(t, op, n, role) ==
  /\ Calls(t, op, n)
  /\ KindOf[op] = "submit"
  /\ ~ Holds(t, op) /\ rows[op].status \in WaitingStatuses /\ Room(op)
  /\ Grant(t, op, Resumed(rows[op], SideOwner(role, op), n + LeaseLen))

(* ensure_waiting on a submit that is not in a waiting room. *)
EnsureClaim(t, op, n) ==
  /\ Calls(t, op, n)
  /\ KindOf[op] = "submit" /\ ~ Holds(t, op) /\ Room(op)
  /\ \/ /\ rows[op].status = "failed"
        /\ Grant(t, op, Claimed("submit", rows[op], SideOwner("rescore", op),
                                n + LeaseLen))
     \/ /\ Expired(rows[op], n)
        /\ Grant(t, op, Leased(rows[op], SideOwner("rescore", op), n + LeaseLen))

(* ... or that another rescore request is moving under the same worker id. *)
EnsureJoin(t, op, n) ==
  /\ Calls(t, op, n)
  /\ ~ Holds(t, op)
  /\ rows[op].owner = SideOwner("rescore", op) /\ Live(rows[op], n)
  /\ Grant(t, op, rows[op])

(* finish_assessment_run. *)
Finish(t, op, n, refs) ==
  /\ Calls(t, op, n)
  /\ Accepted(t, op, n) /\ Room(op)
  /\ ValidRow(KindOf[op], Finished(rows[op], refs))
  /\ GiveUp(t, op, Finished(rows[op], refs))

(* The submit of a transient task ends once scored. *)
FinishTransient(t, op, n) ==
  /\ KindOf[op] = "submit" /\ HoldsOwn(t, op) /\ rows[op].checkpoint = "scoring_saved"
  /\ Finish(t, op, n, [NoRefs EXCEPT !.feedback = TRUE])

(* A review that leaves its submit in the waiting room ends once saved. *)
FinishUndecided(t, op, n) ==
  /\ KindOf[op] = "review" /\ HoldsOwn(t, op) /\ rows[op].checkpoint = "review_saved"
  /\ Finish(t, op, n, NoRefs)

(* A review that decided the last item completes the waiting submit. *)
CommitWaiting(t, op, n, c, v) ==
  /\ KindOf[op] = "submit" /\ held[t][op].owner = SideOwner("commit", op)
  /\ Finish(t, op, n, [NoRefs EXCEPT !.scoring = c, !.stateV = v, !.feedback = TRUE,
                                     !.report = TRUE])

Tick ==
  /\ clock < MaxTime
  /\ clock' = clock + 1
  /\ UNCHANGED <<recorded, rows, held, since>>
-----------------------------------------------------------------------------
ThreadStep(t, op, n) ==
  \/ AdoptPolicy(t, op, n)
  \/ Claim(t, op, n)
  \/ Reclaim(t, op, n)
  \/ Renew(t, op, n)
  \/ \E cp \in Checkpoints(KindOf[op]) : \E refs \in RefsAt(cp) : Advance(t, op, n, cp, refs)
  \/ \E base \in Baselines : Rebase(t, op, n, base)
  \/ Fail(t, op, n)
  \/ \E status \in WaitingStatuses :
       \/ \E base \in Baselines \cup {NoRef} : ParkScored(t, op, n, status, base)
       \/ \E c \in Checksums : ParkResumed(t, op, n, status, c)
  \/ \E role \in Roles : Resume(t, op, n, role)
  \/ EnsureClaim(t, op, n)
  \/ EnsureJoin(t, op, n)
  \/ FinishTransient(t, op, n)
  \/ FinishUndecided(t, op, n)
  \/ \E c \in Checksums, v \in 1 .. MaxState : CommitWaiting(t, op, n, c, v)

Next ==
  \/ \E op \in Ops : Record(op) \/ AdoptDependencies(op)
  \/ \E t \in Threads, op \in Ops : Abandon(t, op)
  \/ \E t \in Threads, op \in Ops : \E n \in since[t] .. clock : ThreadStep(t, op, n)
  \/ Tick

Spec == Init /\ [][Next]_vars
-----------------------------------------------------------------------------
TypeOK ==
  /\ recorded \subseteq Ops
  /\ rows \in [Ops -> Rows(Owners)]
  /\ held \in [Threads -> [Ops -> [version : Nat, owner : Owners \cup {NoOwner}]]]
  /\ clock \in Nat
  /\ since \in [Threads -> Nat]
  /\ \A t \in Threads : since[t] <= clock

(* Every row a sequence of calls can leave behind satisfies the constructor *)
(* of AssessmentRun, so get_assessment_run never raises on a stored row     *)
(* (m0_repository._run_from_row); claim, fail, park, resume and renew do    *)
(* not check it themselves.  A row is owned exactly while it is running.    *)
RowsReloadable ==
  \A op \in Ops : /\ ValidRow(KindOf[op], rows[op])
                  /\ rows[op].status = "running" <=> rows[op].owner # NoOwner

(* Two requests never believe they own the same version of a run: of any    *)
(* number of concurrent claims, take-overs, adoptions and zombies at most   *)
(* one can still commit.  (A parked submit is not covered: two rescores may *)
(* share it under one worker id, see EnsureJoin.)                           *)
SoleHolder ==
  \A op \in Ops : \A t, u \in Threads :
    t # u /\ HoldsOwn(t, op) /\ HoldsOwn(u, op) =>
      held[t][op].version # held[u][op].version

(* No lease reaches further than LeaseLen into the future however often it  *)
(* is renewed, so a run whose thread died can be taken over after LeaseLen. *)
LeaseBounded == \A op \in Ops : rows[op].lease <= clock + LeaseLen

(* At most one submit, and at most one unfinished review, per paper         *)
(* (insert_or_get_assessment_run), whatever claims and failures interleave. *)
PaperExclusive ==
  \A a, b \in recorded :
    a # b /\ PaperOf[a] = PaperOf[b] =>
      /\ ~ (KindOf[a] = "submit" /\ KindOf[b] = "submit")
      /\ KindOf[a] = "review" /\ KindOf[b] = "review" =>
           rows[a].status = "completed" \/ rows[b].status = "completed"

(* A run with a live lease is only ever changed by a thread that holds its  *)
(* current version: recording a failure never writes after ownership loss   *)
(* (assessment_recovery.fail), and nobody takes over before expiry.         *)
LiveRunFenced ==
  [][\A op \in Ops \ LegacyOps :
       Live(rows[op], clock) /\ rows'[op].version # rows[op].version =>
         \E t \in Threads : /\ Holds(t, op)
                             /\ held[t][op].version = rows[op].version
                             /\ held'[t][op] # held[t][op]]_vars

(* Once a run has saved the M5 state computed from its frozen baseline, the *)
(* recorded baseline never changes, across failures, take-overs and parking *)
(* (the replay of the run must recompute from the same inputs).             *)
SavedBaselineKept ==
  [][\A op \in Ops : rows[op].stateV # 0 => rows'[op].base = rows[op].base]_vars

(* The results of a completed run are final: no retry, review or rescore of *)
(* the same paper rewrites what a replayed request will answer.             *)
CompletedResultsFinal ==
  [][\A op \in Ops : rows[op].status = "completed" =>
       /\ rows'[op].status = "completed"
       /\ \A f \in {"scoring", "stateV", "feedback", "report"} :
            rows'[op][f] = rows[op][f]]_vars
=============================================================================
