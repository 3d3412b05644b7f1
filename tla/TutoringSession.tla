--------------------------- MODULE TutoringSession ---------------------------
(***************************************************************************)
(* One tutoring session of m6: the chain of turns, the policy execution    *)
(* each request is bound to, and the two calls the assessment workflow     *)
(* makes for every scored submission, prepare_policy_execution and         *)
(* decide_next_action.  The calls read the session, the latest decision    *)
(* and the binding one by one and compare again in one transaction at the  *)
(* end; other threads, a lapsed lease, a crash or a database that does not *)
(* answer may come between any two of these steps.                         *)
(*                                                                         *)
(* A request is a scoring result of the session; later numbers carry later *)
(* audit versions.  The application passes no snapshot of its own, so a    *)
(* request is its scoring result and an input is a request and a turn.     *)
(***************************************************************************)
EXTENDS Integers, Sequences

CONSTANTS
    MaxRequest,   \* bound: scoring results of the session
    Need,         \* what each result calls for: "remediate", "practise" or "advance"
    Threads,      \* threads of the web processes
    PolicyMode,   \* the configured mode: "rules", "shadow" or "active"
    NoExecution,  \* no execution bound
    MaxFaults     \* bound: database failures, crashes and take-overs

Scored == 1..MaxRequest

ASSUME MaxRequestAssumption == MaxRequest \in Nat
ASSUME NeedAssumption == Need \in [Scored -> {"remediate", "practise", "advance"}]
ASSUME PolicyModeAssumption == PolicyMode \in {"rules", "shadow", "active"}
ASSUME MaxFaultsAssumption == MaxFaults \in Nat
ASSUME NoExecutionAssumption ==
    NoExecution \notin [policy : {"rules", "learned"}, turn : 0..MaxRequest, open : BOOLEAN]

VARIABLES
    turns,        \* the decisions of the session in order: request, state chosen, execution
    executions,   \* per request, the execution committed first
    frozen,       \* per request, the policy its assessment run recorded
    saved,        \* requests whose run has passed tutoring_saved
    call,         \* what each thread is doing, and whether it holds the run
    failures        \* failures so far

tutoringVars == <<turns, executions, frozen, saved, call, failures>>

-------------------------------------------------------------------------------
(* The teaching states. *)

StateAt(n) == IF n = 0 THEN "S1" ELSE turns[n].state
Decided(k) == \E n \in DOMAIN turns : turns[n].request = k

\* Mutant: practice may fall back to the diagnostic probe.
CandidatesWithProbe(state, need, fresh) == {"S1", "S3", "S4"}

\* SafetyEnvelope.candidates_for; S5 is the end.
Candidates(state, need, fresh) ==
    CASE state = "S1" -> IF need = "remediate" THEN {"S2"} ELSE {"S3", "S2"}
      [] state = "S2" -> {"S3"}
      [] state = "S3" -> {"S4"}
      [] state = "S4" -> IF need = "remediate" THEN {"S2"}
                         ELSE IF need = "practise" \/ ~fresh THEN {"S3", "S2"}
                         ELSE {"S5", "S3", "S2"}
      [] OTHER        -> {}

\* M6DecisionPolicy.decide_next_state: what the rules choose among them.
Baseline(state, need, fresh) ==
    CASE state = "S1" -> IF need = "remediate" THEN "S2" ELSE "S3"
      [] state = "S2" -> "S3"
      [] state = "S3" -> "S4"
      [] OTHER        -> IF need = "remediate" THEN "S2"
                         ELSE IF need = "practise" \/ ~fresh THEN "S3" ELSE "S5"

\* has_new_evidence against the decision stored last; none before the first.
FreshAfter(k, n) == n > 0 /\ k > turns[n].request

-------------------------------------------------------------------------------
(* Policy executions. *)

Rules(n) == [policy |-> "rules", turn |-> n, open |-> FALSE]

\* PolicyRuntime.prepare_execution while the learned policy can be loaded and judged.
Desired(n) ==
    IF PolicyMode = "rules" THEN {Rules(n)}
    ELSE {[policy |-> "learned", turn |-> n, open |-> allowed] :
             allowed \in IF PolicyMode = "active" THEN BOOLEAN ELSE {FALSE}}

\* PolicyRuntime.select: only an open gate lets the learned policy choose.
Selectable(e, state, need, fresh) ==
    IF e.open THEN Candidates(state, need, fresh) ELSE {Baseline(state, need, fresh)}

Idle == [at |-> "idle", request |-> 0, holds |-> FALSE, for |-> "prepare", turn |-> 0,
         fresh |-> FALSE, execution |-> NoExecution]

TutoringInit ==
    /\ turns = <<>>
    /\ executions = [k \in Scored |-> NoExecution]
    /\ frozen = [k \in Scored |-> "none"]
    /\ saved = {}
    /\ call = [t \in Threads |-> Idle]
    /\ failures = 0

StoresUnchanged == UNCHANGED <<turns, executions>>
RunsUnchanged   == UNCHANGED <<frozen, saved>>
Move(t, at)     == call' = [call EXCEPT ![t] = [Idle EXCEPT !.at = at, !.request = call[t].request,
                                                       !.holds = call[t].holds]]
Stop(t)         == call' = [call EXCEPT ![t] = Idle]
Failure           == failures < MaxFaults /\ failures' = failures + 1

-------------------------------------------------------------------------------
(* The workflow around the two calls. *)

Busy(k) == \E t \in Threads : call[t].at # "idle" /\ call[t].request = k

\* A submission, its retry, or a thread that takes it over from a lapsed lease.
BeginScored(t, k) ==
    /\ call[t].at = "idle" /\ k \notin saved
    /\ IF Busy(k) THEN Failure ELSE UNCHANGED failures
    /\ call' = [u \in Threads |->
                   IF u = t THEN [Idle EXCEPT !.at = "load", !.request = k, !.holds = TRUE]
                   ELSE [call[u] EXCEPT !.holds = @ /\ call[u].request # k]]
    /\ StoresUnchanged /\ UNCHANGED <<frozen, saved>>

\* The process dies or a statement fails outside the two guarded calls.
CallFails(t) ==
    /\ call[t].at # "idle" /\ Failure
    /\ Stop(t)
    /\ StoresUnchanged /\ RunsUnchanged

\* policy_frozen: recorded the first time, verified on a retry; only by the
\* thread that holds the run.
FreezePolicy(t) ==
    LET k == call[t].request  p == call[t].execution.policy
    IN  /\ call[t].at = "freeze"
        /\ IF call[t].holds /\ frozen[k] \in {"none", p}
           THEN /\ frozen' = [frozen EXCEPT ![k] = p]
                /\ Move(t, "lookup")
           ELSE Stop(t) /\ UNCHANGED frozen
        /\ StoresUnchanged /\ UNCHANGED <<saved, failures>>

\* tutoring_saved.
SaveTutoring(t) ==
    /\ call[t].at = "save"
    /\ saved' = IF call[t].holds THEN saved \union {call[t].request} ELSE saved
    /\ Stop(t)
    /\ StoresUnchanged /\ UNCHANGED <<frozen, failures>>

-------------------------------------------------------------------------------
(* prepare_policy_execution and decide_next_action. *)

\* Mutant: a stored decision is not looked up again.
ReplaysNever(k) == FALSE
Replays(k) == Decided(k)

\* prepare: the stored binding is returned as it is; a read that fails counts as none.
LoadExecution(t) ==
    LET k == call[t].request
    IN  /\ call[t].at = "load"
        /\ \/ /\ executions[k] # NoExecution
              /\ call' = [call EXCEPT ![t].at = "freeze", ![t].execution = executions[k]]
              /\ UNCHANGED failures
           \/ /\ executions[k] = NoExecution \/ (~Replays(k) /\ failures < MaxFaults)
              /\ failures' = IF executions[k] = NoExecution THEN failures ELSE failures + 1
              /\ call' = [call EXCEPT ![t].at = "resolve", ![t].for = "prepare"]
        /\ StoresUnchanged /\ RunsUnchanged

\* decide: a stored decision of the request is returned.
LookupDecision(t) ==
    /\ call[t].at = "lookup"
    /\ IF Replays(call[t].request) THEN Move(t, "save")
       ELSE call' = [call EXCEPT ![t].at = "resolve", ![t].for = "decide"]
    /\ StoresUnchanged /\ RunsUnchanged /\ UNCHANGED failures

\* _resolve_previous_snapshot.
ResolvePrevious(t) ==
    /\ call[t].at = "resolve"
    /\ call' = [call EXCEPT ![t].at = "evidence", ![t].turn = Len(turns)]
    /\ StoresUnchanged /\ RunsUnchanged /\ UNCHANGED failures

\* _build_policy_inputs: older evidence than the latest decision's is an error,
\* and so is a session that has ended.
ReadEvidence(t) ==
    LET k == call[t].request  n == Len(turns)
    IN  /\ call[t].at = "evidence"
        /\ IF (n > 0 /\ k < turns[n].request)
              \/ Candidates(StateAt(call[t].turn), Need[k], FreshAfter(k, n)) = {}
           THEN Stop(t)
           ELSE call' = [call EXCEPT ![t].at = "bind", ![t].fresh = FreshAfter(k, n)]
        /\ StoresUnchanged /\ RunsUnchanged /\ UNCHANGED failures

\* prepare_execution and _commit_policy_execution: the first writer of a request is
\* returned to all.  A policy that cannot be loaded becomes rules; when the database
\* does not answer, they are rules that nobody stored.
BindExecution(t) ==
    LET k == call[t].request
        Bound(e) == call' = [call EXCEPT ![t] =
                                IF @.for = "decide" THEN [@ EXCEPT !.at = "commit", !.execution = e]
                                ELSE [@ EXCEPT !.at = "freeze", !.execution = e, !.turn = 0, !.fresh = FALSE]]
    IN  /\ call[t].at = "bind"
        /\ \/ /\ executions[k] # NoExecution
              /\ Bound(executions[k]) /\ UNCHANGED <<executions, failures>>
           \/ /\ executions[k] = NoExecution
              /\ \E e \in Desired(call[t].turn) :
                    executions' = [executions EXCEPT ![k] = e] /\ Bound(e)
              /\ UNCHANGED failures
           \/ /\ Failure /\ Bound(Rules(call[t].turn))
              /\ executions' \in {executions} \union
                    (IF executions[k] = NoExecution
                     THEN {[executions EXCEPT ![k] = Rules(call[t].turn)]} ELSE {})
        /\ RunsUnchanged /\ UNCHANGED turns

\* Mutant: the latest snapshot is not compared with the one the decision follows.
UnmovedAny(n) == TRUE
Unmoved(n) == Len(turns) = n

\* Mutant: an observation of another input is accepted.
SameInputAny(e, n) == TRUE
\* The observation names the decision its execution was prepared for.
SameInput(e, n) == e.turn = n

\* commit_decision: the decision stored for the request, or one more turn.
CommitDecision(t) ==
    LET k == call[t].request  e == call[t].execution  n == call[t].turn
    IN  /\ call[t].at = "commit"
        /\ \/ /\ Replays(k)
              /\ IF executions[k] = e THEN Move(t, "save") ELSE Stop(t)
              /\ UNCHANGED turns
           \/ /\ ~Replays(k) /\ Unmoved(n) /\ executions[k] = e /\ SameInput(e, n)
              /\ \E s \in Selectable(e, StateAt(n), Need[k], call[t].fresh) :
                    turns' = Append(turns, [request |-> k, state |-> s, execution |-> e])
              /\ Move(t, "save")
           \/ /\ ~Replays(k) /\ ~(Unmoved(n) /\ executions[k] = e /\ SameInput(e, n))
              /\ Stop(t)
              /\ UNCHANGED turns
        /\ RunsUnchanged /\ UNCHANGED <<executions, failures>>

TutoringStep(t) ==
    \/ LoadExecution(t) \/ LookupDecision(t) \/ ResolvePrevious(t) \/ ReadEvidence(t)
    \/ BindExecution(t) \/ FreezePolicy(t) \/ CommitDecision(t) \/ SaveTutoring(t)

TutoringNext ==
    \E t \in Threads :
        \/ \E k \in Scored : BeginScored(t, k)
        \/ CallFails(t)
        \/ TutoringStep(t)

\* Threads go on, and a result that is not saved is posted again.
TutoringFairness ==
    /\ \A t \in Threads : WF_tutoringVars(TutoringStep(t))
    /\ \A k \in Scored : SF_tutoringVars(\E t \in Threads : BeginScored(t, k))

TutoringSpec == TutoringInit /\ [][TutoringNext]_tutoringVars /\ TutoringFairness

-------------------------------------------------------------------------------
(* Properties. *)

Steps == {"idle", "load", "resolve", "evidence", "bind", "freeze", "lookup", "commit", "save"}
Bindings == [policy : {"rules", "learned"}, turn : 0..MaxRequest, open : BOOLEAN]

\* Every variable keeps its shape; a request is decided once and saved when decided.
TutoringTypeOK ==
    /\ turns \in Seq([request : Scored, state : {"S2", "S3", "S4", "S5"}, execution : Bindings])
    /\ \A m, n \in DOMAIN turns : m < n => turns[m].request < turns[n].request
    /\ executions \in [Scored -> Bindings \union {NoExecution}]
    /\ frozen \in [Scored -> {"none", "rules", "learned"}]
    /\ \A k \in saved : Decided(k)
    /\ \A t \in Threads : call[t].at \in Steps
    /\ failures \in 0..MaxFaults

\* Every turn is one the safety envelope offers after the turn before it, judged by
\* evidence that is new with respect to that very turn, whatever else was decided
\* while its call was under way.
EveryTurnSafe ==
    \A n \in DOMAIN turns :
        turns[n].state \in Candidates(StateAt(n - 1), Need[turns[n].request],
                                      FreshAfter(turns[n].request, n - 1))

\* A turn was decided under the execution its request was bound to first, and that
\* execution, its gate included, was prepared for the turn it follows.
PolicyBound ==
    \A n \in DOMAIN turns :
        /\ turns[n].execution = executions[turns[n].request]
        /\ turns[n].execution.turn = n - 1

\* The session went on without the request, with later evidence or after its binding.
Overtaken(k) ==
    /\ ~Decided(k)
    /\ \/ \E n \in DOMAIN turns : turns[n].request > k
       \/ executions[k] # NoExecution /\ executions[k].turn < Len(turns)
Ended       == turns # <<>> /\ StateAt(Len(turns)) = "S5"
Disowned(k) == executions[k] # NoExecution /\ frozen[k] \notin {"none", executions[k].policy}

\* A result that is posted until it is accepted is decided and saved, unless the
\* session was moved on without it, has ended, or its run froze a policy that was
\* never stored.
RequestsSettle ==
    <>[](\A k \in Scored : k \in saved \/ Overtaken(k) \/ Ended \/ Disowned(k))
=============================================================================
