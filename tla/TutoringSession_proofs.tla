----------------------- MODULE TutoringSession_proofs -----------------------
(***************************************************************************)
(* What holds of a tutoring session for any number of results, threads and *)
(* failures and every mode of the policy: its decisions follow the safety  *)
(* envelope one by one, judged by evidence that was new, and each under    *)
(* the execution its request was bound to.                                 *)
(***************************************************************************)
EXTENDS TutoringSession, TLAPS

Turn == [request : Scored, state : {"S2", "S3", "S4", "S5"}, execution : Bindings]
Calls ==
    [at : Steps, request : 0..MaxRequest, holds : BOOLEAN, for : {"prepare", "decide"},
     turn : Nat, fresh : BOOLEAN, execution : Bindings \cup {NoExecution}]

StoresType ==
    /\ turns \in Seq(Turn)
    /\ executions \in [Scored -> Bindings \cup {NoExecution}]
    /\ frozen \in [Scored -> {"none", "rules", "learned"}]
    /\ failures \in 0..MaxFaults

(* The turns so far; the n-th follows n - 1 other requests, so there are   *)
(* never more turns than results.                                          *)
Increasing == \A m, n \in DOMAIN turns : m < n => turns[m].request < turns[n].request
TurnsOK ==
    /\ Increasing
    /\ \A n \in DOMAIN turns : n <= turns[n].request
    /\ EveryTurnSafe
    /\ PolicyBound

SavedOK == \A k \in saved : Decided(k)

(* What a call in progress has read is no newer than the session; as long  *)
(* as no turn was added since, it is what the session says now.            *)
CallOK(c) ==
    /\ c.at # "idle" => c.request \in Scored
    /\ c.at \in {"evidence", "bind", "commit"} => c.turn <= Len(turns)
    /\ c.at \in {"bind", "commit"} /\ c.turn = Len(turns) =>
          /\ c.fresh = FreshAfter(c.request, c.turn)
          /\ c.turn > 0 => c.request >= turns[c.turn].request
          /\ Candidates(StateAt(c.turn), Need[c.request], c.fresh) # {}
    /\ c.at \in {"freeze", "commit"} => c.execution \in Bindings
    /\ c.at = "save" => Decided(c.request)

CallsOK ==
    /\ call \in [Threads -> Calls]
    /\ \A t \in Threads : CallOK(call[t])

Inv == StoresType /\ TurnsOK /\ SavedOK /\ CallsOK
-----------------------------------------------------------------------------
(* Frames. *)

(* No binding is replaced. *)
WriteOnce == \A k \in Scored : executions[k] # NoExecution => executions'[k] = executions[k]

LEMMA Unbound == NoExecution \notin Bindings
BY NoExecutionAssumption DEF Bindings

LEMMA NoTurn ==
  ASSUME Inv, UNCHANGED turns, WriteOnce
  PROVE  TurnsOK' /\ \A k : Decided(k)' = Decided(k)
<1>1. Increasing' /\ \A n \in DOMAIN turns' : n <= turns'[n].request
  BY DEF Inv, TurnsOK, Increasing
<1>2. EveryTurnSafe'
  BY DEF Inv, TurnsOK, EveryTurnSafe, StateAt, FreshAfter
<1>3. ASSUME NEW n \in DOMAIN turns
      PROVE  executions'[turns[n].request] = executions[turns[n].request]
  <2>1. turns[n] \in Turn
    BY DEF Inv, StoresType
  <2>2. turns[n].execution = executions[turns[n].request]
    BY DEF Inv, TurnsOK, PolicyBound
  <2> QED
    BY <2>1, <2>2, Unbound DEF Turn, WriteOnce
<1>4. PolicyBound'
  BY <1>3 DEF Inv, TurnsOK, PolicyBound
<1> QED
  BY <1>1, <1>2, <1>4 DEF TurnsOK, Decided

LEMMA CallStill == ASSUME NEW c, CallOK(c), UNCHANGED turns PROVE CallOK(c)'
BY DEF CallOK, Decided, FreshAfter, StateAt

LEMMA CallMoves ==
  ASSUME CallsOK, UNCHANGED turns, NEW t \in Threads, NEW c \in Calls, CallOK(c),
         call' = [call EXCEPT ![t] = c]
  PROVE  CallsOK'
<1>1. call' \in [Threads -> Calls]
  BY DEF CallsOK
<1>2. ASSUME NEW u \in Threads PROVE CallOK(call[u])'
  <2>1. call'[u] \in {c, call[u]} /\ CallOK(call'[u])
    BY DEF CallsOK
  <2>2. PICK d : d = call'[u]
    OBVIOUS
  <2>3. CallOK(d)'
    BY <2>1, <2>2, CallStill
  <2> QED
    BY <2>2, <2>3
<1> QED
  BY <1>1, <1>2 DEF CallsOK

LEMMA IdleOK == Idle \in Calls /\ CallOK(Idle)
BY MaxRequestAssumption DEF Idle, Calls, CallOK, Steps

LEMMA Stopped ==
  ASSUME CallsOK, UNCHANGED turns, NEW t \in Threads, Stop(t) PROVE CallsOK'
BY IdleOK, CallMoves DEF Stop

LEMMA Moved ==
  ASSUME CallsOK, UNCHANGED turns, NEW t \in Threads, call[t].at # "idle",
         NEW s \in {"lookup", "save"}, Move(t, s), s = "save" => Decided(call[t].request)
  PROVE  CallsOK'
<1>1. call[t] \in Calls /\ call[t].request \in Scored
  BY DEF CallsOK, CallOK
<1>2. PICK c : c = [Idle EXCEPT !.at = s, !.request = call[t].request,
                               !.holds = call[t].holds]
  OBVIOUS
<1>3. c = [at |-> s, request |-> call[t].request, holds |-> call[t].holds, for |-> "prepare",
           turn |-> 0, fresh |-> FALSE, execution |-> NoExecution]
  BY <1>2 DEF Idle
<1>4. c \in Calls
  BY <1>1, <1>3 DEF Calls, Steps
<1>5. CallOK(c)
  BY <1>1, <1>3 DEF CallOK
<1> QED
  BY <1>2, <1>4, <1>5, CallMoves DEF Move

LEMMA Rest ==
  ASSUME Inv, UNCHANGED turns, WriteOnce, CallsOK',
         executions' \in [Scored -> Bindings \cup {NoExecution}],
         frozen' \in [Scored -> {"none", "rules", "learned"}],
         failures' \in 0..MaxFaults, \A k \in saved' : Decided(k)
  PROVE  Inv'
<1>1. TurnsOK' /\ \A k : Decided(k)' = Decided(k)
  BY NoTurn
<1>2. StoresType'
  BY DEF Inv, StoresType
<1> QED
  BY <1>1, <1>2 DEF Inv, SavedOK
-----------------------------------------------------------------------------
(* One lemma for each step. *)

LEMMA InitOK == TutoringInit => Inv
<1> SUFFICES ASSUME TutoringInit PROVE Inv
  OBVIOUS
<1>1. StoresType
  BY MaxFaultsAssumption DEF TutoringInit, StoresType
<1>2. TurnsOK /\ SavedOK
  BY DEF TutoringInit, TurnsOK, SavedOK, Increasing, EveryTurnSafe, PolicyBound
<1>3. CallsOK
  BY IdleOK DEF TutoringInit, CallsOK
<1> QED
  BY <1>1, <1>2, <1>3 DEF Inv

LEMMA FaultOK == ASSUME Inv, Failure PROVE failures' \in 0..MaxFaults
BY MaxFaultsAssumption DEF Inv, StoresType, Failure

LEMMA BeginScoredOK ==
  ASSUME Inv, NEW t \in Threads, NEW k \in Scored, BeginScored(t, k) PROVE Inv'
<1>1. UNCHANGED <<turns, executions, frozen, saved>> /\ failures' \in 0..MaxFaults
  BY FaultOK DEF BeginScored, StoresUnchanged, Inv, StoresType
<1>2. PICK b : b = [Idle EXCEPT !.at = "load", !.request = k, !.holds = TRUE]
  OBVIOUS
<1>3. b = [at |-> "load", request |-> k, holds |-> TRUE, for |-> "prepare",
           turn |-> 0, fresh |-> FALSE, execution |-> NoExecution]
  BY <1>2 DEF Idle
<1>4. b \in Calls /\ CallOK(b)
  BY <1>3 DEF Calls, Steps, CallOK, Scored
<1>5. call' = [u \in Threads |->
                 IF u = t THEN b ELSE [call[u] EXCEPT !.holds = @ /\ call[u].request # k]]
  BY <1>2 DEF BeginScored
<1>6. ASSUME NEW u \in Threads PROVE call'[u] \in Calls /\ CallOK(call[u])'
  <2>1. CASE u = t
    <3>1. CallOK(b)'
      BY <1>1, <1>4, CallStill
    <3> QED
      BY <1>4, <1>5, <2>1, <3>1
  <2>2. CASE u # t
    <3>1. PICK d \in Calls : d = call[u] /\ CallOK(d)
      BY DEF Inv, CallsOK
    <3>2. PICK e : e = [d EXCEPT !.holds = @ /\ d.request # k]
      OBVIOUS
    <3>3. e = call'[u]
      BY <1>5, <2>2, <3>1, <3>2
    <3>4. e \in Calls /\ CallOK(e)
      <4>1. e = [at |-> d.at, request |-> d.request, holds |-> d.holds /\ d.request # k,
                 for |-> d.for, turn |-> d.turn, fresh |-> d.fresh, execution |-> d.execution]
        BY <3>2 DEF Calls
      <4>2. (d.holds /\ d.request # k) \in BOOLEAN
        OBVIOUS
      <4> QED
        BY <3>1, <4>1, <4>2 DEF Calls, CallOK
    <3>5. CallOK(e)'
      BY <1>1, <3>4, CallStill
    <3> QED
      BY <3>3, <3>4, <3>5
  <2> QED
    BY <2>1, <2>2
<1>7. CallsOK'
  BY <1>5, <1>6 DEF CallsOK
<1> QED
  BY <1>1, <1>7, Rest DEF Inv, StoresType, SavedOK, WriteOnce

LEMMA CallFailsOK == ASSUME Inv, NEW t \in Threads, CallFails(t) PROVE Inv'
<1>1. UNCHANGED <<turns, executions, frozen, saved>> /\ failures' \in 0..MaxFaults
  BY FaultOK DEF CallFails, StoresUnchanged, RunsUnchanged
<1>2. CallsOK'
  BY <1>1, Stopped DEF CallFails, Inv
<1> QED
  BY <1>1, <1>2, Rest DEF Inv, StoresType, SavedOK, WriteOnce

LEMMA FreezePolicyOK == ASSUME Inv, NEW t \in Threads, FreezePolicy(t) PROVE Inv'
<1>1. UNCHANGED <<turns, executions, saved, failures>>
  BY DEF FreezePolicy, StoresUnchanged
<1>2. call[t].at = "freeze" /\ call[t].execution.policy \in {"rules", "learned"}
  BY DEF FreezePolicy, Inv, CallsOK, CallOK, Bindings
<1>3. frozen' \in [Scored -> {"none", "rules", "learned"}]
  BY <1>2 DEF FreezePolicy, Inv, StoresType
<1>4. CallsOK'
  BY <1>1, <1>2, Stopped, Moved DEF FreezePolicy, Inv
<1> QED
  BY <1>1, <1>3, <1>4, Rest DEF Inv, StoresType, SavedOK, WriteOnce

LEMMA SaveTutoringOK == ASSUME Inv, NEW t \in Threads, SaveTutoring(t) PROVE Inv'
<1>1. UNCHANGED <<turns, executions, frozen, failures>>
  BY DEF SaveTutoring, StoresUnchanged
<1>2. Decided(call[t].request)
  BY DEF SaveTutoring, Inv, CallsOK, CallOK
<1>3. \A k \in saved' : Decided(k)
  BY <1>2 DEF SaveTutoring, Inv, SavedOK
<1>4. CallsOK'
  BY <1>1, Stopped DEF SaveTutoring, Inv
<1> QED
  BY <1>1, <1>3, <1>4, Rest DEF Inv, StoresType, WriteOnce

LEMMA LoadExecutionOK == ASSUME Inv, NEW t \in Threads, LoadExecution(t) PROVE Inv'
<1>1. UNCHANGED <<turns, executions, frozen, saved>> /\ failures' \in 0..MaxFaults
  BY MaxFaultsAssumption DEF LoadExecution, StoresUnchanged, RunsUnchanged, Inv, StoresType
<1>2. PICK d \in Calls : d = call[t] /\ CallOK(d) /\ d.at = "load"
  BY DEF LoadExecution, Inv, CallsOK
<1>3. d.request \in Scored
  BY <1>2 DEF CallOK
<1>4. CallsOK'
  <2>1. CASE /\ executions[d.request] # NoExecution
             /\ call' = [call EXCEPT ![t].at = "freeze", ![t].execution = executions[d.request]]
    <3>1. PICK c : c = [d EXCEPT !.at = "freeze", !.execution = executions[d.request]]
      OBVIOUS
    <3>2. executions[d.request] \in Bindings
      BY <1>3, <2>1 DEF Inv, StoresType
    <3>3. c \in Calls /\ CallOK(c)
      BY <1>2, <1>3, <3>1, <3>2 DEF Calls, Steps, CallOK
    <3>4. call' = [call EXCEPT ![t] = c]
      BY <1>2, <2>1, <3>1 DEF Inv, CallsOK
    <3> QED
      BY <1>1, <3>3, <3>4, CallMoves DEF Inv
  <2>2. CASE call' = [call EXCEPT ![t].at = "resolve", ![t].for = "prepare"]
    <3>1. PICK c : c = [d EXCEPT !.at = "resolve", !.for = "prepare"]
      OBVIOUS
    <3>2. c \in Calls /\ CallOK(c)
      BY <1>2, <1>3, <3>1 DEF Calls, Steps, CallOK
    <3>3. call' = [call EXCEPT ![t] = c]
      BY <1>2, <2>2, <3>1 DEF Inv, CallsOK
    <3> QED
      BY <1>1, <3>2, <3>3, CallMoves DEF Inv
  <2> QED
    BY <1>2, <2>1, <2>2 DEF LoadExecution
<1> QED
  BY <1>1, <1>4, Rest DEF Inv, StoresType, SavedOK, WriteOnce

LEMMA LookupDecisionOK == ASSUME Inv, NEW t \in Threads, LookupDecision(t) PROVE Inv'
<1>1. UNCHANGED <<turns, executions, frozen, saved, failures>>
  BY DEF LookupDecision, StoresUnchanged, RunsUnchanged
<1>2. PICK d \in Calls : d = call[t] /\ CallOK(d) /\ d.at = "lookup"
  BY DEF LookupDecision, Inv, CallsOK
<1>3. CallsOK'
  <2>1. CASE Replays(d.request) /\ Move(t, "save")
    BY <1>1, <1>2, <2>1, Moved DEF Replays, Inv
  <2>2. CASE call' = [call EXCEPT ![t].at = "resolve", ![t].for = "decide"]
    <3>1. PICK c : c = [d EXCEPT !.at = "resolve", !.for = "decide"]
      OBVIOUS
    <3>2. c \in Calls /\ CallOK(c)
      BY <1>2, <3>1 DEF Calls, Steps, CallOK
    <3>3. call' = [call EXCEPT ![t] = c]
      BY <1>2, <2>2, <3>1 DEF Inv, CallsOK
    <3> QED
      BY <1>1, <3>2, <3>3, CallMoves DEF Inv
  <2> QED
    BY <1>2, <2>1, <2>2 DEF LookupDecision
<1> QED
  BY <1>1, <1>3, Rest DEF Inv, StoresType, SavedOK, WriteOnce

LEMMA ResolvePreviousOK == ASSUME Inv, NEW t \in Threads, ResolvePrevious(t) PROVE Inv'
<1>1. UNCHANGED <<turns, executions, frozen, saved, failures>>
  BY DEF ResolvePrevious, StoresUnchanged, RunsUnchanged
<1>2. PICK d \in Calls : d = call[t] /\ CallOK(d) /\ d.at = "resolve"
  BY DEF ResolvePrevious, Inv, CallsOK
<1>3. PICK c : c = [d EXCEPT !.at = "evidence", !.turn = Len(turns)]
  OBVIOUS
<1>4. Len(turns) \in Nat
  BY DEF Inv, StoresType
<1>5. c \in Calls /\ CallOK(c)
  <2>1. c \in Calls /\ c.at = "evidence" /\ c.turn = Len(turns) /\ c.request = d.request
    BY <1>2, <1>3, <1>4 DEF Calls, Steps
  <2>2. c.turn <= Len(turns) /\ c.request \in Scored
    BY <1>2, <1>4, <2>1 DEF CallOK
  <2> QED
    BY <2>1, <2>2 DEF CallOK
<1>6. call' = [call EXCEPT ![t] = c]
  BY <1>2, <1>3 DEF ResolvePrevious, Inv, CallsOK
<1>7. CallsOK'
  BY <1>1, <1>5, <1>6, CallMoves DEF Inv
<1> QED
  BY <1>1, <1>7, Rest DEF Inv, StoresType, SavedOK, WriteOnce

LEMMA ReadEvidenceOK == ASSUME Inv, NEW t \in Threads, ReadEvidence(t) PROVE Inv'
<1>1. UNCHANGED <<turns, executions, frozen, saved, failures>>
  BY DEF ReadEvidence, StoresUnchanged, RunsUnchanged
<1>2. PICK d \in Calls : d = call[t] /\ CallOK(d) /\ d.at = "evidence"
  BY DEF ReadEvidence, Inv, CallsOK
<1>3. d.request \in Scored /\ d.turn <= Len(turns) /\ Len(turns) \in Nat
  BY <1>2 DEF CallOK, Inv, StoresType
<1>4. CallsOK'
  <2>1. CASE Stop(t)
    BY <1>1, <2>1, Stopped DEF Inv
  <2>2. CASE /\ ~(Len(turns) > 0 /\ d.request < turns[Len(turns)].request)
             /\ Candidates(StateAt(d.turn), Need[d.request],
                           FreshAfter(d.request, Len(turns))) # {}
             /\ call' = [call EXCEPT ![t].at = "bind",
                            ![t].fresh = FreshAfter(d.request, Len(turns))]
    <3>1. PICK c : c = [d EXCEPT !.at = "bind", !.fresh = FreshAfter(d.request, Len(turns))]
      OBVIOUS
    <3>2. FreshAfter(d.request, Len(turns)) \in BOOLEAN
      BY DEF FreshAfter
    <3>3. c \in Calls
      BY <1>2, <3>1, <3>2 DEF Calls, Steps
    <3>4. /\ c.at = "bind" /\ c.turn = d.turn /\ c.request = d.request
          /\ c.fresh = FreshAfter(d.request, Len(turns))
      BY <3>1 DEF Calls
    <3>5. Len(turns) > 0 => d.request >= turns[Len(turns)].request
      <4>1. Len(turns) > 0 => turns[Len(turns)] \in Turn
        BY DEF Inv, StoresType
      <4> QED
        BY <1>3, <2>2, <4>1 DEF Turn, Scored
    <3>6. CallOK(c)
      BY <1>3, <2>2, <3>4, <3>5 DEF CallOK
    <3>7. call' = [call EXCEPT ![t] = c]
      BY <1>2, <2>2, <3>1 DEF Inv, CallsOK
    <3> QED
      BY <1>1, <3>3, <3>6, <3>7, CallMoves DEF Inv
  <2> QED
    BY <1>2, <2>1, <2>2 DEF ReadEvidence
<1> QED
  BY <1>1, <1>4, Rest DEF Inv, StoresType, SavedOK, WriteOnce

(* The requests of the turns grow, so the session is no longer than the    *)
(* results it has.                                                         *)
LEMMA TurnsBounded == ASSUME Inv PROVE Len(turns) \in 0..MaxRequest
<1>1. Len(turns) > 0 => Len(turns) <= turns[Len(turns)].request /\ turns[Len(turns)] \in Turn
  BY DEF Inv, StoresType, TurnsOK
<1> QED
  BY <1>1, MaxRequestAssumption DEF Inv, StoresType, Turn, Scored

LEMMA BindingsOffered ==
  ASSUME NEW n \in 0..MaxRequest
  PROVE  Rules(n) \in Bindings /\ Desired(n) \subseteq Bindings
<1>1. Rules(n) \in Bindings
  BY DEF Rules, Bindings
<1>2. ASSUME NEW b \in BOOLEAN PROVE [policy |-> "learned", turn |-> n, open |-> b] \in Bindings
  BY DEF Bindings
<1>3. Desired(n) \subseteq Bindings
  <2>1. CASE PolicyMode = "rules"
    BY <1>1, <2>1 DEF Desired
  <2>2. CASE PolicyMode # "rules"
    <3>1. ASSUME NEW e \in Desired(n) PROVE e \in Bindings
      <4>1. PICK b \in BOOLEAN : e = [policy |-> "learned", turn |-> n, open |-> b]
        BY <2>2, <3>1 DEF Desired
      <4> QED
        BY <1>2, <4>1
    <3> QED
      BY <3>1
  <2> QED
    BY <2>1, <2>2
<1> QED
  BY <1>1, <1>3

LEMMA BindExecutionOK == ASSUME Inv, NEW t \in Threads, BindExecution(t) PROVE Inv'
<1>1. UNCHANGED <<turns, frozen, saved>> /\ failures' \in 0..MaxFaults
  BY FaultOK DEF BindExecution, RunsUnchanged, Inv, StoresType
<1>2. PICK d \in Calls : d = call[t] /\ CallOK(d) /\ d.at = "bind"
  BY DEF BindExecution, Inv, CallsOK
<1>3. d.request \in Scored /\ d.turn \in 0..MaxRequest
  <2>1. d.request \in Scored /\ d.turn \in Nat /\ d.turn <= Len(turns)
    BY <1>2 DEF CallOK, Calls
  <2> QED
    BY <2>1, TurnsBounded, MaxRequestAssumption
<1>4. Rules(d.turn) \in Bindings /\ Desired(d.turn) \subseteq Bindings
  BY <1>3, BindingsOffered
<1>5. PICK e \in Bindings :
        /\ call' = [call EXCEPT ![t] =
              IF @.for = "decide" THEN [@ EXCEPT !.at = "commit", !.execution = e]
              ELSE [@ EXCEPT !.at = "freeze", !.execution = e, !.turn = 0, !.fresh = FALSE]]
        /\ \/ executions' = executions
           \/ executions[d.request] = NoExecution
              /\ \E f \in Bindings : executions' = [executions EXCEPT ![d.request] = f]
  BY <1>2, <1>3, <1>4 DEF BindExecution, Inv, StoresType
<1>6. executions' \in [Scored -> Bindings \cup {NoExecution}] /\ WriteOnce
  BY <1>5 DEF Inv, StoresType, WriteOnce
<1>7. CallsOK'
  <2>1. CASE d.for = "decide"
    <3>1. PICK c : c = [d EXCEPT !.at = "commit", !.execution = e]
      OBVIOUS
    <3>2. c \in Calls /\ CallOK(c)
      BY <1>2, <1>3, <3>1 DEF Calls, Steps, CallOK
    <3>3. call' = [call EXCEPT ![t] = c]
      BY <1>2, <1>5, <2>1, <3>1 DEF Inv, CallsOK
    <3> QED
      BY <1>1, <3>2, <3>3, CallMoves DEF Inv
  <2>2. CASE d.for # "decide"
    <3>1. PICK c : c = [d EXCEPT !.at = "freeze", !.execution = e, !.turn = 0, !.fresh = FALSE]
      OBVIOUS
    <3>2. c \in Calls /\ CallOK(c)
      BY <1>2, <1>3, <3>1 DEF Calls, Steps, CallOK
    <3>3. call' = [call EXCEPT ![t] = c]
      BY <1>2, <1>5, <2>2, <3>1 DEF Inv, CallsOK
    <3> QED
      BY <1>1, <3>2, <3>3, CallMoves DEF Inv
  <2> QED
    BY <2>1, <2>2
<1> QED
  BY <1>1, <1>6, <1>7, Rest DEF Inv, StoresType, SavedOK
-----------------------------------------------------------------------------
(* The commit. *)

(* The rules choose within the envelope wherever it leaves a choice.       *)
LEMMA BaselineSafe ==
  ASSUME NEW state \in {"S1", "S2", "S3", "S4", "S5"},
         NEW need \in {"remediate", "practise", "advance"}, NEW fresh \in BOOLEAN,
         Candidates(state, need, fresh) # {}
  PROVE  Baseline(state, need, fresh) \in Candidates(state, need, fresh)
BY DEF Baseline, Candidates

LEMMA ChoicesSafe ==
  ASSUME NEW state \in {"S1", "S2", "S3", "S4", "S5"},
         NEW need \in {"remediate", "practise", "advance"}, NEW fresh \in BOOLEAN,
         Candidates(state, need, fresh) # {}, NEW e \in Bindings
  PROVE  /\ Selectable(e, state, need, fresh) \subseteq Candidates(state, need, fresh)
         /\ Candidates(state, need, fresh) \subseteq {"S2", "S3", "S4", "S5"}
<1>1. Selectable(e, state, need, fresh) \subseteq Candidates(state, need, fresh)
  BY BaselineSafe DEF Selectable
<1>2. Candidates(state, need, fresh) \subseteq {"S2", "S3", "S4", "S5"}
  BY DEF Candidates
<1> QED
  BY <1>1, <1>2

LEMMA StateTyped == ASSUME Inv, NEW n \in 0..Len(turns) PROVE StateAt(n) \in {"S1", "S2", "S3", "S4", "S5"}
<1>1. n # 0 => turns[n] \in Turn
  BY DEF Inv, StoresType
<1> QED
  BY <1>1 DEF StateAt, Turn

(* What the turn that thread t appends satisfies. *)
LEMMA NextTurn ==
  ASSUME Inv, NEW t \in Threads, NEW d \in Calls, d = call[t], d.at = "commit",
         ~Decided(d.request), Len(turns) = d.turn, SameInput(d.execution, d.turn),
         executions[d.request] = d.execution,
         NEW s \in Selectable(d.execution, StateAt(d.turn), Need[d.request], d.fresh)
  PROVE  /\ [request |-> d.request, state |-> s, execution |-> d.execution] \in Turn
         /\ s \in Candidates(StateAt(d.turn), Need[d.request], FreshAfter(d.request, d.turn))
         /\ \A m \in DOMAIN turns : turns[m].request < d.request
         /\ d.turn < d.request
<1>1. /\ d.request \in Scored /\ d.execution \in Bindings
      /\ d.fresh = FreshAfter(d.request, d.turn)
      /\ d.turn > 0 => d.request >= turns[d.turn].request
      /\ Candidates(StateAt(d.turn), Need[d.request], d.fresh) # {}
  BY DEF Inv, CallsOK, CallOK
<1>2. d.turn \in 0..Len(turns) /\ d.fresh \in BOOLEAN
  BY TurnsBounded DEF Calls
<1>3. Need[d.request] \in {"remediate", "practise", "advance"}
  BY <1>1, NeedAssumption
<1>4. StateAt(d.turn) \in {"S1", "S2", "S3", "S4", "S5"}
  BY <1>2, StateTyped
<1>5. /\ s \in Candidates(StateAt(d.turn), Need[d.request], d.fresh)
      /\ s \in {"S2", "S3", "S4", "S5"}
  BY <1>1, <1>2, <1>3, <1>4, ChoicesSafe
<1>6. ASSUME NEW m \in DOMAIN turns PROVE turns[m].request < d.request
  <2>1. Len(turns) \in DOMAIN turns /\ m <= Len(turns) /\ m \in Nat /\ d.turn > 0
    BY DEF Inv, StoresType
  <2>2. turns[m] \in Turn /\ turns[Len(turns)] \in Turn
    BY <2>1 DEF Inv, StoresType
  <2>3. turns[m].request <= turns[Len(turns)].request
    BY <2>1, <2>2 DEF Inv, TurnsOK, Increasing, Turn, Scored
  <2>4. turns[Len(turns)].request # d.request
    BY <2>1 DEF Decided
  <2> QED
    BY <1>1, <2>1, <2>2, <2>3, <2>4 DEF Turn, Scored
<1>7. d.turn < d.request
  <2>1. CASE d.turn = 0
    BY <1>1, <2>1 DEF Scored
  <2>2. CASE d.turn # 0
    <3>1. d.turn \in DOMAIN turns
      BY <1>2, <2>2 DEF Inv, StoresType
    <3>2. d.turn <= turns[d.turn].request /\ turns[d.turn] \in Turn
      BY <3>1 DEF Inv, StoresType, TurnsOK
    <3> QED
      BY <1>1, <1>2, <1>6, <3>1, <3>2 DEF Turn, Scored
  <2> QED
    BY <2>1, <2>2
<1> QED
  BY <1>1, <1>5, <1>6, <1>7 DEF Turn

LEMMA CommitDecisionOK == ASSUME Inv, NEW t \in Threads, CommitDecision(t) PROVE Inv'
<1>1. UNCHANGED <<executions, frozen, saved, failures>>
  BY DEF CommitDecision, RunsUnchanged
<1>2. PICK d \in Calls : d = call[t] /\ CallOK(d) /\ d.at = "commit"
  BY DEF CommitDecision, Inv, CallsOK
<1>3. CASE UNCHANGED turns /\ (Stop(t) \/ (Replays(d.request) /\ Move(t, "save")))
  <2>1. CallsOK'
    BY <1>2, <1>3, Stopped, Moved DEF Replays, Inv
  <2> QED
    BY <1>1, <1>3, <2>1, Rest DEF Inv, StoresType, SavedOK, WriteOnce
<1>4. CASE /\ ~Decided(d.request) /\ Len(turns) = d.turn /\ SameInput(d.execution, d.turn)
           /\ executions[d.request] = d.execution
           /\ \E s \in Selectable(d.execution, StateAt(d.turn), Need[d.request], d.fresh) :
                 turns' = Append(turns, [request |-> d.request, state |-> s,
                                         execution |-> d.execution])
           /\ Move(t, "save")
  <2>1. PICK s, r :
          /\ r = [request |-> d.request, state |-> s, execution |-> d.execution]
          /\ r \in Turn /\ turns' = Append(turns, r)
          /\ s \in Candidates(StateAt(d.turn), Need[d.request], FreshAfter(d.request, d.turn))
          /\ \A m \in DOMAIN turns : turns[m].request < d.request
          /\ d.turn < d.request
    BY <1>2, <1>4, NextTurn
  <2>2. /\ Len(turns) \in Nat /\ Len(turns') = Len(turns) + 1
        /\ DOMAIN turns = 1..Len(turns) /\ DOMAIN turns' = 1..(Len(turns) + 1)
        /\ \A m \in DOMAIN turns : turns'[m] = turns[m]
        /\ turns'[Len(turns) + 1] = r
        /\ turns' \in Seq(Turn)
    BY <2>1 DEF Inv, StoresType
  <2>3. r.request = d.request /\ r.state = s /\ r.execution = d.execution
    BY <2>1
  <2>4. /\ \A n \in 0..Len(turns) : StateAt(n)' = StateAt(n)
        /\ \A n \in 0..Len(turns) : \A k : FreshAfter(k, n)' = FreshAfter(k, n)
    BY <2>2 DEF StateAt, FreshAfter
  <2>5. \A k : Decided(k) => Decided(k)'
    BY <2>2 DEF Decided
  <2>6. Decided(d.request)'
    BY <2>2, <2>3 DEF Decided
  <2>7. StoresType'
    BY <1>1, <2>2 DEF Inv, StoresType
  <2>8. Increasing' /\ \A n \in DOMAIN turns' : n <= turns'[n].request
    <3>1. \A n \in DOMAIN turns' : n <= turns'[n].request
      BY <1>4, <2>1, <2>2, <2>3 DEF Inv, TurnsOK, Calls
    <3>2. ASSUME NEW m \in DOMAIN turns', NEW n \in DOMAIN turns', m < n
          PROVE  turns'[m].request < turns'[n].request
      <4>1. m \in DOMAIN turns
        BY <2>2, <3>2
      <4>2. CASE n \in DOMAIN turns
        BY <2>2, <3>2, <4>1, <4>2 DEF Inv, TurnsOK, Increasing
      <4>3. CASE n = Len(turns) + 1
        BY <2>1, <2>2, <2>3, <4>1, <4>3
      <4> QED
        BY <2>2, <4>2, <4>3
    <3> QED
      BY <3>1, <3>2 DEF Increasing
  <2>9. EveryTurnSafe'
    <3>1. ASSUME NEW n \in DOMAIN turns'
          PROVE  turns'[n].state \in Candidates(StateAt(n - 1), Need[turns[n].request],
                                               FreshAfter(turns[n].request, n - 1))'
      <4>1. n - 1 \in 0..Len(turns)
        BY <2>2
      <4>2. CASE n \in DOMAIN turns
        BY <2>2, <2>4, <4>1, <4>2 DEF Inv, TurnsOK, EveryTurnSafe, Candidates
      <4>3. CASE n = Len(turns) + 1
        BY <1>4, <2>1, <2>2, <2>3, <2>4, <4>1, <4>3 DEF Candidates
      <4> QED
        BY <2>2, <4>2, <4>3
    <3> QED
      BY <3>1 DEF EveryTurnSafe
  <2>10. PolicyBound'
    BY <1>1, <1>4, <2>2, <2>3 DEF Inv, TurnsOK, PolicyBound, SameInput
  <2>11. CallsOK'
    <3>1. ASSUME NEW c \in Calls, CallOK(c) PROVE CallOK(c)'
      <4>1. c.at \in {"evidence", "bind", "commit"} => c.turn <= Len(turns)' /\ c.turn # Len(turns)'
        BY <2>2, <3>1 DEF CallOK, Calls
      <4> QED
        BY <2>5, <3>1, <4>1 DEF CallOK
    <3>2. PICK c : c = [Idle EXCEPT !.at = "save", !.request = d.request, !.holds = d.holds]
      OBVIOUS
    <3>3. c = [at |-> "save", request |-> d.request, holds |-> d.holds, for |-> "prepare",
               turn |-> 0, fresh |-> FALSE, execution |-> NoExecution]
      BY <3>2 DEF Idle
    <3>4. c \in Calls
      BY <3>3 DEF Calls, Steps
    <3>5. CallOK(c)'
      BY <1>2, <2>6, <3>3 DEF CallOK
    <3>6. call' = [call EXCEPT ![t] = c]
      BY <1>2, <1>4, <3>2 DEF Move
    <3>7. ASSUME NEW u \in Threads PROVE CallOK(call[u])'
      <4>1. CASE u = t
        BY <3>5, <3>6, <4>1 DEF Inv, CallsOK
      <4>2. CASE u # t
        BY <3>1, <3>6, <4>2 DEF Inv, CallsOK
      <4> QED
        BY <4>1, <4>2
    <3> QED
      BY <3>4, <3>6, <3>7 DEF Inv, CallsOK
  <2>12. SavedOK'
    BY <1>1, <2>5 DEF Inv, SavedOK
  <2> QED
    BY <2>7, <2>8, <2>9, <2>10, <2>11, <2>12 DEF Inv, TurnsOK
<1> QED
  BY <1>2, <1>3, <1>4 DEF CommitDecision, Replays, Unmoved
-----------------------------------------------------------------------------
LEMMA StutterOK == ASSUME Inv, UNCHANGED tutoringVars PROVE Inv'
<1>1. UNCHANGED <<turns, executions, frozen, saved, call, failures>>
  BY DEF tutoringVars
<1>2. CallsOK'
  BY <1>1, CallStill DEF Inv, CallsOK
<1> QED
  BY <1>1, <1>2, Rest DEF Inv, StoresType, SavedOK, WriteOnce

LEMMA NextOK == Inv /\ [TutoringNext]_tutoringVars => Inv'
BY StutterOK, BeginScoredOK, CallFailsOK, FreezePolicyOK, SaveTutoringOK, LoadExecutionOK,
   LookupDecisionOK, ResolvePreviousOK, ReadEvidenceOK, BindExecutionOK, CommitDecisionOK
   DEF TutoringNext, TutoringStep

LEMMA Invariance == TutoringSpec => []Inv
BY InitOK, NextOK, PTL DEF TutoringSpec

(* Every variable keeps its shape; a request is decided once, and what a   *)
(* run recorded as saved has been decided.                                 *)
THEOREM TutoringTyping == TutoringSpec => []TutoringTypeOK
<1>1. Inv => TutoringTypeOK
  BY DEF Inv, StoresType, TurnsOK, SavedOK, CallsOK, Calls, Increasing, Turn, TutoringTypeOK
<1> QED
  BY <1>1, Invariance, PTL

(* decide_next_action follows the safety envelope turn by turn, judged by  *)
(* evidence that is new with respect to the turn before, whatever other    *)
(* threads decided between its reads and its commit.                       *)
THEOREM EnvelopeKept == TutoringSpec => []EveryTurnSafe
<1>1. Inv => EveryTurnSafe
  BY DEF Inv, TurnsOK
<1> QED
  BY <1>1, Invariance, PTL

(* commit_decision stores a turn only under the execution its request was  *)
(* bound to first, prepared for the very turn it follows.                  *)
THEOREM PolicyBinding == TutoringSpec => []PolicyBound
<1>1. Inv => PolicyBound
  BY DEF Inv, TurnsOK
<1> QED
  BY <1>1, Invariance, PTL
=============================================================================
