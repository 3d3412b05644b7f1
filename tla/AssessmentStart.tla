--------------------------- MODULE AssessmentStart ---------------------------
(***************************************************************************)
(* Starting an assessment: the student's form is posted, perhaps twice and *)
(* perhaps again after a failure; the request reads the active release and *)
(* the learning profile, m4 decides what is meant and stores the task, m8  *)
(* stores the paper, and the workflow drives a start run to its end.  The  *)
(* form's token fixes the session, so everything a second post comes to    *)
(* must be what the first one stored.                                      *)
(*                                                                         *)
(* Each repository call is one transaction and one action.  A paper is     *)
(* known by what it was generated from.  A lease of 1 has lapsed, one of 2 *)
(* has not.  Rows and requests would carry a growing version; here the     *)
(* version of every row is 1 and a request holds the run until another one *)
(* changes it.                                                             *)
(***************************************************************************)
EXTENDS Integers

CONSTANTS
    Forms,         \* start forms: a token, hence a session, and the release it is posted under
    Texts,         \* what a form can ask for: a hint or a free text
    Readings,      \* what m4 may decide about each text
    Refused,       \* the decision that no supported task is meant
    Nothing,       \* no decision, no paper
    ProfileBlind,  \* task types whose paper does not depend on the profile
    NoQuestions,   \* <<type, profile>> for which no question can be selected
    Visitors,      \* threads of the web processes
    MaxLearned,    \* bound: changes of the learning profile
    MaxStops       \* bound: requests that die or stall

Types == (UNION {Readings[x] : x \in Texts}) \ {Refused}
ASSUME ReadingsAssumption == DOMAIN Readings = Texts /\ \A x \in Texts : Readings[x] # {}
ASSUME StartBoundsAssumption == MaxLearned \in Nat /\ MaxStops \in Nat

VARIABLES
    learned,     \* the state of the learning profile
    decisions,   \* m4_intent_decisions, by request key
    tasks,       \* m4_task_plans
    papers,      \* m8_assessment_papers, by task
    starts,      \* m0_assessment_runs: the start run of each task
    visit,       \* what each request has in hand
    answers,     \* pages students were sent to
    stops

startVars == <<learned, decisions, tasks, papers, starts, visit, answers, stops>>

Runs == INSTANCE RunRows WITH
    Checksums <- {}, Baselines <- {}, NoRef <- Nothing, NoOwner <- Nothing

Keys  == [form : Forms, text : Texts]
Tasks == [form : Forms, type : Types]

\* A NULL is no decision, no task, no paper and no run.
ASSUME NothingAssumption ==
    /\ Refused # Nothing /\ \A x \in Texts : Nothing \notin Readings[x]
    /\ Nothing \notin Tasks /\ Nothing \notin 0..MaxLearned
    /\ Nothing \notin [row : Runs!Rows(Tasks), paper : 0..MaxLearned]

Away == [at |-> "idle", key |-> Nothing, profile |-> 0, decision |-> Nothing,
         task |-> Nothing, paper |-> Nothing, holds |-> FALSE]

StartInit ==
    /\ learned = 0
    /\ decisions = [k \in Keys |-> Nothing]
    /\ tasks = {}
    /\ papers = [t \in Tasks |-> Nothing]
    /\ starts = [t \in Tasks |-> Nothing]
    /\ visit = [v \in Visitors |-> Away]
    /\ answers = {}
    /\ stops = 0

Go(v, at)         == visit' = [visit EXCEPT ![v].at = at]
Leave(v)          == visit' = [visit EXCEPT ![v] = Away]
CourseUnchanged   == UNCHANGED <<learned, stops>>
IntentUnchanged   == UNCHANGED <<decisions, tasks>>
PaperUnchanged    == UNCHANGED <<papers, starts, answers>>

-------------------------------------------------------------------------------
(* The view. *)

\* The form is posted; the request finds the active release.
Post(v, f, x) ==
    /\ visit[v] = Away
    /\ visit' = [visit EXCEPT ![v] = [Away EXCEPT !.at = "profile",
                                       !.key = [form |-> f, text |-> x]]]
    /\ CourseUnchanged /\ IntentUnchanged /\ PaperUnchanged

\* selection_context_for_learner: the profile as it is now.
ReadProfile(v) ==
    /\ visit[v].at = "profile"
    /\ visit' = [visit EXCEPT ![v].at = "intent", ![v].profile = learned]
    /\ CourseUnchanged /\ IntentUnchanged /\ PaperUnchanged

-------------------------------------------------------------------------------
(* m4: the decision and the task. *)

\* _resolve_persisted: a stored decision answers, a refusal for good.
Resolve(v, d) ==
    IF d = Refused THEN Leave(v)
    ELSE visit' = [visit EXCEPT ![v].at = "task", ![v].decision = Nothing,
                      ![v].task = [form |-> visit[v].key.form, type |-> d]]

FindDecision(v) ==
    LET d == decisions[visit[v].key]
    IN  /\ visit[v].at = "intent"
        /\ IF d = Nothing THEN Go(v, "decide") ELSE Resolve(v, d)
        /\ CourseUnchanged /\ IntentUnchanged /\ PaperUnchanged

\* The rules, or an adapter that need not answer twice alike.
Decide(v) ==
    /\ visit[v].at = "decide"
    /\ \E d \in Readings[visit[v].key.text] :
          visit' = [visit EXCEPT ![v].at = "store", ![v].decision = d]
    /\ CourseUnchanged /\ IntentUnchanged /\ PaperUnchanged

\* Mutant: a request goes on with its own decision.
WinnerOwn(stored, own) == own
\* insert_or_get_intent_decision: the first writer's decision.
Winner(stored, own) == IF stored = Nothing THEN own ELSE stored

StoreDecision(v) ==
    LET k == visit[v].key
    IN  /\ visit[v].at = "store"
        /\ decisions' = [decisions EXCEPT ![k] = IF @ = Nothing THEN visit[v].decision ELSE @]
        /\ Resolve(v, Winner(decisions[k], visit[v].decision))
        /\ CourseUnchanged /\ PaperUnchanged /\ UNCHANGED tasks

\* insert_or_get_task_plan.
SaveTask(v) ==
    /\ visit[v].at = "task"
    /\ tasks' = tasks \union {visit[v].task}
    /\ Go(v, "paper")
    /\ CourseUnchanged /\ PaperUnchanged /\ UNCHANGED decisions

-------------------------------------------------------------------------------
(* m8: the paper. *)

\* What the paper of a task depends on beside the release.
Generated(task, profile) == IF task.type \in ProfileBlind THEN 0 ELSE profile

NoPaper(v) ==
    /\ visit[v].at = "paper"
    /\ <<visit[v].task.type, visit[v].profile>> \in NoQuestions
    /\ Leave(v)
    /\ CourseUnchanged /\ IntentUnchanged /\ PaperUnchanged

\* insert_or_get_paper_record: another content under the same identity is an error.
StorePaper(v) ==
    LET t == visit[v].task  p == Generated(t, visit[v].profile)
    IN  /\ visit[v].at = "paper" /\ <<t.type, visit[v].profile>> \notin NoQuestions
        /\ papers' = [papers EXCEPT ![t] = IF @ = Nothing THEN p ELSE @]
        /\ IF papers[t] \in {Nothing, p}
           THEN visit' = [visit EXCEPT ![v].at = "record", ![v].paper = p]
           ELSE Leave(v)
        /\ CourseUnchanged /\ IntentUnchanged /\ UNCHANGED <<starts, answers>>

-------------------------------------------------------------------------------
(* The start run. *)

Row(t)        == starts[t].row
SetRow(t, r)  == starts' = [starts EXCEPT ![t].row = [r EXCEPT !.version = 1]]
Worker(t)     == t        \* every request of a start works as "start:<task>"
Now           == 1

Answer(v) ==
    /\ answers' = answers \union {[key |-> visit[v].key, task |-> visit[v].task, paper |-> visit[v].paper]}
    /\ Leave(v)

\* record_assessment_run: the row for these references, new or as it is found.
RecordStart(v) ==
    LET t == visit[v].task
    IN  /\ visit[v].at = "record"
        /\ starts' = [starts EXCEPT ![t] =
              IF @ = Nothing THEN [row |-> Runs!NewRow("start"), paper |-> visit[v].paper] ELSE @]
        /\ IF starts'[t].paper # visit[v].paper THEN Leave(v) /\ UNCHANGED answers
           ELSE IF starts'[t].row.status = "completed" THEN Answer(v)
           ELSE Go(v, "claim") /\ UNCHANGED answers
        /\ CourseUnchanged /\ IntentUnchanged /\ UNCHANGED papers

\* AssessmentRecovery.claim: a new run, or one whose lease has lapsed.
ClaimStart(v) ==
    LET t == visit[v].task
        Held(r) == /\ SetRow(t, r)
                   /\ visit' = [u \in Visitors |->
                         IF u = v THEN [visit[u] EXCEPT !.at = "advance", !.holds = TRUE]
                         ELSE [visit[u] EXCEPT !.holds = @ /\ visit[u].task # t]]
    IN  /\ visit[v].at = "claim"
        /\ \/ Runs!Claimable(Row(t)) /\ Held(Runs!Claimed("start", Row(t), Worker(t), 2))
           \/ Runs!Expired(Row(t), Now) /\ Held(Runs!Leased(Row(t), Worker(t), 2))
           \/ /\ ~Runs!Claimable(Row(t)) /\ ~Runs!Expired(Row(t), Now)
              /\ Leave(v) /\ UNCHANGED starts
        /\ CourseUnchanged /\ IntentUnchanged /\ UNCHANGED <<papers, answers>>

\* start always goes through task_saved, paper_saved and completed.
NextStep(at, row) ==
    [advance |-> "task_saved", save |-> "paper_saved", complete |-> "completed"][at]

AdvanceStart(v) ==
    LET t  == visit[v].task
        r  == Row(t)
        cp == NextStep(visit[v].at, r)
    IN  /\ visit[v].at \in {"advance", "save", "complete"}
        /\ IF /\ visit[v].holds /\ Runs!Live(r, Now)
              /\ Runs!CanAdvance("start", r, cp, Runs!NoRefs)
           THEN /\ SetRow(t, Runs!Advanced(r, cp, Runs!NoRefs))
                /\ IF cp = "completed" THEN Answer(v)
                   ELSE /\ Go(v, IF cp = "task_saved" THEN "save" ELSE "complete")
                        /\ UNCHANGED answers
           ELSE Leave(v) /\ UNCHANGED <<starts, answers>>
        /\ CourseUnchanged /\ IntentUnchanged /\ UNCHANGED papers

-------------------------------------------------------------------------------
(* Around the requests. *)

RequestUnchanged == IntentUnchanged /\ PaperUnchanged /\ UNCHANGED visit

\* The lease of a request that is dead lapses; that of one at work only when it stalls.
LeaseLapses(t) ==
    /\ starts[t] # Nothing /\ Runs!Live(Row(t), Now)
    /\ SetRow(t, [Row(t) EXCEPT !.lease = Now])
    /\ IF \E v \in Visitors : visit[v].holds /\ visit[v].task = t
       THEN stops < MaxStops /\ stops' = stops + 1 ELSE UNCHANGED stops
    /\ IntentUnchanged /\ UNCHANGED <<learned, visit, papers, answers>>

Stop(v) ==
    /\ visit[v] # Away /\ stops < MaxStops
    /\ stops' = stops + 1
    /\ Leave(v)
    /\ IntentUnchanged /\ PaperUnchanged /\ UNCHANGED learned

\* Another attempt of the student is projected.
Learn == /\ learned < MaxLearned /\ learned' = learned + 1
         /\ RequestUnchanged /\ UNCHANGED stops

StartStep(v) ==
    \/ ReadProfile(v) \/ FindDecision(v) \/ Decide(v) \/ StoreDecision(v) \/ SaveTask(v)
    \/ NoPaper(v) \/ StorePaper(v) \/ RecordStart(v) \/ ClaimStart(v) \/ AdvanceStart(v)

StartNext ==
    \/ \E v \in Visitors : \/ \E f \in Forms, x \in Texts : Post(v, f, x)
                           \/ StartStep(v) \/ Stop(v)
    \/ \E t \in Tasks : LeaseLapses(t)
    \/ Learn

\* Requests go on, leases lapse, and a form is posted again and again.
StartFairness ==
    /\ \A v \in Visitors : WF_startVars(StartStep(v))
    /\ \A t \in Tasks : WF_startVars(LeaseLapses(t))
    /\ \A f \in Forms, x \in Texts : SF_startVars(\E v \in Visitors : Post(v, f, x))

StartSpec == StartInit /\ [][StartNext]_startVars /\ StartFairness

-------------------------------------------------------------------------------
(* Properties. *)

\* Every variable keeps its shape.
StartTypeOK ==
    /\ learned \in 0..MaxLearned /\ stops \in 0..MaxStops
    /\ decisions \in [Keys -> Types \union {Refused, Nothing}]
    /\ tasks \subseteq Tasks
    /\ papers \in [Tasks -> 0..MaxLearned \union {Nothing}]
    /\ \A t \in Tasks : starts[t] # Nothing => Runs!ValidRow("start", Row(t))

\* Every page a student was sent to can be shown again (pending_assessment): its task
\* and paper are stored as they were, the run that names them is complete, and all
\* posts of one form came to the same page, however they overlapped, failed or saw
\* another profile.
AnswersRecoverable ==
    \A a \in answers :
        /\ a.task \in tasks /\ papers[a.task] = a.paper
        /\ starts[a.task].paper = a.paper /\ Row(a.task).status = "completed"
        /\ \A b \in answers : a.key = b.key => a = b

\* The application calls its use cases restart-safe: a form that is posted until it is
\* answered is answered, while the profile stays as it is.
FormsSettle ==
    \A f \in Forms, x \in Texts : <>(\E a \in answers : a.key.form = f /\ a.key.text = x)
=============================================================================
