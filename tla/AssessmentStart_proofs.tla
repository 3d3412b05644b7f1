----------------------- MODULE AssessmentStart_proofs -----------------------
(***************************************************************************)
(* What holds of the start of an assessment for any number of forms,       *)
(* requests and failures: what a form comes to is fixed step by step by    *)
(* the first request that stores it, so every page a student was sent to   *)
(* can be shown again and all posts of one form come to the same page.     *)
(***************************************************************************)
EXTENDS MCAssessmentRuns, AssessmentRuns_proofs

Steps == {"idle", "profile", "intent", "decide", "store", "task", "paper",
          "record", "claim", "advance", "save", "complete"}
Begun == [row : Runs!Rows(Tasks), paper : 0..MaxLearned]
Visits == [at : Steps, key : Keys \cup {Nothing}, profile : 0..MaxLearned,
           decision : Types \cup {Refused, Nothing}, task : Tasks \cup {Nothing},
           paper : 0..MaxLearned \cup {Nothing}, holds : BOOLEAN]
Answers == [key : Keys, task : Tasks, paper : 0..MaxLearned]

StoresType ==
    /\ learned \in 0..MaxLearned /\ stops \in 0..MaxStops
    /\ decisions \in [Keys -> Types \cup {Refused, Nothing}]
    /\ tasks \subseteq Tasks
    /\ papers \in [Tasks -> 0..MaxLearned \cup {Nothing}]
    /\ starts \in [Tasks -> Begun \cup {Nothing}]
    /\ answers \subseteq Answers

(* A start run is new, at work or complete, and always loads. *)
RowOK(r) ==
    /\ r.status \in {"pending", "running", "completed"}
    /\ r.checkpoint \in Runs!Checkpoints("start")
    /\ r.status = "pending" => r.checkpoint = "pending"
    /\ r.base = Nothing /\ ~r.policy
    /\ r.owner = Nothing <=> r.lease = 0

StartsOK == \A t \in Tasks : starts[t] # Nothing => RowOK(starts[t].row)

Late(at) == at \in {"claim", "advance", "save", "complete"}
Past(at) == at = "record" \/ Late(at)

(* What a request goes on with is what is stored. *)
VisitOK(r) ==
    /\ r.at # "idle" => r.key \in Keys
    /\ r.at = "store" => r.decision \in Readings[r.key.text]
    /\ r.at \in {"task", "paper"} \/ Past(r.at) =>
          /\ r.task \in Tasks
          /\ r.task.form = r.key.form /\ decisions[r.key] = r.task.type
    /\ r.at = "paper" \/ Past(r.at) => r.task \in tasks
    /\ Past(r.at) => r.paper \in 0..MaxLearned /\ papers[r.task] = r.paper
    /\ Late(r.at) => starts[r.task] # Nothing /\ starts[r.task].paper = r.paper

VisitsOK ==
    /\ visit \in [Visitors -> Visits]
    /\ \A v \in Visitors : VisitOK(visit[v])

(* What an answer names is stored and decided. *)
AnswerOK(a) ==
    /\ a.task.form = a.key.form /\ decisions[a.key] = a.task.type
    /\ a.task \in tasks /\ papers[a.task] = a.paper
    /\ starts[a.task] # Nothing /\ starts[a.task].paper = a.paper
    /\ starts[a.task].row.status = "completed"

AnswersOK == \A a \in answers : AnswerOK(a)

Inv == StoresType /\ StartsOK /\ VisitsOK /\ AnswersOK
-----------------------------------------------------------------------------
(* Nothing is stored twice. *)

LEMMA Nulls == /\ Nothing \notin Types /\ Nothing \notin Tasks /\ Nothing \notin 0..MaxLearned
               /\ Nothing \notin Begun /\ Refused # Nothing /\ Refused \notin Types
               /\ MaxLearned \in Nat /\ MaxStops \in Nat
BY NothingAssumption, StartBoundsAssumption, ReadingsAssumption DEF Types, Begun

Keep ==
    /\ \A k \in Keys : decisions[k] # Nothing => decisions'[k] = decisions[k]
    /\ tasks \subseteq tasks'
    /\ \A t \in Tasks : papers[t] # Nothing => papers'[t] = papers[t]
    /\ \A t \in Tasks : starts[t] # Nothing =>
          /\ starts'[t] # Nothing /\ starts'[t].paper = starts[t].paper
          /\ starts[t].row.status = "completed" => starts'[t].row.status = "completed"

LEMMA VisitKept == ASSUME StoresType, Keep, NEW r \in Visits, VisitOK(r) PROVE VisitOK(r)'
<1>1. ASSUME r.at \in {"task", "paper"} \/ Past(r.at)
      PROVE  r.task \in Tasks /\ r.task.form = r.key.form /\ decisions'[r.key] = r.task.type
  <2>1. r.task \in Tasks /\ r.task.form = r.key.form /\ decisions[r.key] = r.task.type /\ r.key \in Keys
    BY <1>1 DEF VisitOK, Past, Late
  <2>2. r.task.type \in Types
    BY <2>1 DEF Tasks
  <2> QED
    BY <2>1, <2>2, Nulls DEF Keep
<1>2. ASSUME r.at = "paper" \/ Past(r.at) PROVE r.task \in tasks'
  BY <1>2 DEF VisitOK, Keep
<1>3. ASSUME Past(r.at) PROVE r.paper \in 0..MaxLearned /\ papers'[r.task] = r.paper
  BY <1>1, <1>3, Nulls DEF VisitOK, Keep
<1>4. ASSUME Late(r.at) PROVE starts'[r.task] # Nothing /\ starts'[r.task].paper = r.paper
  BY <1>1, <1>4 DEF VisitOK, Keep, Past
<1> QED
  BY <1>1, <1>2, <1>3, <1>4 DEF VisitOK, Past, Late

LEMMA AnswerKept == ASSUME StoresType, Keep, NEW a \in Answers, AnswerOK(a) PROVE AnswerOK(a)'
<1>1. a.key \in Keys /\ a.task \in Tasks /\ a.paper \in 0..MaxLearned /\ a.task.type \in Types
  BY DEF Answers, Tasks
<1>2. decisions'[a.key] = decisions[a.key] /\ papers'[a.task] = papers[a.task]
  BY <1>1, Nulls DEF AnswerOK, Keep
<1> QED
  BY <1>1, <1>2 DEF AnswerOK, Keep

(* A step that stores nothing twice, of a request that goes on with what   *)
(* is stored.                                                              *)
LEMMA VisitMoves ==
  ASSUME Inv, StoresType', StartsOK', Keep, NEW v \in Visitors, NEW r \in Visits, VisitOK(r)',
         visit' = [visit EXCEPT ![v] = r],
         \A a \in answers' : a \in answers \/ AnswerOK(a)'
  PROVE  Inv'
<1>1. ASSUME NEW u \in Visitors PROVE VisitOK(visit[u])'
  <2>1. CASE u = v
    BY <2>1 DEF Inv, VisitsOK
  <2>2. CASE u # v
    <3>1. PICK l \in Visits : l = visit[u] /\ VisitOK(l) /\ l = visit'[u]
      BY <2>2 DEF Inv, VisitsOK
    <3>2. VisitOK(l)'
      BY <3>1, VisitKept DEF Inv
    <3> QED
      BY <3>1, <3>2
  <2> QED
    BY <2>1, <2>2
<1>2. AnswersOK'
  <2>1. ASSUME NEW a \in answers' PROVE AnswerOK(a)'
    <3>1. CASE a \in answers
      <4>1. a \in Answers /\ AnswerOK(a)
        BY <3>1 DEF Inv, StoresType, AnswersOK
      <4> QED
        BY <4>1, AnswerKept DEF Inv
    <3> QED
      BY <2>1, <3>1
  <2> QED
    BY <2>1 DEF AnswersOK
<1> QED
  BY <1>1, <1>2 DEF Inv, VisitsOK

LEMMA VisitsStill ==
  ASSUME Inv, StoresType', StartsOK', Keep, UNCHANGED <<visit, answers>> PROVE Inv'
<1>1. ASSUME NEW u \in Visitors PROVE VisitOK(visit[u])'
  <2>1. PICK l \in Visits : l = visit[u] /\ VisitOK(l) /\ l = visit'[u]
    BY DEF Inv, VisitsOK
  <2>2. VisitOK(l)'
    BY <2>1, VisitKept DEF Inv
  <2> QED
    BY <2>1, <2>2
<1>2. ASSUME NEW a \in answers' PROVE AnswerOK(a)'
  BY <1>2, AnswerKept DEF Inv, StoresType, AnswersOK
<1> QED
  BY <1>1, <1>2 DEF Inv, VisitsOK, AnswersOK

LEMMA StoresStill ==
  ASSUME Inv, UNCHANGED <<learned, decisions, tasks, papers, starts, answers, stops>>
  PROVE  StoresType' /\ StartsOK' /\ Keep
BY DEF Inv, StoresType, StartsOK, Keep

LEMMA AwayOK == Away \in Visits /\ VisitOK(Away) /\ VisitOK(Away)' /\ Away.at = "idle"
<1>1. Away \in Visits
  BY Nulls DEF Away, Visits, Steps
<1> QED
  BY <1>1 DEF Away, VisitOK, Past, Late

LEMMA Left ==
  ASSUME Inv, StoresType', StartsOK', Keep, NEW v \in Visitors, Leave(v),
         \A a \in answers' : a \in answers \/ AnswerOK(a)'
  PROVE  Inv'
BY AwayOK, VisitMoves DEF Leave

LEMMA InitOK == StartInit => Inv
<1> SUFFICES ASSUME StartInit PROVE Inv
  OBVIOUS
<1>1. StoresType
  BY Nulls DEF StartInit, StoresType
<1>2. VisitsOK
  BY AwayOK DEF StartInit, VisitsOK
<1> QED
  BY <1>1, <1>2 DEF StartInit, Inv, StartsOK, AnswersOK
-----------------------------------------------------------------------------
(* The view and m4. *)

LEMMA VisitOf ==
  ASSUME Inv, NEW v \in Visitors
  PROVE  visit[v] \in Visits /\ VisitOK(visit[v])
BY DEF Inv, VisitsOK

(* A request moves on without storing anything. *)
LEMMA VisitMoved ==
  ASSUME Inv, NEW v \in Visitors, NEW r \in Visits, VisitOK(r), visit' = [visit EXCEPT ![v] = r],
         UNCHANGED <<learned, decisions, tasks, papers, starts, answers, stops>>
  PROVE  Inv'
<1>1. StoresType' /\ StartsOK' /\ Keep
  BY StoresStill
<1>2. VisitOK(r)'
  BY <1>1, VisitKept DEF Inv
<1> QED
  BY <1>1, <1>2, VisitMoves

LEMMA Gone ==
  ASSUME Inv, NEW v \in Visitors, Leave(v),
         UNCHANGED <<learned, decisions, tasks, papers, starts, answers, stops>>
  PROVE  Inv'
BY AwayOK, VisitMoved DEF Leave

LEMMA PostOK ==
  ASSUME Inv, NEW v \in Visitors, NEW f \in Forms, NEW x \in Texts, Post(v, f, x) PROVE Inv'
<1>1. PICK r : r = [Away EXCEPT !.at = "profile", !.key = [form |-> f, text |-> x]]
  OBVIOUS
<1>2. r \in Visits
  BY <1>1, AwayOK DEF Visits, Steps, Keys
<1>3. r.at = "profile" /\ r.key \in Keys
  BY <1>1 DEF Away, Keys
<1>4. VisitOK(r)
  BY <1>3 DEF VisitOK, Past, Late
<1> QED
  BY <1>1, <1>2, <1>4, VisitMoved DEF Post, CourseUnchanged, IntentUnchanged, PaperUnchanged

LEMMA ReadProfileOK == ASSUME Inv, NEW v \in Visitors, ReadProfile(v) PROVE Inv'
<1>1. PICK l \in Visits : l = visit[v] /\ VisitOK(l)
  BY VisitOf
<1>2. PICK r : r = [l EXCEPT !.at = "intent", !.profile = learned]
  OBVIOUS
<1>3. r \in Visits /\ r.at = "intent" /\ r.key = l.key
  BY <1>1, <1>2 DEF Visits, Steps, Inv, StoresType
<1>4. VisitOK(r)
  BY <1>1, <1>3 DEF VisitOK, Past, Late, ReadProfile
<1>5. visit' = [visit EXCEPT ![v] = r]
  BY <1>1, <1>2 DEF ReadProfile, Inv, VisitsOK
<1> QED
  BY <1>3, <1>4, <1>5, VisitMoved DEF ReadProfile, CourseUnchanged, IntentUnchanged, PaperUnchanged

LEMMA DecideOK == ASSUME Inv, NEW v \in Visitors, Decide(v) PROVE Inv'
<1>1. PICK l \in Visits : l = visit[v] /\ VisitOK(l) /\ l.at = "decide" /\ l.key \in Keys
  BY VisitOf DEF Decide, VisitOK
<1>2. PICK d \in Readings[l.key.text] : visit' = [visit EXCEPT ![v].at = "store", ![v].decision = d]
  BY <1>1 DEF Decide
<1>3. d \in Types \cup {Refused}
  BY <1>1, <1>2 DEF Types, Keys
<1>4. PICK r : r = [l EXCEPT !.at = "store", !.decision = d]
  OBVIOUS
<1>5. r \in Visits /\ r.at = "store" /\ r.key = l.key /\ r.decision = d
  BY <1>1, <1>3, <1>4 DEF Visits, Steps
<1>6. VisitOK(r)
  BY <1>1, <1>2, <1>5 DEF VisitOK, Past, Late
<1>7. visit' = [visit EXCEPT ![v] = r]
  BY <1>1, <1>2, <1>4 DEF Inv, VisitsOK
<1> QED
  BY <1>5, <1>6, <1>7, VisitMoved DEF Decide, CourseUnchanged, IntentUnchanged, PaperUnchanged

(* A decision that is stored, taken up by its request. *)
LEMMA Resolved ==
  ASSUME NEW l \in Visits, NEW d \in Types, l.key \in Keys, decisions'[l.key] = d,
         NEW r, r = [l EXCEPT !.at = "task", !.decision = Nothing,
                         !.task = [form |-> l.key.form, type |-> d]]
  PROVE  r \in Visits /\ VisitOK(r)' /\ r.at = "task" /\ r.key = l.key
<1>1. PICK t : t = [form |-> l.key.form, type |-> d] /\ t \in Tasks
  <2>1. l.key.form \in Forms
    BY DEF Keys
  <2>2. [form |-> l.key.form, type |-> d] \in Tasks
    BY <2>1 DEF Tasks
  <2> QED
    BY <2>2
<1>2. r = [l EXCEPT !.at = "task", !.decision = Nothing, !.task = t]
  BY <1>1
<1>3. r \in Visits /\ r.at = "task" /\ r.key = l.key /\ r.task = t
  BY <1>1, <1>2 DEF Visits, Steps
<1>4. VisitOK(r)'
  BY <1>1, <1>3 DEF VisitOK, Past, Late
<1> QED
  BY <1>3, <1>4

LEMMA FindDecisionOK == ASSUME Inv, NEW v \in Visitors, FindDecision(v) PROVE Inv'
<1>1. PICK l \in Visits : l = visit[v] /\ VisitOK(l) /\ l.at = "intent" /\ l.key \in Keys
  BY VisitOf DEF FindDecision, VisitOK
<1>2. PICK d \in Types \cup {Refused, Nothing} : d = decisions[l.key]
  BY <1>1 DEF Inv, StoresType
<1>3. UNCHANGED <<learned, decisions, tasks, papers, starts, answers, stops>>
  BY DEF FindDecision, CourseUnchanged, IntentUnchanged, PaperUnchanged
<1>4. CASE d = Nothing
  <2>1. Go(v, "decide")
    BY <1>1, <1>2, <1>4 DEF FindDecision
  <2>2. PICK r : r = [l EXCEPT !.at = "decide"]
    OBVIOUS
  <2>3. r \in Visits /\ r.at = "decide" /\ r.key = l.key
    BY <2>2 DEF Visits, Steps
  <2>4. VisitOK(r)
    BY <1>1, <2>3 DEF VisitOK, Past, Late
  <2>5. visit' = [visit EXCEPT ![v] = r]
    BY <1>1, <2>1, <2>2 DEF Go, Inv, VisitsOK
  <2> QED
    BY <1>3, <2>3, <2>4, <2>5, VisitMoved
<1>5. CASE d = Refused
  <2>1. Leave(v)
    BY <1>1, <1>2, <1>5, Nulls DEF FindDecision, Resolve
  <2> QED
    BY <1>3, <2>1, Gone
<1>6. CASE d # Nothing /\ d # Refused
  <2>1. visit' = [visit EXCEPT ![v].at = "task", ![v].decision = Nothing,
                      ![v].task = [form |-> l.key.form, type |-> d]]
    BY <1>1, <1>2, <1>6 DEF FindDecision, Resolve
  <2>2. PICK r : r = [l EXCEPT !.at = "task", !.decision = Nothing,
                         !.task = [form |-> l.key.form, type |-> d]]
    OBVIOUS
  <2>3. r \in Visits /\ VisitOK(r)'
    BY <1>1, <1>2, <1>3, <1>6, <2>2, Resolved
  <2>4. visit' = [visit EXCEPT ![v] = r]
    BY <1>1, <2>1, <2>2 DEF Inv, VisitsOK
  <2> QED
    BY <1>3, <2>3, <2>4, StoresStill, VisitMoves
<1> QED
  BY <1>4, <1>5, <1>6

LEMMA StoreDecisionOK == ASSUME Inv, NEW v \in Visitors, StoreDecision(v) PROVE Inv'
<1>1. PICK l \in Visits : /\ l = visit[v] /\ l.at = "store" /\ l.key \in Keys
                          /\ l.decision \in Readings[l.key.text]
  BY VisitOf DEF StoreDecision, VisitOK
<1>2. PICK own \in Types \cup {Refused} : own = l.decision
  BY <1>1 DEF Types, Keys
<1>3. PICK d \in Types \cup {Refused} : d = Winner(decisions[l.key], own)
  <2>1. decisions[l.key] \in Types \cup {Refused, Nothing}
    BY <1>1 DEF Inv, StoresType
  <2> QED
    BY <1>2, <2>1 DEF Winner
<1>4. /\ decisions' = [decisions EXCEPT ![l.key] = d]
      /\ decisions[l.key] # Nothing => d = decisions[l.key]
  BY <1>1, <1>2, <1>3 DEF StoreDecision, Winner, Inv, StoresType
<1>5. UNCHANGED <<learned, tasks, papers, starts, answers, stops>>
  BY DEF StoreDecision, CourseUnchanged, PaperUnchanged
<1>6. StoresType' /\ StartsOK'
  BY <1>1, <1>4, <1>5 DEF Inv, StoresType, StartsOK
<1>7. Keep
  BY <1>1, <1>4, <1>5 DEF Inv, StoresType, Keep
<1>8. CASE d = Refused
  <2>1. Leave(v)
    BY <1>1, <1>2, <1>3, <1>8 DEF StoreDecision, Resolve
  <2> QED
    BY <1>5, <1>6, <1>7, <2>1, Left
<1>9. CASE d # Refused
  <2>1. visit' = [visit EXCEPT ![v].at = "task", ![v].decision = Nothing,
                      ![v].task = [form |-> l.key.form, type |-> d]]
    BY <1>1, <1>2, <1>3, <1>9 DEF StoreDecision, Resolve
  <2>2. PICK r : r = [l EXCEPT !.at = "task", !.decision = Nothing,
                         !.task = [form |-> l.key.form, type |-> d]]
    OBVIOUS
  <2>3. decisions'[l.key] = d
    BY <1>1, <1>4 DEF Inv, StoresType
  <2>4. r \in Visits /\ VisitOK(r)'
    BY <1>1, <1>9, <2>2, <2>3, Resolved
  <2>5. visit' = [visit EXCEPT ![v] = r]
    BY <1>1, <2>1, <2>2 DEF Inv, VisitsOK
  <2> QED
    BY <1>5, <1>6, <1>7, <2>4, <2>5, VisitMoves
<1> QED
  BY <1>8, <1>9

LEMMA SaveTaskOK == ASSUME Inv, NEW v \in Visitors, SaveTask(v) PROVE Inv'
<1>1. PICK l \in Visits : l = visit[v] /\ VisitOK(l) /\ l.at = "task"
  BY VisitOf DEF SaveTask
<1>2. l.task \in Tasks /\ l.key \in Keys /\ l.task.form = l.key.form
      /\ decisions[l.key] = l.task.type
  BY <1>1 DEF VisitOK
<1>3. PICK r : r = [l EXCEPT !.at = "paper"]
  OBVIOUS
<1>4. r \in Visits /\ r.at = "paper" /\ r.key = l.key /\ r.task = l.task
  BY <1>3 DEF Visits, Steps
<1>5. tasks' = tasks \cup {l.task} /\ UNCHANGED <<learned, decisions, papers, starts, answers, stops>>
  BY <1>1 DEF SaveTask, CourseUnchanged, PaperUnchanged
<1>6. StoresType' /\ StartsOK' /\ Keep
  BY <1>2, <1>5 DEF Inv, StoresType, StartsOK, Keep
<1>7. VisitOK(r)'
  BY <1>2, <1>4, <1>5 DEF VisitOK, Past, Late
<1>8. visit' = [visit EXCEPT ![v] = r]
  BY <1>1, <1>3 DEF SaveTask, Go, Inv, VisitsOK
<1> QED
  BY <1>4, <1>5, <1>6, <1>7, <1>8, VisitMoves
-----------------------------------------------------------------------------
(* m8: the paper. *)

LEMMA NoPaperOK == ASSUME Inv, NEW v \in Visitors, NoPaper(v) PROVE Inv'
BY Gone DEF NoPaper, CourseUnchanged, IntentUnchanged, PaperUnchanged

LEMMA StorePaperOK == ASSUME Inv, NEW v \in Visitors, StorePaper(v) PROVE Inv'
<1>1. PICK l \in Visits : l = visit[v] /\ VisitOK(l) /\ l.at = "paper"
  BY VisitOf DEF StorePaper
<1>2. l.task \in Tasks /\ l.key \in Keys /\ l.task.form = l.key.form
      /\ decisions[l.key] = l.task.type /\ l.task \in tasks
  BY <1>1 DEF VisitOK
<1>3. PICK p \in 0..MaxLearned : p = Generated(l.task, l.profile)
  BY Nulls DEF Generated, Visits
<1>4. papers' = [papers EXCEPT ![l.task] = IF @ = Nothing THEN p ELSE @]
  BY <1>1, <1>3 DEF StorePaper
<1>5. UNCHANGED <<learned, decisions, tasks, starts, answers, stops>>
  BY DEF StorePaper, CourseUnchanged, IntentUnchanged
<1>6. StoresType' /\ StartsOK'
  BY <1>2, <1>4, <1>5 DEF Inv, StoresType, StartsOK
<1>7. Keep
  BY <1>2, <1>4, <1>5 DEF Inv, StoresType, Keep
<1>8. CASE papers[l.task] \in {Nothing, p}
  <2>1. PICK r : r = [l EXCEPT !.at = "record", !.paper = p]
    OBVIOUS
  <2>2. visit' = [visit EXCEPT ![v] = r]
    BY <1>1, <1>3, <1>8, <2>1 DEF StorePaper, Inv, VisitsOK
  <2>3. r \in Visits /\ r.at = "record" /\ r.key = l.key /\ r.task = l.task /\ r.paper = p
    BY <1>3, <2>1 DEF Visits, Steps
  <2>4. papers'[l.task] = p
    BY <1>2, <1>4, <1>8 DEF Inv, StoresType
  <2>5. VisitOK(r)'
    BY <1>2, <1>3, <1>5, <2>3, <2>4 DEF VisitOK, Past, Late
  <2> QED
    BY <1>5, <1>6, <1>7, <2>2, <2>3, <2>5, VisitMoves
<1>9. CASE papers[l.task] \notin {Nothing, p}
  <2>1. Leave(v)
    BY <1>1, <1>3, <1>9 DEF StorePaper
  <2> QED
    BY <1>5, <1>6, <1>7, <2>1, Left
<1> QED
  BY <1>8, <1>9
-----------------------------------------------------------------------------
(* The start run. *)

Chain == {"pending", "claimed", "task_saved", "paper_saved", "completed"}

LEMMA StartChain ==
  /\ Runs!Checkpoints("start") = Chain
  /\ Runs!After["start"]["pending"] = "claimed"
BY DEF Runs!Checkpoints, Runs!After, Chain

LEMMA RowTyped ==
  ASSUME NEW r \in Runs!Rows(Tasks), RowOK(r) PROVE Runs!ValidRow("start", r)
BY DEF RowOK, Runs!ValidRow, Runs!CompletedRefsPresent

(* A row is written over the one before it: the paper it names stays. *)
LEMMA RowWritten ==
  ASSUME Inv, NEW t \in Tasks, starts[t] # Nothing, NEW r \in Runs!Rows(Tasks), RowOK(r),
         starts[t].row.status # "completed", SetRow(t, r),
         UNCHANGED <<learned, decisions, tasks, papers>>, stops' \in 0..MaxStops,
         answers' \subseteq Answers
  PROVE  /\ StoresType' /\ StartsOK' /\ Keep
         /\ starts'[t] # Nothing /\ starts'[t].paper = starts[t].paper
         /\ starts'[t].row.status = r.status
<1>1. PICK b \in Begun : b = starts[t]
  BY DEF Inv, StoresType
<1>2. PICK k : k = [r EXCEPT !.version = 1]
  OBVIOUS
<1>3. /\ k \in Runs!Rows(Tasks) /\ k.status = r.status /\ k.checkpoint = r.checkpoint
      /\ k.base = r.base /\ k.policy = r.policy /\ k.owner = r.owner /\ k.lease = r.lease
  BY <1>2 DEF Runs!Rows
<1>4. PICK c : c = [b EXCEPT !.row = k]
  OBVIOUS
<1>5. c \in Begun /\ c.row = k /\ c.paper = b.paper
  BY <1>1, <1>3, <1>4 DEF Begun
<1>6. starts' = [starts EXCEPT ![t] = c]
  BY <1>1, <1>2, <1>4 DEF SetRow, Inv, StoresType
<1>7. RowOK(k)
  BY <1>3 DEF RowOK
<1>8. StoresType'
  BY <1>5, <1>6 DEF Inv, StoresType
<1>9. \A u \in Tasks : starts'[u] = IF u = t THEN c ELSE starts[u]
  BY <1>6 DEF Inv, StoresType
<1>10. StartsOK'
  BY <1>5, <1>7, <1>9 DEF Inv, StartsOK
<1>11. c # Nothing
  BY <1>5, Nulls
<1>12. Keep
  BY <1>1, <1>5, <1>9, <1>11 DEF Keep
<1> QED
  BY <1>1, <1>3, <1>5, <1>8, <1>9, <1>10, <1>11, <1>12

LEMMA NewRowOK ==
  /\ Runs!NewRow("start") \in Runs!Rows(Tasks) /\ RowOK(Runs!NewRow("start"))
<1>1. PICK r : r = Runs!NewRow("start")
  OBVIOUS
<1>2. r = [checkpoint |-> "pending", status |-> "pending", version |-> 1,
           owner |-> Nothing, lease |-> 0, scoring |-> Nothing, stateV |-> 0,
           feedback |-> FALSE, report |-> FALSE, frozen |-> "unset",
           base |-> Nothing, policy |-> FALSE, deps |-> TRUE]
  BY <1>1 DEF Runs!NewRow
<1>3. "pending" \in Runs!AllCheckpoints /\ "pending" \in Runs!Statuses
  BY StartChain DEF Runs!AllCheckpoints, Runs!Kinds, Chain, Runs!Statuses
<1>4. r \in Runs!Rows(Tasks)
  BY <1>2, <1>3 DEF Runs!Rows
<1>5. RowOK(r)
  BY <1>2, StartChain DEF RowOK, Chain
<1> QED
  BY <1>1, <1>4, <1>5

(* What a request has in hand once its paper is stored. *)
LEMMA PastOf ==
  ASSUME Inv, NEW v \in Visitors, Past(visit[v].at)
  PROVE  \E l \in Visits :
            /\ l = visit[v] /\ VisitOK(l) /\ l.key \in Keys /\ l.task \in Tasks
            /\ l.task.form = l.key.form /\ decisions[l.key] = l.task.type
            /\ l.task \in tasks /\ l.paper \in 0..MaxLearned /\ papers[l.task] = l.paper
            /\ Late(l.at) => starts[l.task] # Nothing /\ starts[l.task].paper = l.paper
<1>1. PICK l \in Visits : l = visit[v] /\ VisitOK(l) /\ Past(l.at)
  BY VisitOf
<1> QED
  BY <1>1 DEF VisitOK, Past, Late

(* The request answers, with a run that is complete. *)
LEMMA AnsweredOK ==
  ASSUME Inv, StartsOK', Keep, NEW v \in Visitors, NEW l \in Visits, l = visit[v], VisitOK(l),
         Past(l.at), Answer(v), UNCHANGED <<learned, decisions, tasks, papers, stops>>,
         starts' \in [Tasks -> Begun \cup {Nothing}],
         starts'[l.task] # Nothing, starts'[l.task].paper = l.paper,
         starts'[l.task].row.status = "completed"
  PROVE  Inv'
<1>1. PICK a : a = [key |-> l.key, task |-> l.task, paper |-> l.paper]
  OBVIOUS
<1>2. /\ l.key \in Keys /\ l.task \in Tasks /\ l.task.form = l.key.form
      /\ decisions[l.key] = l.task.type /\ l.task \in tasks
      /\ l.paper \in 0..MaxLearned /\ papers[l.task] = l.paper
  BY DEF VisitOK, Past, Late
<1>3. a \in Answers /\ AnswerOK(a)'
  BY <1>1, <1>2 DEF Answers, AnswerOK
<1>4. answers' = answers \cup {a}
  BY <1>1 DEF Answer
<1>5. StoresType'
  BY <1>3, <1>4 DEF Inv, StoresType
<1> QED
  BY <1>3, <1>4, <1>5, Left DEF Answer

LEMMA RecordStartOK == ASSUME Inv, NEW v \in Visitors, RecordStart(v) PROVE Inv'
<1>1. PICK l \in Visits :
            /\ l = visit[v] /\ VisitOK(l) /\ l.at = "record" /\ l.key \in Keys /\ l.task \in Tasks
            /\ l.paper \in 0..MaxLearned
  BY PastOf DEF RecordStart, Past
<1>2. PICK b : b = [row |-> Runs!NewRow("start"), paper |-> l.paper]
  OBVIOUS
<1>3. b \in Begun /\ RowOK(b.row) /\ b # Nothing
  BY <1>1, <1>2, NewRowOK, Nulls DEF Begun
<1>4. starts' = [starts EXCEPT ![l.task] = IF @ = Nothing THEN b ELSE @]
  BY <1>1, <1>2 DEF RecordStart
<1>5. PICK c \in Begun : c = starts'[l.task] /\ c # Nothing
  BY <1>1, <1>3, <1>4, Nulls DEF Inv, StoresType
<1>6. UNCHANGED <<learned, decisions, tasks, papers, stops>>
  BY DEF RecordStart, CourseUnchanged, IntentUnchanged
<1>7. starts' \in [Tasks -> Begun \cup {Nothing}]
  BY <1>1, <1>3, <1>4 DEF Inv, StoresType
<1>8. StartsOK'
  BY <1>1, <1>3, <1>4 DEF Inv, StoresType, StartsOK
<1>9. Keep
  BY <1>1, <1>3, <1>4, <1>6 DEF Inv, StoresType, Keep
<1>10. answers' = answers => StoresType'
  BY <1>6, <1>7 DEF Inv, StoresType
<1>11. CASE c.paper # l.paper
  <2>1. Leave(v) /\ answers' = answers
    BY <1>1, <1>5, <1>11 DEF RecordStart
  <2> QED
    BY <1>8, <1>9, <1>10, <2>1, Left
<1>12. CASE c.paper = l.paper /\ c.row.status = "completed"
  <2>1. Answer(v)
    BY <1>1, <1>5, <1>12 DEF RecordStart
  <2> QED
    BY <1>1, <1>5, <1>6, <1>7, <1>8, <1>9, <1>12, <2>1, AnsweredOK DEF Past
<1>13. CASE c.paper = l.paper /\ c.row.status # "completed"
  <2>1. Go(v, "claim") /\ answers' = answers
    BY <1>1, <1>5, <1>13 DEF RecordStart
  <2>2. PICK r : r = [l EXCEPT !.at = "claim"]
    OBVIOUS
  <2>3. r \in Visits /\ r.at = "claim" /\ r.key = l.key /\ r.task = l.task /\ r.paper = l.paper
    BY <2>2 DEF Visits, Steps
  <2>4. VisitOK(l)'
    BY <1>1, <1>9, VisitKept DEF Inv
  <2>5. VisitOK(r)'
    BY <1>1, <1>5, <1>13, <2>3, <2>4 DEF VisitOK, Past, Late
  <2>6. visit' = [visit EXCEPT ![v] = r]
    BY <1>1, <2>1, <2>2 DEF Go, Inv, VisitsOK
  <2> QED
    BY <1>8, <1>9, <1>10, <2>1, <2>3, <2>5, <2>6, VisitMoves
<1> QED
  BY <1>11, <1>12, <1>13

(* A run that is claimed, or taken over, is at work. *)
LEMMA ClaimedOK ==
  ASSUME NEW r \in Runs!Rows(Tasks), RowOK(r), NEW t \in Tasks, Runs!Claimable(r)
  PROVE  /\ Runs!Claimed("start", r, t, 2) \in Runs!Rows(Tasks) /\ RowOK(Runs!Claimed("start", r, t, 2))
         /\ r.status # "completed"
<1>1. r.status = "pending" /\ r.checkpoint = "pending" /\ t # Nothing
  BY Nulls DEF RowOK, Runs!Claimable
<1>2. PICK k : k = Runs!Claimed("start", r, t, 2)
  OBVIOUS
<1>3. PICK n \in Nat \ {0} :
          k = [r EXCEPT !.version = n, !.owner = t, !.lease = 2,
                        !.status = "running", !.checkpoint = "claimed"]
  <2>1. k = [r EXCEPT !.version = r.version + 1, !.owner = t, !.lease = 2,
                      !.status = "running", !.checkpoint = "claimed"]
    BY <1>1, <1>2, StartChain DEF Runs!Claimed, Runs!Leased, Runs!Bump, Runs!Rows
  <2>2. r.version + 1 \in Nat \ {0}
    BY DEF Runs!Rows
  <2> QED
    BY <2>1, <2>2
<1>4. "claimed" \in Runs!AllCheckpoints /\ "running" \in Runs!Statuses
  BY StartChain DEF Runs!AllCheckpoints, Runs!Kinds, Chain, Runs!Statuses
<1>5. k \in Runs!Rows(Tasks) /\ k.owner = t /\ k.lease = 2 /\ k.status = "running"
      /\ k.checkpoint = "claimed" /\ k.base = r.base /\ k.policy = r.policy
  BY <1>3, <1>4 DEF Runs!Rows
<1>6. RowOK(k)
  BY <1>1, <1>5, StartChain DEF RowOK, Chain
<1> QED
  BY <1>1, <1>2, <1>5, <1>6

LEMMA LeasedOK ==
  ASSUME NEW r \in Runs!Rows(Tasks), RowOK(r), NEW t \in Tasks, Runs!Expired(r, Now)
  PROVE  /\ Runs!Leased(r, t, 2) \in Runs!Rows(Tasks) /\ RowOK(Runs!Leased(r, t, 2))
         /\ r.status # "completed"
<1>1. r.status = "running" /\ t # Nothing
  BY Nulls DEF Runs!Expired
<1>2. PICK k : k = Runs!Leased(r, t, 2)
  OBVIOUS
<1>3. PICK n \in Nat \ {0} : k = [r EXCEPT !.version = n, !.owner = t, !.lease = 2]
  <2>1. k = [r EXCEPT !.version = r.version + 1, !.owner = t, !.lease = 2]
    BY <1>2 DEF Runs!Leased, Runs!Bump, Runs!Rows
  <2>2. r.version + 1 \in Nat \ {0}
    BY DEF Runs!Rows
  <2> QED
    BY <2>1, <2>2
<1>4. k \in Runs!Rows(Tasks) /\ k.owner = t /\ k.lease = 2 /\ k.status = r.status
      /\ k.checkpoint = r.checkpoint /\ k.base = r.base /\ k.policy = r.policy
  BY <1>3 DEF Runs!Rows
<1>5. RowOK(k)
  BY <1>1, <1>4 DEF RowOK
<1> QED
  BY <1>1, <1>2, <1>4, <1>5

(* The request that claims goes on; whoever held the run holds it no more. *)
LEMMA HeldOK ==
  ASSUME Inv, NEW v \in Visitors, visit[v].at = "claim", StoresType', StartsOK', Keep,
         answers' = answers,
         visit' = [u \in Visitors |->
                         IF u = v THEN [visit[u] EXCEPT !.at = "advance", !.holds = TRUE]
                         ELSE [visit[u] EXCEPT !.holds = @ /\ visit[u].task # visit[v].task]]
  PROVE  Inv'
<1>1. ASSUME NEW u \in Visitors PROVE visit'[u] \in Visits /\ VisitOK(visit[u])'
  <2>1. PICK l \in Visits : l = visit[u] /\ VisitOK(l)
    BY VisitOf
  <2>2. VisitOK(l)'
    BY <2>1, VisitKept DEF Inv
  <2>3. CASE u = v
    <3>1. PICK r : r = [l EXCEPT !.at = "advance", !.holds = TRUE] /\ r = visit'[u]
      BY <2>1, <2>3
    <3>2. r \in Visits /\ r.at = "advance" /\ r.key = l.key /\ r.task = l.task /\ r.paper = l.paper
      BY <3>1 DEF Visits, Steps
    <3>3. l.at = "claim"
      BY <2>1, <2>3
    <3>4. VisitOK(r)'
      BY <2>2, <3>2, <3>3 DEF VisitOK, Past, Late
    <3> QED
      BY <3>1, <3>2, <3>4
  <2>4. CASE u # v
    <3>1. PICK h \in BOOLEAN : h = (l.holds /\ l.task # visit[v].task)
      OBVIOUS
    <3>2. PICK r : r = [l EXCEPT !.holds = h] /\ r = visit'[u]
      BY <2>1, <2>4, <3>1
    <3>3. /\ r \in Visits /\ r.at = l.at /\ r.key = l.key /\ r.task = l.task /\ r.paper = l.paper
          /\ r.decision = l.decision
      BY <3>2 DEF Visits
    <3>4. VisitOK(r)'
      BY <2>2, <3>3 DEF VisitOK, Past, Late
    <3> QED
      BY <3>2, <3>3, <3>4
  <2> QED
    BY <2>3, <2>4
<1>2. visit' \in [Visitors -> Visits]
  BY <1>1
<1>3. ASSUME NEW a \in answers' PROVE AnswerOK(a)'
  BY <1>3, AnswerKept DEF Inv, StoresType, AnswersOK
<1> QED
  BY <1>1, <1>2, <1>3 DEF Inv, VisitsOK, AnswersOK

LEMMA ClaimStartOK == ASSUME Inv, NEW v \in Visitors, ClaimStart(v) PROVE Inv'
<1>1. PICK l \in Visits :
            /\ l = visit[v] /\ VisitOK(l) /\ l.at = "claim" /\ l.task \in Tasks
            /\ starts[l.task] # Nothing
  <2>1. visit[v].at = "claim"
    BY Zenon DEF ClaimStart
  <2> QED
    BY <2>1, PastOf DEF Past, Late
<1>2. PICK b \in Begun : b = starts[l.task] /\ RowOK(b.row) /\ b.row = Row(l.task)
  BY <1>1 DEF Inv, StoresType, StartsOK, Row
<1>3. b.row \in Runs!Rows(Tasks)
  BY DEF Begun
<1>4. UNCHANGED <<learned, decisions, tasks, papers, stops, answers>>
  BY DEF ClaimStart, CourseUnchanged, IntentUnchanged
<1>5. answers' \subseteq Answers /\ stops' \in 0..MaxStops
  BY <1>4 DEF Inv, StoresType
<1>6. ASSUME NEW r \in Runs!Rows(Tasks), RowOK(r), b.row.status # "completed",
             SetRow(l.task, r),
             visit' = [u \in Visitors |->
                         IF u = v THEN [visit[u] EXCEPT !.at = "advance", !.holds = TRUE]
                         ELSE [visit[u] EXCEPT !.holds = @ /\ visit[u].task # l.task]]
      PROVE  Inv'
  <2>1. StoresType' /\ StartsOK' /\ Keep
    BY <1>1, <1>2, <1>4, <1>5, <1>6, RowWritten
  <2> QED
    BY <1>1, <1>4, <1>6, <2>1, HeldOK
<1>7. \/ /\ Runs!Claimable(b.row) /\ SetRow(l.task, Runs!Claimed("start", b.row, l.task, 2))
         /\ visit' = [u \in Visitors |->
                         IF u = v THEN [visit[u] EXCEPT !.at = "advance", !.holds = TRUE]
                         ELSE [visit[u] EXCEPT !.holds = @ /\ visit[u].task # l.task]]
      \/ /\ Runs!Expired(b.row, Now) /\ SetRow(l.task, Runs!Leased(b.row, l.task, 2))
         /\ visit' = [u \in Visitors |->
                         IF u = v THEN [visit[u] EXCEPT !.at = "advance", !.holds = TRUE]
                         ELSE [visit[u] EXCEPT !.holds = @ /\ visit[u].task # l.task]]
      \/ Leave(v) /\ UNCHANGED starts
  <2>1. b.row = Row(visit[v].task) /\ l.task = visit[v].task
    BY <1>1, <1>2
  <2>2. \/ /\ Runs!Claimable(Row(visit[v].task))
           /\ SetRow(visit[v].task,
                     Runs!Claimed("start", Row(visit[v].task), visit[v].task, 2))
           /\ visit' = [u \in Visitors |->
                           IF u = v THEN [visit[u] EXCEPT !.at = "advance", !.holds = TRUE]
                           ELSE [visit[u] EXCEPT !.holds = @ /\ visit[u].task # visit[v].task]]
        \/ /\ Runs!Expired(Row(visit[v].task), Now)
           /\ SetRow(visit[v].task, Runs!Leased(Row(visit[v].task), visit[v].task, 2))
           /\ visit' = [u \in Visitors |->
                           IF u = v THEN [visit[u] EXCEPT !.at = "advance", !.holds = TRUE]
                           ELSE [visit[u] EXCEPT !.holds = @ /\ visit[u].task # visit[v].task]]
        \/ Leave(v) /\ UNCHANGED starts
    BY Zenon DEF ClaimStart, Worker
  <2> QED
    BY <2>1, <2>2
<1>8. ASSUME Runs!Claimable(b.row), SetRow(l.task, Runs!Claimed("start", b.row, l.task, 2)),
             visit' = [u \in Visitors |->
                         IF u = v THEN [visit[u] EXCEPT !.at = "advance", !.holds = TRUE]
                         ELSE [visit[u] EXCEPT !.holds = @ /\ visit[u].task # l.task]]
      PROVE  Inv'
  <2>1. PICK r \in Runs!Rows(Tasks) :
            /\ r = Runs!Claimed("start", b.row, l.task, 2) /\ RowOK(r) /\ b.row.status # "completed"
    BY <1>1, <1>2, <1>3, <1>8, ClaimedOK
  <2>2. SetRow(l.task, r)
    BY <1>8, <2>1
  <2> QED
    BY <1>6, <1>8, <2>1, <2>2
<1>9. ASSUME Runs!Expired(b.row, Now), SetRow(l.task, Runs!Leased(b.row, l.task, 2)),
             visit' = [u \in Visitors |->
                         IF u = v THEN [visit[u] EXCEPT !.at = "advance", !.holds = TRUE]
                         ELSE [visit[u] EXCEPT !.holds = @ /\ visit[u].task # l.task]]
      PROVE  Inv'
  <2>1. PICK r \in Runs!Rows(Tasks) :
            /\ r = Runs!Leased(b.row, l.task, 2) /\ RowOK(r) /\ b.row.status # "completed"
    BY <1>1, <1>2, <1>3, <1>9, LeasedOK
  <2>2. SetRow(l.task, r)
    BY <1>9, <2>1
  <2> QED
    BY <1>6, <1>9, <2>1, <2>2
<1>10. ASSUME Leave(v), UNCHANGED starts PROVE Inv'
  BY <1>4, <1>10, Gone
<1> QED
  BY <1>7, <1>8, <1>9, <1>10

LEMMA NextStepOK ==
  ASSUME NEW at \in {"advance", "save", "complete"}, NEW row
  PROVE  /\ NextStep(at, row) \in Chain \ {"pending"}
         /\ NextStep(at, row) = "completed" <=> at = "complete"
         /\ NextStep(at, row) = "task_saved" <=> at = "advance"
BY DEF NextStep, Chain

LEMMA AdvancedOK ==
  ASSUME NEW r \in Runs!Rows(Tasks), RowOK(r), r.owner # Nothing, NEW cp \in Chain \ {"pending"}
  PROVE  /\ Runs!Advanced(r, cp, Runs!NoRefs) \in Runs!Rows(Tasks)
         /\ RowOK(Runs!Advanced(r, cp, Runs!NoRefs))
         /\ cp = "completed" => Runs!Advanced(r, cp, Runs!NoRefs).status = "completed"
<1> DEFINE c == Runs!Advanced(r, cp, Runs!NoRefs)
           refs == Runs!NoRefs
           done == cp = "completed"
           status == IF done THEN "completed" ELSE "running"
           owner == IF done THEN Nothing ELSE r.owner
           lease == IF done THEN 0 ELSE r.lease
           scoring == Runs!Pick(refs.scoring, Nothing, r.scoring)
           stateV == Runs!Pick(refs.stateV, 0, r.stateV)
           feedback == r.feedback \/ refs.feedback
           report == r.report \/ refs.report
           frozen == IF refs.frozen THEN "frozen" ELSE r.frozen
           base == Runs!Pick(refs.base, Nothing, r.base)
           policy == r.policy \/ refs.policy
<1>1. /\ refs.scoring = Nothing /\ refs.stateV = 0 /\ refs.base = Nothing
      /\ ~refs.frozen /\ ~refs.policy
  BY DEF Runs!NoRefs
<1>2. /\ status \in Runs!Statuses /\ owner \in Tasks \cup {Nothing} /\ lease \in Nat
      /\ scoring \in {} \cup {Nothing} /\ stateV \in Nat
      /\ frozen \in {"unset", "open", "frozen"} /\ base \in {} \cup {Nothing}
  BY <1>1 DEF Runs!Rows, Runs!Pick, Runs!Statuses
<1>3. feedback \in BOOLEAN /\ report \in BOOLEAN /\ policy \in BOOLEAN
  OBVIOUS
<1>4. base = r.base /\ ~policy
  BY <1>1 DEF RowOK, Runs!Pick
<1>5. /\ status = "completed" <=> cp = "completed"
      /\ status \in {"running", "completed"}
      /\ owner = Nothing <=> lease = 0
  BY DEF RowOK
<1>6. cp \in Runs!AllCheckpoints /\ cp \in Runs!Checkpoints("start")
  BY StartChain DEF Runs!AllCheckpoints, Runs!Kinds
<1>7. c = [Runs!Bump(r) EXCEPT !.checkpoint = cp, !.status = status, !.owner = owner, !.lease = lease,
             !.scoring = scoring, !.stateV = stateV, !.feedback = feedback, !.report = report,
             !.frozen = frozen, !.base = base, !.policy = policy]
  BY DEF Runs!Advanced, Runs!Bump, Runs!Rows
<1> HIDE DEF c, status, owner, lease, scoring, stateV, feedback, report, frozen, base, policy
<1>8. PICK up \in Runs!Rows(Tasks) : up = Runs!Bump(r)
  <2>1. PICK n \in Nat \ {0} : n = r.version + 1
    BY DEF Runs!Rows
  <2>2. [r EXCEPT !.version = n] \in Runs!Rows(Tasks)
    BY DEF Runs!Rows
  <2> QED
    BY <2>1, <2>2 DEF Runs!Bump
<1> HIDE DEF refs, done
<1>9. /\ c \in Runs!Rows(Tasks) /\ c.owner = owner /\ c.lease = lease /\ c.status = status
      /\ c.checkpoint = cp /\ c.base = base /\ c.policy = policy
  <2>1. c = [up EXCEPT !.checkpoint = cp, !.status = status, !.owner = owner, !.lease = lease,
               !.scoring = scoring, !.stateV = stateV, !.feedback = feedback, !.report = report,
               !.frozen = frozen, !.base = base, !.policy = policy]
    BY <1>7, <1>8
  <2>2. c.owner = owner /\ c.lease = lease /\ c.status = status
    BY <2>1 DEF Runs!Rows
  <2>3. c.checkpoint = cp /\ c.base = base /\ c.policy = policy
    BY <2>1 DEF Runs!Rows
  <2>4. PICK n \in Nat \ {0}, deps \in BOOLEAN : n = up.version /\ deps = up.deps
    BY DEF Runs!Rows
  <2>5. c = [checkpoint |-> cp, status |-> status, version |-> n, owner |-> owner, lease |-> lease,
               scoring |-> scoring, stateV |-> stateV, feedback |-> feedback, report |-> report,
               frozen |-> frozen, base |-> base, policy |-> policy, deps |-> deps]
    BY <2>1, <2>4 DEF Runs!Rows
  <2>6. c \in Runs!Rows(Tasks)
    BY <1>2, <1>3, <1>6, <2>5 DEF Runs!Rows
  <2> QED
    BY <2>2, <2>3, <2>6
<1>10. RowOK(c)
  BY <1>4, <1>5, <1>6, <1>9 DEF RowOK
<1> QED
  BY <1>5, <1>9, <1>10 DEF c

LEMMA AdvanceStartOK == ASSUME Inv, NEW v \in Visitors, AdvanceStart(v) PROVE Inv'
<1>1. PICK l \in Visits :
            /\ l = visit[v] /\ VisitOK(l) /\ l.at \in {"advance", "save", "complete"}
            /\ l.task \in Tasks /\ starts[l.task] # Nothing /\ starts[l.task].paper = l.paper
  BY PastOf DEF AdvanceStart, Past, Late
<1>2. PICK b \in Begun : b = starts[l.task] /\ RowOK(b.row) /\ b.row = Row(l.task)
  BY <1>1 DEF Inv, StoresType, StartsOK, Row
<1>3. b.row \in Runs!Rows(Tasks)
  BY DEF Begun
<1>4. PICK cp : cp = NextStep(l.at, b.row)
  OBVIOUS
<1>5. UNCHANGED <<learned, decisions, tasks, papers, stops>>
  BY DEF AdvanceStart, CourseUnchanged, IntentUnchanged
<1>6. CASE Leave(v) /\ UNCHANGED <<starts, answers>>
  BY <1>5, <1>6, Gone
<1>7. CASE /\ Runs!Live(b.row, Now) /\ Runs!CanAdvance("start", b.row, cp, Runs!NoRefs)
           /\ SetRow(l.task, Runs!Advanced(b.row, cp, Runs!NoRefs))
           /\ IF cp = "completed" THEN Answer(v)
              ELSE /\ Go(v, IF cp = "task_saved" THEN "save" ELSE "complete")
                   /\ UNCHANGED answers
  <2>1. b.row.owner # Nothing /\ b.row.status # "completed"
    BY <1>7 DEF Runs!Live
  <2>2. cp \in Chain \ {"pending"}
    BY <1>1, <1>4, NextStepOK
  <2>3. PICK r \in Runs!Rows(Tasks) :
            /\ r = Runs!Advanced(b.row, cp, Runs!NoRefs) /\ RowOK(r)
            /\ cp = "completed" => r.status = "completed"
    BY <1>2, <1>3, <2>1, <2>2, AdvancedOK
  <2>4. answers' \subseteq Answers \/ answers' = answers
    <3>1. CASE cp = "completed"
      <4>1. l.key \in Keys /\ l.paper \in 0..MaxLearned
        BY <1>1 DEF VisitOK, Past, Late
      <4>2. [key |-> l.key, task |-> l.task, paper |-> l.paper] \in Answers
        BY <1>1, <4>1 DEF Answers
      <4> QED
        BY <1>1, <1>7, <3>1, <4>2 DEF Answer, Inv, StoresType
    <3> QED
      BY <1>7, <3>1
  <2>5. answers' \subseteq Answers /\ stops' \in 0..MaxStops
    BY <1>5, <2>4 DEF Inv, StoresType
  <2>6. /\ StoresType' /\ StartsOK' /\ Keep
        /\ starts'[l.task] # Nothing /\ starts'[l.task].paper = l.paper
        /\ starts'[l.task].row.status = r.status
    BY <1>1, <1>2, <1>5, <1>7, <2>1, <2>3, <2>5, RowWritten
  <2>7. CASE cp = "completed"
    <3>1. Answer(v) /\ starts' \in [Tasks -> Begun \cup {Nothing}] /\ Past(l.at)
      BY <1>1, <1>7, <2>6, <2>7 DEF StoresType, Past, Late
    <3> QED
      BY <1>1, <1>5, <2>3, <2>6, <2>7, <3>1, AnsweredOK
  <2>8. CASE cp # "completed"
    <3>1. PICK at \in {"save", "complete"} : Go(v, at) /\ UNCHANGED answers
      BY <1>7, <2>8
    <3>2. PICK k : k = [l EXCEPT !.at = at]
      OBVIOUS
    <3>3. k \in Visits /\ k.at = at /\ k.key = l.key /\ k.task = l.task /\ k.paper = l.paper
      BY <3>2 DEF Visits, Steps
    <3>4. VisitOK(l)'
      BY <1>1, <2>6, VisitKept DEF Inv
    <3>5. VisitOK(k)'
      BY <1>1, <3>3, <3>4 DEF VisitOK, Past, Late
    <3>6. visit' = [visit EXCEPT ![v] = k]
      BY <1>1, <3>1, <3>2 DEF Go, Inv, VisitsOK
    <3> QED
      BY <2>6, <3>1, <3>3, <3>5, <3>6, VisitMoves
  <2> QED
    BY <2>7, <2>8
<1> QED
  BY <1>1, <1>2, <1>4, <1>6, <1>7 DEF AdvanceStart
-----------------------------------------------------------------------------
LEMMA LeaseLapsesOK == ASSUME Inv, NEW t \in Tasks, LeaseLapses(t) PROVE Inv'
<1>1. PICK b \in Begun : b = starts[t] /\ RowOK(b.row) /\ b.row = Row(t) /\ starts[t] # Nothing
  BY DEF LeaseLapses, Inv, StoresType, StartsOK, Row
<1>2. PICK row \in Runs!Rows(Tasks) : row = b.row
  BY DEF Begun
<1>3. PICK r : r = [row EXCEPT !.lease = Now]
  OBVIOUS
<1>4. row.status = "running" /\ row.owner # Nothing
  BY <1>1, <1>2 DEF LeaseLapses, Runs!Live
<1>5. r \in Runs!Rows(Tasks) /\ r.lease = 1 /\ r.owner = row.owner /\ r.status = row.status
      /\ r.checkpoint = row.checkpoint /\ r.base = row.base /\ r.policy = row.policy
  BY <1>3 DEF Runs!Rows, Now
<1>6. RowOK(r)
  BY <1>1, <1>2, <1>4, <1>5 DEF RowOK
<1>7. SetRow(t, r) /\ UNCHANGED <<learned, decisions, tasks, papers, answers, visit>>
  BY <1>1, <1>2, <1>3 DEF LeaseLapses, IntentUnchanged
<1>8. stops' \in 0..MaxStops /\ answers' \subseteq Answers
  BY <1>7, Nulls DEF LeaseLapses, Inv, StoresType
<1>9. StoresType' /\ StartsOK' /\ Keep
  BY <1>1, <1>2, <1>4, <1>5, <1>6, <1>7, <1>8, RowWritten
<1> QED
  BY <1>7, <1>9, VisitsStill

LEMMA StopOK == ASSUME Inv, NEW v \in Visitors, Stop(v) PROVE Inv'
<1>1. StoresType' /\ StartsOK' /\ Keep
  BY Nulls DEF Stop, Inv, StoresType, StartsOK, Keep, IntentUnchanged, PaperUnchanged
<1> QED
  BY <1>1, Left DEF Stop, PaperUnchanged

LEMMA LearnOK == ASSUME Inv, Learn PROVE Inv'
<1>1. StoresType' /\ StartsOK' /\ Keep
  BY Nulls DEF Learn, Inv, StoresType, StartsOK, Keep, RequestUnchanged, IntentUnchanged, PaperUnchanged
<1> QED
  BY <1>1, VisitsStill DEF Learn, RequestUnchanged, PaperUnchanged

LEMMA StutterOK == ASSUME Inv, UNCHANGED startVars PROVE Inv'
BY StoresStill, VisitsStill DEF startVars

LEMMA NextOK == Inv /\ [StartNext]_startVars => Inv'
BY PostOK, ReadProfileOK, FindDecisionOK, DecideOK, StoreDecisionOK, SaveTaskOK, NoPaperOK,
   StorePaperOK, RecordStartOK, ClaimStartOK, AdvanceStartOK, StopOK, LeaseLapsesOK, LearnOK,
   StutterOK DEF StartNext, StartStep

LEMMA Invariance == StartSpec => []Inv
BY InitOK, NextOK, PTL DEF StartSpec

LEMMA Shaped == Inv => StartTypeOK
<1>1. ASSUME Inv, NEW t \in Tasks, starts[t] # Nothing PROVE Runs!ValidRow("start", Row(t))
  <2>1. PICK b \in Begun : b = starts[t] /\ RowOK(b.row)
    BY <1>1 DEF Inv, StoresType, StartsOK
  <2>2. PICK r \in Runs!Rows(Tasks) : r = b.row /\ r = Row(t)
    BY <2>1 DEF Begun, Row
  <2> QED
    BY <2>1, <2>2, RowTyped
<1> QED
  BY <1>1 DEF Inv, StoresType, StartTypeOK

(* Every variable keeps its shape, and every start run can be loaded.      *)
THEOREM StartTyping == StartSpec => []StartTypeOK
BY Shaped, Invariance, PTL

(* insert_or_get_intent_decision, insert_or_get_task_plan, the immutable   *)
(* paper and the run named by its references make every answered page      *)
(* recoverable, and all posts of a form come to the same page.             *)
THEOREM PagesRecoverable == StartSpec => []AnswersRecoverable
<1>1. ASSUME Inv, NEW a \in answers, NEW b \in answers, a.key = b.key PROVE a = b
  <2>1. a \in Answers /\ b \in Answers /\ AnswerOK(a) /\ AnswerOK(b)
    BY <1>1 DEF Inv, StoresType, AnswersOK
  <2>2. a.task.form = b.task.form /\ a.task.type = b.task.type
    BY <1>1, <2>1 DEF AnswerOK
  <2>3. a.task = b.task
    BY <2>1, <2>2 DEF Answers, Tasks
  <2>4. a.paper = b.paper
    BY <2>1, <2>3 DEF AnswerOK
  <2> QED
    BY <1>1, <2>1, <2>3, <2>4 DEF Answers
<1>2. Inv => AnswersRecoverable
  BY <1>1 DEF Inv, AnswersOK, AnswerOK, AnswersRecoverable, Row
<1> QED
  BY <1>2, Invariance, PTL

-----------------------------------------------------------------------------
(* The store of the runs and the start of an assessment, side by side. *)

LEMMA EachUse == RunsSpec => Spec /\ []Inv
<1>1. RunsInit => Init /\ StartInit
  BY DEF RunsInit
<1>2. [RunsNext]_<<part, vars, startVars>> => [Next]_vars /\ [StartNext]_startVars
  BY DEF RunsNext
<1> QED
  BY <1>1, <1>2, InitOK, NextOK, PTL DEF RunsSpec, Spec

(* The rows of a run and what a start stores keep their types, whichever of *)
(* the two uses of a lease is at work.                                      *)
THEOREM RunsTyping == RunsSpec => []RunsTypeOK
<1>1. TypeOK /\ StartTypeOK => RunsTypeOK
  BY DEF RunsTypeOK
<1> QED
  BY <1>1, EachUse, Typing, Shaped, PTL
=============================================================================
