--------------------------- MODULE LearningProfile ---------------------------
(***************************************************************************)
(* The learning profile of one student in one class: the concept counters  *)
(* and the ledger of wrong questions, both derived in                      *)
(* django_app/learning_projection.py from the scoring results of finished  *)
(* attempts.  A web request obtains a result first (by submitting, by      *)
(* reviewing and reading back, or by viewing) and projects it afterwards,  *)
(* in transactions of its own; other requests may project newer results of *)
(* the same attempt in between, and any request may fail at any step.      *)
(***************************************************************************)
EXTENDS Integers, Sequences, FiniteSets, FiniteSetsExt

CONSTANTS
    Attempts,      \* diagnostic and stage-assessment attempts of the student
    Items,         \* questions
    Concepts,      \* knowledge concepts
    ItemsOf,       \* the questions of each attempt's paper
    ConceptsOf,    \* the concepts of each question
    Requests,      \* web requests that can be at work at once
    MaxResults,    \* bound: scoring results of all attempts
    MaxPractice,   \* bound: correction papers
    MaxWithdrawn   \* bound: questions that later releases leave out

ASSUME PapersAssumption ==
    /\ ItemsOf \in [Attempts -> SUBSET Items]
    /\ \A a \in Attempts : IsFiniteSet(ItemsOf[a])
ASSUME ConceptsAssumption == ConceptsOf \in [Items -> SUBSET Concepts]

VARIABLES
    scores,      \* per attempt, the results m8 has stored: question -> outcome
    receipt,     \* AssessmentProjectionReceipt: the result the profile reflects, 0 for none
    applied,     \* attempts in the order of their receipts
    mastery,     \* LearnerConceptMastery: [attempted, correct]
    ledger,      \* WrongQuestionRecord: [status, latest, follow]
    queue,       \* SuggestedTeacherReviewCase: questions waiting for the teacher
    practice,    \* correction papers: the wrong question each was made for
    offered,     \* questions of the release the class works with
    request      \* what each request holds

profileVars == <<scores, receipt, applied, mastery, ledger, queue, practice, offered, request>>

-------------------------------------------------------------------------------
Outcomes == {"right", "wrong", "pending"}
WrongStatuses == {"unknown", "open", "resolved", "retired"}
Unknown  == [status |-> "unknown", latest |-> <<>>, follow |-> 0]
Waiting  == [at |-> "idle", attempt |-> <<>>, result |-> 0]

ProfileInit ==
    /\ scores = [a \in Attempts |-> <<>>]
    /\ receipt = [a \in Attempts |-> 0]
    /\ applied = <<>>
    /\ mastery = [c \in Concepts |-> [attempted |-> 0, correct |-> 0]]
    /\ ledger = [i \in Items |-> Unknown]
    /\ queue = [a \in Attempts |-> {}]
    /\ practice = <<>>
    /\ offered = Items
    /\ request = [r \in Requests |-> Waiting]

Newest(a) == Len(scores[a])
Results   == MapThenSumSet(Newest, Attempts)
\* requires_teacher_review or has_rejected_score
Final(a, n) == \A i \in ItemsOf[a] : scores[a][n][i] # "pending"

ProfileUnchanged == UNCHANGED <<receipt, applied, mastery, ledger>>
OutsideUnchanged == UNCHANGED <<scores, practice, offered>>

-------------------------------------------------------------------------------
(* How a request comes by a result. *)

Hold(r, a, n) == request' = [request EXCEPT ![r] = [at |-> "sync", attempt |-> a, result |-> n]]

\* submit: the response carries the result it has just stored.
Submit(r, a) ==
    /\ request[r] = Waiting /\ scores[a] = <<>> /\ Results < MaxResults
    /\ \E outcome \in [ItemsOf[a] -> Outcomes] : scores' = [scores EXCEPT ![a] = <<outcome>>]
    /\ Hold(r, a, 1)
    /\ ProfileUnchanged /\ UNCHANGED <<queue, practice, offered>>

\* review and item_rescore decide one question; the context is read again afterwards.
Review(r, a) ==
    /\ request[r] = Waiting /\ scores[a] # <<>> /\ Results < MaxResults
    /\ \E i \in ItemsOf[a], o \in {"right", "wrong"} :
          scores' = [scores EXCEPT ![a] = Append(@, [@[Len(@)] EXCEPT ![i] = o])]
    /\ request' = [request EXCEPT ![r] = [at |-> "read", attempt |-> a, result |-> 0]]
    /\ ProfileUnchanged /\ UNCHANGED <<queue, practice, offered>>

ReadContext(r) ==
    /\ request[r].at = "read"
    /\ Hold(r, request[r].attempt, Newest(request[r].attempt))
    /\ ProfileUnchanged /\ OutsideUnchanged /\ UNCHANGED queue

\* result: a student views an attempt; one that waits for the teacher goes no further.
View(r, a) ==
    /\ request[r] = Waiting /\ scores[a] # <<>> /\ Final(a, Newest(a))
    /\ Hold(r, a, Newest(a))
    /\ ProfileUnchanged /\ OutsideUnchanged /\ UNCHANGED queue

\* A lock, a constraint or the database ends the request; its transaction is undone.
RequestFails(r) ==
    /\ request[r] # Waiting
    /\ request' = [request EXCEPT ![r] = Waiting]
    /\ ProfileUnchanged /\ OutsideUnchanged /\ UNCHANGED queue

\* sync_suggested_review_case: the open questions of the result the request holds.
SyncSuggestedReview(r) ==
    LET a == request[r].attempt  n == request[r].result
    IN  /\ request[r].at = "sync"
        /\ queue' = [queue EXCEPT ![a] = {i \in ItemsOf[a] : scores[a][n][i] = "pending"}]
        /\ request' = [request EXCEPT ![r].at = "project"]
        /\ ProfileUnchanged /\ OutsideUnchanged

-------------------------------------------------------------------------------
(* The projection. *)

Correct(a, n, i) == scores[a][n][i] = "right"

\* _increment_mastery over a paper: every question counts once for each of its concepts.
Tested(a, c) == {i \in ItemsOf[a] : c \in ConceptsOf[i]}
Incremented(in, a, n) ==
    [c \in Concepts |->
        [attempted |-> in[c].attempted + Cardinality(Tested(a, c)),
         correct   |-> in[c].correct + Cardinality({i \in Tested(a, c) : Correct(a, n, i)})]]

\* _revise_mastery: only the difference between the two results.
Gained(a, c, old, new) ==
    Cardinality({i \in Tested(a, c) : Correct(a, new, i) /\ ~Correct(a, old, i)})
\* Mutant: the difference is taken with the wrong sign.
RevisedBackwards(in, a, old, new) ==
    [c \in Concepts |-> [in[c] EXCEPT !.correct = @ + Gained(a, c, new, old) - Gained(a, c, old, new)]]
Revised(in, a, old, new) ==
    [c \in Concepts |-> [in[c] EXCEPT !.correct = @ + Gained(a, c, old, new) - Gained(a, c, new, old)]]

\* _record_profile_wrong: a new wrong answer opens the question again.
Opened(row, a) == [row EXCEPT !.status = "open", !.latest = a]

\* _resolve_revised_profile_wrong: only the attempt that opened a question last closes it.
\* Mutant: a revised question stays as it is.
ClosedNever(row, a) == row
Closed(row, a) ==
    IF row.status # "unknown" /\ row.latest = a THEN [row EXCEPT !.status = "resolved"] ELSE row

Marked(in, a, n) ==
    [i \in Items |-> IF i \in ItemsOf[a] /\ ~Correct(a, n, i) THEN Opened(in[i], a) ELSE in[i]]

Remarked(in, a, old, new) ==
    [i \in Items |->
        CASE i \in ItemsOf[a] /\ Correct(a, old, i) /\ ~Correct(a, new, i) -> Opened(in[i], a)
          [] i \in ItemsOf[a] /\ ~Correct(a, old, i) /\ Correct(a, new, i) -> Closed(in[i], a)
          [] OTHER -> in[i]]

Done(r) == request' = [request EXCEPT ![r] = Waiting]

\* A result that is not final, or that the profile reflects already, changes nothing.
ProjectNothing(r) ==
    LET a == request[r].attempt  n == request[r].result
    IN  /\ request[r].at = "project"
        /\ ~Final(a, n) \/ receipt[a] = n
        /\ Done(r)
        /\ ProfileUnchanged /\ OutsideUnchanged /\ UNCHANGED queue

\* No receipt yet: it is inserted last, and inserting it twice is an error.
FindsNoReceipt(r) ==
    LET a == request[r].attempt
    IN  /\ request[r].at = "project" /\ Final(a, request[r].result) /\ receipt[a] = 0
        /\ request' = [request EXCEPT ![r].at = "insert"]
        /\ ProfileUnchanged /\ OutsideUnchanged /\ UNCHANGED queue

\* Mutant: the receipt is not unique for its attempt.
MayInsertAgain(a) == TRUE
MayInsert(a) == receipt[a] = 0

ProjectFirst(r) ==
    LET a == request[r].attempt  n == request[r].result
    IN  /\ request[r].at = "insert" /\ MayInsert(a)
        /\ mastery' = Incremented(mastery, a, n)
        /\ ledger' = Marked(ledger, a, n)
        /\ receipt' = [receipt EXCEPT ![a] = n]
        /\ applied' = Append(applied, a)
        /\ Done(r)
        /\ OutsideUnchanged /\ UNCHANGED queue

\* A receipt of another result: the difference is applied, newer or not.
ProjectRevision(r) ==
    LET a == request[r].attempt  n == request[r].result  old == receipt[a]
    IN  /\ request[r].at = "project" /\ Final(a, n) /\ old \notin {0, n}
        /\ mastery' = Revised(mastery, a, old, n)
        /\ ledger' = Remarked(ledger, a, old, n)
        /\ receipt' = [receipt EXCEPT ![a] = n]
        /\ Done(r)
        /\ OutsideUnchanged /\ UNCHANGED <<queue, applied>>

\* The second insertion of a receipt is refused and its transaction undone.
InsertRefused(r) ==
    /\ request[r].at = "insert" /\ ~MayInsert(request[r].attempt)
    /\ Done(r)
    /\ ProfileUnchanged /\ OutsideUnchanged /\ UNCHANGED queue

-------------------------------------------------------------------------------
(* Corrections. *)

PracticeUnchanged == UNCHANGED <<scores, receipt, applied, mastery, queue, request>>

\* follow_up: a correction paper for one open question, linked to its row.
FollowUp(i) ==
    /\ Len(practice) < MaxPractice /\ ledger[i].status = "open"
    /\ practice' = Append(practice, [item |-> i, answer |-> "none"])
    /\ ledger' = [ledger EXCEPT ![i].follow = Len(practice')]
    /\ PracticeUnchanged /\ UNCHANGED offered

\* selection_context_for_learner: questions no longer offered are retired first,
\* then a correction paper may be made of the ones still open; it is linked to none.
StartAssessment(i) ==
    /\ Len(practice) < MaxPractice
    /\ ledger' = [j \in Items |-> IF ledger[j].status = "open" /\ j \notin offered
                                  THEN [ledger[j] EXCEPT !.status = "retired"] ELSE ledger[j]]
    /\ practice' = IF ledger'[i].status = "open"
                   THEN Append(practice, [item |-> i, answer |-> "none"]) ELSE practice
    /\ PracticeUnchanged /\ UNCHANGED offered

\* record_finalized_correction: the row linked to this paper, or linked to none.
Resolved(row, p) ==
    IF row.status = "open" /\ row.follow \in {0, p}
    THEN [row EXCEPT !.status = "resolved", !.follow = 0] ELSE row

AnswerPractice(p, answer) ==
    /\ practice[p].answer = "none"
    /\ practice' = [practice EXCEPT ![p].answer = answer]
    /\ ledger' = IF answer = "right" THEN [ledger EXCEPT ![practice[p].item] = Resolved(@, p)]
                 ELSE ledger
    /\ PracticeUnchanged /\ UNCHANGED offered

\* Viewing the result records it again and purges the paper.
ViewPractice(p) ==
    /\ practice[p].answer \in {"right", "wrong"}
    /\ practice' = [practice EXCEPT ![p].answer = "purged"]
    /\ ledger' = IF practice[p].answer = "right"
                 THEN [ledger EXCEPT ![practice[p].item] = Resolved(@, p)] ELSE ledger
    /\ PracticeUnchanged /\ UNCHANGED offered

\* A release that no longer holds a question.
Withdraw(i) ==
    /\ i \in offered /\ Cardinality(Items \ offered) < MaxWithdrawn
    /\ offered' = offered \ {i}
    /\ PracticeUnchanged /\ UNCHANGED <<ledger, practice>>

-------------------------------------------------------------------------------
(* rebuild_authoritative_profile_state: everything anew from the receipts. *)

Preserved(row, before) ==
    IF row.status = "open" /\ before.status = "resolved" THEN [row EXCEPT !.status = "resolved"]
    ELSE row

\* The rows anew after the first n receipts, in the order they were applied.
Replayed ==
    LET rows[n \in 0..Len(applied)] ==
          IF n = 0 THEN [mastery |-> [c \in Concepts |-> [attempted |-> 0, correct |-> 0]],
                         ledger  |-> [i \in Items |-> Unknown]]
          ELSE LET a == applied[n]
               IN  [mastery |-> Incremented(rows[n - 1].mastery, a, receipt[a]),
                    ledger  |-> Marked(rows[n - 1].ledger, a, receipt[a])]
    IN  rows[Len(applied)]

Rebuild ==
    /\ applied # <<>>
    /\ mastery' = Replayed.mastery
    /\ ledger' = [i \in Items |-> Preserved(Replayed.ledger[i], ledger[i])]
    /\ UNCHANGED <<scores, receipt, applied, queue, practice, offered, request>>

-------------------------------------------------------------------------------
Project(r) == ProjectNothing(r) \/ FindsNoReceipt(r) \/ ProjectFirst(r) \/ InsertRefused(r) \/ ProjectRevision(r)

ProfileNext ==
    \/ \E r \in Requests :
          \/ \E a \in Attempts : Submit(r, a) \/ Review(r, a) \/ View(r, a)
          \/ ReadContext(r) \/ SyncSuggestedReview(r) \/ Project(r) \/ RequestFails(r)
    \/ \E i \in Items : FollowUp(i) \/ StartAssessment(i) \/ Withdraw(i)
    \/ \E p \in DOMAIN practice : \/ \E answer \in {"right", "wrong"} : AnswerPractice(p, answer)
                                  \/ ViewPractice(p)
    \/ Rebuild

ProfileSpec == ProfileInit /\ [][ProfileNext]_profileVars

-------------------------------------------------------------------------------
(* Properties. *)

\* Every variable keeps its shape; a counter never falls below zero or counts
\* more correct answers than questions, and a request holds a result that exists.
ProfileTypeOK ==
    /\ DOMAIN scores = Attempts /\ \A a \in Attempts : scores[a] \in Seq([ItemsOf[a] -> Outcomes])
    /\ receipt \in [Attempts -> Nat] /\ \A a \in Attempts : receipt[a] <= Newest(a)
    /\ applied \in Seq(Attempts)
    /\ mastery \in [Concepts -> [attempted : Nat, correct : Nat]]
    /\ \A c \in Concepts : mastery[c].correct <= mastery[c].attempted
    /\ ledger \in [Items -> [status : WrongStatuses, latest : Attempts \cup {<<>>}, follow : Nat]]
    /\ \A i \in Items : ledger[i].follow <= Len(practice)
    /\ queue \in [Attempts -> SUBSET Items] /\ offered \subseteq Items
    /\ practice \in Seq([item : Items, answer : {"none", "right", "wrong", "purged"}])
    /\ request \in [Requests -> [at : {"idle", "read", "sync", "project", "insert"},
                                 attempt : Attempts \cup {<<>>}, result : Nat]]
    /\ \A r \in Requests : request[r].at \in {"sync", "project", "insert"} =>
          request[r].attempt \in Attempts /\ request[r].result \in 1..Newest(request[r].attempt)

Projected == {a \in Attempts : receipt[a] # 0}

\* The answers the profile reflects that count for a concept, and the correct ones.
Answered(c)      == {p \in Projected \X Items : p[2] \in Tested(p[1], c)}
AnsweredRight(c) == {p \in Answered(c) : Correct(p[1], receipt[p[1]], p[2])}

\* The counters of every concept are those of the results the profile reflects,
\* whatever was projected twice, late, out of order, revised or rebuilt.
CountersMatchReceipts ==
    \A c \in Concepts :
        mastery[c] = [attempted |-> Cardinality(Answered(c)), correct |-> Cardinality(AnsweredRight(c))]

\* The ledger of wrong questions agrees with the receipts: a question answered
\* wrong in a reflected result has a row, and a row that asks for a correction
\* names an attempt in which the question is still wrong.
LedgerMatchesReceipts ==
    \A i \in Items :
        /\ \A a \in Projected : i \in ItemsOf[a] /\ ~Correct(a, receipt[a], i) =>
              ledger[i].status # "unknown"
        /\ ledger[i].status = "open" =>
              LET a == ledger[i].latest
              IN  a \in Projected /\ i \in ItemsOf[a] /\ ~Correct(a, receipt[a], i)

\* Counters and ledger together are a function of the results reflected.
ProfileMatchesReceipts == CountersMatchReceipts /\ LedgerMatchesReceipts
=============================================================================
