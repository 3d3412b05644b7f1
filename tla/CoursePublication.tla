------------------------- MODULE CoursePublication -------------------------
(***************************************************************************)
(* How a course reaches PostgreSQL: initialize_course imports the package  *)
(* (M1), builds the vector index in staging and makes it ready (M2) and    *)
(* publishes the knowledge bundle (M3), which needs a teacher's approval   *)
(* where the service demands one.  The review is drafted, submitted,       *)
(* decided and recalled by other requests meanwhile.                       *)
(*                                                                         *)
(* One course package identity is modelled.  Every transaction is one      *)
(* action, except for those of several statements between which another    *)
(* transaction may come: the publication of an approved bundle and the     *)
(* transitions of a review run under the advisory lock of the review, and  *)
(* the cleanup of a failed build deletes the documents and the row of the  *)
(* index by two statements at READ COMMITTED, without any lock before the  *)
(* first.                                                                  *)
(***************************************************************************)
EXTENDS Integers, Sequences, FiniteSets

CONSTANTS
    Callers,          \* threads of the API that run a request
    Contents,         \* contents of the course files, by checksum
    Seeds,            \* captured seed snapshots, by checksum; all of them
                      \* claim the same bundle identity
    ValidSeeds,       \* the snapshots the validation accepts
    Reviews,          \* identities of teacher reviews
    Batches,          \* batches of vectors an index is written in
    Settings,         \* the configurations: vector or lexical index, approval
                      \* required or not, and the bound on review calls
    MaxCourses,       \* bound: course requests that pass the import
    MaxKills,         \* bound: requests cut off by a dead process
    Nothing           \* an absent row, or no review

ASSUME PublicationAssumption ==
    /\ ValidSeeds \subseteq Seeds
    /\ Batches \in Nat \ {0}
    /\ Settings \subseteq [vectors : BOOLEAN, required : BOOLEAN, calls : Nat]
    /\ MaxCourses \in Nat
    /\ MaxKills \in Nat
    /\ Nothing \notin Contents \cup Seeds \cup Reviews \cup Callers

VARIABLES
    package,   \* the course_import row of M1
    index,     \* the vector index as it is committed: its status,
               \* and of which content each batch was written
    bundle,    \* the knowledge_bundle row of M3
    rejected,  \* seeds whose rejected validation is stored
    review,    \* the review rows
    setting,   \* the configuration the services were started with
    lock,      \* who holds the advisory lock of a review
    call,      \* what each caller is doing
    courses,   \* course requests so far
    reviewing, \* drafts and transitions so far
    kills      \* requests cut off so far

publicationVars ==
    <<package, index, bundle, rejected, review, setting, lock, call,
      courses, reviewing, kills>>

counters == <<courses, reviewing, kills>>

ReviewStates == {"draft", "submitted", "approved", "rejected", "recalled"}

(* The states an action of the workflow may leave, by the state it reaches. *)
AllowedFrom ==
    [submitted |-> {"draft"}, approved |-> {"submitted"},
     rejected |-> {"submitted"}, recalled |-> {"approved", "rejected"}]

Record == [seed : Seeds, state : ReviewStates, version : 1..4]

Idle == [step |-> "idle", content |-> Nothing, seed |-> Nothing,
         review |-> Nothing, version |-> 0, target |-> Nothing, added |-> 0,
         deleted |-> {}]

Steps == {"idle", "begin", "add", "publish", "discard", "drop", "knowledge",
          "verify", "lock", "save", "commit", "insert", "swap"}

PublicationTypeOK ==
    /\ package \in Contents \cup {Nothing}
    /\ index \in [status : {"none", "staging", "ready"},
                  rows : [1..Batches -> Contents \cup {Nothing}]]
    /\ bundle \in Seeds \cup {Nothing}
    /\ rejected \subseteq Seeds \ ValidSeeds
    /\ review \in [Reviews -> Record \cup {Nothing}]
    /\ setting \in Settings
    /\ lock \in [Reviews -> Callers \cup {Nothing}]
    /\ call \in [Callers ->
            [step : Steps, content : Contents \cup {Nothing},
             seed : Seeds \cup {Nothing}, review : Reviews \cup {Nothing},
             version : 0..4, target : DOMAIN AllowedFrom \cup {Nothing},
             added : 0..Batches, deleted : SUBSET (1..Batches)]]

NoRows == [b \in 1..Batches |-> Nothing]

PublicationInit ==
    /\ package = Nothing
    /\ index = [status |-> "none", rows |-> NoRows]
    /\ bundle = Nothing
    /\ rejected = {}
    /\ review = [r \in Reviews |-> Nothing]
    /\ setting \in Settings
    /\ lock = [r \in Reviews |-> Nothing]
    /\ call = [c \in Callers |-> Idle]
    /\ courses = 0
    /\ reviewing = 0
    /\ kills = 0

-----------------------------------------------------------------------------
(* Bookkeeping of a request. *)

At(c, step) == call[c].step = step

Goto(c, step) == call' = [call EXCEPT ![c].step = step]

(* The request is answered, with a result or an error. *)
Answer(c) == call' = [call EXCEPT ![c] = Idle]

NewCourse(c) ==
    /\ At(c, "idle")
    /\ courses < MaxCourses
    /\ courses' = courses + 1

NewReviewCall(c) ==
    /\ At(c, "idle")
    /\ reviewing < setting.calls
    /\ reviewing' = reviewing + 1

CanLockAlways(r) == TRUE

CanLock(r) == lock[r] = Nothing

(* The lock belongs to the transaction: its commit drops it, and so does   *)
(* its rollback after an error or with a dead connection.                  *)
Released(c) == [r \in Reviews |-> IF lock[r] = c THEN Nothing ELSE lock[r]]

RolledBackOnly(c) == lock

RolledBack(c) == Released(c)

-----------------------------------------------------------------------------
(* M1 and M2. *)

(* _insert_or_replay of the package: an equal row is a replay. *)
CanImport(content) == package \in {Nothing, content}

(* initialize_course; an import of another content under the identity is   *)
(* refused and changes nothing.  Review and version are given together; no *)
(* version but 3 can be an approved one.                                   *)
RequestCourse(c) ==
    /\ NewCourse(c)
    /\ \E content \in Contents, seed \in Seeds :
       \E r \in Reviews \cup {Nothing} :
       \E v \in IF r = Nothing THEN {0} ELSE {3} :
          /\ CanImport(content)
          /\ package' = content
          /\ call' = [call EXCEPT ![c] =
                 [Idle EXCEPT !.step = "begin", !.content = content,
                              !.seed = seed, !.review = r, !.version = v]]
    /\ UNCHANGED <<index, bundle, rejected, review, setting, lock,
                   reviewing, kills>>

(* build_index stores the lexical index in one statement; equal packages   *)
(* have equal lexical indexes, so the second caller replays it.            *)
BuildLexical(c) ==
    /\ At(c, "begin")
    /\ ~setting.vectors
    /\ index' = [status |-> "ready",
                  rows |-> [b \in 1..Batches |-> call[c].content]]
    /\ Goto(c, "knowledge")
    /\ UNCHANGED <<package, bundle, rejected, review, setting, lock, counters>>

(* A statement that would delete documents waits while they are deleted in *)
(* a transaction that has not been committed.                              *)
NoneDeletedBut(c) == \A d \in Callers \ {c} : call[d].deleted = {}

(* begin replaces a staging batch, its own or another caller's; a ready    *)
(* index refuses, and then nothing has to be discarded.                    *)
BeginIndex(c) ==
    /\ At(c, "begin")
    /\ setting.vectors
    /\ IF index.status = "ready"
       THEN Answer(c) /\ UNCHANGED index
       ELSE /\ NoneDeletedBut(c)
            /\ index' = [status |-> "staging", rows |-> NoRows]
            /\ Goto(c, "add")
    /\ UNCHANGED <<package, bundle, rejected, review, setting, lock, counters>>

(* add_many needs a staging batch and refuses rows that are already there. *)
AddBatch(c) ==
    LET next == call[c].added + 1
    IN  /\ At(c, "add")
        /\ IF index.status = "staging" /\ index.rows[next] = Nothing
           THEN /\ index' = [index EXCEPT !.rows[next] = call[c].content]
                /\ call' = [call EXCEPT
                       ![c].added = next,
                       ![c].step = IF next = Batches THEN "publish" ELSE "add"]
           ELSE Goto(c, "discard") /\ UNCHANGED index
        /\ UNCHANGED <<package, bundle, rejected, review, setting, lock,
                       counters>>

IndexStaged == index.status = "staging"

(* publish compares the number of the rows, not what they are.  It locks   *)
(* the row of the index but counts documents as they are committed, those  *)
(* included that an open cleanup has deleted.                              *)
IndexFull ==
    /\ index.status = "staging"
    /\ Cardinality({b \in 1..Batches : index.rows[b] # Nothing}) = Batches

PublishIndex(c) ==
    /\ At(c, "publish")
    /\ IF IndexFull
       THEN index' = [index EXCEPT !.status = "ready"] /\ Goto(c, "knowledge")
       ELSE Goto(c, "discard") /\ UNCHANGED index
    /\ UNCHANGED <<package, bundle, rejected, review, setting, lock, counters>>

MayDiscardAnything == TRUE

MayDiscard == index.status = "staging"

(* The cleanup of a failed build (discard) deletes whatever staging batch  *)
(* there is.  Its first statement deletes the documents that it sees ...   *)
DeleteDocuments(c) ==
    /\ At(c, "discard")
    /\ IndexStaged => NoneDeletedBut(c)
    /\ call' = [call EXCEPT
           ![c].step = "drop",
           ![c].deleted = IF MayDiscard
                          THEN {b \in 1..Batches : index.rows[b] # Nothing}
                          ELSE {}]
    /\ UNCHANGED <<package, index, bundle, rejected, review, setting, lock,
                   counters>>

(* ... its second the index, with all documents written since (ON DELETE   *)
(* CASCADE), if it is staging still.  The commit makes visible what the    *)
(* first has deleted, also when the index has become ready in between.     *)
DropIndex(c) ==
    /\ At(c, "drop")
    /\ IF MayDiscard
       THEN /\ NoneDeletedBut(c)
            /\ index' = [status |-> "none", rows |-> NoRows]
       ELSE index' = [index EXCEPT !.rows =
                [b \in 1..Batches |-> IF b \in call[c].deleted
                                      THEN Nothing ELSE index.rows[b]]]
    /\ Answer(c)
    /\ UNCHANGED <<package, bundle, rejected, review, setting, lock, counters>>

-----------------------------------------------------------------------------
(* M3: the bundle. *)

IsApproved(r, v, seed) ==
    /\ review[r] # Nothing
    /\ review[r].state = "approved"
    /\ review[r].version = v
    /\ review[r].seed = seed

(* _insert_or_replay: an equal row is a replay, another one a conflict. *)
CanStore(seed) == bundle \in {Nothing, seed}

(* build_knowledge_bundle without a review. *)
BuildUnreviewed(c) ==
    LET seed == call[c].seed
    IN  /\ At(c, "knowledge")
        /\ call[c].review = Nothing
        /\ IF setting.required
           THEN Answer(c) /\ UNCHANGED <<bundle, rejected>>
           ELSE IF seed \notin ValidSeeds
           THEN /\ rejected' = rejected \cup {seed}
                /\ Answer(c)
                /\ UNCHANGED bundle
           ELSE /\ \A d \in Callers : ~At(d, "commit")
                /\ IF CanStore(seed)
                   THEN bundle' = seed /\ Goto(c, "verify")
                   ELSE Answer(c) /\ UNCHANGED bundle
                /\ UNCHANGED rejected
        /\ UNCHANGED <<package, index, review, setting, lock, counters>>

(* The saved artifact is read back; a difference is an error, not a write. *)
VerifyBundle(c) ==
    /\ At(c, "verify")
    /\ Answer(c)
    /\ UNCHANGED <<package, index, bundle, rejected, review, setting, lock,
                   counters>>

(* build_knowledge_bundle_after_approval looks at the review before it     *)
(* asks for the lock.                                                      *)
CheckReview(c) ==
    LET k == call[c]
    IN  /\ At(c, "knowledge")
        /\ k.review # Nothing
        /\ IF IsApproved(k.review, k.version, k.seed)
           THEN Goto(c, "lock")
           ELSE Answer(c)
        /\ UNCHANGED <<package, index, bundle, rejected, review, setting,
                       lock, counters>>

(* publish_approved looks again under the lock. *)
LockReview(c) ==
    LET k == call[c]
    IN  /\ At(c, "lock")
        /\ CanLock(k.review)
        /\ IF IsApproved(k.review, k.version, k.seed)
           THEN lock' = [lock EXCEPT ![k.review] = c] /\ Goto(c, "save")
           ELSE Answer(c) /\ UNCHANGED lock
        /\ UNCHANGED <<package, index, bundle, rejected, review, setting,
                       counters>>

(* Validation and insertion inside the transaction of the lock.  What a    *)
(* rejection stores is rolled back with the transaction its error ends.    *)
SaveBundle(c) ==
    LET seed == call[c].seed
    IN  /\ At(c, "save")
        /\ \A d \in Callers : ~At(d, "commit")
        /\ IF seed \in ValidSeeds /\ CanStore(seed)
           THEN Goto(c, "commit") /\ UNCHANGED lock
           ELSE Answer(c) /\ lock' = RolledBack(c)
        /\ UNCHANGED <<package, index, bundle, rejected, review, setting,
                       counters>>

CommitBundle(c) ==
    /\ At(c, "commit")
    /\ bundle' = call[c].seed
    /\ lock' = Released(c)
    /\ Answer(c)
    /\ UNCHANGED <<package, index, rejected, review, setting, counters>>

-----------------------------------------------------------------------------
(* M3: the review. *)

(* create_draft: the SELECT ... FOR UPDATE of create finds no row (if it   *)
(* finds one, nothing is written) ...                                      *)
RequestDraft(c) ==
    /\ NewReviewCall(c)
    /\ \E r \in Reviews, seed \in Seeds :
          /\ review[r] = Nothing
          /\ call' = [call EXCEPT ![c] =
                 [Idle EXCEPT !.step = "insert", !.seed = seed, !.review = r]]
    /\ UNCHANGED <<package, index, bundle, rejected, review, setting, lock,
                   courses, kills>>

DraftFromZero(seed) == [seed |-> seed, state |-> "draft", version |-> 0]

NewDraft(seed) == [seed |-> seed, state |-> "draft", version |-> 1]

(* ... and ON CONFLICT DO NOTHING keeps the row another caller inserted    *)
(* since; the caller is told that its own draft exists.                    *)
InsertDraft(c) ==
    LET k == call[c]
    IN  /\ At(c, "insert")
        /\ review' = IF review[k.review] = Nothing
                     THEN [review EXCEPT ![k.review] = NewDraft(k.seed)]
                     ELSE review
        /\ Answer(c)
        /\ UNCHANGED <<package, index, bundle, rejected, setting, lock,
                       counters>>

(* submit, approve, reject and recall read the record under the lock.  A   *)
(* wrong version or state is an error, or the replay of an action that is  *)
(* in the history already; neither writes.                                 *)
RequestTransition(c) ==
    /\ NewReviewCall(c)
    /\ \E r \in Reviews, target \in DOMAIN AllowedFrom, v \in 1..3 :
          /\ review[r] # Nothing
          /\ CanLock(r)
          /\ review[r].version = v
          /\ review[r].state \in AllowedFrom[target]
          /\ lock' = [lock EXCEPT ![r] = c]
          /\ call' = [call EXCEPT ![c] =
                 [Idle EXCEPT !.step = "swap", !.review = r,
                              !.version = v, !.target = target]]
    /\ UNCHANGED <<package, index, bundle, rejected, review, setting,
                   courses, kills>>

(* compare_and_swap on the version, and the end of the transaction. *)
SwapReview(c) ==
    LET k == call[c]
    IN  /\ At(c, "swap")
        /\ review' = IF review[k.review].version = k.version
                     THEN [review EXCEPT ![k.review].state = k.target,
                                         ![k.review].version = k.version + 1]
                     ELSE review
        /\ lock' = Released(c)
        /\ Answer(c)
        /\ UNCHANGED <<package, index, bundle, rejected, setting, counters>>

-----------------------------------------------------------------------------
(* The process of a caller dies, or PostgreSQL ends a deadlock between a   *)
(* cleanup and another transaction on the index at its expense: its        *)
(* transaction is rolled back, what it committed before stays.             *)
KillCaller(c) ==
    /\ ~At(c, "idle")
    /\ kills < MaxKills
    /\ kills' = kills + 1
    /\ lock' = RolledBack(c)
    /\ Answer(c)
    /\ UNCHANGED <<package, index, bundle, rejected, review, setting,
                   courses, reviewing>>

Proceed(c) ==
    \/ BuildLexical(c) \/ BeginIndex(c) \/ AddBatch(c) \/ PublishIndex(c)
    \/ DeleteDocuments(c) \/ DropIndex(c)
    \/ BuildUnreviewed(c) \/ VerifyBundle(c)
    \/ CheckReview(c) \/ LockReview(c) \/ SaveBundle(c) \/ CommitBundle(c)
    \/ InsertDraft(c) \/ SwapReview(c)

PublicationNext ==
    \E c \in Callers :
        \/ RequestCourse(c) \/ RequestDraft(c) \/ RequestTransition(c)
        \/ Proceed(c) \/ KillCaller(c)

(* A thread of the API goes on with its request. *)
PublicationFairness == \A c \in Callers : WF_publicationVars(Proceed(c))

-----------------------------------------------------------------------------
(* Properties. *)

(* An index becomes ready only with every batch of the package that is     *)
(* stored, however the batches and the cleanups of two builders were       *)
(* interleaved: publish counts the documents, it does not look at them.    *)
ReadyWhenComplete ==
    [][ index.status # "ready" /\ index'.status = "ready" =>
          /\ package # Nothing
          /\ \A b \in 1..Batches : index'.rows[b] = package ]_publicationVars

(* c commits a cleanup whose deletion has come before the publication. *)
CleanupCommits(c) ==
    /\ At(c, "drop") /\ call'[c] = Idle
    /\ index'.status = "ready"
    /\ \A b \in 1..Batches :
          index'.rows[b] = IF b \in call[c].deleted
                           THEN Nothing ELSE index.rows[b]

(* Neither a builder that failed nor a second course request nor other     *)
(* seeds under the same identity change a ready index or a published       *)
(* bundle, but for the documents a cleanup had deleted before the index    *)
(* became ready.                                                           *)
PublishedStays ==
    [][ /\ index.status = "ready" /\ index' # index
             => \E c \in Callers : CleanupCommits(c)
        /\ bundle # Nothing => bundle' = bundle ]_publicationVars

(* discard deletes only staging rows: a published index is immutable.      *)
ReadyIndexImmutable ==
    [][ index.status = "ready" => index' = index ]_publicationVars

(* Where approval is required, the transaction that publishes a bundle     *)
(* commits while a review of exactly these seeds is approved: a recall     *)
(* comes before it and stops it, or after it.                              *)
PublishedWhileApproved ==
    [][ setting.required /\ bundle' # bundle
          => \E r \in Reviews : /\ review[r] # Nothing
                                /\ review[r].state = "approved"
                                /\ review[r].seed = bundle' ]_publicationVars

(* Every request is answered: no caller waits for ever for a review lock   *)
(* or for another publication.                                             *)
PublicationRequestsEnd ==
    \A c \in Callers : ~At(c, "idle") ~> At(c, "idle")
=============================================================================
