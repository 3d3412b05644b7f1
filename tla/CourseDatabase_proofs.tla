------------------------ MODULE CourseDatabase_proofs ------------------------
(***************************************************************************)
(* What holds of the three protocols of the database that share no row.    *)
(*                                                                         *)
(* The publication of a course, for any number of requests, reviews,       *)
(* contents, batches and killed processes: an index becomes ready complete *)
(* and loses afterwards only what a cleanup had deleted before, a          *)
(* published bundle stays, and it is published only while its review is    *)
(* approved.  The import, for any number of runs, rows, deaths and writes: *)
(* its checkpoint never covers a row that is not there, and it replaces    *)
(* nothing.  The erasure of a student, for any number of classes, attempts *)
(* and stores, any order of the stores, any failures and any batch size:   *)
(* it leaves only what was written after it had passed.                    *)
(***************************************************************************)
EXTENDS MCCourseDatabase, FiniteSetTheorems, SequenceTheorems, TLAPS

-----------------------------------------------------------------------------
(* The publication. *)

PublicationSpec == PublicationInit /\ [][PublicationNext]_publicationVars

(* The parts of PublicationTypeOK. *)
Calls ==
    [step : Steps, content : Contents \cup {Nothing},
     seed : Seeds \cup {Nothing}, review : Reviews \cup {Nothing},
     version : 0..4, target : DOMAIN AllowedFrom \cup {Nothing},
     added : 0..Batches, deleted : SUBSET (1..Batches)]

IndexType ==
    index \in [status : {"none", "staging", "ready"},
               rows : [1..Batches -> Contents \cup {Nothing}]]

StoreOK ==
    /\ package \in Contents \cup {Nothing}
    /\ IndexType
    /\ bundle \in Seeds \cup {Nothing}
    /\ rejected \subseteq Seeds \ ValidSeeds
    /\ review \in [Reviews -> Record \cup {Nothing}]
    /\ setting \in Settings
    /\ lock \in [Reviews -> Callers \cup {Nothing}]

LEMMA PublicationParts == PublicationTypeOK <=> StoreOK /\ call \in [Callers -> Calls]
BY DEF PublicationTypeOK, StoreOK, Calls, IndexType

(* What an index holds was computed from the package that is stored; a     *)
(* lexical index has never been in staging, so no cleanup has touched it.  *)
IndexOK ==
    /\ \A b \in 1..Batches : index.rows[b] \in {Nothing, package}
    /\ index.status = "ready" /\ ~setting.vectors =>
          package # Nothing /\ \A b \in 1..Batches : index.rows[b] = package

(* What a request of caller c that has come as far as k relies on: others  *)
(* leave it alone, although every step is a transaction of its own.        *)
CallOK(c, k) ==
    /\ k.step \in {"begin", "add", "publish"} => package # Nothing /\ k.content = package
    /\ k.step = "begin" => k.added = 0
    /\ k.step = "add" => k.added < Batches
    /\ k.step \in {"add", "publish", "discard", "drop"} => setting.vectors
    /\ k.step \notin {"idle", "swap"} => k.seed \in Seeds
    /\ k.step \in {"lock", "save", "commit", "insert", "swap"} => k.review \in Reviews
    /\ k.step = "swap" =>
          /\ k.version \in 1..3 /\ k.target \in DOMAIN AllowedFrom
          /\ lock[k.review] = c /\ review[k.review] # Nothing
    /\ k.step \in {"save", "commit"} =>
          lock[k.review] = c /\ IsApproved(k.review, k.version, k.seed)
    /\ k.step = "commit" => CanStore(k.seed)

CallsOK ==
    /\ call \in [Callers -> Calls]
    /\ \A c \in Callers : CallOK(c, call[c])
    /\ \A c, d \in Callers : At(c, "commit") /\ At(d, "commit") => c = d

PublicationInv == StoreOK /\ IndexOK /\ CallsOK
-----------------------------------------------------------------------------
(* Steps of one caller. *)

(* Caller c touches nothing another one relies on. *)
Yields(c) ==
    /\ package # Nothing => package' = package
    /\ setting' = setting
    /\ \A d \in Callers \ {c} :
          /\ \A r \in Reviews : lock[r] = d /\ review[r] # Nothing =>
                lock'[r] = d /\ review'[r] = review[r]
          /\ At(d, "commit") => bundle' = bundle

LEMMA CallMoves ==
  ASSUME PublicationInv, NEW c \in Callers, NEW k \in Calls, CallOK(c, k)', Yields(c),
         call' = [call EXCEPT ![c] = k],
         k.step = "commit" => \A d \in Callers : ~At(d, "commit")
  PROVE  CallsOK'
<1>1. call' \in [Callers -> Calls]
  BY DEF PublicationInv, CallsOK
<1>2. ASSUME NEW d \in Callers PROVE CallOK(d, call[d])'
  <2>1. CASE d = c
    BY <2>1 DEF PublicationInv, CallsOK
  <2>2. CASE d # c
    <3>1. PICK l \in Calls : l = call[d] /\ CallOK(d, l) /\ call'[d] = l
      BY <2>2 DEF PublicationInv, CallsOK
    <3>2. /\ package # Nothing => package' = package
          /\ setting' = setting
          /\ \A r \in Reviews : lock[r] = d /\ review[r] # Nothing =>
                lock'[r] = d /\ review'[r] = review[r]
          /\ l.step = "commit" => bundle' = bundle
      BY <2>2, <3>1 DEF Yields, At
    <3>3. CallOK(d, l)'
      BY <3>1, <3>2 DEF CallOK, IsApproved, CanStore
    <3> QED
      BY <3>1, <3>3
  <2> QED
    BY <2>1, <2>2
<1>3. \A d, e \in Callers : At(d, "commit")' /\ At(e, "commit")' => d = e
  BY DEF PublicationInv, CallsOK, At
<1> QED
  BY <1>1, <1>2, <1>3 DEF CallsOK

LEMMA IdleOK == Idle \in Calls /\ \A c : CallOK(c, Idle)
BY PublicationAssumption DEF Idle, Calls, CallOK, Steps

LEMMA CallAnswered ==
  ASSUME PublicationInv, NEW c \in Callers, Answer(c), Yields(c)
  PROVE  CallsOK'
<1>1. PICK k \in Calls : k = Idle
  BY IdleOK
<1>2. CallOK(c, k)'
  BY <1>1 DEF CallOK, Idle
<1>3. k.step # "commit"
  BY <1>1 DEF Idle
<1> QED
  BY <1>1, <1>2, <1>3, CallMoves DEF Answer

LEMMA CallStill ==
  ASSUME NEW c \in Callers, UNCHANGED <<package, lock, review, bundle, setting>>
  PROVE  Yields(c)
BY DEF Yields

LEMMA IndexStill ==
  ASSUME IndexOK, UNCHANGED <<package, index, setting>> PROVE IndexOK'
BY DEF IndexOK

LEMMA CallStepped ==
  ASSUME PublicationInv, NEW c \in Callers, NEW s \in Steps
  PROVE  \E l, k \in Calls :
            /\ l = call[c] /\ CallOK(c, l)
            /\ k.step = s /\ k.content = l.content /\ k.seed = l.seed
            /\ k.review = l.review /\ k.version = l.version
            /\ k.target = l.target /\ k.added = l.added
            /\ k.deleted = l.deleted
            /\ Goto(c, s) => call' = [call EXCEPT ![c] = k]
<1>1. PICK l \in Calls : l = call[c] /\ CallOK(c, l)
  BY DEF PublicationInv, CallsOK
<1>2. PICK k \in Calls : k = [l EXCEPT !.step = s]
  BY <1>1 DEF Calls
<1>3. /\ k.step = s /\ k.content = l.content /\ k.seed = l.seed
      /\ k.review = l.review /\ k.version = l.version
      /\ k.target = l.target /\ k.added = l.added /\ k.deleted = l.deleted
  BY <1>2 DEF Calls
<1>4. Goto(c, s) => call' = [call EXCEPT ![c] = k]
  BY <1>1, <1>2 DEF Goto
<1> QED
  BY <1>1, <1>3, <1>4

(* A step that writes no table another caller relies on.                   *)
LEMMA CallGoneOn ==
  ASSUME PublicationInv, NEW c \in Callers, NEW s \in Steps, Goto(c, s),
         UNCHANGED <<package, lock, review, bundle, setting>>,
         s \in {"discard", "knowledge", "verify", "lock"},
         s \in {"knowledge", "verify", "lock"} => call[c].seed \in Seeds,
         s = "discard" => call[c].seed \in Seeds /\ setting.vectors,
         s = "lock" => call[c].review \in Reviews
  PROVE  CallsOK'
<1>1. PICK l, k \in Calls :
          /\ l = call[c] /\ k.step = s /\ k.seed = l.seed /\ k.review = l.review
          /\ call' = [call EXCEPT ![c] = k]
  BY CallStepped
<1>2. CallOK(c, k)'
  BY <1>1 DEF CallOK
<1> QED
  BY <1>1, <1>2, CallStill, CallMoves
-----------------------------------------------------------------------------
LEMMA PublicationInitOK == PublicationInit => PublicationInv
<1> SUFFICES ASSUME PublicationInit PROVE PublicationInv
  OBVIOUS
<1>1. StoreOK
  BY DEF PublicationInit, StoreOK, IndexType, NoRows
<1>2. IndexOK
  BY DEF PublicationInit, IndexOK, NoRows
<1>3. PICK k \in Calls : k = Idle /\ \A c : CallOK(c, k)
  BY IdleOK
<1>4. CallsOK
  BY <1>3 DEF PublicationInit, CallsOK, At, Idle
<1> QED
  BY <1>1, <1>2, <1>4 DEF PublicationInv

LEMMA RequestCourseOK ==
  ASSUME PublicationInv, NEW c \in Callers, RequestCourse(c) PROVE PublicationInv'
<1>1. PICK content \in Contents, seed \in Seeds, r \in Reviews \cup {Nothing},
           v \in {0, 3} :
        /\ CanImport(content) /\ package' = content
        /\ call' = [call EXCEPT ![c] =
               [Idle EXCEPT !.step = "begin", !.content = content,
                            !.seed = seed, !.review = r, !.version = v]]
  BY DEF RequestCourse
<1>2. UNCHANGED <<index, bundle, rejected, review, setting, lock>>
  BY DEF RequestCourse
<1>3. PICK k : k = [Idle EXCEPT !.step = "begin", !.content = content,
                            !.seed = seed, !.review = r, !.version = v]
  OBVIOUS
<1>4. k = [step |-> "begin", content |-> content, seed |-> seed, review |-> r,
           version |-> v, target |-> Nothing, added |-> 0, deleted |-> {}]
  BY <1>3 DEF Idle
<1>5. k \in Calls
  BY <1>4, PublicationAssumption DEF Calls, Steps
<1>6. package # Nothing => package' = package
  BY <1>1 DEF CanImport
<1>7. StoreOK'
  BY <1>1, <1>2 DEF PublicationInv, StoreOK, IndexType
<1>8. IndexOK'
  BY <1>2, <1>6 DEF PublicationInv, IndexOK
<1>9. Yields(c)
  BY <1>2, <1>6 DEF Yields
<1>10. /\ k.step = "begin" /\ k.content = content /\ k.seed = seed
       /\ k.added = 0
  BY <1>4
<1>11. CallOK(c, k)'
  BY <1>1, <1>10, PublicationAssumption DEF CallOK
<1>12. CallsOK'
  BY <1>1, <1>3, <1>5, <1>9, <1>10, <1>11, CallMoves
<1> QED
  BY <1>7, <1>8, <1>12 DEF PublicationInv

LEMMA BuildLexicalOK ==
  ASSUME PublicationInv, NEW c \in Callers, BuildLexical(c) PROVE PublicationInv'
<1>1. UNCHANGED <<package, bundle, rejected, review, setting, lock>>
  BY DEF BuildLexical
<1>2. package # Nothing /\ call[c].content = package /\ call[c].seed \in Seeds
  BY DEF PublicationInv, CallsOK, CallOK, BuildLexical, At
<1>3. index' = [status |-> "ready", rows |-> [b \in 1..Batches |-> package]]
  BY <1>2 DEF BuildLexical
<1>4. StoreOK'
  BY <1>1, <1>2, <1>3 DEF PublicationInv, StoreOK, IndexType
<1>5. IndexOK'
  BY <1>1, <1>2, <1>3 DEF IndexOK
<1>6. CallsOK'
  BY <1>1, <1>2, CallGoneOn DEF BuildLexical, Steps
<1> QED
  BY <1>4, <1>5, <1>6 DEF PublicationInv

LEMMA BeginIndexOK ==
  ASSUME PublicationInv, NEW c \in Callers, BeginIndex(c) PROVE PublicationInv'
<1>1. UNCHANGED <<package, bundle, rejected, review, setting, lock>>
  BY DEF BeginIndex
<1>2. CASE Answer(c) /\ UNCHANGED index
  <2>1. StoreOK' /\ IndexOK'
    BY <1>1, <1>2, IndexStill DEF PublicationInv, StoreOK, IndexType
  <2>2. CallsOK'
    BY <1>1, <1>2, CallStill, CallAnswered
  <2> QED
    BY <2>1, <2>2 DEF PublicationInv
<1>3. CASE index' = [status |-> "staging", rows |-> NoRows] /\ Goto(c, "add")
  <2>1. StoreOK'
    BY <1>1, <1>3 DEF PublicationInv, StoreOK, IndexType, NoRows
  <2>2. IndexOK'
    BY <1>1, <1>3 DEF IndexOK, NoRows
  <2>3. PICK l, k \in Calls :
          /\ l = call[c] /\ CallOK(c, l) /\ k.step = "add" /\ k.seed = l.seed
          /\ k.content = l.content /\ k.added = l.added
          /\ call' = [call EXCEPT ![c] = k]
    BY <1>3, CallStepped DEF Steps
  <2>4. l.step = "begin" /\ setting.vectors
    BY <2>3 DEF BeginIndex, At
  <2>5. CallOK(c, k)'
    BY <1>1, <2>3, <2>4, PublicationAssumption DEF CallOK
  <2>6. CallsOK'
    BY <1>1, <2>3, <2>5, CallStill, CallMoves
  <2> QED
    BY <2>1, <2>2, <2>6 DEF PublicationInv
<1> QED
  BY <1>2, <1>3 DEF BeginIndex

LEMMA AddBatchOK ==
  ASSUME PublicationInv, NEW c \in Callers, AddBatch(c) PROVE PublicationInv'
<1>1. UNCHANGED <<package, bundle, rejected, review, setting, lock>>
  BY DEF AddBatch
<1>2. PICK l \in Calls : l = call[c] /\ CallOK(c, l) /\ l.step = "add"
  BY DEF PublicationInv, CallsOK, AddBatch, At
<1>3. /\ l.added \in 0..Batches /\ l.added < Batches /\ package # Nothing
      /\ l.content = package /\ l.seed \in Seeds /\ package \in Contents
      /\ setting.vectors
  BY <1>2 DEF CallOK, Calls, PublicationInv, StoreOK
<1>4. CASE Goto(c, "discard") /\ UNCHANGED index
  <2>1. StoreOK' /\ IndexOK'
    BY <1>1, <1>4, IndexStill DEF PublicationInv, StoreOK, IndexType
  <2>2. CallsOK'
    BY <1>1, <1>2, <1>3, <1>4, CallGoneOn DEF Steps
  <2> QED
    BY <2>1, <2>2 DEF PublicationInv
<1>5. ASSUME index.status = "staging",
             index' = [index EXCEPT !.rows[l.added + 1] = l.content],
             call' = [call EXCEPT
                       ![c].added = l.added + 1,
                       ![c].step = IF l.added + 1 = Batches THEN "publish" ELSE "add"]
      PROVE  PublicationInv'
  <2>1. l.added + 1 \in 1..Batches
    BY <1>3, PublicationAssumption
  <2>2. /\ index'.status = index.status
        /\ index'.rows = [index.rows EXCEPT ![l.added + 1] = package]
    BY <1>3, <1>5 DEF PublicationInv, StoreOK, IndexType
  <2>3. index'.rows \in [1..Batches -> Contents \cup {Nothing}]
    BY <1>3, <2>1, <2>2 DEF PublicationInv, StoreOK, IndexType
  <2>4. IndexType'
    <3>1. index' = [status |-> index.status, rows |-> index'.rows]
      BY <1>5, <2>2 DEF PublicationInv, StoreOK, IndexType
    <3> QED
      BY <3>1, <2>3 DEF PublicationInv, StoreOK, IndexType
  <2>5. StoreOK'
    BY <1>1, <2>4 DEF PublicationInv, StoreOK
  <2>6. IndexOK'
    BY <1>1, <1>5, <2>1, <2>2 DEF PublicationInv, StoreOK, IndexType, IndexOK
  <2>7. PICK m \in Calls : m = [l EXCEPT !.added = l.added + 1]
    <3>1. l.added + 1 \in 0..Batches
      BY <2>1, PublicationAssumption
    <3>2. [l EXCEPT !.added = l.added + 1] \in Calls
      BY <3>1 DEF Calls
    <3> QED
      BY <3>2
  <2>8. PICK k \in Calls : k = [m EXCEPT !.step =
                               IF l.added + 1 = Batches THEN "publish" ELSE "add"]
    <3>1. PICK step \in Steps : step = IF l.added + 1 = Batches THEN "publish" ELSE "add"
      BY DEF Steps
    <3>2. [m EXCEPT !.step = step] \in Calls
      BY DEF Calls
    <3> QED
      BY <3>1, <3>2
  <2>9. call' = [call EXCEPT ![c] = k]
    BY <1>2, <1>5, <2>7, <2>8 DEF PublicationInv, CallsOK
  <2>10. /\ k.step \in {"add", "publish"} /\ k.content = package
         /\ k.seed \in Seeds /\ (k.step = "add" => k.added < Batches)
    BY <1>3, <2>1, <2>7, <2>8, PublicationAssumption DEF Calls
  <2>11. CallOK(c, k)'
    BY <1>1, <1>3, <2>10 DEF CallOK
  <2>12. CallsOK'
    BY <1>1, <2>8, <2>9, <2>10, <2>11, CallStill, CallMoves
  <2> QED
    BY <2>5, <2>6, <2>12 DEF PublicationInv
<1> QED
  BY <1>2, <1>4, <1>5 DEF AddBatch

(* The count of publish tells that every batch is there, and what is there *)
(* was computed from the stored package.                                   *)
LEMMA FullOK ==
  ASSUME PublicationInv, IndexFull
  PROVE  \A b \in 1..Batches : index.rows[b] = package
<1> DEFINE filled == {b \in 1..Batches : index.rows[b] # Nothing}
<1>1. IsFiniteSet(1..Batches) /\ Cardinality(1..Batches) = Batches
  BY PublicationAssumption, FS_Interval
<1>2. filled \subseteq 1..Batches /\ Cardinality(filled) = Batches
  BY DEF IndexFull
<1>3. filled = 1..Batches
  <2> HIDE DEF filled
  <2> QED
    BY <1>1, <1>2, FS_Subset
<1> QED
  BY <1>3 DEF PublicationInv, IndexOK

LEMMA PublishIndexOK ==
  ASSUME PublicationInv, NEW c \in Callers, PublishIndex(c) PROVE PublicationInv'
<1>1. UNCHANGED <<package, bundle, rejected, review, setting, lock>>
  BY DEF PublishIndex
<1>2. package # Nothing /\ call[c].seed \in Seeds /\ setting.vectors
  BY DEF PublicationInv, CallsOK, CallOK, PublishIndex, At
<1>3. CASE Goto(c, "discard") /\ UNCHANGED index
  <2>1. StoreOK' /\ IndexOK'
    BY <1>1, <1>3, IndexStill DEF PublicationInv, StoreOK, IndexType
  <2>2. CallsOK'
    BY <1>1, <1>2, <1>3, CallGoneOn DEF Steps
  <2> QED
    BY <2>1, <2>2 DEF PublicationInv
<1>4. CASE IndexFull /\ index' = [index EXCEPT !.status = "ready"]
           /\ Goto(c, "knowledge")
  <2>1. \A b \in 1..Batches : index.rows[b] = package
    BY <1>4, FullOK
  <2>2. index'.status = "ready" /\ index'.rows = index.rows
    BY <1>4 DEF PublicationInv, StoreOK, IndexType
  <2>3. StoreOK'
    BY <1>1, <1>4 DEF PublicationInv, StoreOK, IndexType
  <2>5. IndexOK'
    BY <1>1, <1>2, <2>1, <2>2 DEF IndexOK
  <2>6. CallsOK'
    BY <1>1, <1>2, <1>4, CallGoneOn DEF Steps
  <2> QED
    BY <2>3, <2>5, <2>6 DEF PublicationInv
<1> QED
  BY <1>3, <1>4 DEF PublishIndex

LEMMA DeleteDocumentsOK ==
  ASSUME PublicationInv, NEW c \in Callers, DeleteDocuments(c) PROVE PublicationInv'
<1>1. UNCHANGED <<package, index, bundle, rejected, review, setting, lock>>
  BY DEF DeleteDocuments
<1>2. StoreOK' /\ IndexOK'
  BY <1>1, IndexStill DEF PublicationInv, StoreOK, IndexType
<1>3. PICK l \in Calls : l = call[c] /\ CallOK(c, l) /\ l.step = "discard"
  BY DEF PublicationInv, CallsOK, DeleteDocuments, At
<1>4. PICK gone \in SUBSET (1..Batches) :
        call' = [call EXCEPT ![c].step = "drop", ![c].deleted = gone]
  BY DEF DeleteDocuments
<1>5. PICK m \in Calls : m = [l EXCEPT !.step = "drop"]
  BY DEF Calls, Steps
<1>6. PICK k \in Calls : k = [m EXCEPT !.deleted = gone]
  <2>1. [m EXCEPT !.deleted = gone] \in Calls
    BY DEF Calls
  <2> QED
    BY <2>1
<1>7. call' = [call EXCEPT ![c] = k]
  BY <1>3, <1>4, <1>5, <1>6 DEF PublicationInv, CallsOK
<1>8. k.step = "drop" /\ k.seed = l.seed
  BY <1>5, <1>6 DEF Calls
<1>9. CallOK(c, k)'
  BY <1>1, <1>3, <1>8 DEF CallOK
<1>10. CallsOK'
  BY <1>1, <1>7, <1>8, <1>9, CallStill, CallMoves
<1> QED
  BY <1>2, <1>10 DEF PublicationInv

LEMMA DropIndexOK ==
  ASSUME PublicationInv, NEW c \in Callers, DropIndex(c) PROVE PublicationInv'
<1>1. UNCHANGED <<package, bundle, rejected, review, setting, lock>>
  BY DEF DropIndex
<1>2. setting.vectors
  BY DEF PublicationInv, CallsOK, CallOK, DropIndex, At
<1>3. /\ index'.status \in {"none", "staging", "ready"}
      /\ index'.rows \in [1..Batches -> Contents \cup {Nothing}]
      /\ index' = [status |-> index'.status, rows |-> index'.rows]
      /\ \A b \in 1..Batches : index'.rows[b] \in {Nothing, index.rows[b]}
  <2>1. CASE index' = [status |-> "none", rows |-> NoRows]
    BY <2>1 DEF NoRows
  <2>2. CASE index' = [index EXCEPT !.rows =
                [b \in 1..Batches |-> IF b \in call[c].deleted
                                      THEN Nothing ELSE index.rows[b]]]
    BY <2>2 DEF PublicationInv, StoreOK, IndexType
  <2> QED
    BY <2>1, <2>2 DEF DropIndex
<1>4. StoreOK'
  BY <1>1, <1>3 DEF PublicationInv, StoreOK, IndexType
<1>5. IndexOK'
  BY <1>1, <1>2, <1>3 DEF PublicationInv, IndexOK
<1>6. CallsOK'
  BY <1>1, CallStill, CallAnswered DEF DropIndex
<1> QED
  BY <1>4, <1>5, <1>6 DEF PublicationInv

LEMMA BuildUnreviewedOK ==
  ASSUME PublicationInv, NEW c \in Callers, BuildUnreviewed(c) PROVE PublicationInv'
<1>1. UNCHANGED <<package, index, review, setting, lock>>
  BY DEF BuildUnreviewed
<1>2. call[c].seed \in Seeds
  BY DEF PublicationInv, CallsOK, CallOK, BuildUnreviewed, At
<1>3. IndexOK'
  BY <1>1, IndexStill DEF PublicationInv
<1>4. CASE Answer(c) /\ UNCHANGED bundle
  <2>1. \/ rejected' = rejected
        \/ /\ call[c].seed \notin ValidSeeds
           /\ rejected' = rejected \cup {call[c].seed}
    BY DEF BuildUnreviewed
  <2>2. StoreOK'
    BY <1>1, <1>2, <1>4, <2>1 DEF PublicationInv, StoreOK, IndexType
  <2>3. CallsOK'
    BY <1>1, <1>4, CallStill, CallAnswered
  <2> QED
    BY <1>3, <2>2, <2>3 DEF PublicationInv
<1>5. ASSUME \A d \in Callers : ~At(d, "commit"), bundle' = call[c].seed,
             Goto(c, "verify"), UNCHANGED rejected
      PROVE  PublicationInv'
  <2>1. StoreOK'
    BY <1>1, <1>2, <1>5 DEF PublicationInv, StoreOK, IndexType
  <2>2. Yields(c)
    BY <1>1, <1>5 DEF Yields
  <2>3. PICK l, k \in Calls :
          /\ l = call[c] /\ k.step = "verify" /\ k.seed = l.seed
          /\ call' = [call EXCEPT ![c] = k]
    BY <1>5, CallStepped DEF Steps
  <2>4. CallOK(c, k)'
    BY <1>2, <2>3 DEF CallOK
  <2>5. CallsOK'
    BY <2>2, <2>3, <2>4, CallMoves
  <2> QED
    BY <1>3, <2>1, <2>5 DEF PublicationInv
<1> QED
  BY <1>4, <1>5 DEF BuildUnreviewed

LEMMA VerifyBundleOK ==
  ASSUME PublicationInv, NEW c \in Callers, VerifyBundle(c) PROVE PublicationInv'
<1>1. UNCHANGED <<package, index, bundle, rejected, review, setting, lock>>
  BY DEF VerifyBundle
<1>2. StoreOK' /\ IndexOK'
  BY <1>1, IndexStill DEF PublicationInv, StoreOK, IndexType
<1>3. CallsOK'
  BY <1>1, CallStill, CallAnswered DEF VerifyBundle
<1> QED
  BY <1>2, <1>3 DEF PublicationInv

LEMMA CheckReviewOK ==
  ASSUME PublicationInv, NEW c \in Callers, CheckReview(c) PROVE PublicationInv'
<1>1. UNCHANGED <<package, index, bundle, rejected, review, setting, lock>>
  BY DEF CheckReview
<1>2. StoreOK' /\ IndexOK'
  BY <1>1, IndexStill DEF PublicationInv, StoreOK, IndexType
<1>3. call[c].seed \in Seeds /\ call[c].review \in Reviews
  BY DEF PublicationInv, CallsOK, CallOK, CheckReview, At, Calls
<1>4. CASE Answer(c)
  BY <1>1, <1>2, <1>4, CallStill, CallAnswered DEF PublicationInv
<1>5. CASE Goto(c, "lock")
  BY <1>1, <1>2, <1>3, <1>5, CallGoneOn DEF PublicationInv, Steps
<1> QED
  BY <1>4, <1>5 DEF CheckReview

LEMMA LockReviewOK ==
  ASSUME PublicationInv, NEW c \in Callers, LockReview(c) PROVE PublicationInv'
<1>1. UNCHANGED <<package, index, bundle, rejected, review, setting>>
  BY DEF LockReview
<1>2. IndexOK'
  BY <1>1, IndexStill DEF PublicationInv
<1>3. CASE Answer(c) /\ UNCHANGED lock
  <2>1. StoreOK'
    BY <1>1, <1>3 DEF PublicationInv, StoreOK, IndexType
  <2>2. CallsOK'
    BY <1>1, <1>3, CallStill, CallAnswered
  <2> QED
    BY <1>2, <2>1, <2>2 DEF PublicationInv
<1>4. ASSUME lock' = [lock EXCEPT ![call[c].review] = c], Goto(c, "save"),
             IsApproved(call[c].review, call[c].version, call[c].seed)
      PROVE  PublicationInv'
  <2>1. PICK l, k \in Calls :
          /\ l = call[c] /\ CallOK(c, l) /\ k.step = "save" /\ k.seed = l.seed
          /\ k.review = l.review /\ k.version = l.version
          /\ call' = [call EXCEPT ![c] = k]
    BY <1>4, CallStepped DEF Steps
  <2>2. l.step = "lock" /\ lock[l.review] = Nothing
    BY <2>1 DEF LockReview, At, CanLock
  <2>3. k.review \in Reviews /\ k.seed \in Seeds
    BY <2>1, <2>2 DEF CallOK
  <2>4. lock' = [lock EXCEPT ![k.review] = c] /\ lock[k.review] = Nothing
    BY <1>4, <2>1, <2>2
  <2>5. StoreOK'
    BY <1>1, <2>4 DEF PublicationInv, StoreOK, IndexType
  <2>6. Yields(c)
    BY <1>1, <2>4, PublicationAssumption DEF Yields
  <2>7. lock'[k.review] = c
    BY <2>3, <2>4 DEF PublicationInv, StoreOK
  <2>8. IsApproved(k.review, k.version, k.seed)'
    BY <1>1, <1>4, <2>1 DEF IsApproved
  <2>9. CallOK(c, k)'
    BY <2>1, <2>3, <2>7, <2>8 DEF CallOK
  <2>10. CallsOK'
    BY <2>1, <2>6, <2>9, CallMoves
  <2> QED
    BY <1>2, <2>5, <2>10 DEF PublicationInv
<1> QED
  BY <1>3, <1>4 DEF LockReview

(* The lock of a caller whose transaction ends is dropped, and only his.   *)
LEMMA ReleasedOK ==
  ASSUME StoreOK, NEW c \in Callers
  PROVE  /\ Released(c) \in [Reviews -> Callers \cup {Nothing}]
         /\ \A d \in Callers \ {c}, r \in Reviews :
               lock[r] = d => Released(c)[r] = d
BY DEF StoreOK, Released

LEMMA SaveBundleOK ==
  ASSUME PublicationInv, NEW c \in Callers, SaveBundle(c) PROVE PublicationInv'
<1>1. UNCHANGED <<package, index, bundle, rejected, review, setting>>
  BY DEF SaveBundle
<1>2. IndexOK'
  BY <1>1, IndexStill DEF PublicationInv
<1>3. CASE Answer(c) /\ lock' = Released(c)
  <2>1. StoreOK'
    BY <1>1, <1>3, ReleasedOK DEF PublicationInv, StoreOK, IndexType
  <2>2. Yields(c)
    BY <1>1, <1>3, ReleasedOK DEF Yields, PublicationInv
  <2>3. CallsOK'
    BY <1>3, <2>2, CallAnswered
  <2> QED
    BY <1>2, <2>1, <2>3 DEF PublicationInv
<1>4. ASSUME CanStore(call[c].seed), Goto(c, "commit"), UNCHANGED lock
      PROVE  PublicationInv'
  <2>1. StoreOK'
    BY <1>1, <1>4 DEF PublicationInv, StoreOK, IndexType
  <2>2. PICK l, k \in Calls :
          /\ l = call[c] /\ CallOK(c, l) /\ k.step = "commit" /\ k.seed = l.seed
          /\ k.review = l.review /\ k.version = l.version
          /\ call' = [call EXCEPT ![c] = k]
    BY <1>4, CallStepped DEF Steps
  <2>3. l.step = "save" /\ \A d \in Callers : ~At(d, "commit")
    BY <2>2 DEF SaveBundle, At
  <2>4. CallOK(c, k)'
    BY <1>1, <1>4, <2>2, <2>3 DEF CallOK, IsApproved, CanStore
  <2>5. CallsOK'
    BY <1>1, <1>4, <2>2, <2>3, <2>4, CallStill, CallMoves
  <2> QED
    BY <1>2, <2>1, <2>5 DEF PublicationInv
<1> QED
  BY <1>3, <1>4 DEF SaveBundle, RolledBack

LEMMA CommitBundleOK ==
  ASSUME PublicationInv, NEW c \in Callers, CommitBundle(c) PROVE PublicationInv'
<1>1. /\ UNCHANGED <<package, index, rejected, review, setting>>
      /\ lock' = Released(c) /\ bundle' = call[c].seed
  BY DEF CommitBundle
<1>2. call[c].seed \in Seeds /\ \A d \in Callers \ {c} : ~At(d, "commit")
  BY DEF PublicationInv, CallsOK, CallOK, CommitBundle, At
<1>3. StoreOK'
  BY <1>1, <1>2, ReleasedOK DEF PublicationInv, StoreOK, IndexType
<1>4. IndexOK'
  BY <1>1, IndexStill DEF PublicationInv
<1>5. Yields(c)
  BY <1>1, <1>2, ReleasedOK DEF Yields, PublicationInv
<1>6. CallsOK'
  BY <1>5, CallAnswered DEF CommitBundle
<1> QED
  BY <1>3, <1>4, <1>6 DEF PublicationInv

LEMMA RequestDraftOK ==
  ASSUME PublicationInv, NEW c \in Callers, RequestDraft(c) PROVE PublicationInv'
<1>1. UNCHANGED <<package, index, bundle, rejected, review, setting, lock>>
  BY DEF RequestDraft
<1>2. StoreOK' /\ IndexOK'
  BY <1>1, IndexStill DEF PublicationInv, StoreOK, IndexType
<1>3. PICK r \in Reviews, seed \in Seeds :
        call' = [call EXCEPT ![c] =
               [Idle EXCEPT !.step = "insert", !.seed = seed, !.review = r]]
  BY DEF RequestDraft
<1>4. PICK k : k = [Idle EXCEPT !.step = "insert", !.seed = seed, !.review = r]
  OBVIOUS
<1>5. k = [step |-> "insert", content |-> Nothing, seed |-> seed, review |-> r,
           version |-> 0, target |-> Nothing, added |-> 0, deleted |-> {}]
  BY <1>4 DEF Idle
<1>6. k \in Calls
  BY <1>5, PublicationAssumption DEF Calls, Steps
<1>7. k.step = "insert" /\ k.seed \in Seeds /\ k.review \in Reviews
  BY <1>5
<1>8. CallOK(c, k)'
  BY <1>7 DEF CallOK
<1>9. CallsOK'
  BY <1>1, <1>3, <1>4, <1>6, <1>7, <1>8, CallStill, CallMoves
<1> QED
  BY <1>2, <1>9 DEF PublicationInv

LEMMA InsertDraftOK ==
  ASSUME PublicationInv, NEW c \in Callers, InsertDraft(c) PROVE PublicationInv'
<1>1. UNCHANGED <<package, index, bundle, rejected, setting, lock>>
  BY DEF InsertDraft
<1>2. PICK r \in Reviews, seed \in Seeds : r = call[c].review /\ seed = call[c].seed
  BY DEF PublicationInv, CallsOK, CallOK, InsertDraft, At
<1>3. \/ review' = review
      \/ review[r] = Nothing /\ review' = [review EXCEPT ![r] = NewDraft(seed)]
  BY <1>2 DEF InsertDraft
<1>4. NewDraft(seed) \in Record
  BY DEF NewDraft, Record, ReviewStates
<1>5. StoreOK'
  BY <1>1, <1>3, <1>4 DEF PublicationInv, StoreOK, IndexType
<1>6. IndexOK'
  BY <1>1, IndexStill DEF PublicationInv
<1>7. \A q \in Reviews : review[q] # Nothing => review'[q] = review[q]
  BY <1>3 DEF PublicationInv, StoreOK
<1>8. CallsOK'
  BY <1>1, <1>7, CallAnswered DEF InsertDraft, Yields
<1> QED
  BY <1>5, <1>6, <1>8 DEF PublicationInv

LEMMA RequestTransitionOK ==
  ASSUME PublicationInv, NEW c \in Callers, RequestTransition(c) PROVE PublicationInv'
<1>1. UNCHANGED <<package, index, bundle, rejected, review, setting>>
  BY DEF RequestTransition
<1>2. PICK r \in Reviews, to \in DOMAIN AllowedFrom, v \in 1..3 :
        /\ review[r] # Nothing /\ lock[r] = Nothing
        /\ lock' = [lock EXCEPT ![r] = c]
        /\ call' = [call EXCEPT ![c] =
               [Idle EXCEPT !.step = "swap", !.review = r,
                            !.version = v, !.target = to]]
  BY DEF RequestTransition, CanLock
<1>3. StoreOK'
  BY <1>1, <1>2 DEF PublicationInv, StoreOK, IndexType
<1>4. IndexOK'
  BY <1>1, IndexStill DEF PublicationInv
<1>5. PICK k : k = [Idle EXCEPT !.step = "swap", !.review = r,
                                !.version = v, !.target = to]
  OBVIOUS
<1>6. k = [step |-> "swap", content |-> Nothing, seed |-> Nothing, review |-> r,
           version |-> v, target |-> to, added |-> 0, deleted |-> {}]
  BY <1>5 DEF Idle
<1>7. k \in Calls
  BY <1>6, PublicationAssumption DEF Calls, Steps
<1>8. k.step = "swap" /\ k.review = r /\ k.version = v /\ k.target = to
  BY <1>6
<1>9. lock'[r] = c
  BY <1>2 DEF PublicationInv, StoreOK
<1>10. CallOK(c, k)'
  BY <1>1, <1>2, <1>8, <1>9 DEF CallOK
<1>11. Yields(c)
  BY <1>1, <1>2, PublicationAssumption DEF Yields
<1>12. CallsOK'
  BY <1>2, <1>5, <1>7, <1>8, <1>10, <1>11, CallMoves
<1> QED
  BY <1>3, <1>4, <1>12 DEF PublicationInv

LEMMA SwapReviewOK ==
  ASSUME PublicationInv, NEW c \in Callers, SwapReview(c) PROVE PublicationInv'
<1>1. /\ UNCHANGED <<package, index, bundle, rejected, setting>>
      /\ lock' = Released(c)
  BY DEF SwapReview
<1>2. PICK r \in Reviews, to \in DOMAIN AllowedFrom, v \in 1..3 :
        /\ r = call[c].review /\ to = call[c].target /\ v = call[c].version
        /\ lock[r] = c /\ review[r] # Nothing
  BY DEF PublicationInv, CallsOK, CallOK, SwapReview, At
<1>3. PICK old \in Record : old = review[r]
  BY <1>2 DEF PublicationInv, StoreOK
<1>4. PICK new \in Record : new = [old EXCEPT !.state = to, !.version = v + 1]
  <2>1. PICK mid \in Record : mid = [old EXCEPT !.state = to]
    BY DEF Record, ReviewStates, AllowedFrom
  <2>2. [mid EXCEPT !.version = v + 1] \in Record
    BY DEF Record
  <2> QED
    BY <2>1, <2>2
<1>5. review' = review \/ review' = [review EXCEPT ![r] = new]
  BY <1>2, <1>3, <1>4 DEF SwapReview, PublicationInv, StoreOK
<1>6. StoreOK'
  BY <1>1, <1>5, ReleasedOK DEF PublicationInv, StoreOK, IndexType
<1>7. IndexOK'
  BY <1>1, IndexStill DEF PublicationInv
<1>8. Yields(c)
  BY <1>1, <1>2, <1>5, ReleasedOK DEF Yields, PublicationInv, StoreOK
<1>9. CallsOK'
  BY <1>8, CallAnswered DEF SwapReview
<1> QED
  BY <1>6, <1>7, <1>9 DEF PublicationInv

LEMMA KillCallerOK ==
  ASSUME PublicationInv, NEW c \in Callers, KillCaller(c) PROVE PublicationInv'
<1>1. /\ UNCHANGED <<package, index, bundle, rejected, review, setting>>
      /\ lock' = Released(c)
  BY DEF KillCaller, RolledBack
<1>2. StoreOK'
  BY <1>1, ReleasedOK DEF PublicationInv, StoreOK, IndexType
<1>3. IndexOK'
  BY <1>1, IndexStill DEF PublicationInv
<1>4. Yields(c)
  BY <1>1, ReleasedOK DEF Yields, PublicationInv
<1>5. CallsOK'
  BY <1>4, CallAnswered DEF KillCaller
<1> QED
  BY <1>2, <1>3, <1>5 DEF PublicationInv
-----------------------------------------------------------------------------
LEMMA PublicationNextOK == PublicationInv /\ [PublicationNext]_publicationVars => PublicationInv'
<1> SUFFICES ASSUME PublicationInv, [PublicationNext]_publicationVars PROVE PublicationInv'
  OBVIOUS
<1>1. CASE PublicationNext
  BY <1>1, RequestCourseOK, RequestDraftOK, RequestTransitionOK, KillCallerOK,
     BuildLexicalOK, BeginIndexOK, AddBatchOK, PublishIndexOK, DeleteDocumentsOK,
     DropIndexOK, BuildUnreviewedOK, VerifyBundleOK, CheckReviewOK, LockReviewOK,
     SaveBundleOK, CommitBundleOK, InsertDraftOK, SwapReviewOK
     DEF PublicationNext, Proceed
<1>2. CASE UNCHANGED publicationVars
  <2>1. StoreOK' /\ IndexOK'
    BY <1>2, IndexStill DEF PublicationInv, StoreOK, IndexType, publicationVars
  <2>2. UNCHANGED <<call, lock, review, bundle, package, setting>>
    BY <1>2 DEF publicationVars
  <2>3. CallsOK'
    BY <2>2 DEF PublicationInv, CallsOK, CallOK, IsApproved, CanStore, At
  <2> QED
    BY <2>1, <2>3 DEF PublicationInv
<1> QED
  BY <1>1, <1>2

LEMMA PublicationInvariance == PublicationSpec => []PublicationInv
BY PublicationInitOK, PublicationNextOK, PTL DEF PublicationSpec

(* The state of initialize_course and of the reviews has its types.        *)
THEOREM PublicationTyping == PublicationSpec => []PublicationTypeOK
<1>1. PublicationInv => PublicationTypeOK
  BY PublicationParts DEF PublicationInv, CallsOK
<1> QED
  BY <1>1, PublicationInvariance, PTL

LEMMA CompleteStep ==
  PublicationInv /\ [PublicationNext]_publicationVars =>
      [ index.status # "ready" /\ index'.status = "ready" =>
          /\ package # Nothing
          /\ \A b \in 1..Batches : index'.rows[b] = package ]_publicationVars
<1> SUFFICES ASSUME PublicationInv, NEW c \in Callers,
                    \/ RequestCourse(c) \/ RequestDraft(c) \/ RequestTransition(c)
                    \/ Proceed(c) \/ KillCaller(c),
                    index.status # "ready", index'.status = "ready"
             PROVE  /\ package # Nothing
                    /\ \A b \in 1..Batches : index'.rows[b] = package
  BY DEF PublicationNext
<1>1. CASE BuildLexical(c)
  <2>1. package # Nothing /\ call[c].content = package
    BY <1>1 DEF PublicationInv, CallsOK, CallOK, BuildLexical, At
  <2> QED
    BY <1>1, <2>1 DEF BuildLexical
<1>2. CASE PublishIndex(c)
  <2>1. package # Nothing
    BY <1>2 DEF PublicationInv, CallsOK, CallOK, PublishIndex, At
  <2>2. IndexFull /\ index'.rows = index.rows
    BY <1>2 DEF PublishIndex, PublicationInv, StoreOK, IndexType
  <2> QED
    BY <2>1, <2>2, FullOK
<1>3. CASE BeginIndex(c) \/ AddBatch(c) \/ DropIndex(c)
  BY <1>3 DEF BeginIndex, AddBatch, DropIndex, PublicationInv, StoreOK, IndexType
<1>4. CASE ~(BuildLexical(c) \/ PublishIndex(c) \/ BeginIndex(c)
             \/ AddBatch(c) \/ DropIndex(c))
  BY <1>4 DEF Proceed, RequestCourse, RequestDraft, RequestTransition,
       KillCaller, DeleteDocuments, BuildUnreviewed, VerifyBundle, CheckReview,
       LockReview, SaveBundle, CommitBundle, InsertDraft, SwapReview
<1> QED
  BY <1>1, <1>2, <1>3, <1>4

(* An index becomes ready only with every batch of the stored package,     *)
(* although begin, add_many, publish and the cleanup of any number of      *)
(* builders interleave over one staging batch, and publish only counts its *)
(* rows.                                                                   *)
THEOREM ReadyIndexComplete == PublicationSpec => ReadyWhenComplete
BY PublicationInvariance, CompleteStep, PTL DEF PublicationSpec, ReadyWhenComplete

LEMMA StaysStep ==
  PublicationInv /\ [PublicationNext]_publicationVars =>
      [ /\ index.status = "ready" /\ index' # index
             => \E c \in Callers : CleanupCommits(c)
        /\ bundle # Nothing => bundle' = bundle ]_publicationVars
<1> SUFFICES ASSUME PublicationInv, NEW c \in Callers,
                    \/ RequestCourse(c) \/ RequestDraft(c) \/ RequestTransition(c)
                    \/ Proceed(c) \/ KillCaller(c)
             PROVE  /\ index.status = "ready" /\ index' # index
                          => CleanupCommits(c)
                    /\ bundle # Nothing => bundle' = bundle
  BY DEF PublicationNext
<1>1. ASSUME index.status = "ready", index' # index PROVE CleanupCommits(c)
  <2>1. ~BuildLexical(c)
    <3> SUFFICES ASSUME BuildLexical(c) PROVE FALSE
      OBVIOUS
    <3>1. call[c].content = package /\ ~setting.vectors
      BY DEF PublicationInv, CallsOK, CallOK, BuildLexical, At
    <3>2. index.rows = [b \in 1..Batches |-> package]
      BY <1>1, <3>1 DEF PublicationInv, StoreOK, IndexType, IndexOK
    <3>3. index = [status |-> "ready", rows |-> [b \in 1..Batches |-> package]]
      BY <1>1, <3>2 DEF PublicationInv, StoreOK, IndexType
    <3> QED
      BY <1>1, <3>1, <3>3 DEF BuildLexical
  <2>2. ~(BeginIndex(c) \/ AddBatch(c) \/ PublishIndex(c))
    BY <1>1 DEF BeginIndex, AddBatch, PublishIndex, IndexFull
  <2>3. DropIndex(c)
    BY <1>1, <2>1, <2>2 DEF Proceed, RequestCourse, RequestDraft,
         RequestTransition, KillCaller, DeleteDocuments, BuildUnreviewed,
         VerifyBundle, CheckReview, LockReview, SaveBundle, CommitBundle,
         InsertDraft, SwapReview
  <2>4. /\ index'.status = "ready"
        /\ \A b \in 1..Batches :
              index'.rows[b] = IF b \in call[c].deleted
                               THEN Nothing ELSE index.rows[b]
    <3> DEFINE Left == [b \in 1..Batches |-> IF b \in call[c].deleted
                                             THEN Nothing ELSE index.rows[b]]
    <3>1. index' = [index EXCEPT !.rows = Left]
      BY <1>1, <2>3 DEF DropIndex, MayDiscard
    <3>2. DOMAIN index = {"status", "rows"}
      BY DEF PublicationInv, StoreOK, IndexType
    <3>3. index'.status = "ready" /\ index'.rows = Left
      <4> HIDE DEF Left
      <4> QED  BY <1>1, <3>1, <3>2
    <3> QED
      BY <3>3
  <2>5. At(c, "drop") /\ call'[c] = Idle
    BY <2>3 DEF DropIndex, Answer, PublicationInv, CallsOK
  <2> QED
    BY <2>4, <2>5 DEF CleanupCommits
<1>2. ASSUME bundle # Nothing PROVE bundle' = bundle
  <2>1. CASE CommitBundle(c)
    BY <1>2, <2>1 DEF PublicationInv, CallsOK, CallOK, CanStore, CommitBundle, At
  <2>2. CASE BuildUnreviewed(c)
    BY <1>2, <2>2 DEF BuildUnreviewed, CanStore
  <2>3. CASE ~(CommitBundle(c) \/ BuildUnreviewed(c))
    BY <2>3 DEF Proceed, RequestCourse, RequestDraft, RequestTransition,
         KillCaller, BuildLexical, BeginIndex, AddBatch, PublishIndex,
         DeleteDocuments, DropIndex, VerifyBundle, CheckReview, LockReview, SaveBundle,
         InsertDraft, SwapReview
  <2> QED
    BY <2>1, <2>2, <2>3
<1> QED
  BY <1>1, <1>2

(* A published bundle is never changed or removed, by however many other   *)
(* seeds or processes that die; a ready index loses nothing but documents  *)
(* that a cleanup had deleted in a transaction still open when the index   *)
(* became ready.                                                           *)
THEOREM PublishedForGood == PublicationSpec => PublishedStays
BY PublicationInvariance, StaysStep, PTL DEF PublicationSpec, PublishedStays

LEMMA ApprovedStep ==
  PublicationInv /\ [PublicationNext]_publicationVars =>
      [ setting.required /\ bundle' # bundle
          => \E r \in Reviews : /\ review[r] # Nothing
                                /\ review[r].state = "approved"
                                /\ review[r].seed = bundle' ]_publicationVars
<1> SUFFICES ASSUME PublicationInv, NEW c \in Callers,
                    \/ RequestCourse(c) \/ RequestDraft(c) \/ RequestTransition(c)
                    \/ Proceed(c) \/ KillCaller(c),
                    setting.required, bundle' # bundle
             PROVE  \E r \in Reviews : /\ review[r] # Nothing
                                       /\ review[r].state = "approved"
                                       /\ review[r].seed = bundle'
  BY DEF PublicationNext
<1>1. CASE CommitBundle(c)
  <2>1. /\ call[c].review \in Reviews /\ bundle' = call[c].seed
        /\ IsApproved(call[c].review, call[c].version, call[c].seed)
    BY <1>1 DEF PublicationInv, CallsOK, CallOK, CommitBundle, At
  <2> QED
    BY <2>1 DEF IsApproved
<1>2. CASE BuildUnreviewed(c)
  BY <1>2 DEF BuildUnreviewed
<1>3. CASE ~(CommitBundle(c) \/ BuildUnreviewed(c))
  BY <1>3 DEF Proceed, RequestCourse, RequestDraft, RequestTransition,
       KillCaller, BuildLexical, BeginIndex, AddBatch, PublishIndex,
       DeleteDocuments, DropIndex, VerifyBundle, CheckReview, LockReview, SaveBundle,
       InsertDraft, SwapReview
<1> QED
  BY <1>1, <1>2, <1>3

(* Where approval is required, a bundle is published only while a review   *)
(* of exactly these seeds is approved, whatever reviews are drafted,       *)
(* decided and recalled meanwhile.                                         *)
THEOREM PublishedUnderApproval == PublicationSpec => PublishedWhileApproved
BY PublicationInvariance, ApprovedStep, PTL DEF PublicationSpec, PublishedWhileApproved

-----------------------------------------------------------------------------
(* The import. *)

ImportSpec == ImportInit /\ [][ImportNext]_importVars

Snapshots == [Rows -> Versions]

(* The first n rows are in the destination as the snapshot has them, or    *)
(* the application on PostgreSQL has written them.                         *)
Imported(snapshot, n) ==
    \A r \in Rows : r <= n => target[r] = snapshot[r] \/ r \in touched

(* A run that applies or marks has imported everything below its cursor:   *)
(* whatever made it trust the cursor at first, it verified it.             *)
RunOK(k) ==
    /\ k.step # "stopped" => k.snapshot \in Snapshots
    /\ k.step \in {"apply", "mark"} => Imported(k.snapshot, k.next)
    /\ k.step = "apply" => k.next < RowCount
    /\ k.step \in {"load", "create"} => k.next = 0

Runs ==
    [step : {"stopped", "load", "create", "verify", "apply", "mark"},
     snapshot : Snapshots \cup {Absent}, next : 0..RowCount]

ImportInv ==
    /\ ImportTypeOK
    /\ writes \in Nat
    /\ \A m \in Migrators : RunOK(migrator[m])
    /\ CheckpointCovered
-----------------------------------------------------------------------------

LEMMA ImportInitOK == ImportInit => ImportInv
<1> SUFFICES ASSUME ImportInit PROVE ImportInv
  OBVIOUS
<1>1. (CHOOSE v \in Versions : TRUE) \in Versions
  BY ImportAssumption
<1>2. Stopped \in Runs /\ RunOK(Stopped)
  BY ImportAssumption DEF Stopped, Runs, RunOK
<1> QED
  BY <1>1, <1>2, ImportAssumption
  DEF ImportInit, ImportInv, ImportTypeOK, Runs, Snapshots, CheckpointCovered

(* What was imported stays imported, whatever is inserted or written. *)
LEMMA ImportedStays ==
  ASSUME ImportInv, ImportNext, NEW s \in Snapshots, NEW n \in 0..RowCount,
         Imported(s, n)
  PROVE  Imported(s, n)'
<1>1. CASE UNCHANGED <<target, touched>>
  BY <1>1 DEF Imported
<1>2. ASSUME NEW m \in Migrators, ApplyBatch(m) PROVE Imported(s, n)'
  <2>1. \A r \in Rows : target[r] # Absent => target'[r] = target[r]
    BY <1>2 DEF ApplyBatch, InsertedRow, ImportInv, ImportTypeOK
  <2>2. \A r \in Rows : s[r] # Absent
    BY ImportAssumption DEF Snapshots
  <2> QED
    BY <1>2, <2>1, <2>2 DEF Imported, ApplyBatch
<1>3. CASE WriteTarget
  BY <1>3 DEF WriteTarget, Imported, ImportInv, ImportTypeOK
<1> QED
  BY <1>1, <1>2, <1>3
  DEF ImportNext, ProceedRun, StartRun, LoadCheckpoint, CreateCheckpoint,
      VerifyTarget, MarkBatch, Die, WriteSource

(* A step of one run: the others keep their places, and their snapshots.   *)
LEMMA RunMoves ==
  ASSUME ImportInv, ImportNext, NEW m \in Migrators, NEW k \in Runs,
         migrator' = [migrator EXCEPT ![m] = k], RunOK(k)'
  PROVE  /\ migrator' \in [Migrators -> Runs]
         /\ \A d \in Migrators : RunOK(migrator[d])'
<1>1. migrator \in [Migrators -> Runs]
  BY DEF ImportInv, ImportTypeOK, Runs, Snapshots
<1>2. ASSUME NEW d \in Migrators, d # m PROVE RunOK(migrator[d])'
  <2>1. migrator'[d] = migrator[d] /\ RunOK(migrator[d]) /\ migrator[d] \in Runs
    BY <1>1, <1>2 DEF ImportInv
  <2>2. migrator[d].step \in {"apply", "mark"} =>
            Imported(migrator[d].snapshot, migrator[d].next)'
    BY <2>1, ImportedStays DEF RunOK, Runs
  <2> QED
    BY <2>1, <2>2 DEF RunOK, Imported
<1> QED
  BY <1>1, <1>2

LEMMA StoppedOK ==
  ASSUME ImportInv, ImportNext, NEW m \in Migrators, Stop(m)
  PROVE  /\ migrator' \in [Migrators -> Runs]
         /\ \A d \in Migrators : RunOK(migrator[d])'
<1>1. Stopped \in Runs /\ RunOK(Stopped)'
  BY ImportAssumption DEF Stopped, Runs, RunOK
<1> QED
  BY <1>1, RunMoves DEF Stop

(* Everything but the runs and the rows is typed as it was. *)
LEMMA RunsOK ==
  ASSUME ImportInv, ImportNext, UNCHANGED <<source, touched, checkpoint, writes>>,
         target' \in [Rows -> Versions \cup {Absent}],
         migrator' \in [Migrators -> Runs],
         \A d \in Migrators : RunOK(migrator[d])'
  PROVE  ImportInv'
<1>1. checkpoint # Absent =>
          /\ checkpoint.snapshot \in Snapshots /\ checkpoint.next \in 0..RowCount
          /\ Imported(checkpoint.snapshot, checkpoint.next)
  BY DEF ImportInv, ImportTypeOK, Checkpoint, CheckpointCovered, Imported, Snapshots
<1>2. CheckpointCovered'
  BY <1>1, ImportedStays DEF CheckpointCovered, Imported
<1> QED
  BY <1>2 DEF ImportInv, ImportTypeOK, Runs, Snapshots

LEMMA StartRunOK ==
  ASSUME ImportInv, ImportNext, NEW m \in Migrators, StartRun(m)
  PROVE  ImportInv'
<1>1. source \in Snapshots
  BY DEF ImportInv, ImportTypeOK, Snapshots
<1>2. PICK k : k = [step |-> "load", snapshot |-> source, next |-> 0]
  OBVIOUS
<1>3. k \in Runs /\ RunOK(k)'
  BY <1>1, <1>2, ImportAssumption DEF Runs, RunOK
<1>4. migrator' = [migrator EXCEPT ![m] = k]
  BY <1>2 DEF StartRun
<1>5. target' \in [Rows -> Versions \cup {Absent}]
  BY DEF StartRun, ImportInv, ImportTypeOK
<1> QED
  BY <1>3, <1>4, <1>5, RunMoves, RunsOK DEF StartRun

LEMMA LoadCheckpointOK ==
  ASSUME ImportInv, ImportNext, NEW m \in Migrators, LoadCheckpoint(m)
  PROVE  ImportInv'
<1>1. PICK k \in Runs :
          k = migrator[m] /\ k.step = "load" /\ k.snapshot \in Snapshots /\ k.next = 0
  BY DEF ImportInv, ImportTypeOK, Runs, Snapshots, LoadCheckpoint, RunOK
<1>2. /\ migrator' \in [Migrators -> Runs]
      /\ \A d \in Migrators : RunOK(migrator[d])'
  <2>1. CASE checkpoint = Absent
    <3>1. PICK l : l = [k EXCEPT !.step = "create"]
      OBVIOUS
    <3>2. l \in Runs /\ RunOK(l)'
      BY <1>1, <3>1 DEF Runs, RunOK
    <3>3. migrator' = [migrator EXCEPT ![m] = l]
      BY <2>1, <1>1, <3>1 DEF LoadCheckpoint
    <3> QED
      BY <3>2, <3>3, RunMoves
  <2>2. CASE checkpoint # Absent /\ checkpoint.snapshot = migrator[m].snapshot
    <3>1. PICK l : l = [k EXCEPT !.step = "verify", !.next = checkpoint.next]
      OBVIOUS
    <3>2. checkpoint.next \in 0..RowCount
      BY <2>2 DEF ImportInv, ImportTypeOK, Checkpoint
    <3>3. l \in Runs /\ RunOK(l)'
      BY <1>1, <3>1, <3>2 DEF Runs, RunOK
    <3>4. migrator' = [migrator EXCEPT ![m] = l]
      BY <2>2, <1>1, <3>1 DEF LoadCheckpoint
    <3> QED
      BY <3>3, <3>4, RunMoves
  <2>3. CASE checkpoint # Absent /\ checkpoint.snapshot # migrator[m].snapshot
    BY <2>3, StoppedOK DEF LoadCheckpoint
  <2> QED
    BY <2>1, <2>2, <2>3
<1>3. target' \in [Rows -> Versions \cup {Absent}]
  BY DEF LoadCheckpoint, ImportInv, ImportTypeOK
<1> QED
  BY <1>2, <1>3, RunsOK DEF LoadCheckpoint

LEMMA CreateCheckpointOK ==
  ASSUME ImportInv, ImportNext, NEW m \in Migrators, CreateCheckpoint(m)
  PROVE  ImportInv'
<1>1. PICK k \in Runs :
          k = migrator[m] /\ k.step = "create" /\ k.snapshot \in Snapshots /\ k.next = 0
  BY DEF ImportInv, ImportTypeOK, Runs, Snapshots, CreateCheckpoint, RunOK
<1>2. PICK l : l = [k EXCEPT !.step = "apply"]
  OBVIOUS
<1>3. l \in Runs /\ RunOK(l)'
  BY <1>1, <1>2, ImportAssumption DEF Runs, RunOK, Imported, Rows
<1>4. migrator' = [migrator EXCEPT ![m] = l]
  BY <1>1, <1>2 DEF CreateCheckpoint
<1>5. checkpoint' \in Checkpoint /\ checkpoint'.next = 0
  BY <1>1, ImportAssumption DEF CreateCheckpoint, Cursor, Checkpoint, Snapshots
<1>6. CheckpointCovered'
  BY <1>5 DEF CheckpointCovered, Rows
<1> QED
  BY <1>3, <1>4, <1>5, <1>6, RunMoves
  DEF CreateCheckpoint, ImportInv, ImportTypeOK, Runs, Snapshots

LEMMA VerifyTargetOK ==
  ASSUME ImportInv, ImportNext, NEW m \in Migrators, VerifyTarget(m)
  PROVE  ImportInv'
<1>1. PICK k \in Runs : k = migrator[m] /\ k.step = "verify" /\ k.snapshot \in Snapshots
  BY DEF ImportInv, ImportTypeOK, Runs, Snapshots, VerifyTarget, RunOK
<1>2. /\ migrator' \in [Migrators -> Runs]
      /\ \A d \in Migrators : RunOK(migrator[d])'
  <2>1. CASE VerifiesDone(m)
    <3>1. PICK l : l = [k EXCEPT !.step = IF k.next < RowCount THEN "apply" ELSE "mark"]
      OBVIOUS
    <3>2. Imported(k.snapshot, k.next)'
      BY <1>1, <2>1 DEF VerifyTarget, VerifiesDone, Imported
    <3>3. l \in Runs /\ RunOK(l)'
      BY <1>1, <3>1, <3>2 DEF Runs, RunOK
    <3>4. migrator' = [migrator EXCEPT ![m] = l]
      BY <2>1, <1>1, <3>1 DEF VerifyTarget
    <3> QED
      BY <3>3, <3>4, RunMoves
  <2>2. CASE ~VerifiesDone(m)
    BY <2>2, StoppedOK DEF VerifyTarget
  <2> QED
    BY <2>1, <2>2
<1>3. target' \in [Rows -> Versions \cup {Absent}]
  BY DEF VerifyTarget, ImportInv, ImportTypeOK
<1> QED
  BY <1>2, <1>3, RunsOK DEF VerifyTarget

LEMMA ApplyBatchOK ==
  ASSUME ImportInv, ImportNext, NEW m \in Migrators, ApplyBatch(m)
  PROVE  ImportInv'
<1>1. PICK k \in Runs :
          /\ k = migrator[m] /\ k.step = "apply" /\ k.snapshot \in Snapshots
          /\ k.next < RowCount /\ Imported(k.snapshot, k.next)
  BY DEF ImportInv, ImportTypeOK, Runs, Snapshots, ApplyBatch, RunOK
<1> DEFINE r == k.next + 1
           inserted == InsertedRow(r, k.snapshot[r])
<1>2. r \in Rows /\ k.next \in 0..RowCount /\ RowCount \in Nat
  BY <1>1, ImportAssumption DEF Runs, Rows
<1>3. k.snapshot[r] \in Versions
  BY <1>1, <1>2 DEF Snapshots
<1>4. CASE inserted = k.snapshot[r] /\ CanRefer(r)
  <2>1. /\ target' = [target EXCEPT ![r] = k.snapshot[r]]
        /\ migrator' = [migrator EXCEPT ![m].step = "mark", ![m].next = r]
        /\ UNCHANGED <<source, touched, checkpoint, writes>>
    BY <1>1, <1>4 DEF ApplyBatch
  <2>2. target' \in [Rows -> Versions \cup {Absent}]
    BY <2>1, <1>3 DEF ImportInv, ImportTypeOK
  <2>3. PICK l : l = [k EXCEPT !.step = "mark", !.next = r]
    OBVIOUS
  <2>4. Imported(k.snapshot, k.next)'
    BY <1>1, <1>2, ImportedStays
  <2>5. target'[r] = k.snapshot[r]
    BY <2>1, <1>2 DEF ImportInv, ImportTypeOK
  <2>6. Imported(k.snapshot, r)'
    BY <2>4, <2>5, <1>2 DEF Imported, Rows
  <2>7. l \in Runs
    <3>1. r \in 0..RowCount
      BY <1>2 DEF Rows
    <3> HIDE DEF r
    <3> QED
      BY <1>1, <3>1, <2>3 DEF Runs
  <2>8. l.step = "mark" /\ l.next = r /\ l.snapshot = k.snapshot
    BY <1>1, <2>3 DEF Runs
  <2>9. RunOK(l)'
    BY <1>1, <2>6, <2>8 DEF RunOK
  <2>10. migrator' = [migrator EXCEPT ![m] = l]
    BY <1>1, <2>1, <2>3 DEF ImportInv, ImportTypeOK
  <2> QED
    BY <2>1, <2>2, <2>7, <2>9, <2>10, RunMoves, RunsOK
<1>5. CASE ~(inserted = k.snapshot[r] /\ CanRefer(r))
  <2>1. Stop(m) /\ UNCHANGED <<source, touched, checkpoint, writes, target>>
    BY <1>1, <1>5 DEF ApplyBatch
  <2>2. target' \in [Rows -> Versions \cup {Absent}]
    BY <2>1 DEF ImportInv, ImportTypeOK
  <2> QED
    BY <2>1, <2>2, StoppedOK, RunsOK
<1> QED
  BY <1>4, <1>5

LEMMA MarkBatchOK ==
  ASSUME ImportInv, ImportNext, NEW m \in Migrators, MarkBatch(m)
  PROVE  ImportInv'
<1>1. PICK k \in Runs :
          /\ k = migrator[m] /\ k.step = "mark" /\ k.snapshot \in Snapshots
          /\ k.next \in 0..RowCount /\ Imported(k.snapshot, k.next)
  BY DEF ImportInv, ImportTypeOK, Runs, Snapshots, MarkBatch, RunOK
<1>2. /\ migrator' \in [Migrators -> Runs]
      /\ \A d \in Migrators : RunOK(migrator[d])'
  <2>1. CASE k.next = RowCount
    BY <1>1, <2>1, StoppedOK DEF MarkBatch
  <2>2. CASE k.next # RowCount
    <3>1. PICK l : l = [k EXCEPT !.step = "apply"]
      OBVIOUS
    <3>2. k.next < RowCount
      BY <1>1, <2>2, ImportAssumption
    <3>3. Imported(k.snapshot, k.next)'
      BY <1>1, ImportedStays
    <3>4. l \in Runs /\ RunOK(l)'
      BY <1>1, <3>1, <3>2, <3>3 DEF Runs, RunOK
    <3>5. migrator' = [migrator EXCEPT ![m] = l]
      BY <1>1, <2>2, <3>1 DEF MarkBatch
    <3> QED
      BY <3>4, <3>5, RunMoves
  <2> QED
    BY <2>1, <2>2
<1>3. checkpoint' = Cursor(StatusAfter(k.next), k.snapshot, k.next)
  BY <1>1 DEF MarkBatch, CursorAt
<1>4. checkpoint' \in Checkpoint
  BY <1>1, <1>3 DEF Cursor, StatusAfter, Checkpoint, Snapshots
<1>5. CheckpointCovered'
  <2>1. Imported(k.snapshot, k.next)'
    BY <1>1, ImportedStays
  <2> QED
    BY <2>1, <1>3 DEF CheckpointCovered, Cursor, Imported
<1> QED
  BY <1>2, <1>4, <1>5 DEF MarkBatch, ImportInv, ImportTypeOK, Runs, Snapshots

LEMMA DieOK ==
  ASSUME ImportInv, ImportNext, NEW m \in Migrators, Die(m)
  PROVE  ImportInv'
<1>1. target' \in [Rows -> Versions \cup {Absent}]
  BY DEF Die, ImportInv, ImportTypeOK
<1> QED
  BY <1>1, StoppedOK, RunsOK DEF Die

(* The applications leave the runs alone. *)
LEMMA WriteOK ==
  ASSUME ImportInv, ImportNext, WriteSource \/ WriteTarget
  PROVE  ImportInv'
<1>1. UNCHANGED <<checkpoint, migrator>> /\ writes' \in Nat
  BY DEF WriteSource, WriteTarget, ImportInv
<1>2. /\ source' \in [Rows -> Versions] /\ touched' \subseteq Rows
      /\ target' \in [Rows -> Versions \cup {Absent}]
  BY DEF WriteSource, WriteTarget, ImportInv, ImportTypeOK
<1>3. ASSUME NEW d \in Migrators PROVE RunOK(migrator[d])'
  <2>1. PICK k \in Runs : k = migrator[d] /\ RunOK(k)
    BY DEF ImportInv, ImportTypeOK, Runs, Snapshots
  <2>2. k.step \in {"apply", "mark"} => Imported(k.snapshot, k.next)'
    BY <2>1, ImportedStays DEF RunOK, Runs
  <2>3. RunOK(k)'
    BY <2>1, <2>2 DEF RunOK
  <2> QED
    BY <1>1, <2>1, <2>3
<1>4. CheckpointCovered'
  <2>1. checkpoint # Absent =>
            /\ checkpoint.snapshot \in Snapshots /\ checkpoint.next \in 0..RowCount
            /\ Imported(checkpoint.snapshot, checkpoint.next)
    BY DEF ImportInv, ImportTypeOK, Checkpoint, CheckpointCovered, Imported, Snapshots
  <2> QED
    BY <1>1, <2>1, ImportedStays DEF CheckpointCovered, Imported
<1> QED
  BY <1>1, <1>2, <1>3, <1>4 DEF ImportInv, ImportTypeOK

LEMMA ImportNextOK == ImportInv /\ [ImportNext]_importVars => ImportInv'
<1> SUFFICES ASSUME ImportInv, [ImportNext]_importVars PROVE ImportInv'
  OBVIOUS
<1>1. CASE ImportNext
  <2>1. ASSUME NEW m \in Migrators, StartRun(m) PROVE ImportInv'
    BY <1>1, <2>1, StartRunOK
  <2>2. ASSUME NEW m \in Migrators, ProceedRun(m) PROVE ImportInv'
    BY <1>1, <2>2, LoadCheckpointOK, CreateCheckpointOK, VerifyTargetOK,
       ApplyBatchOK, MarkBatchOK DEF ProceedRun
  <2>3. ASSUME NEW m \in Migrators, Die(m) PROVE ImportInv'
    BY <1>1, <2>3, DieOK
  <2>4. CASE WriteSource \/ WriteTarget
    BY <1>1, <2>4, WriteOK
  <2> QED
    BY <1>1, <2>1, <2>2, <2>3, <2>4 DEF ImportNext
<1>2. CASE UNCHANGED importVars
  BY <1>2 DEF importVars, ImportInv, ImportTypeOK, RunOK, Imported, CheckpointCovered
<1> QED
  BY <1>1, <1>2
-----------------------------------------------------------------------------

(* The variables of the import keep their types. *)
THEOREM ImportTyping == ImportSpec => []ImportTypeOK
<1>1. ImportInv => ImportTypeOK
  BY DEF ImportInv
<1> QED
  BY <1>1, ImportInitOK, ImportNextOK, PTL DEF ImportSpec

(* The checkpoint never calls a row done that is not in the destination,   *)
(* whichever run wrote the checkpoint (write_checkpoint, apply_batch).     *)
THEOREM CheckpointsCovered == ImportSpec => []CheckpointCovered
<1>1. ImportInv => CheckpointCovered
  BY DEF ImportInv
<1> QED
  BY <1>1, ImportInitOK, ImportNextOK, PTL DEF ImportSpec

(* Only the application on PostgreSQL changes a row that is there: the     *)
(* import inserts with ON CONFLICT DO NOTHING (_insert_statement).         *)
THEOREM NothingReplaced == ImportSpec => NeverReplaces
<1> DEFINE A == writes' = writes =>
          \A r \in Rows : target[r] # Absent => target'[r] = target[r]
<1>1. ImportInv /\ [ImportNext]_importVars => A \/ UNCHANGED importVars
  <2> SUFFICES ASSUME ImportInv, ImportNext, writes' = writes
               PROVE  \A r \in Rows : target[r] # Absent => target'[r] = target[r]
    OBVIOUS
  <2>1. CASE UNCHANGED target
    BY <2>1
  <2>2. ASSUME NEW m \in Migrators, ApplyBatch(m)
        PROVE  \A r \in Rows : target[r] # Absent => target'[r] = target[r]
    BY <2>2 DEF ApplyBatch, InsertedRow, ImportInv, ImportTypeOK
  <2>3. ~WriteTarget
    BY DEF WriteTarget, ImportInv
  <2> QED
    BY <2>1, <2>2, <2>3
    DEF ImportNext, ProceedRun, StartRun, LoadCheckpoint, CreateCheckpoint,
        VerifyTarget, MarkBatch, Die, WriteSource
<1> QED
  BY <1>1, ImportInitOK, ImportNextOK, PTL DEF ImportSpec, NeverReplaces
-----------------------------------------------------------------------------
(* The erasure. *)

ErasureSpec == ErasureInit /\ [][ErasureNext]_erasureVars

(* A file on disk belongs to a run that the erasure will find, or waits to *)
(* be removed, or was written too late.                                    *)
Reached(a) ==
    \/ "student" \in live /\ <<"m0", a>> \in rows
    \/ a \in ToSet(queue)
    \/ <<"file", a>> \in late

Erased == live # {"student", "teacher"}

(* Files are cleaned only after an erasure, so what is written meanwhile   *)
(* is late.                                                                *)
CleanerOK(w) ==
    /\ w.step = "idle" <=> w.jobs = <<>>
    /\ w.step # "idle" => Erased
    /\ w.step = "drop" => Head(w.jobs) \notin files \/ <<"file", Head(w.jobs)>> \in late

(* A store that this erasure has purged holds late rows only.              *)
PurgedLate ==
    eraser.step = "purge" =>
        /\ vendor = "postgresql"
        /\ \A w \in rows : (\E i \in 1..eraser.done : PurgeOrder[i] = w[1]) => w \in late

FilesReached ==
    vendor = "sqlite" =>
        /\ \A a \in Attempts \cap files : Reached(a)
        /\ request.step = "file" => <<"m0", request.attempt>> \in rows \/ Erased

ErasureInv ==
    /\ ErasureTypeOK
    /\ \A c \in Cleaners : CleanerOK(cleaner[c])
    /\ queue # <<>> => Erased
    /\ PurgedLate
    /\ "student" \notin live => rows \subseteq late
    /\ FilesReached
-----------------------------------------------------------------------------
(* The queue. *)

LEMMA Bounds ==
  /\ IsFiniteSet(Files) /\ BatchLimit \in Nat /\ BatchLimit > 0
  /\ Len(PurgeOrder) \in Nat /\ \A i \in 1..Len(PurgeOrder) : PurgeOrder[i] \in Stores
  /\ Stores = {PurgeOrder[i] : i \in 1..Len(PurgeOrder)}
  /\ {"m0", "m5", "m8"} \subseteq Stores
<1>1. IsFiniteSet(Files)
  BY ErasureAssumption, FS_Union DEF Files
<1>2. BatchLimit \in Nat /\ BatchLimit > 0
  BY ErasureAssumption
<1>3. PurgeOrder \in Seq(Stores) /\ {"m0", "m5", "m8"} \subseteq Stores
  BY ErasureAssumption
<1>4. Len(PurgeOrder) \in Nat /\ \A i \in 1..Len(PurgeOrder) : PurgeOrder[i] \in Stores
  BY <1>3
<1> QED
  BY <1>1, <1>2, <1>3, <1>4 DEF Stores

LEMMA Listed ==
  ASSUME NEW S \in SUBSET Files
  PROVE  SetToSeq(S) \in Seq(Files) /\ IsInjective(SetToSeq(S)) /\ ToSet(SetToSeq(S)) = S
<1>1. IsFiniteSet(S)
  BY Bounds, FS_Subset
<1> DEFINE n == Cardinality(S)  f == SetToSeq(S)
<1>2. n \in Nat /\ ExistsBijection(1..n, S)
  BY <1>1, FS_CardinalityType
<1>3. \E g \in [1..n -> S] : IsInjective(g)
  BY <1>2 DEF ExistsBijection, Bijection, Injection
<1>4. f \in [1..n -> S] /\ IsInjective(f)
  BY <1>3 DEF SetToSeq
<1>5. Cardinality(1..n) = n
  BY <1>2, FS_Interval
<1>6. f \in Surjection(1..n, S)
  BY <1>1, <1>4, <1>5, FS_Injection DEF Injection
<1>7. ToSet(f) = S
  BY <1>4, <1>6 DEF ToSet, Surjection
<1>8. f \in Seq(Files)
  BY <1>2, <1>4
<1> QED
  BY <1>4, <1>7, <1>8

(* Queueing keeps what is queued. *)
LEMMA QueueingOK ==
  ASSUME ErasureTypeOK, NEW S \in SUBSET Files
  PROVE  /\ Queued(S) \in Seq(Files) /\ IsInjective(Queued(S))
         /\ ToSet(Queued(S)) = ToSet(queue) \cup S
<1> DEFINE t == SetToSeq(S \ ToSet(queue))
<1>1. t \in Seq(Files) /\ IsInjective(t) /\ ToSet(t) = S \ ToSet(queue)
  BY Listed
<1>2. queue \in Seq(Files) /\ IsInjective(queue)
  BY DEF ErasureTypeOK
<1>3. /\ queue \o t \in Seq(Files) /\ Len(queue \o t) = Len(queue) + Len(t)
      /\ \A i \in 1 .. Len(queue) + Len(t) :
            (queue \o t)[i] = IF i <= Len(queue) THEN queue[i] ELSE t[i - Len(queue)]
  BY <1>1, <1>2, ConcatProperties
<1>4. /\ Len(queue) \in Nat /\ Len(t) \in Nat
      /\ DOMAIN queue = 1..Len(queue) /\ DOMAIN t = 1..Len(t)
      /\ DOMAIN (queue \o t) = 1..(Len(queue) + Len(t))
  BY <1>1, <1>2, <1>3
<1> HIDE DEF t
<1>5. ASSUME NEW i \in DOMAIN (queue \o t), NEW j \in DOMAIN (queue \o t),
             (queue \o t)[i] = (queue \o t)[j]
      PROVE  i = j
  <2>1. CASE i <= Len(queue) /\ j <= Len(queue)
    BY <1>2, <1>3, <1>4, <1>5, <2>1 DEF IsInjective
  <2>2. CASE i > Len(queue) /\ j > Len(queue)
    <3>1. i - Len(queue) \in DOMAIN t /\ j - Len(queue) \in DOMAIN t
      BY <1>4, <2>2
    <3>2. t[i - Len(queue)] = t[j - Len(queue)]
      BY <1>3, <1>4, <1>5, <2>2
    <3>3. i - Len(queue) = j - Len(queue)
      BY <1>1, <3>1, <3>2 DEF IsInjective
    <3> QED
      BY <1>4, <3>3
  <2>3. ASSUME NEW k \in DOMAIN (queue \o t), NEW l \in DOMAIN (queue \o t),
               k <= Len(queue), l > Len(queue)
        PROVE  (queue \o t)[k] # (queue \o t)[l]
    <3>1. k \in DOMAIN queue /\ l - Len(queue) \in DOMAIN t
      BY <1>4, <2>3
    <3>2. (queue \o t)[k] \in ToSet(queue) /\ (queue \o t)[l] \in ToSet(t)
      BY <1>3, <1>4, <2>3, <3>1 DEF ToSet
    <3> QED
      BY <1>1, <3>2
  <2> QED
    BY <1>4, <1>5, <2>1, <2>2, <2>3
<1>6. ToSet(queue \o t) = ToSet(queue) \cup ToSet(t)
  <2>1. ToSet(queue \o t) \subseteq ToSet(queue) \cup ToSet(t)
    BY <1>3, <1>4 DEF ToSet
  <2>2. ToSet(queue) \subseteq ToSet(queue \o t)
    BY <1>3, <1>4 DEF ToSet
  <2>3. ASSUME NEW i \in DOMAIN t PROVE t[i] \in ToSet(queue \o t)
    <3>1. i + Len(queue) \in DOMAIN (queue \o t) /\ (queue \o t)[i + Len(queue)] = t[i]
      BY <1>3, <1>4, <2>3
    <3> QED
      BY <3>1 DEF ToSet
  <2> QED
    BY <2>1, <2>2, <2>3 DEF ToSet
<1> QED
  BY <1>1, <1>3, <1>5, <1>6 DEF Queued, IsInjective, t

(* A job that is dropped is the only one. *)
LEMMA DroppingOK ==
  ASSUME ErasureTypeOK, NEW i \in DOMAIN queue
  PROVE  /\ RemoveAt(queue, i) \in Seq(Files) /\ IsInjective(RemoveAt(queue, i))
         /\ ToSet(RemoveAt(queue, i)) = ToSet(queue) \ {queue[i]}
<1> DEFINE n == Len(queue)  s == SubSeq(queue, 1, i-1)  t == SubSeq(queue, i+1, n)
           Before(k) == IF k < i THEN k ELSE k + 1
<1>1. queue \in Seq(Files) /\ n \in Nat /\ i \in 1..n /\ DOMAIN queue = 1..n
      /\ IsInjective(queue) /\ \A k \in 1..n : queue[k] \in Files
  BY DEF ErasureTypeOK
<1>2. s \in Seq(Files) /\ Len(s) = i - 1 /\ \A k \in 1 .. i - 1 : s[k] = queue[k]
  <2>1. \A k \in 1 .. i - 1 : queue[k] \in Files
    BY <1>1
  <2>2. 1 \in Int /\ i - 1 \in Int
    BY <1>1
  <2>3. /\ s \in Seq(Files) /\ Len(s) = IF 1 <= i - 1 THEN (i - 1) - 1 + 1 ELSE 0
        /\ \A k \in 1 .. (i - 1) - 1 + 1 : s[k] = queue[1 + k - 1]
    BY <2>1, <2>2, SubSeqProperties
  <2> QED
    BY <1>1, <2>3
<1>3. t \in Seq(Files) /\ Len(t) = n - i /\ \A k \in 1 .. n - i : t[k] = queue[i + k]
  <2>1. \A k \in i + 1 .. n : queue[k] \in Files
    BY <1>1
  <2>2. i + 1 \in Int /\ n \in Int
    BY <1>1
  <2>3. /\ t \in Seq(Files) /\ Len(t) = IF i + 1 <= n THEN n - (i + 1) + 1 ELSE 0
        /\ \A k \in 1 .. n - (i + 1) + 1 : t[k] = queue[(i + 1) + k - 1]
    <3> HIDE DEF n
    <3> QED
      BY <2>1, <2>2, SubSeqProperties
  <2>4. n - (i + 1) + 1 = n - i /\ \A k \in 1 .. n - i : (i + 1) + k - 1 = i + k
    BY <1>1
  <2>5. \A k \in 1 .. n - i : t[k] = queue[i + k]
    BY <2>3, <2>4
  <2>6. Len(t) = n - i
    BY <1>1, <2>3, <2>4
  <2> QED
    BY <2>3, <2>5, <2>6
<1> HIDE DEF s, t
<1>4. /\ s \o t \in Seq(Files) /\ Len(s \o t) = n - 1
      /\ \A k \in 1 .. n - 1 : (s \o t)[k] = queue[Before(k)]
  <2>1. /\ s \o t \in Seq(Files) /\ Len(s \o t) = Len(s) + Len(t)
        /\ \A k \in 1 .. Len(s) + Len(t) :
              (s \o t)[k] = IF k <= Len(s) THEN s[k] ELSE t[k - Len(s)]
    BY <1>2, <1>3, ConcatProperties
  <2>2. Len(s) + Len(t) = n - 1
    BY <1>1, <1>2, <1>3
  <2>3. ASSUME NEW k \in 1 .. n - 1 PROVE (s \o t)[k] = queue[Before(k)]
    <3>1. CASE k <= i - 1
      BY <1>1, <1>2, <2>1, <2>2, <3>1
    <3>2. CASE k > i - 1
      <4>1. k - (i - 1) \in 1 .. n - i /\ (s \o t)[k] = t[k - (i - 1)]
        <5>1. k - (i - 1) \in 1 .. n - i /\ ~(k <= Len(s)) /\ k \in 1 .. Len(s) + Len(t)
          BY <1>1, <1>2, <2>2, <3>2
        <5>2. (s \o t)[k] = t[k - Len(s)]
          BY <2>1, <5>1
        <5> QED
          BY <1>2, <5>1, <5>2
      <4>2. t[k - (i - 1)] = queue[i + (k - (i - 1))] /\ i + (k - (i - 1)) = k + 1
        BY <1>1, <1>3, <4>1
      <4>3. Before(k) = k + 1
        BY <1>1, <3>2
      <4>4. queue[i + (k - (i - 1))] = queue[k + 1]
        BY <4>2
      <4> HIDE DEF Before
      <4> QED
        BY <4>1, <4>2, <4>3, <4>4
    <3>3. k <= i - 1 \/ k > i - 1
      BY <1>1
    <3> HIDE DEF Before
    <3> QED
      BY <3>1, <3>2, <3>3
  <2> QED
    BY <2>1, <2>2, <2>3
<1>5. /\ \A k \in 1 .. n - 1 : Before(k) \in 1..n /\ Before(k) # i
      /\ \A k, l \in 1 .. n - 1 : Before(k) = Before(l) => k = l
      /\ \A m \in 1..n : m # i => \E k \in 1 .. n - 1 : Before(k) = m
  <2>1. \A k \in 1 .. n - 1 : Before(k) \in 1..n /\ Before(k) # i
    BY <1>1
  <2>2. \A k, l \in 1 .. n - 1 : Before(k) = Before(l) => k = l
    BY <1>1
  <2>3. ASSUME NEW m \in 1..n, m # i PROVE \E k \in 1 .. n - 1 : Before(k) = m
    <3>1. CASE m < i
      BY <1>1, <2>3, <3>1
    <3>2. CASE m > i
      <4>1. m - 1 \in 1 .. n - 1 /\ Before(m - 1) = m
        BY <1>1, <2>3, <3>2
      <4> QED
        BY <4>1
    <3> QED
      BY <1>1, <2>3, <3>1, <3>2
  <2> QED
    BY <2>1, <2>2, <2>3
<1> HIDE DEF Before
<1>6. DOMAIN (s \o t) = 1 .. n - 1
  <2>1. DOMAIN (s \o t) = 1 .. Len(s \o t)
    BY <1>4
  <2> QED
    BY <1>4, <2>1
<1>7. IsInjective(s \o t)
  BY <1>1, <1>4, <1>5, <1>6 DEF IsInjective
<1>8. ToSet(s \o t) = ToSet(queue) \ {queue[i]}
  <2>1. ASSUME NEW k \in DOMAIN (s \o t)
        PROVE  (s \o t)[k] \in ToSet(queue) \ {queue[i]}
    <3>1. Before(k) \in DOMAIN queue /\ Before(k) # i /\ (s \o t)[k] = queue[Before(k)]
      BY <1>1, <1>4, <1>5, <1>6
    <3>2. queue[Before(k)] # queue[i]
      BY <1>1, <3>1 DEF IsInjective
    <3> QED
      BY <3>1, <3>2 DEF ToSet
  <2>2. ASSUME NEW m \in DOMAIN queue, queue[m] # queue[i] PROVE queue[m] \in ToSet(s \o t)
    <3>1. PICK k \in 1 .. n - 1 : Before(k) = m
      BY <1>1, <1>5, <2>2
    <3> QED
      BY <1>4, <1>6, <3>1 DEF ToSet
  <2> QED
    BY <2>1, <2>2 DEF ToSet
<1> QED
  BY <1>4, <1>7, <1>8 DEF RemoveAt, s, t
-----------------------------------------------------------------------------
(* The steps. *)

LEMMA ErasureInitOK == ErasureInit => ErasureInv
<1> SUFFICES ASSUME ErasureInit PROVE ErasureInv
  OBVIOUS
<1>1. ErasureTypeOK
  BY Bounds DEF ErasureInit, ErasureTypeOK, Resting, NoSubmission, NoErasure, Files, IsInjective
<1>2. FilesReached
  BY ErasureAssumption DEF ErasureInit, FilesReached, NoSubmission
<1> QED
  BY <1>1, <1>2 DEF ErasureInit, ErasureInv, CleanerOK, Resting, PurgedLate, NoErasure

(* What nothing but the cleaning disturbs: the batches, while the files    *)
(* they have removed stay away.                                            *)
LEMMA CleanersStay ==
  ASSUME ErasureInv, UNCHANGED cleaner, Erased => Erased',
         \A f : f \in files' => f \in files \/ <<"file", f>> \in late',
         \A f : <<"file", f>> \in late => <<"file", f>> \in late'
  PROVE  \A c \in Cleaners : CleanerOK(cleaner[c])'
<1> SUFFICES ASSUME NEW c \in Cleaners PROVE CleanerOK(cleaner[c])'
  OBVIOUS
<1>1. CleanerOK(cleaner[c])
  BY DEF ErasureInv
<1> QED
  BY <1>1 DEF CleanerOK

(* A request of the student. *)
LEMMA SubmitOK == ASSUME ErasureInv, NEW a \in Attempts, Submit(a) PROVE ErasureInv'
<1>1. ErasureTypeOK'
  BY DEF ErasureInv, ErasureTypeOK, Submit, Files
<1>2. \A c \in Cleaners : CleanerOK(cleaner[c])'
  BY CleanersStay DEF Submit, Erased
<1> QED
  BY <1>1, <1>2 DEF ErasureInv, Submit, Erased, PurgedLate, FilesReached, Reached

(* A row that is written after the erasure has passed is late. *)
LEMMA WrittenOK ==
  ASSUME ErasureInv, NEW store \in Stores, NEW a \in Attempts, Write(store, a),
         UNCHANGED <<vendor, live, roster, files, queue, eraser, cleaner>>,
         request' \in {NoSubmission} \cup
              [step : {"record", "file", "claim", "m8", "m5"}, attempt : Attempts],
         request'.step = "file" => <<"m0", request'.attempt>> \in rows'
  PROVE  ErasureInv'
<1>1. rows \subseteq rows' /\ late \subseteq late'
  BY DEF Write
<1>2. ErasureTypeOK'
  BY DEF ErasureInv, ErasureTypeOK, Write, Files
<1>3. \A c \in Cleaners : CleanerOK(cleaner[c])'
  BY <1>1, CleanersStay DEF Erased
<1>4. PurgedLate'
  <2> SUFFICES ASSUME eraser.step = "purge", NEW w \in rows', NEW i \in 1..eraser.done,
                      PurgeOrder[i] = w[1]
               PROVE  w \in late'
    BY DEF PurgedLate, ErasureInv
  <2>1. CASE w \in rows
    BY <1>1, <2>1 DEF PurgedLate, ErasureInv
  <2>2. CASE w = <<store, a>>
    BY <2>2 DEF Write, Passed
  <2> QED
    BY <2>1, <2>2 DEF Write
<1>5. "student" \notin live' => rows' \subseteq late'
  BY <1>1 DEF ErasureInv, Write, Passed
<1>6. FilesReached'
  BY <1>1 DEF ErasureInv, FilesReached, Reached, Erased
<1> QED
  BY <1>2, <1>3, <1>4, <1>5, <1>6 DEF ErasureInv, Erased

LEMMA RequestOK ==
  ASSUME ErasureInv, RecordRun \/ FreezeSubmission \/ ClaimRun \/ Score \/ Post
  PROVE  ErasureInv'
<1> USE DEF ErasureInv
<1>1. ASSUME request.step # "none" PROVE request.attempt \in Attempts /\ request \in
               [step : {"record", "file", "claim", "m8", "m5"}, attempt : Attempts]
  BY <1>1 DEF ErasureTypeOK, NoSubmission
<1>2. CASE RecordRun
  <2>1. request.attempt \in Attempts /\ "m0" \in Stores
    BY <1>1, <1>2, Bounds DEF RecordRun
  <2>2. /\ request' \in [step : {"record", "file", "claim", "m8", "m5"}, attempt : Attempts]
        /\ request'.attempt = request.attempt
    BY <1>1, <1>2 DEF RecordRun
  <2>3. <<"m0", request.attempt>> \in rows'
    BY <1>2 DEF RecordRun, Write
  <2> QED
    BY <1>2, <2>1, <2>2, <2>3, WrittenOK DEF RecordRun
<1>3. CASE FreezeSubmission
  <2>1. /\ request.attempt \in Attempts
        /\ request' \in [step : {"record", "file", "claim", "m8", "m5"}, attempt : Attempts]
        /\ request'.step = "claim"
    BY <1>1, <1>3 DEF FreezeSubmission
  <2>2. late \subseteq late' /\ (Passed("m0") => <<"file", request.attempt>> \in late')
    BY <1>3 DEF FreezeSubmission
  <2>3. Erased => Passed("m0")
    BY DEF Erased, Passed
  <2>4. ErasureTypeOK'
    BY <1>3, <2>1 DEF FreezeSubmission, ErasureTypeOK, Files
  <2>5. \A c \in Cleaners : CleanerOK(cleaner[c])'
    <3> SUFFICES ASSUME NEW c \in Cleaners PROVE CleanerOK(cleaner[c])'
      OBVIOUS
    <3>1. CleanerOK(cleaner[c])
      OBVIOUS
    <3> QED
      BY <1>3, <2>2, <2>3, <3>1 DEF CleanerOK, Erased, FreezeSubmission
  <2>6. PurgedLate'
    BY <1>3, <2>2 DEF FreezeSubmission, PurgedLate
  <2>7. FilesReached'
    <3>1. CASE Erased
      BY <1>3, <2>1, <2>2, <2>3, <3>1 DEF FreezeSubmission, FilesReached, Reached, Erased
    <3>2. CASE ~Erased
      BY <1>3, <2>1, <2>2, <3>2 DEF FreezeSubmission, FilesReached, Reached, Erased
    <3> QED
      BY <3>1, <3>2
  <2> QED
    BY <1>3, <2>2, <2>4, <2>5, <2>6, <2>7 DEF FreezeSubmission, Erased
<1>4. CASE ClaimRun
  <2>1. ErasureTypeOK'
    BY <1>1, <1>4 DEF ClaimRun, ErasureTypeOK, Files
  <2>2. \A c \in Cleaners : CleanerOK(cleaner[c])'
    BY <1>4, CleanersStay DEF ClaimRun, Erased
  <2>3. request'.step # "file"
    BY <1>1, <1>4 DEF ClaimRun, NoSubmission
  <2> QED
    BY <1>4, <2>1, <2>2, <2>3 DEF ClaimRun, Erased, PurgedLate, FilesReached, Reached
<1>5. ASSUME NEW store \in Stores, NEW next \in {"m5", "none"}, StoreResult(store, next),
             request.step # "none"
      PROVE  ErasureInv'
  <2>1. /\ request' \in {NoSubmission} \cup
               [step : {"record", "file", "claim", "m8", "m5"}, attempt : Attempts]
        /\ request'.step # "file"
    BY <1>1, <1>5 DEF StoreResult, NoSubmission
  <2> QED
    BY <1>1, <1>5, <2>1, WrittenOK DEF StoreResult
<1>6. CASE Score
  BY <1>5, <1>6, Bounds DEF Score, StoreResult
<1>7. CASE Post
  BY <1>5, <1>7, Bounds DEF Post, StoreResult
<1> QED
  BY <1>2, <1>3, <1>4, <1>6, <1>7

LEMMA RosterOK ==
  ASSUME ErasureInv, NEW c \in Classes, AddStudent(c) \/ RemoveStudent(c)
  PROVE  ErasureInv'
<1>1. /\ UNCHANGED <<vendor, cleaner, live, rows, files, queue, request, eraser, late>>
      /\ roster' \subseteq Classes
  BY DEF AddStudent, RemoveStudent, ChangeRoster, ErasureInv, ErasureTypeOK
<1>2. ErasureTypeOK'
  BY <1>1 DEF ErasureInv, ErasureTypeOK
<1>3. \A d \in Cleaners : CleanerOK(cleaner[d])'
  BY <1>1, CleanersStay DEF Erased
<1> QED
  BY <1>1, <1>2, <1>3 DEF ErasureInv, Erased, PurgedLate, FilesReached, Reached

(* An erasure that removes every row at once queues the files it finds.    *)
LEMMA EraseAllOK ==
  ASSUME ErasureInv, EraseOnSqlite \/ EraseTeacher PROVE ErasureInv'
<1> DEFINE found == FrozenAttempts \cup IF EraseOnSqlite THEN {} ELSE Uploads
<1>1. /\ vendor = "sqlite" /\ found \in SUBSET Files
      /\ \A a \in Attempts : <<"m0", a>> \in rows => a \in found
  BY DEF EraseOnSqlite, EraseTeacher, FrozenAttempts, Files
<1>2. /\ queue' \in Seq(Files) /\ IsInjective(queue') /\ ToSet(queue') = ToSet(queue) \cup found
  BY <1>1, QueueingOK DEF EraseOnSqlite, EraseTeacher, ErasureInv
<1> HIDE DEF found
<1>3. /\ rows' = {} /\ roster' = {} /\ eraser' = [step |-> "files"]
      /\ live' \subseteq live /\ live' # {"student", "teacher"}
      /\ UNCHANGED <<vendor, cleaner, files, request>>
  BY DEF EraseOnSqlite, EraseTeacher
<1>4. \A f : <<"file", f>> \in late => <<"file", f>> \in late'
  BY DEF EraseOnSqlite, EraseTeacher, LateFiles
<1>5. ErasureTypeOK'
  BY <1>2, <1>3 DEF ErasureInv, ErasureTypeOK
<1>6. \A c \in Cleaners : CleanerOK(cleaner[c])'
  BY <1>3, <1>4, CleanersStay DEF Erased
<1>7. FilesReached'
  <2>1. ASSUME NEW a \in Attempts \cap files PROVE Reached(a)'
    BY <1>1, <1>2, <1>3, <1>4 DEF ErasureInv, FilesReached, Reached
  <2> QED
    BY <1>3, <2>1 DEF FilesReached, Erased
<1> QED
  BY <1>3, <1>5, <1>6, <1>7 DEF ErasureInv, Erased, PurgedLate

(* Without a file, a row or a job: what the eraser on PostgreSQL does.     *)
LEMMA PurgingOK ==
  ASSUME ErasureInv, BeginErasure \/ PurgeStore \/ CommitErasure \/ FailErasure
  PROVE  ErasureInv'
<1> USE DEF ErasureInv
<1>1. /\ rows' \subseteq rows /\ live' \subseteq live /\ roster' \subseteq Classes
      /\ UNCHANGED <<vendor, cleaner, files, queue, request>>
      /\ \A f : <<"file", f>> \in late => <<"file", f>> \in late'
  BY DEF BeginErasure, PurgeStore, CommitErasure, FailErasure, LateFiles, ErasureTypeOK
<1>2. eraser' \in {NoErasure} \cup [step : {"files"}] \cup
            [step : {"purge"}, done : 0..Len(PurgeOrder)]
  <2>1. CASE PurgeStore
    <3>1. eraser.done \in 0..Len(PurgeOrder) /\ eraser = [step |-> "purge", done |-> eraser.done]
      BY <2>1 DEF PurgeStore, ErasureTypeOK, NoErasure
    <3>2. eraser' = [step |-> "purge", done |-> eraser.done + 1]
      BY <2>1, <3>1 DEF PurgeStore
    <3>3. eraser.done + 1 \in 0..Len(PurgeOrder)
      BY <2>1, <3>1, Bounds DEF PurgeStore
    <3> QED
      BY <3>2, <3>3
  <2> QED
    BY <2>1, Bounds DEF BeginErasure, CommitErasure, FailErasure
<1>3. ErasureTypeOK'
  BY <1>1, <1>2 DEF ErasureTypeOK
<1>4. Erased => Erased'
  BY <1>1 DEF Erased, ErasureTypeOK
<1>5. \A c \in Cleaners : CleanerOK(cleaner[c])'
  BY <1>1, <1>4, CleanersStay
<1>6. vendor = "postgresql"
  BY DEF BeginErasure, PurgeStore, CommitErasure, FailErasure, PurgedLate
<1>7. FilesReached'
  BY <1>1, <1>6 DEF FilesReached
<1>8. PurgedLate'
  <2>1. CASE BeginErasure
    BY <1>1, <1>6, <2>1 DEF BeginErasure, PurgedLate
  <2>2. CASE PurgeStore
    <3>1. /\ eraser.done \in Nat /\ eraser'.done = eraser.done + 1
          /\ \A w \in rows' : w \in rows /\ w[1] # PurgeOrder[eraser.done + 1]
      BY <2>2 DEF PurgeStore, PurgedFrom, ErasureTypeOK, NoErasure
    <3>2. ASSUME NEW w \in rows', NEW i \in 1..(eraser.done + 1), PurgeOrder[i] = w[1]
          PROVE  w \in late
      BY <2>2, <3>1, <3>2 DEF PurgeStore, PurgedLate
    <3> QED
      BY <1>1, <1>6, <2>2, <3>1, <3>2 DEF PurgeStore, PurgedLate
  <2> QED
    BY <2>1, <2>2 DEF CommitErasure, FailErasure, PurgedLate, NoErasure
<1>9. "student" \notin live' => rows' \subseteq late'
  <2>1. CASE CommitErasure
    <3>1. ASSUME NEW w \in rows PROVE w \in late
      <4>1. PICK i \in 1..Len(PurgeOrder) : PurgeOrder[i] = w[1]
        BY Bounds DEF ErasureTypeOK
      <4> QED
        BY <2>1, <4>1 DEF CommitErasure, PurgedLate
    <3> QED
      BY <2>1, <3>1 DEF CommitErasure
  <2> QED
    BY <2>1 DEF BeginErasure, PurgeStore, FailErasure
<1> QED
  BY <1>1, <1>3, <1>4, <1>5, <1>7, <1>8, <1>9

(* The cleaning.  What a caller goes on with is a batch of jobs. *)
LEMMA GoOnOK ==
  ASSUME ErasureInv, NEW c \in Cleaners, NEW jobs \in Seq(Files), GoOn(c, jobs),
         jobs # <<>> => Erased, Erased => Erased',
         \A f : f \in files' => f \in files, UNCHANGED late
  PROVE  /\ (cleaner \in [Cleaners -> [step : {"idle", "unlink", "drop"}, jobs : Seq(Files)]])'
         /\ \A d \in Cleaners : CleanerOK(cleaner[d])'
         /\ eraser' \in {NoErasure, eraser}
<1> DEFINE w == IF jobs = <<>> THEN Resting ELSE [step |-> "unlink", jobs |-> jobs]
<1>1. w \in [step : {"idle", "unlink", "drop"}, jobs : Seq(Files)] /\ CleanerOK(w)'
  BY DEF Resting, CleanerOK
<1>2. cleaner' = [cleaner EXCEPT ![c] = w] /\ eraser' \in {NoErasure, eraser}
  BY DEF GoOn
<1> HIDE DEF w
<1>3. cleaner \in [Cleaners -> [step : {"idle", "unlink", "drop"}, jobs : Seq(Files)]]
  BY DEF ErasureInv, ErasureTypeOK
<1>4. ASSUME NEW d \in Cleaners PROVE CleanerOK(cleaner[d])'
  <2>1. CASE d = c
    <3>1. cleaner'[d] = w
      BY <1>2, <1>3, <2>1
    <3> QED
      BY <1>1, <3>1 DEF CleanerOK
  <2>2. CASE d # c
    <3>1. cleaner'[d] = cleaner[d] /\ CleanerOK(cleaner[d])
      BY <1>2, <1>3, <2>2 DEF ErasureInv
    <3> QED
      BY <3>1 DEF CleanerOK
  <2> QED
    BY <2>1, <2>2
<1> QED
  BY <1>1, <1>2, <1>3, <1>4

(* What is dropped from the queue is not on disk, or late. *)
LEMMA CleaningOK ==
  ASSUME ErasureInv,
         (cleaner \in [Cleaners -> [step : {"idle", "unlink", "drop"}, jobs : Seq(Files)]])',
         \A d \in Cleaners : CleanerOK(cleaner[d])',
         eraser' \in {NoErasure, eraser}, files' \subseteq files,
         queue' \in Seq(Files), IsInjective(queue'), ToSet(queue') \subseteq ToSet(queue),
         \A f \in ToSet(queue) \ ToSet(queue') : f \notin files' \/ <<"file", f>> \in late,
         UNCHANGED <<vendor, live, roster, rows, request, late>>
  PROVE  ErasureInv'
<1> USE DEF ErasureInv
<1>1. ErasureTypeOK'
  BY DEF ErasureTypeOK
<1>2. queue' # <<>> => Erased'
  <2>1. queue' # <<>> => ToSet(queue') # {}
    <3>1. Len(queue') \in Nat /\ DOMAIN queue' = 1..Len(queue') /\ (queue' # <<>> => Len(queue') # 0)
      OBVIOUS
    <3>2. queue' # <<>> => 1 \in DOMAIN queue'
      BY <3>1
    <3> QED
      BY <3>2 DEF ToSet
  <2>2. ToSet(queue) # {} => queue # <<>>
    BY DEF ToSet
  <2> QED
    BY <2>1, <2>2 DEF Erased
<1>3. PurgedLate'
  BY DEF PurgedLate, NoErasure
<1>4. FilesReached'
  BY DEF FilesReached, Reached, Erased
<1> QED
  BY <1>1, <1>2, <1>3, <1>4

LEMMA CleanOK ==
  ASSUME ErasureInv, NEW c \in Cleaners, Clean(c) \/ DieCleaning(c)
  PROVE  ErasureInv'
<1> USE DEF ErasureInv
<1>1. queue \in Seq(Files) /\ IsInjective(queue)
  BY DEF ErasureTypeOK
<1>2. ASSUME cleaner[c] # Resting
      PROVE  /\ cleaner[c].jobs \in Seq(Files) /\ cleaner[c].jobs # <<>> /\ Erased
             /\ Tail(cleaner[c].jobs) \in Seq(Files)
  <2>1. cleaner[c] \in [step : {"idle", "unlink", "drop"}, jobs : Seq(Files)]
    BY DEF ErasureTypeOK
  <2>2. cleaner[c].jobs # <<>>
    BY <1>2, <2>1 DEF CleanerOK, Resting
  <2> QED
    BY <2>1, <2>2, HeadTailProperties DEF CleanerOK
<1>3. CASE ReadBatch(c)
  <2>1. Batch \in Seq(Files) /\ (queue = <<>> => Batch = <<>>)
    <3> DEFINE n == IF Len(queue) < BatchLimit THEN Len(queue) ELSE BatchLimit
    <3>1. n \in Int /\ \A i \in 1..n : queue[i] \in Files
      BY <1>1, Bounds
    <3>2. Batch \in Seq(Files)
      BY <3>1, SubSeqProperties DEF Batch
    <3>3. queue = <<>> => n = 0
      BY Bounds
    <3> QED
      BY <3>2, <3>3, SubSeqEmpty DEF Batch
  <2>2. /\ (cleaner \in [Cleaners -> [step : {"idle", "unlink", "drop"}, jobs : Seq(Files)]])'
        /\ \A d \in Cleaners : CleanerOK(cleaner[d])'
        /\ eraser' \in {NoErasure, eraser}
    BY <1>3, <2>1, GoOnOK DEF ReadBatch, Erased
  <2> QED
    BY <1>1, <1>3, <2>2, CleaningOK DEF ReadBatch
<1>4. CASE UnlinkFile(c)
  <2> DEFINE jobs == cleaner[c].jobs
  <2>1. jobs \in Seq(Files) /\ jobs # <<>> /\ Erased /\ Tail(jobs) \in Seq(Files)
    BY <1>2, <1>4 DEF UnlinkFile, Resting
  <2>2. CASE Head(jobs) \in Stuck
    <3>1. /\ (cleaner \in [Cleaners -> [step : {"idle", "unlink", "drop"}, jobs : Seq(Files)]])'
          /\ \A d \in Cleaners : CleanerOK(cleaner[d])'
          /\ eraser' \in {NoErasure, eraser}
      BY <1>4, <2>1, <2>2, GoOnOK DEF UnlinkFile, Erased
    <3> QED
      BY <1>1, <1>4, <2>2, <3>1, CleaningOK DEF UnlinkFile
  <2>3. CASE Head(jobs) \notin Stuck
    <3>1. /\ files' = files \ {Head(jobs)}
          /\ cleaner' = [cleaner EXCEPT ![c].step = "drop"]
          /\ UNCHANGED <<eraser, queue, live, late>>
      BY <1>4, <2>3 DEF UnlinkFile
    <3>2. cleaner \in [Cleaners -> [step : {"idle", "unlink", "drop"}, jobs : Seq(Files)]]
      BY DEF ErasureTypeOK
    <3>3. cleaner'[c] = [step |-> "drop", jobs |-> jobs]
      BY <3>1, <3>2
    <3>4. ASSUME NEW d \in Cleaners PROVE CleanerOK(cleaner[d])'
      <4>1. CASE d = c
        <5>1. cleaner'[d].step = "drop" /\ cleaner'[d].jobs = jobs
          BY <3>3, <4>1
        <5>2. Head(jobs) \notin files' /\ live' # {"student", "teacher"}
          BY <2>1, <3>1 DEF Erased
        <5>3. /\ cleaner'[d].step = "idle" <=> cleaner'[d].jobs = <<>>
              /\ cleaner'[d].step # "idle" => live' # {"student", "teacher"}
              /\ cleaner'[d].step = "drop" => Head(cleaner'[d].jobs) \notin files'
                                               \/ <<"file", Head(cleaner'[d].jobs)>> \in late'
          BY <2>1, <5>1, <5>2
        <5> QED
          BY <5>3 DEF CleanerOK, Erased
      <4>2. CASE d # c
        <5>1. cleaner'[d] = cleaner[d] /\ CleanerOK(cleaner[d])
          BY <3>1, <3>2, <4>2
        <5>2. /\ UNCHANGED <<live, late>>
              /\ \A f : f \in files' => f \in files
          BY <3>1
        <5> HIDE DEF jobs, ErasureInv
        <5> QED
          BY <5>1, <5>2 DEF CleanerOK, Erased
      <4> QED
        BY <4>1, <4>2
    <3>5. (cleaner \in [Cleaners -> [step : {"idle", "unlink", "drop"}, jobs : Seq(Files)]])'
      BY <3>1, <3>2
    <3> QED
      BY <1>1, <1>4, <3>1, <3>4, <3>5, CleaningOK DEF UnlinkFile
  <2> QED
    BY <2>2, <2>3
<1>5. CASE DropJob(c)
  <2> DEFINE jobs == cleaner[c].jobs
  <2>1. /\ jobs \in Seq(Files) /\ jobs # <<>> /\ Erased /\ Tail(jobs) \in Seq(Files)
        /\ Head(jobs) \notin files \/ <<"file", Head(jobs)>> \in late
    BY <1>2, <1>5 DEF DropJob, Resting, CleanerOK
  <2>2. /\ queue' \in Seq(Files) /\ IsInjective(queue')
        /\ ToSet(queue') \subseteq ToSet(queue)
        /\ ToSet(queue) \ ToSet(queue') \subseteq {Head(jobs)}
    <3>1. CASE UNCHANGED queue
      BY <1>1, <3>1
    <3>2. ASSUME NEW i \in DOMAIN queue, queue[i] = Head(jobs), queue' = RemoveAt(queue, i)
          PROVE  /\ queue' \in Seq(Files) /\ IsInjective(queue')
                 /\ ToSet(queue') \subseteq ToSet(queue)
                 /\ ToSet(queue) \ ToSet(queue') \subseteq {Head(jobs)}
      BY <3>2, DroppingOK
    <3> QED
      BY <1>5, <3>1, <3>2 DEF DropJob
  <2>3. /\ (cleaner \in [Cleaners -> [step : {"idle", "unlink", "drop"}, jobs : Seq(Files)]])'
        /\ \A d \in Cleaners : CleanerOK(cleaner[d])'
        /\ eraser' \in {NoErasure, eraser}
    BY <1>5, <2>1, GoOnOK DEF DropJob, Erased
  <2> QED
    BY <1>5, <2>1, <2>2, <2>3, CleaningOK DEF DropJob
<1>6. CASE DieCleaning(c)
  <2>1. /\ (cleaner \in [Cleaners -> [step : {"idle", "unlink", "drop"}, jobs : Seq(Files)]])'
        /\ \A d \in Cleaners : CleanerOK(cleaner[d])'
        /\ eraser' \in {NoErasure, eraser}
    <3>1. /\ <<>> \in Seq(Files) /\ GoOn(c, <<>>) /\ (Erased => Erased')
          /\ UNCHANGED <<files, late>>
      BY <1>6 DEF DieCleaning, Erased
    <3> QED
      BY <3>1, GoOnOK
  <2> QED
    BY <1>1, <1>6, <2>1, CleaningOK DEF DieCleaning
<1> QED
  BY <1>3, <1>4, <1>5, <1>6 DEF Clean

LEMMA ErasureNextOK == ErasureInv /\ [ErasureNext]_erasureVars => ErasureInv'
<1>1. ASSUME ErasureInv, UNCHANGED erasureVars PROVE ErasureInv'
  BY <1>1 DEF erasureVars, ErasureInv, ErasureTypeOK, CleanerOK, Erased, PurgedLate, FilesReached, Reached
<1> QED
  BY <1>1, SubmitOK, RequestOK, RosterOK, EraseAllOK, PurgingOK, CleanOK
  DEF ErasureNext, EraseStudent, ProceedErasure
-----------------------------------------------------------------------------
(* The rows of the erasure keep their types, whoever writes them.          *)
THEOREM ErasureTyping == ErasureSpec => []ErasureTypeOK
<1>1. ErasureInv => ErasureTypeOK
  BY DEF ErasureInv
<1> QED
  BY <1>1, ErasureInitOK, ErasureNextOK, PTL DEF ErasureSpec

(* erase_managed_account leaves of a student only what was written after   *)
(* it had passed, after any number of failed erasures, on either database; *)
(* on SQLite this holds of the frozen submissions as well, which are       *)
(* removed, or queued for purge_pending_erasure_files.                     *)
THEOREM NothingElseStays == ErasureSpec => []ResidueIsLate
<1>1. ErasureInv => ResidueIsLate
  BY DEF ErasureInv, ResidueIsLate, FilesReached, Reached
<1> QED
  BY <1>1, ErasureInitOK, ErasureNextOK, PTL DEF ErasureSpec

-----------------------------------------------------------------------------
(* The three side by side. *)

LEMMA EachPart == Spec => PublicationSpec /\ ImportSpec /\ ErasureSpec
<1>1. Init => PublicationInit /\ ImportInit /\ ErasureInit
  BY DEF Init
<1>2. [Next]_<<part, publicationVars, importVars, erasureVars>> =>
        /\ [PublicationNext]_publicationVars
        /\ [ImportNext]_importVars
        /\ [ErasureNext]_erasureVars
  BY DEF Next
<1> QED
  BY <1>1, <1>2, PTL DEF Spec, PublicationSpec, ImportSpec, ErasureSpec

(* The rows of all three keep their types while each works on its own.     *)
THEOREM DatabaseTyping == Spec => []TypeOK
<1>1. PublicationTypeOK /\ ImportTypeOK /\ ErasureTypeOK => TypeOK
  BY DEF TypeOK
<1> QED
  BY <1>1, EachPart, PublicationTyping, ImportTyping, ErasureTyping, PTL
=============================================================================
