------------------------ MODULE StudentRecords_proofs ------------------------
(***************************************************************************)
(* What holds of the parts of a student's records for every value of the   *)
(* constants.                                                              *)
(*                                                                         *)
(* The learning profile: the counters are those of the results the         *)
(* receipts name, and the ledger of wrong questions agrees with them.      *)
(* A paper: the search for a section is exact, since a position is only    *)
(* remembered when no choice of the questions after it makes up the rest;  *)
(* a stage paper is full and fair, since every round shares out the places *)
(* left and a share grows with the weight.                                 *)
(* The last section puts them beside the run store.                        *)
(***************************************************************************)
EXTENDS MCStudentRecords, AssessmentRuns_proofs, FiniteSetTheorems, WellFoundedInduction,
        SequenceTheorems, TLAPS

(* The learning profile. *)

(* An attempt has one place among the receipts, and none before it has one. *)
AppliedOnce ==
    /\ Projected = {applied[n] : n \in DOMAIN applied}
    /\ \A m, n \in DOMAIN applied : applied[m] = applied[n] => m = n

RequestRow == [at : {"idle", "read", "sync", "project", "insert"},
               attempt : Attempts \cup {<<>>}, result : Nat]

(* A request that is to read a result back finds one. *)
RequestOK(q) ==
    /\ q.at = "read" => q.attempt \in Attempts /\ Newest(q.attempt) >= 1
    /\ q.at \in {"sync", "project", "insert"} => q.attempt \in Attempts /\ q.result \in 1..Newest(q.attempt)

Inv ==
    /\ ProfileTypeOK /\ AppliedOnce /\ ProfileMatchesReceipts
    /\ \A r \in Requests : RequestOK(request[r])

-----------------------------------------------------------------------------
(* Finite sets. *)

LEMMA DisjointUnion ==
  ASSUME NEW A, NEW B, IsFiniteSet(A), IsFiniteSet(B), A \cap B = {}
  PROVE  IsFiniteSet(A \cup B) /\ Cardinality(A \cup B) = Cardinality(A) + Cardinality(B)
<1>1. Cardinality(A) \in Nat /\ Cardinality(B) \in Nat
  BY FS_CardinalityType
<1>2. Cardinality(A \cap B) = 0
  BY FS_EmptySet
<1>3. /\ IsFiniteSet(A \cup B)
      /\ Cardinality(A \cup B) = Cardinality(A) + Cardinality(B) - Cardinality(A \cap B)
  BY FS_Union
<1> QED
  BY <1>1, <1>2, <1>3

LEMMA Slice ==
  ASSUME NEW a, NEW S, IsFiniteSet(S)
  PROVE  IsFiniteSet({a} \X S) /\ Cardinality({a} \X S) = Cardinality(S)
<1>1. IsFiniteSet({a}) /\ Cardinality({a}) = 1
  BY FS_Singleton
<1>2. Cardinality(S) \in Nat
  BY FS_CardinalityType
<1>3. IsFiniteSet({a} \X S) /\ Cardinality({a} \X S) = Cardinality({a}) * Cardinality(S)
  BY <1>1, FS_Product
<1> QED
  BY <1>1, <1>2, <1>3

(* Two subsets of a finite set differ in size by what each has of its own. *)
LEMMA Exchange ==
  ASSUME NEW S, IsFiniteSet(S), NEW X \in SUBSET S, NEW Y \in SUBSET S
  PROVE  Cardinality(Y) = Cardinality(X) + Cardinality(Y \ X) - Cardinality(X \ Y)
<1>1. IsFiniteSet(X) /\ IsFiniteSet(Y) /\ IsFiniteSet(X \cap Y)
  BY FS_Subset, X \cap Y \in SUBSET S
<1>2. /\ Cardinality(X) \in Nat /\ Cardinality(Y) \in Nat /\ Cardinality(X \cap Y) \in Nat
  BY <1>1, FS_CardinalityType
<1>3. Cardinality(Y \ X) = Cardinality(Y) - Cardinality(Y \cap X)
  BY <1>1, FS_Difference
<1>4. Cardinality(X \ Y) = Cardinality(X) - Cardinality(X \cap Y)
  BY <1>1, FS_Difference
<1>5. Cardinality(X \cap Y) = Cardinality(Y \cap X)
  <2>1. X \cap Y = Y \cap X
    OBVIOUS
  <2> QED
    BY <2>1
<1> QED
  BY <1>2, <1>3, <1>4, <1>5, SMT

LEMMA Image ==
  ASSUME NEW S, IsFiniteSet(S), NEW f, S = DOMAIN f
  PROVE  IsFiniteSet({f[x] : x \in S})
<1> DEFINE T == {f[x] : x \in S}
<1> DEFINE g == [x \in S |-> f[x]]
<1>1. g \in Surjection(S, T)
  BY DEF Surjection
<1> QED
  BY <1>1, FS_Surjection

-----------------------------------------------------------------------------
(* The answers of a set of attempts that count for a concept, and those of *)
(* them that are correct, given the questions each attempt has right.      *)

RightItems(a, n)   == {i \in ItemsOf[a] : Correct(a, n, i)}
AnsweredBy(P, c)   == {p \in P \X Items : p[2] \in Tested(p[1], c)}
RightBy(P, won, c) == {p \in AnsweredBy(P, c) : p[2] \in won[p[1]]}

LEMMA TestedFinite ==
  ASSUME NEW a \in Attempts, NEW c, NEW R
  PROVE  /\ Tested(a, c) \subseteq Items
         /\ IsFiniteSet(Tested(a, c)) /\ Cardinality(Tested(a, c)) \in Nat
         /\ IsFiniteSet(Tested(a, c) \cap R) /\ Cardinality(Tested(a, c) \cap R) \in Nat
<1>1. Tested(a, c) \in SUBSET ItemsOf[a] /\ IsFiniteSet(ItemsOf[a])
  BY PapersAssumption DEF Tested
<1>2. ItemsOf[a] \subseteq Items
  BY PapersAssumption
<1>3. IsFiniteSet(Tested(a, c))
  BY <1>1, FS_Subset
<1>4. IsFiniteSet(Tested(a, c) \cap R)
  BY <1>3, FS_Intersection
<1> QED
  BY <1>1, <1>2, <1>3, <1>4, FS_CardinalityType

LEMMA AnsweredFinite ==
  ASSUME NEW P \in SUBSET Attempts, IsFiniteSet(P), NEW won, NEW c
  PROVE  /\ IsFiniteSet(AnsweredBy(P, c)) /\ Cardinality(AnsweredBy(P, c)) \in Nat
         /\ IsFiniteSet(RightBy(P, won, c)) /\ Cardinality(RightBy(P, won, c)) \in Nat
         /\ Cardinality(RightBy(P, won, c)) <= Cardinality(AnsweredBy(P, c))
<1> DEFINE papers == [a \in P |-> ItemsOf[a]]
<1> DEFINE Papers == {papers[a] : a \in P}
<1>1. IsFiniteSet(Papers)
  BY Image
<1>2. \A T \in Papers : IsFiniteSet(T)
  BY PapersAssumption
<1>3. IsFiniteSet(UNION Papers)
  BY <1>1, <1>2, FS_UNION
<1>4. IsFiniteSet(P \X UNION Papers)
  BY <1>3, FS_Product
<1>5. AnsweredBy(P, c) \in SUBSET (P \X UNION Papers)
  <2>1. SUFFICES ASSUME NEW p \in P \X Items, p[2] \in Tested(p[1], c)
                 PROVE  p \in P \X UNION Papers
    BY DEF AnsweredBy
  <2>2. p = <<p[1], p[2]>> /\ p[1] \in P
    OBVIOUS
  <2>3. p[2] \in papers[p[1]]
    BY <2>1, <2>2 DEF Tested
  <2>4. p[2] \in UNION Papers
    BY <2>2, <2>3
  <2> QED
    BY <2>2, <2>4
<1>6. IsFiniteSet(AnsweredBy(P, c))
  BY <1>4, <1>5, FS_Subset
<1>7. RightBy(P, won, c) \in SUBSET AnsweredBy(P, c)
  BY DEF RightBy
<1>8. /\ IsFiniteSet(RightBy(P, won, c))
      /\ Cardinality(RightBy(P, won, c)) <= Cardinality(AnsweredBy(P, c))
  BY <1>6, <1>7, FS_Subset
<1> QED
  BY <1>6, <1>8, FS_CardinalityType

(* One more attempt adds its own answers. *)
LEMMA OneMore ==
  ASSUME NEW P \in SUBSET Attempts, IsFiniteSet(P), NEW a \in Attempts, a \notin P,
         NEW won, NEW c
  PROVE  /\ Cardinality(AnsweredBy(P \cup {a}, c))
              = Cardinality(AnsweredBy(P, c)) + Cardinality(Tested(a, c))
         /\ Cardinality(RightBy(P \cup {a}, won, c))
              = Cardinality(RightBy(P, won, c)) + Cardinality(Tested(a, c) \cap won[a])
<1> DEFINE new   == Tested(a, c)
<1> DEFINE right == Tested(a, c) \cap won[a]
<1>1. new \subseteq Items /\ IsFiniteSet(new) /\ IsFiniteSet(right)
  BY TestedFinite
<1>2. IsFiniteSet(AnsweredBy(P, c)) /\ IsFiniteSet(RightBy(P, won, c))
  BY AnsweredFinite
<1>3. AnsweredBy(P \cup {a}, c) = AnsweredBy(P, c) \cup ({a} \X new)
  BY <1>1 DEF AnsweredBy
<1>4. AnsweredBy(P, c) \cap ({a} \X new) = {}
  BY DEF AnsweredBy
<1>5. RightBy(P \cup {a}, won, c) = RightBy(P, won, c) \cup ({a} \X right)
  BY <1>3 DEF RightBy
<1>6. RightBy(P, won, c) \cap ({a} \X right) = {}
  BY DEF RightBy, AnsweredBy
<1>7. /\ IsFiniteSet({a} \X new) /\ Cardinality({a} \X new) = Cardinality(new)
      /\ IsFiniteSet({a} \X right) /\ Cardinality({a} \X right) = Cardinality(right)
  BY <1>1, Slice
<1> HIDE DEF new, right
<1>8. Cardinality(AnsweredBy(P, c) \cup ({a} \X new))
        = Cardinality(AnsweredBy(P, c)) + Cardinality({a} \X new)
  BY <1>2, <1>4, <1>7, DisjointUnion
<1>9. Cardinality(RightBy(P, won, c) \cup ({a} \X right))
        = Cardinality(RightBy(P, won, c)) + Cardinality({a} \X right)
  BY <1>2, <1>6, <1>7, DisjointUnion
<1> QED
  BY <1>3, <1>5, <1>7, <1>8, <1>9 DEF new, right

LEMMA RightAgree ==
  ASSUME NEW P, NEW one, NEW other, NEW c, \A a \in P : one[a] = other[a]
  PROVE  RightBy(P, one, c) = RightBy(P, other, c)
<1>1. \A p \in AnsweredBy(P, c) : p[1] \in P
  BY DEF AnsweredBy
<1> QED
  BY <1>1 DEF RightBy

(* A revision moves the correct answers of one attempt. *)
LEMMA GainedAndLost ==
  ASSUME NEW a \in Attempts, NEW c, NEW old, NEW new
  PROVE  /\ Gained(a, c, old, new) \in Nat /\ Gained(a, c, new, old) \in Nat
         /\ Cardinality(Tested(a, c) \cap RightItems(a, new))
              = Cardinality(Tested(a, c) \cap RightItems(a, old))
                  + Gained(a, c, old, new) - Gained(a, c, new, old)
<1> DEFINE X == Tested(a, c) \cap RightItems(a, old)
<1> DEFINE Y == Tested(a, c) \cap RightItems(a, new)
<1>1. IsFiniteSet(Tested(a, c)) /\ X \in SUBSET Tested(a, c) /\ Y \in SUBSET Tested(a, c)
  BY TestedFinite
<1>2. Gained(a, c, old, new) = Cardinality(Y \ X)
  <2>1. {i \in Tested(a, c) : Correct(a, new, i) /\ ~Correct(a, old, i)} = Y \ X
    BY DEF RightItems, Tested
  <2> QED
    BY <2>1 DEF Gained
<1>3. Gained(a, c, new, old) = Cardinality(X \ Y)
  <2>1. {i \in Tested(a, c) : Correct(a, old, i) /\ ~Correct(a, new, i)} = X \ Y
    BY DEF RightItems, Tested
  <2> QED
    BY <2>1 DEF Gained
<1>4. Y \ X \in SUBSET Tested(a, c) /\ X \ Y \in SUBSET Tested(a, c)
  BY <1>1
<1>5. IsFiniteSet(Y \ X) /\ IsFiniteSet(X \ Y)
  BY <1>1, <1>4, FS_Subset
<1>6. Cardinality(Y \ X) \in Nat /\ Cardinality(X \ Y) \in Nat
  BY <1>5, FS_CardinalityType
<1>7. Cardinality(Y) = Cardinality(X) + Cardinality(Y \ X) - Cardinality(X \ Y)
  BY <1>1, Exchange
<1> QED
  BY <1>2, <1>3, <1>6, <1>7

-----------------------------------------------------------------------------
(* The profile of a set of attempts. *)

Counts(kept, P, won) ==
    \A c \in Concepts :
        kept[c] = [attempted |-> Cardinality(AnsweredBy(P, c)), correct |-> Cardinality(RightBy(P, won, c))]

LedgerRow == [status : WrongStatuses, latest : Attempts \cup {<<>>}, follow : Nat]

Agrees(kept, P, won) ==
    \A i \in Items :
        /\ \A a \in P : i \in ItemsOf[a] \ won[a] => kept[i].status # "unknown"
        /\ kept[i].status = "open" => kept[i].latest \in P /\ i \in ItemsOf[kept[i].latest] \ won[kept[i].latest]

LEMMA IncrementedCounts ==
  ASSUME NEW P \in SUBSET Attempts, IsFiniteSet(P), NEW a \in Attempts, a \notin P,
         NEW n, NEW won, won[a] = RightItems(a, n), NEW in, Counts(in, P, won)
  PROVE  Counts(Incremented(in, a, n), P \cup {a}, won)
<1>1. SUFFICES ASSUME NEW c \in Concepts
               PROVE  Incremented(in, a, n)[c] =
                        [attempted |-> Cardinality(AnsweredBy(P \cup {a}, c)),
                         correct |-> Cardinality(RightBy(P \cup {a}, won, c))]
  BY DEF Counts
<1>2. {i \in Tested(a, c) : Correct(a, n, i)} = Tested(a, c) \cap won[a]
  BY DEF RightItems, Tested
<1>3. Incremented(in, a, n)[c] =
        [attempted |-> in[c].attempted + Cardinality(Tested(a, c)),
         correct |-> in[c].correct + Cardinality(Tested(a, c) \cap won[a])]
  BY <1>2 DEF Incremented
<1>4. in[c] = [attempted |-> Cardinality(AnsweredBy(P, c)), correct |-> Cardinality(RightBy(P, won, c))]
  BY DEF Counts
<1>5. /\ in[c].attempted = Cardinality(AnsweredBy(P, c))
      /\ in[c].correct = Cardinality(RightBy(P, won, c))
  BY <1>4
<1> QED
  BY <1>3, <1>5, OneMore

LEMMA RevisedCounts ==
  ASSUME NEW P \in SUBSET Attempts, IsFiniteSet(P), NEW a \in P, NEW old, NEW n,
         NEW won, won[a] = RightItems(a, old),
         NEW later, later[a] = RightItems(a, n), \A b \in P \ {a} : later[b] = won[b],
         NEW in, Counts(in, P, won)
  PROVE  Counts(Revised(in, a, old, n), P, later)
<1> DEFINE others == P \ {a}
<1>1. SUFFICES ASSUME NEW c \in Concepts
               PROVE  Revised(in, a, old, n)[c] =
                        [attempted |-> Cardinality(AnsweredBy(P, c)),
                         correct |-> Cardinality(RightBy(P, later, c))]
  BY DEF Counts
<1>2. others \in SUBSET Attempts /\ IsFiniteSet(others) /\ a \notin others /\ P = others \cup {a}
  BY FS_RemoveElement
<1>3. RightBy(others, won, c) = RightBy(others, later, c)
  BY RightAgree
<1>4. Cardinality(RightBy(others, won, c)) \in Nat
  BY <1>2, AnsweredFinite
<1> HIDE DEF others
<1>5. /\ Cardinality(RightBy(P, won, c))
           = Cardinality(RightBy(others, won, c)) + Cardinality(Tested(a, c) \cap RightItems(a, old))
      /\ Cardinality(RightBy(P, later, c))
           = Cardinality(RightBy(others, won, c)) + Cardinality(Tested(a, c) \cap RightItems(a, n))
  BY <1>2, <1>3, OneMore
<1>6. /\ Cardinality(Tested(a, c) \cap RightItems(a, old)) \in Nat
      /\ Cardinality(Tested(a, c) \cap RightItems(a, n)) \in Nat
  BY TestedFinite
<1>7. Cardinality(RightBy(P, later, c))
        = Cardinality(RightBy(P, won, c)) + Gained(a, c, old, n) - Gained(a, c, n, old)
  BY <1>4, <1>5, <1>6, GainedAndLost
<1>8. in[c] = [attempted |-> Cardinality(AnsweredBy(P, c)), correct |-> Cardinality(RightBy(P, won, c))]
  BY DEF Counts
<1>9. Revised(in, a, old, n)[c] =
        [in[c] EXCEPT !.correct = in[c].correct + Gained(a, c, old, n) - Gained(a, c, n, old)]
  BY DEF Revised
<1> QED
  BY <1>7, <1>8, <1>9

LEMMA CountsTyped ==
  ASSUME NEW P \in SUBSET Attempts, IsFiniteSet(P), NEW won, NEW kept,
         kept = [c \in Concepts |-> kept[c]], Counts(kept, P, won)
  PROVE  /\ kept \in [Concepts -> [attempted : Nat, correct : Nat]]
         /\ \A c \in Concepts : kept[c].correct <= kept[c].attempted
<1>1. ASSUME NEW c \in Concepts
      PROVE  kept[c] \in [attempted : Nat, correct : Nat] /\ kept[c].correct <= kept[c].attempted
  <2>1. /\ Cardinality(AnsweredBy(P, c)) \in Nat /\ Cardinality(RightBy(P, won, c)) \in Nat
        /\ Cardinality(RightBy(P, won, c)) <= Cardinality(AnsweredBy(P, c))
    BY AnsweredFinite
  <2>2. kept[c] = [attempted |-> Cardinality(AnsweredBy(P, c)), correct |-> Cardinality(RightBy(P, won, c))]
    BY DEF Counts
  <2> QED
    BY <2>1, <2>2
<1> QED
  BY <1>1

LEMMA MarkedAgrees ==
  ASSUME NEW P \in SUBSET Attempts, NEW a \in Attempts, NEW n,
         NEW won, won[a] = RightItems(a, n), NEW in \in [Items -> LedgerRow], Agrees(in, P, won)
  PROVE  /\ Marked(in, a, n) \in [Items -> LedgerRow]
         /\ \A i \in Items : Marked(in, a, n)[i].follow = in[i].follow
         /\ Agrees(Marked(in, a, n), P \cup {a}, won)
<1> DEFINE out == Marked(in, a, n)
<1>1. ASSUME NEW i \in Items, i \in ItemsOf[a] \ won[a]
      PROVE  /\ out[i] \in LedgerRow /\ out[i].follow = in[i].follow
             /\ out[i].status = "open" /\ out[i].latest = a
  <2>1. out[i] = [in[i] EXCEPT !.status = "open", !.latest = a]
    BY <1>1 DEF Marked, Opened, RightItems
  <2>2. in[i] \in LedgerRow
    OBVIOUS
  <2> HIDE DEF out
  <2> QED
    BY <2>1, <2>2 DEF LedgerRow, WrongStatuses
<1>2. ASSUME NEW i \in Items, i \notin ItemsOf[a] \ won[a]
      PROVE  out[i] = in[i]
  BY <1>2 DEF Marked, RightItems
<1>3. out = [i \in Items |-> out[i]]
  BY DEF Marked
<1> HIDE DEF out
<1>4. \A i \in Items : out[i] \in LedgerRow /\ out[i].follow = in[i].follow
  BY <1>1, <1>2
<1>5. Agrees(out, P \cup {a}, won)
  BY <1>1, <1>2 DEF Agrees
<1> QED
  BY <1>3, <1>4, <1>5 DEF out

LEMMA RemarkedAgrees ==
  ASSUME NEW P \in SUBSET Attempts, NEW a \in P, NEW old, NEW n,
         NEW won, won[a] = RightItems(a, old),
         NEW later, later[a] = RightItems(a, n), \A b \in P \ {a} : later[b] = won[b],
         NEW in \in [Items -> LedgerRow], Agrees(in, P, won)
  PROVE  /\ Remarked(in, a, old, n) \in [Items -> LedgerRow]
         /\ \A i \in Items : Remarked(in, a, old, n)[i].follow = in[i].follow
         /\ Agrees(Remarked(in, a, old, n), P, later)
<1> DEFINE out == Remarked(in, a, old, n)
<1>1. ASSUME NEW i \in Items, i \in ItemsOf[a], i \in won[a], i \notin later[a]
      PROVE  /\ out[i] \in LedgerRow /\ out[i].follow = in[i].follow
             /\ out[i].status = "open" /\ out[i].latest = a
  <2>1. out[i] = [in[i] EXCEPT !.status = "open", !.latest = a]
    BY <1>1 DEF Remarked, Opened, RightItems
  <2>2. in[i] \in LedgerRow /\ a \in Attempts
    OBVIOUS
  <2> HIDE DEF out
  <2> QED
    BY <2>1, <2>2 DEF LedgerRow, WrongStatuses
<1>2. ASSUME NEW i \in Items, i \in ItemsOf[a], i \notin won[a], i \in later[a]
      PROVE  /\ out[i] \in LedgerRow /\ out[i].follow = in[i].follow
             /\ in[i].status # "unknown" /\ out[i].status # "unknown"
             /\ out[i].status = "open" => in[i].status = "open" /\ in[i].latest # a
             /\ out[i].latest = in[i].latest
  <2>1. out[i] = Closed(in[i], a)
    <3>1. i \in ItemsOf[a] /\ ~Correct(a, old, i) /\ Correct(a, n, i)
      BY <1>2 DEF RightItems
    <3> QED
      BY <3>1 DEF Remarked
  <2>2. in[i].status # "unknown"
    BY <1>2 DEF Agrees
  <2>3. CASE in[i].latest = a
    <3>1. out[i] = [in[i] EXCEPT !.status = "resolved"]
      BY <2>1, <2>2, <2>3 DEF Closed
    <3> QED
      BY <2>2, <3>1 DEF LedgerRow, WrongStatuses
  <2>4. CASE in[i].latest # a
    <3>1. out[i] = in[i]
      BY <2>1, <2>4 DEF Closed
    <3> QED
      BY <2>2, <2>4, <3>1
  <2> QED
    BY <2>3, <2>4
<1>3. ASSUME NEW i \in Items, ~(i \in ItemsOf[a] /\ (i \in won[a] <=> i \notin later[a]))
      PROVE  out[i] = in[i]
  BY <1>3 DEF Remarked, RightItems
<1>4. out = [i \in Items |-> out[i]]
  BY DEF Remarked
<1> HIDE DEF out
<1>5. \A i \in Items : out[i] \in LedgerRow /\ out[i].follow = in[i].follow
  BY <1>1, <1>2, <1>3
<1>6. ASSUME NEW i \in Items
      PROVE  /\ \A b \in P : i \in ItemsOf[b] \ later[b] => out[i].status # "unknown"
             /\ out[i].status = "open" => out[i].latest \in P /\ i \in ItemsOf[out[i].latest] \ later[out[i].latest]
  <2>1. CASE i \in ItemsOf[a] /\ i \in won[a] /\ i \notin later[a]
    BY <1>1, <2>1
  <2>2. CASE i \in ItemsOf[a] /\ i \notin won[a] /\ i \in later[a]
    BY <1>2, <2>2 DEF Agrees
  <2>3. CASE ~(i \in ItemsOf[a] /\ (i \in won[a] <=> i \notin later[a]))
    BY <1>3, <2>3 DEF Agrees
  <2> QED
    BY <2>1, <2>2, <2>3
<1>7. Agrees(out, P, later)
  BY <1>6 DEF Agrees
<1> QED
  BY <1>4, <1>5, <1>7 DEF out

-----------------------------------------------------------------------------
(* The receipts. *)

\* The questions of each attempt that the profile has as right.
Won == [a \in Attempts |-> RightItems(a, receipt[a])]

LEMMA ProfileMeans ==
  ProfileMatchesReceipts <=> Counts(mastery, Projected, Won) /\ Agrees(ledger, Projected, Won)
<1>1. Projected \subseteq Attempts
  BY DEF Projected
<1>2. \A c : Answered(c) = AnsweredBy(Projected, c)
  BY DEF Answered, AnsweredBy
<1>3. ASSUME NEW c PROVE AnsweredRight(c) = RightBy(Projected, Won, c)
  <2>1. SUFFICES ASSUME NEW p \in AnsweredBy(Projected, c)
                 PROVE  Correct(p[1], receipt[p[1]], p[2]) <=> p[2] \in Won[p[1]]
    BY <1>2 DEF AnsweredRight, RightBy
  <2>2. p[1] \in Attempts /\ p[2] \in ItemsOf[p[1]]
    BY <1>1 DEF AnsweredBy, Tested
  <2> QED
    BY <2>2 DEF Won, RightItems
<1>4. CountersMatchReceipts <=> Counts(mastery, Projected, Won)
  BY <1>2, <1>3 DEF CountersMatchReceipts, Counts
<1>5. \A a \in Projected, i \in Items :
         i \in ItemsOf[a] /\ ~Correct(a, receipt[a], i) <=> i \in ItemsOf[a] \ Won[a]
  BY <1>1 DEF Won, RightItems
<1>6. LedgerMatchesReceipts <=> Agrees(ledger, Projected, Won)
  BY <1>5 DEF LedgerMatchesReceipts, Agrees
<1> QED
  BY <1>4, <1>6 DEF ProfileMatchesReceipts

LEMMA ProjectedFinite ==
  ASSUME ProfileTypeOK, AppliedOnce
  PROVE  Projected \in SUBSET Attempts /\ IsFiniteSet(Projected)
<1>1. DOMAIN applied = 1..Len(applied) /\ Len(applied) \in Nat
  BY DEF ProfileTypeOK
<1>2. IsFiniteSet(DOMAIN applied)
  BY <1>1, FS_Interval
<1>3. IsFiniteSet({applied[n] : n \in DOMAIN applied})
  BY <1>2, Image
<1> QED
  BY <1>3 DEF AppliedOnce, Projected

-----------------------------------------------------------------------------
(* Rebuilding the profile from the receipts. *)

Blank == [mastery |-> [c \in Concepts |-> [attempted |-> 0, correct |-> 0]],
          ledger  |-> [i \in Items |-> Unknown]]
Projecting(kept, a) == [mastery |-> Incremented(kept.mastery, a, receipt[a]),
                        ledger  |-> Marked(kept.ledger, a, receipt[a])]
Loop(f, n) == f = [k \in 0..n |-> IF k = 0 THEN Blank ELSE Projecting(f[k - 1], applied[k])]

Less == OpToRel(<, Nat)

LEMMA LeastExists ==
  ASSUME NEW S \in SUBSET Nat, S # {} PROVE \E x \in S : \A y \in S : x <= y
<1>1. IsWellFoundedOn(Less, Nat)
  BY NatLessThanWellFounded DEF Less
<1>2. PICK x \in S : \A y \in S : ~(<<y, x>> \in Less)
  BY <1>1, WFMin
<1>3. \A y \in S : y \in Nat /\ x \in Nat /\ ~(y < x)
  BY <1>2 DEF Less, OpToRel
<1> QED
  BY <1>3

LEMMA LoopExists == \A n \in Nat : \E f : Loop(f, n)
<1> DEFINE Bad == {n \in Nat : ~\E f : Loop(f, n)}
<1>1. SUFFICES ASSUME Bad # {} PROVE FALSE
  OBVIOUS
<1>2. PICK n \in Bad : \A m \in Bad : n <= m
  BY <1>1, LeastExists
<1>3. n # 0
  <2>1. SUFFICES ASSUME n = 0 PROVE \E f : Loop(f, 0)
    BY <1>2
  <2>2. Loop([k \in 0..0 |-> Blank], 0)
    BY DEF Loop
  <2> QED
    BY <2>2
<1>4. n \in Nat /\ n - 1 \in Nat /\ n - 1 \notin Bad
  BY <1>2, <1>3
<1>5. PICK f : Loop(f, n - 1)
  BY <1>4
<1> DEFINE g == [k \in 0..n |-> IF k = n THEN Projecting(f[n - 1], applied[n]) ELSE f[k]]
<1>6. ASSUME NEW k \in 0..n
      PROVE  g[k] = IF k = 0 THEN Blank ELSE Projecting(g[k - 1], applied[k])
  <2>1. CASE k = n
    <3>1. g[k] = Projecting(f[n - 1], applied[n]) /\ g[n - 1] = f[n - 1]
      BY <1>3, <1>4, <2>1
    <3> QED
      BY <1>3, <2>1, <3>1
  <2>2. CASE k # n
    <3>1. k \in 0..(n - 1) /\ g[k] = f[k]
      BY <1>4, <2>2
    <3>2. f[k] = IF k = 0 THEN Blank ELSE Projecting(f[k - 1], applied[k])
      BY <1>5, <3>1 DEF Loop
    <3>3. k # 0 => k - 1 \in 0..n /\ k - 1 # n
      BY <1>4
    <3>4. k # 0 => g[k - 1] = f[k - 1]
      BY <3>3
    <3> QED
      BY <3>1, <3>2, <3>4
  <2> QED
    BY <2>1, <2>2
<1>7. g = [k \in 0..n |-> g[k]]
  OBVIOUS
<1> HIDE DEF g
<1>8. Loop(g, n)
  BY <1>6, <1>7 DEF Loop
<1> QED
  BY <1>2, <1>8

LEMMA ReplayedLoop ==
  ASSUME Len(applied) \in Nat
  PROVE  \E f : Loop(f, Len(applied)) /\ Replayed = f[Len(applied)]
<1> DEFINE f == CHOOSE f : Loop(f, Len(applied))
<1>1. Loop(f, Len(applied))
  BY LoopExists
<1>2. Replayed = f[Len(applied)]
  BY DEF Replayed, Loop, Blank, Projecting
<1> QED
  BY <1>1, <1>2

Prefix(n) == {applied[k] : k \in 1..n}

LEMMA ReplayedMatches ==
  ASSUME ProfileTypeOK, AppliedOnce
  PROVE  /\ Replayed.mastery = [c \in Concepts |-> Replayed.mastery[c]]
         /\ Counts(Replayed.mastery, Projected, Won)
         /\ Replayed.ledger \in [Items -> LedgerRow]
         /\ \A i \in Items : Replayed.ledger[i].follow = 0
         /\ Agrees(Replayed.ledger, Projected, Won)
<1> DEFINE L == Len(applied)
<1>1. L \in Nat /\ DOMAIN applied = 1..L /\ \A k \in 1..L : applied[k] \in Attempts
  BY DEF ProfileTypeOK
<1>2. PICK f : Loop(f, L) /\ Replayed = f[L]
  BY <1>1, ReplayedLoop
<1>3. IsFiniteSet(Projected) /\ Projected \in SUBSET Attempts
  BY ProjectedFinite
<1>4. \A n \in 0..L : Prefix(n) \in SUBSET Projected
  BY <1>1 DEF Prefix, AppliedOnce
<1>5. Prefix(L) = Projected
  BY <1>1 DEF Prefix, AppliedOnce
<1> DEFINE Good(n) ==
      /\ f[n].mastery = [c \in Concepts |-> f[n].mastery[c]]
      /\ Counts(f[n].mastery, Prefix(n), Won)
      /\ f[n].ledger \in [Items -> LedgerRow]
      /\ \A i \in Items : f[n].ledger[i].follow = 0
      /\ Agrees(f[n].ledger, Prefix(n), Won)
<1>6. Good(0)
  <2>1. f[0] = Blank
    BY <1>1, <1>2 DEF Loop
  <2>2. f[0].mastery = [c \in Concepts |-> [attempted |-> 0, correct |-> 0]]
        /\ f[0].ledger = [i \in Items |-> Unknown]
    BY <2>1 DEF Blank
  <2>3. Prefix(0) = {}
    BY DEF Prefix
  <2>4. \A c : AnsweredBy({}, c) = {} /\ RightBy({}, Won, c) = {}
    BY DEF AnsweredBy, RightBy
  <2>5. Counts(f[0].mastery, Prefix(0), Won)
    BY <2>2, <2>3, <2>4, FS_EmptySet DEF Counts
  <2>6. f[0].ledger \in [Items -> LedgerRow] /\ \A i \in Items : f[0].ledger[i].follow = 0
    BY <2>2 DEF LedgerRow, WrongStatuses, Unknown
  <2>7. Agrees(f[0].ledger, Prefix(0), Won)
    BY <2>2, <2>3 DEF Agrees, Unknown
  <2> QED
    BY <2>2, <2>5, <2>6, <2>7
<1>7. ASSUME NEW n \in 1..L, Good(n - 1) PROVE Good(n)
  <2> DEFINE a == applied[n]
  <2>1. n \in 0..L /\ n # 0 /\ n - 1 \in 0..L /\ a \in Attempts
    BY <1>1
  <2>2. f[n] = Projecting(f[n - 1], a)
    BY <1>1, <1>2, <2>1 DEF Loop
  <2>3. f[n].mastery = Incremented(f[n - 1].mastery, a, receipt[a])
        /\ f[n].ledger = Marked(f[n - 1].ledger, a, receipt[a])
    BY <2>2 DEF Projecting
  <2>4. Prefix(n - 1) \in SUBSET Attempts /\ IsFiniteSet(Prefix(n - 1))
    BY <1>3, <1>4, <2>1, FS_Subset
  <2>5. Prefix(n) = Prefix(n - 1) \cup {a}
    BY <1>1, <2>1 DEF Prefix
  <2>6. a \notin Prefix(n - 1)
    BY <1>1, <2>1 DEF Prefix, AppliedOnce
  <2>7. Won[a] = RightItems(a, receipt[a])
    BY <2>1 DEF Won
  <2>8. Counts(f[n].mastery, Prefix(n), Won)
    BY <1>7, <2>1, <2>3, <2>4, <2>5, <2>6, <2>7, IncrementedCounts
  <2>9. f[n].mastery = [c \in Concepts |-> f[n].mastery[c]]
    BY <2>3 DEF Incremented
  <2> DEFINE in == f[n - 1].ledger
  <2>10. in \in [Items -> LedgerRow] /\ Agrees(in, Prefix(n - 1), Won)
         /\ \A i \in Items : in[i].follow = 0
    BY <1>7
  <2> HIDE DEF in, a
  <2>11. /\ Marked(in, a, receipt[a]) \in [Items -> LedgerRow]
         /\ \A i \in Items : Marked(in, a, receipt[a])[i].follow = in[i].follow
         /\ Agrees(Marked(in, a, receipt[a]), Prefix(n - 1) \cup {a}, Won)
    BY <2>1, <2>4, <2>7, <2>10, MarkedAgrees
  <2>12. /\ f[n].ledger \in [Items -> LedgerRow]
         /\ \A i \in Items : f[n].ledger[i].follow = 0
         /\ Agrees(f[n].ledger, Prefix(n), Won)
    BY <2>3, <2>5, <2>10, <2>11 DEF in
  <2> QED
    BY <1>7, <2>8, <2>9, <2>12
<1> HIDE DEF Good
<1>8. \A n \in 0..L : Good(n)
  <2> DEFINE Bad == {n \in 0..L : ~Good(n)}
  <2>1. SUFFICES ASSUME Bad # {} PROVE FALSE
    OBVIOUS
  <2>2. PICK n \in Bad : \A m \in Bad : n <= m
    BY <1>1, <2>1, LeastExists, Bad \in SUBSET Nat
  <2>3. n \in 1..L /\ n - 1 \in 0..L /\ n - 1 \notin Bad
    BY <1>1, <1>6, <2>2
  <2>4. Good(n - 1)
    BY <2>3
  <2> QED
    BY <1>7, <2>2, <2>3, <2>4
<1>9. Good(L)
  BY <1>1, <1>8
<1> QED
  BY <1>2, <1>5, <1>9 DEF Good

-----------------------------------------------------------------------------
(* The initial states and the steps. *)

LEMMA InitOK == ProfileInit => Inv
<1> SUFFICES ASSUME ProfileInit PROVE Inv
  OBVIOUS
<1> USE DEF ProfileInit
<1>1. ProfileTypeOK
  BY DEF ProfileTypeOK, Newest, WrongStatuses, Unknown, Waiting
<1>7. \A r \in Requests : RequestOK(request[r])
  BY DEF RequestOK, Waiting
<1>2. Projected = {}
  BY DEF Projected
<1>3. AppliedOnce
  BY <1>2 DEF AppliedOnce
<1>4. \A c : AnsweredBy({}, c) = {} /\ RightBy({}, Won, c) = {}
  BY DEF AnsweredBy, RightBy
<1>5. Counts(mastery, Projected, Won)
  BY <1>2, <1>4, FS_EmptySet DEF Counts
<1>6. Agrees(ledger, Projected, Won)
  BY <1>2 DEF Agrees, Unknown
<1> QED
  BY <1>1, <1>3, <1>5, <1>6, <1>7, ProfileMeans DEF Inv

\* The same of the next state.
LEMMA ProfileMeansNext ==
  ProfileMatchesReceipts' <=> Counts(mastery', Projected', Won') /\ Agrees(ledger', Projected', Won')
<1>1. (ProfileMatchesReceipts <=> Counts(mastery, Projected, Won) /\ Agrees(ledger, Projected, Won))'
  BY ProfileMeans, PTL
<1>2. Counts(mastery, Projected, Won)' <=> Counts(mastery', Projected', Won')
  BY DEF Counts, RightBy, AnsweredBy
<1>3. Agrees(ledger, Projected, Won)' <=> Agrees(ledger', Projected', Won')
  BY DEF Agrees
<1> QED
  BY <1>1, <1>2, <1>3

(* What the profile reflects depends on the results its receipts name. *)
LEMMA SameReflected ==
  ASSUME ProfileTypeOK, UNCHANGED <<receipt, applied>>, AppliedOnce,
         \A a \in Projected : \A i \in ItemsOf[a] : Correct(a, receipt[a], i)' <=> Correct(a, receipt[a], i)
  PROVE  /\ Projected' = Projected /\ AppliedOnce'
         /\ \A a \in Projected : Won'[a] = Won[a]
<1>1. Projected' = Projected
  BY DEF Projected
<1>2. AppliedOnce'
  BY <1>1 DEF AppliedOnce
<1>3. \A a \in Projected : Won'[a] = Won[a]
  BY DEF Won, RightItems, Projected
<1> QED
  BY <1>1, <1>2, <1>3

LEMMA SameProfile ==
  ASSUME ProfileTypeOK, UNCHANGED <<receipt, applied, mastery>>, AppliedOnce, ProfileMatchesReceipts,
         \A a \in Projected : \A i \in ItemsOf[a] : Correct(a, receipt[a], i)' <=> Correct(a, receipt[a], i),
         \A i \in Items : /\ ledger'[i].status = "unknown" => ledger[i].status = "unknown"
                          /\ ledger'[i].status = "open" => ledger[i].status = "open"
                                                          /\ ledger'[i].latest = ledger[i].latest
  PROVE  AppliedOnce' /\ ProfileMatchesReceipts'
<1>1. /\ Projected' = Projected /\ AppliedOnce'
      /\ \A a \in Projected : Won'[a] = Won[a]
  BY SameReflected
<1>2. Counts(mastery, Projected, Won) /\ Agrees(ledger, Projected, Won)
  BY ProfileMeans
<1>3. \A c : RightBy(Projected, Won', c) = RightBy(Projected, Won, c)
  BY <1>1, RightAgree
<1>4. Counts(mastery', Projected', Won')
  BY <1>1, <1>2, <1>3 DEF Counts
<1>5. Agrees(ledger', Projected', Won')
  BY <1>1, <1>2 DEF Agrees
<1> QED
  BY <1>1, <1>4, <1>5, ProfileMeansNext

(* Steps that leave the profile, its results and the corrections alone. *)
LEMMA RequestStep ==
  ASSUME Inv, UNCHANGED <<scores, receipt, applied, mastery, ledger, practice, offered>>,
         queue' \in [Attempts -> SUBSET Items],
         NEW r \in Requests, NEW q \in RequestRow, RequestOK(q), request' = [request EXCEPT ![r] = q]
  PROVE  Inv'
<1>1. request \in [Requests -> RequestRow]
  BY DEF Inv, ProfileTypeOK, RequestRow
<1>2. \A s \in Requests : request'[s] = IF s = r THEN q ELSE request[s]
  BY <1>1
<1>3. request' \in [Requests -> RequestRow]
  BY <1>1
<1>4. \A s \in Requests : RequestOK(request[s])' <=> RequestOK(request'[s])
  BY DEF RequestOK, Newest
<1>5. \A s \in Requests : RequestOK(request'[s])
  BY <1>2 DEF Inv
<1>6. ProfileTypeOK'
  BY <1>3, <1>5 DEF Inv, ProfileTypeOK, RequestRow, RequestOK, Newest
<1>7. AppliedOnce' /\ ProfileMatchesReceipts'
  BY SameProfile DEF Inv, Correct
<1> QED
  BY <1>4, <1>5, <1>6, <1>7 DEF Inv

LEMMA ViewOK ==
  ASSUME Inv, NEW r \in Requests, NEW a \in Attempts, View(r, a) PROVE Inv'
<1> DEFINE q == [at |-> "sync", attempt |-> a, result |-> Newest(a)]
<1>1. scores[a] \in Seq([ItemsOf[a] -> Outcomes]) /\ scores[a] # <<>>
  BY DEF Inv, ProfileTypeOK, View
<1>2. Newest(a) \in Nat /\ Newest(a) >= 1
  BY <1>1 DEF Newest
<1>3. q \in RequestRow /\ RequestOK(q)
  BY <1>2 DEF RequestRow, RequestOK
<1>4. /\ UNCHANGED <<scores, receipt, applied, mastery, ledger, practice, offered>>
      /\ request' = [request EXCEPT ![r] = q] /\ queue' = queue
  BY DEF View, Hold, ProfileUnchanged, OutsideUnchanged
<1> HIDE DEF q
<1> QED
  BY <1>3, <1>4, RequestStep DEF Inv, ProfileTypeOK

LEMMA ReadContextOK ==
  ASSUME Inv, NEW r \in Requests, ReadContext(r) PROVE Inv'
<1> DEFINE a == request[r].attempt
<1> DEFINE q == [at |-> "sync", attempt |-> a, result |-> Newest(a)]
<1>1. a \in Attempts /\ Newest(a) >= 1
  BY DEF Inv, RequestOK, ReadContext
<1>2. Newest(a) \in Nat
  BY <1>1 DEF Newest, Inv, ProfileTypeOK
<1>3. q \in RequestRow /\ RequestOK(q)
  BY <1>1, <1>2 DEF RequestRow, RequestOK
<1>4. /\ UNCHANGED <<scores, receipt, applied, mastery, ledger, practice, offered>>
      /\ request' = [request EXCEPT ![r] = q] /\ queue' = queue
  BY DEF ReadContext, Hold, ProfileUnchanged, OutsideUnchanged
<1> HIDE DEF q
<1> QED
  BY <1>3, <1>4, RequestStep DEF Inv, ProfileTypeOK

(* The request moves on with what it holds. *)
LEMMA MovesOnOK ==
  ASSUME Inv, NEW r \in Requests, NEW at \in {"project", "insert"},
         request[r].at \in {"sync", "project"},
         request' = [request EXCEPT ![r].at = at],
         UNCHANGED <<scores, receipt, applied, mastery, ledger, practice, offered>>,
         queue' \in [Attempts -> SUBSET Items]
  PROVE  Inv'
<1> DEFINE q == [request[r] EXCEPT !.at = at]
<1>1. request[r] \in RequestRow /\ RequestOK(request[r])
  BY DEF Inv, ProfileTypeOK, RequestRow
<1>2. q \in RequestRow /\ q.at = at /\ q.attempt = request[r].attempt /\ q.result = request[r].result
  BY <1>1 DEF RequestRow
<1>3. RequestOK(q)
  BY <1>1, <1>2 DEF RequestOK
<1>4. request' = [request EXCEPT ![r] = q]
  OBVIOUS
<1> HIDE DEF q
<1> QED
  BY <1>2, <1>3, <1>4, RequestStep

LEMMA DoneOK ==
  ASSUME Inv, NEW r \in Requests, request' = [request EXCEPT ![r] = Waiting],
         UNCHANGED <<scores, receipt, applied, mastery, ledger, practice, offered, queue>>
  PROVE  Inv'
<1>1. Waiting \in RequestRow /\ RequestOK(Waiting)
  BY DEF Waiting, RequestRow, RequestOK
<1> QED
  BY <1>1, RequestStep DEF Inv, ProfileTypeOK

LEMMA SyncSuggestedReviewOK ==
  ASSUME Inv, NEW r \in Requests, SyncSuggestedReview(r) PROVE Inv'
<1> DEFINE a == request[r].attempt
<1> DEFINE open == {i \in ItemsOf[a] : scores[a][request[r].result][i] = "pending"}
<1>1. a \in Attempts
  BY DEF Inv, RequestOK, SyncSuggestedReview
<1>2. open \subseteq Items
  BY <1>1, PapersAssumption
<1>3. queue' = [queue EXCEPT ![a] = open] /\ queue \in [Attempts -> SUBSET Items]
  BY DEF SyncSuggestedReview, Inv, ProfileTypeOK
<1> HIDE DEF open, a
<1>4. queue' \in [Attempts -> SUBSET Items]
  BY <1>2, <1>3
<1> QED
  BY <1>4, MovesOnOK DEF SyncSuggestedReview, ProfileUnchanged, OutsideUnchanged

(* A new result is appended; no receipt names it yet. *)
LEMMA NewResultOK ==
  ASSUME Inv, NEW r \in Requests, NEW a \in Attempts, NEW result \in [ItemsOf[a] -> Outcomes],
         scores' = [scores EXCEPT ![a] = Append(scores[a], result)],
         NEW q \in RequestRow, RequestOK(q)', request' = [request EXCEPT ![r] = q],
         UNCHANGED <<receipt, applied, mastery, ledger, queue, practice, offered>>
  PROVE  Inv'
<1>1. /\ DOMAIN scores = Attempts /\ \A b \in Attempts : scores[b] \in Seq([ItemsOf[b] -> Outcomes])
      /\ \A b \in Attempts : receipt[b] \in Nat /\ receipt[b] <= Newest(b)
  BY DEF Inv, ProfileTypeOK
<1>2. DOMAIN scores' = Attempts /\ \A b \in Attempts : scores'[b] = IF b = a THEN Append(scores[a], result) ELSE scores[b]
  BY <1>1
<1>3. \A b \in Attempts : /\ scores'[b] \in Seq([ItemsOf[b] -> Outcomes])
                          /\ Len(scores'[b]) >= Len(scores[b]) /\ Len(scores[b]) \in Nat /\ Len(scores'[b]) \in Nat
                          /\ \A n \in 1..Len(scores[b]) : scores'[b][n] = scores[b][n]
  <2>1. SUFFICES ASSUME NEW b \in Attempts
                 PROVE  /\ scores'[b] \in Seq([ItemsOf[b] -> Outcomes])
                        /\ Len(scores'[b]) >= Len(scores[b]) /\ Len(scores[b]) \in Nat /\ Len(scores'[b]) \in Nat
                        /\ \A n \in 1..Len(scores[b]) : scores'[b][n] = scores[b][n]
    OBVIOUS
  <2>2. CASE b = a
    BY <1>1, <1>2, <2>2
  <2>3. CASE b # a
    BY <1>1, <1>2, <2>3
  <2> QED
    BY <2>2, <2>3
<1>4. request \in [Requests -> RequestRow]
  BY DEF Inv, ProfileTypeOK, RequestRow
<1>5. request' \in [Requests -> RequestRow] /\ \A s \in Requests : request'[s] = IF s = r THEN q ELSE request[s]
  BY <1>4
<1>6. ASSUME NEW s \in Requests PROVE RequestOK(request[s])'
  <2>1. CASE s = r
    <3>1. request'[s] = q
      BY <1>5, <2>1
    <3> QED
      BY <3>1 DEF RequestOK, Newest
  <2>2. CASE s # r
    <3>1. request'[s] = request[s] /\ RequestOK(request[s])
      BY <1>5, <2>2 DEF Inv
    <3> DEFINE b == request[s].attempt
    <3>2. b \in Attempts => /\ 1..Len(scores[b]) \subseteq 1..Len(scores'[b])
                            /\ Len(scores[b]) >= 1 => Len(scores'[b]) >= 1
      BY <1>3
    <3> QED
      BY <3>1, <3>2 DEF RequestOK, Newest
  <2> QED
    BY <2>1, <2>2
<1>7. \A b \in Attempts : receipt'[b] <= Len(scores'[b])
  <2>1. \A b \in Attempts : receipt'[b] = receipt[b] /\ receipt[b] <= Len(scores[b])
    BY <1>1 DEF Newest
  <2> QED
    BY <1>1, <1>3, <2>1
<1>8. \A s \in Requests : request'[s].at \in {"sync", "project", "insert"} =>
        request'[s].attempt \in Attempts /\ request'[s].result \in 1..Len(scores'[request'[s].attempt])
  BY <1>6 DEF RequestOK, Newest
<1>9. ProfileTypeOK'
  BY <1>2, <1>3, <1>5, <1>7, <1>8 DEF Inv, ProfileTypeOK, RequestRow, Newest
<1>10. \A b \in Projected : \A i \in ItemsOf[b] : Correct(b, receipt[b], i)' <=> Correct(b, receipt[b], i)
  <2>1. ASSUME NEW b \in Projected
        PROVE  b \in Attempts /\ receipt'[b] = receipt[b] /\ receipt[b] \in 1..Len(scores[b])
    <3>1. b \in Attempts /\ receipt[b] # 0
      BY DEF Projected
    <3> QED
      BY <1>1, <1>3, <3>1 DEF Newest
  <2>2. \A b \in Projected : scores'[b][receipt'[b]] = scores[b][receipt[b]]
    BY <1>3, <2>1
  <2> QED
    BY <2>2 DEF Correct
<1>11. AppliedOnce' /\ ProfileMatchesReceipts'
  BY <1>10, SameProfile DEF Inv
<1> QED
  BY <1>6, <1>9, <1>11 DEF Inv

LEMMA SubmitOK ==
  ASSUME Inv, NEW r \in Requests, NEW a \in Attempts, Submit(r, a) PROVE Inv'
<1> DEFINE q == [at |-> "sync", attempt |-> a, result |-> 1]
<1>1. PICK scored \in [ItemsOf[a] -> Outcomes] : scores' = [scores EXCEPT ![a] = <<scored>>]
  BY DEF Submit
<1>2. scores[a] = <<>> /\ Append(scores[a], scored) = <<scored>>
  BY DEF Submit
<1>3. scores' = [scores EXCEPT ![a] = Append(scores[a], scored)]
  BY <1>1, <1>2
<1>4. scores'[a] = <<scored>>
  BY <1>1 DEF Inv, ProfileTypeOK
<1>5. q \in RequestRow /\ Newest(a)' = 1
  BY <1>4 DEF RequestRow, Newest
<1>6. RequestOK(q)'
  BY <1>5 DEF RequestOK
<1>7. /\ request' = [request EXCEPT ![r] = q]
      /\ UNCHANGED <<receipt, applied, mastery, ledger, queue, practice, offered>>
  BY DEF Submit, Hold, ProfileUnchanged
<1> HIDE DEF q
<1> QED
  BY <1>3, <1>5, <1>6, <1>7, NewResultOK

LEMMA ReviewOK ==
  ASSUME Inv, NEW r \in Requests, NEW a \in Attempts, Review(r, a) PROVE Inv'
<1> DEFINE q == [at |-> "read", attempt |-> a, result |-> 0]
<1>1. PICK i \in ItemsOf[a], o \in {"right", "wrong"} :
        scores' = [scores EXCEPT ![a] = Append(scores[a], [scores[a][Len(scores[a])] EXCEPT ![i] = o])]
  BY DEF Review
<1> DEFINE result == [scores[a][Len(scores[a])] EXCEPT ![i] = o]
<1>2. scores[a] \in Seq([ItemsOf[a] -> Outcomes]) /\ scores[a] # <<>> /\ DOMAIN scores = Attempts
  BY DEF Inv, ProfileTypeOK, Review
<1>3. scores[a][Len(scores[a])] \in [ItemsOf[a] -> Outcomes]
  BY <1>2
<1>4. result \in [ItemsOf[a] -> Outcomes]
  BY <1>3 DEF Outcomes
<1> HIDE DEF result
<1>5. scores' = [scores EXCEPT ![a] = Append(scores[a], result)]
  BY <1>1 DEF result
<1>6. scores'[a] = Append(scores[a], result)
  BY <1>2, <1>5
<1>7. Newest(a)' >= 1
  BY <1>2, <1>4, <1>6 DEF Newest
<1>8. q \in RequestRow /\ RequestOK(q)'
  BY <1>7 DEF RequestRow, RequestOK
<1>9. /\ request' = [request EXCEPT ![r] = q]
      /\ UNCHANGED <<receipt, applied, mastery, ledger, queue, practice, offered>>
  BY DEF Review, ProfileUnchanged
<1> HIDE DEF q
<1> QED
  BY <1>4, <1>5, <1>8, <1>9, NewResultOK

(* A projection: the receipt and the rows change together. *)
LEMMA ProjectionOK ==
  ASSUME Inv, NEW r \in Requests, request' = [request EXCEPT ![r] = Waiting],
         UNCHANGED <<scores, queue, practice, offered>>,
         NEW a \in Attempts, NEW n \in 1..Newest(a), receipt' = [receipt EXCEPT ![a] = n],
         applied' \in Seq(Attempts), AppliedOnce', IsFiniteSet(Projected'),
         mastery' = [c \in Concepts |-> mastery'[c]], Counts(mastery', Projected', Won'),
         ledger' \in [Items -> LedgerRow], \A i \in Items : ledger'[i].follow = ledger[i].follow,
         Agrees(ledger', Projected', Won')
  PROVE  Inv'
<1>1. Waiting \in RequestRow /\ RequestOK(Waiting)
  BY DEF Waiting, RequestRow, RequestOK
<1>2. request \in [Requests -> RequestRow]
  BY DEF Inv, ProfileTypeOK, RequestRow
<1>3. request' \in [Requests -> RequestRow] /\ \A s \in Requests : request'[s] = IF s = r THEN Waiting ELSE request[s]
  BY <1>1, <1>2
<1>4. \A s \in Requests : RequestOK(request'[s])
  BY <1>1, <1>3 DEF Inv
<1>5. \A s \in Requests : RequestOK(request[s])' <=> RequestOK(request'[s])
  BY DEF RequestOK, Newest
<1>6. Len(scores[a]) \in Nat /\ n \in 1..Len(scores[a])
  BY DEF Inv, ProfileTypeOK, Newest
<1>7. receipt' \in [Attempts -> Nat] /\ \A b \in Attempts : receipt'[b] <= Len(scores[b])
  <2>1. receipt \in [Attempts -> Nat] /\ \A b \in Attempts : receipt[b] <= Len(scores[b])
    BY DEF Inv, ProfileTypeOK, Newest
  <2>2. \A b \in Attempts : receipt'[b] = IF b = a THEN n ELSE receipt[b]
    BY <2>1
  <2> QED
    BY <1>6, <2>1, <2>2
<1>8. Projected' \in SUBSET Attempts
  BY DEF Projected
<1>9. /\ mastery' \in [Concepts -> [attempted : Nat, correct : Nat]]
      /\ \A c \in Concepts : mastery'[c].correct <= mastery'[c].attempted
  BY <1>8, CountsTyped
<1>10. \A i \in Items : ledger'[i].follow <= Len(practice')
  BY DEF Inv, ProfileTypeOK
<1>11. ProfileTypeOK'
  BY <1>3, <1>4, <1>7, <1>9, <1>10 DEF Inv, ProfileTypeOK, RequestRow, RequestOK, LedgerRow, Newest
<1>12. ProfileMatchesReceipts'
  BY ProfileMeansNext
<1> QED
  BY <1>4, <1>5, <1>11, <1>12 DEF Inv

LEMMA ProjectFirstOK ==
  ASSUME Inv, NEW r \in Requests, ProjectFirst(r) PROVE Inv'
<1> DEFINE a == request[r].attempt
<1> DEFINE n == request[r].result
<1>1. a \in Attempts /\ n \in 1..Newest(a)
  BY DEF Inv, RequestOK, ProjectFirst
<1>2. receipt[a] = 0
  BY DEF ProjectFirst, MayInsert
<1>3. n \in Nat /\ n # 0
  <2>1. Newest(a) \in Nat
    BY <1>1 DEF Inv, ProfileTypeOK, Newest
  <2> QED
    BY <1>1, <2>1
<1>4. /\ mastery' = Incremented(mastery, a, n) /\ ledger' = Marked(ledger, a, n)
      /\ receipt' = [receipt EXCEPT ![a] = n] /\ applied' = Append(applied, a)
      /\ request' = [request EXCEPT ![r] = Waiting]
      /\ UNCHANGED <<scores, queue, practice, offered>>
  BY DEF ProjectFirst, Done, OutsideUnchanged
<1> HIDE DEF a, n
<1>5. /\ receipt \in [Attempts -> Nat] /\ applied \in Seq(Attempts)
      /\ ledger \in [Items -> LedgerRow]
      /\ AppliedOnce /\ Counts(mastery, Projected, Won) /\ Agrees(ledger, Projected, Won)
  BY ProfileMeans DEF Inv, ProfileTypeOK, LedgerRow
<1>6. Projected \in SUBSET Attempts /\ IsFiniteSet(Projected) /\ a \notin Projected
  BY <1>2, ProjectedFinite DEF Inv, Projected
<1>7. \A b \in Attempts : receipt'[b] = IF b = a THEN n ELSE receipt[b]
  BY <1>4, <1>5
<1>8. Projected' = Projected \cup {a}
  BY <1>1, <1>3, <1>7 DEF Projected
<1>9. IsFiniteSet(Projected')
  BY <1>6, <1>8, FS_AddElement
<1>10. Won'[a] = RightItems(a, n) /\ \A b \in Projected : Won'[b] = Won[b]
  BY <1>1, <1>4, <1>6, <1>7 DEF Won, RightItems, Correct
<1>11. Counts(mastery, Projected, Won') /\ Agrees(ledger, Projected, Won')
  <2>1. \A c : RightBy(Projected, Won', c) = RightBy(Projected, Won, c)
    BY <1>10, RightAgree
  <2> QED
    BY <1>5, <1>10, <2>1 DEF Counts, Agrees
<1>12. Counts(mastery', Projected', Won')
  BY <1>1, <1>4, <1>6, <1>8, <1>10, <1>11, IncrementedCounts
<1>13. mastery' = [c \in Concepts |-> mastery'[c]]
  BY <1>4 DEF Incremented
<1>14. /\ ledger' \in [Items -> LedgerRow] /\ \A i \in Items : ledger'[i].follow = ledger[i].follow
       /\ Agrees(ledger', Projected', Won')
  <2>1. /\ Marked(ledger, a, n) \in [Items -> LedgerRow]
        /\ \A i \in Items : Marked(ledger, a, n)[i].follow = ledger[i].follow
        /\ Agrees(Marked(ledger, a, n), Projected \cup {a}, Won')
    BY <1>1, <1>5, <1>6, <1>10, <1>11, MarkedAgrees
  <2> QED
    BY <1>4, <1>8, <2>1
<1>15. applied' \in Seq(Attempts)
  BY <1>1, <1>4, <1>5
<1>16. AppliedOnce'
  <2>1. /\ DOMAIN applied = 1..Len(applied) /\ Len(applied) \in Nat
        /\ DOMAIN applied' = 1..(Len(applied) + 1)
        /\ \A k \in 1..(Len(applied) + 1) : applied'[k] = IF k = Len(applied) + 1 THEN a ELSE applied[k]
    BY <1>1, <1>4, <1>5
  <2>2. \A k \in DOMAIN applied : applied[k] # a
    BY <1>5, <1>6 DEF AppliedOnce
  <2>3. {applied'[k] : k \in DOMAIN applied'} = {applied[k] : k \in DOMAIN applied} \cup {a}
    BY <2>1
  <2>4. \A j, k \in DOMAIN applied' : applied'[j] = applied'[k] => j = k
    BY <1>5, <2>1, <2>2 DEF AppliedOnce
  <2> QED
    BY <1>5, <1>8, <2>3, <2>4 DEF AppliedOnce
<1> QED
  BY <1>1, <1>4, <1>9, <1>12, <1>13, <1>14, <1>15, <1>16, ProjectionOK

LEMMA ProjectRevisionOK ==
  ASSUME Inv, NEW r \in Requests, ProjectRevision(r) PROVE Inv'
<1> DEFINE a == request[r].attempt
<1> DEFINE n == request[r].result
<1> DEFINE old == receipt[a]
<1>1. a \in Attempts /\ n \in 1..Newest(a)
  BY DEF Inv, RequestOK, ProjectRevision
<1>2. old # 0
  BY DEF ProjectRevision
<1>3. n \in Nat /\ n # 0
  <2>1. Newest(a) \in Nat
    BY <1>1 DEF Inv, ProfileTypeOK, Newest
  <2> QED
    BY <1>1, <2>1
<1>4. /\ mastery' = Revised(mastery, a, old, n) /\ ledger' = Remarked(ledger, a, old, n)
      /\ receipt' = [receipt EXCEPT ![a] = n] /\ applied' = applied
      /\ request' = [request EXCEPT ![r] = Waiting]
      /\ UNCHANGED <<scores, queue, practice, offered>>
  BY DEF ProjectRevision, Done, OutsideUnchanged
<1> HIDE DEF a, n
<1>5. /\ receipt \in [Attempts -> Nat] /\ applied \in Seq(Attempts)
      /\ ledger \in [Items -> LedgerRow]
      /\ AppliedOnce /\ Counts(mastery, Projected, Won) /\ Agrees(ledger, Projected, Won)
  BY ProfileMeans DEF Inv, ProfileTypeOK, LedgerRow
<1>6. Projected \in SUBSET Attempts /\ IsFiniteSet(Projected) /\ a \in Projected
  BY <1>1, <1>2, ProjectedFinite DEF Inv, Projected
<1>7. \A b \in Attempts : receipt'[b] = IF b = a THEN n ELSE receipt[b]
  BY <1>4, <1>5
<1>8. Projected' = Projected
  BY <1>1, <1>2, <1>3, <1>7 DEF Projected
<1>9. /\ Won[a] = RightItems(a, old) /\ Won'[a] = RightItems(a, n)
      /\ \A b \in Projected \ {a} : Won'[b] = Won[b]
  BY <1>1, <1>4, <1>6, <1>7 DEF Won, RightItems, Correct
<1> HIDE DEF old
<1>10. Counts(mastery', Projected', Won')
  BY <1>4, <1>5, <1>6, <1>8, <1>9, RevisedCounts
<1>11. mastery' = [c \in Concepts |-> mastery'[c]]
  BY <1>4 DEF Revised
<1>12. /\ ledger' \in [Items -> LedgerRow] /\ \A i \in Items : ledger'[i].follow = ledger[i].follow
       /\ Agrees(ledger', Projected', Won')
  <2>1. /\ Remarked(ledger, a, old, n) \in [Items -> LedgerRow]
        /\ \A i \in Items : Remarked(ledger, a, old, n)[i].follow = ledger[i].follow
        /\ Agrees(Remarked(ledger, a, old, n), Projected, Won')
    BY <1>5, <1>6, <1>9, RemarkedAgrees
  <2> QED
    BY <1>4, <1>8, <2>1
<1>13. AppliedOnce'
  BY <1>4, <1>5, <1>8 DEF AppliedOnce
<1> QED
  BY <1>1, <1>4, <1>5, <1>6, <1>8, <1>10, <1>11, <1>12, <1>13, ProjectionOK

LEMMA ProjectOK ==
  ASSUME Inv, NEW r \in Requests, Project(r) PROVE Inv'
<1>1. CASE ProjectNothing(r)
  BY <1>1, DoneOK DEF ProjectNothing, Done, ProfileUnchanged, OutsideUnchanged
<1>2. CASE FindsNoReceipt(r)
  <2>1. queue' \in [Attempts -> SUBSET Items]
    BY <1>2 DEF FindsNoReceipt, Inv, ProfileTypeOK
  <2> QED
    BY <1>2, <2>1, MovesOnOK DEF FindsNoReceipt, ProfileUnchanged, OutsideUnchanged
<1>3. CASE InsertRefused(r)
  BY <1>3, DoneOK DEF InsertRefused, Done, ProfileUnchanged, OutsideUnchanged
<1> QED
  BY <1>1, <1>2, <1>3, ProjectFirstOK, ProjectRevisionOK DEF Project

LEMMA RequestFailsOK ==
  ASSUME Inv, NEW r \in Requests, RequestFails(r) PROVE Inv'
BY DoneOK DEF RequestFails, ProfileUnchanged, OutsideUnchanged

-----------------------------------------------------------------------------
(* Corrections and withdrawn questions: no row turns up or opens. *)

PracticeRow == [item : Items, answer : {"none", "right", "wrong", "purged"}]

LEMMA CorrectionStep ==
  ASSUME Inv, PracticeUnchanged, offered' \in SUBSET Items,
         practice' \in Seq(PracticeRow), Len(practice') >= Len(practice),
         ledger' \in [Items -> LedgerRow],
         \A i \in Items : /\ ledger'[i].status = "unknown" => ledger[i].status = "unknown"
                          /\ ledger'[i].status = "open" => ledger[i].status = "open"
                          /\ ledger'[i].latest = ledger[i].latest
                          /\ ledger'[i].follow \in {ledger[i].follow, 0, Len(practice')}
  PROVE  Inv'
<1>1. Len(practice) \in Nat /\ Len(practice') \in Nat
  BY DEF Inv, ProfileTypeOK
<1>2. \A i \in Items : ledger'[i].follow <= Len(practice')
  <2>1. \A i \in Items : ledger[i].follow \in Nat /\ ledger[i].follow <= Len(practice)
    BY DEF Inv, ProfileTypeOK
  <2> QED
    BY <1>1, <2>1
<1>3. ProfileTypeOK'
  BY <1>2 DEF Inv, ProfileTypeOK, PracticeUnchanged, LedgerRow, PracticeRow, Newest
<1>4. AppliedOnce' /\ ProfileMatchesReceipts'
  BY SameProfile DEF Inv, PracticeUnchanged, Correct
<1>5. \A r \in Requests : RequestOK(request[r])'
  BY DEF Inv, PracticeUnchanged, RequestOK, Newest
<1> QED
  BY <1>3, <1>4, <1>5 DEF Inv

LEMMA FollowUpOK ==
  ASSUME Inv, NEW i \in Items, FollowUp(i) PROVE Inv'
<1>1. /\ practice \in Seq(PracticeRow) /\ ledger \in [Items -> LedgerRow] /\ offered \in SUBSET Items
  BY DEF Inv, ProfileTypeOK, PracticeRow, LedgerRow
<1>2. /\ practice' = Append(practice, [item |-> i, answer |-> "none"])
      /\ ledger' = [ledger EXCEPT ![i].follow = Len(practice')]
      /\ PracticeUnchanged /\ offered' = offered
  BY DEF FollowUp
<1>3. practice' \in Seq(PracticeRow) /\ Len(practice') = Len(practice) + 1 /\ Len(practice) \in Nat
  BY <1>1, <1>2 DEF PracticeRow
<1>4. \A j \in Items : IF j = i THEN ledger'[j] = [ledger[j] EXCEPT !.follow = Len(practice')]
                       ELSE ledger'[j] = ledger[j]
  BY <1>1, <1>2
<1>5. \A j \in Items : /\ ledger'[j] \in LedgerRow
                       /\ ledger'[j].status = ledger[j].status /\ ledger'[j].latest = ledger[j].latest
                       /\ ledger'[j].follow \in {ledger[j].follow, Len(practice')}
  <2>1. Len(practice') \in Nat
    BY <1>3
  <2>2. SUFFICES ASSUME NEW j \in Items
                 PROVE  /\ ledger'[j] \in LedgerRow
                        /\ ledger'[j].status = ledger[j].status /\ ledger'[j].latest = ledger[j].latest
                        /\ ledger'[j].follow \in {ledger[j].follow, Len(practice')}
    OBVIOUS
  <2>3. ledger[j] \in LedgerRow
    BY <1>1
  <2>4. CASE j = i
    <3>1. ledger'[j] = [ledger[j] EXCEPT !.follow = Len(practice')]
      BY <1>4, <2>4
    <3> QED
      BY <2>1, <2>3, <3>1 DEF LedgerRow
  <2>5. CASE j # i
    BY <1>4, <2>3, <2>5
  <2> QED
    BY <2>4, <2>5
<1>6. ledger' \in [Items -> LedgerRow]
  BY <1>1, <1>2, <1>5
<1>7. Len(practice') >= Len(practice)
  BY <1>3
<1> QED
  BY <1>1, <1>2, <1>3, <1>5, <1>6, <1>7, CorrectionStep

LEMMA StartAssessmentOK ==
  ASSUME Inv, NEW i \in Items, StartAssessment(i) PROVE Inv'
<1>1. /\ practice \in Seq(PracticeRow) /\ ledger \in [Items -> LedgerRow] /\ offered \in SUBSET Items
  BY DEF Inv, ProfileTypeOK, PracticeRow, LedgerRow
<1>2. /\ practice' \in {practice, Append(practice, [item |-> i, answer |-> "none"])}
      /\ ledger' = [j \in Items |-> IF ledger[j].status = "open" /\ j \notin offered
                                    THEN [ledger[j] EXCEPT !.status = "retired"] ELSE ledger[j]]
      /\ PracticeUnchanged /\ offered' = offered
  BY DEF StartAssessment
<1>3. practice' \in Seq(PracticeRow) /\ Len(practice') >= Len(practice)
  <2> DEFINE sheet == [item |-> i, answer |-> "none"]
  <2>1. sheet \in PracticeRow
    BY DEF PracticeRow
  <2>2. practice' \in {practice, Append(practice, sheet)}
    BY <1>2
  <2> HIDE DEF sheet
  <2> QED
    BY <1>1, <2>1, <2>2
<1>4. \A j \in Items : ledger'[j] \in {ledger[j], [ledger[j] EXCEPT !.status = "retired"]}
  BY <1>2
<1>5. \A j \in Items : /\ ledger'[j] \in LedgerRow
                       /\ ledger'[j].status \in {ledger[j].status, "retired"}
                       /\ ledger'[j].latest = ledger[j].latest
                       /\ ledger'[j].follow = ledger[j].follow
  BY <1>1, <1>4 DEF LedgerRow, WrongStatuses
<1>6. ledger' \in [Items -> LedgerRow]
  BY <1>2, <1>5
<1> QED
  BY <1>1, <1>2, <1>3, <1>5, <1>6, CorrectionStep

(* An answer to a correction paper resolves the row of its question at most. *)
LEMMA PaperStep ==
  ASSUME Inv, NEW p \in DOMAIN practice, NEW answer \in {"right", "wrong", "purged"},
         practice' = [practice EXCEPT ![p].answer = answer],
         ledger' \in {ledger, [ledger EXCEPT ![practice[p].item] = Resolved(ledger[practice[p].item], p)]},
         PracticeUnchanged, offered' = offered
  PROVE  Inv'
<1> DEFINE i == practice[p].item
<1>1. /\ practice \in Seq(PracticeRow) /\ ledger \in [Items -> LedgerRow] /\ offered \in SUBSET Items
  BY DEF Inv, ProfileTypeOK, PracticeRow, LedgerRow
<1>2. practice[p] \in PracticeRow /\ i \in Items
  <2>1. practice[p] \in PracticeRow
    BY <1>1
  <2> QED
    BY <2>1 DEF PracticeRow
<1>3. [practice[p] EXCEPT !.answer = answer] \in PracticeRow
  BY <1>2 DEF PracticeRow
<1>4. practice' \in Seq(PracticeRow) /\ Len(practice') = Len(practice)
  BY <1>1, <1>3
<1>5. Len(practice') >= Len(practice)
  BY <1>1, <1>4
<1> HIDE DEF i
<1>6. \A j \in Items : ledger'[j] \in {ledger[j], Resolved(ledger[j], p)}
  BY <1>1, <1>2 DEF i
<1>7. \A j \in Items : ledger'[j] \in {ledger[j], [ledger[j] EXCEPT !.status = "resolved", !.follow = 0]}
  <2>1. \A j \in Items : Resolved(ledger[j], p) \in {ledger[j], [ledger[j] EXCEPT !.status = "resolved", !.follow = 0]}
    BY DEF Resolved
  <2> QED
    BY <1>6, <2>1
<1>8. \A j \in Items : /\ ledger'[j] \in LedgerRow
                       /\ ledger'[j].status \in {ledger[j].status, "resolved"}
                       /\ ledger'[j].latest = ledger[j].latest
                       /\ ledger'[j].follow \in {ledger[j].follow, 0}
  <2>1. ASSUME NEW j \in Items, NEW row \in {ledger[j], [ledger[j] EXCEPT !.status = "resolved", !.follow = 0]}
        PROVE  /\ row \in LedgerRow /\ row.status \in {ledger[j].status, "resolved"}
               /\ row.latest = ledger[j].latest /\ row.follow \in {ledger[j].follow, 0}
    <3>1. ledger[j] \in LedgerRow
      BY <1>1
    <3>2. CASE row = [ledger[j] EXCEPT !.status = "resolved", !.follow = 0]
      BY <3>1, <3>2 DEF LedgerRow, WrongStatuses
    <3> QED
      BY <2>1, <3>1, <3>2
  <2> QED
    BY <1>7, <2>1
<1>9. ledger' \in [Items -> LedgerRow]
  BY <1>1, <1>8
<1> QED
  BY <1>1, <1>4, <1>5, <1>8, <1>9, CorrectionStep

LEMMA AnswerPracticeOK ==
  ASSUME Inv, NEW p \in DOMAIN practice, NEW answer \in {"right", "wrong"}, AnswerPractice(p, answer)
  PROVE  Inv'
BY PaperStep DEF AnswerPractice

LEMMA ViewPracticeOK ==
  ASSUME Inv, NEW p \in DOMAIN practice, ViewPractice(p) PROVE Inv'
BY PaperStep DEF ViewPractice

LEMMA WithdrawOK ==
  ASSUME Inv, NEW i \in Items, Withdraw(i) PROVE Inv'
<1>1. /\ practice \in Seq(PracticeRow) /\ ledger \in [Items -> LedgerRow] /\ offered \in SUBSET Items
  BY DEF Inv, ProfileTypeOK, PracticeRow, LedgerRow
<1>2. offered' \in SUBSET Items /\ PracticeUnchanged /\ UNCHANGED <<ledger, practice>>
  BY <1>1 DEF Withdraw
<1>3. Len(practice') >= Len(practice)
  BY <1>1, <1>2
<1> QED
  BY <1>1, <1>2, <1>3, CorrectionStep

LEMMA RebuildOK ==
  ASSUME Inv, Rebuild PROVE Inv'
<1>1. /\ Replayed.mastery = [c \in Concepts |-> Replayed.mastery[c]]
      /\ Counts(Replayed.mastery, Projected, Won)
      /\ Replayed.ledger \in [Items -> LedgerRow]
      /\ \A i \in Items : Replayed.ledger[i].follow = 0
      /\ Agrees(Replayed.ledger, Projected, Won)
  BY ReplayedMatches DEF Inv
<1>2. /\ mastery' = Replayed.mastery
      /\ ledger' = [i \in Items |-> Preserved(Replayed.ledger[i], ledger[i])]
      /\ UNCHANGED <<scores, receipt, applied, queue, practice, offered, request>>
  BY DEF Rebuild
<1>3. Projected \in SUBSET Attempts /\ IsFiniteSet(Projected)
  BY ProjectedFinite DEF Inv
<1>4. Projected' = Projected /\ Won' = Won /\ AppliedOnce'
  BY <1>2 DEF Inv, Projected, Won, RightItems, Correct, AppliedOnce
<1>5. /\ mastery' \in [Concepts -> [attempted : Nat, correct : Nat]]
      /\ \A c \in Concepts : mastery'[c].correct <= mastery'[c].attempted
  BY <1>1, <1>2, <1>3, CountsTyped
<1> DEFINE fresh == Replayed.ledger
<1>6. \A i \in Items : ledger'[i] \in {fresh[i], [fresh[i] EXCEPT !.status = "resolved"]}
                       /\ (fresh[i].status # "open" => ledger'[i] = fresh[i])
  BY <1>2 DEF Preserved
<1> HIDE DEF fresh
<1>7. fresh \in [Items -> LedgerRow] /\ \A i \in Items : fresh[i].follow = 0
  BY <1>1 DEF fresh
<1>8. ASSUME NEW i \in Items
      PROVE  /\ ledger'[i] \in LedgerRow /\ ledger'[i].follow = 0
             /\ ledger'[i].status = "unknown" => fresh[i].status = "unknown"
             /\ ledger'[i].status = "open" => fresh[i].status = "open"
             /\ ledger'[i].latest = fresh[i].latest
  BY <1>6, <1>7 DEF LedgerRow, WrongStatuses
<1>9. ledger' \in [Items -> LedgerRow]
  BY <1>2, <1>8
<1>10. Len(practice) \in Nat
  BY DEF Inv, ProfileTypeOK
<1>11. \A i \in Items : ledger'[i].follow <= Len(practice')
  BY <1>2, <1>8, <1>10
<1>12. ProfileTypeOK'
  BY <1>2, <1>5, <1>9, <1>11 DEF Inv, ProfileTypeOK, LedgerRow, Newest
<1>13. Counts(mastery', Projected', Won')
  BY <1>1, <1>2, <1>4
<1>14. Agrees(ledger', Projected', Won')
  <2>1. Agrees(fresh, Projected, Won)
    BY <1>1 DEF fresh
  <2> QED
    BY <1>4, <1>8, <2>1 DEF Agrees
<1>15. ProfileMatchesReceipts'
  BY <1>13, <1>14, ProfileMeansNext
<1>16. \A r \in Requests : RequestOK(request[r])'
  BY <1>2 DEF Inv, RequestOK, Newest
<1> QED
  BY <1>4, <1>12, <1>15, <1>16 DEF Inv

LEMMA NextOK == Inv /\ [ProfileNext]_profileVars => Inv'
<1> SUFFICES ASSUME Inv, [ProfileNext]_profileVars PROVE Inv'
  OBVIOUS
<1>1. CASE ProfileNext
  BY <1>1, SubmitOK, ReviewOK, ViewOK, ReadContextOK, SyncSuggestedReviewOK, ProjectOK, RequestFailsOK,
     FollowUpOK, StartAssessmentOK, WithdrawOK, AnswerPracticeOK, ViewPracticeOK, RebuildOK DEF ProfileNext
<1>2. CASE UNCHANGED profileVars
  <2>1. AppliedOnce' /\ ProfileMatchesReceipts'
    BY <1>2, SameProfile DEF Inv, profileVars, Correct
  <2>2. ProfileTypeOK'
    BY <1>2 DEF Inv, profileVars, ProfileTypeOK, Newest
  <2>3. \A r \in Requests : RequestOK(request[r])'
    BY <1>2 DEF Inv, profileVars, RequestOK, Newest
  <2> QED
    BY <2>1, <2>2, <2>3 DEF Inv
<1> QED
  BY <1>1, <1>2

LEMMA InvHolds == ProfileSpec => []Inv
BY InitOK, NextOK, PTL DEF ProfileSpec

(* Every variable of the profile keeps its shape, no counter falls below    *)
(* zero or counts more correct answers than questions, and a request only   *)
(* holds results that exist.                                                *)
THEOREM ProfileTyping == ProfileSpec => []ProfileTypeOK
<1>1. Inv => ProfileTypeOK
  BY DEF Inv
<1> QED
  BY <1>1, InvHolds, PTL

(* Whatever is projected twice, late, out of order, revised or rebuilt, the *)
(* counters of every concept are those of the results the receipts name,    *)
(* and the ledger of wrong questions agrees with them.                      *)
THEOREM ProfileIsOfReceipts == ProfileSpec => []ProfileMatchesReceipts
<1>1. Inv => ProfileMatchesReceipts
  BY DEF Inv
<1> QED
  BY <1>1, InvHolds, PTL

(* An attempt is projected for the first time once only.                    *)
THEOREM FirstProjectionOnce == ProfileSpec => []AppliedOnce
<1>1. Inv => AppliedOnce
  BY DEF Inv
<1> QED
  BY <1>1, InvHolds, PTL

(* The choice of the questions of a paper. *)

-----------------------------------------------------------------------------
(* Sums. *)

Pairs(f, S) == UNION {{x} \X (1..f[x]) : x \in S}
SumOf(f, S)   == Cardinality(Pairs(f, S))

(* A set of subsets of a finite set that misses one of them misses a smallest one. *)
LEMMA SmallestSubset ==
  ASSUME NEW S, IsFiniteSet(S), NEW Bad \in SUBSET SUBSET S, Bad # {}
  PROVE  \E T \in Bad : /\ IsFiniteSet(T)
                        /\ \A x \in T : T \ {x} \notin Bad
<1> DEFINE Sizes == {k \in Nat : \E T \in Bad : Cardinality(T) = k}
<1>1. \A T \in Bad : IsFiniteSet(T) /\ Cardinality(T) \in Nat
  BY FS_Subset, FS_CardinalityType
<1>2. Sizes # {} /\ Sizes \in SUBSET Nat
  BY <1>1
<1>3. PICK k \in Sizes : \A m \in Sizes : k <= m
  BY <1>2, LeastExists
<1>4. PICK T \in Bad : Cardinality(T) = k
  BY <1>3
<1>5. ASSUME NEW x \in T PROVE T \ {x} \notin Bad
  <2>1. Cardinality(T \ {x}) = k - 1
    BY <1>1, <1>4, FS_RemoveElement
  <2>2. ~(k <= k - 1)
    BY <1>3
  <2>3. k - 1 \notin Sizes
    BY <1>3, <2>2
  <2> QED
    BY <1>1, <2>1, <2>3
<1> QED
  BY <1>1, <1>4, <1>5

LEMMA SumMore ==
  ASSUME NEW S, NEW f, NEW x, x \notin S, f[x] \in Nat, IsFiniteSet(Pairs(f, S))
  PROVE  IsFiniteSet(Pairs(f, S \cup {x})) /\ SumOf(f, S \cup {x}) = SumOf(f, S) + f[x]
<1>1. IsFiniteSet(1..f[x]) /\ Cardinality(1..f[x]) = f[x]
  <2>1. 1 \in Int /\ f[x] \in Int /\ f[x] \in Nat
    OBVIOUS
  <2>2. /\ IsFiniteSet(1..f[x])
        /\ Cardinality(1..f[x]) = IF 1 > f[x] THEN 0 ELSE f[x] - 1 + 1
    BY ONLY <2>1, FS_Interval
  <2> QED
    BY ONLY <2>1, <2>2
<1>2. IsFiniteSet({x} \X (1..f[x])) /\ Cardinality({x} \X (1..f[x])) = f[x]
  BY <1>1, Slice
<1>3. Pairs(f, S \cup {x}) = Pairs(f, S) \cup ({x} \X (1..f[x]))
  BY DEF Pairs
<1>4. Pairs(f, S) \cap ({x} \X (1..f[x])) = {}
  BY DEF Pairs
<1>5. /\ IsFiniteSet(Pairs(f, S) \cup ({x} \X (1..f[x])))
      /\ Cardinality(Pairs(f, S) \cup ({x} \X (1..f[x])))
           = Cardinality(Pairs(f, S)) + Cardinality({x} \X (1..f[x]))
  BY <1>2, <1>4, DisjointUnion
<1> QED
  BY <1>2, <1>3, <1>5 DEF SumOf

LEMMA SumFinite ==
  ASSUME NEW S, IsFiniteSet(S), NEW f, \A x \in S : f[x] \in Nat
  PROVE  IsFiniteSet(Pairs(f, S)) /\ SumOf(f, S) \in Nat
<1> DEFINE Bad == {T \in SUBSET S : ~IsFiniteSet(Pairs(f, T))}
<1>1. Bad = {}
  <2>1. SUFFICES ASSUME Bad # {} PROVE FALSE
    OBVIOUS
  <2>2. PICK T \in Bad : \A x \in T : T \ {x} \notin Bad
    BY <2>1, SmallestSubset
  <2>3. T # {}
    <3>1. Pairs(f, {}) = {}
      BY DEF Pairs
    <3> QED
      BY <2>2, <3>1, FS_EmptySet
  <2>4. PICK x \in T : TRUE
    BY <2>3
  <2>5. IsFiniteSet(Pairs(f, T \ {x}))
    BY <2>2, <2>4
  <2>6. (T \ {x}) \cup {x} = T /\ x \notin T \ {x} /\ f[x] \in Nat
    BY <2>4
  <2> QED
    BY <2>2, <2>5, <2>6, SumMore
<1>2. IsFiniteSet(Pairs(f, S))
  BY <1>1
<1> QED
  BY <1>2, FS_CardinalityType DEF SumOf

LEMMA SumLess ==
  ASSUME NEW S, IsFiniteSet(S), NEW f, \A y \in S : f[y] \in Nat, NEW x \in S
  PROVE  SumOf(f, S \ {x}) = SumOf(f, S) - f[x] /\ SumOf(f, S \ {x}) \in Nat
<1>1. IsFiniteSet(S \ {x})
  BY FS_RemoveElement
<1>2. IsFiniteSet(Pairs(f, S \ {x})) /\ SumOf(f, S \ {x}) \in Nat
  BY <1>1, SumFinite
<1>3. (S \ {x}) \cup {x} = S /\ x \notin S \ {x}
  OBVIOUS
<1>4. SumOf(f, (S \ {x}) \cup {x}) = SumOf(f, S \ {x}) + f[x]
  BY <1>2, SumMore
<1>5. SumOf(f, S) = SumOf(f, S \ {x}) + f[x]
  BY <1>3, <1>4
<1> QED
  BY <1>2, <1>5

LEMMA SumEmpty == \A f : SumOf(f, {}) = 0
<1>1. \A f : Pairs(f, {}) = {}
  BY DEF Pairs
<1> QED
  BY <1>1, FS_EmptySet DEF SumOf

(* A sum with a positive term is positive. *)
LEMMA SumPositive ==
  ASSUME NEW S, IsFiniteSet(S), NEW f, \A y \in S : f[y] \in Nat, NEW x \in S, f[x] > 0
  PROVE  SumOf(f, S) \in Nat /\ SumOf(f, S) > 0
<1>1. SumOf(f, S \ {x}) = SumOf(f, S) - f[x] /\ SumOf(f, S \ {x}) \in Nat
  BY SumLess
<1>2. SumOf(f, S) \in Nat
  BY SumFinite
<1> QED
  BY <1>1, <1>2

LEMMA SumSame ==
  ASSUME NEW S, NEW f, NEW g, \A x \in S : f[x] = g[x]
  PROVE  SumOf(f, S) = SumOf(g, S)
<1>1. Pairs(f, S) = Pairs(g, S)
  BY DEF Pairs
<1> QED
  BY <1>1 DEF SumOf

LEMMA Total == \A f : TotalOf(f) = SumOf(f, DOMAIN f)
  BY DEF TotalOf, SumOf, Pairs

-----------------------------------------------------------------------------
(* Shares. *)

LEMMA DivMod ==
  ASSUME NEW a \in Nat, NEW b \in Nat, b > 0
  PROVE  a \div b \in Nat /\ a % b \in 0..(b - 1) /\ a = b * (a \div b) + (a % b)
OBVIOUS

LEMMA SharesType ==
  ASSUME NEW weight, IsFiniteSet(DOMAIN weight), \A c \in DOMAIN weight : weight[c] \in Nat,
         DOMAIN weight # {} => \E c \in DOMAIN weight : weight[c] > 0, NEW n \in Nat
  PROVE  Shares(weight, n) \in [DOMAIN weight -> Nat]
<1> DEFINE total == TotalOf(weight)
<1> DEFINE floor == [c \in DOMAIN weight |-> (n * weight[c]) \div total]
<1> DEFINE share == Shares(weight, n)
<1>1. ASSUME NEW c \in DOMAIN weight PROVE floor[c] \in Nat
  <2>1. total \in Nat /\ total > 0
    BY SumPositive, Total
  <2>2. n * weight[c] \in Nat
    OBVIOUS
  <2> HIDE DEF total
  <2> QED
    BY <2>1, <2>2, DivMod
<1>2. /\ share = [c \in DOMAIN weight |-> share[c]]
      /\ \A c \in DOMAIN weight : share[c] = floor[c] \/ share[c] = floor[c] + 1
  BY <1>1 DEF Shares
<1> HIDE DEF floor, share
<1>3. \A c \in DOMAIN weight : share[c] \in Nat
  BY <1>1, <1>2
<1> QED
  BY <1>2, <1>3 DEF share

-----------------------------------------------------------------------------
(* Choices of questions. *)

Points == [q \in Bank |-> PointsOf(q)]
Worth(S) == SumOf(Points, S)
Uses(section, q) == IF section.weights = <<>> THEN {0} ELSE TestsOf(q) \cap DOMAIN section.weights
CountedFor(S, counted, c) == Cardinality({q \in S : counted[q] = c})
Due(section) == Shares(section.weights, section.count)

Choice(section, S, counted, slots, points, left) ==
    /\ S \subseteq Bank /\ IsFiniteSet(S)
    /\ \A q \in S : counted[q] \in Uses(section, q)
    /\ Cardinality(S) = slots /\ Worth(S) = points
    /\ \A c \in DOMAIN left : CountedFor(S, counted, c) = left[c]

BankOK == /\ IsFiniteSet(Bank) /\ Bank \subseteq Nat
          /\ \A q \in Bank : PointsOf(q) \in Nat /\ TestsOf(q) \subseteq Nat

LEMMA WorthFacts ==
  ASSUME BankOK, NEW S \in SUBSET Bank
  PROVE  /\ IsFiniteSet(S) /\ Cardinality(S) \in Nat /\ Worth(S) \in Nat
         /\ Worth({}) = 0
         /\ \A q \in S : Worth(S \ {q}) = Worth(S) - PointsOf(q) /\ Worth(S \ {q}) \in Nat
         /\ TotalOf([q \in S |-> PointsOf(q)]) = Worth(S)
<1>1. IsFiniteSet(S)
  BY FS_Subset DEF BankOK
<1>2. \A q \in S : Points[q] \in Nat /\ Points[q] = PointsOf(q)
  BY DEF BankOK, Points
<1>3. \A q \in S : Worth(S \ {q}) = Worth(S) - PointsOf(q) /\ Worth(S \ {q}) \in Nat
  BY <1>1, <1>2, SumLess DEF Worth
<1>4. TotalOf([q \in S |-> PointsOf(q)]) = Worth(S)
  <2> DEFINE g == [q \in S |-> PointsOf(q)]
  <2>1. DOMAIN g = S /\ \A q \in S : g[q] = Points[q]
    BY <1>2
  <2> HIDE DEF g
  <2>2. SumOf(g, S) = SumOf(Points, S)
    BY <2>1, SumSame
  <2>3. TotalOf(g) = SumOf(g, S)
    BY <2>1, Total
  <2> QED
    BY <2>2, <2>3 DEF Worth, g
<1>5. Worth(S) \in Nat
  BY <1>1, <1>2, SumFinite DEF Worth
<1> QED
  BY <1>1, <1>3, <1>4, <1>5, SumEmpty, FS_CardinalityType DEF Worth

(* Leaving a question out of a choice. *)
LEMMA ChoiceLess ==
  ASSUME BankOK, NEW section, NEW S, NEW counted, NEW slots, NEW points, NEW left,
         Choice(section, S, counted, slots, points, left), NEW q \in S
  PROVE  /\ counted[q] \in Uses(section, q)
         /\ counted[q] \in DOMAIN left => left[counted[q]] \in Nat /\ left[counted[q]] > 0
         /\ Choice(section, S \ {q}, counted, slots - 1, points - PointsOf(q),
                   [d \in DOMAIN left |-> IF d = counted[q] THEN left[d] - 1 ELSE left[d]])
<1> DEFINE c == counted[q]
<1> DEFINE less == [d \in DOMAIN left |-> IF d = c THEN left[d] - 1 ELSE left[d]]
<1> DEFINE Of(T, d) == {p \in T : counted[p] = d}
<1>1. /\ S \in SUBSET Bank /\ IsFiniteSet(S) /\ Cardinality(S) = slots /\ Worth(S) = points
      /\ \A d \in DOMAIN left : Cardinality(Of(S, d)) = left[d]
      /\ \A p \in S : counted[p] \in Uses(section, p)
  BY DEF Choice, CountedFor
<1>2. IsFiniteSet(S \ {q}) /\ Cardinality(S \ {q}) = slots - 1
  BY <1>1, FS_RemoveElement
<1>3. Worth(S \ {q}) = points - PointsOf(q)
  BY <1>1, WorthFacts
<1>4. ASSUME NEW d \in DOMAIN left
      PROVE  /\ Cardinality(Of(S \ {q}, d)) = less[d]
             /\ d = c => left[d] \in Nat /\ left[d] > 0
  <2>1. IsFiniteSet(Of(S, d))
    BY <1>1, FS_Subset, Of(S, d) \in SUBSET S
  <2>2. Cardinality(Of(S, d)) = left[d] /\ left[d] \in Nat
    BY <1>1, <2>1, FS_CardinalityType
  <2>3. CASE d = c
    <3>1. Of(S \ {q}, d) = Of(S, d) \ {q} /\ q \in Of(S, d)
      BY <2>3
    <3>2. Cardinality(Of(S, d) \ {q}) = Cardinality(Of(S, d)) - 1
      BY <2>1, <3>1, FS_RemoveElement
    <3>3. IsFiniteSet(Of(S, d) \ {q}) /\ Cardinality(Of(S, d) \ {q}) \in Nat
      BY <2>1, FS_RemoveElement, FS_CardinalityType
    <3> HIDE DEF Of, c
    <3>4. less[d] = left[d] - 1
      BY <2>3
    <3> QED
      BY <2>2, <3>1, <3>2, <3>3, <3>4
  <2>4. CASE d # c
    <3>1. Of(S \ {q}, d) = Of(S, d)
      BY <2>4
    <3> QED
      BY <2>2, <2>4, <3>1
  <2> QED
    BY <2>3, <2>4
<1>5. DOMAIN less = DOMAIN left
  OBVIOUS
<1>6. Choice(section, S \ {q}, counted, slots - 1, points - PointsOf(q), less)
  <2>1. \A d \in DOMAIN less : CountedFor(S \ {q}, counted, d) = less[d]
    BY <1>4, <1>5 DEF CountedFor
  <2> HIDE DEF less
  <2> QED
    BY <1>1, <1>2, <1>3, <2>1 DEF Choice
<1>7. c \in DOMAIN left => left[c] \in Nat /\ left[c] > 0
  BY <1>4
<1> QED
  BY <1>1, <1>6, <1>7

(* Adding a question to a choice. *)
LEMMA ChoiceMore ==
  ASSUME BankOK, NEW section, NEW S, NEW counted, NEW slots, NEW points, NEW left,
         Choice(section, S, counted, slots, points, left),
         NEW q \in Bank, q \notin S, NEW c \in Uses(section, q), NEW greater,
         greater = [d \in DOMAIN left |-> IF d = c THEN left[d] + 1 ELSE left[d]]
  PROVE  \E more : Choice(section, S \cup {q}, more, slots + 1, points + PointsOf(q), greater)
<1> DEFINE more == [p \in S \cup {q} |-> IF p = q THEN c ELSE counted[p]]
<1> DEFINE Of(T, d) == {p \in T : counted[p] = d}
<1> DEFINE Now(T, d) == {p \in T : more[p] = d}
<1>1. /\ S \in SUBSET Bank /\ IsFiniteSet(S) /\ Cardinality(S) = slots /\ Worth(S) = points
      /\ \A d \in DOMAIN left : Cardinality(Of(S, d)) = left[d]
      /\ \A p \in S : counted[p] \in Uses(section, p)
  BY DEF Choice, CountedFor
<1>2. IsFiniteSet(S \cup {q}) /\ Cardinality(S \cup {q}) = slots + 1
  BY <1>1, FS_AddElement
<1>3. Worth(S \cup {q}) = points + PointsOf(q)
  <2>1. S \cup {q} \in SUBSET Bank /\ q \in S \cup {q} /\ (S \cup {q}) \ {q} = S
    BY <1>1
  <2>2. Worth((S \cup {q}) \ {q}) = Worth(S \cup {q}) - PointsOf(q) /\ Worth(S \cup {q}) \in Nat
    BY <2>1, WorthFacts
  <2>3. PointsOf(q) \in Nat
    BY DEF BankOK
  <2>4. Worth(S) = Worth(S \cup {q}) - PointsOf(q)
    BY <2>1, <2>2
  <2> QED
    BY <1>1, <2>2, <2>3, <2>4
<1>4. ASSUME NEW d \in DOMAIN left PROVE Cardinality(Now(S \cup {q}, d)) = greater[d]
  <2>1. IsFiniteSet(Of(S, d)) /\ q \notin Of(S, d)
    BY <1>1, FS_Subset, Of(S, d) \in SUBSET S
  <2>2. Cardinality(Of(S, d)) = left[d]
    BY <1>1
  <2>3. CASE d = c
    <3>1. Now(S \cup {q}, d) = Of(S, d) \cup {q}
      BY <2>3
    <3>2. Cardinality(Of(S, d) \cup {q}) = Cardinality(Of(S, d)) + 1
      BY <2>1, FS_AddElement
    <3> HIDE DEF Now, Of
    <3> QED
      BY <2>2, <2>3, <3>1, <3>2
  <2>4. CASE d # c
    <3>1. Now(S \cup {q}, d) = Of(S, d)
      BY <2>4
    <3> HIDE DEF Now, Of
    <3> QED
      BY <2>2, <2>4, <3>1
  <2> QED
    BY <2>3, <2>4
<1>5. \A p \in S \cup {q} : more[p] \in Uses(section, p)
  BY <1>1
<1>6. DOMAIN greater = DOMAIN left
  OBVIOUS
<1>7. \A d \in DOMAIN greater : CountedFor(S \cup {q}, more, d) = greater[d]
  BY <1>4, <1>6 DEF CountedFor
<1>8. S \cup {q} \subseteq Bank
  BY <1>1
<1> HIDE DEF more
<1>9. Choice(section, S \cup {q}, more, slots + 1, points + PointsOf(q), greater)
  BY <1>2, <1>3, <1>5, <1>7, <1>8 DEF Choice
<1> QED
  BY <1>9

-----------------------------------------------------------------------------
(* Positions of the search. *)

Later(order, n)      == {order[j] : j \in n..Len(order)}
Earlier(order, n)    == {order[j] : j \in 1..(n - 1)}
Required(section, n) == {section.anchors[j] : j \in n..Len(section.anchors)}

Position(section) ==
    [next : Nat, slots : Nat, points : Nat, left : [DOMAIN section.weights -> Nat], taken : Seq(Bank)]

(* The rest of an order can make up what a position lacks. *)
Completable(section, order, at) ==
    \E S \in SUBSET Later(order, at.next) : \E counted :
        /\ Required(section, at.next) \subseteq S
        /\ Choice(section, S, counted, at.slots, section.score - at.points, at.left)

OrderOK(section, order) ==
    /\ order \in Seq(Bank) /\ IsInjective(order)
    /\ Len(section.anchors) <= Len(order)
    /\ \A j \in 1..Len(section.anchors) : order[j] = section.anchors[j]

SectionOK(section) == BankOK /\ SectionValid(section, plan.bank)

LEMMA SectionTypes ==
  ASSUME NEW section, SectionOK(section)
  PROVE  /\ section.count \in Nat /\ section.score \in Nat
         /\ Len(section.anchors) \in Nat /\ DOMAIN section.anchors = 1..Len(section.anchors)
         /\ section.weights = <<>> <=> DOMAIN section.weights = {}
         /\ Due(section) \in [DOMAIN section.weights -> Nat]
<1>1. section.weights = <<>> => DOMAIN section.weights = {}
  OBVIOUS
<1>2. section.weights # <<>> => DOMAIN section.weights # {}
  BY DEF SectionOK, SectionValid
<1>3. Due(section) \in [DOMAIN section.weights -> Nat]
  BY <1>1, SharesType DEF SectionOK, SectionValid, Due
<1> QED
  BY <1>1, <1>2, <1>3 DEF SectionOK, SectionValid

(* What remains of an order is as large as it is long. *)
LEMMA LaterSize ==
  ASSUME BankOK, NEW section, NEW order, OrderOK(section, order), NEW n \in Nat, n >= 1
  PROVE  /\ Later(order, n) \subseteq Bank
         /\ n <= Len(order) + 1 => Cardinality(Later(order, n)) <= Len(order) - n + 1
         /\ n > Len(order) => Later(order, n) = {}
<1>1. Len(order) \in Nat /\ \A j \in 1..Len(order) : order[j] \in Bank
  BY DEF OrderOK
<1>2. Later(order, n) \subseteq Bank
  BY <1>1 DEF Later
<1>3. n > Len(order) => Later(order, n) = {}
  BY <1>1 DEF Later
<1>4. ASSUME n <= Len(order) + 1 PROVE Cardinality(Later(order, n)) <= Len(order) - n + 1
  <2> DEFINE g == [j \in n..Len(order) |-> order[j]]
  <2>1. g \in Surjection(n..Len(order), Later(order, n))
    BY DEF Surjection, Later
  <2>2. /\ IsFiniteSet(n..Len(order))
        /\ Cardinality(n..Len(order)) = IF n > Len(order) THEN 0 ELSE Len(order) - n + 1
    <3>1. n \in Int /\ Len(order) \in Int
      BY <1>1
    <3> QED
      BY <3>1, FS_Interval
  <2>3. Cardinality(n..Len(order)) = Len(order) - n + 1
    BY <1>1, <1>4, <2>2
  <2>4. Cardinality(Later(order, n)) <= Cardinality(n..Len(order))
    BY <2>1, <2>2, FS_Surjection
  <2> QED
    BY <2>3, <2>4
<1> QED
  BY <1>2, <1>3, <1>4

(* If a position can be completed, so can one that follows it. *)
LEMMA Branching ==
  ASSUME NEW section, SectionOK(section), NEW order, OrderOK(section, order),
         NEW at \in Position(section), at.next \in 1..Len(order),
         Completable(section, order, at)
  PROVE  \/ \E c \in Options(section, order[at.next], at.left) :
               Completable(section, order, With(at, order[at.next], c))
         \/ at.next > Len(section.anchors) /\ Completable(section, order, Without(at))
<1> DEFINE n == at.next
<1> DEFINE q == order[n]
<1>1. PICK S, counted :
          /\ S \in SUBSET Later(order, n)
          /\ Required(section, n) \subseteq S
          /\ Choice(section, S, counted, at.slots, section.score - at.points, at.left)
  BY DEF Completable
<1>2. n \in Nat /\ Len(order) \in Nat /\ Len(section.anchors) \in Nat /\ q \in Bank
  BY SectionTypes DEF OrderOK, Position
<1>3. BankOK
  BY DEF SectionOK
<1>4. Later(order, n) = {q} \cup Later(order, n + 1)
  BY <1>2 DEF Later
<1>5. q \notin Required(section, n + 1)
  <2>1. \A k \in DOMAIN order : order[k] = q => k = n
    BY DEF OrderOK, IsInjective
  <2>2. \A m \in DOMAIN section.anchors : m \in DOMAIN order /\ section.anchors[m] = order[m]
    BY <1>2 DEF OrderOK
  <2>3. ASSUME NEW m \in DOMAIN section.anchors, m >= n + 1, section.anchors[m] = q PROVE FALSE
    <3>1. m = n
      BY <2>1, <2>2, <2>3
    <3> QED
      BY <1>2, <2>3, <3>1
  <2> QED
    BY <2>3 DEF Required
<1>6. Required(section, n + 1) \subseteq Required(section, n)
  BY <1>2 DEF Required
<1>7. CASE q \in S
  <2> DEFINE c == counted[q]
  <2> DEFINE less == [d \in DOMAIN at.left |-> IF d = c THEN at.left[d] - 1 ELSE at.left[d]]
  <2> DEFINE to == With(at, q, c)
  <2>1. /\ c \in Uses(section, q)
        /\ c \in DOMAIN at.left => at.left[c] \in Nat /\ at.left[c] > 0
        /\ Choice(section, S \ {q}, counted, at.slots - 1, section.score - at.points - PointsOf(q), less)
    <3> DEFINE points == section.score - at.points
    <3>1. Choice(section, S, counted, at.slots, points, at.left)
      BY <1>1
    <3> HIDE DEF points, q
    <3>2. /\ c \in Uses(section, q)
          /\ c \in DOMAIN at.left => at.left[c] \in Nat /\ at.left[c] > 0
          /\ Choice(section, S \ {q}, counted, at.slots - 1, points - PointsOf(q), less)
      BY <1>3, <1>7, <3>1, ChoiceLess
    <3> QED
      BY <3>2 DEF points
  <2>2. c \in Options(section, q, at.left)
    BY <2>1 DEF Uses, Options, Position
  <2>3. S \ {q} \in SUBSET Later(order, n + 1) /\ Required(section, n + 1) \subseteq S \ {q}
    BY <1>1, <1>4, <1>5, <1>6
  <2>4. /\ to.next = n + 1 /\ to.slots = at.slots - 1 /\ to.points = at.points + PointsOf(q)
        /\ to.left = less
    BY DEF With
  <2>5. section.score - at.points - PointsOf(q) = section.score - (at.points + PointsOf(q))
    <3> HIDE DEF q
    <3>1. section.score \in Int
      BY SectionTypes
    <3>2. at.points \in Int
      BY DEF Position
    <3>3. PointsOf(q) \in Int
      BY <1>2, <1>3 DEF BankOK
    <3> QED
      BY <3>1, <3>2, <3>3
  <2> HIDE DEF less, to, c
  <2>6. Choice(section, S \ {q}, counted, to.slots, section.score - to.points, to.left)
    BY <2>1, <2>4, <2>5
  <2>7. Completable(section, order, to)
    BY <2>3, <2>4, <2>6 DEF Completable
  <2> QED
    BY <2>2, <2>7 DEF to
<1>8. CASE q \notin S
  <2>1. n > Len(section.anchors)
    <3>1. SUFFICES ASSUME n <= Len(section.anchors) PROVE FALSE
      BY <1>2
    <3>2. n \in 1..Len(section.anchors) /\ q = section.anchors[n]
      BY <1>2, <3>1 DEF OrderOK
    <3>3. q \in Required(section, n)
      BY <1>2, <3>2 DEF Required
    <3> QED
      BY <1>1, <1>8, <3>3
  <2>2. S \in SUBSET Later(order, n + 1) /\ Required(section, n + 1) \subseteq S
    BY <1>1, <1>4, <1>6, <1>8
  <2>3. /\ Without(at).next = n + 1 /\ Without(at).slots = at.slots
        /\ Without(at).points = at.points /\ Without(at).left = at.left
    BY DEF Without, Position
  <2>4. Completable(section, order, Without(at))
    BY <1>1, <2>2, <2>3 DEF Completable
  <2> QED
    BY <2>1, <2>4
<1> QED
  BY <1>7, <1>8

(* What cannot be completed: a position with nothing left to take that does not    *)
(* satisfy its section, one with too few questions, one with too many points.      *)
LEMMA Hopeless ==
  ASSUME NEW section, SectionOK(section), NEW order, OrderOK(section, order),
         NEW at \in Position(section), at.next \in 1..(Len(order) + 1),
         Completable(section, order, at)
  PROVE  /\ at.slots = 0 => Satisfied(section, at)
         /\ ~(Len(order) - at.next + 1 < at.slots)
         /\ ~(at.points > section.score)
<1>1. PICK S, counted :
          /\ S \in SUBSET Later(order, at.next)
          /\ Choice(section, S, counted, at.slots, section.score - at.points, at.left)
  BY DEF Completable
<1>2. /\ BankOK /\ Len(order) \in Nat /\ section.score \in Nat
      /\ at.next \in Nat /\ at.next >= 1 /\ at.points \in Nat /\ at.slots \in Nat
      /\ \A c \in DOMAIN at.left : at.left[c] \in Nat
  BY SectionTypes DEF SectionOK, OrderOK, Position
<1>3. /\ S \in SUBSET Bank /\ IsFiniteSet(S) /\ Cardinality(S) = at.slots
      /\ Worth(S) = section.score - at.points
      /\ \A c \in DOMAIN at.left : CountedFor(S, counted, c) = at.left[c]
  BY <1>1 DEF Choice
<1>4. Worth(S) \in Nat /\ Worth({}) = 0
  BY <1>2, <1>3, WorthFacts
<1>5. Cardinality(S) <= Len(order) - at.next + 1
  <2>1. /\ Later(order, at.next) \subseteq Bank
        /\ Cardinality(Later(order, at.next)) <= Len(order) - at.next + 1
    BY <1>2, LaterSize
  <2>2. IsFiniteSet(Later(order, at.next))
    BY <1>2, <2>1, WorthFacts
  <2>3. Cardinality(S) <= Cardinality(Later(order, at.next))
    BY <1>1, <2>2, FS_Subset
  <2>4. Cardinality(S) \in Nat /\ Cardinality(Later(order, at.next)) \in Nat
    BY <1>3, <2>2, FS_CardinalityType
  <2> QED
    BY <1>2, <2>1, <2>3, <2>4
<1>6. ASSUME at.slots = 0 PROVE Satisfied(section, at)
  <2>1. S = {}
    BY <1>3, <1>6, FS_EmptySet
  <2>2. at.points = section.score
    BY <1>2, <1>3, <1>4, <2>1
  <2>3. ASSUME NEW c \in DOMAIN at.left PROVE at.left[c] = 0
    <3>1. {q \in S : counted[q] = c} = {}
      BY <2>1
    <3> QED
      BY <1>3, <3>1, FS_EmptySet DEF CountedFor
  <2> QED
    BY <2>2, <2>3 DEF Satisfied
<1> QED
  BY <1>2, <1>3, <1>4, <1>5, <1>6

LEMMA SameKey ==
  ASSUME NEW section, NEW order, NEW at, NEW other, Key(at) = Key(other), Completable(section, order, at)
  PROVE  Completable(section, order, other)
<1>1. /\ at.next = other.next /\ at.slots = other.slots
      /\ at.points = other.points /\ at.left = other.left
  BY DEF Key
<1> QED
  BY <1>1 DEF Completable

-----------------------------------------------------------------------------
(* What a position has taken on the way. *)

Used(section, at) == [c \in DOMAIN at.left |-> Due(section)[c] - at.left[c]]

Progress(section, order, at) ==
    /\ at.next \in 1..(Len(order) + 1)
    /\ \E counted : Choice(section, ToSet(at.taken), counted, section.count - at.slots, at.points,
                           Used(section, at))
    /\ Len(at.taken) = section.count - at.slots
    /\ ToSet(at.taken) \subseteq Earlier(order, at.next)
    /\ \A j \in 1..Len(section.anchors) : j < at.next => section.anchors[j] \in ToSet(at.taken)

LEMMA ToSetAppend ==
  ASSUME NEW S, NEW s \in Seq(S), NEW q \in S
  PROVE  /\ ToSet(Append(s, q)) = ToSet(s) \cup {q}
         /\ Append(s, q) \in Seq(S) /\ Len(Append(s, q)) = Len(s) + 1
<1>1. /\ Append(s, q) \in Seq(S) /\ Len(Append(s, q)) = Len(s) + 1 /\ Len(s) \in Nat
      /\ DOMAIN s = 1..Len(s) /\ DOMAIN Append(s, q) = 1..(Len(s) + 1)
      /\ \A i \in 1..Len(s) : Append(s, q)[i] = s[i]
      /\ Append(s, q)[Len(s) + 1] = q
  OBVIOUS
<1>2. 1..(Len(s) + 1) = (1..Len(s)) \cup {Len(s) + 1}
  BY <1>1
<1> QED
  BY <1>1, <1>2 DEF ToSet

LEMMA StartOK ==
  ASSUME NEW section, SectionOK(section), NEW order, OrderOK(section, order)
  PROVE  Start(section) \in Position(section) /\ Progress(section, order, Start(section))
<1> DEFINE at == Start(section)
<1>1. /\ at.next = 1 /\ at.slots = section.count /\ at.points = 0
      /\ at.left = Due(section) /\ at.taken = <<>>
  BY DEF Start, Due
<1>2. /\ section.count \in Nat /\ Due(section) \in [DOMAIN section.weights -> Nat]
      /\ Len(order) \in Nat
  BY SectionTypes DEF OrderOK
<1>3. at \in Position(section)
  <2>1. at = [next |-> 1, slots |-> section.count, points |-> 0, left |-> Due(section), taken |-> <<>>]
    BY DEF Start, Due
  <2>2. <<>> \in Seq(Bank)
    OBVIOUS
  <2> HIDE DEF at
  <2> QED
    BY <1>2, <2>1, <2>2 DEF Position
<1>4. ToSet(at.taken) = {} /\ Len(at.taken) = 0
  BY <1>1 DEF ToSet
<1> DEFINE none == [q \in {} |-> 0]
<1>5. Choice(section, {}, none, 0, 0, Used(section, at))
  <2>1. ASSUME NEW c \in DOMAIN at.left
        PROVE  CountedFor({}, none, c) = 0 /\ Due(section)[c] - at.left[c] = 0
    <3>1. {q \in {} : none[q] = c} = {}
      OBVIOUS
    <3>2. Due(section)[c] \in Nat
      BY <1>1, <1>2
    <3> QED
      BY <1>1, <3>1, <3>2, FS_EmptySet DEF CountedFor
  <2>2. Worth({}) = 0
    BY SumEmpty DEF Worth
  <2> HIDE DEF at, none
  <2>3. /\ DOMAIN Used(section, at) = DOMAIN at.left
        /\ \A c \in DOMAIN at.left : Used(section, at)[c] = Due(section)[c] - at.left[c]
    BY DEF Used
  <2>4. \A c \in DOMAIN Used(section, at) : CountedFor({}, none, c) = Used(section, at)[c]
    BY <2>1, <2>3
  <2> QED
    BY <2>2, <2>4, FS_EmptySet DEF Choice
<1>6. section.count - at.slots = 0
  BY <1>1, <1>2
<1> HIDE DEF at, none
<1>7. at.next \in 1..(Len(order) + 1) /\ \A j \in 1..Len(section.anchors) : ~(j < at.next)
  BY <1>1, <1>2
<1>8. Choice(section, ToSet(at.taken), none, section.count - at.slots, at.points, Used(section, at))
  BY <1>1, <1>4, <1>5, <1>6
<1>9. Progress(section, order, at)
  BY <1>4, <1>6, <1>7, <1>8 DEF Progress
<1> QED
  BY <1>3, <1>9 DEF at

LEMMA OptionsFacts ==
  ASSUME NEW section, SectionOK(section), NEW at \in Position(section), NEW q \in Bank,
         NEW c \in Options(section, q, at.left)
  PROVE  /\ c \in Uses(section, q) /\ c \in Nat
         /\ c \in DOMAIN at.left => at.left[c] > 0
<1>1. DOMAIN at.left = DOMAIN section.weights
  BY DEF Position
<1>2. TestsOf(q) \subseteq Nat
  BY DEF SectionOK, BankOK
<1>3. CASE section.weights = <<>>
  BY <1>1, <1>3, SectionTypes DEF Options, Uses
<1>4. CASE section.weights # <<>>
  BY <1>1, <1>2, <1>4 DEF Options, Uses
<1> QED
  BY <1>3, <1>4

LEMMA WithOK ==
  ASSUME NEW section, SectionOK(section), NEW order, OrderOK(section, order),
         NEW at \in Position(section), Progress(section, order, at),
         at.slots > 0, at.next <= Len(order),
         NEW c \in Options(section, order[at.next], at.left)
  PROVE  /\ With(at, order[at.next], c) \in Position(section)
         /\ Progress(section, order, With(at, order[at.next], c))
<1> DEFINE q == order[at.next]
<1> DEFINE to == With(at, q, c)
<1> DEFINE less == [d \in DOMAIN at.left |-> IF d = c THEN at.left[d] - 1 ELSE at.left[d]]
<1>1. /\ to.next = at.next + 1 /\ to.slots = at.slots - 1 /\ to.points = at.points + PointsOf(q)
      /\ to.left = less /\ to.taken = Append(at.taken, q)
      /\ to = [next |-> to.next, slots |-> to.slots, points |-> to.points,
               left |-> to.left, taken |-> to.taken]
  BY DEF With
<1>2. /\ at.next \in Nat /\ at.slots \in Nat /\ at.points \in Nat /\ at.taken \in Seq(Bank)
      /\ at.left \in [DOMAIN section.weights -> Nat]
      /\ at.next >= 1 /\ Len(order) \in Nat /\ section.count \in Nat
      /\ BankOK
      /\ Due(section) \in [DOMAIN section.weights -> Nat]
  BY SectionTypes DEF Position, Progress, OrderOK, SectionOK
<1>3. q \in Bank
  BY <1>2 DEF OrderOK
<1>4. c \in Uses(section, q) /\ (c \in DOMAIN at.left => at.left[c] > 0)
  BY <1>3, OptionsFacts
<1>5. PointsOf(q) \in Nat
  BY <1>2, <1>3 DEF BankOK
<1> HIDE DEF q, to
<1>6. less \in [DOMAIN section.weights -> Nat]
  BY <1>2, <1>4
<1>7. /\ ToSet(to.taken) = ToSet(at.taken) \cup {q} /\ to.taken \in Seq(Bank)
      /\ Len(to.taken) = Len(at.taken) + 1
  BY <1>1, <1>2, <1>3, ToSetAppend
<1>8. to \in Position(section)
  <2>1. to.next \in Nat /\ to.slots \in Nat /\ to.points \in Nat
    <3>1. at.slots > 0
      OBVIOUS
    <3>2. at.next + 1 \in Nat /\ at.points + PointsOf(q) \in Nat
      BY ONLY <1>2, <1>5
    <3>4. at.slots - 1 \in Nat
      <4>1. at.slots \in Nat
        BY ONLY <1>2
      <4> QED
        BY ONLY <3>1, <4>1
    <3> QED
      BY ONLY <1>1, <3>2, <3>4
  <2>2. to.left \in [DOMAIN section.weights -> Nat] /\ to.taken \in Seq(Bank)
    BY <1>1, <1>6, <1>7
  <2> QED
    BY <1>1, <2>1, <2>2 DEF Position
<1>9. q \notin ToSet(at.taken)
  <2>1. q \notin Earlier(order, at.next)
    BY <1>2 DEF Earlier, OrderOK, IsInjective, q
  <2> QED
    BY <2>1 DEF Progress
<1>10. \E more : Choice(section, ToSet(to.taken), more, section.count - to.slots, to.points, Used(section, to))
  <2>1. PICK counted : Choice(section, ToSet(at.taken), counted, section.count - at.slots, at.points,
                              Used(section, at))
    BY DEF Progress
  <2> DEFINE greater == [d \in DOMAIN Used(section, at) |->
                            IF d = c THEN Used(section, at)[d] + 1 ELSE Used(section, at)[d]]
  <2>2. \E more : Choice(section, ToSet(at.taken) \cup {q}, more, section.count - at.slots + 1,
                         at.points + PointsOf(q), greater)
    <3> DEFINE slots == section.count - at.slots
    <3> DEFINE used == Used(section, at)
    <3> DEFINE T == ToSet(at.taken)
    <3> DEFINE points == at.points
    <3>1. Choice(section, T, counted, slots, points, used) /\ q \notin T
      BY <1>9, <2>1
    <3>2. BankOK /\ q \in Bank /\ c \in Uses(section, q)
      BY <1>2, <1>3, <1>4
    <3> HIDE DEF slots, used, T, points
    <3>3. greater = [d \in DOMAIN used |-> IF d = c THEN used[d] + 1 ELSE used[d]]
      BY DEF used
    <3> HIDE DEF greater
    <3>4. \E more : Choice(section, T \cup {q}, more, slots + 1, points + PointsOf(q), greater)
      BY <3>1, <3>2, <3>3, ChoiceMore
    <3> QED
      BY <3>4 DEF slots, used, T, points
  <2>3. greater = Used(section, to)
    <3>1. ASSUME NEW d \in DOMAIN section.weights
          PROVE  (IF d = c THEN Due(section)[d] - at.left[d] + 1 ELSE Due(section)[d] - at.left[d])
                   = Due(section)[d] - less[d]
      BY <1>2
    <3>2. DOMAIN less = DOMAIN section.weights /\ DOMAIN at.left = DOMAIN section.weights
      BY <1>2
    <3>3. Used(section, to) = [d \in DOMAIN section.weights |-> Due(section)[d] - less[d]]
      BY <1>1, <3>2 DEF Used
    <3>4. greater = [d \in DOMAIN section.weights |->
                        IF d = c THEN Due(section)[d] - at.left[d] + 1 ELSE Due(section)[d] - at.left[d]]
      BY <3>2 DEF Used
    <3> HIDE DEF less, greater
    <3> QED
      BY <3>1, <3>3, <3>4
  <2>4. section.count - at.slots + 1 = section.count - to.slots
    BY <1>1, <1>2
  <2> HIDE DEF greater
  <2> QED
    BY <1>1, <1>7, <2>2, <2>3, <2>4
<1>11. ToSet(to.taken) \subseteq Earlier(order, to.next)
  <2>1. Earlier(order, at.next) \cup {q} = Earlier(order, to.next)
    BY <1>1, <1>2 DEF Earlier, q
  <2> QED
    BY <1>7, <2>1 DEF Progress
<1>12. ASSUME NEW j \in 1..Len(section.anchors), j < to.next
       PROVE  section.anchors[j] \in ToSet(to.taken)
  <2>1. CASE j < at.next
    BY <1>7, <2>1 DEF Progress
  <2>2. CASE ~(j < at.next)
    <3>1. j = at.next
      BY <1>1, <1>2, <1>12, <2>2
    <3>2. section.anchors[j] = q
      BY <3>1 DEF OrderOK, q
    <3> QED
      BY <1>7, <3>2
  <2> QED
    BY <2>1, <2>2
<1>13. to.next \in 1..(Len(order) + 1)
  BY <1>1, <1>2
<1>14. Len(to.taken) = section.count - to.slots
  BY <1>1, <1>2, <1>7 DEF Progress
<1> QED
  BY <1>8, <1>10, <1>11, <1>12, <1>13, <1>14 DEF Progress, to, q

LEMMA WithoutOK ==
  ASSUME NEW section, SectionOK(section), NEW order, OrderOK(section, order),
         NEW at \in Position(section), Progress(section, order, at),
         at.next <= Len(order), at.next > Len(section.anchors)
  PROVE  Without(at) \in Position(section) /\ Progress(section, order, Without(at))
<1> DEFINE to == Without(at)
<1>1. /\ to.next = at.next + 1 /\ to.slots = at.slots /\ to.points = at.points
      /\ to.left = at.left /\ to.taken = at.taken /\ to \in Position(section)
  BY DEF Without, Position
<1>2. at.next \in Nat /\ at.next >= 1 /\ Len(order) \in Nat /\ Len(section.anchors) \in Nat
  BY SectionTypes DEF Position, Progress, OrderOK
<1> HIDE DEF to
<1>3. Used(section, to) = Used(section, at)
  BY <1>1 DEF Used
<1>4. Earlier(order, at.next) \subseteq Earlier(order, to.next)
  BY <1>1, <1>2 DEF Earlier
<1>5. \A j \in 1..Len(section.anchors) : j < at.next
  BY <1>2
<1>6. to.next \in 1..(Len(order) + 1)
  BY <1>1, <1>2
<1> QED
  BY <1>1, <1>3, <1>4, <1>5, <1>6 DEF Progress, to

(* A position with nothing left to take that satisfies its section meets it. *)
LEMMA FoundMeets ==
  ASSUME NEW section, SectionOK(section), NEW order, OrderOK(section, order),
         Len(section.anchors) <= section.count, NEW free, ToSet(order) \subseteq free,
         NEW at \in Position(section), Progress(section, order, at),
         at.slots = 0, Satisfied(section, at)
  PROVE  /\ Cardinality(ToSet(at.taken)) = Len(at.taken)
         /\ Meets(section, ToSet(at.taken), free)
<1> DEFINE S == ToSet(at.taken)
<1>1. /\ at.next \in Nat /\ at.next >= 1 /\ at.points \in Nat
      /\ at.left \in [DOMAIN section.weights -> Nat]
      /\ at.next <= Len(order) + 1 /\ Len(order) \in Nat
      /\ section.count \in Nat /\ section.count - at.slots = section.count
      /\ Len(section.anchors) \in Nat /\ DOMAIN section.anchors = 1..Len(section.anchors)
      /\ BankOK
      /\ Due(section) \in [DOMAIN section.weights -> Nat]
      /\ DOMAIN order = 1..Len(order)
  BY SectionTypes DEF Position, Progress, OrderOK, SectionOK
<1>2. PICK counted : Choice(section, S, counted, section.count, at.points, Used(section, at))
  BY <1>1 DEF Progress
<1>3. /\ S \in SUBSET Bank /\ IsFiniteSet(S) /\ Cardinality(S) = section.count
      /\ Worth(S) = at.points
      /\ \A q \in S : counted[q] \in Uses(section, q)
      /\ \A c \in DOMAIN Used(section, at) : CountedFor(S, counted, c) = Used(section, at)[c]
  BY <1>2 DEF Choice
<1>4. Len(at.taken) = section.count /\ S \subseteq Earlier(order, at.next)
  BY <1>1 DEF Progress
<1>5. S \subseteq free
  <2>1. Earlier(order, at.next) \subseteq ToSet(order)
    <3>1. \A j \in 1..at.next - 1 : j \in DOMAIN order
      BY ONLY <1>1
    <3> QED
      BY ONLY <3>1 DEF Earlier, ToSet
  <2> HIDE DEF S
  <2> QED
    BY <1>4, <2>1
<1>6. at.next > Len(section.anchors)
  <2> DEFINE g == [j \in 1..(at.next - 1) |-> order[j]]
  <2>1. g \in Surjection(1..(at.next - 1), Earlier(order, at.next))
    BY DEF Surjection, Earlier
  <2>2. /\ IsFiniteSet(1..(at.next - 1))
        /\ Cardinality(1..(at.next - 1)) = at.next - 1
    <3>1. at.next - 1 \in Int /\ 1 \in Int
      BY <1>1
    <3>2. /\ IsFiniteSet(1..(at.next - 1))
          /\ Cardinality(1..(at.next - 1)) = IF 1 > at.next - 1 THEN 0 ELSE at.next - 1 - 1 + 1
      BY <3>1, FS_Interval
    <3> QED
      BY <1>1, <3>2
  <2>3. /\ IsFiniteSet(Earlier(order, at.next))
        /\ Cardinality(Earlier(order, at.next)) <= at.next - 1
    BY <2>1, <2>2, FS_Surjection
  <2>4. Cardinality(S) <= Cardinality(Earlier(order, at.next))
    BY <1>4, <2>3, FS_Subset
  <2>5. Cardinality(Earlier(order, at.next)) \in Nat
    BY <2>3, FS_CardinalityType
  <2> HIDE DEF S
  <2> QED
    BY <1>1, <1>3, <2>3, <2>4, <2>5
<1>7. ToSet(section.anchors) \subseteq S
  BY <1>1, <1>6 DEF Progress, ToSet
<1>8. TotalOf([q \in S |-> PointsOf(q)]) = section.score
  <2>1. TotalOf([q \in S |-> PointsOf(q)]) = Worth(S)
    BY <1>1, <1>3, WorthFacts
  <2> HIDE DEF S
  <2> QED
    BY <1>3, <2>1 DEF Satisfied
<1>9. ASSUME section.weights # <<>>
      PROVE  \E f \in [S -> DOMAIN section.weights] :
                /\ \A q \in S : f[q] \in TestsOf(q)
                /\ \A c \in DOMAIN Due(section) : Cardinality({q \in S : f[q] = c}) = Due(section)[c]
  <2> DEFINE f == [q \in S |-> counted[q]]
  <2>1. \A q \in S : counted[q] \in TestsOf(q) /\ counted[q] \in DOMAIN section.weights
    BY <1>3, <1>9 DEF Uses
  <2>2. f \in [S -> DOMAIN section.weights] /\ \A q \in S : f[q] \in TestsOf(q)
    BY <2>1
  <2>3. ASSUME NEW c \in DOMAIN Due(section)
        PROVE  Cardinality({q \in S : f[q] = c}) = Due(section)[c]
    <3>1. {q \in S : f[q] = c} = {q \in S : counted[q] = c}
      OBVIOUS
    <3>2. c \in DOMAIN Used(section, at) /\ Used(section, at)[c] = Due(section)[c] - at.left[c]
      BY <1>1 DEF Used
    <3>3. at.left[c] = 0 /\ Due(section)[c] \in Nat
      BY <1>1 DEF Satisfied
    <3> HIDE DEF f, S
    <3> QED
      BY <1>3, <3>1, <3>2, <3>3 DEF CountedFor
  <2> HIDE DEF f
  <2> QED
    BY <2>2, <2>3
<1> HIDE DEF S
<1>10. Meets(section, S, free)
  BY <1>3, <1>5, <1>7, <1>8, <1>9 DEF Meets, Due
<1> QED
  BY <1>3, <1>4, <1>10 DEF S

(* What meets a section completes its first position. *)
LEMMA MeetsCompletes ==
  ASSUME NEW section, SectionOK(section), NEW order, OrderOK(section, order),
         NEW S, Meets(section, S, ToSet(order))
  PROVE  Completable(section, order, Start(section))
<1> DEFINE at == Start(section)
<1>1. /\ at.next = 1 /\ at.slots = section.count /\ at.points = 0 /\ at.left = Due(section)
  BY DEF Start, Due
<1>2. /\ section.score - 0 = section.score /\ BankOK
      /\ Len(order) \in Nat /\ DOMAIN order = 1..Len(order)
      /\ \A j \in 1..Len(order) : order[j] \in Bank
      /\ DOMAIN section.anchors = 1..Len(section.anchors)
      /\ section.weights = <<>> <=> DOMAIN section.weights = {}
      /\ DOMAIN Due(section) = DOMAIN section.weights
  BY SectionTypes DEF OrderOK, SectionOK
<1>3. /\ S \in SUBSET Later(order, 1) /\ Required(section, 1) \subseteq S
      /\ Cardinality(S) = section.count
      /\ TotalOf([q \in S |-> PointsOf(q)]) = section.score
  BY <1>2 DEF Meets, ToSet, Later, Required
<1>4. S \in SUBSET Bank
  BY <1>2, <1>3 DEF Later
<1>5. IsFiniteSet(S) /\ Worth(S) = section.score
  BY <1>2, <1>3, <1>4, WorthFacts
<1>6. \E counted : /\ \A q \in S : counted[q] \in Uses(section, q)
                   /\ \A c \in DOMAIN Due(section) : CountedFor(S, counted, c) = Due(section)[c]
  <2>1. CASE section.weights = <<>>
    <3> DEFINE zero == [q \in S |-> 0]
    <3>1. \A q \in S : zero[q] \in Uses(section, q)
      BY <2>1 DEF Uses
    <3>2. DOMAIN Due(section) = {}
      BY <1>2, <2>1
    <3> HIDE DEF zero
    <3> QED
      BY <3>1, <3>2
  <2>2. CASE section.weights # <<>>
    <3>1. PICK counted \in [S -> DOMAIN section.weights] :
              /\ \A q \in S : counted[q] \in TestsOf(q)
              /\ \A c \in DOMAIN Due(section) : Cardinality({q \in S : counted[q] = c}) = Due(section)[c]
      BY <2>2 DEF Meets, Due
    <3> QED
      BY <2>2, <3>1 DEF Uses, CountedFor
  <2> QED
    BY <2>1, <2>2
<1>7. PICK counted : Choice(section, S, counted, section.count, section.score, Due(section))
  BY <1>3, <1>4, <1>5, <1>6 DEF Choice
<1> HIDE DEF at
<1> QED
  BY <1>1, <1>2, <1>3, <1>7 DEF Completable, at

-----------------------------------------------------------------------------
(* Calls of the search. *)

CallRow(section) == [at : Position(section), options : SUBSET Nat, skip : BOOLEAN]

CallOK(section, order, call) ==
    /\ call \in CallRow(section) /\ Progress(section, order, call.at)
    /\ call.options # {} \/ call.skip => call.at.slots > 0 /\ call.at.next <= Len(order)
    /\ \A c \in call.options : c \in Options(section, order[call.at.next], call.at.left)
    /\ call.skip => call.at.next > Len(section.anchors)

(* A call has not given up: it has succeeded, or something it has still to try can *)
(* be completed.                                                                   *)
GoesOn(section, order, call) ==
    \/ call.at.slots = 0 /\ Satisfied(section, call.at)
    \/ \E c \in call.options : Completable(section, order, With(call.at, order[call.at.next], c))
    \/ call.skip /\ Completable(section, order, Without(call.at))

FailedOK(section, order, failed) ==
    \A at : Key(at) \in failed => ~Completable(section, order, at)

(* If the position of a call can be completed, the call or one inside it finds out. *)
CallsOK(section, order, calls) ==
    \A n \in 1..Len(calls) :
        /\ CallOK(section, order, calls[n])
        /\ n < Len(calls) => calls[n].at.slots > 0
        /\ Completable(section, order, calls[n].at) =>
              \/ GoesOn(section, order, calls[n])
              \/ n < Len(calls) /\ Completable(section, order, calls[n + 1].at)

SearchOK(section, open, s) ==
    /\ s = [order |-> s.order, failed |-> s.failed, calls |-> s.calls]
    /\ OrderOK(section, s.order) /\ ToSet(s.order) = open
    /\ Len(section.anchors) <= section.count
    /\ FailedOK(section, s.order, s.failed)
    /\ s.calls \in Seq(CallRow(section)) /\ Len(s.calls) >= 1 /\ s.calls[1].at = Start(section)
    /\ CallsOK(section, s.order, s.calls)

LEMMA CallBegins ==
  ASSUME NEW section, SectionOK(section), NEW order, OrderOK(section, order),
         NEW failed, FailedOK(section, order, failed),
         NEW at \in Position(section), Progress(section, order, at)
  PROVE  LET call == Call(section, order, failed, at)
         IN  /\ CallOK(section, order, call) /\ call.at = at
             /\ Completable(section, order, at) => GoesOn(section, order, call)
<1> DEFINE call == Call(section, order, failed, at)
<1> DEFINE dead == DeadEnd(section, order, failed, at)
<1> DEFINE options == IF dead THEN {} ELSE Options(section, order[at.next], at.left)
<1> DEFINE skip == ~dead /\ at.next > Len(section.anchors)
<1>a. call = [at |-> at, options |-> options, skip |-> skip]
  BY DEF Call
<1>b. skip \in BOOLEAN
  OBVIOUS
<1>c. /\ (dead => ~skip) /\ (~dead => (skip <=> at.next > Len(section.anchors)))
      /\ (dead => options = {}) /\ (~dead => options = Options(section, order[at.next], at.left))
  OBVIOUS
<1> HIDE DEF call, options, skip
<1>d. call.at = at /\ call.options = options /\ call.skip = skip
  BY <1>a
<1>1. /\ call = [at |-> at, options |-> call.options, skip |-> call.skip]
      /\ call.at = at
      /\ dead => call.options = {} /\ ~call.skip
      /\ ~dead => /\ call.options = Options(section, order[at.next], at.left)
                  /\ (call.skip <=> at.next > Len(section.anchors))
  BY <1>a, <1>c, <1>d
<1>2. /\ at.next \in Nat /\ at.next >= 1 /\ at.next <= Len(order) + 1 /\ at.slots \in Nat
      /\ Len(order) \in Nat /\ Len(section.anchors) \in Nat
  BY SectionTypes DEF Position, Progress, OrderOK
<1>3. ~dead => at.slots > 0 /\ at.next <= Len(order) /\ order[at.next] \in Bank
  BY <1>2 DEF DeadEnd, OrderOK
<1>4. call.skip \in BOOLEAN
  BY <1>b, <1>d
<1>5. call.options \in SUBSET Nat
  BY <1>1, <1>3, OptionsFacts
<1>6. call \in CallRow(section)
  BY <1>1, <1>4, <1>5 DEF CallRow
<1> HIDE DEF call, dead
<1>7. CallOK(section, order, call)
  BY <1>1, <1>2, <1>3, <1>6 DEF CallOK
<1>8. ASSUME Completable(section, order, at) PROVE GoesOn(section, order, call)
  <2>1. CASE ~dead
    <3>1. at.next \in 1..Len(order)
      BY <1>2, <1>3, <2>1
    <3>2. \/ \E c \in Options(section, order[at.next], at.left) :
                Completable(section, order, With(at, order[at.next], c))
          \/ at.next > Len(section.anchors) /\ Completable(section, order, Without(at))
      BY <1>8, <3>1, Branching
    <3> QED
      BY <1>1, <2>1, <3>2 DEF GoesOn
  <2>2. CASE dead
    <3>1. at.next \in 1..(Len(order) + 1)
      BY <1>2
    <3>2. at.slots = 0 /\ Satisfied(section, at)
      BY <1>8, <2>2, <3>1, Hopeless DEF dead, DeadEnd, FailedOK
    <3> QED
      BY <1>1, <3>2 DEF GoesOn
  <2> QED
    BY <2>1, <2>2
<1> QED
  BY <1>1, <1>7, <1>8 DEF call

LEMMA SearchBegins ==
  ASSUME NEW section, SectionOK(section), NEW order, OrderOK(section, order),
         Len(section.anchors) <= section.count
  PROVE  SearchOK(section, ToSet(order),
                  [order |-> order, failed |-> {}, calls |-> <<Call(section, order, {}, Start(section))>>])
<1> DEFINE call == Call(section, order, {}, Start(section))
<1> DEFINE s == [order |-> order, failed |-> {}, calls |-> <<call>>]
<1>1. Start(section) \in Position(section) /\ Progress(section, order, Start(section))
  BY StartOK
<1>2. FailedOK(section, order, {})
  BY DEF FailedOK
<1>3. /\ CallOK(section, order, call) /\ call.at = Start(section)
      /\ Completable(section, order, Start(section)) => GoesOn(section, order, call)
  BY <1>1, <1>2, CallBegins
<1>4. call \in CallRow(section)
  BY <1>3 DEF CallOK
<1> HIDE DEF call
<1>5. Len(<<call>>) = 1 /\ <<call>>[1] = call /\ <<call>> \in Seq(CallRow(section))
  BY <1>4
<1>6. CallsOK(section, order, <<call>>)
  BY <1>3, <1>5 DEF CallsOK
<1>7. s.order = order /\ s.failed = {} /\ s.calls = <<call>>
      /\ s = [order |-> s.order, failed |-> s.failed, calls |-> s.calls]
  OBVIOUS
<1> HIDE DEF s
<1>8. SearchOK(section, ToSet(order), s)
  BY <1>2, <1>3, <1>5, <1>6, <1>7 DEF SearchOK
<1> QED
  BY <1>8 DEF s, call

(* The innermost call calls the search for another position. *)
LEMMA SearchEnters ==
  ASSUME NEW section, SectionOK(section), NEW open, NEW s, SearchOK(section, open, s),
         NEW n, n = Len(s.calls), NEW rest, CallOK(section, s.order, rest),
         rest.at = s.calls[n].at, rest.at.slots > 0,
         NEW at \in Position(section), Progress(section, s.order, at),
         GoesOn(section, s.order, s.calls[n]) =>
             GoesOn(section, s.order, rest) \/ Completable(section, s.order, at)
  PROVE  SearchOK(section, open,
             [s EXCEPT !.calls = Append([@ EXCEPT ![n] = rest], Call(section, s.order, s.failed, at))])
<1> DEFINE call == Call(section, s.order, s.failed, at)
<1> DEFINE calls == Append([s.calls EXCEPT ![n] = rest], call)
<1> DEFINE next == [s EXCEPT !.calls = calls]
<1>1. /\ OrderOK(section, s.order) /\ FailedOK(section, s.order, s.failed)
      /\ s.calls \in Seq(CallRow(section)) /\ n \in Nat /\ n >= 1 /\ s.calls[1].at = Start(section)
      /\ \A k \in 1..n : CallOK(section, s.order, s.calls[k])
      /\ \A k \in 1..n : k < n => s.calls[k].at.slots > 0
      /\ \A k \in 1..n : Completable(section, s.order, s.calls[k].at) =>
              \/ GoesOn(section, s.order, s.calls[k])
              \/ k < n /\ Completable(section, s.order, s.calls[k + 1].at)
  BY DEF SearchOK, CallsOK
<1>2. /\ CallOK(section, s.order, call) /\ call.at = at
      /\ Completable(section, s.order, at) => GoesOn(section, s.order, call)
  BY <1>1, CallBegins
<1>3. rest \in CallRow(section) /\ call \in CallRow(section)
  BY <1>2 DEF CallOK
<1> HIDE DEF call
<1>4. /\ calls \in Seq(CallRow(section)) /\ Len(calls) = n + 1
      /\ calls[n] = rest /\ calls[n + 1] = call
      /\ \A k \in 1..(n - 1) : calls[k] = s.calls[k]
  BY <1>1, <1>3
<1> HIDE DEF calls
<1>5. calls[1].at = Start(section)
  BY <1>1, <1>4
<1>6. ASSUME NEW k \in 1..Len(calls)
      PROVE  /\ CallOK(section, s.order, calls[k])
             /\ k < Len(calls) => calls[k].at.slots > 0
             /\ Completable(section, s.order, calls[k].at) =>
                   \/ GoesOn(section, s.order, calls[k])
                   \/ k < Len(calls) /\ Completable(section, s.order, calls[k + 1].at)
  <2>1. CASE k = n + 1
    BY <1>1, <1>2, <1>4, <2>1
  <2>2. CASE k = n
    BY <1>1, <1>2, <1>4, <2>2
  <2>3. CASE k \in 1..(n - 1)
    <3>1. calls[k] = s.calls[k] /\ k \in 1..n /\ k < n /\ k < Len(calls)
      BY <1>1, <1>4, <2>3
    <3>2. calls[k + 1].at = s.calls[k + 1].at
      <4>1. CASE k + 1 = n
        BY <1>4, <4>1
      <4>2. CASE k + 1 # n
        <5>1. k + 1 \in 1..(n - 1)
          BY <1>1, <2>3, <4>2
        <5> QED
          BY <1>4, <5>1
      <4> QED
        BY <4>1, <4>2
    <3> QED
      BY <1>1, <3>1, <3>2
  <2> QED
    BY <1>1, <1>4, <2>1, <2>2, <2>3
<1>7. CallsOK(section, s.order, calls)
  BY <1>6 DEF CallsOK
<1>8. /\ next.order = s.order /\ next.failed = s.failed /\ next.calls = calls
      /\ next = [order |-> next.order, failed |-> next.failed, calls |-> next.calls]
  BY DEF SearchOK
<1>9. Len(calls) >= 1
  BY <1>1, <1>4
<1> HIDE DEF next
<1>10. SearchOK(section, open, next)
  BY <1>1, <1>4, <1>5, <1>7, <1>8, <1>9 DEF SearchOK
<1> QED
  BY <1>10 DEF next, calls, call

(* A call that has nothing left to try has nothing to find. *)
LEMMA GivenUp ==
  ASSUME NEW section, NEW order, NEW failed, FailedOK(section, order, failed), NEW call,
         Completable(section, order, call.at) => GoesOn(section, order, call),
         call.options = {}, ~call.skip,
         ~(call.at.slots = 0 /\ Satisfied(section, call.at) /\ Key(call.at) \notin failed)
  PROVE  ~Completable(section, order, call.at)
BY DEF GoesOn, FailedOK

LEMMA SearchReturns ==
  ASSUME NEW section, SectionOK(section), NEW open, NEW s, SearchOK(section, open, s),
         NEW n, n = Len(s.calls), n > 1, ~Completable(section, s.order, s.calls[n].at)
  PROVE  SearchOK(section, open,
             [s EXCEPT !.failed = @ \union {Key(s.calls[n].at)}, !.calls = SubSeq(@, 1, n - 1)])
<1> DEFINE calls == SubSeq(s.calls, 1, n - 1)
<1> DEFINE failed == s.failed \union {Key(s.calls[n].at)}
<1> DEFINE next == [s EXCEPT !.failed = failed, !.calls = calls]
<1>1. /\ OrderOK(section, s.order) /\ FailedOK(section, s.order, s.failed)
      /\ s.calls \in Seq(CallRow(section)) /\ n \in Nat /\ s.calls[1].at = Start(section)
      /\ \A k \in 1..n : CallOK(section, s.order, s.calls[k])
      /\ \A k \in 1..n : k < n => s.calls[k].at.slots > 0
      /\ \A k \in 1..n : Completable(section, s.order, s.calls[k].at) =>
              \/ GoesOn(section, s.order, s.calls[k])
              \/ k < n /\ Completable(section, s.order, s.calls[k + 1].at)
  BY DEF SearchOK, CallsOK
<1>2. /\ calls \in Seq(CallRow(section)) /\ Len(calls) = n - 1
      /\ \A k \in 1..(n - 1) : calls[k] = s.calls[k]
  BY <1>1
<1>3. FailedOK(section, s.order, failed)
  <2>1. SUFFICES ASSUME NEW at, Key(at) \in failed, Completable(section, s.order, at) PROVE FALSE
    BY DEF FailedOK
  <2>2. Key(at) = Key(s.calls[n].at)
    BY <1>1, <2>1 DEF FailedOK
  <2>3. Completable(section, s.order, s.calls[n].at)
    BY <2>1, <2>2, SameKey
  <2> QED
    BY <2>3
<1> HIDE DEF calls, failed
<1>4. ASSUME NEW k \in 1..Len(calls)
      PROVE  /\ CallOK(section, s.order, calls[k])
             /\ k < Len(calls) => calls[k].at.slots > 0
             /\ Completable(section, s.order, calls[k].at) =>
                   \/ GoesOn(section, s.order, calls[k])
                   \/ k < Len(calls) /\ Completable(section, s.order, calls[k + 1].at)
  <2>1. calls[k] = s.calls[k] /\ k \in 1..n /\ k < n
    BY <1>1, <1>2
  <2>2. CASE k = n - 1
    <3>1. k + 1 = n
      BY <1>1, <2>2
    <3> QED
      BY <1>1, <2>1, <3>1
  <2>3. CASE k # n - 1
    <3>1. k + 1 \in 1..(n - 1) /\ k < Len(calls)
      BY <1>1, <1>2, <2>3
    <3>2. calls[k + 1] = s.calls[k + 1]
      BY <1>2, <3>1
    <3> QED
      BY <1>1, <2>1, <3>1, <3>2
  <2> QED
    BY <2>2, <2>3
<1>5. CallsOK(section, s.order, calls)
  BY <1>4 DEF CallsOK
<1>s. PICK o, f, k : s = [order |-> o, failed |-> f, calls |-> k]
  BY DEF SearchOK
<1>6. /\ next.order = s.order /\ next.failed = failed /\ next.calls = calls
      /\ next = [order |-> next.order, failed |-> next.failed, calls |-> next.calls]
  <2> DEFINE t == [order |-> o, failed |-> failed, calls |-> calls]
  <2>1. next = t
    <3> DEFINE u == [s EXCEPT !.failed = failed]
    <3>1. u = [order |-> o, failed |-> failed, calls |-> k]
      BY <1>s
    <3>2. next = [u EXCEPT !.calls = calls]
      OBVIOUS
    <3> HIDE DEF u, next
    <3> QED
      BY <3>1, <3>2
  <2>2. t.order = o /\ t.failed = failed /\ t.calls = calls /\ s.order = o
    BY <1>s
  <2> QED
    BY <2>1, <2>2
<1>7. Len(calls) >= 1 /\ calls[1].at = Start(section)
  BY <1>1, <1>2
<1> HIDE DEF next
<1>8. SearchOK(section, open, next)
  BY <1>1, <1>2, <1>3, <1>5, <1>6, <1>7 DEF SearchOK
<1> QED
  BY <1>8 DEF next, calls, failed

-----------------------------------------------------------------------------
(* The request never changes, so nothing that depends on it alone does. *)

LEMMA SameBank ==
  ASSUME plan' = plan
  PROVE  /\ Bank' = Bank /\ BankOK' = BankOK
         /\ \A q : PointsOf(q)' = PointsOf(q) /\ TestsOf(q)' = TestsOf(q)
         /\ \A S : Worth(S)' = Worth(S)
<1>1. Bank' = Bank
  BY DEF Bank
<1>2. \A q : PointsOf(q)' = PointsOf(q) /\ TestsOf(q)' = TestsOf(q)
  BY DEF PointsOf, TestsOf
<1>3. Points' = Points
  BY <1>1, <1>2 DEF Points
<1>4. \A S : Worth(S)' = Worth(S)
  BY <1>3 DEF Worth
<1>5. BankOK' = BankOK
  BY <1>1, <1>2 DEF BankOK
<1> QED
  BY <1>1, <1>2, <1>4, <1>5

LEMMA SameChoice ==
  ASSUME plan' = plan
  PROVE  \A section, S, counted, slots, points, left :
            Choice(section, S, counted, slots, points, left)' <=>
            Choice(section, S, counted, slots, points, left)
<1>1. \A section, q : Uses(section, q)' = Uses(section, q)
  BY SameBank DEF Uses
<1> QED
  BY <1>1, SameBank DEF Choice

LEMMA SameSection ==
  ASSUME plan' = plan
  PROVE  /\ \A section : SectionOK(section)' = SectionOK(section)
         /\ \A section, order : OrderOK(section, order)' = OrderOK(section, order)
         /\ \A section : Position(section)' = Position(section)
<1>1. \A section : SectionOK(section)' = SectionOK(section)
  BY SameBank DEF SectionOK
<1>2. \A section, order : OrderOK(section, order)' = OrderOK(section, order)
  BY SameBank DEF OrderOK
<1>3. \A section : Position(section)' = Position(section)
  BY SameBank DEF Position
<1> QED
  BY <1>1, <1>2, <1>3

LEMMA SameCompletable ==
  ASSUME plan' = plan
  PROVE  \A section, order, at : Completable(section, order, at)' <=> Completable(section, order, at)
BY SameChoice DEF Completable

LEMMA SameProgress ==
  ASSUME plan' = plan
  PROVE  \A section, order, at : Progress(section, order, at)' <=> Progress(section, order, at)
BY SameChoice DEF Progress

LEMMA SameCall ==
  ASSUME plan' = plan
  PROVE  /\ \A section, order, call : CallOK(section, order, call)' <=> CallOK(section, order, call)
         /\ \A section, order, call : GoesOn(section, order, call)' <=> GoesOn(section, order, call)
         /\ \A section, order, failed : FailedOK(section, order, failed)' <=> FailedOK(section, order, failed)
<1>1. \A section, q, left : Options(section, q, left)' = Options(section, q, left)
  BY SameBank DEF Options
<1>2. \A at, q, c : With(at, q, c)' = With(at, q, c)
  BY SameBank DEF With
<1>3. \A section : CallRow(section)' = CallRow(section)
  BY SameSection DEF CallRow
<1>4. \A section, order, call : CallOK(section, order, call)' <=> CallOK(section, order, call)
  BY <1>1, <1>3, SameProgress DEF CallOK
<1>5. \A section, order, call : GoesOn(section, order, call)' <=> GoesOn(section, order, call)
  BY <1>2, SameCompletable DEF GoesOn
<1>6. \A section, order, failed : FailedOK(section, order, failed)' <=> FailedOK(section, order, failed)
  BY SameCompletable DEF FailedOK
<1> QED
  BY <1>4, <1>5, <1>6

LEMMA SameSearch ==
  ASSUME plan' = plan
  PROVE  \A section, open, s : SearchOK(section, open, s)' <=> SearchOK(section, open, s)
<1>1. \A section, order, calls : CallsOK(section, order, calls)' <=> CallsOK(section, order, calls)
  BY SameCall, SameCompletable DEF CallsOK
<1>2. \A section : CallRow(section)' = CallRow(section)
  BY SameSection DEF CallRow
<1> QED
  BY <1>1, <1>2, SameSection, SameCall DEF SearchOK

LEMMA SameMeets ==
  ASSUME plan' = plan
  PROVE  \A section, S, free : Meets(section, S, free)' <=> Meets(section, S, free)
<1>1. \A S : [q \in S |-> PointsOf(q)]' = [q \in S |-> PointsOf(q)]
  BY SameBank
<1>2. \A S : TotalOf([q \in S |-> PointsOf(q)])' = TotalOf([q \in S |-> PointsOf(q)])
  BY <1>1
<1> QED
  BY <1>2, SameBank DEF Meets

-----------------------------------------------------------------------------
(* Steps of the search. *)

LEMMA TopOK ==
  ASSUME NEW section, SectionOK(section), NEW open, NEW s, SearchOK(section, open, s),
         NEW n, n = Len(s.calls), NEW top, top = s.calls[n]
  PROVE  /\ OrderOK(section, s.order) /\ FailedOK(section, s.order, s.failed)
         /\ n \in Nat /\ n >= 1 /\ CallOK(section, s.order, top)
         /\ top = [at |-> top.at, options |-> top.options, skip |-> top.skip]
         /\ top.at \in Position(section) /\ top.options \in SUBSET Nat /\ top.skip \in BOOLEAN
         /\ Progress(section, s.order, top.at)
         /\ Completable(section, s.order, top.at) => GoesOn(section, s.order, top)
<1>1. /\ OrderOK(section, s.order) /\ FailedOK(section, s.order, s.failed)
      /\ s.calls \in Seq(CallRow(section)) /\ Len(s.calls) >= 1 /\ CallsOK(section, s.order, s.calls)
  BY DEF SearchOK
<1>2. n \in 1..Len(s.calls) /\ ~(n < Len(s.calls)) /\ n \in Nat /\ n >= 1
  BY <1>1
<1>3. /\ CallOK(section, s.order, top)
      /\ Completable(section, s.order, top.at) => GoesOn(section, s.order, top)
  BY <1>1, <1>2 DEF CallsOK
<1>4. top \in CallRow(section) /\ Progress(section, s.order, top.at)
  BY <1>3 DEF CallOK
<1> QED
  BY <1>1, <1>2, <1>3, <1>4 DEF CallRow

(* Records of calls, changed in one field. *)

LEMMA OptionsField ==
  ASSUME NEW top, DOMAIN top = {"at", "options", "skip"}, NEW c
  PROVE  [top EXCEPT !.options = c] = [at |-> top.at, options |-> c, skip |-> top.skip]
<1> DEFINE u == [top EXCEPT !.options = c]
<1>2. DOMAIN u = {"at", "options", "skip"} /\ u.at = top.at /\ u.options = c /\ u.skip = top.skip
  OBVIOUS
<1>3. u = [x \in DOMAIN u |-> u[x]]
  OBVIOUS
<1> QED
  BY <1>2, <1>3

LEMMA SkipField ==
  ASSUME NEW top, DOMAIN top = {"at", "options", "skip"}
  PROVE  [top EXCEPT !.skip = FALSE] = [at |-> top.at, options |-> top.options, skip |-> FALSE]
<1> DEFINE u == [top EXCEPT !.skip = FALSE]
<1> DEFINE r == [at |-> top.at, options |-> top.options, skip |-> FALSE]
<1>2. DOMAIN u = {"at", "options", "skip"} /\ u.at = top.at /\ u.options = top.options /\ u.skip = FALSE
  OBVIOUS
<1>3. DOMAIN r = {"at", "options", "skip"} /\ r.at = top.at /\ r.options = top.options /\ r.skip = FALSE
  OBVIOUS
<1>4. u = [x \in DOMAIN u |-> u[x]] /\ r = [x \in DOMAIN r |-> r[x]]
  OBVIOUS
<1> HIDE DEF u, r
<1>5. \A x \in DOMAIN u : u[x] = r[x]
  BY <1>2, <1>3
<1>6. u = r
  BY <1>2, <1>3, <1>4, <1>5
<1> QED
  BY <1>6 DEF u, r

LEMMA CallTakes ==
  ASSUME NEW top, NEW A, NEW O, NEW K, top \in [at : A, options : O, skip : K], NEW d
  PROVE  [top EXCEPT !.options = @ \ {d}] = [at |-> top.at, options |-> top.options \ {d}, skip |-> top.skip]
BY OptionsField

LEMMA CallSkips ==
  ASSUME NEW top, NEW A, NEW O, NEW K, top \in [at : A, options : O, skip : K]
  PROVE  [top EXCEPT !.skip = FALSE] = [at |-> top.at, options |-> top.options, skip |-> FALSE]
BY SkipField

LEMMA SearchTakes ==
  ASSUME NEW section, SectionOK(section), NEW open, NEW s, SearchOK(section, open, s),
         NEW n, n = Len(s.calls), NEW top, top = s.calls[n], NEW c \in top.options
  PROVE  SearchOK(section, open,
             [s EXCEPT !.calls = Append([@ EXCEPT ![n] = [top EXCEPT !.options = @ \ {c}]],
                                        Call(section, s.order, s.failed,
                                             With(top.at, s.order[top.at.next], c)))])
<1> DEFINE rest == [top EXCEPT !.options = @ \ {c}]
<1> DEFINE to == With(top.at, s.order[top.at.next], c)
<1>1. /\ OrderOK(section, s.order) /\ CallOK(section, s.order, top)
      /\ top = [at |-> top.at, options |-> top.options, skip |-> top.skip]
      /\ top.at \in Position(section) /\ top.options \in SUBSET Nat /\ top.skip \in BOOLEAN
      /\ Progress(section, s.order, top.at)
  BY TopOK
<1>2. rest = [at |-> top.at, options |-> top.options \ {c}, skip |-> top.skip]
  <2>1. top \in [at : Position(section), options : SUBSET Nat, skip : BOOLEAN]
    BY <1>1 DEF CallOK, CallRow
  <2> QED
    BY ONLY <2>1, CallTakes
<1>3. rest.at = top.at /\ rest.options = top.options \ {c} /\ rest.skip = top.skip
  BY <1>2
<1>4. top.at.slots > 0 /\ top.at.next <= Len(s.order)
      /\ c \in Options(section, s.order[top.at.next], top.at.left)
  BY <1>1 DEF CallOK
<1>5. to \in Position(section) /\ Progress(section, s.order, to)
  BY <1>1, <1>4, WithOK
<1> HIDE DEF rest
<1>6. rest \in CallRow(section)
  BY <1>1, <1>2 DEF CallRow
<1>7. CallOK(section, s.order, rest)
  BY <1>1, <1>3, <1>4, <1>6 DEF CallOK
<1>8. GoesOn(section, s.order, top) => GoesOn(section, s.order, rest) \/ Completable(section, s.order, to)
  BY <1>3 DEF GoesOn
<1> HIDE DEF to
<1>9. SearchOK(section, open,
          [s EXCEPT !.calls = Append([@ EXCEPT ![n] = rest], Call(section, s.order, s.failed, to))])
  BY <1>3, <1>4, <1>5, <1>7, <1>8, SearchEnters
<1> QED
  BY <1>9 DEF rest, to

LEMMA SearchLeavesOut ==
  ASSUME NEW section, SectionOK(section), NEW open, NEW s, SearchOK(section, open, s),
         NEW n, n = Len(s.calls), NEW top, top = s.calls[n], top.skip, top.options = {}
  PROVE  SearchOK(section, open,
             [s EXCEPT !.calls = Append([@ EXCEPT ![n] = [top EXCEPT !.skip = FALSE]],
                                        Call(section, s.order, s.failed, Without(top.at)))])
<1> DEFINE rest == [top EXCEPT !.skip = FALSE]
<1> DEFINE to == Without(top.at)
<1>1. /\ OrderOK(section, s.order) /\ CallOK(section, s.order, top)
      /\ top = [at |-> top.at, options |-> top.options, skip |-> top.skip]
      /\ top.at \in Position(section) /\ top.options \in SUBSET Nat
      /\ Progress(section, s.order, top.at)
  BY TopOK
<1>2. rest = [at |-> top.at, options |-> top.options, skip |-> FALSE]
  <2>1. top \in [at : Position(section), options : SUBSET Nat, skip : BOOLEAN]
    BY <1>1 DEF CallOK, CallRow
  <2> QED
    BY ONLY <2>1, CallSkips
<1>3. rest.at = top.at /\ rest.options = {} /\ rest.skip = FALSE
  BY <1>2
<1>4. top.at.slots > 0 /\ top.at.next <= Len(s.order) /\ top.at.next > Len(section.anchors)
  BY <1>1 DEF CallOK
<1>5. to \in Position(section) /\ Progress(section, s.order, to)
  BY <1>1, <1>4, WithoutOK
<1> HIDE DEF rest
<1>6. rest \in CallRow(section)
  BY <1>1, <1>2 DEF CallRow
<1>7. CallOK(section, s.order, rest)
  BY <1>1, <1>3, <1>4, <1>6 DEF CallOK
<1>8. GoesOn(section, s.order, top) => GoesOn(section, s.order, rest) \/ Completable(section, s.order, to)
  BY <1>3 DEF GoesOn
<1> HIDE DEF to
<1>9. SearchOK(section, open,
          [s EXCEPT !.calls = Append([@ EXCEPT ![n] = rest], Call(section, s.order, s.failed, to))])
  BY <1>3, <1>4, <1>5, <1>7, <1>8, SearchEnters
<1> QED
  BY <1>9 DEF rest, to

-----------------------------------------------------------------------------
(* The inductive invariant. *)

SectionBuilt(n) ==
    \E section, S, free :
        /\ section = plan.sections[n] /\ S = ToSet(paper[n]) /\ free = FreeFor(n)
        /\ Cardinality(S) = Len(paper[n]) /\ Meets(section, S, free)

Searches ==
    \E section, open, s :
        /\ section = Section /\ open = OpenTo(Section) /\ s = search
        /\ SearchOK(section, open, s)

NoneMeets ==
    \E section, free :
        /\ section = Section /\ free = OpenTo(Section)
        /\ \A S : ~Meets(section, S, free)

BlueprintOK ==
    /\ groups = <<>>
    /\ Len(paper) <= Len(plan.sections)
    /\ \A n \in DOMAIN paper : SectionBuilt(n)
    /\ search # <<>> => outcome = "building" /\ Len(paper) < Len(plan.sections) /\ Searches
    /\ outcome = "refused" => Len(paper) < Len(plan.sections) /\ NoneMeets

(* A short bank is taken as it is; a longer one is shared out in rounds: the groups are *)
(* what is not chosen yet, and a weaker concept with more to offer is not behind.       *)
StageShort == outcome = "frozen" /\ Cardinality(Bank) <= PaperSize /\ ToSet(paper[1]) = Bank /\ groups = <<>>

StageShared ==
    /\ PaperSize < Cardinality(Bank) /\ Len(paper[1]) <= PaperSize
    /\ DOMAIN groups = {Owner(q) : q \in Bank \ ToSet(paper[1])}
    /\ \A c \in DOMAIN groups : groups[c] = {q \in Bank \ ToSet(paper[1]) : Owner(q) = c}
    /\ \A c \in DOMAIN groups : \A d \in Nat : Mastery(c) < Mastery(d) => PlacesOf(d) <= PlacesOf(c)
    /\ outcome = "frozen" => groups = <<>> \/ Len(paper[1]) >= PaperSize

StageOK ==
    IF paper = <<>> THEN groups = <<>> /\ outcome # "frozen"
    ELSE Len(paper) = 1 /\ IsInjective(paper[1]) /\ (StageShort \/ StageShared)

PaperInv ==
    /\ plan \in Plans
    /\ paper \in Seq(Seq(Bank))
    /\ outcome \in {"building", "frozen", "refused"}
    /\ \A c \in DOMAIN groups : groups[c] # {} /\ groups[c] \subseteq Bank
    /\ plan.mode = "blueprint" => BlueprintOK
    /\ plan.mode # "blueprint" => search = <<>>
    /\ plan.mode = "stage_assessment" => StageOK
    /\ plan.mode # "stage_assessment" => groups = <<>>

LEMMA PlanOK ==
  ASSUME plan \in Plans
  PROVE  /\ IsFiniteSet(Bank) /\ Bank \subseteq Nat
         /\ \A q \in Bank : TestsOf(q) \subseteq Nat /\ TestsOf(q) # {} /\ IsFiniteSet(TestsOf(q))
         /\ plan.mode = "blueprint" =>
               /\ Len(plan.sections) \in Nat
               /\ \A n \in 1..Len(plan.sections) : SectionOK(plan.sections[n])
<1>1. BankValid(plan.bank)
  BY PlansAssumption
<1>2. /\ IsFiniteSet(Bank) /\ Bank \subseteq Nat
      /\ \A q \in Bank : TestsOf(q) \subseteq Nat /\ TestsOf(q) # {} /\ IsFiniteSet(TestsOf(q))
  BY <1>1 DEF BankValid, Bank, TestsOf
<1>3. ASSUME plan.mode = "blueprint"
      PROVE  /\ Len(plan.sections) \in Nat
             /\ \A n \in 1..Len(plan.sections) : SectionOK(plan.sections[n])
  <2>1. /\ \A q \in DOMAIN plan.bank : plan.bank[q].points \in Nat
        /\ plan.sections \in Seq(ToSet(plan.sections))
        /\ \A n \in DOMAIN plan.sections : SectionValid(plan.sections[n], plan.bank)
    BY <1>3, PlansAssumption
  <2>2. BankOK
    BY <1>2, <2>1 DEF BankOK, Bank, PointsOf
  <2>3. Len(plan.sections) \in Nat /\ DOMAIN plan.sections = 1..Len(plan.sections)
    BY <2>1
  <2> QED
    BY <2>1, <2>2, <2>3 DEF SectionOK
<1> QED
  BY <1>2, <1>3

LEMMA SectionAt ==
  ASSUME plan \in Plans, plan.mode = "blueprint", paper \in Seq(Seq(Bank)), Len(paper) < Len(plan.sections)
  PROVE  /\ SectionOK(Section) /\ FreeFor(Len(paper) + 1) = OpenTo(Section)
         /\ IsFiniteSet(OpenTo(Section)) /\ OpenTo(Section) \subseteq Bank
<1>1. Len(paper) \in Nat /\ Len(paper) + 1 \in 1..Len(plan.sections) /\ DOMAIN paper = 1..Len(paper)
  BY PlanOK
<1>2. SectionOK(Section)
  BY <1>1, PlanOK DEF Section
<1>3. Section.accepts \subseteq Bank
  BY <1>2 DEF SectionOK, SectionValid, Bank
<1>4. OpenTo(Section) \subseteq Bank /\ IsFiniteSet(OpenTo(Section))
  BY <1>3, PlanOK, FS_Subset DEF OpenTo
<1>5. 1..((Len(paper) + 1) - 1) = DOMAIN paper
  BY <1>1
<1>6. FreeFor(Len(paper) + 1) = OpenTo(Section)
  BY <1>5 DEF FreeFor, OpenTo, Chosen, Section
<1> QED
  BY <1>2, <1>4, <1>6

(* A step inside the search leaves all but the search alone. *)
LEMMA SearchStep ==
  ASSUME PaperInv, Searching, NEW s, search' = s, SearchUnchanged,
         NEW section, section = Section, NEW open, open = OpenTo(section), SearchOK(section, open, s)
  PROVE  PaperInv'
<1>1. /\ plan \in Plans /\ plan' = plan /\ paper' = paper /\ groups' = groups /\ outcome' = outcome
      /\ outcome = "building" /\ plan.mode = "blueprint" /\ BlueprintOK
  BY DEF PaperInv, Searching, SearchUnchanged
<1>2. section = Section' /\ open = OpenTo(Section)'
  BY <1>1 DEF Section, OpenTo, Chosen
<1>3. SearchOK(section, open, s)'
  BY <1>1, SameSearch
<1>4. Searches'
  BY <1>2, <1>3 DEF Searches
<1>5. \A n : SectionBuilt(n) => SectionBuilt(n)'
  <2>1. \A n : FreeFor(n)' = FreeFor(n)
    BY <1>1 DEF FreeFor
  <2> QED
    BY <1>1, <2>1, SameMeets DEF SectionBuilt
<1>6. BlueprintOK'
  BY <1>1, <1>4, <1>5 DEF BlueprintOK, Searching
<1> QED
  BY <1>1, <1>6, SameBank DEF PaperInv

-----------------------------------------------------------------------------
(* A paper from a blueprint keeps the invariant. *)

(* The search at work, with everything that is known of it. *)
LEMMA AtWork ==
  ASSUME PaperInv, Searching
  PROVE  \E section, open, s :
            /\ section = Section /\ open = OpenTo(section) /\ s = search
            /\ SearchOK(section, open, s) /\ SectionOK(section)
            /\ plan.mode = "blueprint" /\ BlueprintOK /\ Len(paper) < Len(plan.sections)
            /\ FreeFor(Len(paper) + 1) = open
<1>1. plan.mode = "blueprint" /\ BlueprintOK /\ search # <<>>
  BY DEF PaperInv, Searching
<1>2. Searches /\ Len(paper) < Len(plan.sections)
  BY <1>1 DEF BlueprintOK
<1>3. SectionOK(Section) /\ FreeFor(Len(paper) + 1) = OpenTo(Section)
  BY <1>1, <1>2, SectionAt DEF PaperInv
<1> QED
  BY <1>1, <1>2, <1>3 DEF Searches

LEMMA TakeOK == ASSUME PaperInv, Take PROVE PaperInv'
<1>1. PICK section, open, s :
         /\ section = Section /\ open = OpenTo(section) /\ s = search
         /\ SearchOK(section, open, s) /\ SectionOK(section)
  BY AtWork DEF Take
<1>2. PICK c \in Top.options : Enter([Top EXCEPT !.options = @ \ {c}], With(Top.at, NextQuestion, c))
  BY DEF Take
<1>3. PICK n, top : n = Depth /\ top = Top /\ n = Len(s.calls) /\ top = s.calls[n] /\ c \in top.options
  BY <1>1 DEF Depth, Top
<1>4. search' = [s EXCEPT !.calls =
                    Append([@ EXCEPT ![n] = [top EXCEPT !.options = @ \ {c}]],
                           Call(section, s.order, s.failed, With(top.at, s.order[top.at.next], c)))]
  BY <1>1, <1>2, <1>3 DEF Enter, NextQuestion
<1>5. SearchOK(section, open,
         [s EXCEPT !.calls = Append([@ EXCEPT ![n] = [top EXCEPT !.options = @ \ {c}]],
                           Call(section, s.order, s.failed, With(top.at, s.order[top.at.next], c)))])
  BY <1>1, <1>3, SearchTakes
<1> QED
  BY <1>1, <1>4, <1>5, SearchStep DEF Take

LEMMA LeaveOutOK == ASSUME PaperInv, LeaveOut PROVE PaperInv'
<1>1. PICK section, open, s :
         /\ section = Section /\ open = OpenTo(section) /\ s = search
         /\ SearchOK(section, open, s) /\ SectionOK(section)
  BY AtWork DEF LeaveOut
<1>3. search' = [s EXCEPT !.calls =
                    Append([@ EXCEPT ![Depth] = [Top EXCEPT !.skip = FALSE]],
                           Call(section, s.order, s.failed, Without(Top.at)))]
  BY <1>1 DEF LeaveOut, Enter
<1>4. Depth = Len(s.calls) /\ Top = s.calls[Depth]
  BY <1>1 DEF Depth, Top
<1>5. SearchOK(section, open,
         [s EXCEPT !.calls = Append([@ EXCEPT ![Depth] = [Top EXCEPT !.skip = FALSE]],
                           Call(section, s.order, s.failed, Without(Top.at)))])
  BY <1>1, <1>4, SearchLeavesOut DEF LeaveOut
<1> QED
  BY <1>1, <1>3, <1>5, SearchStep DEF LeaveOut

(* What gives up at its position could not have been completed from there. *)
LEMMA TopHopeless ==
  ASSUME NEW section, section = Section, SectionOK(section), NEW open, NEW s, s = search,
         SearchOK(section, open, s), GivesUp
  PROVE  ~Completable(section, s.order, s.calls[Depth].at)
<1> DEFINE top == s.calls[Depth]
<1>1. Depth = Len(s.calls) /\ Top = top
  BY DEF Depth, Top
<1>2. /\ FailedOK(section, s.order, s.failed)
      /\ Completable(section, s.order, top.at) => GoesOn(section, s.order, top)
  BY <1>1, TopOK
<1>3. /\ top.options = {} /\ ~top.skip
      /\ ~(top.at.slots = 0 /\ Satisfied(section, top.at) /\ Key(top.at) \notin s.failed)
  BY <1>1 DEF GivesUp, Found
<1> HIDE DEF top
<1>4. ~Completable(section, s.order, top.at)
  BY <1>2, <1>3, GivenUp
<1> QED
  BY <1>4 DEF top

LEMMA ReturnOK == ASSUME PaperInv, Return PROVE PaperInv'
<1>1. PICK section, open, s :
         /\ section = Section /\ open = OpenTo(section) /\ s = search
         /\ SearchOK(section, open, s) /\ SectionOK(section)
  BY AtWork DEF Return, GivesUp
<1>2. Depth = Len(s.calls) /\ Top = s.calls[Depth] /\ Depth > 1
  BY <1>1 DEF Depth, Top, Return
<1>3. search' = [s EXCEPT !.failed = @ \union {Key(s.calls[Depth].at)}, !.calls = SubSeq(@, 1, Depth - 1)]
  BY <1>1, <1>2 DEF Return
<1>4. ~Completable(section, s.order, s.calls[Depth].at)
  BY <1>1, TopHopeless DEF Return
<1>5. SearchOK(section, open,
         [s EXCEPT !.failed = @ \union {Key(s.calls[Depth].at)}, !.calls = SubSeq(@, 1, Depth - 1)])
  BY <1>1, <1>2, <1>4, SearchReturns
<1> QED
  BY <1>1, <1>3, <1>5, SearchStep DEF Return, GivesUp

(* The sections built so far stay as they are. *)
LEMMA BuiltKept ==
  ASSUME plan' = plan, paper' = paper
  PROVE  /\ \A n : SectionBuilt(n) => SectionBuilt(n)'
         /\ NoneMeets => NoneMeets'
<1>1. \A n : FreeFor(n)' = FreeFor(n)
  BY DEF FreeFor
<1>2. Section' = Section /\ OpenTo(Section)' = OpenTo(Section)
  BY DEF Section, OpenTo, Chosen
<1>3. \A n : SectionBuilt(n) => SectionBuilt(n)'
  BY <1>1, SameMeets DEF SectionBuilt
<1>4. NoneMeets => NoneMeets'
  BY <1>2, SameMeets DEF NoneMeets
<1> QED
  BY <1>3, <1>4

LEMMA RefusedOK ==
  ASSUME PaperInv, plan.mode = "blueprint", Len(paper) < Len(plan.sections), NoneMeets,
         plan' = plan, paper' = paper, groups' = groups, search' = <<>>, outcome' = "refused"
  PROVE  PaperInv'
<1>1. BlueprintOK /\ Bank' = Bank
  BY SameBank DEF PaperInv
<1>2. NoneMeets' /\ \A n : SectionBuilt(n) => SectionBuilt(n)'
  BY BuiltKept
<1>3. BlueprintOK'
  BY <1>1, <1>2 DEF BlueprintOK
<1> QED
  BY <1>1, <1>3 DEF PaperInv

LEMMA RefuseSectionOK == ASSUME PaperInv, RefuseSection PROVE PaperInv'
<1>1. PICK section, open, s :
         /\ section = Section /\ open = OpenTo(section) /\ s = search
         /\ SearchOK(section, open, s) /\ SectionOK(section)
         /\ plan.mode = "blueprint" /\ Len(paper) < Len(plan.sections)
  BY AtWork DEF RefuseSection, GivesUp
<1>2. Depth = 1 /\ OrderOK(section, s.order) /\ ToSet(s.order) = open /\ s.calls[1].at = Start(section)
  BY <1>1 DEF RefuseSection, SearchOK
<1>3. ~Completable(section, s.order, Start(section))
  BY <1>1, <1>2, TopHopeless DEF RefuseSection
<1>4. \A S : ~Meets(section, S, open)
  BY <1>1, <1>2, <1>3, MeetsCompletes
<1>5. NoneMeets
  BY <1>1, <1>4 DEF NoneMeets
<1> QED
  BY <1>1, <1>5, RefusedOK DEF RefuseSection

LEMMA FillSectionOK == ASSUME PaperInv, FillSection PROVE PaperInv'
<1>1. PICK section, open, s :
         /\ section = Section /\ open = OpenTo(section) /\ s = search
         /\ SearchOK(section, open, s) /\ SectionOK(section)
         /\ plan.mode = "blueprint" /\ BlueprintOK /\ Len(paper) < Len(plan.sections)
         /\ FreeFor(Len(paper) + 1) = open
  BY AtWork DEF FillSection
<1>2. Depth = Len(s.calls) /\ Top = s.calls[Depth]
  BY <1>1 DEF Depth, Top
<1>a. PICK at : at = s.calls[Depth].at
  OBVIOUS
<1>3. at.slots = 0 /\ Satisfied(section, at)
  BY <1>1, <1>2, <1>a DEF FillSection, Found
<1>4. /\ OrderOK(section, s.order) /\ at \in Position(section) /\ Progress(section, s.order, at)
      /\ Len(section.anchors) <= section.count /\ ToSet(s.order) = open
  BY <1>1, <1>2, <1>a, TopOK DEF SearchOK
<1>5. /\ plan \in Plans /\ paper \in Seq(Seq(Bank)) /\ plan' = plan /\ groups' = groups /\ search' = <<>>
      /\ outcome' = outcome /\ outcome = "building" /\ paper' = Append(paper, at.taken)
  BY <1>1, <1>2, <1>a DEF FillSection, PaperInv, Searching
<1>6. at.taken \in Seq(Bank)
  BY <1>4 DEF Position
<1>7. Cardinality(ToSet(at.taken)) = Len(at.taken) /\ Meets(section, ToSet(at.taken), open)
  BY <1>1, <1>3, <1>4, FoundMeets
<1>8. /\ paper' \in Seq(Seq(Bank)) /\ Len(paper') = Len(paper) + 1 /\ Len(paper) \in Nat
      /\ paper'[Len(paper) + 1] = at.taken
      /\ \A n \in 1..Len(paper) : paper'[n] = paper[n]
      /\ DOMAIN paper = 1..Len(paper) /\ DOMAIN paper' = 1..(Len(paper) + 1)
  BY <1>5, <1>6
<1>9. \A n \in 1..(Len(paper) + 1) : FreeFor(n)' = FreeFor(n)
  <2> SUFFICES ASSUME NEW n \in 1..(Len(paper) + 1) PROVE FreeFor(n)' = FreeFor(n)
    OBVIOUS
  <2>1. ASSUME NEW m \in 1..(n - 1) PROVE paper'[m] = paper[m]
    <3>1. m \in 1..Len(paper)
      BY <1>8
    <3> QED
      BY <1>8, <3>1
  <2>2. {ToSet(paper'[m]) : m \in 1..(n - 1)} = {ToSet(paper[m]) : m \in 1..(n - 1)}
    BY <2>1
  <2> QED
    BY <1>5, <2>2 DEF FreeFor
<1>10. ASSUME NEW n \in DOMAIN paper' PROVE SectionBuilt(n)'
  <2>1. CASE n \in 1..Len(paper)
    <3>1. SectionBuilt(n) /\ n \in 1..(Len(paper) + 1)
      BY <1>1, <1>8, <2>1 DEF BlueprintOK
    <3> QED
      BY <1>5, <1>8, <1>9, <2>1, <3>1, SameMeets DEF SectionBuilt
  <2>2. CASE n = Len(paper) + 1
    <3>1. section = plan'.sections[n] /\ ToSet(at.taken) = ToSet(paper'[n]) /\ open = FreeFor(n)'
      BY <1>1, <1>5, <1>8, <1>9, <2>2 DEF Section
    <3>2. Meets(section, ToSet(at.taken), open)' /\ Len(paper'[n]) = Len(at.taken)
      BY <1>5, <1>7, <1>8, <2>2, SameMeets
    <3> QED
      BY <1>7, <3>1, <3>2 DEF SectionBuilt
  <2> QED
    BY <1>8, <2>1, <2>2
<1>11. Len(paper') <= Len(plan.sections)
  BY <1>1, <1>5, <1>8, PlanOK
<1>12. BlueprintOK'
  BY <1>1, <1>5, <1>10, <1>11 DEF BlueprintOK
<1> QED
  BY <1>1, <1>5, <1>8, <1>12, SameBank DEF PaperInv

LEMMA FreezePaperOK == ASSUME PaperInv, FreezePaper PROVE PaperInv'
<1>1. /\ plan.mode = "blueprint" /\ BlueprintOK /\ search = <<>> /\ plan' = plan /\ paper' = paper
      /\ groups' = groups /\ search' = search /\ outcome' = "frozen" /\ Bank' = Bank
  BY SameBank DEF PaperInv, FreezePaper
<1>2. BlueprintOK'
  BY <1>1, BuiltKept DEF BlueprintOK
<1> QED
  BY <1>1, <1>2 DEF PaperInv

-----------------------------------------------------------------------------
(* Orders of a set. *)

LEMMA Counted ==
  ASSUME NEW n \in Nat
  PROVE  IsFiniteSet(1..n) /\ Cardinality(1..n) = n
BY FS_Interval

LEMMA SeqOfSet ==
  ASSUME NEW T, IsFiniteSet(T), NEW o \in SetToSeqs(T)
  PROVE  /\ o \in Seq(T) /\ IsInjective(o) /\ ToSet(o) = T
         /\ Len(o) = Cardinality(T) /\ DOMAIN o = 1..Len(o)
<1> DEFINE n == Cardinality(T)
<1>1. n \in Nat /\ IsFiniteSet(1..n) /\ Cardinality(1..n) = n
  BY FS_CardinalityType, Counted
<1>2. o \in [1..n -> T] /\ \A i, j \in 1..n : i # j => o[i] # o[j]
  BY DEF SetToSeqs
<1> HIDE DEF n
<1>3. o \in Seq(T) /\ Len(o) = n /\ DOMAIN o = 1..n
  BY <1>1, <1>2
<1>4. IsInjective(o)
  BY <1>2, <1>3 DEF IsInjective
<1>5. o \in Injection(1..n, T)
  BY <1>2, <1>4 DEF Injection
<1>6. o \in Surjection(1..n, T)
  <2>1. Cardinality(1..n) = Cardinality(T)
    BY <1>1 DEF n
  <2> QED
    BY <1>5, <2>1, FS_Injection
<1>7. ToSet(o) = T
  BY <1>2, <1>3, <1>6 DEF Surjection, ToSet
<1> QED
  BY <1>3, <1>4, <1>7 DEF n

LEMMA AnchorsSize ==
  ASSUME NEW s, s \in Seq(Nat), IsInjective(s), NEW S, IsFiniteSet(S), ToSet(s) \subseteq S
  PROVE  Len(s) <= Cardinality(S)
<1>1. Len(s) \in Nat /\ DOMAIN s = 1..Len(s) /\ \A i \in 1..Len(s) : s[i] \in S
  BY DEF ToSet
<1>2. s \in Injection(1..Len(s), S)
  BY <1>1 DEF Injection
<1>3. Cardinality(1..Len(s)) <= Cardinality(S)
  BY <1>2, FS_Injection
<1> QED
  BY <1>1, <1>3, Counted

(* Two sequences without repetitions that have nothing in common, one after the other. *)
LEMMA ConcatOK ==
  ASSUME NEW V, NEW a \in Seq(V), IsInjective(a), NEW o \in Seq(V), IsInjective(o),
         ToSet(a) \cap ToSet(o) = {}
  PROVE  /\ a \o o \in Seq(V) /\ IsInjective(a \o o) /\ ToSet(a \o o) = ToSet(a) \cup ToSet(o)
         /\ Len(a \o o) = Len(a) + Len(o) /\ \A i \in 1..Len(a) : (a \o o)[i] = a[i]
<1> DEFINE s == a \o o
<1>1. /\ Len(a) \in Nat /\ DOMAIN a = 1..Len(a) /\ Len(o) \in Nat /\ DOMAIN o = 1..Len(o)
      /\ \A i \in 1..Len(a) : a[i] \in ToSet(a)
      /\ \A i \in 1..Len(o) : o[i] \in ToSet(o) /\ o[i] \notin ToSet(a)
  BY DEF ToSet
<1>5. /\ s \in Seq(V) /\ Len(s) = Len(a) + Len(o) /\ DOMAIN s = 1..(Len(a) + Len(o))
      /\ \A i \in 1..Len(a) : s[i] = a[i]
      /\ \A i \in (Len(a) + 1)..(Len(a) + Len(o)) : s[i] = o[i - Len(a)] /\ i - Len(a) \in 1..Len(o)
  BY <1>1
<1> HIDE DEF s
<1>6. \A i \in 1..(Len(a) + Len(o)) : i \in 1..Len(a) \/ i \in (Len(a) + 1)..(Len(a) + Len(o))
  BY <1>1
<1>7. ASSUME NEW i \in DOMAIN s, NEW j \in DOMAIN s, s[i] = s[j] PROVE i = j
  <2>1. CASE i \in 1..Len(a) /\ j \in 1..Len(a)
    BY <1>1, <1>5, <1>7, <2>1 DEF IsInjective
  <2>2. CASE i \in 1..Len(a) /\ j \in (Len(a) + 1)..(Len(a) + Len(o))
    BY <1>1, <1>5, <1>7, <2>2
  <2>3. CASE i \in (Len(a) + 1)..(Len(a) + Len(o)) /\ j \in 1..Len(a)
    BY <1>1, <1>5, <1>7, <2>3
  <2>4. CASE i \in (Len(a) + 1)..(Len(a) + Len(o)) /\ j \in (Len(a) + 1)..(Len(a) + Len(o))
    <3>1. PICK k, m : k = i - Len(a) /\ m = j - Len(a)
      OBVIOUS
    <3>2. k \in DOMAIN o /\ m \in DOMAIN o /\ o[k] = o[m]
      BY <1>1, <1>5, <1>7, <2>4, <3>1
    <3>3. k = m
      BY <3>2 DEF IsInjective
    <3> QED
      BY <1>1, <2>4, <3>1, <3>3
  <2> QED
    BY <1>5, <1>6, <2>1, <2>2, <2>3, <2>4
<1>8. IsInjective(s)
  BY <1>7 DEF IsInjective
<1>9. ASSUME NEW q \in ToSet(a) \cup ToSet(o) PROVE q \in ToSet(s)
  <2>1. CASE q \in ToSet(a)
    <3>1. PICK i \in 1..Len(a) : a[i] = q
      BY <1>1, <2>1 DEF ToSet
    <3>2. i \in DOMAIN s /\ s[i] = q
      BY <1>1, <1>5, <3>1
    <3> QED
      BY <3>2 DEF ToSet
  <2>2. CASE q \in ToSet(o)
    <3>1. PICK i \in 1..Len(o) : o[i] = q
      BY <1>1, <2>2 DEF ToSet
    <3>2. PICK k : k = i + Len(a)
      OBVIOUS
    <3>3. k \in (Len(a) + 1)..(Len(a) + Len(o)) /\ k - Len(a) = i /\ k \in 1..(Len(a) + Len(o))
      BY <1>1, <3>2
    <3>4. k \in DOMAIN s /\ s[k] = q
      BY <1>5, <3>1, <3>3
    <3> QED
      BY <3>4 DEF ToSet
  <2> QED
    BY <1>9, <2>1, <2>2
<1>10. ASSUME NEW q \in ToSet(s) PROVE q \in ToSet(a) \cup ToSet(o)
  <2>1. PICK i \in DOMAIN s : s[i] = q
    BY DEF ToSet
  <2> QED
    BY <1>1, <1>5, <1>6, <2>1
<1>11. ToSet(s) = ToSet(a) \cup ToSet(o)
  BY <1>9, <1>10
<1> QED
  BY <1>5, <1>8, <1>11 DEF s

LEMMA OrdersOK ==
  ASSUME NEW section, SectionOK(section), NEW open, IsFiniteSet(open), open \subseteq Bank,
         ToSet(section.anchors) \subseteq open, NEW o \in SetToSeqs(open \ ToSet(section.anchors))
  PROVE  OrderOK(section, section.anchors \o o) /\ ToSet(section.anchors \o o) = open
<1> DEFINE a == section.anchors
<1> DEFINE rest == open \ ToSet(a)
<1>1. a \in Seq(Nat) /\ IsInjective(a) /\ Len(a) \in Nat /\ DOMAIN a = 1..Len(a)
  BY SectionTypes DEF SectionOK, SectionValid
<1>2. /\ o \in Seq(rest) /\ IsInjective(o) /\ ToSet(o) = rest /\ Len(o) \in Nat
  <2>1. IsFiniteSet(rest)
    BY FS_Subset
  <2> HIDE DEF rest
  <2>2. o \in SetToSeqs(rest)
    BY DEF rest
  <2> QED
    BY <2>1, <2>2, SeqOfSet, FS_CardinalityType
<1>3. \A i \in 1..Len(a) : a[i] \in Bank
  BY <1>1 DEF ToSet
<1>4. a \in Seq(Bank) /\ o \in Seq(Bank) /\ ToSet(a) \cap ToSet(o) = {} /\ ToSet(a) \cup ToSet(o) = open
  BY <1>1, <1>2, <1>3
<1> HIDE DEF a, rest
<1>5. /\ a \o o \in Seq(Bank) /\ IsInjective(a \o o) /\ ToSet(a \o o) = open
      /\ Len(a \o o) = Len(a) + Len(o) /\ \A i \in 1..Len(a) : (a \o o)[i] = a[i]
  <2>1. IsInjective(a) /\ IsInjective(o)
    BY <1>1, <1>2
  <2>2. /\ a \o o \in Seq(Bank) /\ IsInjective(a \o o) /\ ToSet(a \o o) = ToSet(a) \cup ToSet(o)
        /\ Len(a \o o) = Len(a) + Len(o) /\ \A i \in 1..Len(a) : (a \o o)[i] = a[i]
    BY ONLY <1>4, <2>1, ConcatOK
  <2> QED
    BY <1>4, <2>2
<1> QED
  BY <1>1, <1>2, <1>5 DEF OrderOK, a

LEMMA BuildSectionOK == ASSUME PaperInv, BuildSection PROVE PaperInv'
<1>1. PICK section, open : section = Section /\ open = OpenTo(section)
  OBVIOUS
<1>2. /\ plan.mode = "blueprint" /\ BlueprintOK /\ Len(paper) < Len(plan.sections)
      /\ outcome = "building" /\ search = <<>> /\ plan \in Plans /\ paper \in Seq(Seq(Bank))
  BY DEF PaperInv, BuildSection
<1>3. SectionOK(section) /\ IsFiniteSet(open) /\ open \subseteq Bank
  BY <1>1, <1>2, SectionAt
<1>4. ASSUME Refuse,
             \/ ~ ToSet(section.anchors) \subseteq open
             \/ Len(section.anchors) > section.count
             \/ section.weights = <<>> /\ Cardinality(open) < section.count
      PROVE  PaperInv'
  <2>1. ASSUME NEW S, Meets(section, S, open) PROVE FALSE
    <3>1. /\ S \subseteq open /\ ToSet(section.anchors) \subseteq S
          /\ Cardinality(S) = section.count
      BY <2>1 DEF Meets
    <3>2. IsFiniteSet(S) /\ Cardinality(S) <= Cardinality(open)
      BY <1>3, <3>1, FS_Subset
    <3>3. section.count \in Nat /\ Len(section.anchors) \in Nat /\ Cardinality(open) \in Nat
      BY <1>3, SectionTypes, FS_CardinalityType
    <3>4. Len(section.anchors) <= Cardinality(S)
      BY <1>3, <3>1, <3>2, AnchorsSize DEF SectionOK, SectionValid
    <3> QED
      BY <1>4, <3>1, <3>2, <3>3, <3>4
  <2>2. NoneMeets
    BY <1>1, <2>1 DEF NoneMeets
  <2> QED
    BY <1>2, <1>4, <2>2, RefusedOK DEF Refuse
<1>5. ASSUME NEW order \in Orders(section), ToSet(section.anchors) \subseteq open,
             ~(Len(section.anchors) > section.count),
             search' = [order |-> order, failed |-> {},
                        calls |-> <<Call(section, order, {}, Start(section))>>],
             SearchUnchanged
      PROVE  PaperInv'
  <2>1. OrderOK(section, order) /\ ToSet(order) = open
    <3>1. PICK o \in SetToSeqs(open \ ToSet(section.anchors)) : order = section.anchors \o o
      BY <1>1 DEF Orders
    <3> QED
      BY <1>3, <1>5, <3>1, OrdersOK
  <2>2. Len(section.anchors) <= section.count
    BY <1>3, <1>5, SectionTypes
  <2>3. PICK s : s = [order |-> order, failed |-> {}, calls |-> <<Call(section, order, {}, Start(section))>>]
    OBVIOUS
  <2>4. SearchOK(section, open, s)
    <3>1. SearchOK(section, ToSet(order), [order |-> order, failed |-> {},
                                           calls |-> <<Call(section, order, {}, Start(section))>>])
      BY <1>3, <2>1, <2>2, SearchBegins
    <3> QED
      BY <2>1, <2>3, <3>1
  <2>5. /\ plan' = plan /\ paper' = paper /\ groups' = groups /\ outcome' = outcome /\ search' = s
    BY <1>5, <2>3 DEF SearchUnchanged
  <2>6. section = Section' /\ open = OpenTo(Section)'
    BY <1>1, <2>5 DEF Section, OpenTo, Chosen
  <2>7. SearchOK(section, open, s)'
    BY <2>4, <2>5, SameSearch
  <2>8. Searches'
    BY <2>5, <2>6, <2>7 DEF Searches
  <2>9. BlueprintOK'
    BY <1>2, <2>5, <2>8, BuiltKept DEF BlueprintOK
  <2> QED
    BY <1>2, <2>5, <2>9, SameBank DEF PaperInv
<1>6. IF \/ ~ ToSet(section.anchors) \subseteq open
         \/ Len(section.anchors) > section.count
         \/ section.weights = <<>> /\ Cardinality(open) < section.count
      THEN Refuse
      ELSE /\ \E order \in Orders(section) :
                 search' = [order |-> order, failed |-> {},
                            calls |-> <<Call(section, order, {}, Start(section))>>]
           /\ SearchUnchanged
  BY <1>1 DEF BuildSection
<1> QED
  BY <1>4, <1>5, <1>6

-----------------------------------------------------------------------------
(* Ranks in a finite total order. *)

Below(R, S, x) == {y \in S : <<y, x>> \in R}
Lowest(R, S, k) == {x \in S : Cardinality(Below(R, S, x)) < k}

TotalOn(R, S) ==
    /\ \A x \in S : <<x, x>> \notin R
    /\ \A x, y \in S : x # y => <<x, y>> \in R \/ <<y, x>> \in R
    /\ \A x, y, z \in S : <<x, y>> \in R /\ <<y, z>> \in R => <<x, z>> \in R

LEMMA GreatestOf ==
  ASSUME NEW R, NEW S, IsFiniteSet(S), TotalOn(R, S), S # {}
  PROVE  \E m \in S : \A y \in S \ {m} : <<y, m>> \in R
<1> DEFINE Greatest(T, m) == m \in T /\ \A y \in T \ {m} : <<y, m>> \in R
<1> DEFINE Bad == {T \in SUBSET S : T # {} /\ ~\E m : Greatest(T, m)}
<1>1. SUFFICES ASSUME Bad # {} PROVE FALSE
  OBVIOUS
<1>2. PICK T \in Bad : \A x \in T : T \ {x} \notin Bad
  BY <1>1, SmallestSubset
<1>3. PICK x \in T : TRUE
  BY <1>2
<1>4. CASE T \ {x} = {}
  <2>1. Greatest(T, x)
    BY <1>3, <1>4
  <2> QED
    BY <1>2, <2>1
<1>5. CASE T \ {x} # {}
  <2>1. T \ {x} \in SUBSET S /\ T \ {x} \notin Bad
    BY <1>2, <1>3
  <2>2. PICK m : Greatest(T \ {x}, m)
    BY <1>5, <2>1
  <2>3. m \in S /\ x \in S /\ m # x /\ m \in T /\ T \subseteq S
    BY <1>2, <1>3, <2>2
  <2>4. <<x, m>> \in R \/ <<m, x>> \in R
    BY <2>3 DEF TotalOn
  <2>5. CASE <<x, m>> \in R
    <3>1. Greatest(T, m)
      BY <2>2, <2>3, <2>5
    <3> QED
      BY <1>2, <3>1
  <2>6. CASE <<m, x>> \in R
    <3>1. \A y \in T \ {x} : y # m => <<y, m>> \in R
      BY <2>2
    <3>2. \A y \in T \ {x} : <<y, x>> \in R
      BY <2>3, <2>6, <3>1 DEF TotalOn
    <3>3. Greatest(T, x)
      BY <1>3, <3>2
    <3> QED
      BY <1>2, <3>3
  <2> QED
    BY <2>4, <2>5, <2>6
<1> QED
  BY <1>4, <1>5

LEMMA LowestSize ==
  ASSUME NEW R, NEW S, IsFiniteSet(S), TotalOn(R, S), NEW n \in 0..Cardinality(S)
  PROVE  Cardinality(Lowest(R, S, n)) = n
<1> DEFINE Bad == {T \in SUBSET S : \E k \in 0..Cardinality(T) : Cardinality(Lowest(R, T, k)) # k}
<1>1. SUFFICES ASSUME Bad # {} PROVE FALSE
  OBVIOUS
<1>2. PICK T \in Bad : IsFiniteSet(T) /\ \A x \in T : T \ {x} \notin Bad
  BY <1>1, SmallestSubset
<1>3. PICK k \in 0..Cardinality(T) : Cardinality(Lowest(R, T, k)) # k
  BY <1>2
<1>4. Cardinality(T) \in Nat /\ k \in Nat /\ k <= Cardinality(T) /\ T \subseteq S
  BY <1>2, <1>3, FS_CardinalityType
<1>5. T # {}
  <2>1. SUFFICES ASSUME T = {} PROVE FALSE
    OBVIOUS
  <2>2. Cardinality(T) = 0 /\ Lowest(R, T, k) = {} /\ Cardinality({}) = 0
    BY <2>1, FS_EmptySet DEF Lowest
  <2> QED
    BY <1>3, <1>4, <2>2
<1>6. TotalOn(R, T)
  BY <1>4 DEF TotalOn
<1>7. PICK m \in T : \A y \in T \ {m} : <<y, m>> \in R
  BY <1>2, <1>5, <1>6, GreatestOf
<1> DEFINE U == T \ {m}
<1>8. IsFiniteSet(U) /\ Cardinality(U) = Cardinality(T) - 1 /\ Cardinality(U) \in Nat /\ U \notin Bad
  BY <1>2, <1>7, FS_RemoveElement, FS_CardinalityType
<1>9. \A x \in U : Below(R, T, x) = Below(R, U, x)
  <2>1. ASSUME NEW x \in U, <<m, x>> \in R PROVE FALSE
    BY <1>6, <1>7, <2>1 DEF TotalOn
  <2> QED
    BY <1>7, <2>1 DEF Below
<1>10. Below(R, T, m) = U
  BY <1>6, <1>7 DEF Below, TotalOn
<1>11. CASE k = Cardinality(T)
  <2>1. ASSUME NEW x \in T PROVE Cardinality(Below(R, T, x)) < k
    <3>1. Below(R, T, x) \subseteq U
      BY <1>9, <1>10 DEF Below
    <3>2. Cardinality(Below(R, T, x)) <= Cardinality(U) /\ IsFiniteSet(Below(R, T, x))
      BY <1>8, <3>1, FS_Subset
    <3>3. Cardinality(Below(R, T, x)) \in Nat
      BY <3>2, FS_CardinalityType
    <3> QED
      BY <1>4, <1>8, <1>11, <3>2, <3>3
  <2>2. Lowest(R, T, k) = T
    BY <2>1 DEF Lowest
  <2> QED
    BY <1>3, <1>11, <2>2
<1>12. CASE k # Cardinality(T)
  <2>1. k \in 0..Cardinality(U)
    BY <1>4, <1>8, <1>12
  <2>2. ~(Cardinality(U) < k)
    BY <1>4, <1>8, <2>1
  <2>3. Lowest(R, T, k) = Lowest(R, U, k)
    BY <1>9, <1>10, <2>2 DEF Lowest
  <2>4. U \in SUBSET S
    BY <1>4
  <2>5. Cardinality(Lowest(R, U, k)) = k
    BY <1>8, <2>1, <2>4
  <2> QED
    BY <1>3, <2>3, <2>5
<1> QED
  BY <1>11, <1>12

LEMMA RankExists ==
  ASSUME NEW R, NEW S, IsFiniteSet(S), TotalOn(R, S), NEW n \in 1..Cardinality(S)
  PROVE  \E x \in S : Cardinality(Below(R, S, x)) = n - 1
<1>1. Cardinality(S) \in Nat /\ n \in 0..Cardinality(S) /\ n - 1 \in 0..Cardinality(S) /\ n \in Nat
  BY FS_CardinalityType
<1>2. Cardinality(Lowest(R, S, n)) = n /\ Cardinality(Lowest(R, S, n - 1)) = n - 1
  BY <1>1, LowestSize
<1>3. Lowest(R, S, n) # Lowest(R, S, n - 1)
  BY <1>1, <1>2
<1>4. \A x \in S : Cardinality(Below(R, S, x)) \in Nat
  <2>1. \A x \in S : Below(R, S, x) \in SUBSET S
    BY DEF Below
  <2> QED
    BY <2>1, FS_Subset, FS_CardinalityType
<1>5. \A x \in S : Cardinality(Below(R, S, x)) < n - 1 => Cardinality(Below(R, S, x)) < n
  BY <1>1, <1>4
<1>6. PICK x \in S : Cardinality(Below(R, S, x)) < n /\ ~(Cardinality(Below(R, S, x)) < n - 1)
  BY <1>3, <1>5 DEF Lowest
<1> QED
  BY <1>1, <1>4, <1>6

(* Questions in ascending order. *)

Lesser == {p \in Nat \X Nat : p[1] < p[2]}

LEMMA LesserTotal == \A S \in SUBSET Nat : TotalOn(Lesser, S)
BY DEF TotalOn, Lesser

LEMMA BeforeIsRank ==
  ASSUME NEW S \in SUBSET Nat
  PROVE  /\ \A q \in S : Below(Lesser, S, q) = {p \in S : p < q}
         /\ \A q \in S : Before(q, S) = Cardinality(Below(Lesser, S, q))
         /\ \A k : FirstOf(k, S) = Lowest(Lesser, S, k)
<1>1. \A q \in S : Below(Lesser, S, q) = {p \in S : p < q}
  BY DEF Below, Lesser
<1>2. \A q \in S : Before(q, S) = Cardinality(Below(Lesser, S, q))
  BY <1>1 DEF Before
<1> QED
  BY <1>1, <1>2 DEF FirstOf, Lowest

LEMMA FirstOfSize ==
  ASSUME NEW S \in SUBSET Nat, IsFiniteSet(S), NEW k \in Nat
  PROVE  /\ FirstOf(k, S) \subseteq S
         /\ Cardinality(FirstOf(k, S)) = IF k <= Cardinality(S) THEN k ELSE Cardinality(S)
         /\ FirstOf(k, S) # S => Cardinality(FirstOf(k, S)) = k
<1>1. Cardinality(S) \in Nat
  BY FS_CardinalityType
<1>2. FirstOf(k, S) \subseteq S
  BY DEF FirstOf
<1>3. k <= Cardinality(S) => Cardinality(FirstOf(k, S)) = k
  <2>1. k <= Cardinality(S) => k \in 0..Cardinality(S)
    BY <1>1
  <2> QED
    BY <2>1, BeforeIsRank, LesserTotal, LowestSize
<1>4. ASSUME ~(k <= Cardinality(S)) PROVE FirstOf(k, S) = S
  <2>1. ASSUME NEW q \in S PROVE Before(q, S) < k
    <3>1. {p \in S : p < q} \in SUBSET S
      OBVIOUS
    <3>2. Cardinality({p \in S : p < q}) <= Cardinality(S) /\ Cardinality({p \in S : p < q}) \in Nat
      BY <3>1, FS_Subset, FS_CardinalityType
    <3> QED
      BY <1>1, <1>4, <3>2 DEF Before
  <2> QED
    BY <2>1 DEF FirstOf
<1> QED
  BY <1>1, <1>2, <1>3, <1>4

LEMMA AscendingOK ==
  ASSUME NEW S \in SUBSET Nat, IsFiniteSet(S)
  PROVE  /\ Ascending(S) \in Seq(S) /\ Len(Ascending(S)) = Cardinality(S)
         /\ IsInjective(Ascending(S)) /\ ToSet(Ascending(S)) = S
<1> DEFINE n == Cardinality(S)
<1> DEFINE a == Ascending(S)
<1>1. n \in Nat /\ IsFiniteSet(1..n) /\ Cardinality(1..n) = n
  BY FS_CardinalityType, Counted
<1>2. ASSUME NEW i \in 1..n PROVE a[i] \in S /\ Before(a[i], S) = i - 1
  <2>1. \E q \in S : Cardinality(Below(Lesser, S, q)) = i - 1
    BY LesserTotal, RankExists
  <2>2. \E q \in S : Before(q, S) = i - 1
    BY <2>1, BeforeIsRank
  <2>3. a[i] = CHOOSE q \in S : Before(q, S) = i - 1
    BY DEF Ascending
  <2> HIDE DEF a
  <2> QED
    BY <2>2, <2>3
<1>3. DOMAIN a = 1..n /\ a = [i \in 1..n |-> a[i]]
  BY DEF Ascending
<1> HIDE DEF a, n
<1>4. a \in [1..n -> S]
  BY <1>2, <1>3
<1>5. a \in Seq(S) /\ Len(a) = n
  BY <1>1, <1>4
<1>6. IsInjective(a)
  <2>1. ASSUME NEW i \in DOMAIN a, NEW j \in DOMAIN a, a[i] = a[j] PROVE i = j
    <3>1. i - 1 = j - 1 /\ i \in Int /\ j \in Int
      BY <1>2, <1>3, <2>1
    <3> QED
      BY <3>1
  <2> QED
    BY <2>1 DEF IsInjective
<1>7. a \in Surjection(1..n, S)
  <2>1. a \in Injection(1..n, S)
    BY <1>4, <1>6 DEF Injection
  <2>2. Cardinality(1..n) = Cardinality(S)
    BY <1>1 DEF n
  <2> QED
    BY <2>1, <2>2, FS_Injection
<1>8. ToSet(a) = S
  BY <1>3, <1>4, <1>7 DEF Surjection, ToSet
<1> QED
  BY <1>5, <1>6, <1>8 DEF n, a

-----------------------------------------------------------------------------
(* Shares add up, and a greater weight has no smaller share. *)

LEMMA SumLinear ==
  ASSUME NEW S, IsFiniteSet(S), NEW b \in Nat, NEW f, NEW g, NEW h,
         \A x \in S : f[x] \in Nat /\ g[x] \in Nat /\ h[x] \in Nat /\ f[x] = b * g[x] + h[x]
  PROVE  SumOf(f, S) = b * SumOf(g, S) + SumOf(h, S)
<1> DEFINE Bad == {T \in SUBSET S : SumOf(f, T) # b * SumOf(g, T) + SumOf(h, T)}
<1>1. SUFFICES ASSUME Bad # {} PROVE FALSE
  OBVIOUS
<1>2. PICK T \in Bad : IsFiniteSet(T) /\ \A x \in T : T \ {x} \notin Bad
  BY <1>1, SmallestSubset
<1>3. CASE T = {}
  BY <1>2, <1>3, SumEmpty
<1>4. CASE T # {}
  <2>1. PICK x \in T : TRUE
    BY <1>4
  <2>2. /\ \A y \in T : f[y] \in Nat /\ g[y] \in Nat /\ h[y] \in Nat
        /\ f[x] = b * g[x] + h[x] /\ f[x] \in Nat /\ g[x] \in Nat /\ h[x] \in Nat
    BY <1>2, <2>1
  <2>3. /\ SumOf(f, T \ {x}) = SumOf(f, T) - f[x] /\ SumOf(f, T) \in Nat
        /\ SumOf(g, T \ {x}) = SumOf(g, T) - g[x] /\ SumOf(g, T) \in Nat
        /\ SumOf(h, T \ {x}) = SumOf(h, T) - h[x] /\ SumOf(h, T) \in Nat
    BY <1>2, <2>1, <2>2, SumLess, SumFinite
  <2>4. SumOf(f, T \ {x}) = b * SumOf(g, T \ {x}) + SumOf(h, T \ {x})
    BY <1>2, <2>1
  <2>5. b * (SumOf(g, T) - g[x]) = b * SumOf(g, T) - b * g[x] /\ b * g[x] \in Nat /\ b * SumOf(g, T) \in Nat
    BY <2>2, <2>3
  <2>6. SumOf(f, T) - f[x] = b * (SumOf(g, T) - g[x]) + (SumOf(h, T) - h[x])
    BY <2>3, <2>4
  <2>7. PICK k, m : k = b * SumOf(g, T) /\ m = b * g[x] /\ k \in Nat /\ m \in Nat
    BY <2>5
  <2>8. SumOf(f, T) - f[x] = (k - m) + (SumOf(h, T) - h[x]) /\ f[x] = m + h[x]
    BY <2>2, <2>5, <2>6, <2>7
  <2>a. PICK u, v, w : u = SumOf(f, T) /\ v = SumOf(h, T) /\ w = h[x] /\ u \in Nat /\ v \in Nat /\ w \in Nat
    BY <2>2, <2>3
  <2>b. u - (m + w) = (k - m) + (v - w)
    BY <2>8, <2>a
  <2>d. u \in Nat /\ v \in Nat /\ w \in Nat /\ k \in Nat /\ m \in Nat
    BY <2>7, <2>a
  <2>c. u = k + v
    BY ONLY <2>b, <2>d
  <2>9. SumOf(f, T) = k + SumOf(h, T)
    BY <2>a, <2>c
  <2> QED
    BY <1>2, <2>7, <2>9
<1> QED
  BY <1>3, <1>4

(* As many things as there are ones, or fewer where each is less than b. *)
LEMMA SumBelow ==
  ASSUME NEW S, IsFiniteSet(S), S # {}, NEW b \in Nat, NEW f, \A x \in S : f[x] \in Nat /\ f[x] < b
  PROVE  SumOf(f, S) < b * Cardinality(S)
<1> DEFINE Bad == {T \in SUBSET S : T # {} /\ ~(SumOf(f, T) < b * Cardinality(T))}
<1>1. SUFFICES ASSUME Bad # {} PROVE FALSE
  BY DEF Bad
<1>2. PICK T \in Bad : IsFiniteSet(T) /\ \A x \in T : T \ {x} \notin Bad
  BY <1>1, SmallestSubset
<1>3. PICK x \in T : TRUE
  BY <1>2
<1>4. /\ \A y \in T : f[y] \in Nat
      /\ f[x] \in Nat /\ f[x] < b
  BY <1>2, <1>3
<1>5. /\ SumOf(f, T \ {x}) = SumOf(f, T) - f[x] /\ SumOf(f, T) \in Nat
      /\ Cardinality(T \ {x}) = Cardinality(T) - 1 /\ Cardinality(T) \in Nat
      /\ Cardinality(T \ {x}) \in Nat
  BY <1>2, <1>3, <1>4, SumLess, SumFinite, FS_RemoveElement, FS_CardinalityType
<1>6. b * (Cardinality(T) - 1) = b * Cardinality(T) - b /\ b * Cardinality(T) \in Nat
  BY <1>5
<1>7. CASE T \ {x} = {}
  <2>1. SumOf(f, T \ {x}) = 0 /\ Cardinality(T \ {x}) = 0
    BY <1>7, SumEmpty, FS_EmptySet
  <2>2. SumOf(f, T) = f[x] /\ Cardinality(T) = 1
    BY <1>4, <1>5, <2>1
  <2> QED
    BY <1>2, <1>4, <2>2
<1>8. CASE T \ {x} # {}
  <2>1. SumOf(f, T \ {x}) < b * Cardinality(T \ {x})
    BY <1>2, <1>3, <1>8
  <2>2. SumOf(f, T) < b * Cardinality(T)
    BY <1>4, <1>5, <1>6, <2>1
  <2> QED
    BY <1>2, <2>2
<1> QED
  BY <1>7, <1>8

LEMMA SumOnes ==
  ASSUME NEW S, IsFiniteSet(S), NEW f, NEW X \in SUBSET S,
         \A x \in S : f[x] = (IF x \in X THEN 1 ELSE 0)
  PROVE  SumOf(f, S) = Cardinality(X)
<1> DEFINE Bad == {T \in SUBSET S : SumOf(f, T) # Cardinality(X \cap T)}
<1>1. SUFFICES Bad = {}
  <2>1. S \notin Bad
    OBVIOUS
  <2>2. X \cap S = X
    OBVIOUS
  <2> QED
    BY <2>1, <2>2
<1>2. SUFFICES ASSUME Bad # {} PROVE FALSE
  OBVIOUS
<1>3. PICK T \in Bad : IsFiniteSet(T) /\ \A x \in T : T \ {x} \notin Bad
  BY <1>2, SmallestSubset
<1>4. CASE T = {}
  <2>1. X \cap T = {} /\ SumOf(f, T) = 0 /\ Cardinality({}) = 0
    BY <1>4, SumEmpty, FS_EmptySet
  <2> QED
    BY <1>3, <2>1
<1>5. CASE T # {}
  <2>1. PICK x \in T : TRUE
    BY <1>5
  <2>2. \A y \in T : f[y] \in Nat
    BY <1>3
  <2>3. /\ SumOf(f, T \ {x}) = SumOf(f, T) - f[x] /\ SumOf(f, T) \in Nat
    BY <1>3, <2>1, <2>2, SumLess, SumFinite
  <2>4. SumOf(f, T \ {x}) = Cardinality(X \cap (T \ {x}))
    BY <1>3, <2>1
  <2>5. IsFiniteSet(X \cap T) /\ Cardinality(X \cap T) \in Nat
    BY <1>3, FS_Subset, FS_CardinalityType
  <2>6. CASE x \in X
    <3>1. X \cap (T \ {x}) = (X \cap T) \ {x} /\ x \in X \cap T /\ f[x] = 1
      BY <1>3, <2>1, <2>6
    <3>2. Cardinality((X \cap T) \ {x}) = Cardinality(X \cap T) - 1
      BY <2>5, <3>1, FS_RemoveElement
    <3>a. SumOf(f, T) - 1 = Cardinality(X \cap T) - 1
      BY <2>3, <2>4, <3>1, <3>2
    <3>3. SumOf(f, T) = Cardinality(X \cap T)
      BY <2>3, <2>5, <3>a
    <3> QED
      BY <1>3, <3>3
  <2>7. CASE x \notin X
    <3>1. X \cap (T \ {x}) = X \cap T /\ f[x] = 0
      BY <1>3, <2>1, <2>7
    <3>a. SumOf(f, T) - 0 = Cardinality(X \cap T)
      BY <2>3, <2>4, <3>1
    <3>2. SumOf(f, T) = Cardinality(X \cap T)
      BY <2>3, <2>5, <3>a
    <3> QED
      BY <1>3, <3>2
  <2> QED
    BY <2>6, <2>7
<1> QED
  BY <1>4, <1>5

LEMMA Greater ==
  ASSUME NEW a \in Nat, NEW b \in Nat, NEW t \in Nat
  PROVE  a <= b => t * a <= t * b
<1> SUFFICES ASSUME a <= b PROVE t * a <= t * b
  OBVIOUS
<1>1. b - a \in Nat /\ t * (b - a) \in Nat /\ t * a \in Nat /\ t * b \in Nat
  OBVIOUS
<1>2. t * (b - a) = t * b - t * a
  OBVIOUS
<1> QED
  BY <1>1, <1>2

LEMMA Quotient ==
  ASSUME NEW t \in Nat, NEW f \in Nat, NEW s \in Nat, NEW n \in Nat, NEW m \in Nat, t > 0,
         t * f + s = t * n, s < t * m
  PROVE  n - f \in 0..m
<1>1. t * f \in Nat /\ t * n \in Nat /\ t * m \in Nat
  OBVIOUS
<1>2. ASSUME n < f PROVE FALSE
  <2>1. t * (n + 1) <= t * f
    BY <1>2, Greater
  <2>2. t * (n + 1) = t * n + t
    OBVIOUS
  <2> QED
    BY <1>1, <2>1, <2>2
<1>3. ASSUME f + m < n PROVE FALSE
  <2>1. t * (f + m) <= t * n
    BY <1>3, Greater
  <2>2. t * (f + m) = t * f + t * m
    OBVIOUS
  <2> QED
    BY <1>1, <2>1, <2>2
<1> QED
  BY <1>2, <1>3

Floor(w, n)    == [c \in DOMAIN w |-> (n * w[c]) \div TotalOf(w)]
Fraction(w, n) == [c \in DOMAIN w |-> (n * w[c]) % TotalOf(w)]
Spare(w, n)    == n - SumOf(Floor(w, n), DOMAIN w)
AheadOf(w, n)  == {p \in (DOMAIN w) \X (DOMAIN w) :
                      \/ Fraction(w, n)[p[1]] > Fraction(w, n)[p[2]]
                      \/ Fraction(w, n)[p[1]] = Fraction(w, n)[p[2]] /\ p[1] < p[2]}
Rank(w, n, c)  == Cardinality(Below(AheadOf(w, n), DOMAIN w, c))

Weights(w) == /\ IsFiniteSet(DOMAIN w) /\ DOMAIN w # {} /\ DOMAIN w \subseteq Nat
              /\ \A c \in DOMAIN w : w[c] \in Nat /\ w[c] > 0

LEMMA AheadMeans ==
  ASSUME NEW w, NEW n, NEW c \in DOMAIN w, NEW d \in DOMAIN w
  PROVE  <<c, d>> \in AheadOf(w, n) <=>
           \/ Fraction(w, n)[c] > Fraction(w, n)[d]
           \/ Fraction(w, n)[c] = Fraction(w, n)[d] /\ c < d
<1> DEFINE r(x) == Fraction(w, n)[x]
<1>1. AheadOf(w, n) = {p \in (DOMAIN w) \X (DOMAIN w) : r(p[1]) > r(p[2]) \/ (r(p[1]) = r(p[2]) /\ p[1] < p[2])}
  BY DEF AheadOf
<1> HIDE DEF r
<1>2. <<c, d>> \in AheadOf(w, n) <=> r(c) > r(d) \/ (r(c) = r(d) /\ c < d)
  BY <1>1
<1> QED
  BY <1>2 DEF r

LEMMA SharesParts ==
  ASSUME NEW w, Weights(w), NEW n \in Nat
  PROVE  /\ TotalOf(w) \in Nat /\ TotalOf(w) > 0
         /\ \A c \in DOMAIN w :
               /\ Floor(w, n)[c] \in Nat /\ Fraction(w, n)[c] \in Nat /\ Fraction(w, n)[c] < TotalOf(w)
               /\ n * w[c] = TotalOf(w) * Floor(w, n)[c] + Fraction(w, n)[c]
               /\ Rank(w, n, c) \in Nat
         /\ TotalOn(AheadOf(w, n), DOMAIN w)
         /\ DOMAIN Shares(w, n) = DOMAIN w
         /\ \A c \in DOMAIN w :
               Shares(w, n)[c] = Floor(w, n)[c] + (IF Rank(w, n, c) < Spare(w, n) THEN 1 ELSE 0)
<1>1. TotalOf(w) \in Nat /\ TotalOf(w) > 0
  BY SumPositive, Total DEF Weights
<1>2. ASSUME NEW c \in DOMAIN w
      PROVE  /\ Floor(w, n)[c] \in Nat /\ Fraction(w, n)[c] \in Nat /\ Fraction(w, n)[c] < TotalOf(w)
             /\ n * w[c] = TotalOf(w) * Floor(w, n)[c] + Fraction(w, n)[c]
  <2>1. n * w[c] \in Nat
    BY DEF Weights
  <2>2. /\ (n * w[c]) \div TotalOf(w) \in Nat /\ (n * w[c]) % TotalOf(w) \in 0..(TotalOf(w) - 1)
        /\ n * w[c] = TotalOf(w) * ((n * w[c]) \div TotalOf(w)) + ((n * w[c]) % TotalOf(w))
    BY <1>1, <2>1, DivMod
  <2>3. Floor(w, n)[c] = (n * w[c]) \div TotalOf(w) /\ Fraction(w, n)[c] = (n * w[c]) % TotalOf(w)
    BY DEF Floor, Fraction
  <2> QED
    BY <1>1, <2>2, <2>3
<1>3. TotalOn(AheadOf(w, n), DOMAIN w)
  <2>1. \A c \in DOMAIN w : c \in Nat /\ Fraction(w, n)[c] \in Nat
    BY <1>2 DEF Weights
  <2>2. \A c, d \in DOMAIN w : <<c, d>> \in AheadOf(w, n) <=>
           \/ Fraction(w, n)[c] > Fraction(w, n)[d]
           \/ Fraction(w, n)[c] = Fraction(w, n)[d] /\ c < d
    BY AheadMeans
  <2> QED
    BY <2>1, <2>2 DEF TotalOn
<1>4. ASSUME NEW c \in DOMAIN w PROVE Rank(w, n, c) \in Nat
  <2>1. Below(AheadOf(w, n), DOMAIN w, c) \in SUBSET DOMAIN w
    BY DEF Below
  <2> QED
    BY <2>1, FS_Subset, FS_CardinalityType DEF Rank, Weights
<1>5. /\ DOMAIN Shares(w, n) = DOMAIN w
      /\ \A c \in DOMAIN w :
               Shares(w, n)[c] = Floor(w, n)[c] + (IF Rank(w, n, c) < Spare(w, n) THEN 1 ELSE 0)
  <2> DEFINE ahead(c) == {d \in DOMAIN w : \/ Fraction(w, n)[d] > Fraction(w, n)[c]
                                           \/ Fraction(w, n)[d] = Fraction(w, n)[c] /\ d < c}
  <2> DEFINE share == [c \in DOMAIN w |-> Floor(w, n)[c] +
                           (IF Cardinality(ahead(c)) < n - TotalOf(Floor(w, n)) THEN 1 ELSE 0)]
  <2>1. Shares(w, n) = share
    BY DEF Shares, Floor, Fraction
  <2>2. TotalOf(Floor(w, n)) = SumOf(Floor(w, n), DOMAIN w)
    BY Total DEF Floor
  <2>3. \A c \in DOMAIN w : ahead(c) = Below(AheadOf(w, n), DOMAIN w, c)
    BY AheadMeans DEF Below
  <2>4. \A c \in DOMAIN w : Cardinality(ahead(c)) = Rank(w, n, c)
    BY <2>3 DEF Rank
  <2> HIDE DEF ahead
  <2> QED
    BY <2>1, <2>2, <2>4 DEF Spare
<1> QED
  BY <1>1, <1>2, <1>3, <1>4, <1>5

LEMMA SharesAddUp ==
  ASSUME NEW w, Weights(w), NEW n \in Nat
  PROVE  Shares(w, n) \in [DOMAIN w -> Nat] /\ SumOf(Shares(w, n), DOMAIN w) = n
<1> DEFINE D == DOMAIN w
<1> DEFINE t == TotalOf(w)
<1> DEFINE floor == Floor(w, n)
<1> DEFINE fraction == Fraction(w, n)
<1> DEFINE share == Shares(w, n)
<1> DEFINE zero == [c \in D |-> 0]
<1> DEFINE product == [c \in D |-> n * w[c]]
<1> DEFINE low == Lowest(AheadOf(w, n), D, Spare(w, n))
<1> DEFINE bonus == [c \in D |-> IF c \in low THEN 1 ELSE 0]
<1>1. /\ IsFiniteSet(D) /\ D # {} /\ t \in Nat /\ t > 0 /\ t = SumOf(w, D)
      /\ \A c \in D : /\ w[c] \in Nat /\ floor[c] \in Nat /\ fraction[c] \in Nat /\ fraction[c] < t
                      /\ n * w[c] = t * floor[c] + fraction[c]
      /\ Cardinality(D) \in Nat
  BY SharesParts, Total, FS_CardinalityType DEF Weights
<1>2. /\ TotalOn(AheadOf(w, n), D) /\ DOMAIN share = D
      /\ \A c \in D : share[c] = floor[c] + (IF Rank(w, n, c) < Spare(w, n) THEN 1 ELSE 0)
  BY SharesParts
<1>3. Spare(w, n) = n - SumOf(floor, D)
  BY DEF Spare
<1>4. \A c \in D : c \in low <=> Rank(w, n, c) < Spare(w, n)
  BY DEF Lowest, Rank
<1>5. \A c \in D : /\ product[c] \in Nat /\ zero[c] = 0 /\ zero[c] \in Nat
                   /\ product[c] = t * floor[c] + fraction[c] /\ product[c] = n * w[c] + zero[c]
  <2>1. \A c \in D : product[c] = n * w[c] /\ zero[c] = 0 /\ n * w[c] \in Nat
    BY <1>1
  <2> HIDE DEF product, zero, D, t, floor, fraction
  <2> QED
    BY <1>1, <2>1
<1>6. /\ \A c \in D : bonus[c] \in Nat /\ bonus[c] = (IF c \in low THEN 1 ELSE 0)
      /\ low \subseteq D
  BY DEF Lowest
<1>7. \A c \in D : share[c] = 1 * floor[c] + bonus[c] /\ share[c] \in Nat
  <2> HIDE DEF D, floor, share, bonus, low
  <2> QED
    BY <1>1, <1>2, <1>4, <1>6
<1>8. share = [c \in D |-> share[c]]
  BY <1>2 DEF Shares
<1> HIDE DEF D, t, floor, fraction, share, zero, product, low, bonus
<1>9. SumOf(product, D) = t * SumOf(floor, D) + SumOf(fraction, D)
  BY <1>1, <1>5, SumLinear
<1>10. SumOf(zero, D) = 0
  <2>1. SumOf(zero, D) = Cardinality({})
    BY <1>1, <1>5, SumOnes
  <2> QED
    BY <2>1, FS_EmptySet
<1>11. SumOf(product, D) = n * t
  <2>1. SumOf(product, D) = n * SumOf(w, D) + SumOf(zero, D)
    BY <1>1, <1>5, SumLinear
  <2> QED
    BY <1>1, <1>10, <2>1
<1>12. SumOf(fraction, D) < t * Cardinality(D) /\ SumOf(fraction, D) \in Nat /\ SumOf(floor, D) \in Nat
  BY <1>1, SumBelow, SumFinite
<1>13. n - SumOf(floor, D) \in 0..Cardinality(D)
  <2>1. t * SumOf(floor, D) + SumOf(fraction, D) = t * n
    BY <1>1, <1>9, <1>11
  <2> QED
    BY <1>1, <1>12, <2>1, Quotient
<1>14. Cardinality(low) = n - SumOf(floor, D)
  BY <1>1, <1>2, <1>3, <1>13, LowestSize DEF low
<1>15. SumOf(bonus, D) = Cardinality(low)
  BY <1>1, <1>6, SumOnes
<1>16. SumOf(share, D) = 1 * SumOf(floor, D) + SumOf(bonus, D)
  BY <1>1, <1>6, <1>7, SumLinear
<1>17. SumOf(share, D) = n
  BY <1>12, <1>14, <1>15, <1>16
<1> QED
  BY <1>7, <1>8, <1>17 DEF D, share

(* A greater weight has no smaller share. *)
LEMMA SharesMonotone ==
  ASSUME NEW w, Weights(w), NEW n \in Nat, n > 0, NEW c \in DOMAIN w, NEW d \in DOMAIN w, w[d] < w[c]
  PROVE  Shares(w, n)[d] <= Shares(w, n)[c]
<1> DEFINE t == TotalOf(w)
<1> DEFINE f(x) == Floor(w, n)[x]
<1> DEFINE r(x) == Fraction(w, n)[x]
<1>1. /\ t \in Nat /\ t > 0 /\ f(c) \in Nat /\ f(d) \in Nat /\ r(c) \in Nat /\ r(d) \in Nat
      /\ r(c) < t /\ r(d) < t /\ n * w[c] = t * f(c) + r(c) /\ n * w[d] = t * f(d) + r(d)
      /\ w[c] \in Nat /\ w[d] \in Nat /\ Rank(w, n, c) \in Nat /\ Rank(w, n, d) \in Nat
  BY SharesParts DEF Weights
<1>2. /\ Shares(w, n)[c] = f(c) + (IF Rank(w, n, c) < Spare(w, n) THEN 1 ELSE 0)
      /\ Shares(w, n)[d] = f(d) + (IF Rank(w, n, d) < Spare(w, n) THEN 1 ELSE 0)
  BY SharesParts
<1>3. n * w[d] <= n * w[c]
  BY <1>1, Greater
<1>4. Spare(w, n) \in Int
  <2>1. SumOf(Floor(w, n), DOMAIN w) \in Nat
    BY SharesParts, SumFinite DEF Weights
  <2> QED
    BY <2>1 DEF Spare
<1> HIDE DEF t, f, r
<1>5. f(d) <= f(c)
  <2>1. SUFFICES ASSUME f(c) < f(d) PROVE FALSE
    BY <1>1
  <2>2. t * (f(c) + 1) <= t * f(d)
    BY <1>1, <2>1, Greater
  <2>3. t * (f(c) + 1) = t * f(c) + t /\ t * f(c) \in Nat /\ t * f(d) \in Nat
    BY <1>1
  <2> QED
    BY <1>1, <1>3, <2>2, <2>3
<1>6. CASE f(d) < f(c)
  BY <1>1, <1>2, <1>6
<1>7. CASE f(d) = f(c)
  <2>1. n * (w[d] + 1) <= n * w[c] /\ n * (w[d] + 1) = n * w[d] + n /\ n * w[d] \in Nat /\ n * w[c] \in Nat
    BY <1>1, Greater
  <2>2. t * f(c) = t * f(d) /\ t * f(c) \in Nat
    BY <1>1, <1>7
  <2>3. r(d) < r(c)
    BY <1>1, <2>1, <2>2
  <2>4. TotalOn(AheadOf(w, n), DOMAIN w) /\ IsFiniteSet(DOMAIN w)
    BY SharesParts DEF Weights
  <2>5. <<c, d>> \in AheadOf(w, n)
    BY <2>3 DEF AheadOf, r
  <2>6. /\ Below(AheadOf(w, n), DOMAIN w, c) \subseteq Below(AheadOf(w, n), DOMAIN w, d)
        /\ Below(AheadOf(w, n), DOMAIN w, d) \subseteq DOMAIN w
    BY <2>4, <2>5 DEF TotalOn, Below
  <2>7. Rank(w, n, c) <= Rank(w, n, d)
    BY <2>4, <2>6, FS_Subset DEF Rank
  <2> QED
    BY <1>1, <1>2, <1>4, <1>7, <2>7
<1> QED
  BY <1>1, <1>5, <1>6, <1>7

-----------------------------------------------------------------------------
(* Owners and groups of a stage paper. *)

LEMMA UnionBound ==
  ASSUME NEW S, IsFiniteSet(S), NEW f, NEW A,
         \A x \in S : f[x] \in Nat /\ IsFiniteSet(A[x]) /\ Cardinality(A[x]) <= f[x]
  PROVE  IsFiniteSet(UNION {A[x] : x \in S}) /\ Cardinality(UNION {A[x] : x \in S}) <= SumOf(f, S)
<1> DEFINE All(T) == UNION {A[x] : x \in T}
<1> DEFINE Bad == {T \in SUBSET S : ~(IsFiniteSet(All(T)) /\ Cardinality(All(T)) <= SumOf(f, T))}
<1>1. SUFFICES ASSUME Bad # {} PROVE FALSE
  BY DEF Bad
<1>2. PICK T \in Bad : IsFiniteSet(T) /\ \A x \in T : T \ {x} \notin Bad
  BY <1>1, SmallestSubset
<1>3. CASE T = {}
  <2>1. All(T) = {} /\ SumOf(f, T) = 0 /\ Cardinality({}) = 0 /\ IsFiniteSet({})
    BY <1>3, SumEmpty, FS_EmptySet
  <2> HIDE DEF All
  <2>2. IsFiniteSet(All(T)) /\ Cardinality(All(T)) <= SumOf(f, T)
    BY <2>1
  <2> QED
    BY <1>2, <2>2
<1>4. CASE T # {}
  <2>1. PICK x \in T : TRUE
    BY <1>4
  <2>2. /\ \A y \in T : f[y] \in Nat
        /\ f[x] \in Nat /\ IsFiniteSet(A[x]) /\ Cardinality(A[x]) <= f[x] /\ Cardinality(A[x]) \in Nat
    BY <1>2, <2>1, FS_CardinalityType
  <2>3. /\ SumOf(f, T \ {x}) = SumOf(f, T) - f[x] /\ SumOf(f, T) \in Nat
    BY <1>2, <2>1, <2>2, SumLess, SumFinite
  <2>4. IsFiniteSet(All(T \ {x})) /\ Cardinality(All(T \ {x})) <= SumOf(f, T \ {x})
    BY <1>2, <2>1
  <2>5. All(T) = All(T \ {x}) \cup A[x]
    BY <2>1
  <2> HIDE DEF All
  <2>6. /\ IsFiniteSet(All(T \ {x}) \cup A[x])
        /\ Cardinality(All(T \ {x}) \cup A[x])
             = Cardinality(All(T \ {x})) + Cardinality(A[x]) - Cardinality(All(T \ {x}) \cap A[x])
    BY <2>2, <2>4, FS_Union
  <2>7. Cardinality(All(T \ {x}) \cap A[x]) \in Nat
    BY <2>2, FS_Subset, FS_CardinalityType, All(T \ {x}) \cap A[x] \subseteq A[x]
  <2>8. Cardinality(All(T \ {x})) \in Nat
    BY <2>4, FS_CardinalityType
  <2>9. IsFiniteSet(All(T)) /\ Cardinality(All(T)) <= SumOf(f, T)
    BY <2>2, <2>3, <2>4, <2>5, <2>6, <2>7, <2>8
  <2> QED
    BY <1>2, <2>9
<1> QED
  BY <1>3, <1>4

LEMMA MasteryType ==
  ASSUME NEW c, MasteryValid(plan.mastery[c])
  PROVE  Mastery(c) \in 0..90 /\ WeightOf(c) \in Nat /\ WeightOf(c) > 0
<1> DEFINE known == plan.mastery[c]
<1> DEFINE rate == (100 * known.correct) \div known.attempted
<1>1. known.attempted \in Nat /\ known.correct \in Nat
  BY DEF MasteryValid
<1>2. known.attempted # 0 => rate \in Nat
  <2>0. 100 * known.correct \in Nat
    BY <1>1
  <2>1. PICK a, b : a = 100 * known.correct /\ b = known.attempted /\ a \in Nat /\ b \in Nat
    BY <1>1, <2>0, Zenon
  <2>2. b # 0 => a \div b \in Nat
    BY <2>1, DivMod
  <2> QED
    BY <2>1, <2>2
<1> HIDE DEF rate
<1>3. ASSUME rate \in Nat PROVE Min({rate, 90}) \in 0..90
  <2>1. \E x \in {rate, 90} : \A y \in {rate, 90} : x <= y
    BY <1>3
  <2>2. Min({rate, 90}) \in {rate, 90} /\ \A y \in {rate, 90} : Min({rate, 90}) <= y
    BY <2>1 DEF Min
  <2> QED
    BY <1>3, <2>2
<1>4. Mastery(c) = IF known.attempted = 0 THEN 0 ELSE Min({rate, 90})
  BY DEF Mastery, rate
<1>5. Mastery(c) \in 0..90
  BY <1>2, <1>3, <1>4
<1> QED
  BY <1>5 DEF WeightOf

StagePlan == plan \in Plans /\ plan.mode = "stage_assessment"

LEMMA OwnerOK ==
  ASSUME StagePlan, NEW q \in Bank
  PROVE  /\ Owner(q) \in TestsOf(q) /\ Owner(q) \in Nat
         /\ WeightOf(Owner(q)) \in Nat /\ WeightOf(Owner(q)) > 0 /\ Mastery(Owner(q)) \in 0..90
<1>1. /\ TestsOf(q) \subseteq Nat /\ TestsOf(q) # {} /\ IsFiniteSet(TestsOf(q))
  BY PlanOK DEF StagePlan
<1>2. \A c \in TestsOf(q) : MasteryValid(plan.mastery[c])
  <2>1. plan.mode # "blueprint"
    BY DEF StagePlan
  <2> QED
    BY <2>1, PlansAssumption DEF StagePlan, TestsOf, Bank
<1>3. \A c \in TestsOf(q) : Mastery(c) \in 0..90
  BY <1>2, MasteryType
<1> DEFINE R == {p \in Nat \X Nat : Weaker(p[2], p[1])}
<1>4. \A a, b \in TestsOf(q) : <<a, b>> \in R <=> Weaker(b, a)
  BY <1>1
<1> HIDE DEF R
<1>5. TotalOn(R, TestsOf(q))
  <2>1. \A a \in TestsOf(q) : a \in Nat /\ Mastery(a) \in Int
    BY <1>1, <1>3
  <2>2. \A a, b \in TestsOf(q) : <<a, b>> \in R <=> Mastery(b) < Mastery(a) \/ (Mastery(b) = Mastery(a) /\ b < a)
    BY <1>4 DEF Weaker
  <2> QED
    BY <2>1, <2>2 DEF TotalOn
<1>6. PICK m \in TestsOf(q) : \A y \in TestsOf(q) \ {m} : <<y, m>> \in R
  BY <1>1, <1>5, GreatestOf
<1>7. \A y \in TestsOf(q) \ {m} : Weaker(m, y)
  BY <1>4, <1>6
<1>8. \E c \in TestsOf(q) : \A d \in TestsOf(q) \ {c} : Weaker(c, d)
  BY <1>7
<1>9. Owner(q) \in TestsOf(q)
  BY <1>8 DEF Owner
<1> QED
  BY <1>1, <1>2, <1>3, <1>9, MasteryType

(* What one round takes. *)
Round(p, g, places, share, taken, T) ==
    /\ p \in Seq(Bank) /\ IsInjective(p) /\ places \in Nat /\ places > 0
    /\ DOMAIN g = {Owner(q) : q \in Bank \ ToSet(p)}
    /\ \A c \in DOMAIN g : g[c] = {q \in Bank \ ToSet(p) : Owner(q) = c}
    /\ share = Shares([c \in DOMAIN g |-> WeightOf(c)], places)
    /\ taken = [c \in DOMAIN g |-> FirstOf(share[c], g[c])]
    /\ T = UNION {taken[c] : c \in DOMAIN g}

LEMMA RoundTakes ==
  ASSUME StagePlan, NEW p, NEW g, NEW places, NEW share, NEW taken, NEW T,
         Round(p, g, places, share, taken, T)
  PROVE  /\ T \subseteq Bank \ ToSet(p) /\ IsFiniteSet(T) /\ Cardinality(T) <= places
         /\ \A c \in DOMAIN g : /\ taken[c] = {q \in T : Owner(q) = c}
                                /\ IsFiniteSet(taken[c]) /\ Cardinality(taken[c]) \in Nat
         /\ \A c, d \in DOMAIN g : taken[c] # g[c] /\ Mastery(c) < Mastery(d) =>
               Cardinality(taken[d]) <= Cardinality(taken[c])
<1> DEFINE w == [c \in DOMAIN g |-> WeightOf(c)]
<1>1. /\ places \in Nat /\ places > 0 /\ share = Shares(w, places)
      /\ \A c \in DOMAIN g : g[c] = {q \in Bank \ ToSet(p) : Owner(q) = c}
      /\ taken = [c \in DOMAIN g |-> FirstOf(share[c], g[c])] /\ T = UNION {taken[c] : c \in DOMAIN g}
  BY DEF Round
<1>2. IsFiniteSet(Bank) /\ Bank \subseteq Nat
  BY PlanOK DEF StagePlan
<1>3. \A c \in DOMAIN g : c \in Nat /\ w[c] \in Nat /\ w[c] > 0 /\ Mastery(c) \in 0..90 /\ w[c] = 100 - Mastery(c)
  BY OwnerOK DEF Round, WeightOf
<1>4. IsFiniteSet(DOMAIN g)
  <2>1. IsFiniteSet(Bank \ ToSet(p))
    BY <1>2, FS_Subset
  <2>2. IsFiniteSet({Owner(q) : q \in Bank \ ToSet(p)})
    <3> DEFINE h == [q \in Bank \ ToSet(p) |-> Owner(q)]
    <3>1. h \in Surjection(Bank \ ToSet(p), {Owner(q) : q \in Bank \ ToSet(p)})
      BY DEF Surjection
    <3> HIDE DEF h
    <3> QED
      BY <2>1, <3>1, FS_Surjection
  <2> QED
    BY <2>2 DEF Round
<1>5. ASSUME DOMAIN g # {}
      PROVE  /\ \A c \in DOMAIN g : share[c] \in Nat
             /\ SumOf(share, DOMAIN g) = places
             /\ \A c, d \in DOMAIN g : Mastery(c) < Mastery(d) => share[d] <= share[c]
  <2>1. Weights(w) /\ DOMAIN w = DOMAIN g
    BY <1>3, <1>4, <1>5 DEF Weights
  <2>2. \A c, d \in DOMAIN g : Mastery(c) < Mastery(d) => w[d] < w[c]
    BY <1>3
  <2> HIDE DEF w
  <2> QED
    BY <1>1, <2>1, <2>2, SharesAddUp, SharesMonotone
<1> HIDE DEF w
<1>6. ASSUME NEW c \in DOMAIN g
      PROVE  /\ taken[c] \subseteq g[c] /\ IsFiniteSet(taken[c]) /\ Cardinality(taken[c]) \in Nat
             /\ Cardinality(taken[c]) <= share[c]
             /\ taken[c] # g[c] => Cardinality(taken[c]) = share[c]
             /\ taken[c] = {q \in T : Owner(q) = c}
  <2>1. g[c] \in SUBSET Nat /\ IsFiniteSet(g[c]) /\ share[c] \in Nat /\ taken[c] = FirstOf(share[c], g[c])
    <3>1. g[c] \in SUBSET Bank
      BY <1>1
    <3> QED
      BY <1>1, <1>2, <1>5, <3>1, FS_Subset
  <2>2. /\ taken[c] \subseteq g[c]
        /\ Cardinality(taken[c]) = IF share[c] <= Cardinality(g[c]) THEN share[c] ELSE Cardinality(g[c])
        /\ taken[c] # g[c] => Cardinality(taken[c]) = share[c]
    BY <2>1, FirstOfSize
  <2>3. IsFiniteSet(taken[c]) /\ Cardinality(taken[c]) \in Nat /\ Cardinality(g[c]) \in Nat
    BY <2>1, <2>2, FS_Subset, FS_CardinalityType
  <2>4. \A d \in DOMAIN g : taken[d] \subseteq g[d]
    BY <1>1 DEF FirstOf
  <2>5. taken[c] = {q \in T : Owner(q) = c}
    BY <1>1, <2>4
  <2> QED
    BY <2>1, <2>2, <2>3, <2>5
<1>7. T \subseteq Bank \ ToSet(p)
  BY <1>1, <1>6
<1>8. IsFiniteSet(T)
  BY <1>2, <1>7, FS_Subset
<1>9. Cardinality(T) <= places
  <2>1. CASE DOMAIN g = {}
    <3>1. T = {}
      BY <1>1, <2>1
    <3>2. Cardinality(T) = 0
      BY <1>8, <3>1, FS_EmptySet
    <3>3. places \in Nat
      BY <1>1
    <3> QED
      BY ONLY <3>2, <3>3
  <2>2. CASE DOMAIN g # {}
    <3>1. Cardinality(UNION {taken[c] : c \in DOMAIN g}) <= SumOf(share, DOMAIN g)
      BY <1>4, <1>5, <1>6, <2>2, UnionBound
    <3>2. Cardinality(T) <= SumOf(share, DOMAIN g)
      BY <1>1, <3>1
    <3>3. SumOf(share, DOMAIN g) = places
      BY <1>5, <2>2
    <3>4. Cardinality(T) \in Nat /\ places \in Nat
      BY <1>1, <1>8, FS_CardinalityType
    <3> QED
      BY ONLY <3>2, <3>3, <3>4
  <2> QED
    BY <2>1, <2>2
<1>10. ASSUME NEW c \in DOMAIN g, NEW d \in DOMAIN g, taken[c] # g[c], Mastery(c) < Mastery(d)
       PROVE  Cardinality(taken[d]) <= Cardinality(taken[c])
  <2>1. share[d] <= share[c] /\ share[c] \in Nat /\ share[d] \in Nat
    BY <1>5, <1>10
  <2>2. /\ Cardinality(taken[d]) <= share[d] /\ Cardinality(taken[d]) \in Nat
        /\ Cardinality(taken[c]) = share[c]
    BY <1>6, <1>10
  <2> QED
    BY <2>1, <2>2
<1> QED
  BY <1>6, <1>7, <1>8, <1>9, <1>10

-----------------------------------------------------------------------------
(* A paper from the learning profile keeps the invariant. *)

LEMMA SameOwner ==
  ASSUME plan' = plan
  PROVE  /\ \A c : Mastery(c)' = Mastery(c)
         /\ \A q : Owner(q)' = Owner(q)
<1>1. \A c : Mastery(c)' = Mastery(c)
  BY DEF Mastery
<1>2. \A a, b : Weaker(a, b)' <=> Weaker(a, b)
  BY <1>1 DEF Weaker
<1>3. \A q : TestsOf(q)' = TestsOf(q)
  BY DEF TestsOf
<1>4. \A q : Owner(q)' = Owner(q)
  BY <1>2, <1>3 DEF Owner
<1> QED
  BY <1>1, <1>4

LEMMA ShareKept ==
  ASSUME plan' = plan, paper' = paper, groups' = groups, StageShared,
         outcome' = "frozen" => groups = <<>> \/ Len(paper[1]) >= PaperSize
  PROVE  StageShared'
<1>1. Bank' = Bank /\ \A q : Owner(q)' = Owner(q)
  BY SameBank, SameOwner
<1>2. \A c : Mastery(c)' = Mastery(c) /\ PlacesOf(c)' = PlacesOf(c)
  BY <1>1, SameOwner DEF PlacesOf
<1>3. {Owner(q) : q \in Bank \ ToSet(paper[1])}' = {Owner(q) : q \in Bank \ ToSet(paper[1])}
  BY <1>1
<1>4. \A c : {q \in Bank \ ToSet(paper[1]) : Owner(q) = c}' = {q \in Bank \ ToSet(paper[1]) : Owner(q) = c}
  BY <1>1
<1> QED
  BY <1>1, <1>2, <1>3, <1>4 DEF StageShared

(* A selection that is not shared out. *)
LEMMA FreezesOK ==
  ASSUME PaperInv, plan.mode # "blueprint", paper = <<>>, NEW questions \in Seq(Bank), Freeze(questions),
         plan.mode = "stage_assessment" =>
             /\ groups = <<>> /\ Cardinality(Bank) <= PaperSize
             /\ IsInjective(questions) /\ ToSet(questions) = Bank
  PROVE  PaperInv'
<1>1. /\ plan' = plan /\ groups' = groups /\ search' = search /\ outcome' = "frozen"
      /\ paper' = Append(<<>>, questions) /\ Bank' = Bank
  BY SameBank DEF Freeze
<1>2. paper' \in Seq(Seq(Bank)) /\ Len(paper') = 1 /\ paper'[1] = questions /\ paper' # <<>>
  BY <1>1
<1>3. plan.mode = "stage_assessment" => StageOK'
  BY <1>1, <1>2 DEF StageOK, StageShort
<1> QED
  BY <1>1, <1>2, <1>3 DEF PaperInv

LEMMA RefusesOK == ASSUME PaperInv, plan.mode # "blueprint", outcome = "building", Refuse PROVE PaperInv'
<1>1. /\ plan' = plan /\ groups' = groups /\ search' = search /\ outcome' = "refused" /\ outcome = "building"
      /\ paper' = paper /\ Bank' = Bank
  BY SameBank DEF Refuse
<1>2. StageOK => StageOK'
  BY <1>1, ShareKept DEF StageOK, StageShort
<1> QED
  BY <1>1, <1>2 DEF PaperInv

LEMMA EmptyBankOK == ASSUME PaperInv, EmptyBank PROVE PaperInv'
BY RefusesOK DEF EmptyBank

LEMMA AscendingBank ==
  ASSUME plan \in Plans, NEW S \in SUBSET Bank
  PROVE  /\ Ascending(S) \in Seq(Bank) /\ IsInjective(Ascending(S)) /\ ToSet(Ascending(S)) = S
         /\ Len(Ascending(S)) = Cardinality(S)
<1>1. S \in SUBSET Nat /\ IsFiniteSet(S)
  BY PlanOK, FS_Subset
<1>2. /\ Ascending(S) \in Seq(S) /\ IsInjective(Ascending(S)) /\ ToSet(Ascending(S)) = S
      /\ Len(Ascending(S)) = Cardinality(S)
  BY <1>1, AscendingOK
<1> QED
  BY <1>2

LEMMA SelectDiagnosticOK == ASSUME PaperInv, SelectDiagnostic PROVE PaperInv'
<1>1. plan \in Plans /\ plan.mode = "diagnostic" /\ paper = <<>>
  BY DEF PaperInv, SelectDiagnostic, Whatever
<1>2. CASE Freeze(Ascending(Bank))
  BY <1>1, <1>2, AscendingBank, FreezesOK
<1>3. ASSUME NEW S \in kSubset(PaperSize, Bank), NEW order \in SetToSeqs(S), Freeze(order) PROVE PaperInv'
  <2>1. S \subseteq Bank /\ IsFiniteSet(S)
    BY <1>1, PlanOK, FS_Subset DEF kSubset
  <2>2. order \in Seq(Bank)
    BY <2>1, SeqOfSet
  <2> QED
    BY <1>1, <1>3, <2>2, FreezesOK
<1> QED
  BY <1>2, <1>3 DEF SelectDiagnostic

LEMMA SelectPracticeOK == ASSUME PaperInv, SelectPractice PROVE PaperInv'
<1>1. plan \in Plans /\ plan.mode = "practice" /\ paper = <<>> /\ outcome = "building"
  BY DEF PaperInv, SelectPractice, Whatever
<1>2. ASSUME NEW S \in SUBSET Bank, Freeze(Ascending(S)) PROVE PaperInv'
  BY <1>1, <1>2, AscendingBank, FreezesOK
<1>3. ASSUME Refuse PROVE PaperInv'
  BY <1>1, <1>3, RefusesOK
<1> QED
  BY <1>2, <1>3 DEF SelectPractice

LEMMA SelectCorrectionOK == ASSUME PaperInv, SelectCorrection PROVE PaperInv'
<1>1. plan \in Plans /\ plan.mode = "correction" /\ paper = <<>> /\ outcome = "building"
  BY DEF PaperInv, SelectCorrection, Whatever
<1>2. ASSUME Freeze(Ascending(plan.wrong \cap Bank)) PROVE PaperInv'
  <2>1. plan.wrong \cap Bank \in SUBSET Bank
    OBVIOUS
  <2> QED
    BY <1>1, <1>2, <2>1, AscendingBank, FreezesOK
<1>3. ASSUME Refuse PROVE PaperInv'
  BY <1>1, <1>3, RefusesOK
<1> QED
  BY <1>2, <1>3 DEF SelectCorrection

LEMMA StartStageOK == ASSUME PaperInv, StartStage PROVE PaperInv'
<1>1. /\ plan \in Plans /\ plan.mode = "stage_assessment" /\ paper = <<>> /\ groups = <<>>
      /\ outcome = "building" /\ search = <<>> /\ StagePlan
  BY DEF PaperInv, StartStage, Whatever, StagePlan
<1>2. Cardinality(Bank) \in Nat /\ PaperSize \in Nat
  BY <1>1, PlanOK, FS_CardinalityType, PaperSizeAssumption
<1>3. CASE Cardinality(Bank) <= PaperSize
  <2>1. Freeze(Ascending(Bank))
    BY <1>3 DEF StartStage
  <2> QED
    BY <1>1, <1>3, <2>1, AscendingBank, FreezesOK
<1>4. CASE ~(Cardinality(Bank) <= PaperSize)
  <2>1. /\ groups' = [c \in {Owner(q) : q \in Bank} |-> {q \in Bank : Owner(q) = c}]
        /\ paper' = <<<<>>>> /\ plan' = plan /\ search' = search /\ outcome' = outcome /\ Bank' = Bank
    BY <1>4, SameBank DEF StartStage
  <2>2. /\ Len(paper') = 1 /\ paper'[1] = <<>> /\ paper' # <<>> /\ paper' \in Seq(Seq(Bank))
        /\ IsInjective(<<>>) /\ ToSet(<<>>) = {} /\ Len(<<>>) = 0
    BY <2>1 DEF IsInjective, ToSet
  <2>3. \A c : PlacesOf(c)' = 0
    <3>1. \A c : {q \in ToSet(paper'[1]) : Owner(q)' = c} = {}
      BY <2>2
    <3> QED
      BY <3>1, FS_EmptySet DEF PlacesOf
  <2>4. \A q : Owner(q)' = Owner(q)
    BY <2>1, SameOwner
  <2>5. /\ DOMAIN groups' = {Owner(q) : q \in Bank}
        /\ \A c \in DOMAIN groups' : groups'[c] = {q \in Bank : Owner(q) = c}
    BY <2>1
  <2>6. Bank \ ToSet(paper'[1]) = Bank
    BY <2>2
  <2>7. StageShared'
    <3>1. DOMAIN groups' = {Owner(q) : q \in Bank \ ToSet(paper[1])}'
      BY <2>1, <2>4, <2>5, <2>6
    <3>2. \A c \in DOMAIN groups' : groups'[c] = {q \in Bank \ ToSet(paper[1]) : Owner(q) = c}'
      BY <2>1, <2>4, <2>5, <2>6
    <3>3. \A c \in DOMAIN groups' : \A d \in Nat : (Mastery(c) < Mastery(d) => PlacesOf(d) <= PlacesOf(c))'
      <4>1. \A c, d : PlacesOf(d)' <= PlacesOf(c)'
        BY <2>3
      <4> QED
        BY <4>1
    <3>4. Len(paper'[1]) <= PaperSize /\ PaperSize < Cardinality(Bank)
      BY <1>2, <1>4, <2>2
    <3>5. outcome' # "frozen"
      BY <1>1, <2>1
    <3> QED
      BY <2>1, <3>1, <3>2, <3>3, <3>4, <3>5 DEF StageShared
  <2>8. StageOK'
    BY <2>2, <2>7 DEF StageOK
  <2>9. \A c \in DOMAIN groups' : groups'[c] # {} /\ groups'[c] \subseteq Bank
    BY <2>5
  <2> QED
    BY <1>1, <2>1, <2>2, <2>8, <2>9 DEF PaperInv
<1> QED
  BY <1>3, <1>4

LEMMA StageRoundOK == ASSUME PaperInv, StageRound PROVE PaperInv'
<1>1. PICK p, places, share, taken, T :
         /\ p = paper[1] /\ places = PaperSize - Len(p)
         /\ share = Shares([c \in DOMAIN groups |-> WeightOf(c)], places)
         /\ taken = [c \in DOMAIN groups |-> FirstOf(share[c], groups[c])]
         /\ T = UNION {taken[c] : c \in DOMAIN groups}
  OBVIOUS
<1>2. /\ outcome = "building" /\ groups # <<>> /\ places > 0
      /\ paper' = <<p \o Ascending(T)>>
      /\ groups' = [c \in {d \in DOMAIN groups : taken[d] # groups[d]} |-> groups[c] \ taken[c]]
      /\ plan' = plan /\ search' = search /\ outcome' = outcome
  BY <1>1 DEF StageRound
<1>3. plan \in Plans /\ plan.mode = "stage_assessment" /\ search = <<>> /\ StagePlan /\ StageOK /\ Bank' = Bank
  BY <1>2, SameBank DEF PaperInv, StagePlan
<1>4. paper # <<>> /\ Len(paper) = 1 /\ IsInjective(p) /\ StageShared /\ paper \in Seq(Seq(Bank))
  BY <1>1, <1>2, <1>3 DEF StageOK, StageShort, PaperInv
<1>5. p \in Seq(Bank) /\ Len(p) \in Nat /\ PaperSize \in Nat /\ places \in Nat
  BY <1>1, <1>2, <1>4, PaperSizeAssumption
<1>6. PICK g : g = groups
  OBVIOUS
<1>7. Round(p, g, places, share, taken, T)
  BY <1>1, <1>2, <1>4, <1>5, <1>6 DEF Round, StageShared
<1>8. /\ T \subseteq Bank \ ToSet(p) /\ IsFiniteSet(T) /\ Cardinality(T) <= places
      /\ \A c \in DOMAIN g : /\ taken[c] = {q \in T : Owner(q) = c}
                             /\ IsFiniteSet(taken[c]) /\ Cardinality(taken[c]) \in Nat
      /\ \A c, d \in DOMAIN g : taken[c] # g[c] /\ Mastery(c) < Mastery(d) =>
            Cardinality(taken[d]) <= Cardinality(taken[c])
  BY <1>3, <1>7, RoundTakes
<1>9. PICK r : r = p \o Ascending(T)
  OBVIOUS
<1>10. /\ r \in Seq(Bank) /\ IsInjective(r) /\ ToSet(r) = ToSet(p) \cup T
       /\ Len(r) = Len(p) + Cardinality(T)
  <2>1. T \in SUBSET Bank /\ ToSet(p) \cap T = {}
    BY <1>8
  <2>2. /\ Ascending(T) \in Seq(Bank) /\ IsInjective(Ascending(T)) /\ ToSet(Ascending(T)) = T
        /\ Len(Ascending(T)) = Cardinality(T)
    BY <1>3, <2>1, AscendingBank
  <2>3. ToSet(p) \cap ToSet(Ascending(T)) = {}
    BY <2>1, <2>2
  <2>4. p \in Seq(Bank) /\ IsInjective(p)
    BY <1>4, <1>5
  <2>5. /\ p \o Ascending(T) \in Seq(Bank) /\ IsInjective(p \o Ascending(T))
        /\ ToSet(p \o Ascending(T)) = ToSet(p) \cup ToSet(Ascending(T))
        /\ Len(p \o Ascending(T)) = Len(p) + Len(Ascending(T))
    BY ONLY <2>2, <2>3, <2>4, ConcatOK
  <2> QED
    BY <1>9, <2>2, <2>5
<1>11. paper' = <<r>> /\ Len(paper') = 1 /\ paper'[1] = r /\ paper' # <<>> /\ paper' \in Seq(Seq(Bank))
  BY <1>2, <1>9, <1>10
<1>12. Len(r) <= PaperSize
  <2>1. Cardinality(T) \in Nat
    BY <1>8, FS_CardinalityType
  <2> QED
    BY <1>1, <1>5, <1>8, <1>10, <2>1
<1>13. /\ DOMAIN g = {Owner(q) : q \in Bank \ ToSet(p)}
       /\ \A c \in DOMAIN g : g[c] = {q \in Bank \ ToSet(p) : Owner(q) = c}
       /\ \A c \in DOMAIN g : \A d \in Nat : Mastery(c) < Mastery(d) => PlacesOf(d) <= PlacesOf(c)
       /\ PaperSize < Cardinality(Bank)
  BY <1>1, <1>4, <1>6 DEF StageShared
<1>14. /\ DOMAIN groups' = {d \in DOMAIN g : taken[d] # g[d]}
       /\ \A c \in DOMAIN groups' : c \in DOMAIN g /\ taken[c] # g[c] /\ groups'[c] = g[c] \ taken[c]
  BY <1>2, <1>6
<1>15. DOMAIN groups' = {Owner(q) : q \in Bank \ ToSet(r)}
  <2>1. ASSUME NEW c \in DOMAIN groups' PROVE \E q \in Bank \ ToSet(r) : Owner(q) = c
    <3>1. c \in DOMAIN g /\ taken[c] # g[c] /\ taken[c] \subseteq g[c]
      BY <1>8, <1>13, <1>14
    <3>2. PICK q \in g[c] : q \notin taken[c]
      BY <3>1
    <3> QED
      BY <1>8, <1>10, <1>13, <3>1, <3>2
  <2>2. ASSUME NEW q \in Bank \ ToSet(r) PROVE Owner(q) \in DOMAIN groups'
    <3>1. Owner(q) \in DOMAIN g /\ q \in g[Owner(q)] /\ q \notin taken[Owner(q)]
      BY <1>8, <1>10, <1>13
    <3> QED
      BY <1>14, <3>1
  <2> QED
    BY <2>1, <2>2
<1>16. \A c \in DOMAIN groups' : groups'[c] = {q \in Bank \ ToSet(r) : Owner(q) = c} /\ groups'[c] # {}
  <2> SUFFICES ASSUME NEW c \in DOMAIN groups'
               PROVE  groups'[c] = {q \in Bank \ ToSet(r) : Owner(q) = c} /\ groups'[c] # {}
    OBVIOUS
  <2>1. c \in DOMAIN g /\ groups'[c] = g[c] \ taken[c]
    BY <1>14
  <2>2. groups'[c] = {q \in Bank \ ToSet(r) : Owner(q) = c}
    BY <1>8, <1>10, <1>13, <2>1
  <2>3. \E q \in Bank \ ToSet(r) : Owner(q) = c
    BY <1>15
  <2> QED
    BY <2>2, <2>3
<1> DEFINE Had(c) == {q \in ToSet(p) : Owner(q) = c}
<1> DEFINE Has(c) == {q \in ToSet(r) : Owner(q) = c}
<1>17. \A c : PlacesOf(c) = Cardinality(Had(c))
  BY <1>1 DEF PlacesOf
<1>18. \A c : IsFiniteSet(Had(c)) /\ Cardinality(Had(c)) \in Nat
  <2>1. ToSet(p) \subseteq Bank
    BY <1>5 DEF ToSet
  <2>2. \A c : Had(c) \in SUBSET Bank
    BY <2>1
  <2> HIDE DEF Had
  <2> QED
    BY <1>3, <2>2, PlanOK, FS_Subset, FS_CardinalityType
<1>19. \A c : /\ c \in DOMAIN g => Cardinality(Has(c)) = Cardinality(Had(c)) + Cardinality(taken[c])
              /\ c \notin DOMAIN g => Cardinality(Has(c)) = Cardinality(Had(c))
  <2> SUFFICES ASSUME NEW c
               PROVE  /\ c \in DOMAIN g => Cardinality(Has(c)) = Cardinality(Had(c)) + Cardinality(taken[c])
                      /\ c \notin DOMAIN g => Cardinality(Has(c)) = Cardinality(Had(c))
    OBVIOUS
  <2>1. CASE c \in DOMAIN g
    <3>1. Has(c) = Had(c) \cup taken[c] /\ Had(c) \cap taken[c] = {}
      BY <1>8, <1>10, <2>1
    <3> HIDE DEF Has, Had
    <3> QED
      BY <1>8, <1>18, <2>1, <3>1, DisjointUnion
  <2>2. CASE c \notin DOMAIN g
    <3>1. Has(c) = Had(c)
      BY <1>8, <1>10, <1>13, <2>2
    <3> HIDE DEF Has, Had
    <3> QED
      BY <2>2, <3>1
  <2> QED
    BY <2>1, <2>2
<1>20. \A c : PlacesOf(c)' = Cardinality(Has(c))
  BY <1>2, <1>11, SameOwner DEF PlacesOf
<1> HIDE DEF Has, Had
<1>21. ASSUME NEW c \in DOMAIN groups', NEW d \in Nat, Mastery(c) < Mastery(d)
       PROVE  Cardinality(Has(d)) <= Cardinality(Has(c))
  <2>1. c \in DOMAIN g /\ taken[c] # g[c] /\ Cardinality(taken[c]) \in Nat
    BY <1>8, <1>14
  <2>2. Cardinality(Had(d)) <= Cardinality(Had(c))
    BY <1>13, <1>17, <1>21, <2>1
  <2>3. Cardinality(Had(c)) \in Nat /\ Cardinality(Had(d)) \in Nat
    BY <1>18
  <2>4. Cardinality(Has(c)) = Cardinality(Had(c)) + Cardinality(taken[c])
    BY <1>19, <2>1
  <2>5. CASE d \in DOMAIN g
    <3>1. Cardinality(taken[d]) <= Cardinality(taken[c]) /\ Cardinality(taken[d]) \in Nat
      BY <1>8, <1>21, <2>1, <2>5
    <3>2. Cardinality(Has(d)) = Cardinality(Had(d)) + Cardinality(taken[d])
      BY <1>19, <2>5
    <3> QED
      BY <2>1, <2>2, <2>3, <2>4, <3>1, <3>2
  <2>6. CASE d \notin DOMAIN g
    <3>1. Cardinality(Has(d)) = Cardinality(Had(d))
      BY <1>19, <2>6
    <3> QED
      BY <2>1, <2>2, <2>3, <2>4, <3>1
  <2> QED
    BY <2>5, <2>6
<1>22. StageShared'
  <2>1. DOMAIN groups' = {Owner(q) : q \in Bank \ ToSet(paper[1])}'
    BY <1>2, <1>3, <1>11, <1>15, SameOwner
  <2>2. ASSUME NEW c \in DOMAIN groups'
        PROVE  groups'[c] = {q \in Bank \ ToSet(paper[1]) : Owner(q) = c}'
    <3>1. \A q : Owner(q)' = Owner(q)
      BY <1>2, SameOwner
    <3>2. (Bank \ ToSet(paper[1]))' = Bank \ ToSet(r)
      BY <1>3, <1>11
    <3>3. {q \in Bank \ ToSet(paper[1]) : Owner(q) = c}' = {q \in Bank \ ToSet(r) : Owner(q) = c}
      BY ONLY <3>1, <3>2
    <3> QED
      BY <1>16, <3>3
  <2>3. \A c \in DOMAIN groups' : \A d \in Nat : (Mastery(c) < Mastery(d) => PlacesOf(d) <= PlacesOf(c))'
    BY <1>2, <1>20, <1>21, SameOwner
  <2>4. outcome' # "frozen"
    BY <1>2
  <2> QED
    BY <1>3, <1>11, <1>12, <1>13, <2>1, <2>2, <2>3, <2>4 DEF StageShared
<1>23. StageOK'
  BY <1>10, <1>11, <1>22 DEF StageOK
<1>24. \A c \in DOMAIN groups' : groups'[c] # {} /\ groups'[c] \subseteq Bank
  BY <1>16
<1> QED
  BY <1>2, <1>3, <1>11, <1>23, <1>24 DEF PaperInv

LEMMA FreezeStageOK == ASSUME PaperInv, FreezeStage PROVE PaperInv'
<1>1. /\ plan' = plan /\ groups' = groups /\ search' = search /\ outcome' = "frozen" /\ outcome = "building"
      /\ paper' = paper /\ Bank' = Bank /\ plan.mode = "stage_assessment" /\ paper # <<>> /\ StageOK
      /\ groups = <<>> \/ Len(paper[1]) >= PaperSize
  BY SameBank DEF FreezeStage, PaperInv
<1>2. StageShared /\ Len(paper) = 1 /\ IsInjective(paper[1])
  BY <1>1 DEF StageOK, StageShort
<1>3. StageOK'
  BY <1>1, <1>2, ShareKept DEF StageOK
<1> QED
  BY <1>1, <1>3 DEF PaperInv

-----------------------------------------------------------------------------
(* The theorems. *)

LEMMA PaperInitOK == PaperInit => PaperInv
<1> SUFFICES ASSUME PaperInit PROVE PaperInv
  OBVIOUS
<1>1. /\ plan \in Plans /\ paper = <<>> /\ groups = <<>> /\ search = <<>> /\ outcome = "building"
      /\ DOMAIN paper = {} /\ Len(paper) = 0 /\ DOMAIN groups = {} /\ paper \in Seq(Seq(Bank))
  BY DEF PaperInit
<1>2. plan.mode = "blueprint" => BlueprintOK
  BY <1>1, PlanOK DEF BlueprintOK
<1>3. StageOK
  BY <1>1 DEF StageOK
<1> QED
  BY <1>1, <1>2, <1>3 DEF PaperInv

LEMMA PaperStutter == ASSUME PaperInv, UNCHANGED paperVars PROVE PaperInv'
<1>1. /\ plan' = plan /\ paper' = paper /\ groups' = groups /\ search' = search /\ outcome' = outcome
      /\ Bank' = Bank
  BY SameBank DEF paperVars
<1>2. Searches => Searches'
  <2>1. Section' = Section /\ OpenTo(Section)' = OpenTo(Section)
    BY <1>1 DEF Section, OpenTo, Chosen
  <2> QED
    BY <1>1, <2>1, SameSearch DEF Searches
<1>3. BlueprintOK => BlueprintOK'
  BY <1>1, <1>2, BuiltKept DEF BlueprintOK
<1>4. StageShared => StageShared'
  <2>1. StageShared => (outcome' = "frozen" => groups = <<>> \/ Len(paper[1]) >= PaperSize)
    BY <1>1 DEF StageShared
  <2> QED
    BY <1>1, <2>1, ShareKept
<1>5. StageOK => StageOK'
  BY <1>1, <1>4 DEF StageOK, StageShort
<1> QED
  BY <1>1, <1>3, <1>5 DEF PaperInv

LEMMA PaperNextOK == PaperInv /\ [PaperNext]_paperVars => PaperInv'
<1> SUFFICES ASSUME PaperInv, [PaperNext]_paperVars PROVE PaperInv'
  OBVIOUS
<1>1. CASE PaperNext
  BY <1>1, BuildSectionOK, TakeOK, LeaveOutOK, ReturnOK, RefuseSectionOK, FillSectionOK, FreezePaperOK,
     EmptyBankOK, SelectDiagnosticOK, SelectPracticeOK, SelectCorrectionOK,
     StartStageOK, StageRoundOK, FreezeStageOK DEF PaperNext
<1>2. CASE UNCHANGED paperVars
  BY <1>2, PaperStutter
<1> QED
  BY <1>1, <1>2

LEMMA PaperInvHolds == PaperSpec => []PaperInv
BY PaperInitOK, PaperNextOK, PTL DEF PaperSpec

LEMMA InvIsExact == PaperInv => SectionExact
<1> SUFFICES ASSUME PaperInv, plan.mode = "blueprint"
             PROVE  /\ \A n \in DOMAIN paper :
                           /\ Cardinality(ToSet(paper[n])) = Len(paper[n])
                           /\ Meets(plan.sections[n], ToSet(paper[n]), FreeFor(n))
                    /\ outcome = "refused" =>
                           \A S : ~Meets(plan.sections[Len(paper) + 1], S, FreeFor(Len(paper) + 1))
  BY DEF SectionExact
<1>1. BlueprintOK
  BY DEF PaperInv
<1>2. \A n \in DOMAIN paper : SectionBuilt(n)
  BY <1>1 DEF BlueprintOK
<1>3. ASSUME outcome = "refused", NEW S PROVE ~Meets(plan.sections[Len(paper) + 1], S, FreeFor(Len(paper) + 1))
  <2>1. NoneMeets /\ Len(paper) < Len(plan.sections)
    BY <1>1, <1>3 DEF BlueprintOK
  <2>2. FreeFor(Len(paper) + 1) = OpenTo(Section)
    BY <2>1, SectionAt DEF PaperInv
  <2> QED
    BY <2>1, <2>2 DEF NoneMeets, Section
<1> QED
  BY <1>2, <1>3 DEF SectionBuilt

LEMMA InvIsFair == PaperInv => StagePaperFair
<1> SUFFICES ASSUME PaperInv, outcome = "frozen", plan.mode = "stage_assessment"
             PROVE  /\ Len(paper[1]) = Min({PaperSize, Cardinality(Bank)})
                    /\ Cardinality(ToSet(paper[1])) = Len(paper[1])
                    /\ \A c, d \in {Owner(q) : q \in Bank} :
                          Mastery(c) < Mastery(d) /\ HasMore(c) => PlacesOf(c) >= PlacesOf(d)
  BY DEF StagePaperFair
<1>1. StageOK /\ plan \in Plans /\ paper \in Seq(Seq(Bank)) /\ StagePlan
  BY DEF PaperInv, StagePlan
<1>2. paper # <<>> /\ Len(paper) = 1 /\ IsInjective(paper[1]) /\ (StageShort \/ StageShared)
  BY <1>1 DEF StageOK
<1>3. PICK p : p = paper[1] /\ p \in Seq(Bank) /\ IsInjective(p)
  BY <1>1, <1>2
<1>4. IsFiniteSet(Bank) /\ Cardinality(Bank) \in Nat /\ PaperSize \in Nat /\ ToSet(p) \subseteq Bank
      /\ Len(p) \in Nat
  BY <1>1, <1>3, PlanOK, FS_CardinalityType, PaperSizeAssumption DEF ToSet
<1>5. Cardinality(ToSet(p)) = Len(p)
  <2>1. p \in Surjection(1..Len(p), ToSet(p)) /\ p \in Injection(1..Len(p), ToSet(p))
    BY <1>3, <1>4 DEF Surjection, Injection, ToSet
  <2>2. p \in Bijection(1..Len(p), ToSet(p))
    BY <2>1 DEF Bijection
  <2>3. Cardinality(ToSet(p)) = Cardinality(1..Len(p))
    BY <1>4, <2>2, Counted, FS_Bijection DEF ExistsBijection
  <2> QED
    BY <1>4, <2>3, Counted
<1>6. \A a, b \in Nat : Min({a, b}) = IF a <= b THEN a ELSE b
  <2> SUFFICES ASSUME NEW a \in Nat, NEW b \in Nat PROVE Min({a, b}) = IF a <= b THEN a ELSE b
    OBVIOUS
  <2>1. \E x \in {a, b} : \A y \in {a, b} : x <= y
    OBVIOUS
  <2>2. Min({a, b}) \in {a, b} /\ \A y \in {a, b} : Min({a, b}) <= y
    BY <2>1 DEF Min
  <2> QED
    BY <2>2
<1>7. CASE StageShort
  <2>1. ToSet(p) = Bank /\ Cardinality(Bank) <= PaperSize
    BY <1>3, <1>7 DEF StageShort
  <2>2. Len(p) = Min({PaperSize, Cardinality(Bank)})
    BY <1>4, <1>5, <1>6, <2>1
  <2>3. \A c : ~HasMore(c)
    BY <1>3, <2>1 DEF HasMore
  <2> QED
    BY <1>3, <1>5, <2>2, <2>3
<1>8. CASE StageShared
  <2>1. /\ PaperSize < Cardinality(Bank) /\ Len(p) <= PaperSize
        /\ DOMAIN groups = {Owner(q) : q \in Bank \ ToSet(p)}
        /\ \A c \in DOMAIN groups : \A d \in Nat : Mastery(c) < Mastery(d) => PlacesOf(d) <= PlacesOf(c)
        /\ groups = <<>> \/ Len(p) >= PaperSize
    BY <1>3, <1>8 DEF StageShared
  <2>2. Len(p) >= PaperSize
    <3>1. SUFFICES ASSUME groups = <<>> PROVE FALSE
      BY <2>1
    <3>2. Bank \ ToSet(p) = {}
      BY <2>1, <3>1
    <3>3. ToSet(p) = Bank
      BY <1>4, <3>2
    <3> QED
      BY <1>4, <1>5, <2>1, <3>3
  <2>3. Len(p) = Min({PaperSize, Cardinality(Bank)})
    BY <1>4, <1>6, <2>1, <2>2
  <2>4. ASSUME NEW c \in {Owner(q) : q \in Bank}, NEW d \in {Owner(q) : q \in Bank},
               Mastery(c) < Mastery(d), HasMore(c)
        PROVE  PlacesOf(c) >= PlacesOf(d)
    <3>1. c \in DOMAIN groups /\ d \in Nat
      BY <1>1, <1>3, <2>1, <2>4, OwnerOK DEF HasMore
    <3>2. PlacesOf(d) <= PlacesOf(c)
      BY <2>1, <2>4, <3>1
    <3>3. \A e : PlacesOf(e) \in Nat
      <4>1. \A e : {q \in ToSet(paper[1]) : Owner(q) = e} \in SUBSET Bank
        BY <1>3, <1>4
      <4> QED
        BY <1>4, <4>1, FS_Subset, FS_CardinalityType DEF PlacesOf
    <3> QED
      BY <3>2, <3>3
  <2> QED
    BY <1>3, <1>5, <2>3, <2>4
<1> QED
  BY <1>2, <1>7, <1>8

LEMMA InvIsTyped == PaperInv => PaperTypeOK
<1> SUFFICES ASSUME PaperInv PROVE PaperTypeOK
  OBVIOUS
<1>1. ASSUME search # <<>>
      PROVE  search.order \in Seq(Bank) /\ \A n \in 1..Depth :
               LET call == search.calls[n]
               IN  /\ call.at.next \in 1..Len(search.order) + 1 /\ call.at.slots \in 0..Section.count
                   /\ call.at.points \in Nat /\ call.at.taken \in Seq(Bank)
                   /\ \A c \in DOMAIN call.at.left : call.at.left[c] \in Nat
                   /\ call.skip \in BOOLEAN
  <2>1. Searching
    BY <1>1 DEF PaperInv, BlueprintOK, Searching
  <2>2. PICK section, open, s :
           section = Section /\ s = search /\ SearchOK(section, open, s) /\ SectionOK(section)
    BY <2>1, AtWork
  <2>3. OrderOK(section, s.order) /\ CallsOK(section, s.order, s.calls)
    BY <2>2 DEF SearchOK
  <2>4. ASSUME NEW n \in 1..Len(s.calls), NEW call, call = s.calls[n]
        PROVE  /\ call.at.next \in 1..(Len(s.order) + 1) /\ call.at.slots \in 0..section.count
               /\ call.at.points \in Nat /\ call.at.taken \in Seq(Bank)
               /\ \A c \in DOMAIN call.at.left : call.at.left[c] \in Nat
               /\ call.skip \in BOOLEAN
    <3>1. call \in CallRow(section) /\ Progress(section, s.order, call.at)
      BY <2>3, <2>4 DEF CallsOK, CallOK
    <3>2. call.at \in Position(section) /\ call.skip \in BOOLEAN
      BY <3>1 DEF CallRow
    <3>3. /\ call.at.slots \in Nat /\ call.at.points \in Nat /\ call.at.taken \in Seq(Bank)
          /\ call.at.left \in [DOMAIN section.weights -> Nat] /\ section.count \in Nat
      BY <2>2, <3>2, SectionTypes DEF Position
    <3>4. /\ call.at.next \in 1..(Len(s.order) + 1)
          /\ Len(call.at.taken) = section.count - call.at.slots /\ Len(call.at.taken) \in Nat
      BY <3>1, <3>3 DEF Progress
    <3>5. call.at.slots \in 0..section.count
      BY <3>3, <3>4
    <3> QED
      BY <3>2, <3>3, <3>4, <3>5
  <2>5. s.order \in Seq(Bank)
    BY <2>3 DEF OrderOK
  <2> QED
    BY <2>2, <2>4, <2>5 DEF Depth
<1> QED
  BY <1>1 DEF PaperInv, PaperTypeOK

(* A section that is built meets its blueprint without using a question     *)
(* twice, and one that is refused could not have been met by any choice of  *)
(* the questions left to it: remembering failed positions loses nothing.    *)
THEOREM SearchIsExact == PaperSpec => []SectionExact
BY PaperInvHolds, InvIsExact, PTL

(* A stage paper fills its places with different questions, and a weaker    *)
(* concept that had more to offer got no fewer places than a stronger one.  *)
THEOREM StagePapersFair == PaperSpec => []StagePaperFair
BY PaperInvHolds, InvIsFair, PTL

(* The request, the paper and the search keep their shapes.                 *)
THEOREM PaperTyping == PaperSpec => []PaperTypeOK
BY PaperInvHolds, InvIsTyped, PTL

-----------------------------------------------------------------------------
(* The three parts side by side: the one at work keeps its invariant, and the  *)
(* others play no part in it.                                                  *)
RecordsInv ==
    /\ part = "runs" => StoreInv
    /\ part = "profile" => Inv
    /\ part = "paper" => PaperInv

LEMMA RecordsInitOK == RecordsInit => RecordsInv
<1> SUFFICES ASSUME RecordsInit PROVE RecordsInv
  OBVIOUS
<1>1. Init /\ ProfileInit /\ PaperInit
  BY DEF RecordsInit
<1>2. StoreInv /\ Inv /\ PaperInv
  BY <1>1, StoreInit, InitOK, PaperInitOK
<1> QED
  BY <1>2 DEF RecordsInv

LEMMA RecordsNextOK ==
  ASSUME RecordsInv, [RecordsNext]_<<part, vars, profileVars, paperVars>>
  PROVE  RecordsInv'
<1>1. /\ part' = part
      /\ \/ part = "runs" /\ Next
         \/ part = "profile" /\ ProfileNext
         \/ part = "paper" /\ PaperNext
         \/ vars' = vars /\ profileVars' = profileVars /\ paperVars' = paperVars
  BY DEF RecordsNext
<1>2. CASE part = "runs" /\ Next
  <2>1. StoreInv'
    BY <1>2, StoreStep DEF RecordsInv
  <2> QED
    BY <1>1, <1>2, <2>1 DEF RecordsInv
<1>3. CASE part = "profile" /\ ProfileNext
  <2>1. Inv'
    BY <1>3, NextOK DEF RecordsInv
  <2> QED
    BY <1>1, <1>3, <2>1 DEF RecordsInv
<1>4. CASE part = "paper" /\ PaperNext
  <2>1. PaperInv'
    BY <1>4, PaperNextOK DEF RecordsInv
  <2> QED
    BY <1>1, <1>4, <2>1 DEF RecordsInv
<1>5. CASE vars' = vars /\ profileVars' = profileVars /\ paperVars' = paperVars
  <2>1. part = "runs" => StoreInv'
    BY <1>5, StoreStep DEF RecordsInv
  <2>2. part = "profile" => Inv'
    BY <1>5, NextOK DEF RecordsInv
  <2>3. part = "paper" => PaperInv'
    BY <1>5, PaperNextOK DEF RecordsInv
  <2> QED
    BY <1>1, <2>1, <2>2, <2>3 DEF RecordsInv
<1> QED
  BY <1>1, <1>2, <1>3, <1>4, <1>5

(* Whichever of the three is at work, assessment runs, learning profile or the *)
(* choice of a paper's questions, its variables keep their types.              *)
THEOREM RecordsTyping == RecordsSpec => []RecordsTypeOK
<1>1. RecordsInv => RecordsTypeOK
  BY InvIsTyped DEF RecordsInv, RecordsTypeOK, StoreInv, Inv
<1> QED
  BY <1>1, RecordsInitOK, RecordsNextOK, PTL DEF RecordsSpec
=============================================================================
