----------------------------- MODULE ScoreHistory -----------------------------
(***************************************************************************)
(* The scoring bundles of one attempt and the operations M8 offers on them *)
(* (contracts/assessment.py, modules/m8_assessment_scoring and the M8      *)
(* repository).  There is no state here.                                   *)
(*                                                                         *)
(* A bundle is the audit history it carries and the time it was finalised; *)
(* an audit record is its review status and the identity that produced it  *)
(* (two records of one origin have the same scores).  A store is the       *)
(* sequence of an attempt's bundles in insertion (rowid) order, and a      *)
(* bundle's position stands for its content checksum.                      *)
(***************************************************************************)
EXTENDS Naturals, Sequences
LOCAL Ext == INSTANCE SequencesExt

CONSTANT Audits   \* the score audits (items) of the attempt

NoBundle == 0

Latest(b, a) == Ext!Last(b.hist[a])

Version(b, a) == Len(b.hist[a])

Keys(b) == UNION {{a} \X (1 .. Version(b, a)) : a \in Audits}

Rejected(b) == \E a \in Audits : Latest(b, a).status = "rejected"

(* requires_teacher_review() or has_rejected_score(). *)
Undecided(b) == \E a \in Audits : Latest(b, a).status # "approved"

WaitingFor(b) == IF Rejected(b) THEN "awaiting_rescore" ELSE "awaiting_review"

(* replace_audit_record: the next version of one audit, the others kept. *)
Appended(b, a, status, by, at) ==
  [hist |-> [b.hist EXCEPT ![a] = Append(@, [status |-> status, by |-> by])], at |-> at]

(* insert_or_get matches bundles by the latest version of every audit. *)
SameKey(bs, b) ==
  {i \in DOMAIN bs : \A a \in Audits : Version(bs[i], a) = Version(b, a)}

(* same_scoring_result ignores the times. *)
SameResult(old, new) == old.hist = new.hist

(* get_scoring_result and current_row: the latest finalized_at, then rowid. *)
Winner(bs) ==
  CHOOSE i \in DOMAIN bs : \A j \in DOMAIN bs :
    bs[j].at < bs[i].at \/ (bs[j].at = bs[i].at /\ j <= i)

(* get_scoring_result_for_audit: the first bundle that has a version. *)
FirstWith(bs, a, v) ==
  LET having == {i \in DOMAIN bs : Version(bs[i], a) >= v}
  IN  IF having = {} THEN NoBundle
      ELSE CHOOSE i \in having : \A j \in having :
             bs[i].at < bs[j].at \/ (bs[i].at = bs[j].at /\ i <= j)

(* assert_review_transition: exactly one audit moves, by one version. *)
ReviewTransition(old, new, a, expected) ==
  /\ Version(old, a) = expected /\ Version(new, a) = expected + 1
  /\ \A x \in Audits : Ext!IsPrefix(old.hist[x], new.hist[x])
  /\ \A x \in Audits \ {a} : Version(old, x) = Version(new, x)

(* The base audit of the review is the newest in m8_score_audits. *)
BaseIsNewest(bs, new, a, expected) ==
  /\ \A i \in DOMAIN bs : Version(bs[i], a) <= expected
  /\ \E i \in DOMAIN bs : /\ Version(bs[i], a) = expected
                          /\ Latest(bs[i], a) = new.hist[a][expected]

(* _insert_or_validate_audit: a version of an audit has one content. *)
RecordsAgree(bs, new) ==
  \A i \in DOMAIN bs, a \in Audits :
    Ext!IsPrefix(bs[i].hist[a], new.hist[a]) \/ Ext!IsPrefix(new.hist[a], bs[i].hist[a])

(* Mutant: the writer only looks at the bundle it was given. *)
CanAppendUnchecked(bs, new, a, expected) == Version(new, a) = expected + 1

(* insert_or_get_reviewed_scoring_result may insert the bundle. *)
CanAppend(bs, new, a, expected) ==
  /\ SameKey(bs, new) = {}
  /\ BaseIsNewest(bs, new, a, expected)
  /\ ReviewTransition(bs[Winner(bs)], new, a, expected)
  /\ RecordsAgree(bs, new)

(* ... or it has been inserted before. *)
IsReplay(bs, new) == \E i \in SameKey(bs, new) : SameResult(bs[i], new)
=============================================================================
