--------------------------- MODULE PaperGeneration ---------------------------
(***************************************************************************)
(* How m8 chooses the questions of a paper.  A paper made from a blueprint *)
(* is built section by section by a backtracking search that remembers the *)
(* positions it has failed at; a paper made from the learning profile is   *)
(* selected by one of four modes, of which the stage assessment shares its *)
(* places among the concepts round by round.                               *)
(*                                                                         *)
(* Questions are numbered in the order of the bundle and concepts in the   *)
(* order of their identities.  Weights and points are integers, mastery is *)
(* counted in hundredths.  The order in which the code ranks               *)
(* interchangeable questions (a hash, the mastery, a misconception) is any *)
(* order that puts objective questions first.  The parameters of every     *)
(* question satisfy their own rules, so freezing a question never refuses  *)
(* the paper (paper_generator.py:603).                                     *)
(***************************************************************************)
EXTENDS Integers, Sequences, FiniteSets, FiniteSetsExt, SequencesExt

CONSTANTS
    Plans,      \* what is asked for: a mode, a bank and its parameters
    PaperSize   \* places of a diagnostic or stage paper, 20 in the code

ASSUME PaperSizeAssumption == PaperSize \in Nat \ {0}

\* validate_business_rules and ConceptMastery.__post_init__: what a blueprint and a
\* profile look like when a paper is asked for.
SectionValid(section, bank) ==
    /\ section.accepts \subseteq DOMAIN bank
    /\ section.anchors \in Seq(Nat) /\ IsInjective(section.anchors)
    /\ section.count \in Nat /\ section.score \in Nat
    /\ IsFiniteSet(DOMAIN section.weights) /\ DOMAIN section.weights \subseteq Nat
    /\ \A c \in DOMAIN section.weights : section.weights[c] \in Nat
    /\ section.weights # <<>> => \E c \in DOMAIN section.weights : section.weights[c] > 0

BankValid(bank) ==
    /\ IsFiniteSet(DOMAIN bank) /\ DOMAIN bank \subseteq Nat
    /\ \A q \in DOMAIN bank :
          bank[q].concepts # {} /\ bank[q].concepts \subseteq Nat /\ IsFiniteSet(bank[q].concepts)

MasteryValid(known) == known.attempted \in Nat /\ known.correct \in 0..known.attempted

ASSUME PlansAssumption ==
    \A p \in Plans :
        /\ BankValid(p.bank)
        /\ IF p.mode = "blueprint"
           THEN /\ \A q \in DOMAIN p.bank : p.bank[q].points \in Nat
                /\ p.sections \in Seq(ToSet(p.sections))
                /\ \A n \in DOMAIN p.sections : SectionValid(p.sections[n], p.bank)
           ELSE \A q \in DOMAIN p.bank : \A c \in p.bank[q].concepts : MasteryValid(p.mastery[c])

VARIABLES
    plan,     \* the request, never changed
    paper,    \* the questions chosen, one sequence per section
    groups,   \* stage assessment: the questions each concept still offers
    search,   \* the search for the section at work: order, failed positions, calls
    outcome   \* "building", "frozen" or "refused"

paperVars == <<plan, paper, groups, search, outcome>>

Bank        == DOMAIN plan.bank
TestsOf(q)  == plan.bank[q].concepts
PointsOf(q) == plan.bank[q].points
Chosen      == UNION {ToSet(paper[n]) : n \in DOMAIN paper}

PaperInit ==
    /\ plan \in Plans
    /\ paper = <<>>
    /\ groups = <<>>
    /\ search = <<>>
    /\ outcome = "building"

Freeze(questions) == /\ paper' = Append(paper, questions) /\ outcome' = "frozen"
                     /\ UNCHANGED <<plan, groups, search>>
Refuse            == outcome' = "refused" /\ UNCHANGED <<plan, paper, groups, search>>

-------------------------------------------------------------------------------
(* Shares by the largest remainder. *)

\* The sum of a function to the naturals: as many pairs as each argument is worth.
TotalOf(f) == Cardinality(UNION {{x} \X (1..f[x]) : x \in DOMAIN f})

\* The n places, shared by weight; what rounding down leaves goes to the largest
\* fractions, the smaller concept first among equals.
Shares(weight, n) ==
    LET total    == TotalOf(weight)
        floor    == [c \in DOMAIN weight |-> (n * weight[c]) \div total]
        fraction == [c \in DOMAIN weight |-> (n * weight[c]) % total]
        spare    == n - TotalOf(floor)
        ahead(c) == {d \in DOMAIN weight :
                        fraction[d] > fraction[c] \/ (fraction[d] = fraction[c] /\ d < c)}
    IN  [c \in DOMAIN weight |-> floor[c] + (IF Cardinality(ahead(c)) < spare THEN 1 ELSE 0)]

-------------------------------------------------------------------------------
(* Positions of the search for one section. *)

\* Where a call of the search stands: the next question, the places and points used
\* up, the places each weighted concept still has, and the questions taken.
Start(section) ==
    [next |-> 1, slots |-> section.count, points |-> 0,
     left |-> Shares(section.weights, section.count), taken |-> <<>>]

\* Mutant: what is left for the concepts is not part of the key.
KeyWithoutLeft(at) == <<at.next, at.slots, at.points>>
Key(at) == <<at.next, at.slots, at.points, at.left>>

Satisfied(section, at) ==
    at.points = section.score /\ \A c \in DOMAIN at.left : at.left[c] = 0

\* What a question can be counted for: a concept it tests that has places left, or
\* nothing in particular.
Options(section, q, left) ==
    IF section.weights = <<>> THEN {0}
    ELSE {c \in TestsOf(q) \intersect DOMAIN left : left[c] > 0}

With(at, q, c) ==
    [next |-> at.next + 1, slots |-> at.slots - 1, points |-> at.points + PointsOf(q),
     left |-> [d \in DOMAIN at.left |-> IF d = c THEN at.left[d] - 1 ELSE at.left[d]],
     taken |-> Append(at.taken, q)]

Without(at) == [at EXCEPT !.next = @ + 1]

\* A call that can only return: the position has failed before, all places are
\* taken, or there are too few questions or too many points.
DeadEnd(section, order, failed, at) ==
    \/ Key(at) \in failed
    \/ at.slots = 0
    \/ Len(order) - at.next + 1 < at.slots
    \/ at.points > section.score

\* A call: what it has still to try.  An anchor cannot be left out.
Call(section, order, failed, at) ==
    LET dead == DeadEnd(section, order, failed, at)
    IN  [at      |-> at,
         options |-> IF dead THEN {} ELSE Options(section, order[at.next], at.left),
         skip    |-> ~dead /\ at.next > Len(section.anchors)]

-------------------------------------------------------------------------------
(* A paper from a blueprint. *)

Section         == plan.sections[Len(paper) + 1]
OpenTo(section) == section.accepts \ Chosen

\* Anchors first; of the rest, objective questions before the others.
Orders(section) ==
    LET rest == OpenTo(section) \ ToSet(section.anchors)
    IN  {section.anchors \o order :
            order \in {o \in SetToSeqs(rest) : \A i, j \in DOMAIN o :
                          plan.bank[o[j]].objective /\ i < j => plan.bank[o[i]].objective}}

SearchUnchanged == UNCHANGED <<plan, paper, groups, outcome>>

\* _build_section, for the next section of the blueprint.
BuildSection ==
    LET open == OpenTo(Section)
    IN  /\ outcome = "building" /\ plan.mode = "blueprint" /\ search = <<>>
        /\ Len(paper) < Len(plan.sections)
        /\ IF \/ ~ ToSet(Section.anchors) \subseteq open
              \/ Len(Section.anchors) > Section.count
              \/ Section.weights = <<>> /\ Cardinality(open) < Section.count
           THEN Refuse
           ELSE /\ \E order \in Orders(Section) :
                      search' = [order |-> order, failed |-> {},
                                 calls |-> <<Call(Section, order, {}, Start(Section))>>]
                /\ SearchUnchanged

Searching == outcome = "building" /\ search # <<>>
Depth     == Len(search.calls)
Top       == search.calls[Depth]
NextQuestion == search.order[Top.at.next]

\* Success: the questions taken on the way make up the section.
Found(at) == at.slots = 0 /\ Satisfied(Section, at) /\ Key(at) \notin search.failed

\* The innermost call goes on as `rest` and calls the search for another position.
Enter(rest, at) ==
    search' = [search EXCEPT !.calls =
        Append([@ EXCEPT ![Depth] = rest], Call(Section, search.order, search.failed, at))]

\* The next question is taken for the concept that misses most, the smaller one first
\* among equals.
Take ==
    /\ Searching
    /\ \E c \in Top.options :
          /\ LET left == Top.at.left
             IN  \A d \in Top.options \ {c} : left[c] > left[d] \/ (left[c] = left[d] /\ c < d)
          /\ Enter([Top EXCEPT !.options = @ \ {c}], With(Top.at, NextQuestion, c))
    /\ SearchUnchanged

LeaveOut ==
    /\ Searching /\ Top.options = {} /\ Top.skip
    /\ Enter([Top EXCEPT !.skip = FALSE], Without(Top.at))
    /\ SearchUnchanged

\* Nothing is left to try: the position is remembered and the call returns.
GivesUp == Searching /\ Top.options = {} /\ ~Top.skip /\ ~Found(Top.at)

Return ==
    /\ GivesUp /\ Depth > 1
    /\ search' = [search EXCEPT !.failed = @ \union {Key(Top.at)}, !.calls = SubSeq(@, 1, Depth - 1)]
    /\ SearchUnchanged

\* The first call returns: no combination of questions makes up the section.
RefuseSection ==
    /\ GivesUp /\ Depth = 1
    /\ search' = <<>> /\ outcome' = "refused"
    /\ UNCHANGED <<plan, paper, groups>>

\* The checks of count and points behind the search repeat what it has found.
FillSection ==
    /\ Searching /\ Found(Top.at)
    /\ paper' = Append(paper, Top.at.taken)
    /\ search' = <<>>
    /\ UNCHANGED <<plan, groups, outcome>>

\* The sections' scores make up the blueprint's total (AssessmentBlueprint checks it when
\* the bundle is loaded), so the comparison with the total passes and the paper is frozen.
FreezePaper ==
    /\ outcome = "building" /\ plan.mode = "blueprint" /\ search = <<>>
    /\ Len(paper) = Len(plan.sections)
    /\ outcome' = "frozen"
    /\ UNCHANGED <<plan, paper, groups, search>>

-------------------------------------------------------------------------------
(* A paper from the learning profile. *)

Mastery(c) ==
    LET known == plan.mastery[c]
    IN  IF known.attempted = 0 THEN 0 ELSE Min({(100 * known.correct) \div known.attempted, 90})

\* The questions in the order of the bundle, and the first k of them.
Before(q, S)   == Cardinality({p \in S : p < q})
Ascending(S)   == [i \in 1..Cardinality(S) |-> CHOOSE q \in S : Before(q, S) = i - 1]
FirstOf(k, S)  == {q \in S : Before(q, S) < k}

Whatever(mode) == outcome = "building" /\ plan.mode = mode /\ paper = <<>> /\ Bank # {}

EmptyBank == /\ outcome = "building" /\ plan.mode # "blueprint" /\ Bank = {} /\ Refuse

SelectDiagnostic ==
    /\ Whatever("diagnostic")
    /\ IF Cardinality(Bank) <= PaperSize THEN Freeze(Ascending(Bank))
       ELSE \E S \in kSubset(PaperSize, Bank) : \E order \in SetToSeqs(S) : Freeze(order)

\* Every question of attempted concepts is drawn by lot; one without any mastery is sure.
SelectPractice ==
    LET known == {q \in Bank : \A c \in TestsOf(q) : plan.mastery[c].attempted > 0}
        sure  == {q \in known : \E c \in TestsOf(q) : Mastery(c) = 0}
    IN  /\ Whatever("practice")
        /\ \E lucky \in SUBSET (known \ sure) :
              IF lucky \union sure = {} THEN Refuse ELSE Freeze(Ascending(lucky \union sure))

SelectCorrection ==
    /\ Whatever("correction")
    /\ IF plan.wrong \intersect Bank = {} THEN Refuse ELSE Freeze(Ascending(plan.wrong \intersect Bank))

\* Every question belongs to the weakest of its concepts.
Weaker(a, b) == Mastery(a) < Mastery(b) \/ (Mastery(a) = Mastery(b) /\ a < b)
Owner(q) == CHOOSE c \in TestsOf(q) : \A d \in TestsOf(q) \ {c} : Weaker(c, d)

StartStage ==
    /\ Whatever("stage_assessment") /\ groups = <<>>
    /\ IF Cardinality(Bank) <= PaperSize THEN Freeze(Ascending(Bank))
       ELSE /\ groups' = [c \in {Owner(q) : q \in Bank} |-> {q \in Bank : Owner(q) = c}]
            /\ paper' = <<<<>>>>
            /\ UNCHANGED <<plan, search, outcome>>

\* Mutant: what is mastered weighs most.
WeightOfMastered(c) == Mastery(c) + 1
WeightOf(c) == 100 - Mastery(c)

\* One round: the places left are shared among the concepts that still have questions,
\* and each gives as many as it can.  The order within a round is left out, and so is
\* the branch for a round that gives nothing: the shares add up to the places left.
StageRound ==
    LET places == PaperSize - Len(paper[1])
        share  == Shares([c \in DOMAIN groups |-> WeightOf(c)], places)
        taken  == [c \in DOMAIN groups |-> FirstOf(share[c], groups[c])]
    IN  /\ outcome = "building" /\ groups # <<>> /\ places > 0
        /\ paper' = <<paper[1] \o Ascending(UNION {taken[c] : c \in DOMAIN groups})>>
        /\ groups' = [c \in {d \in DOMAIN groups : taken[d] # groups[d]} |-> groups[c] \ taken[c]]
        /\ UNCHANGED <<plan, search, outcome>>

FreezeStage ==
    /\ outcome = "building" /\ plan.mode = "stage_assessment" /\ paper # <<>>
    /\ groups = <<>> \/ Len(paper[1]) >= PaperSize
    /\ outcome' = "frozen"
    /\ UNCHANGED <<plan, paper, groups, search>>

PaperNext ==
    \/ BuildSection \/ Take \/ LeaveOut \/ Return \/ RefuseSection \/ FillSection \/ FreezePaper
    \/ EmptyBank \/ SelectDiagnostic \/ SelectPractice \/ SelectCorrection
    \/ StartStage \/ StageRound \/ FreezeStage

PaperSpec == PaperInit /\ [][PaperNext]_paperVars

-------------------------------------------------------------------------------
(* Properties. *)

\* Every variable keeps its shape.
PaperTypeOK ==
    /\ plan \in Plans
    /\ paper \in Seq(Seq(Bank))
    /\ \A c \in DOMAIN groups : groups[c] # {} /\ groups[c] \subseteq Bank
    /\ outcome \in {"building", "frozen", "refused"}
    /\ search # <<>> => search.order \in Seq(Bank) /\ \A n \in 1..Depth :
          LET call == search.calls[n]
          IN  /\ call.at.next \in 1..Len(search.order) + 1 /\ call.at.slots \in 0..Section.count
              /\ call.at.points \in Nat /\ call.at.taken \in Seq(Bank)
              /\ \A c \in DOMAIN call.at.left : call.at.left[c] \in Nat
              /\ call.skip \in BOOLEAN

\* A set of questions is what a section asks for: its anchors and further accepted
\* questions, as many as it has places, worth its score, each counted for one of its
\* concepts so that every weighted concept has the places due to it.
Meets(section, S, free) ==
    /\ S \subseteq free /\ ToSet(section.anchors) \subseteq S
    /\ Cardinality(S) = section.count
    /\ TotalOf([q \in S |-> PointsOf(q)]) = section.score
    /\ section.weights # <<>> =>
          LET due == Shares(section.weights, section.count)
          IN  \E counted \in [S -> DOMAIN section.weights] :
                 /\ \A q \in S : counted[q] \in TestsOf(q)
                 /\ \A c \in DOMAIN due : Cardinality({q \in S : counted[q] = c}) = due[c]

\* The questions that earlier sections have left to section n.
FreeFor(n) ==
    plan.sections[n].accepts \ UNION {ToSet(paper[m]) : m \in 1..n-1}

\* The search is exact: a section that was built meets its blueprint without using a
\* question twice, and one that was refused could not have been met by any choice.
SectionExact ==
    plan.mode = "blueprint" =>
        /\ \A n \in DOMAIN paper :
              /\ Cardinality(ToSet(paper[n])) = Len(paper[n])
              /\ Meets(plan.sections[n], ToSet(paper[n]), FreeFor(n))
        /\ outcome = "refused" =>
              LET n == Len(paper) + 1
              IN  \A S \in SUBSET FreeFor(n) : ~Meets(plan.sections[n], S, FreeFor(n))

\* Places of the stage paper that went to the questions of a concept, and whether it has more.
PlacesOf(c) == Cardinality({q \in ToSet(paper[1]) : Owner(q) = c})
HasMore(c)  == \E q \in Bank \ ToSet(paper[1]) : Owner(q) = c

\* A stage paper fills its places with different questions, and a weaker concept that
\* had more to offer got no fewer places than a stronger one, over all rounds.
StagePaperFair ==
    outcome = "frozen" /\ plan.mode = "stage_assessment" =>
        /\ Len(paper[1]) = Min({PaperSize, Cardinality(Bank)})
        /\ Cardinality(ToSet(paper[1])) = Len(paper[1])
        /\ \A c, d \in {Owner(q) : q \in Bank} :
              Mastery(c) < Mastery(d) /\ HasMore(c) => PlacesOf(c) >= PlacesOf(d)
=============================================================================
