------------------------------ MODULE Evaluation -----------------------------
(***************************************************************************)
(* One evaluation of an argument for a reader, and the validity of the     *)
(* argument itself (core/evaluation/argument-evaluation.ts, the evaluation *)
(* methods of core/argument-engine.ts, core/argument/claim-variables.ts),  *)
(* with what a granted step forces (core/evaluation/propagation.ts) and    *)
(* whether a set of premises can hold together                             *)
(* (core/evaluation/satisfiability.ts).                                    *)
(*                                                                         *)
(* The reader answers some claims and grants or refuses some steps.  The   *)
(* accepted operators are then visited in sweeps, in any order, until a    *)
(* whole sweep changes nothing, and the facts are reported.                *)
(*                                                                         *)
(* A closure s is a record: vars, the value of every variable; steps, for  *)
(* every <<variable, operator, component>> some accepted operator forced,  *)
(* the variables the step read.                                            *)
(***************************************************************************)
EXTENDS Relationships

CONSTANTS
    Arguments,      \* the arguments a reader may be given
    Decidable(_),   \* the operators of an argument the reader may decide
    Ceiling,        \* SATISFIABILITY_VARIABLE_CEILING
    MaxRows         \* bound: maxAssignmentsChecked of a validity check

\* What the value of e is computed from: its children, or the premise the
\* variable of a leaf stands for.
readsFrom(a, e) ==
    Range(kids(a, e)) \cup
        (IF kindOf(a, e) # "variable" THEN {}
         ELSE LET x == a.expr[e].variable
              IN  IF isInternal(a, x) /\ a.binding[x].premise \in premisesOf(a)
                  THEN {a.root[a.binding[x].premise]} ELSE {})

\* A loaded argument: its parts resolve, its variables and premises are in
\* order, and no expression rests on itself, through its children and the
\* premises its variables stand for; nor does a premise, through all that is in
\* it (the engine binds no variable that would close such a circle).
Loaded(a) ==
    /\ IsFiniteSet(DOMAIN a.binding) /\ IsFiniteSet(premisesOf(a))
    /\ \A x, y \in DOMAIN a.binding :
          a.rank[x] \in Nat /\ (a.rank[x] = a.rank[y] => x = y)
    /\ \A p, q \in premisesOf(a) :
          a.premiseRank[p] \in Nat /\ (a.premiseRank[p] = a.premiseRank[q] => p = q)
    /\ NoVariable \notin DOMAIN a.binding
    /\ None \notin DOMAIN a.expr
    /\ \A p \in premisesOf(a) :
          a.root[p] # None => a.root[p] \in expressionsIn(a, p)
    /\ \A e \in DOMAIN a.expr :
        /\ kindOf(a, e) \in OperatorKind \cup {"formula", "variable"}
        /\ kids(a, e) \in Seq(expressionsIn(a, a.expr[e].premise))
        /\ a.expr[e].premise \in premisesOf(a)
        /\ kindOf(a, e) = "variable" => a.expr[e].variable \in DOMAIN a.binding
    /\ \A below \in (SUBSET DOMAIN a.expr) \ {{}} :
          \E e \in below : readsFrom(a, e) \cap below = {}
    /\ \A circle \in (SUBSET premisesOf(a)) \ {{}} :
          \E p \in circle : \A x \in variablesOf(a, p) :
              isInternal(a, x) => a.binding[x].premise \notin circle

ASSUME EvaluationAssumption ==
    /\ MaxRows \in Nat /\ Ceiling \in Nat
    /\ \A a \in Arguments : Loaded(a) /\ Decidable(a) \subseteq operatorsOf(a)

VARIABLES
    argument,   \* the argument
    answers,    \* the caller's values: the keys it passes, Null for "not sure"
    decisions,  \* "accepted" or "rejected" for the operators decided
    phase,      \* "asked", "closing", "reported" or "refused"
    closure,    \* variable values and the steps that forced them
    toVisit,    \* accepted operators this sweep has not visited
    changed,    \* the sweep merged something new
    report      \* the facts reported

evars == <<argument, answers, decisions, phase, closure, toVisit, changed, report>>

leafVariable(a, e) ==
    IF kindOf(a, lookThrough(a, e)) = "variable"
    THEN a.expr[lookThrough(a, e)].variable ELSE NoVariable

valuedUnder(a, e, vars) == {x \in variablesUnder(a, e) : vars[x] # Null}

(***************************************************************************)
(* The components an accepted operator of this kind, with children of      *)
(* values vs, forces into child k.                                         *)
(***************************************************************************)
parityForced(others) ==
    IF \E v \in Range(others) : v = Null THEN Null
    ELSE IF \E v \in Range(others) : v = True \cup False THEN True \cup False
    ELSE IF Cardinality({k \in DOMAIN others : "t" \in others[k]}) % 2 = 0
    THEN True ELSE False

\* Faulty variant: the conditional carries both components forward.
forced_BothWays(kind, vs, k) ==
    LET others == [j \in DOMAIN vs \ {k} |-> vs[j]] IN
    CASE kind = "not" -> False
      [] kind = "and" -> True
      [] kind = "or" -> IF \A v \in Range(others) : "f" \in v THEN True ELSE Null
      [] kind = "xor" -> parityForced(others)
      [] kind \in Conditional -> IF Len(vs) < 2 THEN Null ELSE vs[3 - k]

forced(kind, vs, k) ==
    LET others == [j \in DOMAIN vs \ {k} |-> vs[j]] IN
    CASE kind = "not" -> IF k = 1 THEN False ELSE Null
      [] kind = "and" -> True
      [] kind = "or" -> IF \A v \in Range(others) : "f" \in v THEN True ELSE Null
      [] kind = "xor" -> parityForced(others)
      [] kind = "implies" /\ Len(vs) > 1 ->
            IF k = 2 THEN vs[1] \cap True
            ELSE IF k = 1 THEN vs[2] \cap False ELSE Null
      [] kind = "iff" /\ Len(vs) > 1 -> IF k \in {1, 2} THEN vs[3 - k] ELSE Null
      [] OTHER -> Null

\* Merge what is forced into the leaf variable of child k of e; the record of
\* the step is written again each time its rule fires.
mergeIntoChild(a, s, e, k, value) ==
    LET x == leafVariable(a, kids(a, e)[k])
        fired == {<<x, e, c>> : c \in value}
        from == IF kindOf(a, e) \in {"not", "and"} THEN {}
                ELSE UNION {valuedUnder(a, kids(a, e)[j], s.vars) :
                                j \in DOMAIN kids(a, e) \ {k}}
    IN  IF x = NoVariable \/ value = Null THEN s
        ELSE [vars  |-> [s.vars EXCEPT ![x] = @ \cup value],
              steps |-> [key \in fired \cup DOMAIN s.steps |->
                            IF key \in fired THEN from ELSE s.steps[key]]]

childValues(a, e, vars) ==
    LET val == evaluateSubtree(a, vars)
    IN  [k \in DOMAIN kids(a, e) |-> val[kids(a, e)[k]]]

\* A conditional moves forward first; the others take their children in order.
visitOrder(a, e) ==
    IF kindOf(a, e) \in Conditional /\ Len(kids(a, e)) > 1 THEN <<2, 1>>
    ELSE [k \in 1 .. Len(kids(a, e)) |-> k]

\* What e, visited with closure start, moves into child k when the closure has
\* become s: xor and iff read the values again after each merge.
moveInto(a, start, s, e, k) ==
    LET reread == kindOf(a, e) \in {"xor", "iff"}
        vs == childValues(a, e, IF reread THEN s.vars ELSE start.vars)
    IN  mergeIntoChild(a, s, e, k, forced(kindOf(a, e), vs, k))

visit(a, s, e) ==
    LET order == visitOrder(a, e)
        moved[i \in 0 .. Len(order)] ==
            IF i = 0 THEN s ELSE moveInto(a, s, moved[i - 1], e, order[i])
    IN  moved[Len(order)]

noClosure(vars) == [vars |-> vars, steps |-> << >>]

\* Sweeps in expression order until one changes nothing: at most one sweep for
\* each component a variable can gain.
closeUnderAcceptedOperators(a, accepted, vars) ==
    LET order == SetToSortSeq(accepted, <)
        sweep[n \in Nat] ==
            IF n = 0 THEN noClosure(vars)
            ELSE LET s == sweep[n - 1]
                 IN  FoldLeft(LAMBDA acc, e : visit(a, acc, e), s, order)
    IN  sweep[2 * Cardinality(DOMAIN vars) + 1]

(***************************************************************************)
(* Where the value of a variable came from.                                *)
(***************************************************************************)
origin(s, seed, x) ==
    IF s.vars[x] = True \cup False THEN "contested"
    ELSE IF seed[x] # Null THEN "asserted"
    ELSE IF s.vars[x] # Null /\ \E key \in DOMAIN s.steps : key[1] = x THEN "derived"
    ELSE "unassigned"

(***************************************************************************)
(* Satisfiability of a set of premises.                                    *)
(***************************************************************************)
\* Faulty variant: only the variables a premise names.
collectReachable_NamedOnly(a, free) ==
    [p \in premisesOf(a) |-> variablesOf(a, p) \cap free]

\* The free variables each premise reaches, also through a bound premise.
collectReachable(a, free) ==
    LET boundFrom(p) == {a.binding[x].premise :
                            x \in {y \in variablesOf(a, p) \ free : isInternal(a, y)}}
        seen == {q \in premisesOf(a) : ~isNakedQ(a, q)}
        reach[p \in premisesOf(a)] ==
            (variablesOf(a, p) \cap free)
                \cup UNION {reach[q] : q \in boundFrom(p) \cap seen}
    IN  reach

\* Premises that share a variable, directly or through others; the premises
\* that reach none form one group.
partitionIntoGroups(premises, reach) ==
    LET sharing(group) == {p \in premises : \E q \in group :
                              reach[p] \cap reach[q] # {} \/ reach[p] = reach[q]}
        grown[n \in Nat] ==
            IF n = 0 THEN {{p} : p \in premises}
            ELSE {sharing(group) : group \in grown[n - 1]}
    IN  grown[Cardinality(premises)]

\* The first settled answer over the rows of one group's own columns.
walkGroup(a, group, columns, forcedTrue) ==
    LET row(chosen) ==
            [x \in DOMAIN a.binding |->
                IF x \in forcedTrue THEN True
                ELSE IF x \in columns THEN IF x \in chosen THEN True ELSE False
                ELSE Null]
        values(chosen) == {evaluatePremises(a, row(chosen))[a.root[p]] : p \in group}
        results == {values(chosen) : chosen \in SUBSET columns}
    IN  IF Cardinality(columns) > Ceiling THEN Null
        ELSE IF \E vs \in results : vs \subseteq {True} THEN True
        ELSE IF \E vs \in results : False \notin vs /\ Null \in vs THEN Null
        ELSE False

isPremiseSetSatisfiable(a, premises, freeVariables, forcedTrue) ==
    LET free == freeVariables \ forcedTrue
        reach == collectReachable(a, free)
        settled == {walkGroup(a, group, UNION {reach[p] : p \in group}, forcedTrue) :
                       group \in partitionIntoGroups(premises, reach)}
    IN  IF False \in settled THEN False
        ELSE IF Null \in settled THEN Null ELSE True

(***************************************************************************)
(* The argument as evaluation sees it.                                     *)
(***************************************************************************)
argumentVariables(a) == DOMAIN a.binding
claimBound(a) == {x \in argumentVariables(a) : a.binding[x].to = "claim"}
axiomatic(a) == {x \in claimBound(a) : a.binding[x].type = "axiomatic"}

\* Citations and axioms: seeded true by default, pinned true for validity.
grounded(a) == {x \in claimBound(a) : a.binding[x].type \in {"axiomatic", "citation"}}

visiblePremises(a) == {p \in premisesOf(a) : ~isNakedQ(a, p)}
hasConclusion(a) == a.conclusion \in visiblePremises(a)

listSupportingPremises(a) ==
    {p \in visiblePremises(a) : isInference(a, p) /\ p # a.conclusion}
constraintPremises(a) ==
    visiblePremises(a) \ (listSupportingPremises(a) \cup {a.conclusion})

validateEvaluability(a) ==
    /\ a.conclusion \in premisesOf(a)
    /\ \A p \in premisesOf(a) : validatePremiseEvaluability(a, p)

\* Truth-table columns: claims and anything of another argument.
referencedVariables(a) ==
    {x \in UNION {variablesOf(a, p) : p \in visiblePremises(a)} : ~isInternal(a, x)}

(***************************************************************************)
(* Striking and attribution.                                               *)
(***************************************************************************)
rejected(given) == {e \in DOMAIN given : given[e] = "rejected"}
accepted(given) == {e \in DOMAIN given : given[e] = "accepted"}

\* A rejection strikes the premise it is in; the conclusion and derivation
\* premises are exempt.
struckPremises(a, given) ==
    {p \in visiblePremises(a) \ ({a.conclusion} \cup a.derivations) :
        expressionsIn(a, p) \cap rejected(given) # {}}

conclusionInferenceRejected(a, given) ==
    lookThrough(a, a.root[a.conclusion]) \in rejected(given)

satisfiable(a, given) ==
    isPremiseSetSatisfiable(a,
        (listSupportingPremises(a) \cup constraintPremises(a)) \ struckPremises(a, given),
        referencedVariables(a), grounded(a))

\* Contradicting premises license nothing.
closureExclusions(a, given) ==
    IF satisfiable(a, given) = False THEN visiblePremises(a)
                                     ELSE struckPremises(a, given)

\* The accepted operators the closure visits.
granted(a, given) ==
    {e \in accepted(given) : a.expr[e].premise \in
        visiblePremises(a) \ closureExclusions(a, given)}

\* What the closure gives when the values of some variables are withheld.
withhold(a, given, seed, withheld) ==
    closeUnderAcceptedOperators(a, granted(a, given),
        [x \in DOMAIN seed |-> IF x \in withheld THEN Null ELSE seed[x]]).vars

conclusionAttribution(a, given, seed) ==
    LET own == (variablesOf(a, a.conclusion) \cap claimBound(a)) \ axiomatic(a)
        value == evaluatePremises(a, withhold(a, given, seed, own))
    IN  [assertedByReader |-> \E x \in own : seed[x] # Null,
         reachedWithoutAssertion |-> value[a.root[a.conclusion]] = True]

\* Could anything be derived?
canDerive(a, given) == satisfiable(a, given) # False /\ accepted(given) # {}

\* For each claim the reader answered: does it follow without the answer?  Asked
\* only where something could be derived, with the diagnostics a caller gets
\* unless it declines them.
claimAttribution(a, given, seed) ==
    [x \in {y \in referencedVariables(a) \cap claimBound(a) :
                canDerive(a, given) /\ seed[y] # Null /\ y \notin axiomatic(a)} |->
        withhold(a, given, seed, {x})[x] = seed[x]]

(***************************************************************************)
(* The facts.                                                              *)
(***************************************************************************)
conjunction(vs) == told(\A v \in vs : "t" \in v, \E v \in vs : "f" \in v)

aggregates(a, vars, struck) ==
    LET val == evaluatePremises(a, vars)
        rootValues(premises) == {val[a.root[p]] : p \in premises}
        authored == listSupportingPremises(a) \ a.derivations
        admissible == conjunction(rootValues(constraintPremises(a) \ struck))
        support == conjunction(rootValues(authored \ struck))
        concluded == val[a.root[a.conclusion]]
    IN  [isAdmissibleAssignment |-> admissible,
         survivingSupportingPremisesTrue |-> support,
         survivingSupport |-> Cardinality(authored \ struck),
         conclusionTrue |-> concluded,
         premisesHoldConclusionFalse |->
            IF authored # {} /\ authored \subseteq struck THEN Null
            ELSE belnapAnd(admissible, belnapAnd(support, belnapNot(concluded)))]

(***************************************************************************)
(* Validity: every row of the table, or the first maxRows of them.         *)
(***************************************************************************)
checkedVariables(a) == referencedVariables(a) \ grounded(a)

twoTo[n \in Nat] == IF n = 0 THEN 1 ELSE 2 * twoTo[n - 1]

rowOf(a, mask) ==
    LET columns == checkedVariables(a)
        place(x) == Cardinality({y \in columns : a.rank[y] < a.rank[x]})
        bit(k) == (mask \div twoTo[k]) % 2
    IN  [x \in argumentVariables(a) |->
            IF x \in grounded(a) THEN True
            ELSE IF x \notin columns THEN Null
            ELSE IF bit(place(x)) = 1 THEN True ELSE False]

refutes(a, vars) ==
    aggregates(a, vars, {}).premisesHoldConclusionFalse = True

\* Faulty variant: a walk cut short still answers.
checkArgumentValidity_CutShort(a, maxRows) ==
    LET total == twoTo[Cardinality(checkedVariables(a))]
        walked == IF maxRows < total THEN maxRows ELSE total
    IN  IF \E mask \in 0..(walked - 1) : refutes(a, rowOf(a, mask)) THEN "invalid"
        ELSE "valid"

checkArgumentValidity(a, maxRows) ==
    LET total == twoTo[Cardinality(checkedVariables(a))]
        walked == IF maxRows < total THEN maxRows ELSE total
    IN  IF \E mask \in 0..(walked - 1) : refutes(a, rowOf(a, mask)) THEN "invalid"
        ELSE IF walked = total THEN "valid" ELSE "undetermined"

(***************************************************************************)
(* The default answers of deriveDefaultAssignment.                         *)
(***************************************************************************)
supportsByTypeAlone(a, p) ==
    LET root == a.root[p]
        seed == [x \in argumentVariables(a) |-> IF x \in grounded(a) THEN True ELSE Null]
    IN  /\ root # None
        /\ kindOf(a, root) \in Conditional
        /\ Len(kids(a, root)) > 1
        /\ evaluateSubtree(a, seed)[kids(a, root)[1]] = True

deriveDefaultAssignment(a) ==
    [x \in argumentVariables(a) |->
        IF \/ x \in grounded(a)
           \/ /\ x \in claimBound(a)
              /\ \E p \in a.derivations :
                    /\ a.derives[p] = a.binding[x].claim
                    /\ supportsByTypeAlone(a, p)
        THEN True ELSE Null]

(***************************************************************************)
(* The evaluation.                                                         *)
(***************************************************************************)
noReport == [struck |-> {}]

EvaluationInit ==
    /\ argument \in Arguments
    /\ answers \in UNION {[keys -> {True, False, Null}] :
                             keys \in {{}, axiomatic(argument),
                                       argumentVariables(argument) \ axiomatic(argument)}}
    /\ decisions \in [Decidable(argument) -> {"accepted", "rejected", "none"}]
    /\ phase = "asked"
    /\ closure = noClosure([x \in argumentVariables(argument) |-> Null])
    /\ toVisit = {} /\ changed = FALSE
    /\ report = noReport

\* An axiom is forced true and may not be answered.
seedOf(a, given) ==
    [x \in argumentVariables(a) |->
        IF x \in axiomatic(a) THEN True
        ELSE IF x \in DOMAIN given THEN given[x] ELSE Null]

Begin(given) ==
    /\ phase = "asked"
    /\ answers' = given
    /\ IF \/ DOMAIN given \cap axiomatic(argument) # {}
          \/ argument.response
          \/ ~validateEvaluability(argument)
          \/ ~hasConclusion(argument)
       THEN /\ phase' = "refused"
            /\ UNCHANGED <<closure, toVisit>>
       ELSE /\ phase' = "closing"
            /\ closure' = noClosure(seedOf(argument, given))
            /\ toVisit' = granted(argument, decisions)
    /\ changed' = FALSE
    /\ UNCHANGED <<argument, decisions, report>>

evaluate == Begin(answers)

\* The defaults with the caller's answers over them, the axioms left to evaluate.
evaluateWithDefaults ==
    Begin([x \in DOMAIN answers \cup (argumentVariables(argument) \ axiomatic(argument)) |->
              IF x \in DOMAIN answers THEN answers[x]
              ELSE deriveDefaultAssignment(argument)[x]])

Visit(e) ==
    /\ phase = "closing" /\ e \in toVisit
    /\ closure' = visit(argument, closure, e)
    /\ changed' = (changed \/ closure'.vars # closure.vars)
    /\ toVisit' = toVisit \ {e}
    /\ UNCHANGED <<argument, answers, decisions, phase, report>>

SweepAgain ==
    /\ phase = "closing" /\ toVisit = {} /\ changed
    /\ toVisit' = granted(argument, decisions)
    /\ changed' = FALSE
    /\ UNCHANGED <<argument, answers, decisions, phase, closure, report>>

Report ==
    /\ phase = "closing" /\ toVisit = {} /\ ~changed
    /\ LET a == argument
           seed == seedOf(a, answers)
       IN  report' =
            [struck |-> struckPremises(a, decisions),
             satisfiable |-> satisfiable(a, decisions),
             facts |-> aggregates(a, closure.vars, struckPremises(a, decisions)),
             inferenceRejected |-> conclusionInferenceRejected(a, decisions),
             contested |-> {x \in argumentVariables(a) : origin(closure, seed, x) = "contested"},
             origins |-> [x \in referencedVariables(a) |-> origin(closure, seed, x)],
             conclusion |-> conclusionAttribution(a, decisions, seed),
             claims |-> claimAttribution(a, decisions, seed)]
    /\ phase' = "reported"
    /\ UNCHANGED <<argument, answers, decisions, closure, toVisit, changed>>

EvaluationNext ==
    \/ evaluate
    \/ evaluateWithDefaults
    \/ \E e \in toVisit : Visit(e)
    \/ SweepAgain
    \/ Report

EvaluationSpec == EvaluationInit /\ [][EvaluationNext]_evars /\ WF_evars(EvaluationNext)

(***************************************************************************)
(* Properties.                                                             *)
(***************************************************************************)
reported == phase = "reported"
seed == seedOf(argument, answers)

\* Unit propagation, stated without the rules: c is forced into child k when
\* some reading of the siblings makes the operator false with the child
\* reading the opposite, whatever the siblings left open turn out to be, and
\* can still make it true with the child reading c.
unitForced(kind, vs, k, c) ==
    \E read \in [DOMAIN vs -> {Null, True, False}] :
        /\ read[k] = belnapNot({c})
        /\ \A j \in DOMAIN vs \ {k} : read[j] \subseteq vs[j]
        /\ applyOperator(kind, read) = False
        /\ applyOperator(kind, [read EXCEPT ![k] = {c}]) # False

unitPropagation(a, ops, start) ==
    LET factsOf(vars) == UNION {{<<x, c>> : c \in vars[x]} : x \in DOMAIN start}
        valuesOf(facts) == [x \in DOMAIN start |-> {c \in {"t", "f"} : <<x, c>> \in facts}]
        forcedBy(e, vars) ==
            UNION {{<<leafVariable(a, kids(a, e)[k]), c>> :
                        c \in {d \in {"t", "f"} :
                            unitForced(kindOf(a, e), childValues(a, e, vars), k, d)}} :
                     k \in {j \in DOMAIN kids(a, e) :
                            leafVariable(a, kids(a, e)[j]) # NoVariable}}
        step[n \in Nat] ==
            IF n = 0 THEN factsOf(start)
            ELSE LET known == step[n - 1]
                 IN  UNION ({known} \cup {forcedBy(e, valuesOf(known)) : e \in ops})
    IN  valuesOf(step[2 * Cardinality(DOMAIN start)])

\* The closure ends, whatever order steps are visited in, with exactly what
\* unit propagation over the granted steps forces: no step moves more than its
\* connective licenses, none less, and none depends on which ran first.  Every
\* step on record forced a component its variable has.
ClosureIsUnitPropagation ==
    reported =>
        /\ closure.vars =
               unitPropagation(argument, granted(argument, decisions), seed)
        /\ \A key \in DOMAIN closure.steps :
               key[2] \in granted(argument, decisions) /\ key[3] \in closure.vars[key[1]]

\* One truth table over every variable at once.
flatWalk(a, premises) ==
    LET free == referencedVariables(a) \ grounded(a)
        rows == {[x \in argumentVariables(a) |->
                    IF x \in grounded(a) THEN True ELSE IF x \notin free THEN Null
                    ELSE IF x \in chosen THEN True ELSE False] : chosen \in SUBSET free}
        answer(row) == conjunction({evaluatePremises(a, row)[a.root[p]] : p \in premises})
        answered == {answer(row) : row \in rows}
    IN  IF True \in answered THEN True
        ELSE IF Null \in answered THEN Null ELSE False

\* Splitting the premises into groups answers as one flat walk would: only
\* premises that reach more variables than the ceiling are left undetermined.
SearchMatchesFlatWalk ==
    reported =>
        LET a == argument
            premises == (listSupportingPremises(a) \cup constraintPremises(a))
                            \ report.struck
            reach == collectReachable(a, referencedVariables(a) \ grounded(a))
        IN  \/ report.satisfiable = flatWalk(a, premises)
            \/ /\ report.satisfiable = Null
               /\ Cardinality(UNION {reach[p] : p \in premises}) > Ceiling

\* When the argument is reported valid, no reader who strikes nothing, does not
\* contradict a source and is left with nothing contested is told that the
\* premises hold and the conclusion fails, however partial the answers are.  (A
\* contested variable beside an unknown one can make all of it read clean.)
ValidIsNeverRefuted ==
    /\ reported
    /\ report.struck = {}
    /\ report.contested = {}
    /\ \A x \in grounded(argument) : "f" \notin closure.vars[x]
    /\ \E n \in 1..MaxRows : checkArgumentValidity(argument, n) = "valid"
    => report.facts.premisesHoldConclusionFalse # True

\* How the premises of the argument relate, asked before the reader answers
\* anything, is read off shortest ways (core/relationships.ts, breadth first).
RelationsFollowShortestWay ==
    phase = "asked" /\ DOMAIN answers = {} => FollowsShortestWay(argument)
=============================================================================
