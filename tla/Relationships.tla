----------------------------- MODULE Relationships ----------------------------
(***************************************************************************)
(* How each premise of an argument relates to one a reader focuses on      *)
(* (core/relationships.ts): a premise leads to another through a variable  *)
(* of its consequent that the other's antecedent reads.                    *)
(***************************************************************************)
EXTENDS FormulaTree, SequencesExt

(***************************************************************************)
(* Profiles: where a premise reads its variables, and under how many       *)
(* negations.                                                              *)
(***************************************************************************)
negatedIn(a, top, e) ==
    Cardinality({n \in subtree(a, top) : kindOf(a, n) = "not" /\ e \in subtree(a, n)}) % 2 = 1

collectVariableAppearances(a, top, side) ==
    {[variable |-> a.expr[e].variable, side |-> side, negated |-> negatedIn(a, top, e)] :
        e \in {x \in subtree(a, top) : kindOf(a, x) = "variable"}}

buildPremiseProfile(a, p) ==
    IF ~isInference(a, p) THEN {}
    ELSE LET sides == kids(a, a.root[p])
         IN  (IF Len(sides) > 0 THEN collectVariableAppearances(a, sides[1], "antecedent") ELSE {})
             \cup
             (IF Len(sides) > 1 THEN collectVariableAppearances(a, sides[2], "consequent") ELSE {})

onSide(profile, side) == {x.variable : x \in {y \in profile : y.side = side}}

(***************************************************************************)
(* The flow graph between inferences.                                      *)
(***************************************************************************)
\* The variables p hands to q, and whether each is read as it is concluded.
flow(a, p, q) ==
    {[variable |-> xy[1].variable, match |-> xy[1].negated = xy[2].negated] :
        xy \in {w \in buildPremiseProfile(a, p) \X buildPremiseProfile(a, q) :
                        /\ w[1].side = "consequent" /\ w[2].side = "antecedent"
                        /\ w[1].variable = w[2].variable}}

allMatch(variables) == \A v \in variables : v.match

\* The premises p leads to.
edges(a, p) == {q \in premisesOf(a) \ {p} : flow(a, p, q) # {}}

\* Premises in the order they are listed.
inOrder(a, premises) ==
    CHOOSE s \in SetToSeqs(premises) :
        \A j, k \in DOMAIN s : j < k => a.premiseRank[s[j]] < a.premiseRank[s[k]]

\* Faulty variant: two negations on the way do not cancel.
alongStep_BothMustMatch(match, step) == match /\ step

alongStep(match, step) == match = step

\* Breadth first from one premise; the entry variables are those of the first step.
bfsToTarget(a, from, to) ==
    LET arrive(at, q) ==
            [premise |-> q,
             match |-> IF at.premise = from THEN allMatch(flow(a, from, q))
                       ELSE alongStep(at.match, allMatch(flow(a, at.premise, q))),
             entry |-> IF at.premise = from THEN flow(a, from, q) ELSE at.entry]
        start == [queue |-> << [premise |-> from, match |-> TRUE, entry |-> {}] >>,
                  visited |-> {from}, found |-> << >>]
        follow(s, at) ==
            LET new == inOrder(a, edges(a, at.premise) \ s.visited)
            IN  IF to \in edges(a, at.premise) THEN [s EXCEPT !.found = << arrive(at, to) >>]
                ELSE [queue |-> Tail(s.queue) \o [k \in DOMAIN new |-> arrive(at, new[k])],
                      visited |-> s.visited \cup edges(a, at.premise), found |-> << >>]
        search[n \in 0..Cardinality(premisesOf(a))] ==
            IF n = 0 THEN start
            ELSE LET s == search[n - 1]
                 IN  IF s.queue = << >> \/ s.found # << >> THEN s ELSE follow(s, Head(s.queue))
    IN  search[Cardinality(premisesOf(a))].found

leadsTo(a, p, q) == bfsToTarget(a, p, q) # << >>
isTransitive(a, p, q) == leadsTo(a, p, q) /\ flow(a, p, q) = {}

\* Directly each variable speaks for itself; further on the whole way does.
variableDetails(a, p, q) ==
    IF ~leadsTo(a, p, q) THEN {}
    ELSE LET way == bfsToTarget(a, p, q)[1]
         IN  {IF (IF isTransitive(a, p, q) THEN way.match ELSE v.match)
              THEN "supporting" ELSE "contradicting" : v \in way.entry}

(***************************************************************************)
(* Classification.                                                         *)
(***************************************************************************)
\* A variable on both sides of p that the focused premise reads.
hasVariableOnBothSides(a, p, focus) ==
    onSide(buildPremiseProfile(a, p), "antecedent")
        \cap onSide(buildPremiseProfile(a, p), "consequent")
        \cap {x.variable : x \in buildPremiseProfile(a, focus)} # {}

\* Variables of the focused premise and of every premise on a way to or from it.
connectedVariables(a, focus) ==
    {x.variable : x \in buildPremiseProfile(a, focus)}
        \cup UNION {variablesOf(a, p) : p \in {q \in premisesOf(a) \ {focus} :
                        isInference(a, q) /\ (leadsTo(a, q, focus) \/ leadsTo(a, focus, q))}}

applyPrecedence(details) ==
    IF "contradicting" \in details THEN "contradicting"
    ELSE IF "restricting" \in details THEN "restricting" ELSE "supporting"

classify(a, focus, p) ==
    LET restricting == hasVariableOnBothSides(a, p, focus)
        sharing(xs) == IF variablesOf(a, p) \cap xs # {} THEN "restricting" ELSE "unrelated"
    IN  IF ~isInference(a, p) THEN sharing(connectedVariables(a, focus))
        ELSE IF ~isInference(a, focus) THEN sharing(variablesOf(a, focus))
        ELSE IF restricting \/ leadsTo(a, p, focus)
        THEN applyPrecedence(variableDetails(a, p, focus)
                             \cup (IF restricting THEN {"restricting"} ELSE {}))
        ELSE IF leadsTo(a, focus, p) THEN "downstream" ELSE "unrelated"

analyzePremiseRelationships(a, focus) ==
    [p \in premisesOf(a) \ {focus} |-> classify(a, focus, p)]

(***************************************************************************)
(* Correctness.                                                            *)
(***************************************************************************)
\* Every way of n steps from p to q.
waysOf(a, p, q, n) ==
    {w \in [0..n -> premisesOf(a)] :
        w[0] = p /\ w[n] = q /\ \A k \in 1..n : flow(a, w[k - 1], w[k]) # {}}

mismatches(a, w, n) == Cardinality({k \in 1..n : ~allMatch(flow(a, w[k - 1], w[k]))})

\* What one premise does to another is read off a shortest way between them:
\* there is an answer when there is a way, it is transitive when the shortest
\* takes more than one step, and then it contradicts when an odd number of the
\* steps pass a variable from one polarity to the other.
FollowsShortestWay(a) ==
    \A p \in premisesOf(a) : \A q \in premisesOf(a) \ {p} :
        LET lengths == {n \in 1..Cardinality(premisesOf(a)) : waysOf(a, p, q, n) # {}}
            shortest == CHOOSE n \in lengths : \A m \in lengths : n <= m
        IN  IF lengths = {} THEN ~leadsTo(a, p, q)
            ELSE /\ leadsTo(a, p, q)
                 /\ isTransitive(a, p, q) <=> shortest > 1
                 /\ isTransitive(a, p, q) =>
                        \E w \in waysOf(a, p, q, shortest) :
                            ("contradicting" \in variableDetails(a, p, q))
                                <=> (mismatches(a, w, shortest) % 2 = 1)
===============================================================================
