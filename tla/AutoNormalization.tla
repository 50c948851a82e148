-------------------------- MODULE AutoNormalization -------------------------
(***************************************************************************)
(* The assistive rules AN-1 to AN-4 and their driver (grammar/an-rules.ts, *)
(* bounded-subtree.ts), and the Presentable rules they serve               *)
(* (grammar/validators/presentable.ts).                                    *)
(*                                                                         *)
(* A rule rewrites the first match in the order of random ids, that is,    *)
(* any match, until none is left.  Rules work through the calls of the     *)
(* premise, so each rewriting has a set of results, empty when one of its  *)
(* calls throws.                                                           *)
(***************************************************************************)
EXTENDS ExpressionManager

MAX_AN_ITERATIONS == 10

\* A variadic connective at s or below it, with no formula in between.
hasBinaryOperatorInBoundedSubtree(t, s) ==
    \E j \in subtree(t, s) :
        /\ t[j].kind \in Variadic
        /\ \A a \in (selfAndAbove(t, j) \cap subtree(t, s)) \ {s} : t[a].kind # "formula"

(***************************************************************************)
(* Matches.                                                                *)
(***************************************************************************)
\* The not that n negates again, directly or through a formula.
innerNot(t, n) ==
    LET c == onlyChild(t, n)
        g == onlyChild(t, c)
    IN  IF kindOf(t, n) # "not" THEN None
        ELSE IF kindOf(t, c) = "not" THEN c
        ELSE IF kindOf(t, c) = "formula" /\ kindOf(t, g) = "not" THEN g
        ELSE None

doubleNegations(t) ==
    {n \in DOMAIN t : innerNot(t, n) # None /\ onlyChild(t, innerNot(t, n)) # None}

collapsible(t) ==
    {i \in DOMAIN t :
        /\ t[i].kind \in Container
        /\ \/ Children(t, i) = {}
           \/ onlyChild(t, i) # None /\ t[i].kind \in Operator \ {"not"}
           \/ /\ onlyChild(t, i) # None /\ t[i].kind = "formula"
              /\ ~hasBinaryOperatorInBoundedSubtree(t, onlyChild(t, i))}

\* The operator two above i, with a formula in between.
outerOf(t, i) ==
    IF kindOf(t, parentOf(t, i)) = "formula" THEN parentOf(t, parentOf(t, i)) ELSE None

absorbable(t) ==
    {i \in DOMAIN t : t[i].kind \in Variadic /\ kindOf(t, outerOf(t, i)) = t[i].kind}

unbuffered(t) ==
    {i \in DOMAIN t : /\ t[i].kind \in Operator \ {"not"}
                      /\ kindOf(t, parentOf(t, i)) \in Operator}

(***************************************************************************)
(* Rewritings.                                                             *)
(***************************************************************************)
collapseDoubleNegation(m, n) ==
    UNION {pe_removeExpression(x, n, FALSE) :
             x \in pe_removeExpression(m, innerNot(m.tree, n), FALSE)}

collapse(m, i) == pe_removeExpression(m, i, FALSE)

\* All children of p on even positions, by way of free scratch positions.
redistributeChildrenEvenly(m, p) ==
    LET ids     == getChildExpressions(m.tree, p)
        targets == redistributed(Len(ids))
        moving  == {k \in DOMAIN ids : m.tree[ids[k]].pos # targets[k]}
        held    == {m.tree[i].pos : i \in Children(m.tree, p)}
                     \cup {targets[k] : k \in DOMAIN ids}
        new     == [i \in Children(m.tree, p) |->
                      targets[CHOOSE k \in DOMAIN ids : ids[k] = i]]
        moved   == [m EXCEPT
            !.tree = [i \in DOMAIN @ |-> IF i \in DOMAIN new
                                         THEN [@[i] EXCEPT !.pos = new[i]] ELSE @[i]],
            !.slots[p] = (@ \ {m.tree[ids[k]].pos : k \in moving})
                            \cup {targets[k] : k \in moving}]
    IN  IF Cardinality((PosMin..PosMax) \ held) < Cardinality(moving) THEN {}
        ELSE {moved}

\* The kids of the absorbed operator take the positions qs under outer.
placeAbsorbed(m, kids, outer, qs) ==
    LET step[n \in 0..Len(kids)] ==
            IF n = 0 THEN {m}
            ELSE UNION {pe_reparentExpression(x, kids[n], outer, qs[n]) : x \in step[n - 1]}
    IN  step[Len(kids)]

\* The gap around the at-th of the positions ps.
gapAround(ps, at) == [lo |-> gapLeft(ps, at - 1), hi |-> gapRight(ps, at)]

absorbIntoGap(m, kids, f, outer, gap) ==
    UNION {placeAbsorbed(m, kids, outer, qs) :
              qs \in absorbedPositions(gap.lo, gap.hi, Len(kids), m.tree[f].pos)}

madeRoomy(m, n, outer, gap) ==
    IF gap.hi - gap.lo <= n THEN redistributeChildrenEvenly(m, outer) ELSE {m}

emptied(m, kids, f, outer, at) ==
    UNION {absorbIntoGap(x, kids, f, outer, gapAround(childPositions(x, outer), at)) :
              x \in madeRoomy(m, Len(kids), outer, gapAround(childPositions(m, outer), at))}

\* The children of inner move beside the formula under the like operator
\* outer; the emptied inner and the formula go.
absorbed(m, inner) ==
    LET f     == parentOf(m.tree, inner)
        outer == outerOf(m.tree, inner)
        at    == indexOf(getChildExpressions(m.tree, outer), f)
    IN  UNION {UNION {pe_removeExpression(y, f, FALSE) :
                        y \in pe_removeExpression(x, inner, TRUE)} :
                  x \in emptied(m, getChildExpressions(m.tree, inner), f, outer, at)}

\* A bound: nothing results when no id is left.
buffer(m, i) ==
    IF freshIds(m) = {} THEN {} ELSE pe_wrapInFormula(m, i, Min(freshIds(m)))

(***************************************************************************)
(* One pass applies each rule until it has no match, AN-1 last, so that a  *)
(* buffer is put into the collapsed tree.                                  *)
(***************************************************************************)
matches(rule, t) ==
    CASE rule = "AN-1" -> unbuffered(t)
      [] rule = "AN-2" -> doubleNegations(t)
      [] rule = "AN-3" -> collapsible(t)
      [] rule = "AN-4" -> absorbable(t)

rewriting(rule, m, i) ==
    CASE rule = "AN-1" -> buffer(m, i)
      [] rule = "AN-2" -> collapseDoubleNegation(m, i)
      [] rule = "AN-3" -> collapse(m, i)
      [] rule = "AN-4" -> absorbed(m, i)

exhausted(rule, stores) ==
    LET after[n \in 0..MaxNodes] ==
            IF n = 0 THEN stores
            ELSE UNION {IF matches(rule, x.tree) = {} THEN {x}
                        ELSE UNION {rewriting(rule, x, i) : i \in matches(rule, x.tree)}
                        : x \in after[n - 1]}
    IN  after[MaxNodes]

\* The order of the rules in a pass.
RuleOrder == <<"AN-2", "AN-3", "AN-4", "AN-1">>

onePass(stores) ==
    LET applied[k \in 0..4] ==
            IF k = 0 THEN stores ELSE exhausted(RuleOrder[k], applied[k - 1])
    IN  applied[4]

settled(t) == doubleNegations(t) \cup collapsible(t) \cup absorbable(t) \cup unbuffered(t) = {}

afterPasses(m, passes) ==
    LET after[n \in 0..passes] ==
            IF n = 0 THEN {m}
            ELSE UNION {IF settled(x.tree) THEN {x}
                        ELSE onePass({x})
                        : x \in after[n - 1]}
    IN  after[passes]

\* Faulty variant: one pass is taken to be enough.
applyANToFixedPoint_OnePass(m) == afterPasses(m, 1)

\* The last pass allowed must find nothing to do; else the driver throws.
applyANToFixedPoint(m) ==
    {x \in afterPasses(m, MAX_AN_ITERATIONS - 1) : settled(x.tree)}

(***************************************************************************)
(* The Presentable rules.                                                  *)
(***************************************************************************)
P1(t) == unbuffered(t) = {}

P2(t) == \A n \in DOMAIN t : t[n].kind = "not" => kindOf(t, onlyChild(t, n)) # "not"

\* The search starts at the formula itself.
P3(t) == \A f \in DOMAIN t :
            t[f].kind = "formula" => hasBinaryOperatorInBoundedSubtree(t, f)

P4(t) == \A i \in DOMAIN t : t[i].kind \in Variadic => onlyChild(t, i) = None

P5(t) == \A f \in DOMAIN t :
            t[f].kind = "formula" /\ kindOf(t, parentOf(t, f)) \in Variadic
              => kindOf(t, onlyChild(t, f)) # t[parentOf(t, f)].kind
=============================================================================
