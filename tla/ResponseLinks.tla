----------------------------- MODULE ResponseLinks ---------------------------
(***************************************************************************)
(* Responses and the argument they answer (core/response/links.ts,         *)
(* fingerprint.ts, link-reference.ts).                                     *)
(*                                                                         *)
(* A response is an argument whose variables may also be bound to an       *)
(* expression of the argument it answers: its statement or its step        *)
(* (inference).  Arguments here carry id, version and respondsTo (the      *)
(* <<id, version>> answered, or Nobody).  Besides claims and own premises, *)
(* a variable may stand for an expression or a premise of another argument *)
(* (to = "expression" or "external").  Premise bindings form no cycle.     *)
(***************************************************************************)
EXTENDS FormulaTree, SequencesExt

CONSTANT Ceiling    \* SATISFIABILITY_VARIABLE_CEILING

Nobody == <<"nobody", 0>>

reference(a) == <<a.id, a.version>>
expressionBound(a) == {x \in DOMAIN a.binding : a.binding[x].to = "expression"}
snapshotHasExpression(a, e) == e \in DOMAIN a.expr
premiseOf(a, e) == a.expr[e].premise

(***************************************************************************)
(* Positions.                                                              *)
(***************************************************************************)
\* At the root of its premise, looking through parentheses.
isAtRoot(a, e) ==
    LET top == a.root[premiseOf(a, e)]
        spine[x \in DOMAIN a.expr] ==
            {x} \cup IF kindOf(a, x) = "formula" THEN spine[kids(a, x)[1]] ELSE {}
    IN  e \in spine[top]

positionClassOf(a, e) ==
    IF premiseOf(a, e) \in a.derivations THEN "inDerivation"
    ELSE IF ~isAtRoot(a, e) THEN "nested"
    ELSE IF premiseOf(a, e) = a.conclusion THEN "conclusionRoot" ELSE "freeformRoot"

\* Faulty variant: the conclusion is not told from the other premises.
bindingPositionOf_Coarse(a, e) == positionClassOf(a, e)

bindingPositionOf(a, e) ==
    IF positionClassOf(a, e) = "nested" /\ premiseOf(a, e) = a.conclusion
    THEN "nestedInConclusion" ELSE positionClassOf(a, e)

(***************************************************************************)
(* Structure.  The shape of an expression leaves the versions of other     *)
(* arguments out; the references it makes to them are listed in order.     *)
(***************************************************************************)
leafShape(b) ==
    CASE b.to = "claim"      -> <<"claim", b.claim, b.version>>
      [] b.to = "expression" -> <<"expression", b.argument, b.expression, b.aspect>>
      [] b.to = "external"   -> <<"external", b.argument, b.premise>>

shapeOf(a, e) ==
    LET shape[x \in DOMAIN a.expr] ==
            IF kindOf(a, x) # "variable"
            THEN <<kindOf(a, x), [k \in DOMAIN kids(a, x) |-> shape[kids(a, x)[k]]]>>
            ELSE LET b == a.binding[a.expr[x].variable] IN
                 IF b.to # "premise" THEN leafShape(b)
                 ELSE IF b.premise \notin premisesOf(a) THEN <<"missingPremise">>
                 ELSE IF a.root[b.premise] = None THEN <<"premise">>
                 ELSE <<"premise", shape[a.root[b.premise]]>>
    IN  shape[e]

outsideReferences(a, e) ==
    LET outside[x \in DOMAIN a.expr] ==
            IF kindOf(a, x) # "variable"
            THEN FlattenSeq([k \in DOMAIN kids(a, x) |-> outside[kids(a, x)[k]]])
            ELSE LET b == a.binding[a.expr[x].variable] IN
                 IF b.to \in {"expression", "external"} THEN <<b>>
                 ELSE IF b.to = "premise" /\ b.premise \in premisesOf(a)
                            /\ a.root[b.premise] # None
                 THEN outside[a.root[b.premise]] ELSE << >>
    IN  outside[e]

(***************************************************************************)
(* Links: a premise that is one expression-bound variable, or its negation.*)
(***************************************************************************)
linkLeaf(a, p) ==
    LET size == Cardinality(expressionsIn(a, p)) IN
    IF size = 1 THEN a.root[p]
    ELSE IF size = 2 /\ kindOf(a, a.root[p]) = "not" THEN kids(a, a.root[p])[1]
    ELSE None

isLink(a, p) ==
    /\ linkLeaf(a, p) # None
    /\ kindOf(a, linkLeaf(a, p)) = "variable"
    /\ a.expr[linkLeaf(a, p)].variable \in expressionBound(a)

moveOf(aspect, negated) ==
    IF aspect = "statement" THEN IF negated THEN "contradict" ELSE "affirm"
    ELSE IF negated THEN "undercut" ELSE "reinforce"

readLink(a, p) ==
    LET x == a.expr[linkLeaf(a, p)].variable
    IN  [premise |-> p, variable |-> x, expression |-> a.binding[x].expression,
         aspect |-> a.binding[x].aspect,
         move |-> moveOf(a.binding[x].aspect, linkLeaf(a, p) # a.root[p])]

listLinks(a) == {readLink(a, p) : p \in {q \in premisesOf(a) : isLink(a, q)}}

(***************************************************************************)
(* The faults of a response's bindings against one version of the argument *)
(* it answers.                                                             *)
(***************************************************************************)
faultOf(r, t, x) ==
    LET b == r.binding[x] IN
    IF b.version # r.respondsTo[2] THEN {"LINK_VERSION_MISMATCH"}
    ELSE IF ~snapshotHasExpression(t, b.expression) THEN {"LINK_EXPRESSION_MISSING"}
    ELSE IF b.aspect = "inference" /\ b.expression \notin operatorsOf(t)
    THEN {"LINK_INFERENCE_ON_NON_OPERATOR"} ELSE {}

linkFaultKeys(r, t) ==
    UNION {{<<code, x, r.binding[x].expression>> : code \in faultOf(r, t, x)} :
               x \in expressionBound(r)}

\* The claim an expression states, when it is the leaf of one.
claimsStated(t, e) ==
    IF e \notin DOMAIN t.expr \/ kindOf(t, e) # "variable" THEN {}
    ELSE LET b == t.binding[t.expr[e].variable]
         IN  IF b.to = "claim" THEN {b.claim} ELSE {}

\* Links on different occurrences of one claim: reported as checked together.
sameClaimLinks(r, t) ==
    {ls \in SUBSET listLinks(r) :
        /\ Cardinality(ls) = 2
        /\ \A l, k \in ls :
            /\ l.aspect = k.aspect
            /\ l # k => l.expression # k.expression
            /\ claimsStated(t, l.expression) # {}
            /\ claimsStated(t, l.expression) = claimsStated(t, k.expression)}

\* A claim with a link on a leaf of it; an expression with a link on it or on
\* the root of its premise.
linkTargetsClaim(r, t, p, c) == isLink(r, p) /\ c \in claimsStated(t, readLink(r, p).expression)
linkTargetsExpression(r, t, p, e) ==
    /\ isLink(r, p) /\ snapshotHasExpression(t, readLink(r, p).expression)
    /\ LET bound == readLink(r, p).expression IN
        \/ bound = e
        \/ /\ e \in DOMAIN t.expr
           /\ isAtRoot(t, bound) /\ premiseOf(t, bound) = premiseOf(t, e)

(***************************************************************************)
(* A response and the argument it answers read as one set of formulas      *)
(* (combined-premise-set.ts).  Every variable becomes a column, true or    *)
(* false on its own, or gives way to the expression it stands for.  Two    *)
(* bindings of one claim are one column whatever their versions.           *)
(***************************************************************************)
claimColumn(c) == <<"claim", c>>
premiseColumn(id, version, p) == <<"premise", id, version, p>>
expressionColumn(id, e, aspect) == <<"expression", id, e, aspect>>

\* The premises of a response that take part.
sourcePremises(r) == {p \in premisesOf(r) : r.root[p] # None /\ ~isNakedQ(r, p)}

(***************************************************************************)
(* What a variable of argument a stands for: an expression of the combined *)
(* set, or None and then a column.                                         *)
(***************************************************************************)
ownRoot(a, premises, b) ==
    IF b.to = "premise" /\ b.premise \in premises THEN a.root[b.premise] ELSE None

columnOf(a, b) ==
    CASE b.to = "claim"      -> claimColumn(b.claim)
      [] b.to = "premise"    -> premiseColumn(a.id, a.version, b.premise)
      [] b.to = "external"   -> premiseColumn(b.argument, b.version, b.premise)
      [] b.to = "expression" -> expressionColumn(b.argument, b.expression, b.aspect)

standsFor(r, t, e) ==
    IF e \in DOMAIN t.expr
    THEN ownRoot(t, premisesOf(t), t.binding[t.expr[e].variable])
    ELSE LET b == r.binding[r.expr[e].variable]
         IN  IF b.to = "expression" /\ b.aspect = "statement" THEN b.expression
             ELSE ownRoot(r, sourcePremises(r), b)

\* The combined set: every node of both arguments with its kind, its children
\* (for a variable, what it stands for) and its column.
combine(r, t) ==
    LET owner(e) == IF e \in DOMAIN t.expr THEN t ELSE r
        column(a, e) == columnOf(a, a.binding[a.expr[e].variable])
    IN  [e \in DOMAIN r.expr \cup DOMAIN t.expr |->
            IF kindOf(owner(e), e) # "variable"
            THEN [kind |-> kindOf(owner(e), e), kids |-> kids(owner(e), e)]
            ELSE IF standsFor(r, t, e) # None
            THEN [kind |-> "formula", kids |-> <<standsFor(r, t, e)>>]
            ELSE [kind |-> "column", kids |-> << >>, column |-> column(owner(e), e)]]

\* The target on its own.
noResponse == [id |-> "none", version |-> 0, expr |-> << >>, root |-> << >>,
               derivations |-> {}, binding |-> << >>]
expander(t) == combine(noResponse, t)

(***************************************************************************)
(* The columns an expression reads, and whether it is true in a row: the   *)
(* set of its true columns.                                                *)
(***************************************************************************)
columnsOf(set, e) ==
    LET below[x \in DOMAIN set] ==
            IF set[x].kind = "column" THEN {set[x].column}
            ELSE UNION {below[y] : y \in Range(set[x].kids)}
    IN  below[e]

evaluateCombinedNode(set, e, row) ==
    LET holds[x \in DOMAIN set] ==
            LET kid(k) == holds[set[x].kids[k]]
                n == DOMAIN set[x].kids
            IN  CASE set[x].kind = "column"  -> set[x].column \in row
                  [] set[x].kind = "formula" -> kid(1)
                  [] set[x].kind = "not"     -> ~kid(1)
                  [] set[x].kind = "and"     -> \A k \in n : kid(k)
                  [] set[x].kind = "or"      -> \E k \in n : kid(k)
                  [] set[x].kind = "xor"     -> Cardinality({k \in n : kid(k)}) % 2 = 1
                  [] set[x].kind = "implies" -> kid(1) => kid(2)
                  [] set[x].kind = "iff"     -> kid(1) <=> kid(2)
    IN  holds[e]

\* Two expressions with the same key are the same formula over columns.
formulaKey(set, e) ==
    LET key[x \in DOMAIN set] ==
            IF set[x].kind = "column" THEN <<"column", set[x].column>>
            ELSE IF set[x].kind = "formula" THEN key[set[x].kids[1]]
            ELSE <<set[x].kind, [k \in DOMAIN set[x].kids |-> key[set[x].kids[k]]]>>
    IN  key[e]

\* Below parentheses, inlined variables and negations.
withoutNegations(set, e) ==
    LET core[x \in DOMAIN set] ==
            IF set[x].kind \in {"formula", "not"} THEN core[set[x].kids[1]] ELSE x
    IN  core[e]

nodesUnder(set, e) ==
    LET under[x \in DOMAIN set] == {x} \cup UNION {under[y] : y \in Range(set[x].kids)}
    IN  under[e]

\* Columns of the sources and axioms the response uses are true in every row.
forcedTrueColumns(r) ==
    {claimColumn(r.binding[x].claim) :
        x \in {y \in UNION {variablesOf(r, p) : p \in sourcePremises(r)} :
                  r.binding[y].to = "claim" /\ r.binding[y].type \in {"axiomatic", "citation"}}}

(***************************************************************************)
(* Whether a response's links are supported by its other premises, and     *)
(* whether its premises can hold together (core/response/check.ts over the *)
(* search of core/evaluation/satisfiability.ts).                           *)
(*                                                                         *)
(* A formula is <<e, TRUE>> for the combined expression e, or <<e, FALSE>> *)
(* for its negation.                                                       *)
(***************************************************************************)
\* The response's premises as formulas of the combined set.
formulasOf(r, premises) == {<<r.root[p], TRUE>> : p \in premises}

trueIn(set, f, row) == evaluateCombinedNode(set, f[1], row) = f[2]

(***************************************************************************)
(* The search.  Formulas that share a column form a group; each group is   *)
(* walked over its own columns.                                            *)
(***************************************************************************)
groupsOf(set, forced, formulas) ==
    LET reads(f) == columnsOf(set, f[1]) \ forced
        meet(f, g) == reads(f) \cap reads(g) # {} \/ reads(f) = reads(g)
        grown[n \in Nat] ==
            IF n = 0 THEN {{f} : f \in formulas}
            ELSE LET prev == grown[n - 1]
                 IN  {{f \in formulas : \E g \in group : meet(f, g)} : group \in prev}
    IN  grown[Cardinality(formulas)]

\* The rows of one group's columns in which all of it holds.
rowsOf(set, forced, group) ==
    LET columns == (UNION {columnsOf(set, f[1]) : f \in group}) \ forced
    IN  {chosen \in SUBSET columns : \A f \in group : trueIn(set, f, chosen \cup forced)}

tooLarge(set, forced, group) ==
    Cardinality((UNION {columnsOf(set, f[1]) : f \in group}) \ forced) > Ceiling

\* "yes" with a witness (the true columns), "no", or "unknown".
walk(set, forced, groups) ==
    LET walked == {g \in groups : ~tooLarge(set, forced, g)}
    IN  IF \E g \in walked : rowsOf(set, forced, g) = {} THEN [answer |-> "no"]
        ELSE IF walked # groups THEN [answer |-> "unknown"]
        ELSE [answer |-> "yes",
              witness |-> forced \cup
                  UNION {CHOOSE row \in rowsOf(set, forced, g) : TRUE : g \in groups}]

search(set, forced, formulas) == walk(set, forced, groupsOf(set, forced, formulas))

impossible(set, forced, formulas) == search(set, forced, formulas).answer = "no"

(***************************************************************************)
(* Links that say the same are one group.                                  *)
(***************************************************************************)
links(r) == {p \in sourcePremises(r) : isLink(r, p)}
nonLinkPremises(r) == sourcePremises(r) \ links(r)

isNegated(r, p) == kindOf(r, r.root[p]) = "not"

\* Links of one group share their referent and their polarity.
groupOf(r, set, p) ==
    {q \in links(r) : isNegated(r, q) = isNegated(r, p)
                      /\ formulaKey(set, r.root[q]) = formulaKey(set, r.root[p])}

negationOf(r, p) == <<r.root[p], FALSE>>

\* Faulty variant: the other links that say the same are left in.
othersOf_KeepsTwins(r, set, p) == sourcePremises(r) \ {p}

othersOf(r, set, p) == sourcePremises(r) \ groupOf(r, set, p)

\* The link cannot be false while these premises hold.
entailedBy(r, set, p, premises) ==
    impossible(set, forcedTrueColumns(r), {negationOf(r, p)} \cup formulasOf(r, premises))

coherence(r, set) ==
    search(set, forcedTrueColumns(r), formulasOf(r, sourcePremises(r))).answer

\* The others without the link.
against(r, set, p) ==
    search(set, forcedTrueColumns(r),
           {negationOf(r, p)} \cup formulasOf(r, othersOf(r, set, p)))

statusFrom(coherent, fromOthers, possible) ==
    IF coherent = "no" THEN "incoherent"
    ELSE IF coherent = "unknown" THEN "undetermined"
    ELSE IF fromOthers \/ possible = "no" THEN "follows"
    ELSE IF possible = "yes" THEN "asserted" ELSE "undetermined"

statusOf(r, set, p) ==
    statusFrom(coherence(r, set), entailedBy(r, set, p, nonLinkPremises(r)),
               against(r, set, p).answer)

\* Grounded links: asserted, or entailed by the premises that are not links
\* and links already grounded.
ground(r, set, follows, asserted) ==
    LET from(premises) == {p \in follows : entailedBy(r, set, p, premises)}
        grown[n \in Nat] ==
            IF n = 0 THEN asserted \cup from(nonLinkPremises(r))
            ELSE LET prev == grown[n - 1]
                 IN  UNION {prev, from(nonLinkPremises(r) \cup prev)}
    IN  grown[Cardinality(follows)]

\* What is left when each premise is taken out, in order, that can be.
minimise(order, premises, sufficient, removeFirst) ==
    LET start == IF premises \ removeFirst \in sufficient THEN premises \ removeFirst
                 ELSE premises
        kept[n \in 0 .. Len(order)] ==
            IF n = 0 THEN start
            ELSE LET prev == kept[n - 1]
                     trial == prev \ {order[n]}
                 IN  IF trial \in sufficient THEN trial ELSE prev
    IN  kept[Len(order)]

\* Some premise says "if ..., then this", up to negation.
hasOnConsequentSide(r, set, p, premises) ==
    LET same(e, f) == formulaKey(set, withoutNegations(set, e))
                          = formulaKey(set, withoutNegations(set, f))
    IN  \E q \in premises : \E e \in nodesUnder(set, r.root[q]) :
            \/ set[e].kind = "implies" /\ same(set[e].kids[2], r.root[p])
            \/ set[e].kind = "iff" /\ \E kid \in Range(set[e].kids) : same(kid, r.root[p])

(***************************************************************************)
(* The two reports.  r.order has the premises in the order listPremises    *)
(* lists those that are there.                                             *)
(***************************************************************************)
having(status, statuses) == {p \in DOMAIN statuses : statuses[p] = status}

restsOnlyOnLinks(p, statuses, grounded) ==
    IF having("undetermined", statuses) # {} THEN "absent"
    ELSE IF p \in grounded THEN "no" ELSE "yes"

reportOf(r, set, p, statuses, grounded) ==
    CASE statuses[p] = "follows" ->
            [status |-> "follows",
             restsOnlyOnLinks |-> restsOnlyOnLinks(p, statuses, grounded),
             support |-> minimise(r.order, othersOf(r, set, p),
                 {ps \in SUBSET othersOf(r, set, p) : entailedBy(r, set, p, ps)},
                 links(r))]
      [] statuses[p] = "asserted" ->
            [status |-> "asserted",
             counterexample |-> against(r, set, p).witness,
             attemptedSupport |->
                 hasOnConsequentSide(r, set, p, sourcePremises(r) \ {p})]
      [] OTHER -> [status |-> statuses[p]]

reports(r, set, statuses, grounded) ==
    [p \in links(r) |-> reportOf(r, set, p, statuses, grounded)]

reportsFrom(r, set, statuses) ==
    reports(r, set, statuses,
            ground(r, set, having("follows", statuses), having("asserted", statuses)))

checkCombined(r, set) == reportsFrom(r, set, [p \in links(r) |-> statusOf(r, set, p)])

checkLinks(r, t) == checkCombined(r, combine(r, t))

clashes(r, set) ==
    {ps \in SUBSET sourcePremises(r) :
        impossible(set, forcedTrueColumns(r), formulasOf(r, ps))}

coherenceReport(r, set) ==
    IF coherence(r, set) = "no"
    THEN [coherent |-> "no",
          unsatisfiable |-> minimise(r.order, sourcePremises(r), clashes(r, set), {})]
    ELSE [coherent |-> coherence(r, set)]

checkResponseCoherent(r, t) == coherenceReport(r, combine(r, t))
=============================================================================
