---------------------------- MODULE CarriedAnswers ---------------------------
(***************************************************************************)
(* What a reader's agreement with links of a response carries into the     *)
(* argument answered (core/response/carry.ts).                             *)
(*                                                                         *)
(* A proposal is a record: key, what it is about (a variable, an operator  *)
(* or an answer on a link, and which); value.                              *)
(***************************************************************************)
EXTENDS ResponseLinks

proposal(kind, id, value) == [key |-> <<kind, id>>, value |-> value]
sameKey(v, w) == v.key = w.key
contradict(v, w) == sameKey(v, w) /\ v.value # w.value
truth(b) == IF b THEN "true" ELSE "false"

\* An outcome: the reason nothing is carried, or the values.
refused(reason) == [reason |-> reason, values |-> {}]
carried(values, otherwise) ==
    IF values = {} THEN refused(otherwise) ELSE [reason |-> "none", values |-> values]

(***************************************************************************)
(* "Expression e has this value" as fixed column values.                   *)
(***************************************************************************)
keptRows(set, e, value) ==
    {row \in SUBSET columnsOf(set, e) : evaluateCombinedNode(set, e, row) = value}

\* Columns with one value in every row kept.
fixedColumns(set, e, value) ==
    LET kept == keptRows(set, e, value)
    IN  {c \in columnsOf(set, e) :
            (\A row \in kept : c \in row) \/ (\A row \in kept : c \notin row)}

\* Faulty variant: whatever is fixed is taken, though the rest is not free.
decomposeStatement_PartialCube(set, e, value) ==
    LET kept == keptRows(set, e, value)
        free == columnsOf(set, e) \ fixedColumns(set, e, value)
    IN  IF kept = {} THEN "impossible"
        ELSE IF Cardinality(kept) = 2 ^ Cardinality(columnsOf(set, e)) THEN "vacuous"
        ELSE IF fixedColumns(set, e, value) # {} THEN "cube" ELSE "notExpressible"

\* What is fixed says it all when the other columns are free.
decomposeStatement(set, e, value) ==
    LET kept == keptRows(set, e, value)
        free == columnsOf(set, e) \ fixedColumns(set, e, value)
    IN  IF Cardinality(columnsOf(set, e)) > Ceiling THEN "tooLarge"
        ELSE IF kept = {} THEN "impossible"
        ELSE IF Cardinality(kept) = 2 ^ Cardinality(columnsOf(set, e)) THEN "vacuous"
        ELSE IF Cardinality(kept) = 2 ^ Cardinality(free) THEN "cube"
        ELSE "notExpressible"

saysTrue(link) == link.move \in {"affirm", "reinforce"}

valueOf(set, e, value, column) == column \in CHOOSE row \in keptRows(set, e, value) : TRUE

(***************************************************************************)
(* Into an argument.                                                       *)
(***************************************************************************)
\* Variables evaluation reads: those of a premise it does not hide.
evaluatedVariables(t) ==
    UNION {variablesOf(t, p) : p \in {q \in premisesOf(t) : ~isNakedQ(t, q)}}

carryStatement(t, link, claimTypes) ==
    LET set == expander(t)
        value == saysTrue(link)
        kind == decomposeStatement(set, link.expression, value)
        fixed == fixedColumns(set, link.expression, value)
        on(c) == {x \in evaluatedVariables(t) :
                     LET b == t.binding[x]
                     IN  columnOf(t, b) = c /\ b.to \in {"claim", "premise", "external"}}
        claims == {x \in UNION {on(c) : c \in fixed} : t.binding[x].to = "claim"}
        typeOf(x) == LET b == t.binding[x]
                     IN  IF <<b.claim, b.version>> \in DOMAIN claimTypes
                         THEN claimTypes[<<b.claim, b.version>>] ELSE "unknown"
        axioms == {x \in claims : typeOf(x) = "axiomatic"}
        takes(x) == valueOf(set, link.expression, value, columnOf(t, t.binding[x]))
        values == {proposal("variable", x, truth(takes(x))) :
                      x \in (UNION {on(c) : c \in fixed}) \ axioms}
        \* Either reason stops the walk; here an unknown claim names it.
        stops == {x \in claims : typeOf(x) = "unknown" \/ (x \in axioms /\ ~takes(x))}
    IN  IF kind # "cube" THEN refused(kind)
        ELSE IF \E x \in stops : typeOf(x) = "unknown" THEN refused("unknownClaim")
        ELSE IF stops # {} THEN refused("axiom")
        ELSE carried(values, IF axioms # {} THEN "axiom" ELSE "noLinkReached")

carryInference(t, link) ==
    LET e == link.expression
        p == premiseOf(t, e)
    IN  IF e \notin operatorsOf(t) THEN refused("noLinkReached")
        ELSE IF link.move = "reinforce"
        THEN IF ~isAtRoot(t, e) THEN refused("nestedReinforce")
             ELSE IF kindOf(t, e) \notin Conditional THEN refused("nonConditionalRoot")
             ELSE carried({proposal("operator", e, "accepted")}, "none")
        ELSE IF p \in t.derivations THEN refused("derivationOperator")
        ELSE IF p = t.conclusion /\ ~isAtRoot(t, e) THEN refused("ignoredInConclusion")
        ELSE carried({proposal("operator", e, "rejected")}, "none")

(***************************************************************************)
(* Into another response: answers on its links.                            *)
(***************************************************************************)
carryIntoResponse(t, link) ==
    LET set == expander(t)
        value == saysTrue(link)
        kind == decomposeStatement(set, link.expression, value)
        fixed == fixedColumns(set, link.expression, value)
        answer(l) == IF valueOf(set, link.expression, value,
                                columnOf(t, t.binding[l.variable])) = saysTrue(l)
                     THEN "agree" ELSE "disagree"
    IN  IF link.aspect = "inference"
        THEN refused(IF isLink(t, premiseOf(t, link.expression))
                     THEN "linkStep" ELSE "noLinkReached")
        ELSE IF kind # "cube" THEN refused(kind)
        ELSE carried({proposal("linkAnswer", l.premise, answer(l)) :
                         l \in {k \in listLinks(t) :
                                   columnOf(t, t.binding[k.variable]) \in fixed}},
                     "noLinkReached")

outcomeOf(r, t, p, claimTypes) ==
    IF ~isLink(r, p) THEN refused("notALink")
    ELSE IF t.respondsTo # Nobody THEN carryIntoResponse(t, readLink(r, p))
    ELSE IF readLink(r, p).aspect = "statement"
    THEN carryStatement(t, readLink(r, p), claimTypes)
    ELSE carryInference(t, readLink(r, p))

(***************************************************************************)
(* Settling links that disagree: both carry nothing; the reader's own      *)
(* links settle first and outrank those carried into the response.         *)
(***************************************************************************)
conflictsWithin(outcomes) ==
    {p \in DOMAIN outcomes : \E q \in DOMAIN outcomes :
        \E v \in outcomes[p].values, w \in outcomes[q].values : contradict(v, w)}

settle(outcomes) == Restrict(outcomes, DOMAIN outcomes \ conflictsWithin(outcomes))

valuesOf(outcomes) == UNION {outcomes[p].values : p \in DOMAIN outcomes}

\* A link dropped in a conflict carries nothing, so it outranks nothing.
ownValues(ownOutcomes) == valuesOf(settle(ownOutcomes))

settleAll(outcome, own) ==
    LET reached == {p \in DOMAIN outcome : outcome[p].values # {}}
        mine == Restrict(outcome, reached \cap own)
        theirs == Restrict(outcome, reached \ own)
        winning == ownValues(mine)
        overridden == {p \in DOMAIN theirs :
            \E v \in theirs[p].values, w \in winning : contradict(v, w)}
        left == settle(Restrict(theirs, DOMAIN theirs \ overridden))
        conflicting == (DOMAIN mine \ DOMAIN settle(mine))
                           \cup (DOMAIN theirs \ (DOMAIN left \cup overridden))
    IN  [sources |-> Restrict(outcome, DOMAIN settle(mine) \cup DOMAIN left),
         notCarried |-> [p \in DOMAIN outcome \ (DOMAIN settle(mine) \cup DOMAIN left) |->
            IF p \in overridden THEN "overriddenByOwn"
            ELSE IF p \in conflicting THEN "conflict" ELSE outcome[p].reason],
         collisions |-> UNION {{[by |-> p, carried |-> v] :
                v \in {u \in theirs[p].values : \E w \in winning : contradict(u, w)}} :
            p \in overridden}]

carryAnswers(r, t, agreed, own, claimTypes) ==
    settleAll([p \in agreed |-> outcomeOf(r, t, p, claimTypes)], own)

carriedValues(result) == valuesOf(result.sources)

(***************************************************************************)
(* Joined to what the reader entered for the argument: own values win and  *)
(* every other value carried there is a collision.                         *)
(***************************************************************************)
mergeCarriedInput(entered, result) ==
    LET mine == {w \in entered : w.value # "not sure"}
        new == {v \in carriedValues(result) : \A w \in mine : ~sameKey(v, w)}
    IN  [merged |-> {w \in entered : \A v \in new : ~sameKey(v, w)} \cup new,
         collisions |-> {v \in carriedValues(result) : \E w \in mine : contradict(v, w)}
            \cup {c.carried : c \in {d \in result.collisions : d.carried \notin mine}}]
=============================================================================
