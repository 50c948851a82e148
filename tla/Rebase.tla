-------------------------------- MODULE Rebase -------------------------------
(***************************************************************************)
(* Moving a response to another version of the argument it answers         *)
(* (core/response/rebase.ts, rebaseResponse in core/argument-engine.ts).   *)
(*                                                                         *)
(* outside is the set of snapshots of other arguments the caller supplies. *)
(***************************************************************************)
EXTENDS ResponseLinks

(***************************************************************************)
(* Comparing one expression across the two versions.                       *)
(***************************************************************************)
compareShallow(a, b, e, f) ==
    IF shapeOf(a, e) # shapeOf(b, f) THEN {"content"} ELSE {}

\* The references under e and f that name the same element at two versions.
repinned(a, b, e, f) ==
    IF shapeOf(a, e) # shapeOf(b, f) THEN {}
    ELSE LET refs == outsideReferences(a, e)
             others == outsideReferences(b, f)
         IN  {<<refs[k], others[k]>> : k \in
                 {j \in DOMAIN refs : refs[j].version # others[j].version}}

\* What a pair of references names: a snapshot of each, and a root in each.
find(outside, ref) == {s \in outside : s.id = ref.argument /\ s.version = ref.version}
rootsNamed(s, ref) ==
    IF ref.to = "expression"
    THEN IF snapshotHasExpression(s, ref.expression) THEN {ref.expression} ELSE {}
    ELSE IF ref.premise \in premisesOf(s) THEN {s.root[ref.premise]} ELSE {}

\* The reasons one pair gives by itself and the pairs it leads to.
comparePair(outside, pair) ==
    LET as == find(outside, pair[1])
        bs == find(outside, pair[2])
        a == CHOOSE s \in as : TRUE
        b == CHOOSE s \in bs : TRUE
        es == rootsNamed(a, pair[1])
        fs == rootsNamed(b, pair[2])
        e == CHOOSE x \in es : TRUE
        f == CHOOSE x \in fs : TRUE
        same == [reasons |-> {}, pairs |-> {}]
        differs(reason) == [reasons |-> {reason}, pairs |-> {}]
    IN  IF as = {} \/ bs = {} THEN differs("outsideReferenceRepinned")
        ELSE IF es = {} \/ fs = {} THEN differs("content")
        ELSE IF None \in {e, f} THEN IF e = f THEN same ELSE differs("content")
        ELSE [reasons |-> compareShallow(a, b, e, f)
                 \cup (IF bindingPositionOf(a, e) # bindingPositionOf(b, f)
                       THEN {"content"} ELSE {}),
              pairs |-> repinned(a, b, e, f)]

\* The reasons of every pair reached; a pair met again adds nothing.
compareRepinned(outside, pairs) ==
    LET reached[n \in Nat] ==
            IF n = 0 THEN pairs
            ELSE LET prev == reached[n - 1]
                 IN  prev \cup UNION {comparePair(outside, pair).pairs : pair \in prev}
    IN  UNION {comparePair(outside, pair).reasons :
                  pair \in reached[Cardinality(outside) * Cardinality(outside)]}

compareSubtrees(outside, a, b, e) ==
    (IF bindingPositionOf(a, e) # bindingPositionOf(b, e) THEN {"position"} ELSE {})
        \cup compareShallow(a, b, e, e)
        \cup compareRepinned(outside, repinned(a, b, e, e))

(***************************************************************************)
(* Classifying each expression binding of the response.                    *)
(***************************************************************************)
usedIn(r, x) == {p \in premisesOf(r) : x \in variablesOf(r, p)}

\* The premises a removed premise takes along: those that use a variable bound
\* to it.
alongWith(r, p) ==
    UNION {usedIn(r, x) : x \in {y \in DOMAIN r.binding :
                                    isInternal(r, y) /\ r.binding[y].premise = p}}

\* Faulty variant: what the dropped premises take along is not listed.
premisesDroppedWith_DirectOnly(r, x) == usedIn(r, x)

premisesDroppedWith(r, x) ==
    LET listed[n \in Nat] ==
            IF n = 0 THEN usedIn(r, x)
            ELSE LET prev == listed[n - 1]
                 IN  prev \cup UNION {alongWith(r, p) : p \in prev}
    IN  listed[Cardinality(premisesOf(r))]

assertRebaseTargets(r, from, to) ==
    /\ r.respondsTo # Nobody
    /\ from.id = to.id
    /\ r.respondsTo[1] = from.id
    /\ r.respondsTo[2] \in {from.version, to.version}

statusOfBinding(r, from, to, outside, x) ==
    LET b == r.binding[x]
        present == snapshotHasExpression(to, b.expression)
    IN  IF ~present THEN "removed"
        ELSE IF b.version = to.version THEN "alreadyRebased"
        ELSE IF ~snapshotHasExpression(from, b.expression) THEN "changed"
        ELSE IF compareSubtrees(outside, from, to, b.expression) = {} THEN "unchanged"
        ELSE "changed"

\* A binding to a third version cannot be classified.
classifiable(r, from, to) ==
    /\ assertRebaseTargets(r, from, to)
    /\ \A x \in expressionBound(r) : r.binding[x].version \in {from.version, to.version}

\* One entry per expression-bound variable.
classifyBindings(r, from, to, outside) ==
    {[variable |-> x, status |-> statusOfBinding(r, from, to, outside, x),
      premises |-> premisesDroppedWith(r, x)] : x \in expressionBound(r)}

(***************************************************************************)
(* Decisions: <<"keep">>, <<"drop">> or <<"retarget", e>> for each binding *)
(* that changed or was removed.                                            *)
(***************************************************************************)
statusIn(entries, x) == (CHOOSE b \in entries : b.variable = x).status
needing(entries) ==
    {b.variable : b \in {c \in entries : c.status \in {"changed", "removed"}}}
dropped(decisions) == {x \in DOMAIN decisions : decisions[x][1] = "drop"}
decided(decisions) == DOMAIN decisions \ dropped(decisions)

\* Where each binding that moves goes; the others keep their expression.
repointTo(r, decisions, x) ==
    IF x \in DOMAIN decisions /\ decisions[x][1] = "retarget" THEN decisions[x][2]
    ELSE r.binding[x].expression

referent(r, decisions, x) ==
    <<repointTo(r, decisions, x), r.binding[x].aspect>>

resolvable(r, to, entries, decisions) ==
    /\ DOMAIN decisions = needing(entries)
    /\ \A x \in DOMAIN decisions :
        /\ decisions[x][1] = "keep" => statusIn(entries, x) # "removed"
        /\ decisions[x][1] = "retarget" => snapshotHasExpression(to, decisions[x][2])
    /\ \A x \in decided(decisions), y \in expressionBound(r) \ dropped(decisions) :
        x # y => referent(r, decisions, x) # referent(r, decisions, y)

(***************************************************************************)
(* Removing from the response.  Removing a variable deletes the            *)
(* expressions that use it; an operator left with one child gives way to   *)
(* it, one left with none goes too.                                        *)
(***************************************************************************)
deleteExpressionsUsingVariables(r, xs) ==
    LET left[e \in DOMAIN r.expr] ==
            IF kindOf(r, e) = "variable"
            THEN IF r.expr[e].variable \in xs THEN {} ELSE {e}
            ELSE LET kept == {k \in DOMAIN kids(r, e) : left[kids(r, e)[k]] # {}}
                 IN  IF kept = DOMAIN kids(r, e) \/ Cardinality(kept) > 1 THEN {e}
                     ELSE UNION {left[kids(r, e)[k]] : k \in kept}
        remains(e) == CHOOSE f \in left[e] : TRUE
        keptKids(e) ==
            LET upTo[n \in 0 .. Len(kids(r, e))] ==
                    IF n = 0 THEN << >>
                    ELSE IF left[kids(r, e)[n]] = {} THEN upTo[n - 1]
                    ELSE Append(upTo[n - 1], kids(r, e)[n])
            IN  upTo[Len(kids(r, e))]
    IN  [r EXCEPT
            !.root = [p \in DOMAIN @ |-> IF @[p] = None \/ left[@[p]] = {} THEN None
                                         ELSE remains(@[p])],
            !.expr = [e \in {f \in DOMAIN @ : left[f] = {f}} |->
                [@[e] EXCEPT !.kids = [k \in DOMAIN keptKids(e) |-> remains(keptKids(e)[k])]]]]

boundTo(r, premises) == {x \in DOMAIN r.binding :
                            isInternal(r, x) /\ r.binding[x].premise \in premises}

\* removePremise: the premise, its role, and every variable bound to it; a
\* response is left without a conclusion.
removePremises(r, premises) ==
    LET cut == [r EXCEPT
                  !.root = Restrict(@, DOMAIN @ \ premises),
                  !.expr = Restrict(@, {e \in DOMAIN @ : premiseOf(r, e) \notin premises}),
                  !.derivations = @ \ premises,
                  !.conclusion = IF @ \in premises THEN "none" ELSE @]
        orphans == boundTo(r, premises)
    IN  [deleteExpressionsUsingVariables(cut, orphans) EXCEPT
            !.binding = Restrict(@, DOMAIN @ \ orphans)]

removeVariables(r, xs) ==
    [deleteExpressionsUsingVariables(r, xs) EXCEPT !.binding = Restrict(@, DOMAIN @ \ xs)]

(***************************************************************************)
(* The rebase itself: drop, answer the other version, re-point.            *)
(***************************************************************************)
repoint(r, to, decisions) ==
    [r EXCEPT !.binding = [x \in DOMAIN @ |->
        IF @[x].to # "expression" THEN @[x]
        ELSE [@[x] EXCEPT !.version = to.version,
                          !.expression = repointTo(r, decisions, x)]]]

moved(r, to, entries, decisions) ==
    LET premises == UNION {b.premises :
                               b \in {c \in entries : c.variable \in dropped(decisions)}}
        smaller == removeVariables(removePremises(r, premises), dropped(decisions))
    IN  repoint([smaller EXCEPT !.respondsTo = reference(to)], to, decisions)

\* Everything resolves in the new version and no fault is new.
assertRebased(r, before, to, faultsBefore) ==
    /\ \A x \in expressionBound(r) :
           r.binding[x].version = to.version
           /\ snapshotHasExpression(to, r.binding[x].expression)
    /\ linkFaultKeys(r, to) \subseteq faultsBefore
=============================================================================
