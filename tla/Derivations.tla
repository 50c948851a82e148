----------------------------- MODULE Derivations ----------------------------
(***************************************************************************)
(* Derivation premises: created naked, populated from the claims connected *)
(* to theirs (grammar/populate-from.ts), edited by hand, and repaired      *)
(* (grammar/repair.ts), in assistive and permissive behaviour.             *)
(*                                                                         *)
(* Every call here is an engine's: it happens as a whole or, when          *)
(* something in it throws, not at all.  In assistive behaviour each        *)
(* mutation of a premise is followed by the normalization of the whole     *)
(* argument before the next one starts.                                    *)
(***************************************************************************)
EXTENDS Grammar
LOCAL INSTANCE TLC

CONSTANTS
    Loaded,        \* the arguments an engine may start with
    connections,   \* by type of grounding and claim, the claims connected to it
    HandKinds,     \* bound: what a caller rewrites an expression to
    MaxEdits       \* bound: edits by hand

ASSUME DerivationAssumption ==
    /\ connections \in [Grounding -> [Claim -> Seq(Claim)]]
    /\ HandKinds \subseteq Kind /\ MaxEdits \in Nat

VARIABLES
    argument,   \* what the engine holds
    behavior,   \* "permissive" or "assistive"
    edits       \* edits made by hand

vars == <<argument, behavior, edits>>

emptyArgument == [store |-> << >>, derives |-> << >>, variables |-> {}, conclusion |-> NoPremise]

Init == argument \in Loaded /\ behavior \in {"permissive", "assistive"} /\ edits = 0

(***************************************************************************)
(* Normalization of the argument, and calls one after the other.           *)
(***************************************************************************)
\* The arguments call(_, item) leads to, item after item.
inTurn(call(_, _), items, a) ==
    LET after[n \in 0..Len(items)] ==
            IF n = 0 THEN {a} ELSE UNION {call(x, items[n]) : x \in after[n - 1]}
    IN  after[Len(items)]

ascending(S) == SetToSortSeq(S, <)

\* Each premise comes to rest for itself; nothing results if one does not.
normalizePremise(a, p) ==
    {[a EXCEPT !.store[p] = m] : m \in applyANToFixedPoint(a.store[p])}

normalizeArgument(a) ==
    inTurn(normalizePremise, ascending({p \in premisesOf(a) : ~settled(treeOf(a, p))}), a)

followUp(a) == IF behavior = "assistive" THEN normalizeArgument(a) ELSE {a}

\* A premise of a after one mutation with these results.
mutated(a, p, results) == UNION {followUp([a EXCEPT !.store[p] = m]) : m \in results}

(***************************************************************************)
(* The engine's own calls (core/argument-engine.ts).                       *)
(***************************************************************************)
createPremise(a, p, claim) ==
    LET b == [store |-> (p :> emptyStore) @@ a.store,
              derives |-> (p :> claim) @@ a.derives,
              variables |-> a.variables \cup {variableOf[p]} \cup ({claim} \cap Claim),
              conclusion |-> IF a.conclusion = NoPremise THEN p ELSE a.conclusion]
    IN  IF claim = Freeform THEN {b}
        ELSE mutated(b, p, pe_appendExpression(emptyStore, 1, claim, None))

\* The items, each with what the call needs beside it.
each(S, with) == [n \in 1..Cardinality(S) |-> <<ascending(S)[n], with>>]

\* use is a premise and a variable.
deleteUses(a, use) ==
    LET left == pe_deleteExpressionsUsingVariable(a.store[use[1]], use[2])
    IN  IF left = {} THEN {a} ELSE mutated(a, use[1], left)

removeVariable(a, v) ==
    {[x EXCEPT !.variables = @ \ {v}] : x \in inTurn(deleteUses, each(premisesOf(a), v), a)}

removePremise(a, p) ==
    LET rest == premisesOf(a) \ {p}
        b == [a EXCEPT !.store = [q \in rest |-> @[q]],
                       !.derives = [q \in rest |-> @[q]],
                       !.conclusion = IF @ # p THEN @
                                      ELSE IF rest = {} THEN NoPremise ELSE Min(rest)]
    IN  IF variableOf[p] \in a.variables THEN removeVariable(b, variableOf[p]) ELSE {b}

(***************************************************************************)
(* Populating (populate-from.ts, permissive-build.ts).                     *)
(***************************************************************************)
\* Each connected claim once, in the order of the connections.
supportingOf(claim, type) ==
    LET all    == connections[type][claim]
        firsts == {i \in DOMAIN all : \A j \in 1..(i - 1) : all[j] # all[i]}
    IN  [n \in 1..Cardinality(firsts) |-> all[ascending(firsts)[n]]]

\* The premise a claim is derived in: the first by id.
findDerivationPremiseForClaim(a, claim) ==
    LET found == {p \in premisesOf(a) : a.derives[p] = claim}
    IN  IF found = {} THEN NoPremise ELSE Min(found)

added(results, i, kind, parent, pos) ==
    UNION {pe_addExpression(m, i, kind, parent, pos) : m \in results}

\* Faulty variant: the claim derived is put first.
populatedForm_ConsequentFirst(m, supports, q) ==
    LET n    == Len(supports)
        root == CHOOSE i \in DOMAIN m.tree : TRUE
        top  == added(pe_removeExpression(m, root, TRUE), 1, "implies", None, 0)
        operand[k \in 0..n] ==
            IF k = 0 THEN added(top, 2, "or", 1, 1)
            ELSE added(operand[k - 1], 2 + k, supports[k], 2, k - 1)
    IN  IF n = 1 THEN added(added(top, 2, supports[1], 1, 1), 3, q, 1, 0)
                 ELSE added(operand[n], n + 3, q, 1, 0)

\* implies(S, Q), or implies(or(S1, ..., Sn), Q), in place of the naked Q.
populatedForm(m, supports, q) ==
    LET n    == Len(supports)
        root == CHOOSE i \in DOMAIN m.tree : TRUE
        top  == added(pe_removeExpression(m, root, TRUE), 1, "implies", None, 0)
        operand[k \in 0..n] ==
            IF k = 0 THEN added(top, 2, "or", 1, 0)
            ELSE added(operand[k - 1], 2 + k, supports[k], 2, k - 1)
    IN  IF n = 1 THEN added(added(top, 2, supports[1], 1, 0), 3, q, 1, 1)
                 ELSE added(operand[n], n + 3, q, 1, 1)

\* Nothing changes unless the premise is naked and something supports its
\* claim.  Built without normalization, which is done once at the end.
populateFromGrounding(a, claim, type) ==
    LET p        == findDerivationPremiseForClaim(a, claim)
        supports == supportingOf(claim, type)
        b        == [a EXCEPT !.variables = @ \cup Range(supports)]
    IN  IF p = NoPremise THEN {}
        ELSE IF ~isNakedQTree(treeOf(a, p)) \/ supports = << >> THEN {a}
        ELSE LET q == treeOf(a, p)[CHOOSE i \in DOMAIN treeOf(a, p) : TRUE].kind
             IN  UNION {followUp([b EXCEPT !.store[p] = m]) :
                          m \in populatedForm(b.store[p], supports, q)}

(***************************************************************************)
(* Repairs (repair.ts).                                                    *)
(***************************************************************************)
removeOrphanOperators(a) == IF E1(a) = {} THEN {a} ELSE normalizeArgument(a)

\* The leaves of the operand at position 0; another first operand counts none.
antecedentSize(t) ==
    LET r == findPremiseRoot(t)
    IN  IF kindOf(t, r) \notin RootOnly THEN 0
        ELSE Cardinality(UNION {leavesUnder(t, c) : c \in {x \in Children(t, r) : t[x].pos = 0}})

pickLargestAntecedent(a, ids) ==
    LET size(p) == antecedentSize(treeOf(a, p))
    IN  Min({p \in ids : \A q \in ids : size(q) <= size(p)})

removeDuplicateDerivationPremises(a, strategy) ==
    LET twins(p) == {q \in E6(a) : a.derives[q] = a.derives[p]}
        keep(p)  == IF strategy = "keep-first" THEN Min(twins(p))
                                               ELSE pickLargestAntecedent(a, twins(p))
    IN  inTurn(removePremise, ascending({p \in E6(a) : keep(p) # p}), a)

\* Faulty variant: the search ends at the operands of the antecedent.
axiomsUnder_Shallow(t, e) ==
    {i \in {e} \cup Children(t, e) : typeOf(t[i].kind) = "axiomatic"}

axiomsUnder(t, e) == {i \in leavesUnder(t, e) : typeOf(t[i].kind) = "axiomatic"}

\* leaf is a premise and an expression of it.
dropLeaf(a, leaf) ==
    mutated(a, leaf[2], pe_removeExpression(a.store[leaf[2]], leaf[1], FALSE))

\* named is a premise, the antecedent the validation named in it and its kind:
\* the normalization after the work on an earlier premise may since have removed
\* it.  (An expression of another kind is a buffer that got a freed id.)
dropLeaves(a, named) ==
    LET p == named[1]
        t == treeOf(a, p)
    IN  IF kindOf(t, named[2].id) # named[2].kind THEN {a}
        ELSE inTurn(dropLeaf, each(axiomsUnder(t, named[2].id), p), a)

antecedentNamed(t) == [id |-> antecedentOf(t), kind |-> kindOf(t, antecedentOf(t))]

dropAxiomsFromMixedAntecedent(a) ==
    LET ps == ascending(D3(a))
    IN  inTurn(dropLeaves, [n \in DOMAIN ps |-> <<ps[n], antecedentNamed(treeOf(a, ps[n]))>>], a)

(***************************************************************************)
(* Steps.                                                                  *)
(***************************************************************************)
Call(results) == argument' \in results /\ UNCHANGED <<behavior, edits>>

\* A bound: callers derive normal claims.
CreatePremise ==
    \E p \in Premise \ premisesOf(argument),
      claim \in {k \in Claim : claimType[k] = "normal"} \cup {Freeform} :
        Call(createPremise(argument, p, claim))

Populate(claim, type) == Call(populateFromGrounding(argument, claim, type))

Normalize == Call(normalizeArgument(argument))

\* The repairs, by the rule each one cures.
repaired(code) ==
    CASE code = "E-1" -> removeOrphanOperators(argument)
      [] code = "E-6" -> UNION {removeDuplicateDerivationPremises(argument, strategy) :
                                  strategy \in {"keep-first", "keep-largest-antecedent"}}
      [] code = "D-3" -> dropAxiomsFromMixedAntecedent(argument)

Repair == \E code \in {"E-1", "E-6", "D-3"} :
            breaking(argument, code) # {} /\ Call(repaired(code))

ByHand(results) ==
    /\ edits < MaxEdits
    /\ argument' \in results
    /\ edits' = edits + 1
    /\ UNCHANGED behavior

\* Some of the mutations of a premise; PremiseTree has all of them.
knownKind(p, k) == k \in Variable => k \in argument.variables \ {variableOf[p]}

editsOf(p, m, i) ==
    {pe_updateKind(m, i, k) : k \in {h \in HandKinds \ {m.tree[i].kind} : knownKind(p, h)}}
    \cup {pe_removeExpression(m, i, all) : all \in BOOLEAN}
    \cup IF Cardinality(DOMAIN m.tree) + 2 > MaxNodes THEN {}
         ELSE {pe_toggleNegation(m, i, Min(freshIds(m)))}

EditPremise ==
    edits < MaxEdits /\ \E p \in premisesOf(argument) :
        \E i \in DOMAIN argument.store[p].tree :
            \E results \in editsOf(p, argument.store[p], i) :
                ByHand(mutated(argument, p, results))
RemoveVariable == \E v \in argument.variables : ByHand(removeVariable(argument, v))
RemovePremise == \E p \in premisesOf(argument) : ByHand(removePremise(argument, p))

\* Switching normalizes nothing.
SetBehavior ==
    /\ edits < MaxEdits
    /\ behavior' \in {"permissive", "assistive"} \ {behavior}
    /\ edits' = edits + 1
    /\ UNCHANGED argument

Next ==
    \/ CreatePremise \/ Normalize
    \/ \E claim \in Claim, type \in Grounding : Populate(claim, type)
    \/ Repair \/ EditPremise \/ RemoveVariable \/ RemovePremise \/ SetBehavior

Spec == Init /\ [][Next]_vars

(***************************************************************************)
(* Properties.                                                             *)
(***************************************************************************)
\* Populating never fails half way, where what was built by then would stay, and
\* gives the premise of the claim the form D-1 to D-3 ask for, with
\* exactly the connected claims before the claim derived, and breaks no rule of
\* any tier that held before; in permissive behaviour only the parentheses of
\* the disjunction (P-1) may be missing.
leafKinds(t, e) == {t[i].kind : i \in leavesUnder(t, e)}
PopulatedForm(b, p, claim, type) ==
    LET t == treeOf(b, p)
    IN  /\ antecedentOf(t) # None
        /\ leafKinds(t, antecedentOf(t)) = Range(supportingOf(claim, type))
        /\ p \notin D1(argument) => p \notin D1(b) \cup D2(b) \cup D3(b)
        /\ validate(argument, "structural") = {} =>
             \A c \in codesOf("presentable") \ {"P-1"} :
                breaking(argument, c) = {} => breaking(b, c) = {}
        /\ behavior = "assistive" => breaking(b, "P-1") = {}
PopulateGivesTheForm ==
    \A claim \in Claim, type \in Grounding :
        LET p == findDerivationPremiseForClaim(argument, claim)
        IN  p # NoPremise /\ isNakedQTree(treeOf(argument, p)) /\ supportingOf(claim, type) # << >>
              => LET results == populateFromGrounding(argument, claim, type)
                 IN  /\ results # {}
                     /\ \A b \in results : PopulatedForm(b, p, claim, type)

leavesOf(a) ==
    UNION {{[premise |-> p, leaf |-> i, variable |-> treeOf(a, p)[i].kind] :
              i \in {j \in DOMAIN treeOf(a, p) : treeOf(a, p)[j].kind \in Variable}}
           : p \in premisesOf(a)}
axiomsOfMixed(a) ==
    {l \in leavesOf(a) : l.premise \in D3(a) /\
        l.leaf \in axiomsUnder(treeOf(a, l.premise), antecedentOf(treeOf(a, l.premise)))}

\* From every state a repair leaves no violation of the rule it is for, in any
\* premise, and takes no more than its target: apart from the axioms of mixed
\* antecedents, or duplicates and what stands for them, every leaf stays where
\* it was, and each claim that was derived still is.
RepairCures ==
    \A code \in {"E-1", "E-6", "D-3"} :
        breaking(argument, code) # {} =>
            \A b \in repaired(code) :
                LET gone == premisesOf(argument) \ premisesOf(b)
                    dead == (IF code = "D-3" THEN axiomsOfMixed(argument) ELSE {}) \cup
                            {l \in leavesOf(argument) :
                               l.premise \in gone \/ \E p \in gone : l.variable = variableOf[p]}
                IN  /\ breaking(b, code) = {}
                    /\ leavesOf(argument) \ dead \subseteq leavesOf(b)
                    /\ Range(b.derives) = Range(argument.derives)

\* normalize() keeps an argument that breaks no Derivable rule so: tidying
\* never costs a derivation its form.
NormalizeKeepsDerivable ==
    validate(argument, "derivable") = {} =>
        \A b \in normalizeArgument(argument) : validate(b, "presentable") = {}

\* The rules and the check evaluation makes for itself agree: a derivation that
\* breaks no rule up to Derivable is not refused when it is evaluated.
ChecksAgree ==
    \A p \in derivations(argument) :
        (\A c \in codesOf("derivable") : p \notin breaking(argument, c))
            => validateDerivationStructure(argument, p)
=============================================================================
