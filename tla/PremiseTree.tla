----------------------------- MODULE PremiseTree ----------------------------
(***************************************************************************)
(* One premise under edits, in permissive and in assistive behaviour, and  *)
(* under normalize().                                                      *)
(*                                                                         *)
(* One action per call of a premise.  A call that throws leaves the premise *)
(* as it was and is not a step.  In assistive behaviour the follow-up of a *)
(* call normalizes before the call returns; if it throws, the whole call   *)
(* is undone.  The premise belongs to an argument, so what validates it    *)
(* after a call looks at references to variables and premises only.        *)
(***************************************************************************)
EXTENDS AutoNormalization, Belnap

CONSTANTS
    Loaded,          \* the trees a premise may be loaded with
    AskedKinds,      \* bound: the kinds a caller adds
    AskedPositions,  \* bound: the positions a caller names
    MaxEdits,        \* bound: edits of the loaded tree
    MaxEdited        \* bound: size of a tree an edit leaves, before buffers

ASSUME LoadedAssumption ==
    \A t \in Loaded :
        t \in [DOMAIN t -> [kind : Kind, parent : {None} \cup Id, pos : PosMin..PosMax]]

ASSUME TreeAssumption ==
    /\ AskedKinds \subseteq Kind /\ AskedPositions \subseteq PosMin..PosMax
    /\ MaxEdits \in Nat /\ MaxEdited \in 0..MaxNodes

VARIABLES
    store,      \* the expressions of the premise
    behavior,   \* "permissive" or "assistive"
    edits,      \* calls made
    breaches    \* history, read by no action: what calls were made that a rule
                \* of the grammar forbids and the code accepts

vars == <<store, behavior, edits, breaches>>

(***************************************************************************)
(* evaluateSubtree: the four-valued value of every expression.             *)
(***************************************************************************)
valueIn(t, assignment) ==
    LET value[i \in DOMAIN t] ==
            LET k    == t[i].kind
                vals == [n \in 1..Cardinality(Children(t, i)) |->
                            value[getChildExpressions(t, i)[n]]]
            IN  CASE k \in Variable -> assignment[k]
                  [] k = "and" -> FoldLeft(belnapAnd, True, vals)
                  [] k = "or"  -> FoldLeft(belnapOr, False, vals)
                  [] k = "xor" -> FoldLeft(belnapXor, False, vals)
                  [] k = "formula" /\ vals # <<>> -> vals[1]
                  [] k = "not" /\ vals # <<>> -> belnapNot(vals[1])
                  [] k = "implies" /\ Len(vals) >= 2 -> belnapImplies(vals[1], vals[2])
                  [] k = "iff" /\ Len(vals) >= 2 -> belnapIff(vals[1], vals[2])
                  [] OTHER -> Null
    IN  value[rootExpressionId(t)]

\* Registers a tree as it is, with every slot recorded and no checksum old.
loadExpressions(t) ==
    [tree |-> t, dirty |-> {}, stale |-> {},
     slots |-> [p \in {None} \cup Id |-> {t[i].pos : i \in Children(t, p)}]]

Init == /\ \E t \in Loaded : store = loadExpressions(t)
        /\ behavior \in {"permissive", "assistive"}
        /\ edits = 0
        /\ breaches = {}

(***************************************************************************)
(* Edits.                                                                  *)
(***************************************************************************)
followUpWithNormalization(m) ==
    IF behavior = "assistive" THEN applyANToFixedPoint(m) ELSE {m}

\* A call with the given results happens.
MutatedBreaching(results, breach) ==
    /\ edits < MaxEdits
    /\ \E m \in results :
         /\ Cardinality(DOMAIN m.tree) <= MaxEdited
         /\ store' \in followUpWithNormalization(m)
    /\ edits' = edits + 1
    /\ breaches' = breaches \cup breach
    /\ UNCHANGED behavior

Mutated(results) == MutatedBreaching(results, {})

Node == DOMAIN store.tree
fresh == Min(freshIds(store))
fresh2 == Min(freshIds(store) \ {fresh})
hasRoom(n) == Cardinality(Node) + n <= MaxEdited

AddExpression ==
    /\ hasRoom(1)
    /\ \E k \in AskedKinds, p \in Node \cup {None}, pos \in AskedPositions :
         Mutated(pe_addExpression(store, fresh, k, p, pos))

AppendExpression ==
    /\ hasRoom(1)
    /\ \E k \in AskedKinds, p \in Node \cup {None} :
         Mutated(pe_appendExpression(store, fresh, k, p))

\* Nothing refuses a sibling of the root.
AddExpressionRelative ==
    /\ hasRoom(1)
    /\ \E k \in AskedKinds, s \in Node, where \in {"before", "after"} :
         MutatedBreaching(pe_addExpressionRelative(store, fresh, k, s, where),
                          IF parentOf(store.tree, s) = None THEN {"second root"} ELSE {})

UpdateExpression ==
    \E i \in Node :
        \/ \E k \in AskedKinds \ {store.tree[i].kind} :
             Mutated(pe_updateKind(store, i, k))
        \/ \E pos \in AskedPositions : Mutated(pe_updatePosition(store, i, pos))

RemoveExpression ==
    \E i \in Node, deleteSubtree \in BOOLEAN :
        Mutated(pe_removeExpression(store, i, deleteSubtree))

InsertExpression ==
    /\ hasRoom(1)
    /\ \E k \in AskedKinds, left, right \in Node \cup {None} :
         left # right /\ Mutated(pe_insertExpression(store, fresh, k, left, right))

WrapExpression ==
    /\ hasRoom(2)
    /\ \E k, sk \in AskedKinds, i \in Node, side \in {"left", "right"} :
         Mutated(pe_wrapExpression(store, fresh, k, fresh2, sk, i, side))

ReparentExpression ==
    \E i, p \in Node, pos \in AskedPositions :
        Mutated(pe_reparentExpression(store, i, p, pos))

WrapInFormula ==
    hasRoom(1) /\ \E i \in Node : Mutated(pe_wrapInFormula(store, i, fresh))

ToggleNegation ==
    hasRoom(1) /\ \E i \in Node : Mutated(pe_toggleNegation(store, i, fresh))

\* Nothing refuses to split two operands off into a not.
splitsIntoNot(i, k, a, b) ==
    k = "not" /\ a # b /\ Cardinality(Children(store.tree, i)) > 2

ChangeOperator ==
    /\ hasRoom(2)
    /\ \E i \in Node, k \in AskedKinds \cap Operator, a, b \in Node \cup {None} :
         MutatedBreaching(pe_changeOperator(store, i, k, a, b, fresh, fresh2),
                          IF splitsIntoNot(i, k, a, b) THEN {"two under not"} ELSE {})

DeleteExpressionsUsingVariable ==
    \E v \in Variable : Mutated(pe_deleteExpressionsUsingVariable(store, v))

\* Setting the behaviour normalizes nothing.
SetBehavior ==
    /\ edits < MaxEdits
    /\ behavior' \in {"permissive", "assistive"} \ {behavior}
    /\ UNCHANGED <<store, edits, breaches>>

Normalize ==
    /\ store' \in applyANToFixedPoint(store)
    /\ UNCHANGED <<behavior, edits, breaches>>

Next == \/ AddExpression \/ AppendExpression \/ AddExpressionRelative
        \/ UpdateExpression \/ RemoveExpression \/ InsertExpression
        \/ WrapExpression \/ ReparentExpression \/ WrapInFormula
        \/ ToggleNegation \/ ChangeOperator \/ DeleteExpressionsUsingVariable
        \/ SetBehavior \/ Normalize

Spec == Init /\ [][Next]_vars

(***************************************************************************)
(* Properties.                                                             *)
(***************************************************************************)
\* What every edit keeps of the order of a premise, though a mutation is
\* checked for its references only: parents that exist and can have children
\* (S-1), one child of a formula (S-13), and checksums of what an expression now
\* contains, although marking stops at the first one that is dirty already.  Nor
\* does it come to what validate() does not look for: a cycle (S-4), a third
\* operand of implies or iff (S-8), a position out of range.  Two calls the
\* code accepts break more, and no more than this: a not has one child (S-12)
\* until changeOperator splits two operands off into one, and there is one root
\* until an expression is added beside it, below which an implies or iff can
\* then be moved (S-5).
StructuralBut(t, broken) ==
    /\ DOMAIN t \subseteq Id
    /\ \A i \in DOMAIN t :
         /\ t[i].kind \in Kind /\ t[i].pos \in PosMin..PosMax
         /\ t[i].parent # None => kindOf(t, t[i].parent) \in Container
         /\ climb(t, i)[MaxNodes] = None
         /\ t[i].kind = "formula" => soundChildren(t, i)
         /\ t[i].kind \in RootOnly => Cardinality(Children(t, i)) <= 2
         /\ "two under not" \notin broken => soundChildren(t, i)
         /\ "second root" \notin broken => soundExpression(t, i)
    /\ "second root" \notin broken => Cardinality(Children(t, None)) <= 1

Structural(t) == StructuralBut(t, {})

StaysStructural ==
    /\ StructuralBut(store.tree, breaches)
    /\ soundChecksums(store) /\ store.dirty = {}

\* "Structural violations roll back and throw" (premise-engine.ts): what
\* validate() asks of a premise holds after every call that does not throw.
StructuralViolationsThrow == validateExpressionManagerInvariants(store)

\* Siblings have distinct positions (S-9): "mutations that would produce a
\* collision throw" (Proposit_Grammar.md).
apart(t) == \A i \in DOMAIN t : soundSiblings(t, i)
CollisionsThrow == apart(store.tree)

\* No edit reorders siblings that keep their parent, and one that adds no
\* expression at most the one it moves, also when it spreads crowded siblings:
\* the order of premise and conclusion of an implication is its meaning.  (The
\* id of a new buffer may be one the same call freed: formulas are not compared.)
\* Nor does an edit put two siblings on one position (S-9), as long as every
\* position is recorded: wrapInFormula leaves one that is not.  Both hold up to
\* zero: a crowd that is spread across it can leave two siblings there, since
\* the new positions are truncated toward zero from either side.
meetAtZero(t, i, j) == t[i].pos = 0 /\ t[j].pos = 0
orderKept(x) ==
    \A i, j \in {n \in DOMAIN store.tree \ {x} :
                   kindOf(store'.tree, n) \notin {"none", "formula"}} :
        (/\ store.tree[i].parent = store.tree[j].parent
         /\ {store'.tree[i].parent, store'.tree[j].parent} = {store.tree[i].parent}
         /\ store.tree[i].pos < store.tree[j].pos)
          => store'.tree[i].pos < store'.tree[j].pos \/ meetAtZero(store'.tree, i, j)
adds == \E i \in DOMAIN store'.tree \ DOMAIN store.tree : store'.tree[i].kind # "formula"
apartUpToZero(t) ==
    \A i, j \in DOMAIN t :
        i # j /\ t[i].parent = t[j].parent => t[i].pos # t[j].pos \/ meetAtZero(t, i, j)
allRecorded(m) == \A i \in DOMAIN m.tree : m.tree[i].pos \in m.slots[m.tree[i].parent]
KeepsOrder ==
    [][/\ orderKept(None) \/ (~adds /\ \E x \in Id : orderKept(x))
       /\ apart(store.tree) /\ allRecorded(store) => apartUpToZero(store'.tree)]_vars

\* An edit in assistive behaviour and normalize() end in a premise that keeps
\* P-1, P-2, P-4 and P-5, and P-3 for every formula that is not directly
\* around another, unless a not was given two children: no rule takes away the
\* negation of such a not.
Tidy(t) ==
    /\ P1(t) /\ P2(t) /\ P4(t) /\ P5(t)
    /\ \A f \in DOMAIN t :
         t[f].kind = "formula" =>
            \/ hasBinaryOperatorInBoundedSubtree(t, f)
            \/ kindOf(t, onlyChild(t, f)) = "formula"
Tidied ==
    \/ behavior' = "assistive" /\ edits' # edits
    \/ store' # store /\ edits' = edits
NormalizeTidies ==
    [][Tidied /\ "two under not" \notin breaches' => Tidy(store'.tree)]_vars

\* normalize() of an evaluable premise changes neither its value, under any
\* four-valued assignment, nor the order in which its variables are read, but
\* for two operands of an absorbed connective whose places, truncated, are both
\* zero: the later one is then put before the earlier one.
evaluable(t) ==
    apart(t) /\ \A i \in DOMAIN t :
        LET n == Cardinality(Children(t, i))
        IN  /\ t[i].kind \in Variadic => n >= 2
            /\ t[i].kind \in RootOnly => n = 2
            /\ t[i].kind \in {"not", "formula"} => n = 1

sameMeaning(t, u) ==
    \A assignment \in [Variable -> Four] : valueIn(t, assignment) = valueIn(u, assignment)

\* i is read before j.
readsBefore(t, i, j) ==
    \E a \in selfAndAbove(t, i), b \in selfAndAbove(t, j) :
        a # b /\ t[a].parent = t[b].parent /\ t[a].pos < t[b].pos

swappedAtZero(t, u, i, j) ==
    \E a \in selfAndAbove(u, i) \cap DOMAIN t, b \in selfAndAbove(u, j) \cap DOMAIN t :
        /\ u[a].parent = u[b].parent /\ u[a].pos = 0 /\ u[b].pos < 0
        /\ t[a].parent # u[a].parent /\ t[b].parent # u[b].parent

sameReading(t, u) ==
    LET leaves(x) == {i \in DOMAIN x : x[i].kind \in Variable}
    IN  /\ leaves(t) = leaves(u)
        /\ \A i, j \in leaves(t) :
              readsBefore(t, i, j) => readsBefore(u, i, j) \/ swappedAtZero(t, u, i, j)

NormalizeKeepsMeaning ==
    [][edits' = edits /\ store' # store /\ evaluable(store.tree)
         => sameMeaning(store.tree, store'.tree) /\ sameReading(store.tree, store'.tree)]_vars
=============================================================================
