-------------------------- MODULE ExpressionManager -------------------------
(***************************************************************************)
(* The flat store of a premise's expressions (core/expression-manager.ts   *)
(* and expression-manager/).                                               *)
(*                                                                         *)
(* A store m is a record: tree, the expressions (kind, parent, position);  *)
(* slots, the positions recorded as taken under each parent, an index kept *)
(* beside the tree; dirty, the expressions whose checksums are to be       *)
(* computed again; stale, those whose stored checksum is not that of what  *)
(* they contain.  The index of child ids is the inverse of the parent      *)
(* field and is not kept.  An operation that can throw returns a set of    *)
(* stores, empty when it throws: the caller restores a snapshot.           *)
(***************************************************************************)
EXTENDS Integers, SequencesExt

CONSTANTS
    PosMin, PosMax, PosInitial,   \* the range of positions, and the first one
    MaxNodes,   \* bound: expressions of the premise at any time
    Variable    \* the variables an expression can refer to

ASSUME PositionAssumption ==
    /\ PosMin \in Int /\ PosMax \in Int /\ PosInitial \in Int
    /\ PosMin < PosInitial /\ PosInitial < PosMax
    /\ 0 \in PosMin..PosMax   \* wrapInFormula and the callers of AN-1 name it

ASSUME StoreAssumption ==
    /\ MaxNodes \in Nat
    /\ Variable \cap {"and", "or", "xor", "not", "implies", "iff", "formula", "none"} = {}

None == 0
Id == 1..MaxNodes

Variadic == {"and", "or", "xor"}
RootOnly == {"implies", "iff"}
Operator == Variadic \cup RootOnly \cup {"not"}
Container == Operator \cup {"formula"}
Kind == Variable \cup Container

emptyStore == [tree |-> << >>, slots |-> [p \in {None} \cup Id |-> {}],
               dirty |-> {}, stale |-> {}]

(***************************************************************************)
(* Positions (utils/position.ts, the redistribution here and in checks.ts, *)
(* the spacing of AN-4).  A sequence ps stands for the positions of one    *)
(* parent's children, in their order.  An operation that can fail for want *)
(* of room returns a set of results, empty when the code throws.  The code *)
(* divides doubles and truncates; the model divides exactly.               *)
(***************************************************************************)
\* Math.trunc(n / d): toward zero, so two sides of zero round differently.
trunc(n, d) == IF n >= 0 THEN n \div d ELSE -((-n) \div d)

midpoint(a, b) == trunc(a + b, 2)

\* The i-th of count evenly spaced positions strictly between lo and hi.
spaced(lo, hi, count, i) ==
    trunc(lo * (count + 1) + (hi - lo) * i, count + 1)

\* The end points of the gap after the g-th sibling.
gapLeft(ps, g) == IF g = 0 THEN PosMin ELSE ps[g]
gapRight(ps, g) == IF g = Len(ps) THEN PosMax ELSE ps[g + 1]

(***************************************************************************)
(* validateRepositionSiblings: the run of crowded siblings on one side of  *)
(* the gap that is spread over the free space beyond it.                   *)
(***************************************************************************)
indexOf(ps, x) ==
    IF \E i \in DOMAIN ps : ps[i] = x
    THEN CHOOSE i \in DOMAIN ps : ps[i] = x /\ \A j \in 1..(i - 1) : ps[j] # x
    ELSE 0

crowded(ps, i, j) == \A k \in i..(j - 1) : ps[k + 1] - ps[k] <= 1

leftScan(ps, k) == Min({i \in 1..k : crowded(ps, i, k)})
rightScan(ps, k) == Max({i \in k..Len(ps) : crowded(ps, k, i)})

\* Faulty variant: the run is spread up to the end of the range.
validateRepositionSiblings_WholeRange(ps, leftPos, rightPos) ==
    LET left  == indexOf(ps, leftPos)
        right == indexOf(ps, rightPos)
        leftCount  == IF left = 0 THEN 0 ELSE left - leftScan(ps, left) + 1
        rightCount == IF right = 0 THEN 0 ELSE rightScan(ps, right) - right + 1
    IN  IF leftCount > 0 /\ (leftCount < rightCount \/ rightCount = 0)
        THEN [first |-> leftScan(ps, left), last |-> left,
              lo |-> PosMin, hi |-> rightPos]
        ELSE [first |-> right, last |-> rightScan(ps, right),
              lo |-> leftPos, hi |-> PosMax]

validateRepositionSiblings(ps, leftPos, rightPos) ==
    LET left  == indexOf(ps, leftPos)
        right == indexOf(ps, rightPos)
        leftCount  == IF left = 0 THEN 0 ELSE left - leftScan(ps, left) + 1
        rightCount == IF right = 0 THEN 0 ELSE rightScan(ps, right) - right + 1
    IN  IF leftCount > 0 /\ (leftCount < rightCount \/ rightCount = 0)
        THEN [first |-> leftScan(ps, left), last |-> left,
              lo |-> gapLeft(ps, leftScan(ps, left) - 1), hi |-> rightPos]
        ELSE [first |-> right, last |-> rightScan(ps, right),
              lo |-> leftPos, hi |-> gapRight(ps, rightScan(ps, right))]

\* The run and the new positions; nothing when the run does not fit.
spread(ps, run, count) ==
    IF run.hi - run.lo <= count THEN {}
    ELSE {[run |-> run.first..run.last,
           ps  |-> [i \in DOMAIN ps |->
                        IF i \in run.first..run.last
                        THEN spaced(run.lo, run.hi, count, i - run.first + 1)
                        ELSE ps[i]]]}

repositionRun(ps, run) == spread(ps, run, run.last - run.first + 1)

repositionSiblings(ps, leftPos, rightPos) ==
    repositionRun(ps, validateRepositionSiblings(ps, leftPos, rightPos))

(***************************************************************************)
(* AN-4: positions for count absorbed children in the gap (lo, hi), away   *)
(* from the formula that still sits in it.                                 *)
(***************************************************************************)
freeNear(target, lo, hi, forbidden) ==
    LET down(k) == target - k > lo /\ target - k \notin forbidden
        up(k)   == target + k < hi /\ target + k \notin forbidden
        rings   == {k \in 1..(hi - lo - 1) : down(k) \/ up(k)}
    IN  IF target \notin forbidden THEN {target}
        ELSE IF rings = {} THEN {}
        ELSE {IF down(Min(rings)) THEN target - Min(rings)
                                  ELSE target + Min(rings)}

absorbedPositions(lo, hi, count, formulaPos) ==
    LET placed[i \in 0..count] ==
            IF i = 0 THEN {<<>>}
            ELSE UNION {{Append(qs, q) :
                           q \in freeNear(spaced(lo, hi, count, i), lo, hi,
                                          {formulaPos} \cup {qs[j] : j \in DOMAIN qs})}
                        : qs \in placed[i - 1]}
    IN  placed[count]

\* redistributeChildrenEvenly, for n children over the whole range.
redistributed(n) == [i \in 1..n |-> spaced(PosMin, PosMax, n, i)]

(***************************************************************************)
(* Reading the tree.                                                       *)
(***************************************************************************)
Children(t, p) == {i \in DOMAIN t : t[i].parent = p}

\* By position.  Two on one position come in the order they were added, for
\* which their ids stand here.
sortsBefore(t, i, j) == t[i].pos < t[j].pos \/ (t[i].pos = t[j].pos /\ i < j)

getChildExpressions(t, p) ==
    LET kids == Children(t, p)
    IN  [n \in 1..Cardinality(kids) |->
            CHOOSE i \in kids : Cardinality({j \in kids : sortsBefore(t, j, i)}) = n - 1]

positionsOf(t, ids) == [k \in DOMAIN ids |-> t[ids[k]].pos]

\* The only child of i, if it has exactly one.
onlyChild(t, i) ==
    IF Cardinality(Children(t, i)) = 1 THEN CHOOSE c \in Children(t, i) : TRUE
                                       ELSE None

kindOf(t, i) == IF i \in DOMAIN t THEN t[i].kind ELSE "none"
parentOf(t, i) == IF i \in DOMAIN t THEN t[i].parent ELSE None

\* i, its parent, its grandparent and so on.
climb(t, i) ==
    LET up[n \in 0..MaxNodes] ==
            IF n = 0 THEN i ELSE parentOf(t, up[n - 1])
    IN  up

selfAndAbove(t, i) ==
    LET above[n \in 0..MaxNodes] ==
            IF n = 0 THEN {i}
            ELSE {i} \cup {parentOf(t, j) : j \in above[n - 1]}
    IN  above[MaxNodes] \ {None}

subtree(t, i) == {j \in DOMAIN t : i \in selfAndAbove(t, j)}

freshIds(m) == Id \ DOMAIN m.tree

(***************************************************************************)
(* Checksums.  A store under change collects dirty expressions; flush      *)
(* computes their checksums and leaves every other one as it was.          *)
(***************************************************************************)
\* Marking stops at the first expression that is dirty already.
markExpressionDirty(m, i) ==
    LET up == climb(m.tree, i)
    IN  [m EXCEPT !.dirty = @ \cup
            {up[n] : n \in {k \in 0..MaxNodes :
                               up[k] # None /\ \A j \in 0..k : up[j] \notin m.dirty}}]

flushExpressionChecksums(before, m) ==
    LET changed == {i \in DOMAIN m.tree :
                       \/ kindOf(before.tree, i) # m.tree[i].kind
                       \/ m.tree[i] # before.tree[i]
                       \/ Children(m.tree, i) # Children(before.tree, i)}
        outdated == UNION {selfAndAbove(m.tree, i) : i \in changed}
    IN  [m EXCEPT !.stale = ((before.stale \cup outdated) \ m.dirty)
                                \cap DOMAIN m.tree,
                  !.dirty = {}]

(***************************************************************************)
(* The four ways a node enters, leaves or moves.                           *)
(***************************************************************************)
storeExpression(m, i, k, p, pos) ==
    [m EXCEPT !.tree = [j \in DOMAIN @ \cup {i} |->
                           IF j = i THEN [kind |-> k, parent |-> p, pos |-> pos]
                                    ELSE m.tree[j]],
              !.slots[p] = @ \cup {pos}]

detachExpression(m, i) ==
    [m EXCEPT !.tree = [j \in DOMAIN @ \ {i} |-> @[j]],
              !.slots[m.tree[i].parent] = @ \ {m.tree[i].pos},
              !.slots[i] = {},
              !.dirty = @ \ {i}]

reparent(m, i, p, pos) ==
    LET old   == m.tree[i]
        moved == [m EXCEPT !.tree[i].parent = p, !.tree[i].pos = pos,
                           !.slots[old.parent] = @ \ {old.pos},
                           !.slots[p] = @ \cup {pos}]
    IN  IF old.parent \in {None, p}
        THEN markExpressionDirty(moved, i)
        ELSE markExpressionDirty(markExpressionDirty(moved, i), old.parent)

\* A node is rewritten where it stands.
rewrite(m, i, k) == markExpressionDirty([m EXCEPT !.tree[i].kind = k], i)

(***************************************************************************)
(* Adding.                                                                 *)
(***************************************************************************)
childLimitReached(t, p) ==
    \/ t[p].kind \in {"not", "formula"} /\ Cardinality(Children(t, p)) >= 1
    \/ t[p].kind \in RootOnly /\ Cardinality(Children(t, p)) >= 2

addExpression(m, i, k, p, pos) ==
    IF \/ k \in RootOnly /\ p # None
       \/ p # None /\ kindOf(m.tree, p) \notin Container
       \/ p # None /\ childLimitReached(m.tree, p)
       \/ pos \in m.slots[p]
    THEN {}
    ELSE {markExpressionDirty(storeExpression(m, i, k, p, pos), i)}

\* Spreads the crowded run beside the gap (leftPos, rightPos) of p's children.
repositioned(m, p, leftPos, rightPos) ==
    LET ids == getChildExpressions(m.tree, p)
        ps  == positionsOf(m.tree, ids)
    IN  {LET run == {ids[k] : k \in r.run}
             new == [i \in run |-> r.ps[CHOOSE k \in r.run : ids[k] = i]]
             moved == [m EXCEPT
                 !.tree = [i \in DOMAIN @ |-> IF i \in run
                                              THEN [@[i] EXCEPT !.pos = new[i]]
                                              ELSE @[i]],
                 !.slots[p] = (@ \ {m.tree[i].pos : i \in run})
                                \cup {new[i] : i \in run}]
         IN  [moved EXCEPT !.dirty =
                 @ \cup UNION {markExpressionDirty(moved, i).dirty : i \in run}]
         : r \in repositionSiblings(ps, leftPos, rightPos)}

\* A new child in the gap after the g-th child of p.
midOfGap(ps, g) == midpoint(gapLeft(ps, g), gapRight(ps, g))
childPositions(m, p) == positionsOf(m.tree, getChildExpressions(m.tree, p))

roomier(m, p, ps, g) ==
    IF midOfGap(ps, g) \in {gapLeft(ps, g), gapRight(ps, g)}
    THEN repositioned(m, p, gapLeft(ps, g), gapRight(ps, g)) ELSE {m}

addInGap(m, i, k, p, g) ==
    UNION {addExpression(x, i, k, p, midOfGap(childPositions(x, p), g)) :
              x \in roomier(m, p, childPositions(m, p), g)}

\* The end gap is [last, PosMax]; its midpoint is never PosMax.
appendExpression(m, i, k, p) ==
    LET n == Cardinality(Children(m.tree, p))
    IN  IF n = 0 THEN addExpression(m, i, k, p, PosInitial)
                 ELSE addInGap(m, i, k, p, n)

addExpressionRelative(m, i, k, sibling, where) ==
    LET p   == m.tree[sibling].parent
        ids == getChildExpressions(m.tree, p)
        at  == CHOOSE n \in DOMAIN ids : ids[n] = sibling
    IN  addInGap(m, i, k, p, IF where = "before" THEN at - 1 ELSE at)

(***************************************************************************)
(* Updating in place.                                                      *)
(***************************************************************************)
updatePosition(m, i, pos) ==
    LET p    == m.tree[i].parent
        left == m.slots[p] \ {m.tree[i].pos}
    IN  IF pos \in left THEN {}
        ELSE {markExpressionDirty([m EXCEPT !.tree[i].pos = pos,
                                            !.slots[p] = left \cup {pos}], i)}

\* An operator may change within its arity class; not is in neither.
isPermittedOperatorSwap(from, to) ==
    {from, to} \subseteq Variadic \/ {from, to} \subseteq RootOnly

updateKind(m, i, k) ==
    IF \/ {m.tree[i].kind, k} \subseteq Variable
       \/ isPermittedOperatorSwap(m.tree[i].kind, k)
    THEN {rewrite(m, i, k)}
    ELSE {}

changeOperatorType(m, i, k) ==
    IF k = "not" \/ (k \in RootOnly /\ m.tree[i].parent # None) THEN {}
    ELSE {rewrite(m, i, k)}

(***************************************************************************)
(* Removing.                                                               *)
(***************************************************************************)
markParent(m, p) == IF p = None THEN m ELSE markExpressionDirty(m, p)

removeSubtree(m, i) ==
    LET gone == subtree(m.tree, i)
        p    == m.tree[i].parent
        cut  == detachExpression(m, i)
    IN  markParent([cut EXCEPT !.tree = [j \in DOMAIN m.tree \ gone |-> m.tree[j]],
                               !.slots = [j \in DOMAIN @ |-> IF j \in gone THEN {} ELSE @[j]],
                               !.dirty = @ \ gone], p)

\* More than one child cannot be promoted, nor implies or iff below the root.
validateRemoveAndPromote(m, i) ==
    /\ Cardinality(Children(m.tree, i)) <= 1
    /\ \A c \in Children(m.tree, i) :
          m.tree[c].kind \in RootOnly => m.tree[i].parent = None

\* The only child takes the slot of its removed parent.
removeAndPromote(m, i) ==
    LET old == m.tree[i]
        c   == onlyChild(m.tree, i)
    IN  IF ~validateRemoveAndPromote(m, i) THEN {}
        ELSE IF c = None THEN {markParent(detachExpression(m, i), old.parent)}
        ELSE {markExpressionDirty(
                [m EXCEPT !.tree = [j \in DOMAIN @ \ {i} |->
                                       IF j = c THEN [old EXCEPT !.kind = m.tree[c].kind]
                                                ELSE @[j]],
                          !.slots[i] = {},
                          !.dirty = @ \ {i}], c)}

\* Only of an expression without children.
deleteExpression(m, i) == markParent(detachExpression(m, i), m.tree[i].parent)

(***************************************************************************)
(* Inserting above existing expressions.                                   *)
(***************************************************************************)
SecondPosition == midpoint(PosInitial, PosMax)

anchorOf(m, left, right) == m.tree[IF left # None THEN left ELSE right]

validateInsertExpression(m, k, left, right) ==
    /\ left # right
    /\ k \in Container
    /\ k \in {"not", "formula"} => None \in {left, right}
    /\ \A i \in {left, right} \ {None} : m.tree[i].kind \notin RootOnly
    /\ k \in RootOnly => anchorOf(m, left, right).parent = None

\* e comes above left, right or both, in the slot of left (else right).  With
\* right above left the call closes a cycle in which the depth computation of
\* the flush never ends: no store results.
insertExpression(m, e, k, left, right) ==
    LET anchor == anchorOf(m, left, right)
        m1 == IF right = None THEN m
              ELSE reparent(m, right, e, IF left = None THEN PosInitial
                                                        ELSE SecondPosition)
        m2 == IF left = None THEN m1 ELSE reparent(m1, left, e, PosInitial)
    IN  IF \/ ~validateInsertExpression(m, k, left, right)
           \/ None \notin {left, right} /\ right \in selfAndAbove(m.tree, left)
        THEN {}
        ELSE {markExpressionDirty(
                storeExpression(m2, e, k, anchor.parent, anchor.pos), e)}

validateWrapExpression(m, k, sk, node) ==
    /\ k \in Operator \ {"not"}
    /\ k \in RootOnly => m.tree[node].parent = None
    /\ m.tree[node].kind \notin RootOnly
    /\ sk \notin RootOnly

\* An operator op above an existing node and a new sibling.
wrapExpression(m, op, k, sib, sk, node, side) ==
    LET anchor == m.tree[node]
        first(b) == IF b THEN PosInitial ELSE SecondPosition
        m1 == reparent(m, node, op, first(side = "left"))
        m2 == storeExpression(m1, sib, sk, op, first(side = "right"))
        m3 == storeExpression(m2, op, k, anchor.parent, anchor.pos)
    IN  IF ~validateWrapExpression(m, k, sk, node) THEN {}
        ELSE {markExpressionDirty(markExpressionDirty(m3, sib), op)}

\* The formula takes the child's slot, which the child then frees under their
\* parent: the parent's slots no longer name the position of the formula, and
\* what asks them only may put a sibling there.
wrapInFormula(m, child, f) ==
    LET old == m.tree[child]
    IN  IF old.parent = None THEN {}
        ELSE {markExpressionDirty(
                reparent(storeExpression(m, f, "formula", old.parent, old.pos),
                         child, f, 0), f)}

(***************************************************************************)
(* What validate() asks of a store                                         *)
(***************************************************************************)
\* Each expression by itself.
soundExpression(t, i) ==
    /\ t[i].kind \in Kind
    /\ t[i].parent # i
    /\ t[i].parent # None => kindOf(t, t[i].parent) \in Container
    /\ t[i].kind \in RootOnly => t[i].parent = None

\* How many children it has.
soundChildren(t, i) ==
    t[i].kind \in {"not", "formula"} => Cardinality(Children(t, i)) <= 1

\* Siblings together.
soundSiblings(t, i) ==
    \A j \in Children(t, t[i].parent) \ {i} : t[j].pos # t[i].pos

soundChecksums(m) == m.stale \cap DOMAIN m.tree = {}

validateExpressionManagerInvariants(m) ==
    /\ \A i \in DOMAIN m.tree :
         soundExpression(m.tree, i) /\ soundChildren(m.tree, i) /\ soundSiblings(m.tree, i)
    /\ soundChecksums(m)

(***************************************************************************)
(* The mutations of a premise (core/premise-engine.ts).                    *)
(*                                                                         *)
(* Each operator is one call: the premise's own checks, the work of the    *)
(* expression store, and the flush of the checksums that ends every call.  *)
(* Its result is a set of stores, empty when the call throws; the code     *)
(* then restores the snapshot taken before the call.                       *)
(***************************************************************************)
\* syncRootExpressionId: the first expression without a parent.
rootExpressionId(t) ==
    IF Children(t, None) = {} THEN None ELSE getChildExpressions(t, None)[1]

finalized(m, results) == {flushExpressionChecksums(m, x) : x \in results}

pe_addExpression(m, i, k, p, pos) ==
    IF p = None /\ rootExpressionId(m.tree) # None THEN {}
    ELSE finalized(m, addExpression(m, i, k, p, pos))

pe_appendExpression(m, i, k, p) ==
    IF p = None /\ rootExpressionId(m.tree) # None THEN {}
    ELSE finalized(m, appendExpression(m, i, k, p))

pe_addExpressionRelative(m, i, k, sibling, where) ==
    finalized(m, addExpressionRelative(m, i, k, sibling, where))

\* A call that updates both is the one after the other.
pe_updatePosition(m, i, pos) == finalized(m, updatePosition(m, i, pos))
pe_updateKind(m, i, k) == finalized(m, updateKind(m, i, k))

pe_removeExpression(m, i, deleteSubtree) ==
    finalized(m, IF deleteSubtree THEN {removeSubtree(m, i)}
                                  ELSE removeAndPromote(m, i))

pe_insertExpression(m, e, k, left, right) ==
    finalized(m, insertExpression(m, e, k, left, right))

pe_wrapExpression(m, op, k, sib, sk, node, side) ==
    finalized(m, wrapExpression(m, op, k, sib, sk, node, side))

pe_wrapInFormula(m, child, f) ==
    finalized(m, wrapInFormula(m, child, f))

\* Faulty variant: an expression may move below its own descendant.
pe_reparentExpression_Below(m, i, p, pos) ==
    IF \/ kindOf(m.tree, p) \notin Container
       \/ i = p
       \/ \E s \in Children(m.tree, p) \ {i} : m.tree[s].pos = pos
       \/ m.tree[i].parent # p /\ childLimitReached(m.tree, p)
    THEN {}
    ELSE finalized(m, {reparent(m, i, p, pos)})

\* Looks at the siblings themselves and not at the recorded slots.
pe_reparentExpression(m, i, p, pos) ==
    IF \/ kindOf(m.tree, p) \notin Container
       \/ i \in selfAndAbove(m.tree, p)
       \/ \E s \in Children(m.tree, p) \ {i} : m.tree[s].pos = pos
       \/ m.tree[i].parent # p /\ childLimitReached(m.tree, p)
    THEN {}
    ELSE finalized(m, {reparent(m, i, p, pos)})

(***************************************************************************)
(* toggleNegation: take away the not above i, directly or around a         *)
(* formula, or i itself if it is one; else put one above i.                *)
(***************************************************************************)
notAbove(t, i) ==
    LET p == parentOf(t, i)
        g == parentOf(t, p)
    IN  IF kindOf(t, p) = "not" THEN p
        ELSE IF kindOf(t, p) = "formula" /\ kindOf(t, g) = "not" THEN g
        ELSE IF t[i].kind = "not" THEN i
        ELSE None

pe_toggleNegation(m, i, fresh) ==
    LET n == notAbove(m.tree, i)
    IN  finalized(m, IF n # None THEN removeAndPromote(m, n)
                     ELSE insertExpression(m, fresh, "not", i, None))

(***************************************************************************)
(* changeOperator.                                                         *)
(***************************************************************************)
\* The like operator above i that absorbs it when it has fewer than two
\* children, seen through a formula.
mergeTarget(t, i, k) ==
    LET p == parentOf(t, i)
        g == parentOf(t, p)
    IN  IF Cardinality(Children(t, i)) >= 2 THEN None
        ELSE IF kindOf(t, p) = k THEN p
        ELSE IF kindOf(t, p) = "formula" /\ kindOf(t, g) = k THEN g
        ELSE None

mergeDissolvingOperator(m, i, target) ==
    LET p    == m.tree[i].parent
        slot == IF p = target THEN m.tree[i].pos ELSE m.tree[p].pos
        c    == onlyChild(m.tree, i)
        m1   == IF c = None THEN m ELSE reparent(m, c, target, slot)
        m2   == deleteExpression(m1, i)
    IN  IF p = target THEN m2 ELSE deleteExpression(m2, p)

\* Children a and b of i move under a new operator op in a new formula f; in
\* between they have no parent.
splitOperatorChildren(m, i, k, a, b, f, op) ==
    LET one == IF m.tree[a].pos <= m.tree[b].pos THEN a ELSE b
        two == IF one = a THEN b ELSE a
        m1 == reparent(m, one, None, m.tree[one].pos)
        m2 == reparent(m1, two, None, m.tree[two].pos)
        m3 == addExpression(m2, f, "formula", i, m.tree[one].pos)
        m4 == UNION {addExpression(x, op, k, f, PosInitial) : x \in m3}
    IN  {reparent(reparent(x, one, op, PosInitial), two, op, SecondPosition) : x \in m4}

\* a and b are None when the caller names no children to split off.
pe_changeOperator(m, i, k, a, b, f, op) ==
    LET kids    == Children(m.tree, i)
        inPlace == Cardinality(kids) <= 2 \/ (a = None /\ b = None /\ k \in Variadic)
        target  == mergeTarget(m.tree, i, k)
    IN  IF m.tree[i].kind \notin Operator \ {"not", k} THEN {}
        ELSE finalized(m,
               IF inPlace
               THEN IF target = None THEN changeOperatorType(m, i, k)
                                     ELSE {mergeDissolvingOperator(m, i, target)}
               ELSE IF {a, b} \subseteq kids
               THEN splitOperatorChildren(m, i, k, a, b, f, op)
               ELSE {})

\* Every expression of a variable goes with its subtree, one call after the
\* other.
pe_deleteExpressionsUsingVariable(m, v) ==
    LET users == {i \in DOMAIN m.tree : m.tree[i].kind = v}
        left[n \in 0..MaxNodes] ==
            IF n = 0 THEN {m}
            ELSE IF n \in users
                 THEN UNION {pe_removeExpression(x, n, TRUE) : x \in left[n - 1]}
                 ELSE left[n - 1]
    IN  IF users = {} THEN {} ELSE left[MaxNodes]
=============================================================================
