------------------------------- MODULE Changeset ------------------------------
(***************************************************************************)
(* Changesets: what a call on the argument engine changed, how the changes *)
(* of successive calls combine, and the statements that bring a relational *)
(* store up to date (core/change-collector.ts, utils/changeset-merge.ts,   *)
(* utils/changeset-order.ts), and the difference between two states.       *)
(*                                                                         *)
(* A row is a premise, a variable (symbol, the premise it is bound to) or  *)
(* an expression (premise, parent, type, variable); one more row holds the *)
(* role state, the conclusion premise.  A changeset maps the id of a       *)
(* changed row to its bucket and latest value, as the maps of a collector  *)
(* do for each kind of row; the order a map lists its entries in is left   *)
(* open.                                                                   *)
(***************************************************************************)
EXTENDS Integers, SequencesExt

None == "none"
Roles == "roles"  \* the id of the one row with the role state
noChanges == [id \in {} |-> None]

\* The rows of a kind that are in a bucket.
listed(changes, kind, bucket) ==
    {id \in DOMAIN changes : changes[id].row.kind = kind /\ changes[id].bucket = bucket}

(***************************************************************************)
(* Recording and combining.                                                *)
(***************************************************************************)
\* The bucket of an entry that was in one bucket and is recorded in another.
nextBucket(earlier, bucket) ==
    IF bucket = "added" /\ earlier = "removed" THEN "modified"
    ELSE IF bucket = "modified" /\ earlier = "added" THEN "added"
    ELSE bucket

\* An entry recorded on top of an earlier one of the same row.
recordEntityChange(earlier, entry) == [entry EXCEPT !.bucket = nextBucket(earlier.bucket, @)]

\* A row added and then removed leaves no entry.
composeChangesets(first, then) ==
    LET undone == {id \in DOMAIN first \cap DOMAIN then :
                      first[id].bucket = "added" /\ then[id].bucket = "removed"}
    IN  [id \in (DOMAIN first \cup DOMAIN then) \ undone |->
            IF id \notin DOMAIN then THEN first[id]
            ELSE IF id \notin DOMAIN first THEN then[id]
            ELSE recordEntityChange(first[id], then[id])]

\* Added and modified expressions and premises as they are now.
withCurrentEntries(changes, rows) ==
    [id \in DOMAIN changes |->
        IF \/ changes[id].row.kind = "variables" \/ changes[id].bucket = "removed"
           \/ id \notin DOMAIN rows
        THEN changes[id] ELSE [changes[id] EXCEPT !.row = rows[id]]]

(***************************************************************************)
(* Ordering.  A statement carries the fields it writes.                    *)
(***************************************************************************)
update(id, fields) == [type |-> "update", id |-> id, data |-> fields]
detach(id) == update(id, [parent |-> None])

\* One statement for each id of a sequence.
statements(type, changes, ids) ==
    [k \in DOMAIN ids |-> [type |-> type, id |-> ids[k], data |-> changes[ids[k]].row]]

\* Parents listed come before their children.
topologicalSortExpressions(changes, ids) ==
    CHOOSE s \in SetToSeqs(ids) :
        \A j, k \in DOMAIN s : changes[s[k]].row.parent = s[j] => j < k

\* Faulty variant: only a new variable makes an update late.
namesNewRow_VariableOnly(changes, row) ==
    row.variable \in listed(changes, "variables", "added")

namesNewRow(changes, row) ==
    \/ row.premise \in listed(changes, "premises", "added")
    \/ row.variable \in listed(changes, "variables", "added")

\* Expression updates that need an insert first.
late(changes) ==
    {id \in listed(changes, "expressions", "modified") :
        \/ changes[id].row.parent \in listed(changes, "expressions", "added")
        \/ namesNewRow(changes, changes[id].row)}

earlyStatement(changes, id) ==
    LET row == changes[id].row
    IN  IF id \notin late(changes) THEN update(id, row)
        ELSE IF namesNewRow(changes, row) THEN detach(id)
        ELSE update(id, [row EXCEPT !.parent = None])

holdDeletes(changes) == \E id \in late(changes) : namesNewRow(changes, changes[id].row)

boundToNewPremise(changes, id) ==
    changes[id].row.bound \in listed(changes, "premises", "added")

inSomeOrder(type, changes, ids) == statements(type, changes, SetToSeq(ids))

earlyVariables(changes) ==
    {id \in listed(changes, "variables", "modified") : ~boundToNewPremise(changes, id)}
lateVariables(changes) == listed(changes, "variables", "modified") \ earlyVariables(changes)

when(condition, s) == IF condition THEN s ELSE << >>

\* Updates that need no insert, then the deletes, the held ones excepted.
firstPhases(changes) ==
    LET modified == SetToSeq(listed(changes, "expressions", "modified"))
        removed == listed(changes, "expressions", "removed")
    IN  inSomeOrder("update", changes, listed(changes, "premises", "modified"))
        \o [k \in DOMAIN modified |-> earlyStatement(changes, modified[k])]
        \o [k \in DOMAIN SetToSeq(removed) |-> detach(SetToSeq(removed)[k])]
        \o statements("delete", changes, Reverse(topologicalSortExpressions(changes, removed)))

deleteVariables(changes) == inSomeOrder("delete", changes, listed(changes, "variables", "removed"))
deletePremises(changes) == inSomeOrder("delete", changes, listed(changes, "premises", "removed"))
updateVariables(changes, ids) == inSomeOrder("update", changes, ids)

\* Inserts, each kind after the kinds it refers to, then what waited for them.
lastPhases(changes) ==
    LET held == holdDeletes(changes)
        waits == lateVariables(changes) # {}
    IN  inSomeOrder("insert", changes, listed(changes, "premises", "added"))
        \o when(~held /\ waits, updateVariables(changes, lateVariables(changes))
                                   \o deletePremises(changes))
        \o inSomeOrder("insert", changes, listed(changes, "variables", "added"))
        \o statements("insert", changes,
                      topologicalSortExpressions(changes, listed(changes, "expressions", "added")))
        \o inSomeOrder("update", changes, late(changes))
        \o when(held, deleteVariables(changes)
                          \o updateVariables(changes, listed(changes, "variables", "modified"))
                          \o deletePremises(changes))
        \o inSomeOrder("update", changes, listed(changes, "roles", "modified"))

orderChangeset(changes) ==
    firstPhases(changes)
    \o when(~holdDeletes(changes),
            deleteVariables(changes) \o updateVariables(changes, earlyVariables(changes))
                \o when(lateVariables(changes) = {}, deletePremises(changes)))
    \o lastPhases(changes)

(***************************************************************************)
(* Comparing two states of an argument (core/diff.ts).  Entities pair by   *)
(* id.                                                                     *)
(***************************************************************************)
ofKind(rows, kind) == {id \in DOMAIN rows : rows[id].kind = kind}
expressionsOf(rows, p) == {id \in ofKind(rows, "expressions") : rows[id].premise = p}

defaultCompareVariable(a, b) == {f \in {"symbol", "bound"} : a[f] # b[f]}
defaultCompareExpression(a, b) ==
    {f \in {"type", "parent"} : a[f] # b[f]}
        \cup (IF a.type = "variable" /\ b.type = "variable" /\ a.variable # b.variable
              THEN {"variable"} ELSE {})
\* A premise has no fields of its own that are compared.
defaultComparePremise(a, b) == {}

\* fields: by id of both, the fields the comparison found changed.
diffEntitySet(as, bs, fields) ==
    [added |-> bs \ as, removed |-> as \ bs,
     modified |-> {id \in as \cap bs : fields[id] # {}}]
isEmptyDiff(d) == d.added = {} /\ d.removed = {} /\ d.modified = {}

\* The variables reached through the premises: all of them, or none when there
\* is no premise.
collectVariables(rows) ==
    IF ofKind(rows, "premises") = {} THEN {} ELSE ofKind(rows, "variables")

diffExpressions(before, after, p) ==
    LET as == expressionsOf(before, p)
        bs == expressionsOf(after, p)
    IN  diffEntitySet(as, bs, [e \in as \cap bs |->
                                  defaultCompareExpression(before[e], after[e])])

diffPremiseSet(before, after) ==
    LET as == ofKind(before, "premises")
        bs == ofKind(after, "premises")
        own == diffEntitySet(as, bs, [p \in as \cap bs |->
                                         defaultComparePremise(before[p], after[p])])
    IN  [own EXCEPT !.modified =
            @ \cup {p \in as \cap bs : ~isEmptyDiff(diffExpressions(before, after, p))}]

diffVariables(before, after) ==
    LET as == collectVariables(before)
        bs == collectVariables(after)
    IN  diffEntitySet(as, bs, [x \in as \cap bs |->
                                  defaultCompareVariable(before[x], after[x])])

\* Faulty variant: a changed variable does not reach the premises that use it.
propagateReferenceWithin_No(before, after) == {}

\* The premises of both that use a variable that changed itself.
propagateReferenceWithin(before, after) ==
    {p \in ofKind(before, "premises") \cap ofKind(after, "premises") :
        \E e \in expressionsOf(after, p) :
            after[e].type = "variable"
            /\ after[e].variable \in diffVariables(before, after).modified}

diffArguments(before, after) ==
    [roles |-> [before |-> before[Roles].conclusion, after |-> after[Roles].conclusion],
     variables |-> diffVariables(before, after),
     premises |-> [diffPremiseSet(before, after) EXCEPT !.modified =
                      @ \cup propagateReferenceWithin(before, after)]]
===============================================================================
