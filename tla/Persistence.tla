------------------------------ MODULE Persistence -----------------------------
(***************************************************************************)
(* A caller that edits an argument and keeps a relational store beside it: *)
(* it composes the changesets of successive calls and now and then runs    *)
(* the ordered statements, one by one, against a store that checks foreign *)
(* keys on every statement and cascades nothing.                           *)
(*                                                                         *)
(* The engine's calls are the ones that change rows (core/argument-        *)
(* engine.ts, core/premise-engine.ts, core/expression-manager.ts), with    *)
(* the cascades each makes.  A call works on a draft: the rows so far and  *)
(* the changes recorded so far.                                            *)
(***************************************************************************)
EXTENDS Changeset

CONSTANTS
    Premise, Variable, Expression,  \* ids
    Symbol,                         \* symbols of variables
    Starts,                         \* the arguments to start from
    MaxCalls                        \* bound: calls on the engine

VARIABLES
    engine,    \* the rows the engine holds
    pending,   \* the composed changes since the last commit
    calls,     \* calls made
    committed, \* the rows the engine held at the last commit
    store,     \* the rows of the store
    todo       \* the statements still to run

pvars == <<engine, pending, calls, committed, store, todo>>

(***************************************************************************)
(* Drafts.                                                                 *)
(***************************************************************************)
\* Puts a row in place, new or changed.
put(d, id, row) ==
    LET entry == [bucket |-> IF id \in DOMAIN d.rows THEN "modified" ELSE "added", row |-> row]
    IN  [rows |-> [i \in DOMAIN d.rows \cup {id} |-> IF i = id THEN row ELSE d.rows[i]],
         changes |-> composeChangesets(d.changes, [i \in {id} |-> entry])]

dropAll(d, ids) ==
    [rows |-> [i \in DOMAIN d.rows \ ids |-> d.rows[i]],
     changes |-> composeChangesets(d.changes,
                    [i \in ids |-> [bucket |-> "removed", row |-> d.rows[i]]])]
drop(d, id) == dropAll(d, {id})

premiseRow == [kind |-> "premises"]
rolesRow(conclusion) == [kind |-> "roles", conclusion |-> conclusion]
variableRow(symbol, bound) == [kind |-> "variables", symbol |-> symbol, bound |-> bound]
expressionRow(p, parent, type, x) ==
    [kind |-> "expressions", premise |-> p, parent |-> parent, type |-> type, variable |-> x]

(***************************************************************************)
(* The rows an engine can hold: each of its kind, references to rows that  *)
(* are there, and the expressions of a premise a forest.                   *)
(***************************************************************************)
VariableRow == [kind : {"variables"}, symbol : Symbol, bound : Premise \cup {None}]
ExpressionType == {"variable", "formula", "not", "and", "or", "xor", "implies", "iff"}
ExpressionRow == [kind : {"expressions"}, premise : Premise, parent : Expression \cup {None},
                  type : ExpressionType, variable : Variable \cup {None}]
RolesRow == [kind : {"roles"}, conclusion : Premise \cup {None}]

isRowOf(id, row) ==
    \/ id \in Premise /\ row = premiseRow
    \/ id \in Variable /\ row \in VariableRow
    \/ /\ id \in Expression /\ row \in ExpressionRow
       /\ row.type = "variable" <=> row.variable # None
    \/ id = Roles /\ row \in RolesRow

\* The rows a row refers to by a foreign key.
references(row) ==
    (CASE row.kind \in {"premises", "roles"} -> {}
       [] row.kind = "variables" -> {row.bound}
       [] row.kind = "expressions" -> {row.premise, row.parent, row.variable}) \ {None}

closed(rows) == \A id \in DOMAIN rows : references(rows[id]) \subseteq DOMAIN rows

isForest(rows, ids) == \A S \in SUBSET ids : S # {} => \E e \in S : rows[e].parent \notin S

sound(rows) ==
    /\ rows = [id \in DOMAIN rows |-> rows[id]] /\ Roles \in DOMAIN rows
    /\ \A id \in DOMAIN rows : isRowOf(id, rows[id])
    /\ closed(rows)
    /\ \A e \in ofKind(rows, "expressions") :
          rows[e].parent # None => rows[rows[e].parent].premise = rows[e].premise
    /\ isForest(rows, ofKind(rows, "expressions"))

\* Ids of different kinds differ.
ASSUME PersistenceAssumption ==
    /\ MaxCalls \in Nat
    /\ IsFiniteSet(Premise) /\ IsFiniteSet(Variable) /\ IsFiniteSet(Expression)
    /\ Premise \cap Variable = {} /\ Premise \cap Expression = {} /\ Variable \cap Expression = {}
    /\ {None, Roles} \cap (Premise \cup Variable \cup Expression) = {}
    /\ \A rows \in Starts : sound(rows)

(***************************************************************************)
(* Reading rows.                                                           *)
(***************************************************************************)
childrenOf(rows, e) == {c \in ofKind(rows, "expressions") : rows[c].parent = e}
rootsOf(rows, p) == {e \in expressionsOf(rows, p) : rows[e].parent = None}
\* The symbols a variable may take: those no other variable has.
freeSymbols(rows, x) == Symbol \ {rows[y].symbol : y \in ofKind(rows, "variables") \ {x}}
conclusionOf(rows) == rows[Roles].conclusion
usesOf(rows, x) == {e \in ofKind(rows, "expressions") : rows[e].variable = x}

\* e and what is below it.
subtree(rows, e) ==
    {c \in ofKind(rows, "expressions") :
        \A S \in SUBSET ofKind(rows, "expressions") :
            (e \in S /\ \A b \in S : childrenOf(rows, b) \subseteq S) => c \in S}

\* Premises read through bound variables, directly or further on, do not come
\* back to the premise they are read from.
noCircularBinding(rows) ==
    LET readBy(p) == {rows[rows[e].variable].bound :
                        e \in {f \in expressionsOf(rows, p) : rows[f].type = "variable"}} \ {None}
        reached[p \in Premise, n \in 0..Cardinality(Premise)] ==
            IF n = 0 THEN readBy(p)
            ELSE reached[p, n - 1] \cup UNION {readBy(q) : q \in reached[p, n - 1]}
    IN  \A p \in ofKind(rows, "premises") : p \notin reached[p, Cardinality(Premise)]

childLimitReached(rows, e) == rows[e].type = "not" /\ childrenOf(rows, e) # {}

(***************************************************************************)
(* The calls.                                                              *)
(***************************************************************************)
setRoles(d, conclusion) == put(d, Roles, rolesRow(conclusion))

setConclusionPremise(d, p) == setRoles(d, p)

\* Only an argument without premises can be left without a conclusion.
clearConclusionPremise(d) ==
    IF ofKind(d.rows, "premises") # {} THEN d ELSE setRoles(d, None)

\* The first premise of an argument is its conclusion.
createPremise(d, p, x, symbol) ==
    LET made == put(put(d, p, premiseRow), x, variableRow(symbol, p))
    IN  IF conclusionOf(d.rows) = None THEN setRoles(made, p) ELSE made

\* Faulty variant: the child that takes its operator's place is not recorded.
promote_Unrecorded(d, e, c) ==
    drop([d EXCEPT !.rows[c].parent = d.rows[e].parent], e)

\* The only child takes the place of its operator.
promote(d, e, c) == drop(put(d, c, [d.rows[c] EXCEPT !.parent = d.rows[e].parent]), e)

removeExpression(d, e) == dropAll(d, subtree(d.rows, e))

\* Variables and the expressions that use them.
removeVariables(d, xs) ==
    dropAll(d, xs \cup UNION {subtree(d.rows, e) : e \in UNION {usesOf(d.rows, x) : x \in xs}})

\* The conclusion's place is taken by another premise, if there is one; the
\* variables bound to the premise go with it.
removePremise(d, p) ==
    LET bare == drop(dropAll(d, expressionsOf(d.rows, p)), p)
        left == ofKind(bare.rows, "premises")
        kept == IF conclusionOf(d.rows) # p THEN bare
                ELSE setRoles(bare, IF left = {} THEN None ELSE CHOOSE q \in left : TRUE)
    IN  removeVariables(kept, {x \in ofKind(d.rows, "variables") : d.rows[x].bound = p})

\* A new operator takes the place of e and holds it.
insertExpression(d, new, type, e) ==
    put(put(d, new, expressionRow(d.rows[e].premise, d.rows[e].parent, type, None)),
        e, [d.rows[e] EXCEPT !.parent = new])

\* The drafts a new variable gives, free or bound to a premise.
addVariable(d) ==
    {put(d, x, variableRow(s, b)) :
        x \in Variable \ ofKind(d.rows, "variables"), s \in freeSymbols(d.rows, None),
        b \in ofKind(d.rows, "premises") \cup {None}}

renameVariable(d, x) == {put(d, x, [d.rows[x] EXCEPT !.symbol = s]) : s \in freeSymbols(d.rows, x)}

\* A bound variable moves to another premise; a free one stays free.
rebindVariable(d, x) ==
    {put(d, x, [d.rows[x] EXCEPT !.bound = b]) :
        b \in {q \in ofKind(d.rows, "premises") : d.rows[x].bound # None}}

updateVariable(d, x) == renameVariable(d, x) \cup rebindVariable(d, x)

\* The drafts the next call can produce.
edited(d) ==
    LET rows == d.rows
        premises == ofKind(rows, "premises")
        variables == ofKind(rows, "variables")
        expressions == ofKind(rows, "expressions")
        newExpressions == Expression \ expressions
        freeIn(p) == {e \in expressionsOf(rows, p) :
                        rows[e].type # "variable" /\ ~childLimitReached(rows, e)}
                     \cup (IF rootsOf(rows, p) = {} THEN {None} ELSE {})
    IN  {createPremise(d, p, x, s) : p \in Premise \ premises,
                                    x \in Variable \ variables, s \in freeSymbols(rows, None)}
        \cup {removePremise(d, p) : p \in premises}
        \cup {setConclusionPremise(d, p) : p \in premises}
        \cup {clearConclusionPremise(d)}
        \cup addVariable(d)
        \cup {removeVariables(d, {x}) : x \in variables}
        \cup (UNION {updateVariable(d, x) : x \in variables})
        \cup (UNION {{put(d, e, expressionRow(p, parent, "variable", x)) :
                         e \in newExpressions, x \in variables, parent \in freeIn(p)} :
                        p \in premises})
        \cup (UNION {{put(d, e, expressionRow(p, parent, type, None)) :
                         e \in newExpressions, type \in {"and", "not"}, parent \in freeIn(p)} :
                        p \in premises})
        \cup {put(d, e, [rows[e] EXCEPT !.variable = x]) :
                 e \in {f \in expressions : rows[f].type = "variable"}, x \in variables}
        \cup {removeExpression(d, e) : e \in expressions}
        \cup {insertExpression(d, new, "not", e) : new \in newExpressions, e \in expressions}
        \cup {promote(d, e, CHOOSE c \in childrenOf(rows, e) : TRUE) :
                 e \in {f \in expressions : Cardinality(childrenOf(rows, f)) = 1}}

(***************************************************************************)
(* The caller.                                                             *)
(***************************************************************************)
Init ==
    /\ engine \in Starts
    /\ pending = noChanges
    /\ calls = 0
    /\ committed = engine
    /\ store = engine
    /\ todo = << >>

Call ==
    /\ todo = << >>
    /\ calls < MaxCalls
    /\ \E d \in edited([rows |-> engine, changes |-> noChanges]) :
          /\ noCircularBinding(d.rows)
          /\ engine' = d.rows
          /\ pending' = composeChangesets(pending, withCurrentEntries(d.changes, d.rows))
    /\ calls' = calls + 1
    /\ UNCHANGED <<committed, store, todo>>

Commit ==
    /\ pending # noChanges /\ todo = << >>
    /\ todo' = orderChangeset(pending)
    /\ pending' = noChanges
    /\ committed' = engine
    /\ UNCHANGED <<engine, calls, store>>

\* The row an update leaves: it writes the fields it carries.
written(fields, row) ==
    [f \in DOMAIN row |-> IF f \in DOMAIN fields THEN fields[f] ELSE row[f]]

\* What one statement makes of the rows.
execute(rows, s) ==
    CASE s.type = "insert" ->
            [id \in DOMAIN rows \cup {s.id} |-> IF id = s.id THEN s.data ELSE rows[id]]
      [] s.type = "update" -> [rows EXCEPT ![s.id] = written(s.data, @)]
      [] s.type = "delete" -> [id \in DOMAIN rows \ {s.id} |-> rows[id]]

Run ==
    /\ todo # << >>
    /\ store' = execute(store, Head(todo))
    /\ todo' = Tail(todo)
    /\ UNCHANGED <<engine, pending, calls, committed>>

Next == Call \/ Commit \/ Run
Spec == Init /\ [][Next]_pvars

(***************************************************************************)
(* Properties.                                                             *)
(***************************************************************************)
\* Each statement of an ordered changeset is accepted by a store that checks
\* foreign keys on every statement and cascades nothing: it inserts an absent
\* row, updates or deletes a present one, and leaves no reference dangling -
\* whatever calls were composed, ids reused or rows moved in between.
\* (utils/changeset-order.ts)
StoreAccepts ==
    /\ closed(store)
    /\ todo # << >> => (Head(todo).type = "insert" <=> Head(todo).id \notin DOMAIN store)

\* When the last statement of a commit has run, the store holds exactly the
\* rows the engine held: composing and ordering lose no change and replay none.
\* (composeChangesets, orderChangeset)
StoreCatchesUp == todo = << >> => store = committed

\* What the diff of the committed argument and the current one leaves out is
\* the same in both: a premise not listed has the same expressions, read
\* through variables with the same symbols and bindings; and what it lists did
\* change.  (core/diff.ts)
DiffTellsAll ==
    LET diff == diffArguments(committed, engine)
        both == ofKind(committed, "premises") \cap ofKind(engine, "premises")
        view(rows, p) == {<<e, rows[e], rows[e].variable,
                           IF rows[e].type = "variable" THEN rows[rows[e].variable] ELSE None>> :
                             e \in expressionsOf(rows, p)}
    IN  \A p \in both : p \notin diff.premises.modified
                            <=> view(committed, p) = view(engine, p)
===============================================================================
