--------------------------- MODULE ArgumentEngine ---------------------------
(***************************************************************************)
(* One argument (lib/core/argument-engine.ts): its premises, its variables *)
(* with what they are bound to, the variable expressions of its premises   *)
(* (premise-engine.ts), the expression index shared by all of them and the *)
(* conclusion.                                                             *)
(*                                                                         *)
(* A mutation of the engine ends with the full validation and is rolled    *)
(* back when that refuses the result; a mutation of a premise ends with a  *)
(* light one that looks at bindings and the conclusion only, so its own    *)
(* checks must keep everything else.  A call that throws on its arguments  *)
(* changes nothing.                                                        *)
(*                                                                         *)
(* Abstracted: symbols, checksums, change sets, and the operators that     *)
(* hold an expression tree together (normalization moves no variable       *)
(* expression), with what the full validation asks of each tree by itself: *)
(* PremiseTree has that, and two edits of a premise that break it, after   *)
(* which the engine's next mutation is rolled back whatever it does.       *)
(* Expression ids come from generateId.                                    *)
(***************************************************************************)
EXTENDS Naturals, FiniteSets, Functions, FiniteSetsExt

CONSTANTS PremiseId,   \* positive numbers, in the order of localeCompare
          VarId,
          ExprId,
          Claim,       \* the claims of the library
          Responses,   \* the values of isResponse() to try
          Foreign,     \* bound: premises of another argument a caller binds to
          Answered,    \* bound: the answered expressions a response binds to
          SavedWith    \* bound: the bindings of the engine when it is saved

ASSUME EngineAssumption == /\ PremiseId \subseteq Nat \ {0}
                           /\ PremiseId # {}
                           /\ IsFiniteSet(PremiseId)
                           /\ IsFiniteSet(VarId)
                           /\ Responses \subseteq BOOLEAN
                           /\ Foreign \subseteq PremiseId

NoPremise == 0

VARIABLES isResponse,   \* fixed: the argument answers another one
          premises,     \* the ids of the premises
          variables,    \* id -> what the variable is bound to
          leaves,       \* the variable expressions of the premises
          index,        \* expressionIndex: expression id -> premise id
          conclusion,   \* conclusionPremiseId, NoPremise when undefined
          saved,        \* the snapshot the caller holds, {} or one record
          undone        \* the call the final validation rolled back, or "none"

content == <<premises, variables, leaves, index, conclusion>>
engineVars == <<isResponse, content, saved, undone>>

\* A binding to a premise of this argument, to a premise of another one, to a
\* claim, or to an expression of the argument answered (in one aspect).
Binding == [kind : {"premise"}, to : PremiseId]
           \cup [kind : {"external"}, to : Foreign]
           \cup [kind : {"claim"}, to : Claim]
           \cup [kind : {"expression"}, to : Answered]
Leaf == [id : ExprId, premise : PremiseId, variable : VarId]

ToPremise(p) == [kind |-> "premise", to |-> p]
ToClaim(k) == [kind |-> "claim", to |-> k]
ToExpression(x) == [kind |-> "expression", to |-> x]

TypeOK ==
    /\ isResponse \in BOOLEAN
    /\ premises \subseteq PremiseId
    /\ DOMAIN variables \subseteq VarId /\ Range(variables) \subseteq Binding
    /\ leaves \subseteq Leaf
    /\ DOMAIN index \subseteq ExprId /\ Range(index) \subseteq PremiseId
    /\ conclusion \in PremiseId \cup {NoPremise}
    /\ Cardinality(saved) <= 1
    /\ undone \in {"none", "createPremise", "removePremise", "addVariable",
                   "bindVariableToExpression", "updateVariable",
                   "removeVariable", "setConclusionPremise",
                   "clearConclusionPremise", "rollback", "load"}

NoVariables == [x \in {} |-> NoPremise]

\* A new engine, or a response loaded with a conclusion (E-8 reports it).
Init ==
    /\ isResponse \in Responses
    /\ leaves = {}
    /\ index = NoVariables
    /\ saved = {}
    /\ undone = "none"
    /\ \/ premises = {} /\ variables = NoVariables /\ conclusion = NoPremise
       \/ /\ isResponse
          /\ premises = {Max(PremiseId)}
          /\ \E v \in VarId : variables = [x \in {v} |-> ToPremise(Max(PremiseId))]
          /\ conclusion = Max(PremiseId)

(***************************************************************************)
(* Circular bindings (argument/circularity.ts) and the full validation     *)
(* (argument-validation.ts)                                                *)
(***************************************************************************)
\* p -> q: an expression of p names a variable bound to q.
Edges(vs, ls) ==
    {<<l.premise, vs[l.variable].to>> :
        l \in {x \in ls : x.variable \in DOMAIN vs /\ vs[x.variable].kind = "premise"}}

\* The premises the recursion visits from p: the smallest closed set.
ReachesFrom(p, edges) ==
    {q \in PremiseId : \A T \in SUBSET PremiseId :
        p \in T /\ (\A e \in edges : e[1] \in T => e[2] \in T) => q \in T}

\* Faulty variant: only a binding to the premise itself is noticed.
wouldCreateCycle_DirectOnly(v, p) == variables[v] = ToPremise(p)

wouldCreateCycle(v, p) ==
    /\ variables[v].kind = "premise"
    /\ p \in ReachesFrom(variables[v].to, Edges(variables, leaves))

Acyclic(edges) ==
    \A T \in (SUBSET PremiseId) \ {{}} :
        {p \in T : \A e \in edges : e[1] = p => e[2] \notin T} # {}

\* What validateInvariants() asks of the references between premises, variables
\* and the conclusion.  It asks more of each tree and of the symbols.
Valid(ps, vs, ls, c) ==
    /\ \A l \in ls : l.premise \in ps /\ l.variable \in DOMAIN vs
    /\ \A v \in DOMAIN vs : /\ vs[v].kind = "premise" => vs[v].to \in ps
                            /\ vs[v].kind = "expression" => isResponse
    /\ Acyclic(Edges(vs, ls))
    /\ c \in ps \cup {NoPremise}

\* withValidation: keep the result of op, or roll back to the snapshot.
Commit(op, ps, vs, ls, ix, c) ==
    /\ IF Valid(ps, vs, ls, c)
       THEN /\ premises' = ps
            /\ variables' = vs
            /\ leaves' = ls
            /\ index' = ix
            /\ conclusion' = c
            /\ undone' = "none"
       ELSE UNCHANGED content /\ undone' = op
    /\ UNCHANGED <<isResponse, saved>>

With(f, x, y) == [z \in DOMAIN f \cup {x} |-> IF z = x THEN y ELSE f[z]]
Without(f, gone) == Restrict(f, DOMAIN f \ gone)
idsOf(ls) == {l.id : l \in ls}

(***************************************************************************)
(* Premises                                                                *)
(***************************************************************************)
FirstConclusion(p) ==
    IF conclusion = NoPremise /\ ~isResponse THEN p ELSE conclusion

\* A freeform premise and the variable bound to it.
createPremise(p, v) ==
    /\ p \notin premises
    /\ v \notin DOMAIN variables
    /\ Commit("createPremise", premises \cup {p}, With(variables, v, ToPremise(p)),
              leaves, index, FirstConclusion(p))

\* A derivation premise also gets an expression for the claim derived, over a
\* variable bound to that claim (the first, by id) or a new one.
createDerivation(p, v, k, w, e) ==
    LET bound == With(variables, v, ToPremise(p))
        claimVars == {x \in DOMAIN variables : variables[x] = ToClaim(k)}
    IN  /\ p \notin premises
        /\ v \notin DOMAIN variables
        /\ e \notin idsOf(leaves)
        /\ IF claimVars # {} THEN w \in claimVars ELSE w \notin DOMAIN bound
        /\ Commit("createPremise", premises \cup {p}, With(bound, w, ToClaim(k)),
                  leaves \cup {[id |-> e, premise |-> p, variable |-> w]},
                  With(index, e, p), FirstConclusion(p))

getVariablesBoundToPremise(p) ==
    {v \in DOMAIN variables : variables[v] = ToPremise(p)}

\* Faulty variants: the variables bound to the premise stay; its expressions stay
\* in the index.
removePremise_NoCascade(p) ==
    LET gone == {l \in leaves : l.premise = p}
        rest == premises \ {p}
    IN  /\ p \in premises
        /\ Commit("removePremise", rest, variables, leaves \ gone,
                  Without(index, idsOf(gone)),
                  IF conclusion # p THEN conclusion
                  ELSE IF rest # {} /\ ~isResponse THEN Min(rest) ELSE NoPremise)
removePremise_KeepsIndex(p) ==
    LET bound == getVariablesBoundToPremise(p)
        own   == {l \in leaves : l.premise = p}
        other == {l \in leaves \ own : l.variable \in bound}
        rest  == premises \ {p}
    IN  /\ p \in premises
        /\ Commit("removePremise", rest, Without(variables, bound),
                  leaves \ (own \cup other), Without(index, idsOf(other)),
                  IF conclusion # p THEN conclusion
                  ELSE IF rest # {} /\ ~isResponse THEN Min(rest) ELSE NoPremise)

\* The premise goes with its expressions, the variables bound to it and the
\* expressions over those; the conclusion moves to the lowest remaining id.
removePremise(p) ==
    LET bound == getVariablesBoundToPremise(p)
        gone  == {l \in leaves : l.premise = p \/ l.variable \in bound}
        rest  == premises \ {p}
    IN  /\ p \in premises
        /\ Commit("removePremise", rest, Without(variables, bound),
                  leaves \ gone, Without(index, idsOf(gone)),
                  IF conclusion # p THEN conclusion
                  ELSE IF rest # {} /\ ~isResponse THEN Min(rest) ELSE NoPremise)

(***************************************************************************)
(* Variables                                                               *)
(***************************************************************************)
\* addVariable, bindVariableToPremise and bindVariableToExternalPremise: the
\* first two look their referent up.
addVariable(v, b) ==
    /\ v \notin DOMAIN variables
    /\ b.kind # "expression"
    /\ b.kind = "premise" => b.to \in premises
    /\ Commit("addVariable", premises, With(variables, v, b), leaves, index,
              conclusion)

\* A response binds an expression once per aspect: a second call returns the
\* variable there is and changes nothing.
findExpressionBinding(x) == {v \in DOMAIN variables : variables[v] = ToExpression(x)}

bindVariableToExpression(v, x) ==
    /\ isResponse
    /\ findExpressionBinding(x) = {}
    /\ v \notin DOMAIN variables
    /\ Commit("bindVariableToExpression", premises,
              With(variables, v, ToExpression(x)), leaves, index, conclusion)

\* The kind claim is kept and an expression binding is not touched; a new
\* boundPremiseId must exist in this argument, even for a binding into another
\* one; boundArgumentId is not looked at.
updateVariable(v, b) ==
    /\ v \in DOMAIN variables
    /\ "expression" \notin {b.kind, variables[v].kind}
    /\ b.kind = "claim" <=> variables[v].kind = "claim"
    /\ b.kind = "claim" \/ b.to \in premises \/ b.to = variables[v].to
    /\ Commit("updateVariable", premises, With(variables, v, b), leaves, index,
              conclusion)

removeVariable(v) ==
    LET gone == {l \in leaves : l.variable = v}
    IN  /\ v \in DOMAIN variables
        /\ Commit("removeVariable", premises, Without(variables, {v}),
                  leaves \ gone, Without(index, idsOf(gone)), conclusion)

(***************************************************************************)
(* Conclusion and snapshots                                                *)
(***************************************************************************)
setConclusionPremise(p) ==
    /\ ~isResponse
    /\ p \in premises
    /\ Commit("setConclusionPremise", premises, variables, leaves, index, p)

\* A no-op on a non-empty standard argument.
clearConclusionPremise ==
    Commit("clearConclusionPremise", premises, variables, leaves, index,
           IF premises # {} /\ ~isResponse THEN conclusion ELSE NoPremise)

snapshot ==
    /\ saved = {}
    /\ Range(variables) = SavedWith
    /\ saved' = {[premises |-> premises, variables |-> variables,
                  leaves |-> leaves, conclusion |-> conclusion]}
    /\ UNCHANGED <<isResponse, content, undone>>

\* The index is not in the snapshot: loading the premises fills it again.
IndexOf(ls) == [e \in idsOf(ls) |-> (CHOOSE l \in ls : l.id = e).premise]

\* What is restored of a snapshot is kept when the full validation accepts it.
Restore(s, op) ==
    IF Valid(s.premises, s.variables, s.leaves, s.conclusion)
    THEN /\ premises' = s.premises
         /\ variables' = s.variables
         /\ leaves' = s.leaves
         /\ index' = IndexOf(s.leaves)
         /\ conclusion' = s.conclusion
         /\ undone' = "none"
    ELSE UNCHANGED content /\ undone' = op

\* The caller gives the snapshot up afterwards: a bound.
rollback ==
    /\ \E s \in saved : Restore(s, "rollback")
    /\ saved' = {}
    /\ UNCHANGED isResponse

\* A new engine in the place of this one.  It looks the premise of each binding
\* up again, and keeps every expression binding as stored.
fromSnapshot ==
    /\ \E s \in saved :
          /\ \A v \in DOMAIN s.variables :
                s.variables[v].kind = "premise" => s.variables[v].to \in s.premises
          /\ Restore(s, "load")
    /\ saved' = {}
    /\ UNCHANGED isResponse

(***************************************************************************)
(* Forking (core/fork.ts)                                                  *)
(***************************************************************************)
\* generateId: another id for each premise.  Ids of variables and expressions
\* are renamed alike and nothing compares them, so they keep their names here.
PremiseRemaps == Injection(premises, PremiseId)

\* Only a binding into this argument follows the fork.
remapBinding(b, premiseRemap) ==
    IF b.kind = "premise" THEN ToPremise(premiseRemap[b.to]) ELSE b

\* The remapped snapshot is loaded into a new engine, which the caller goes on
\* with; what was saved belongs to the source.
forkArgumentEngine(premiseRemap) ==
    /\ Restore([premises |-> Range(premiseRemap),
                variables |-> [v \in DOMAIN variables |->
                                  remapBinding(variables[v], premiseRemap)],
                leaves |-> {[l EXCEPT !.premise = premiseRemap[@]] : l \in leaves},
                conclusion |-> IF conclusion = NoPremise THEN NoPremise
                               ELSE premiseRemap[conclusion]], "load")
    /\ saved' = {}
    /\ UNCHANGED isResponse

(***************************************************************************)
(* Expressions, through the PremiseEngine of a premise                     *)
(***************************************************************************)
\* validateArgumentAfterPremiseMutation.
LightlyValid ==
    /\ \A v \in DOMAIN variables :
          variables[v].kind = "premise" => variables[v].to \in premises
    /\ conclusion \in premises \cup {NoPremise}

assertVariableExpressionValid(v, p) ==
    /\ v \in DOMAIN variables
    /\ ~wouldCreateCycle(v, p)

\* The index follows the expressions a change of premise p added and removed.
syncExpressionIndex(p, added, removed) ==
    [e \in (DOMAIN index \cup added) \ removed |-> IF e \in added THEN p ELSE index[e]]

\* Any operation that adds a variable expression: append, add, add relative.
appendExpression(p, e, v) ==
    /\ p \in premises
    /\ e \notin idsOf(leaves)
    /\ assertVariableExpressionValid(v, p)
    /\ LightlyValid
    /\ leaves' = leaves \cup {[id |-> e, premise |-> p, variable |-> v]}
    /\ index' = syncExpressionIndex(p, {e}, {})
    /\ undone' = "none"
    /\ UNCHANGED <<isResponse, premises, variables, conclusion, saved>>

updateExpression(l, v) ==
    /\ l \in leaves
    /\ assertVariableExpressionValid(v, l.premise)
    /\ LightlyValid
    /\ leaves' = (leaves \ {l}) \cup {[l EXCEPT !.variable = v]}
    /\ undone' = "none"
    /\ UNCHANGED <<isResponse, premises, variables, index, conclusion, saved>>

\* An expression, or an operator with the variable expressions under it.
removeExpression(p, gone) ==
    /\ p \in premises
    /\ gone # {}
    /\ LightlyValid
    /\ leaves' = leaves \ gone
    /\ index' = syncExpressionIndex(p, {}, idsOf(gone))
    /\ undone' = "none"
    /\ UNCHANGED <<isResponse, premises, variables, conclusion, saved>>

Next ==
    \/ \E p \in PremiseId, v \in VarId : createPremise(p, v)
    \/ \E p \in PremiseId, v, w \in VarId, k \in Claim, e \in ExprId :
          createDerivation(p, v, k, w, e)
    \/ \E p \in PremiseId : removePremise(p) \/ setConclusionPremise(p)
    \/ \E v \in VarId, b \in Binding : addVariable(v, b) \/ updateVariable(v, b)
    \/ \E v \in VarId : removeVariable(v)
    \/ \E v \in VarId, x \in Answered : bindVariableToExpression(v, x)
    \/ clearConclusionPremise \/ snapshot \/ rollback \/ fromSnapshot
    \/ \E premiseRemap \in PremiseRemaps : forkArgumentEngine(premiseRemap)
    \/ \E p \in PremiseId, e \in ExprId, v \in VarId : appendExpression(p, e, v)
    \/ \E l \in leaves, v \in VarId : updateExpression(l, v)
    \/ \E p \in premises :
          \E gone \in SUBSET {l \in leaves : l.premise = p} : removeExpression(p, gone)

Spec == Init /\ [][Next]_engineVars

(***************************************************************************)
(* Properties                                                              *)
(***************************************************************************)
\* No sequence of calls leaves references the full validation refuses, a cycle
\* of bound premises or a conclusion that is gone, although the edits of a
\* premise never run it: the engine's next call would then be rolled back for
\* what an earlier one did.
StaysValid == Valid(premises, variables, leaves, conclusion)

\* The cascades and checks of each operation suffice to keep the references: the
\* only call its final validation ever rolls back for them is a variable bound
\* to another premise.
OnlyRebindIsUndone == undone \in {"none", "updateVariable"}

\* getExpression, hasExpression and getExpressionPremiseId answer from the
\* index: it holds the expressions there are, through cascades and rollbacks.
IndexAgrees == index = IndexOf(leaves)
=============================================================================
