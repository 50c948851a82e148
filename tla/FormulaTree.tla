------------------------------ MODULE FormulaTree ----------------------------
(***************************************************************************)
(* The finished trees evaluation, validity and responses read.             *)
(*                                                                         *)
(* An argument a is a record: expr, its expressions by id, each with the   *)
(* premise it is in, its kind, its children in position order and the      *)
(* variable of a leaf; root, the root of each premise (None for an empty   *)
(* one); derivations, the premises of type derivation; binding, what each  *)
(* variable stands for: a claim, a premise of this argument, or anything   *)
(* of another argument.                                                    *)
(***************************************************************************)
EXTENDS Belnap, Naturals, FiniteSets, Sequences, Functions

None == 0
NoVariable == "none"

Variadic == {"and", "or", "xor"}
Conditional == {"implies", "iff"}
OperatorKind == Variadic \cup Conditional \cup {"not"}

premisesOf(a) == DOMAIN a.root
expressionsIn(a, p) == {e \in DOMAIN a.expr : a.expr[e].premise = p}
operatorsOf(a) == {e \in DOMAIN a.expr : a.expr[e].kind \in OperatorKind}
kindOf(a, e) == a.expr[e].kind
kids(a, e) == a.expr[e].kids

\* The expressions e holds, itself included.
subtree(a, e) ==
    LET below[x \in DOMAIN a.expr] ==
            {x} \cup UNION {below[c] : c \in Range(kids(a, x))}
    IN  below[e]

variablesUnder(a, e) ==
    {a.expr[x].variable : x \in {y \in subtree(a, e) : kindOf(a, y) = "variable"}}

variablesOf(a, p) ==
    {a.expr[x].variable : x \in {y \in expressionsIn(a, p) : kindOf(a, y) = "variable"}}

\* The first expression under any parentheses.
lookThrough(a, e) ==
    LET inside[x \in DOMAIN a.expr] ==
            IF kindOf(a, x) = "formula" THEN inside[kids(a, x)[1]] ELSE x
    IN  inside[e]

(***************************************************************************)
(* Values.  A missing operand leaves a fixed-arity operator unknown, the   *)
(* variadic ones start from their identity.                                *)
(***************************************************************************)
parity(vs) ==
    LET upTo[n \in 0 .. Len(vs)] ==
            IF n = 0 THEN False ELSE belnapXor(upTo[n - 1], vs[n])
    IN  upTo[Len(vs)]

applyOperator(kind, vs) ==
    CASE kind = "and"     -> told(\A k \in DOMAIN vs : "t" \in vs[k],
                                  \E k \in DOMAIN vs : "f" \in vs[k])
      [] kind = "or"      -> told(\E k \in DOMAIN vs : "t" \in vs[k],
                                  \A k \in DOMAIN vs : "f" \in vs[k])
      [] kind = "xor"     -> parity(vs)
      [] kind = "not"     -> IF Len(vs) > 0 THEN belnapNot(vs[1]) ELSE Null
      [] kind = "formula" -> IF Len(vs) > 0 THEN vs[1] ELSE Null
      [] kind = "implies" -> IF Len(vs) > 1 THEN belnapImplies(vs[1], vs[2]) ELSE Null
      [] kind = "iff"     -> IF Len(vs) > 1 THEN belnapIff(vs[1], vs[2]) ELSE Null

\* The value of every expression when each variable is read from vars.
evaluateSubtree(a, vars) ==
    LET val[e \in DOMAIN a.expr] ==
            IF kindOf(a, e) = "variable" THEN vars[a.expr[e].variable]
            ELSE applyOperator(kindOf(a, e),
                               [k \in DOMAIN kids(a, e) |-> val[kids(a, e)[k]]])
    IN  val

isInternal(a, x) == a.binding[x].to = "premise"

\* A derivation premise holding only the variable of its claim: no support yet.
isNakedQ(a, p) ==
    /\ p \in a.derivations
    /\ a.root[p] # None
    /\ kindOf(a, a.root[p]) = "variable"

\* The same with a variable bound to a premise of this argument standing for
\* that premise, whatever the closure derived for the variable itself; a
\* premise evaluation does not see has no value.
evaluatePremises(a, vars) ==
    LET val[e \in DOMAIN a.expr] ==
            IF kindOf(a, e) # "variable"
            THEN applyOperator(kindOf(a, e),
                               [k \in DOMAIN kids(a, e) |-> val[kids(a, e)[k]]])
            ELSE IF ~isInternal(a, a.expr[e].variable)
            THEN vars[a.expr[e].variable]
            ELSE LET p == a.binding[a.expr[e].variable].premise
                 IN  IF p \in premisesOf(a) /\ a.root[p] # None /\ ~isNakedQ(a, p)
                     THEN val[a.root[p]] ELSE Null
    IN  val

(***************************************************************************)
(* Shapes.                                                                 *)
(***************************************************************************)
isInference(a, p) == a.root[p] # None /\ kindOf(a, a.root[p]) \in Conditional

\* Every operator and formula has as many children as its kind takes.
validatePremiseEvaluability(a, p) ==
    /\ a.root[p] # None
    /\ \A e \in expressionsIn(a, p) :
        LET n == Len(kids(a, e))
        IN  /\ kindOf(a, e) \in Variadic => n >= 2
            /\ kindOf(a, e) \in Conditional => n = 2
            /\ kindOf(a, e) \in {"not", "formula"} => n = 1
            /\ kindOf(a, e) = "variable" => a.expr[e].variable \in DOMAIN a.binding
=============================================================================
