------------------------------- MODULE Grammar ------------------------------
(***************************************************************************)
(* The rules of an argument (grammar/validators/): Structural, Evaluable,  *)
(* Derivable and Presentable, each a set of violations.                    *)
(*                                                                         *)
(* An argument a is a record: store, the expressions of each premise;      *)
(* derives, the claim a derivation premise derives, or Freeform;           *)
(* variables, those of the argument; conclusion, the premise designated or *)
(* NoPremise.  A variable bound to a claim has the name of the claim, one  *)
(* bound to a premise the name variableOf gives it.                        *)
(*                                                                         *)
(* Left out: the rules no call of the engine can break, which only data    *)
(* loaded from elsewhere does (S-2, S-3, S-6, S-10, S-11, E-3), the rules  *)
(* of responses (S-15, E-8 to E-10) and of enthymemes (P-6), and the ones  *)
(* that report nothing (S-7, E-4).                                         *)
(***************************************************************************)
EXTENDS AutoNormalization

CONSTANTS
    Premise,     \* the ids of premises, numbers in the order of localeCompare
    Claim,       \* the claims of the library
    claimType,   \* "normal", "citation" or "axiomatic"
    variableOf   \* the variable bound to a premise

ASSUME GrammarAssumption ==
    /\ Premise \subseteq Nat \ {0}
    /\ Variable = Claim \cup {variableOf[p] : p \in Premise}
    /\ claimType \in [Claim -> {"normal", "citation", "axiomatic"}]

NoPremise == 0
Freeform == "freeform"
Grounding == {"citation", "axiomatic"}

premisesOf(a) == DOMAIN a.store
treeOf(a, p) == a.store[p].tree
derivations(a) == {p \in premisesOf(a) : a.derives[p] # Freeform}
typeOf(v) == IF v \in Claim THEN claimType[v] ELSE "none"
childCount(t, i) == Cardinality(Children(t, i))

(***************************************************************************)
(* Reading a derivation.                                                   *)
(***************************************************************************)
findPremiseRoot(t) == onlyChild(t, None)

\* Faulty variant: parentheses are not looked into.
peelFormulas_Not(t, e) == e

\* The expression inside any parentheses, None inside empty ones.
peelFormulas(t, e) ==
    LET inside[x \in DOMAIN t] ==
            IF t[x].kind # "formula" THEN x
            ELSE IF onlyChild(t, x) = None THEN None ELSE inside[onlyChild(t, x)]
    IN  inside[e]

leavesUnder(t, e) == {i \in subtree(t, e) : t[i].kind \in Variable}

\* The first operand of an implication at the root, None without one.
antecedentOf(t) ==
    LET r == findPremiseRoot(t)
    IN  IF kindOf(t, r) = "implies" /\ Children(t, r) # {}
        THEN getChildExpressions(t, r)[1] ELSE None

groundingTypes(t, e) == {typeOf(t[i].kind) : i \in leavesUnder(t, e)} \cap Grounding

isNakedQTree(t) == Cardinality(DOMAIN t) = 1 /\ \A i \in DOMAIN t : t[i].kind \in Variable

(***************************************************************************)
(* Structural.                                                             *)
(***************************************************************************)
S1(a) == {NoPremise : p \in {q \in Premise \ premisesOf(a) : variableOf[q] \in a.variables}}

S5(a) == {p \in premisesOf(a) : \E i \in DOMAIN treeOf(a, p) :
             treeOf(a, p)[i].kind \in RootOnly /\ treeOf(a, p)[i].parent # None}

S8(a) == {p \in premisesOf(a) : \E i \in DOMAIN treeOf(a, p) :
             treeOf(a, p)[i].kind \in RootOnly /\ childCount(treeOf(a, p), i) # 2}

S9(a) == {p \in premisesOf(a) :
            LET t == treeOf(a, p)
            IN  \E i, j \in DOMAIN t :
                    i # j /\ t[i].parent = t[j].parent /\ t[i].pos = t[j].pos}

\* S-12 and S-13: not and the formula around an expression take exactly one.
unaryRule(a, kind) ==
    {p \in premisesOf(a) : \E i \in DOMAIN treeOf(a, p) :
        treeOf(a, p)[i].kind = kind /\ childCount(treeOf(a, p), i) # 1}

S14(a) == {p \in derivations(a) : \E i \in Children(treeOf(a, p), None) :
             treeOf(a, p)[i].kind \notin Variable \cup RootOnly}

(***************************************************************************)
(* Evaluable.                                                              *)
(***************************************************************************)
E1(a) == {p \in premisesOf(a) : \E i \in DOMAIN treeOf(a, p) :
             treeOf(a, p)[i].kind \in Variadic /\ childCount(treeOf(a, p), i) < 2}

\* Faulty variant: an empty premise is not looked at.
E5_NonEmpty(a) ==
    {p \in derivations(a) :
        /\ DOMAIN treeOf(a, p) # {}
        /\ \A i \in DOMAIN treeOf(a, p) : treeOf(a, p)[i].kind # a.derives[p]}

E5(a) == {p \in derivations(a) :
             \A i \in DOMAIN treeOf(a, p) : treeOf(a, p)[i].kind # a.derives[p]}

E6(a) == {p \in derivations(a) :
             \E q \in derivations(a) \ {p} : a.derives[q] = a.derives[p]}

E7(a) == IF premisesOf(a) = {} \/ a.conclusion \in premisesOf(a) THEN {}
         ELSE {a.conclusion}

(***************************************************************************)
(* Derivable.                                                              *)
(***************************************************************************)
\* A single supporting claim, or a disjunction of at least two.
antecedentMatchesPopulatedForm(t, e) ==
    LET supports(x) == x # None /\ typeOf(t[x].kind) \in Grounding
    IN  \/ supports(e)
        \/ /\ kindOf(t, e) = "or"
           /\ childCount(t, e) >= 2
           /\ \A c \in Children(t, e) : supports(peelFormulas(t, c))

\* The variable of the claim alone, or an antecedent that implies it.  Other
\* roots are S-14's to report.
isDerivation(t, claim) ==
    LET r    == findPremiseRoot(t)
        ends == getChildExpressions(t, r)
    IN  CASE kindOf(t, r) \in Variable -> t[r].kind = claim
          [] kindOf(t, r) = "iff" -> FALSE
          [] kindOf(t, r) = "implies" ->
                /\ Len(ends) = 2
                /\ t[ends[2]].kind = claim
                /\ peelFormulas(t, ends[1]) # None
                /\ antecedentMatchesPopulatedForm(t, peelFormulas(t, ends[1]))
          [] OTHER -> TRUE

D1(a) == {p \in derivations(a) : ~isDerivation(treeOf(a, p), a.derives[p])}

D2(a) == {p \in derivations(a) :
            LET t == treeOf(a, p)
                e == antecedentOf(t)
            IN  /\ e # None /\ peelFormulas(t, e) # None
                /\ kindOf(t, peelFormulas(t, e)) = "or"
                /\ childCount(t, peelFormulas(t, e)) = 1}

D3(a) == {p \in derivations(a) :
            antecedentOf(treeOf(a, p)) # None /\
            Cardinality(groundingTypes(treeOf(a, p), antecedentOf(treeOf(a, p)))) > 1}

\* D-4 and D-5: leaves of a type of claim anywhere but in an antecedent.
validateClaimPlacement(a, type) ==
    {p \in premisesOf(a) :
        LET t      == treeOf(a, p)
            inside == IF p \in derivations(a) /\ antecedentOf(t) # None
                      THEN subtree(t, antecedentOf(t)) ELSE {}
        IN  \E i \in DOMAIN t \ inside : typeOf(t[i].kind) = type}

D6(a) == derivations(a) \cap {a.conclusion}

(***************************************************************************)
(* All rules, and the tiers.                                               *)
(***************************************************************************)
breaking(a, code) ==
    CASE code = "S-1" -> S1(a)
      [] code = "S-5" -> S5(a)
      [] code = "S-8" -> S8(a)
      [] code = "S-9" -> S9(a)
      [] code = "S-12" -> unaryRule(a, "not")
      [] code = "S-13" -> unaryRule(a, "formula")
      [] code = "S-14" -> S14(a)
      [] code = "E-1" -> E1(a)
      [] code = "E-5" -> E5(a)
      [] code = "E-6" -> E6(a)
      [] code = "E-7" -> E7(a)
      [] code = "D-1" -> D1(a)
      [] code = "D-2" -> D2(a)
      [] code = "D-3" -> D3(a)
      [] code = "D-4" -> validateClaimPlacement(a, "axiomatic")
      [] code = "D-5" -> validateClaimPlacement(a, "citation")
      [] code = "D-6" -> D6(a)
      [] code = "P-1" -> {p \in premisesOf(a) : ~P1(treeOf(a, p))}
      [] code = "P-2" -> {p \in premisesOf(a) : ~P2(treeOf(a, p))}
      [] code = "P-3" -> {p \in premisesOf(a) : ~P3(treeOf(a, p))}
      [] code = "P-4" -> {p \in premisesOf(a) : ~P4(treeOf(a, p))}
      [] code = "P-5" -> {p \in premisesOf(a) : ~P5(treeOf(a, p))}

Structural == {"S-1", "S-5", "S-8", "S-9", "S-12", "S-13", "S-14"}
Evaluable == {"E-1", "E-5", "E-6", "E-7"}
Derivable == {"D-1", "D-2", "D-3", "D-4", "D-5", "D-6"}
Presentable == {"P-1", "P-2", "P-3", "P-4", "P-5"}

\* A tier reports its own rules and those of the tiers below it.
codesOf(tier) ==
    CASE tier = "structural" -> Structural
      [] tier = "evaluable" -> Structural \cup Evaluable
      [] tier = "derivable" -> Structural \cup Evaluable \cup Derivable
      [] tier = "presentable" -> Structural \cup Evaluable \cup Derivable \cup Presentable

validate(a, tier) ==
    UNION {{[code |-> c, premise |-> p] : p \in breaking(a, c)} : c \in codesOf(tier)}

(***************************************************************************)
(* The check of one derivation evaluation makes for itself                 *)
(* (derivation-validation.ts).                                             *)
(***************************************************************************)
validateDerivationStructure(a, p) ==
    LET t == treeOf(a, p)
        r == findPremiseRoot(t)
    IN  /\ a.derives[p] \in a.variables
        /\ r # None
        /\ \/ t[r].kind = a.derives[p]
           \/ /\ t[r].kind \in RootOnly
              /\ childCount(t, r) = 2
              /\ t[getChildExpressions(t, r)[2]].kind = a.derives[p]
=============================================================================
