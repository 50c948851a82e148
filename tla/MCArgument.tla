------------------------------ MODULE MCArgument ------------------------------
(***************************************************************************)
(* One argument, in two situations the first state chooses between.        *)
(*                                                                         *)
(* "edited": ArgumentEngine, two premises that can be bound in a circle,   *)
(* one variable more, another argument with a premise of the same id as    *)
(* the first, and a snapshot of the engine while the first is the only     *)
(* one.  Variable and expression ids are interchangeable.                  *)
(*                                                                         *)
(* "read": Evaluation, eight arguments over three claims and the answers   *)
(* and decisions a reader can give to each.                                *)
(***************************************************************************)
EXTENDS ArgumentEngine, Evaluation

VARIABLE situation

argumentVars == <<engineVars, evars, situation>>

(***************************************************************************)
(* The argument edited                                                     *)
(***************************************************************************)
MCPremiseId == 1 .. 2
MCSavedWith == {ToPremise(1)}
MCSymmetry == Permutations(VarId) \cup Permutations(ExprId)

(***************************************************************************)
(* The arguments read                                                      *)
(***************************************************************************)
leaf(p, x) == [premise |-> p, kind |-> "variable", kids |-> << >>, variable |-> x]
node(p, kind, children) ==
    [premise |-> p, kind |-> kind, kids |-> children, variable |-> NoVariable]

claim(c, type) == [to |-> "claim", claim |-> c, type |-> type]
bound(p) == [to |-> "premise", premise |-> p]

normalClaims == [x \in {"A", "B", "C"} |-> claim(x, "normal")]
rank == [x \in {"A", "B", "C", "Q", "X"} |->
            CASE x = "A" -> 1 [] x = "B" -> 2 [] x = "C" -> 3 [] x = "Q" -> 4 [] x = "X" -> 5]
premiseRank ==
    [p \in {"D1", "D2", "P1", "P2", "P3", "K"} |->
        CASE p = "D1" -> 1 [] p = "D2" -> 2 [] p = "P1" -> 3
          [] p = "P2" -> 4 [] p = "P3" -> 5 [] p = "K" -> 6]
plain == [derivations |-> {}, derives |-> << >>, response |-> FALSE,
          binding |-> normalClaims, rank |-> rank,
          premiseRank |-> premiseRank]

\* A -> B and B xor C, concluding A -> not C.
chain ==
    [expr |-> << node("P1", "implies", <<2, 3>>), leaf("P1", "A"), leaf("P1", "B"),
                 node("P2", "xor", <<5, 6>>), leaf("P2", "B"), leaf("P2", "C"),
                 node("K", "implies", <<8, 9>>), leaf("K", "A"),
                 node("K", "not", <<10>>), leaf("K", "C") >>,
     root |-> [p \in {"P1", "P2", "K"} |->
                  CASE p = "P1" -> 1 [] p = "P2" -> 4 [] p = "K" -> 7],
     conclusion |-> "K"] @@ plain

\* Three-way parity, a nested disjunction in parentheses, and a conclusion that
\* does not follow.
parityArgument ==
    [expr |-> << node("P1", "xor", <<2, 3, 4>>), leaf("P1", "A"), leaf("P1", "B"), leaf("P1", "C"),
                 node("P2", "implies", <<6, 10>>), node("P2", "formula", <<7>>),
                 node("P2", "or", <<8, 9>>), leaf("P2", "A"), leaf("P2", "B"),
                 leaf("P2", "C"), leaf("K", "A") >>,
     root |-> [p \in {"P1", "P2", "K"} |->
                  CASE p = "P1" -> 1 [] p = "P2" -> 5 [] p = "K" -> 11],
     conclusion |-> "K"] @@ plain

\* A <-> B beside A xor B: the premises contradict each other.
contradictory ==
    [expr |-> << node("P1", "iff", <<2, 3>>), leaf("P1", "A"), leaf("P1", "B"),
                 node("P2", "xor", <<5, 6>>), leaf("P2", "A"), leaf("P2", "B"),
                 node("K", "and", <<8, 9>>), leaf("K", "A"), leaf("K", "B") >>,
     root |-> [p \in {"P1", "P2", "K"} |->
                  CASE p = "P1" -> 1 [] p = "P2" -> 4 [] p = "K" -> 7],
     conclusion |-> "K"] @@ plain

\* Q stands for the premise not(A and B): P2 is coupled to P3 only through Q.
boundPremise ==
    [expr |-> << node("P1", "not", <<2>>), node("P1", "and", <<3, 4>>),
                 leaf("P1", "A"), leaf("P1", "B"), leaf("P2", "Q"),
                 node("P3", "and", <<7, 8>>), leaf("P3", "A"), leaf("P3", "B"),
                 node("K", "implies", <<10, 11>>), leaf("K", "Q"), leaf("K", "C") >>,
     root |-> [p \in {"P1", "P2", "P3", "K"} |->
                  CASE p = "P1" -> 1 [] p = "P2" -> 5 [] p = "P3" -> 6 [] p = "K" -> 9],
     conclusion |-> "K"] @@
    [plain EXCEPT !.binding = ("Q" :> bound("P1")) @@ normalClaims]

\* A cited, X axiomatic, B derived from X, C without support yet.
derived ==
    [expr |-> << node("D1", "implies", <<2, 3>>), leaf("D1", "X"), leaf("D1", "B"),
                 leaf("D2", "C"),
                 node("P1", "iff", <<6, 9>>), node("P1", "or", <<7, 8>>),
                 leaf("P1", "A"), leaf("P1", "B"), leaf("P1", "C"),
                 node("K", "or", <<11, 12>>), leaf("K", "B"), leaf("K", "C") >>,
     root |-> [p \in {"D1", "D2", "P1", "K"} |->
                  CASE p = "D1" -> 1 [] p = "D2" -> 4 [] p = "P1" -> 5 [] p = "K" -> 10],
     conclusion |-> "K"] @@
    [plain EXCEPT !.derivations = {"D1", "D2"},
                  !.derives = ("D1" :> "B") @@ ("D2" :> "C"),
                  !.binding = ("A" :> claim("A", "citation")) @@ ("X" :> claim("X", "axiomatic"))
                                  @@ normalClaims]

\* A disjunction that lost one child: not evaluable.
malformed ==
    [expr |-> << node("P1", "or", <<2>>), leaf("P1", "A"), leaf("K", "A") >>,
     root |-> [p \in {"P1", "K"} |-> IF p = "P1" THEN 1 ELSE 3],
     conclusion |-> "K"] @@ [plain EXCEPT !.binding = Restrict(normalClaims, {"A"})]

\* Each premise feeds the next, twice through a negation.
circle ==
    [expr |-> << node("P1", "implies", <<2, 3>>), leaf("P1", "A"),
                 node("P1", "not", <<4>>), leaf("P1", "B"),
                 node("P2", "implies", <<6, 7>>), leaf("P2", "B"),
                 node("P2", "not", <<8>>), leaf("P2", "C"),
                 node("K", "implies", <<10, 11>>), leaf("K", "C"), leaf("K", "A") >>,
     root |-> [p \in {"P1", "P2", "K"} |->
                  CASE p = "P1" -> 1 [] p = "P2" -> 5 [] p = "K" -> 9],
     conclusion |-> "K"] @@ plain

\* A <-> B and A or B give A and B; the reader can be led into contesting A alone.
entrapped ==
    [expr |-> << node("P1", "or", <<2, 5>>), node("P1", "and", <<3, 4>>),
                 leaf("P1", "A"), leaf("P1", "C"), leaf("P1", "C"),
                 node("P2", "iff", <<7, 8>>), leaf("P2", "A"), leaf("P2", "B"),
                 node("P3", "or", <<10, 11>>), leaf("P3", "A"), leaf("P3", "B"),
                 node("K", "and", <<13, 14>>), leaf("K", "A"), leaf("K", "B") >>,
     root |-> [p \in {"P1", "P2", "P3", "K"} |->
                  CASE p = "P1" -> 1 [] p = "P2" -> 6 [] p = "P3" -> 9 [] p = "K" -> 12],
     conclusion |-> "K"] @@ plain

MCArguments == {entrapped, circle, chain, parityArgument, contradictory, boundPremise, derived, malformed}

\* Bound: the reader decides every operator but a negation, and but the conclusion
\* of the argument with the most operators.
MCDecidable(a) ==
    {e \in operatorsOf(a) :
        kindOf(a, e) # "not" /\ (a = entrapped => a.expr[e].premise # a.conclusion)}

(***************************************************************************)
(* One of the two                                                          *)
(***************************************************************************)
NothingRead ==
    /\ argument = << >> /\ answers = << >> /\ decisions = << >>
    /\ phase = "refused"
    /\ closure = << >> /\ toVisit = {} /\ changed = FALSE
    /\ report = << >>
NothingEdited ==
    /\ isResponse = FALSE
    /\ premises = {} /\ variables = NoVariables /\ leaves = {}
    /\ index = NoVariables /\ conclusion = NoPremise
    /\ saved = {} /\ undone = "none"

ArgumentInit == \/ situation = "edited" /\ Init /\ NothingRead
                \/ situation = "read" /\ EvaluationInit /\ NothingEdited

\* Bound: one variable at a time stands for something else than a premise of
\* the argument.
OneOther(vs) == Cardinality({v \in DOMAIN vs : vs[v].kind # "premise"}) <= 1

EditedNext ==
    /\ situation = "edited"
    /\ Next
    /\ OneOther(variables')
    /\ UNCHANGED evars
ReadNext == situation = "read" /\ EvaluationNext /\ UNCHANGED engineVars

ArgumentNext == (EditedNext \/ ReadNext) /\ UNCHANGED situation

ArgumentSpec == ArgumentInit /\ [][ArgumentNext]_argumentVars
=============================================================================
