------------------------------ MODULE MCResponse -----------------------------
(***************************************************************************)
(* Six responses: one moved between two versions of its target, one whose  *)
(* links support each other, one that contradicts itself, one that answers *)
(* another response, one of steps in parentheses and hidden claims, and    *)
(* one whose premises read more columns than the search walks.             *)
(***************************************************************************)
EXTENDS Response, TLC

leaf(p, x) == [premise |-> p, kind |-> "variable", kids |-> << >>, variable |-> x]
node(p, kind, children) ==
    [premise |-> p, kind |-> kind, kids |-> children, variable |-> NoVariable]

claim(c, v, type) == [to |-> "claim", claim |-> c, version |-> v, type |-> type]
own(p) == [to |-> "premise", premise |-> p]
outsidePremise(a, v, p) == [to |-> "external", argument |-> a, version |-> v, premise |-> p]
expression(a, v, e, aspect) ==
    [to |-> "expression", argument |-> a, version |-> v, expression |-> e, aspect |-> aspect]

argument(id, version, expr, root, conclusion, derivations, binding) ==
    [id |-> id, version |-> version, expr |-> expr, root |-> root,
     conclusion |-> conclusion, derivations |-> derivations, binding |-> binding,
     respondsTo |-> Nobody, order |-> << >>]
answering(id, target, expr, root, binding, order) ==
    [argument(id, 1, expr, root, "none", {}, binding) EXCEPT
        !.respondsTo = target, !.order = order]

(***************************************************************************)
(* The target: A -> B; B and (C or A); not X; P1 and A; B is derived from  *)
(* C, C is without support; X is a premise of E, which reads F.            *)
(***************************************************************************)
targetBinding(e) ==
    [A |-> claim("A", 1, "normal"), B |-> claim("B", 1, "normal"),
     C |-> claim("C", 1, "normal"), X |-> outsidePremise("E", e, "E1"),
     V |-> own("P1")]

\* What both versions hold of P2, P3, K and D.
shared ==
    2 :> leaf("P1", "A")
    @@ 4 :> node("P2", "and", <<5, 6>>) @@ 5 :> leaf("P2", "B")
    @@ 6 :> node("P2", "or", <<7, 8>>) @@ 7 :> leaf("P2", "C") @@ 8 :> leaf("P2", "A")
    @@ 9 :> node("K", "and", <<10, 11>>) @@ 10 :> leaf("K", "V") @@ 11 :> leaf("K", "A")
    @@ 12 :> leaf("D", "C")
    @@ 15 :> node("P3", "not", <<16>>) @@ 16 :> leaf("P3", "X")
    @@ 17 :> node("D2", "implies", <<18, 19>>) @@ 18 :> leaf("D2", "C") @@ 19 :> leaf("D2", "B")

T1 == argument("T", 1,
        1 :> node("P1", "implies", <<2, 3>>) @@ 3 :> leaf("P1", "B") @@ shared,
        [P1 |-> 1, P2 |-> 4, P3 |-> 15, K |-> 9, D |-> 12, D2 |-> 17], "K", {"D", "D2"}, targetBinding(1))

\* The second version: P2 becomes the conclusion, P1 loses its consequent, K is
\* put in parentheses and E moves on.
T2 == argument("T", 2,
        1 :> node("P1", "implies", <<2, 13>>) @@ 13 :> leaf("P1", "C")
        @@ 14 :> node("K", "formula", <<9>>) @@ shared,
        [P1 |-> 1, P2 |-> 4, P3 |-> 15, K |-> 14, D |-> 12, D2 |-> 17], "P2", {"D", "D2"}, targetBinding(2))

\* E reads F; the second version of F says something else.
outsideE(v) == argument("E", v, 21 :> leaf("E1", "Y"), [E1 |-> 21], "none", {},
                        [Y |-> outsidePremise("F", v, "F1")])
outsideF(v) == argument("F", v,
    IF v = 1 THEN 31 :> leaf("F1", "A") ELSE 31 :> node("F1", "not", <<32>>) @@ 32 :> leaf("F1", "A"),
    [F1 |-> 31], "none", {}, [A |-> claim("A", 1, "normal")])

types == [cv \in {"A", "B", "C", "F", "W"} \X {1} |-> IF cv[1] = "C" THEN "axiomatic" ELSE "normal"]

partialFunctions(S, values) == UNION {[D -> values] : D \in SUBSET S}
reader(agreed, mine, entered) == [agreed |-> agreed, own |-> mine, entered |-> entered]

(***************************************************************************)
(* The first response undercuts two steps, speaks of P2, P3 and A, and     *)
(* uses B in a premise another premise stands on.                          *)
(***************************************************************************)
R == answering("R", <<"T", 1>>,
        101 :> node("R1", "not", <<102>>) @@ 102 :> leaf("R1", "nested")
        @@ 103 :> leaf("R2", "whole")
        @@ 104 :> node("R3", "implies", <<105, 106>>) @@ 105 :> leaf("R3", "part") @@ 106 :> leaf("R3", "W")
        @@ 107 :> node("R4", "or", <<108, 109>>) @@ 108 :> leaf("R4", "Q") @@ 109 :> leaf("R4", "W")
        @@ 110 :> leaf("R5", "part")
        @@ 111 :> node("R6", "not", <<112>>) @@ 112 :> leaf("R6", "step")
        @@ 113 :> leaf("R7", "kept")
        @@ 114 :> node("R8", "not", <<115>>) @@ 115 :> leaf("R8", "far"),
        [R1 |-> 101, R2 |-> 103, R3 |-> 104, R4 |-> 107, R5 |-> 110, R6 |-> 111, R7 |-> 113,
         R8 |-> 114],
        [nested |-> expression("T", 1, 6, "inference"), whole |-> expression("T", 1, 4, "statement"),
         part |-> expression("T", 1, 3, "statement"), step |-> expression("T", 1, 1, "inference"),
         kept |-> expression("T", 1, 2, "statement"), far |-> expression("T", 1, 15, "statement"),
         W |-> claim("W", 1, "normal"), Q |-> own("R3")],
        <<"R1", "R2", "R3", "R4", "R5", "R6", "R7", "R8">>)

decisionsOn(nested, whole, part, step, far) ==
    {[nested |-> d[1], whole |-> d[2], part |-> d[3], step |-> d[4], far |-> d[5]] :
        d \in nested \X whole \X part \X step \X far}
keep == <<"keep">>
drop == <<"drop">>
moving ==
    [response |-> R, versions |-> {T1, T2},
     outside |-> {outsideE(1), outsideE(2), outsideF(1), outsideF(2)},
     bindable |-> {1, 2},
     decisions |-> decisionsOn({keep, drop}, {keep}, {keep, drop, <<"retarget", 4>>, <<"retarget", 5>>},
                               {keep, <<"retarget", 6>>}, {keep})
                   \cup {[nested |-> drop, whole |-> drop, part |-> <<"retarget", 3>>,
                          step |-> drop, far |-> drop], [nested |-> keep]},
     readers |-> {reader({"R1", "R2", "R3"}, {}, {}),
                  reader({"R5", "R6", "R7"}, {"R5"},
                         {proposal("variable", "B", "not sure")}),
                  reader({"R1", "R5", "R6", "R7"}, {}, {proposal("variable", "A", "false")})},
     claimTypes |-> types]

\* The same response part way: one binding already names the second version.
partWay == [moving EXCEPT
    !.response.binding.kept.version = 2,
    !.decisions = {d \in @ : DOMAIN d # {"nested"}},
    !.bindable = {2}]

(***************************************************************************)
(* Links on A and B that rest on each other, a second link on B, links the *)
(* response's own source and claim support, and one nothing supports.      *)
(***************************************************************************)
M == answering("M", <<"T", 1>>,
        101 :> leaf("M1", "a") @@ 102 :> leaf("M2", "b") @@ 103 :> leaf("M3", "b2")
        @@ 104 :> node("M4", "iff", <<105, 106>>) @@ 105 :> leaf("M4", "a") @@ 106 :> leaf("M4", "b")
        @@ 107 :> node("M5", "not", <<108>>) @@ 108 :> leaf("M5", "step")
        @@ 109 :> node("M6", "implies", <<110, 111>>) @@ 110 :> leaf("M6", "G")
        @@ 111 :> node("M6", "formula", <<112>>) @@ 112 :> node("M6", "not", <<113>>)
        @@ 113 :> leaf("M6", "step")
        @@ 114 :> node("M7", "implies", <<115, 116>>) @@ 115 :> leaf("M7", "W") @@ 116 :> leaf("M7", "O")
        @@ 117 :> node("M8", "not", <<118>>) @@ 118 :> leaf("M8", "step")
        @@ 119 :> leaf("M9", "c") @@ 120 :> node("N1", "or", <<121, 122>>)
        @@ 121 :> leaf("N1", "c") @@ 122 :> leaf("N1", "c")
        @@ 123 :> leaf("N2", "W"),
        [M1 |-> 101, M2 |-> 102, M3 |-> 103, M4 |-> 104, M5 |-> 107, M6 |-> 109, M7 |-> 114,
         M8 |-> 117, M9 |-> 119, N1 |-> 120, N2 |-> 123],
        [a |-> expression("T", 1, 2, "statement"), b |-> expression("T", 1, 3, "statement"),
         b2 |-> expression("T", 1, 5, "statement"), c |-> expression("T", 1, 7, "statement"),
         step |-> expression("T", 1, 1, "inference"),
         O |-> own("M5"), W |-> claim("W", 1, "normal"), G |-> claim("G", 1, "citation")],
        <<"M1", "M2", "M3", "M4", "M5", "M6", "M7", "M8", "M9", "N1", "N2">>)

standing(r, readers) ==
    [response |-> r, versions |-> {T1}, outside |-> {}, bindable |-> {1},
     decisions |-> {<< >>}, readers |-> readers, claimTypes |-> types]
onlyPremises(r, ps) ==
    [r EXCEPT !.expr = Restrict(@, {e \in DOMAIN @ : @[e].premise \in ps}),
              !.root = Restrict(@, ps)]

supporting ==
    {standing(onlyPremises(M, ps), {reader({"M1", "M3", "M5", "M9"}, {"M1"}, {})}) :
        ps \in {{"M1", "M2", "M3", "M4"}, {"M1", "M4", "M2", "M5", "M6", "M9"},
                {"M5", "M6", "M7", "M8", "N2"}, {"M1", "M9", "N1", "M5"}, {"M5", "M7", "M9"},
                premisesOf(M)}}

(***************************************************************************)
(* B and not B, beside things that have nothing to do with it.             *)
(***************************************************************************)
Z == answering("Z", <<"T", 1>>,
        101 :> leaf("Z1", "b") @@ 102 :> node("Z2", "not", <<103>>) @@ 103 :> leaf("Z2", "b2")
        @@ 104 :> leaf("Z3", "b2") @@ 105 :> leaf("Z4", "W")
        @@ 106 :> node("Z5", "not", <<107>>) @@ 107 :> leaf("Z5", "whole")
        @@ 108 :> leaf("Z6", "c") @@ 109 :> leaf("Z7", "nested")
        @@ 110 :> node("Z8", "not", <<111>>) @@ 111 :> leaf("Z8", "derives"),
        [Z1 |-> 101, Z2 |-> 102, Z3 |-> 104, Z4 |-> 105, Z5 |-> 106, Z6 |-> 108, Z7 |-> 109,
         Z8 |-> 110],
        [b |-> expression("T", 1, 3, "statement"), b2 |-> expression("T", 1, 5, "statement"),
         whole |-> expression("T", 1, 4, "statement"), c |-> expression("T", 1, 7, "statement"),
         nested |-> expression("T", 1, 6, "inference"),
         derives |-> expression("T", 1, 17, "inference"), W |-> claim("W", 1, "normal")],
        <<"Z1", "Z2", "Z3", "Z4", "Z5", "Z6", "Z7", "Z8">>)

clashing == standing(Z,
    {reader({"Z1", "Z2", "Z3"}, {}, {}), reader({"Z1", "Z2", "Z3"}, {"Z1", "Z2"}, {}),
     reader({"Z1", "Z2", "Z4", "Z5"}, {"Z2"}, {proposal("variable", "B", "true")}),
     reader({"Z3", "Z6", "Z7", "Z8"}, {}, {proposal("variable", "B", "not sure")})})

\* The caller cannot tell what kind of claim B is.
unknowing == [clashing EXCEPT !.claimTypes = Restrict(@, {cv \in DOMAIN @ : cv[1] # "B"})]

(***************************************************************************)
(* An answer to a response: S affirms B and undercuts A -> B.              *)
(***************************************************************************)
S == answering("S", <<"T", 1>>,
        41 :> leaf("S1", "b") @@ 42 :> node("S2", "not", <<43>>) @@ 43 :> leaf("S2", "step")
        @@ 44 :> node("S3", "and", <<45, 46>>) @@ 45 :> leaf("S3", "b") @@ 46 :> leaf("S3", "W"),
        [S1 |-> 41, S2 |-> 42, S3 |-> 44],
        [b |-> expression("T", 1, 3, "statement"), step |-> expression("T", 1, 1, "inference"),
         W |-> claim("W", 1, "normal")], <<"S1", "S2", "S3">>)
U == answering("U", <<"S", 1>>,
        101 :> leaf("U1", "both") @@ 102 :> node("U2", "not", <<103>>) @@ 103 :> leaf("U2", "b")
        @@ 104 :> leaf("U3", "cut") @@ 105 :> node("U4", "not", <<106>>) @@ 106 :> leaf("U4", "move")
        @@ 107 :> node("U5", "not", <<108>>) @@ 108 :> leaf("U5", "both")
        @@ 109 :> leaf("U6", "join"),
        [U1 |-> 101, U2 |-> 102, U3 |-> 104, U4 |-> 105, U5 |-> 107, U6 |-> 109],
        [both |-> expression("S", 1, 44, "statement"), b |-> expression("S", 1, 41, "statement"),
         cut |-> expression("S", 1, 42, "statement"), move |-> expression("S", 1, 42, "inference"),
         join |-> expression("S", 1, 44, "inference")],
        <<"U1", "U2", "U3", "U4", "U5", "U6">>)

answeringAnswer ==
    [standing(U, {reader({"U1", "U2", "U3"}, {}, {}), reader({"U1", "U2", "U4", "U6"}, {"U2"}, {}),
                  reader({"U1", "U3", "U5"}, {}, {proposal("linkAnswer", "S1", "disagree")})})
        EXCEPT !.versions = {S, [S EXCEPT !.version = 2]}]

(***************************************************************************)
(* Steps in parentheses, an axiom beside another claim, a choice between   *)
(* two claims, and a claim read only through a derivation without support. *)
(***************************************************************************)
N == argument("N", 1,
        1 :> node("P1", "formula", <<2>>) @@ 2 :> node("P1", "implies", <<3, 4>>)
        @@ 3 :> leaf("P1", "A") @@ 4 :> leaf("P1", "B")
        @@ 5 :> node("P2", "and", <<6, 7>>) @@ 6 :> leaf("P2", "C") @@ 7 :> leaf("P2", "A")
        @@ 8 :> node("K", "and", <<9, 10>>) @@ 9 :> leaf("K", "B") @@ 10 :> leaf("K", "V")
        @@ 11 :> leaf("D", "W")
        @@ 12 :> node("P3", "and", <<13, 14>>) @@ 13 :> leaf("P3", "A")
        @@ 14 :> node("P3", "or", <<15, 16>>) @@ 15 :> leaf("P3", "B") @@ 16 :> leaf("P3", "F"),
        [P1 |-> 1, P2 |-> 5, P3 |-> 12, K |-> 8, D |-> 11], "K", {"D"},
        [A |-> claim("A", 1, "normal"), B |-> claim("B", 1, "normal"),
         C |-> claim("C", 1, "axiomatic"), W |-> claim("W", 1, "normal"),
         F |-> claim("F", 1, "normal"), V |-> own("D")])

L == answering("L", <<"N", 1>>,
        101 :> leaf("L1", "grants") @@ 102 :> leaf("L2", "axiom") @@ 103 :> leaf("L3", "hidden")
        @@ 104 :> leaf("L4", "either"),
        [L1 |-> 101, L2 |-> 102, L3 |-> 103, L4 |-> 104],
        [grants |-> expression("N", 1, 2, "inference"), axiom |-> expression("N", 1, 5, "statement"),
         hidden |-> expression("N", 1, 8, "statement"),
         either |-> expression("N", 1, 12, "statement")],
        <<"L1", "L2", "L3", "L4">>)

parenthesized ==
    [standing(L, {reader({"L1", "L2"}, {}, {}), reader({"L1", "L3", "L4"}, {"L3"}, {})})
        EXCEPT !.versions = {N}]

(***************************************************************************)
(* W and not W, F and not F, and a premise with more columns than the      *)
(* search walks: what is removed first decides what can be.                *)
(***************************************************************************)
X == answering("X", <<"N", 1>>,
        101 :> leaf("X1", "W") @@ 102 :> node("X2", "or", <<103, 104, 105, 106>>)
        @@ 103 :> leaf("X2", "F") @@ 104 :> leaf("X2", "G") @@ 105 :> leaf("X2", "H")
        @@ 106 :> leaf("X2", "b")
        @@ 107 :> node("X3", "not", <<108>>) @@ 108 :> leaf("X3", "W")
        @@ 109 :> leaf("X4", "F") @@ 110 :> node("X5", "not", <<111>>) @@ 111 :> leaf("X5", "F")
        @@ 112 :> leaf("X6", "b"),
        [X1 |-> 101, X2 |-> 102, X3 |-> 107, X4 |-> 109, X5 |-> 110, X6 |-> 112],
        [b |-> expression("N", 1, 4, "statement"), W |-> claim("W", 1, "normal"),
         F |-> claim("F", 1, "normal"), G |-> claim("G", 1, "normal"),
         H |-> claim("H", 1, "normal")],
        <<"X1", "X2", "X3", "X4", "X5", "X6">>)

crowded ==
    {[standing(onlyPremises(X, ps), {}) EXCEPT !.versions = {N}] :
        ps \in {premisesOf(X), {"X1", "X2", "X6"}}}

MCScenarios == {moving, partWay, clashing, unknowing, answeringAnswer, parenthesized}
               \cup supporting \cup crowded
=============================================================================
