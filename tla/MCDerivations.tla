---------------------------- MODULE MCDerivations ---------------------------
(***************************************************************************)
(* Two normal claims, two citations and an axiom, up to two premises.      *)
(***************************************************************************)
EXTENDS Derivations

mc_PosMin == -1
mc_variableOf == <<"r1", "r2">>
mc_claimType == [k \in {"q", "s", "c1", "c2", "x"} |->
                    CASE k \in {"q", "s"} -> "normal"
                      [] k \in {"c1", "c2"} -> "citation"
                      [] k = "x" -> "axiomatic"]

\* q is cited by two claims, one of them twice, and rests on an axiom.
mc_connections ==
    [type \in Grounding |-> [k \in DOMAIN mc_claimType |->
        IF type = "citation" /\ k = "q" THEN <<"c1", "c2", "c1">>
        ELSE IF type = "axiomatic" /\ k = "q" THEN <<"x">>
        ELSE << >>]]

mc_Empty == {emptyArgument}
=============================================================================
