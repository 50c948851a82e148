---------------------------- MODULE MCPremiseTree ---------------------------
(***************************************************************************)
(* Small premises for TLC.  A tree is given as a sequence of its           *)
(* expressions.                                                            *)
(***************************************************************************)
EXTENDS PremiseTree

e(kind, parent, pos) == [kind |-> kind, parent |-> parent, pos |-> pos]

mc_PosMin == -2

\* implies(p, q); and(p, xor(p, q)) before its buffer; a negated formula; and a
\* like operator behind a formula.
mc_Roomy == {
    << >>,
    <<e("implies", 0, 0), e("p", 1, 0), e("q", 1, 1)>>,
    <<e("and", 0, 0), e("p", 1, 0), e("xor", 1, 1), e("p", 3, 0), e("q", 3, 3)>>,
    <<e("not", 0, 0), e("formula", 1, 0), e("and", 2, 0), e("p", 3, 1), e("q", 3, 2)>>,
    <<e("xor", 0, 0), e("p", 1, 1), e("formula", 1, 2), e("xor", 3, 0), e("q", 4, 0), e("q", 4, 1)>>
}

\* A conjunction crowded at its beginning, as adding there time and again makes
\* it: spreading the second expression leaves it where it is.
mc_Crowded == {<<e("and", 0, 0), e("p", 1, 1), e("q", 1, 2), e("p", 1, 4)>>}

\* One crowded at its beginning around zero.
mc_AroundZero == {<<e("and", 0, 0), e("p", 1, -1), e("q", 1, 0), e("p", 1, 2)>>}

\* A conjunction of three, with room between them.
mc_Operands == {<<e("and", 0, 0), e("p", 1, 1), e("q", 1, 4), e("p", 1, 8)>>}

mc_Loaded == mc_Roomy \cup mc_Crowded \cup mc_AroundZero
=============================================================================
