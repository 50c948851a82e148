------------------------------- MODULE Belnap -------------------------------
(***************************************************************************)
(* The four-valued connectives (core/evaluation/belnap.ts).  A value is    *)
(* the set of what was told of a proposition: nothing (null), "t", "f", or *)
(* both (contested).                                                       *)
(***************************************************************************)
Four == SUBSET {"t", "f"}
Null == {}
True == {"t"}
False == {"f"}

\* The value that is told true if t holds and told false if f holds.
told(t, f) == {x \in {"t", "f"} : (x = "t" /\ t) \/ (x = "f" /\ f)}

belnapNot(a) == told("f" \in a, "t" \in a)
belnapAnd(a, b) == told("t" \in a /\ "t" \in b, "f" \in a \/ "f" \in b)
belnapOr(a, b) == told("t" \in a \/ "t" \in b, "f" \in a /\ "f" \in b)

\* Faulty variant: exclusive disjunction composed from the other connectives.
belnapXor_Composed(a, b) ==
    belnapOr(belnapAnd(a, belnapNot(b)), belnapAnd(belnapNot(a), b))

belnapXor(a, b) ==
    told(\/ "t" \in a /\ "f" \in b
         \/ "f" \in a /\ "t" \in b,
         \/ "t" \in a /\ "t" \in b
         \/ "f" \in a /\ "f" \in b)

belnapImplies(a, b) == belnapOr(belnapNot(a), b)
belnapIff(a, b) == belnapAnd(belnapImplies(a, b), belnapImplies(b, a))
=============================================================================
