---------------------------- MODULE ArgumentProofs ----------------------------
(***************************************************************************)
(* Theorems about one argument: its evaluation for a reader (Evaluation,   *)
(* Relationships, FormulaTree, Belnap), then the engine that edits it      *)
(* (ArgumentEngine), for every set of premises, variables, expressions and *)
(* claims, and every other argument it may bind or answer.                 *)
(***************************************************************************)
EXTENDS Evaluation, ArgumentEngine, WellFoundedInduction, FiniteSetTheorems, TLAPS

(***************************************************************************)
(* Recursion.                                                              *)
(***************************************************************************)
Lower == {ss \in Nat \X Nat : ss[1] < ss[2]}

\* A nonempty set of numbers has a least one.
LEMMA LeastNumber ==
    ASSUME NEW S \in SUBSET Nat, S # {}
    PROVE  \E n \in S : \A m \in S : n <= m
<1>1. IsWellFoundedOn(Lower, Nat)
  BY NatLessThanWellFounded DEF OpToRel, Lower
<1>2. PICK x \in S : \A y \in S : ~(<<y, x>> \in Lower)
  BY <1>1, WFMin
<1>3. \A y \in S : y < x => <<y, x>> \in Lower
  BY DEF Lower
<1>4. \A y \in S : ~(y < x)
  BY <1>2, <1>3
<1> QED
  BY <1>4

\* Nothing rests on itself.
Founded(D, below) ==
    \A S \in SUBSET D : S # {} => \E e \in S : below[e] \cap S = {}

\* B computes a function into V from any.
Total(D, V, B) == \A g \in [D -> V] : B[g] \in [D -> V]

\* What B computes at e reads only what is below e.
Local(D, V, below, B) ==
    \A g \in [D -> V] : \A h \in [D -> V] : \A e \in D :
        (\A d \in below[e] \cap D : g[d] = h[d]) => B[g][e] = B[h][e]

\* On C, which reads nothing outside it, g is what B computes from it.
ComputedOn(D, below, B, C, g) ==
    /\ C \subseteq D
    /\ \A x \in C : below[x] \cap D \subseteq C
    /\ \A x \in C : g[x] = B[g][x]

\* Two such functions agree wherever both are.
LEMMA Agreement ==
    ASSUME NEW D, NEW V, NEW below, NEW B,
           Founded(D, below), Local(D, V, below, B),
           NEW C1, NEW C2, NEW g1 \in [D -> V], NEW g2 \in [D -> V],
           ComputedOn(D, below, B, C1, g1), ComputedOn(D, below, B, C2, g2)
    PROVE  \A y \in C1 \cap C2 : g1[y] = g2[y]
<1> DEFINE S == {y \in C1 \cap C2 : g1[y] # g2[y]}
<1> SUFFICES ASSUME S # {} PROVE FALSE
  OBVIOUS
<1>1. S \in SUBSET D
  BY DEF ComputedOn
<1>2. PICK e \in S : below[e] \cap S = {}
  BY <1>1 DEF Founded
<1>3. \A d \in below[e] \cap D : g1[d] = g2[d]
  BY <1>2 DEF ComputedOn
<1>4. B[g1][e] = B[g2][e]
  BY <1>1, <1>3 DEF Local
<1> QED
  BY <1>4 DEF ComputedOn

\* There is then a function that is at every e what is computed there from it.
LEMMA Recursion ==
    ASSUME NEW D, NEW V, V # {}, NEW below,
           NEW B, Total(D, V, B),
           Founded(D, below), Local(D, V, below, B)
    PROVE  \E f \in [D -> V] : f = B[f]
<1> DEFINE Fits(x, g) == g \in [D -> V] /\ \E C : x \in C /\ ComputedOn(D, below, B, C, g)
           W == {x \in D : \E g : Fits(x, g)}
           pick(x) == CHOOSE g : Fits(x, g)
           v0 == CHOOSE w : w \in V
           G == [x \in D |-> IF x \in W THEN pick(x)[x] ELSE v0]
<1>0. \A x \in W : Fits(x, pick(x))
  <2> HIDE DEF Fits
  <2> QED
    OBVIOUS
<1>2. \A x \in W : pick(x) \in [D -> V] /\ \E C : x \in C /\ ComputedOn(D, below, B, C, pick(x))
  <2> HIDE DEF pick, W
  <2> QED
    BY <1>0
<1>3. G \in [D -> V]
  <2>1. v0 \in V
    OBVIOUS
  <2>2. W \subseteq D
    OBVIOUS
  <2> HIDE DEF pick, v0, W
  <2> QED
    BY <1>2, <2>1, <2>2
<1>g. \A x \in W : x \in D /\ G[x] = pick(x)[x]
  <2> HIDE DEF pick
  <2> QED
    OBVIOUS
<1> HIDE DEF G, pick
<1>4. ASSUME NEW x \in W
      PROVE  /\ below[x] \cap D \subseteq W
             /\ G[x] = B[G][x]
  <2>p. PICK g : g = pick(x)
    OBVIOUS
  <2>1. PICK C : x \in C /\ ComputedOn(D, below, B, C, g)
    BY <1>2, <2>p
  <2>2. g \in [D -> V]
    BY <1>2, <2>p
  <2>0. G[x] = g[x]
    BY <1>g, <2>p
  <2>3. C \subseteq W
    BY <2>1, <2>2 DEF ComputedOn
  <2> HIDE DEF W
  <2>4. ASSUME NEW y \in C PROVE G[y] = g[y]
    <3>p. PICK k : k = pick(y)
      OBVIOUS
    <3>1. k \in [D -> V] /\ G[y] = k[y]
      BY <2>3, <2>4, <3>p, <1>2, <1>g
    <3>2. PICK Cy : y \in Cy /\ ComputedOn(D, below, B, Cy, k)
      BY <2>3, <2>4, <3>p, <1>2
    <3>3. ComputedOn(D, below, B, Cy, k) /\ ComputedOn(D, below, B, C, g) /\ k \in [D -> V] /\ g \in [D -> V]
      BY <2>1, <2>2, <3>1, <3>2
    <3>4. \A z \in Cy \cap C : k[z] = g[z]
      BY <3>3, Agreement
    <3> QED
      BY <2>4, <3>1, <3>2, <3>4
  <2>5. \A d \in below[x] \cap D : G[d] = g[d]
    BY <2>1, <2>4 DEF ComputedOn
  <2>6. B[G][x] = B[g][x]
    BY <1>3, <1>g, <2>2, <2>5 DEF Local
  <2> QED
    BY <2>0, <2>1, <2>3, <2>6 DEF ComputedOn
<1>5. W = D
  <2> SUFFICES ASSUME D \ W # {} PROVE FALSE
    OBVIOUS
  <2>0. W \subseteq D
    OBVIOUS
  <2> HIDE DEF W
  <2>1. PICK e \in D \ W : below[e] \cap (D \ W) = {}
    BY DEF Founded
  <2> DEFINE H == [x \in D |-> IF x = e THEN B[G][e] ELSE G[x]]
  <2>b. B[G] \in [D -> V]
    BY <1>3 DEF Total
  <2>2. H \in [D -> V] /\ \A x \in D : x # e => H[x] = G[x]
    BY <1>3, <2>b
  <2>h. H[e] = B[G][e]
    OBVIOUS
  <2> HIDE DEF H
  <2>3. \A x \in W \cup {e} : /\ below[x] \cap D \subseteq W
                              /\ H[x] = B[G][x]
    BY <1>4, <2>0, <2>1, <2>2, <2>h
  <2>4. ASSUME NEW x \in W \cup {e} PROVE B[H][x] = B[G][x]
    <3>1. \A d \in below[x] \cap D : H[d] = G[d]
      BY <2>0, <2>1, <2>2, <2>3
    <3> QED
      BY <1>3, <2>0, <2>1, <2>2, <3>1 DEF Local
  <2>5. ComputedOn(D, below, B, W \cup {e}, H)
    BY <2>0, <2>1, <2>3, <2>4 DEF ComputedOn
  <2>6. e \in W
    BY <2>1, <2>2, <2>5 DEF W
  <2> QED
    BY <2>1, <2>6
<1>6. G = B[G]
  <2>1. B[G] \in [D -> V]
    BY <1>3 DEF Total
  <2> HIDE DEF W
  <2>2. \A x \in D : G[x] = B[G][x]
    BY <1>4, <1>5
  <2> QED
    BY <1>3, <2>1, <2>2
<1> QED
  BY <1>3, <1>6

(***************************************************************************)
(* The four-valued connectives.                                            *)
(***************************************************************************)
\* A value is what is told of it.
LEMMA SameTold ==
    ASSUME NEW a \in Four, NEW b \in Four,
           "t" \in a <=> "t" \in b, "f" \in a <=> "f" \in b
    PROVE  a = b
  <1>1. \A x \in a : x \in b
    BY DEF Four
  <1>2. \A x \in b : x \in a
    BY DEF Four
  <1> QED
    BY <1>1, <1>2

\* What each connective is told, from what its operands are told.
LEMMA NotTold ==
    ASSUME NEW a \in Four
    PROVE  /\ belnapNot(a) \in Four
           /\ "t" \in belnapNot(a) <=> "f" \in a
           /\ "f" \in belnapNot(a) <=> "t" \in a
  BY SMT DEF belnapNot, told, Four

LEMMA AndTold ==
    ASSUME NEW a \in Four, NEW b \in Four
    PROVE  /\ belnapAnd(a, b) \in Four
           /\ "t" \in belnapAnd(a, b) <=> ("t" \in a /\ "t" \in b)
           /\ "f" \in belnapAnd(a, b) <=> ("f" \in a \/ "f" \in b)
  BY SMT DEF belnapAnd, told, Four

LEMMA OrTold ==
    ASSUME NEW a \in Four, NEW b \in Four
    PROVE  /\ belnapOr(a, b) \in Four
           /\ "t" \in belnapOr(a, b) <=> ("t" \in a \/ "t" \in b)
           /\ "f" \in belnapOr(a, b) <=> ("f" \in a /\ "f" \in b)
  BY SMT DEF belnapOr, told, Four

LEMMA XorTold ==
    ASSUME NEW a \in Four, NEW b \in Four
    PROVE  /\ belnapXor(a, b) \in Four
           /\ "t" \in belnapXor(a, b)
                <=> (("t" \in a /\ "f" \in b) \/ ("f" \in a /\ "t" \in b))
           /\ "f" \in belnapXor(a, b)
                <=> (("t" \in a /\ "t" \in b) \/ ("f" \in a /\ "f" \in b))
  BY SMT DEF belnapXor, told, Four

(***************************************************************************)
(* AN-2: two negations give the operand back, a contested one too.         *)
(***************************************************************************)
THEOREM DoubleNegation == \A a \in Four : belnapNot(belnapNot(a)) = a
  <1> SUFFICES ASSUME NEW a \in Four PROVE belnapNot(belnapNot(a)) = a
    OBVIOUS
  <1>1. belnapNot(a) \in Four /\ belnapNot(belnapNot(a)) \in Four
    BY NotTold
  <1>2. "t" \in belnapNot(belnapNot(a)) <=> "t" \in a
    BY <1>1, NotTold
  <1>3. "f" \in belnapNot(belnapNot(a)) <=> "f" \in a
    BY <1>1, NotTold
  <1> QED
    BY <1>1, <1>2, <1>3, SameTold

(***************************************************************************)
(* AN-4: each variadic connective can be regrouped.  For xor this is why   *)
(* the code does not compose it from the other connectives.                *)
(***************************************************************************)
THEOREM Regrouping ==
    \A a, b, c \in Four :
        /\ belnapAnd(belnapAnd(a, b), c) = belnapAnd(a, belnapAnd(b, c))
        /\ belnapOr(belnapOr(a, b), c) = belnapOr(a, belnapOr(b, c))
        /\ belnapXor(belnapXor(a, b), c) = belnapXor(a, belnapXor(b, c))
  <1> SUFFICES ASSUME NEW a \in Four, NEW b \in Four, NEW c \in Four
               PROVE  /\ belnapAnd(belnapAnd(a, b), c) = belnapAnd(a, belnapAnd(b, c))
                      /\ belnapOr(belnapOr(a, b), c) = belnapOr(a, belnapOr(b, c))
                      /\ belnapXor(belnapXor(a, b), c) = belnapXor(a, belnapXor(b, c))
    OBVIOUS
  <1>1. belnapAnd(belnapAnd(a, b), c) = belnapAnd(a, belnapAnd(b, c))
    <2> DEFINE l == belnapAnd(belnapAnd(a, b), c)
               r == belnapAnd(a, belnapAnd(b, c))
    <2>1. belnapAnd(a, b) \in Four /\ belnapAnd(b, c) \in Four
      BY AndTold
    <2>2. l \in Four /\ r \in Four
      BY <2>1, AndTold
    <2>3. ("t" \in l <=> "t" \in r) /\ ("f" \in l <=> "f" \in r)
      BY <2>1, AndTold
    <2> QED
      BY <2>2, <2>3, SameTold
  <1>2. belnapOr(belnapOr(a, b), c) = belnapOr(a, belnapOr(b, c))
    <2> DEFINE l == belnapOr(belnapOr(a, b), c)
               r == belnapOr(a, belnapOr(b, c))
    <2>1. belnapOr(a, b) \in Four /\ belnapOr(b, c) \in Four
      BY OrTold
    <2>2. l \in Four /\ r \in Four
      BY <2>1, OrTold
    <2>3. ("t" \in l <=> "t" \in r) /\ ("f" \in l <=> "f" \in r)
      BY <2>1, OrTold
    <2> QED
      BY <2>2, <2>3, SameTold
  <1>3. belnapXor(belnapXor(a, b), c) = belnapXor(a, belnapXor(b, c))
    <2> DEFINE l == belnapXor(belnapXor(a, b), c)
               r == belnapXor(a, belnapXor(b, c))
    <2>1. belnapXor(a, b) \in Four /\ belnapXor(b, c) \in Four
      BY XorTold
    <2>2. l \in Four /\ r \in Four
      BY <2>1, XorTold
    <2>3. ("t" \in l <=> "t" \in r) /\ ("f" \in l <=> "f" \in r)
      BY <2>1, XorTold
    <2> QED
      BY <2>2, <2>3, SameTold
  <1> QED
    BY <1>1, <1>2, <1>3

\* Told both.
Clean(v) == ~("t" \in v /\ "f" \in v)

\* One value is told no more than another.
LEMMA ToldNoMore ==
    ASSUME NEW a \in Four, NEW b \in Four
    PROVE  a \subseteq b <=> ("t" \in a => "t" \in b) /\ ("f" \in a => "f" \in b)
  BY DEF Four

LEMMA ImpliesTold ==
    ASSUME NEW a \in Four, NEW b \in Four
    PROVE  /\ belnapImplies(a, b) \in Four
           /\ "t" \in belnapImplies(a, b) <=> ("f" \in a \/ "t" \in b)
           /\ "f" \in belnapImplies(a, b) <=> ("t" \in a /\ "f" \in b)
  BY NotTold, OrTold DEF belnapImplies

LEMMA IffTold ==
    ASSUME NEW a \in Four, NEW b \in Four
    PROVE  /\ belnapIff(a, b) \in Four
           /\ "t" \in belnapIff(a, b)
                <=> ("f" \in a \/ "t" \in b) /\ ("f" \in b \/ "t" \in a)
           /\ "f" \in belnapIff(a, b)
                <=> (("t" \in a /\ "f" \in b) \/ ("t" \in b /\ "f" \in a))
<1>1. belnapImplies(a, b) \in Four /\ belnapImplies(b, a) \in Four
  BY ImpliesTold
<1> QED
  BY <1>1, ImpliesTold, AndTold DEF belnapIff

\* A connective told no less says no less, and of values none of which is told
\* both it is not told both.
LEMMA XorKeeps ==
    ASSUME NEW a \in Four, NEW b \in Four, NEW c \in Four, NEW d \in Four,
           a \subseteq c, b \subseteq d
    PROVE  /\ belnapXor(a, b) \subseteq belnapXor(c, d)
           /\ Clean(a) /\ Clean(b) => Clean(belnapXor(a, b))
  BY XorTold, ToldNoMore DEF Clean

(***************************************************************************)
(* Parity, the one connective that is computed step by step.               *)
(***************************************************************************)
LEMMA ParitySteps ==
    ASSUME NEW vs \in Seq(Four)
    PROVE  \E f \in [0 .. Len(vs) -> Four] :
              /\ f[0] = False
              /\ \A n \in 1 .. Len(vs) : f[n] = belnapXor(f[n - 1], vs[n])
              /\ parity(vs) = f[Len(vs)]
<1> DEFINE D == 0 .. Len(vs)
           at(g, n) == IF n = 0 THEN False ELSE belnapXor(g[n - 1], vs[n])
           below == [n \in D |-> {n - 1}]
           B == [g \in [D -> Four] |-> [n \in D |-> at(g, n)]]
<1>0. Len(vs) \in Nat /\ False \in Four /\ \A n \in D : n # 0 => n - 1 \in D /\ vs[n] \in Four
  BY DEF False, Four
<1>1. Founded(D, below)
  <2> SUFFICES ASSUME NEW S \in SUBSET D, S # {}
               PROVE  \E e \in S : below[e] \cap S = {}
    BY DEF Founded
  <2>1. PICK e \in S : \A m \in S : e <= m
    BY <1>0, LeastNumber
  <2> QED
    BY <1>0, <2>1
<1>2. \A g \in [D -> Four] : \A n \in D : at(g, n) \in Four
  BY <1>0, XorTold
<1>3. Total(D, Four, B)
  BY <1>2 DEF Total
<1>4. Local(D, Four, below, B)
  <2>1. \A g \in [D -> Four] : \A e \in D : B[g][e] = at(g, e)
    <3> HIDE DEF at, D
    <3> QED
      OBVIOUS
  <2>2. ASSUME NEW g \in [D -> Four], NEW h \in [D -> Four], NEW e \in D,
               \A d \in below[e] \cap D : g[d] = h[d]
        PROVE  at(g, e) = at(h, e)
    <3> HIDE DEF B
    <3> QED
      BY <1>0, <2>2
  <2> HIDE DEF B, at, below, D
  <2> QED
    BY <2>1, <2>2 DEF Local
<1>5. PICK f \in [D -> Four] : f = B[f]
  <2>1. Four # {}
    BY DEF Four
  <2> HIDE DEF B, D, below
  <2> QED
    BY <1>1, <1>3, <1>4, <2>1, Recursion
<1>6. f = [n \in D |-> at(f, n)]
  BY <1>5
<1> DEFINE F == CHOOSE u : u = [n \in D |-> at(u, n)]
<1>7. F = [n \in D |-> at(F, n)]
  <2> HIDE DEF D, at
  <2> QED
    BY <1>6
<1>8. parity(vs) = F[Len(vs)]
  BY DEF parity
<1> HIDE DEF F
<1>9. F \in [D -> Four]
  <2> DEFINE S == {n \in D : F[n] \notin Four}
  <2>1. S = {}
    <3> SUFFICES ASSUME S # {} PROVE FALSE
      OBVIOUS
    <3>0. S \in SUBSET Nat
      BY <1>0
    <3>1. PICK e \in S : \A m \in S : e <= m
      <4> HIDE DEF S
      <4> QED
        BY <3>0, LeastNumber
    <3>2. e = 0 \/ F[e - 1] \in Four
      BY <1>0, <3>1
    <3>3. F[e] = at(F, e)
      BY <1>7
    <3> QED
      BY <1>0, <3>1, <3>2, <3>3, XorTold
  <2> QED
    BY <1>7, <2>1
<1>10. F[0] = False /\ \A n \in 1 .. Len(vs) : F[n] = belnapXor(F[n - 1], vs[n])
  <2>1. 0 \in D /\ \A n \in 1 .. Len(vs) : n \in D /\ n # 0
    BY <1>0
  <2>2. \A n \in D : F[n] = at(F, n)
    BY <1>7
  <2> QED
    BY <2>1, <2>2
<1> QED
  BY <1>8, <1>9, <1>10

LEMMA ParityKeeps ==
    ASSUME NEW vs \in Seq(Four), NEW ws \in Seq(Four), Len(vs) = Len(ws),
           \A k \in 1 .. Len(vs) : vs[k] \subseteq ws[k]
    PROVE  /\ parity(vs) \in Four
           /\ parity(vs) \subseteq parity(ws)
           /\ (\A k \in 1 .. Len(vs) : Clean(vs[k])) => Clean(parity(vs))
<1> DEFINE n0 == Len(vs)
<1>0. n0 \in Nat /\ n0 = Len(ws)
  OBVIOUS
<1>1. PICK f \in [0 .. n0 -> Four] :
        /\ f[0] = False
        /\ \A n \in 1 .. n0 : f[n] = belnapXor(f[n - 1], vs[n])
        /\ parity(vs) = f[n0]
  BY ParitySteps
<1>2. PICK g \in [0 .. n0 -> Four] :
        /\ g[0] = False
        /\ \A n \in 1 .. n0 : g[n] = belnapXor(g[n - 1], ws[n])
        /\ parity(ws) = g[n0]
  BY <1>0, ParitySteps
<1>3. \A n \in 1 .. n0 : vs[n] \in Four /\ ws[n] \in Four
  BY <1>0
<1> HIDE DEF n0
<1>4. ASSUME NEW S \in SUBSET (0 .. n0), S # {}, 0 \notin S
      PROVE  \E n \in S : n \in 1 .. n0 /\ n - 1 \in 0 .. n0 /\ n - 1 \notin S
  <2>1. S \in SUBSET Nat
    BY <1>0
  <2>2. PICK n \in S : \A m \in S : n <= m
    BY <1>4, <2>1, LeastNumber
  <2> QED
    BY <1>0, <1>4, <2>2
<1>5. \A n \in 0 .. n0 : f[n] \subseteq g[n]
  <2> DEFINE S == {n \in 0 .. n0 : ~(f[n] \subseteq g[n])}
  <2> SUFFICES ASSUME S # {} PROVE FALSE
    OBVIOUS
  <2>1. 0 \notin S
    BY <1>1, <1>2
  <2>2. PICK n \in S : n \in 1 .. n0 /\ n - 1 \in 0 .. n0 /\ n - 1 \notin S
    BY <1>4, <2>1
  <2>3. f[n - 1] \subseteq g[n - 1] /\ vs[n] \subseteq ws[n]
    BY <2>2 DEF n0
  <2>4. /\ f[n - 1] \in Four /\ g[n - 1] \in Four /\ vs[n] \in Four /\ ws[n] \in Four
        /\ f[n] = belnapXor(f[n - 1], vs[n]) /\ g[n] = belnapXor(g[n - 1], ws[n])
    BY <1>1, <1>2, <1>3, <2>2
  <2> HIDE DEF S
  <2>5. belnapXor(f[n - 1], vs[n]) \subseteq belnapXor(g[n - 1], ws[n])
    <3>1. PICK a, b, c, d :
            a = f[n - 1] /\ b = vs[n] /\ c = g[n - 1] /\ d = ws[n]
      OBVIOUS
    <3>2. /\ a \in Four /\ b \in Four /\ c \in Four /\ d \in Four
          /\ a \subseteq c /\ b \subseteq d
      BY <2>3, <2>4, <3>1
    <3>3. belnapXor(a, b) \subseteq belnapXor(c, d)
      BY <3>2, XorKeeps
    <3> QED
      BY <3>1, <3>3
  <2> QED
    BY <2>4, <2>5 DEF S
<1>6. ASSUME \A k \in 1 .. n0 : Clean(vs[k])
      PROVE  \A n \in 0 .. n0 : Clean(f[n])
  <2> DEFINE S == {n \in 0 .. n0 : ~Clean(f[n])}
  <2> SUFFICES ASSUME S # {} PROVE FALSE
    OBVIOUS
  <2>1. 0 \notin S
    BY <1>1 DEF Clean, False
  <2>2. PICK n \in S : n \in 1 .. n0 /\ n - 1 \in 0 .. n0 /\ n - 1 \notin S
    BY <1>4, <2>1
  <2>3. Clean(f[n - 1])
    BY <2>2
  <2>4. /\ f[n - 1] \in Four /\ vs[n] \in Four /\ Clean(vs[n])
        /\ f[n] = belnapXor(f[n - 1], vs[n])
    BY <1>1, <1>3, <1>6, <2>2
  <2>5. Clean(f[n])
    BY <2>3, <2>4, XorTold DEF Clean
  <2> QED
    BY <2>5
<1>7. n0 \in 0 .. n0
  BY <1>0
<1> QED
  BY <1>1, <1>2, <1>5, <1>6, <1>7 DEF n0

\* Whatever the kind, an expression told no less of its children says no less,
\* and children none of which is told both do not make it so.
LEMMA OperatorKeeps ==
    ASSUME NEW kind \in OperatorKind \cup {"formula"},
           NEW vs \in Seq(Four), NEW ws \in Seq(Four), Len(vs) = Len(ws),
           \A k \in 1 .. Len(vs) : vs[k] \subseteq ws[k]
    PROVE  /\ applyOperator(kind, vs) \in Four
           /\ applyOperator(kind, vs) \subseteq applyOperator(kind, ws)
           /\ (\A k \in 1 .. Len(vs) : Clean(vs[k])) => Clean(applyOperator(kind, vs))
<1> DEFINE Keeps(a, b) ==
      /\ a \in Four
      /\ a \subseteq b
      /\ (\A k \in 1 .. Len(vs) : Clean(vs[k])) => Clean(a)
<1>0. \A k \in 1 .. Len(vs) : vs[k] \in Four /\ ws[k] \in Four
  OBVIOUS
<1>d. DOMAIN vs = 1 .. Len(vs) /\ DOMAIN ws = 1 .. Len(vs)
  OBVIOUS
<1>1. CASE kind = "and"
  BY <1>0, <1>1, <1>d DEF applyOperator, told, Four, Clean
<1>2. CASE kind = "or"
  BY <1>0, <1>2, <1>d DEF applyOperator, told, Four, Clean
<1>3. CASE kind = "xor"
  BY <1>3, ParityKeeps DEF applyOperator
<1>4. CASE kind = "not"
  <2>1. CASE Len(vs) = 0
    BY <1>4, <2>1 DEF applyOperator, Null, Four, Clean
  <2>2. CASE Len(vs) > 0
    <3>1. 1 \in 1 .. Len(vs)
      BY <2>2
    <3>2. Keeps(belnapNot(vs[1]), belnapNot(ws[1]))
      BY <1>0, <3>1, NotTold, ToldNoMore DEF Clean
    <3> QED
      BY <1>4, <2>2, <3>2 DEF applyOperator
  <2> QED
    BY <2>1, <2>2
<1>5. CASE kind = "formula"
  <2>1. CASE Len(vs) = 0
    BY <1>5, <2>1 DEF applyOperator, Null, Four, Clean
  <2>2. CASE Len(vs) > 0
    <3>1. 1 \in 1 .. Len(vs)
      BY <2>2
    <3> QED
      BY <1>0, <1>5, <2>2, <3>1 DEF applyOperator
  <2> QED
    BY <2>1, <2>2
<1>6. CASE kind = "implies"
  <2>1. CASE Len(vs) < 2
    BY <1>6, <2>1 DEF applyOperator, Null, Four, Clean
  <2>2. CASE Len(vs) > 1
    <3>1. 1 \in 1 .. Len(vs) /\ 2 \in 1 .. Len(vs)
      BY <2>2
    <3>2. Keeps(belnapImplies(vs[1], vs[2]), belnapImplies(ws[1], ws[2]))
      BY <1>0, <3>1, ImpliesTold, ToldNoMore DEF Clean
    <3> QED
      BY <1>6, <2>2, <3>2 DEF applyOperator
  <2> QED
    BY <2>1, <2>2
<1>7. CASE kind = "iff"
  <2>1. CASE Len(vs) < 2
    BY <1>7, <2>1 DEF applyOperator, Null, Four, Clean
  <2>2. CASE Len(vs) > 1
    <3>1. 1 \in 1 .. Len(vs) /\ 2 \in 1 .. Len(vs)
      BY <2>2
    <3>2. Keeps(belnapIff(vs[1], vs[2]), belnapIff(ws[1], ws[2]))
      BY <1>0, <3>1, IffTold, ToldNoMore DEF Clean
    <3> QED
      BY <1>7, <2>2, <3>2 DEF applyOperator
  <2> QED
    BY <2>1, <2>2
<1> QED
  BY <1>1, <1>2, <1>3, <1>4, <1>5, <1>6, <1>7 DEF OperatorKind, Variadic, Conditional

(***************************************************************************)
(* The values of the expressions of an argument.  inner tells the values   *)
(* in which a variable bound to a premise of the argument stands for that  *)
(* premise (evaluatePremises) from those in which it is read like any      *)
(* other (evaluateSubtree).                                                *)
(***************************************************************************)
variableOf(a, e) == a.expr[e].variable
boundTo(a, e) == a.binding[variableOf(a, e)].premise
seen(a, p) == p \in premisesOf(a) /\ a.root[p] # None /\ ~isNakedQ(a, p)

\* A leaf that stands for a premise, and one that is read.
standsFor(a, inner, e) ==
    kindOf(a, e) = "variable" /\ inner /\ isInternal(a, variableOf(a, e))
isRead(a, inner, e) ==
    kindOf(a, e) = "variable" /\ ~(inner /\ isInternal(a, variableOf(a, e)))

valueAt(a, inner, vars, val, e) ==
    IF kindOf(a, e) # "variable"
    THEN applyOperator(kindOf(a, e), [k \in DOMAIN kids(a, e) |-> val[kids(a, e)[k]]])
    ELSE IF isRead(a, inner, e) THEN vars[variableOf(a, e)]
    ELSE IF seen(a, boundTo(a, e)) THEN val[a.root[boundTo(a, e)]] ELSE Null

\* val is the values of a's expressions when its variables are read from vars.
ValuesOf(a, inner, vars, val) ==
    val = [e \in DOMAIN a.expr |-> valueAt(a, inner, vars, val, e)]

\* The expressions whose value the value of e is computed from.
usedBy(a, inner, e) ==
    IF kindOf(a, e) # "variable" THEN Range(kids(a, e))
    ELSE IF standsFor(a, inner, e) /\ seen(a, boundTo(a, e))
    THEN {a.root[boundTo(a, e)]} ELSE {}

LEMMA UsesResolve ==
    ASSUME NEW a, Loaded(a), NEW inner \in BOOLEAN, NEW e \in DOMAIN a.expr
    PROVE  /\ usedBy(a, inner, e) \subseteq DOMAIN a.expr
           /\ usedBy(a, inner, e) \subseteq readsFrom(a, e)
           /\ \A k \in DOMAIN kids(a, e) : kids(a, e)[k] \in Range(kids(a, e))
           /\ kids(a, e) \in Seq(DOMAIN a.expr)
           /\ \A d \in Range(kids(a, e)) : a.expr[d].premise = a.expr[e].premise
<1>1. kids(a, e) \in Seq(expressionsIn(a, a.expr[e].premise))
  BY DEF Loaded
<1>2. expressionsIn(a, a.expr[e].premise) \subseteq DOMAIN a.expr
  BY DEF expressionsIn
<1>3. \A k \in DOMAIN kids(a, e) : kids(a, e)[k] \in expressionsIn(a, a.expr[e].premise)
  BY <1>1
<1>4. Range(kids(a, e)) \subseteq expressionsIn(a, a.expr[e].premise)
  BY <1>3 DEF Range
<1>5. kids(a, e) \in Seq(DOMAIN a.expr)
  BY <1>1, <1>2
<1>6. standsFor(a, inner, e) /\ seen(a, boundTo(a, e))
        => /\ a.root[boundTo(a, e)] \in DOMAIN a.expr
           /\ a.root[boundTo(a, e)] \in readsFrom(a, e)
  BY DEF Loaded, expressionsIn, standsFor, seen, boundTo, variableOf, readsFrom
<1> QED
  BY <1>2, <1>4, <1>5, <1>6 DEF usedBy, readsFrom, Range, expressionsIn

\* What is told no less of what e is computed from says no less of e.
LEMMA ValueKeeps ==
    ASSUME NEW a, Loaded(a), NEW inner \in BOOLEAN, NEW e \in DOMAIN a.expr,
           NEW vars, NEW wars, NEW f, NEW g,
           \A d \in usedBy(a, inner, e) :
              f[d] \in Four /\ g[d] \in Four /\ f[d] \subseteq g[d],
           isRead(a, inner, e) =>
              LET x == variableOf(a, e)
              IN  vars[x] \in Four /\ wars[x] \in Four /\ vars[x] \subseteq wars[x]
    PROVE  /\ valueAt(a, inner, vars, f, e) \in Four
           /\ valueAt(a, inner, vars, f, e) \subseteq valueAt(a, inner, wars, g, e)
           /\ /\ \A d \in usedBy(a, inner, e) : Clean(f[d])
              /\ isRead(a, inner, e) => Clean(vars[variableOf(a, e)])
              => Clean(valueAt(a, inner, vars, f, e))
<1>1. CASE kindOf(a, e) # "variable"
  <2> DEFINE n == Len(kids(a, e))
             vs == [k \in DOMAIN kids(a, e) |-> f[kids(a, e)[k]]]
             ws == [k \in DOMAIN kids(a, e) |-> g[kids(a, e)[k]]]
  <2>1. n \in Nat /\ DOMAIN kids(a, e) = 1 .. n
    BY UsesResolve
  <2>2. \A k \in 1 .. n : kids(a, e)[k] \in usedBy(a, inner, e)
    BY <1>1, <2>1, UsesResolve DEF usedBy
  <2>3. kindOf(a, e) \in OperatorKind \cup {"formula"}
    BY <1>1 DEF Loaded
  <2>4. /\ vs \in Seq(Four) /\ ws \in Seq(Four) /\ Len(vs) = n /\ Len(ws) = n
        /\ \A k \in 1 .. n : vs[k] = f[kids(a, e)[k]] /\ ws[k] = g[kids(a, e)[k]]
    <3> HIDE DEF n
    <3> QED
      BY <2>1, <2>2
  <2> HIDE DEF n, vs, ws
  <2>5. /\ applyOperator(kindOf(a, e), vs) \in Four
        /\ applyOperator(kindOf(a, e), vs) \subseteq applyOperator(kindOf(a, e), ws)
        /\ (\A k \in 1 .. n : Clean(vs[k])) => Clean(applyOperator(kindOf(a, e), vs))
    BY <2>2, <2>3, <2>4, OperatorKeeps
  <2>6. /\ valueAt(a, inner, vars, f, e) = applyOperator(kindOf(a, e), vs)
        /\ valueAt(a, inner, wars, g, e) = applyOperator(kindOf(a, e), ws)
    BY <1>1 DEF valueAt, vs, ws
  <2> QED
    BY <2>2, <2>4, <2>5, <2>6
<1>2. CASE isRead(a, inner, e)
  BY <1>2 DEF valueAt, isRead
<1>3. CASE standsFor(a, inner, e) /\ seen(a, boundTo(a, e))
  BY <1>3 DEF valueAt, isRead, standsFor, usedBy
<1>4. CASE standsFor(a, inner, e) /\ ~seen(a, boundTo(a, e))
  BY <1>4 DEF valueAt, isRead, standsFor, Null, Four, Clean
<1> QED
  BY <1>1, <1>2, <1>3, <1>4 DEF isRead, standsFor

\* Expressions that use no others, what is read in them from vars, read no less
\* from wars, and read without contest.
Covers(a, inner, R) ==
    /\ R \subseteq DOMAIN a.expr
    /\ \A e \in R : usedBy(a, inner, e) \subseteq R
NoLess(a, inner, R, vars, wars) ==
    \A e \in R : isRead(a, inner, e) =>
        /\ vars[variableOf(a, e)] \in Four /\ wars[variableOf(a, e)] \in Four
        /\ vars[variableOf(a, e)] \subseteq wars[variableOf(a, e)]
ReadsClean(a, inner, R, vars) ==
    \A e \in R : isRead(a, inner, e) => Clean(vars[variableOf(a, e)])

\* There, values read from variables told no less say no less, and of variables
\* none of which is told both none is told both.
LEMMA ValuesKeep ==
    ASSUME NEW a, Loaded(a), NEW inner \in BOOLEAN, NEW R, Covers(a, inner, R),
           NEW vars, NEW wars, NEW f, NEW g, NoLess(a, inner, R, vars, wars),
           ValuesOf(a, inner, vars, f), ValuesOf(a, inner, wars, g)
    PROVE  /\ \A e \in R : f[e] \in Four /\ g[e] \in Four /\ f[e] \subseteq g[e]
           /\ ReadsClean(a, inner, R, vars) => \A e \in R : Clean(f[e])
<1> USE DEF Covers, NoLess, ReadsClean
<1> DEFINE clean == ReadsClean(a, inner, R, vars)
           Good(e) == /\ f[e] \in Four /\ g[e] \in Four /\ f[e] \subseteq g[e]
                      /\ clean => Clean(f[e])
           S == {e \in R : ~Good(e)}
<1> SUFFICES ASSUME S # {} PROVE FALSE
  OBVIOUS
<1>1. PICK e \in S : readsFrom(a, e) \cap S = {}
  BY DEF Loaded
<1>2. e \in R /\ e \in DOMAIN a.expr
  OBVIOUS
<1>3. \A d \in usedBy(a, inner, e) : Good(d)
  <2> HIDE DEF Good
  <2> QED
    BY <1>1, <1>2, UsesResolve
<1>4. /\ f[e] = valueAt(a, inner, vars, f, e)
      /\ g[e] = valueAt(a, inner, wars, g, e)
  BY <1>2 DEF ValuesOf
<1>5. /\ f[e] \in Four /\ f[e] \subseteq g[e]
      /\ clean => Clean(f[e])
  BY <1>2, <1>3, <1>4, ValueKeeps
<1>6. g[e] \in Four
  BY <1>2, <1>3, <1>4, ValueKeeps
<1> QED
  BY <1>5, <1>6

LEMMA ValuesTyped ==
    ASSUME NEW a, Loaded(a), NEW inner \in BOOLEAN, NEW R, Covers(a, inner, R),
           NEW vars, NEW f, NoLess(a, inner, R, vars, vars), ValuesOf(a, inner, vars, f)
    PROVE  /\ \A e \in R : f[e] \in Four
           /\ ReadsClean(a, inner, R, vars) => \A e \in R : Clean(f[e])
  BY ValuesKeep

LEMMA ValueTyped ==
    ASSUME NEW a, Loaded(a), NEW inner \in BOOLEAN, NEW e \in DOMAIN a.expr,
           NEW vars, NEW f, \A d \in usedBy(a, inner, e) : f[d] \in Four,
           isRead(a, inner, e) => vars[variableOf(a, e)] \in Four
    PROVE  valueAt(a, inner, vars, f, e) \in Four
<1>1. \A d \in usedBy(a, inner, e) : f[d] \in Four /\ f[d] \in Four /\ f[d] \subseteq f[d]
  OBVIOUS
<1>2. isRead(a, inner, e) =>
        LET x == variableOf(a, e)
        IN  vars[x] \in Four /\ vars[x] \in Four /\ vars[x] \subseteq vars[x]
  OBVIOUS
<1> QED
  BY <1>1, <1>2, ValueKeeps

Readable(a, vars) == \A x \in DOMAIN a.binding : vars[x] \in Four

\* There are such values, from whatever the variables are read.
LEMMA ValuesExist ==
    ASSUME NEW a, Loaded(a), NEW inner \in BOOLEAN, NEW vars, Readable(a, vars)
    PROVE  \E f : ValuesOf(a, inner, vars, f)
<1> DEFINE D == DOMAIN a.expr
           below == [e \in D |-> usedBy(a, inner, e)]
           B == [g \in [D -> Four] |-> [e \in D |-> valueAt(a, inner, vars, g, e)]]
<1>1. \A e \in D : /\ isRead(a, inner, e) => vars[variableOf(a, e)] \in Four
                   /\ usedBy(a, inner, e) \subseteq D
                   /\ usedBy(a, inner, e) \subseteq readsFrom(a, e)
  <2> HIDE DEF below, B
  <2>1. \A e \in D : isRead(a, inner, e) => vars[variableOf(a, e)] \in Four
    BY DEF Readable, Loaded, isRead, variableOf
  <2>2. \A e \in D : usedBy(a, inner, e) \subseteq D /\ usedBy(a, inner, e) \subseteq readsFrom(a, e)
    BY UsesResolve
  <2> QED
    BY <2>1, <2>2
<1>2. Four # {}
  BY DEF Four
<1>3. Founded(D, below)
  <2> SUFFICES ASSUME NEW S \in SUBSET D, S # {}
               PROVE  \E e \in S : below[e] \cap S = {}
    BY DEF Founded
  <2>1. PICK e \in S : readsFrom(a, e) \cap S = {}
    BY DEF Loaded
  <2> QED
    BY <1>1, <2>1
<1>4. \A g \in [D -> Four] : \A e \in D : valueAt(a, inner, vars, g, e) \in Four
  <2> SUFFICES ASSUME NEW g \in [D -> Four], NEW e \in D
               PROVE  valueAt(a, inner, vars, g, e) \in Four
    OBVIOUS
  <2>1. \A d \in usedBy(a, inner, e) : g[d] \in Four
    BY <1>1
  <2>2. isRead(a, inner, e) => vars[variableOf(a, e)] \in Four
    BY <1>1
  <2> HIDE DEF B, below
  <2> QED
    BY <2>1, <2>2, ValueTyped
<1>5. Total(D, Four, B)
  BY <1>4 DEF Total
<1>6. Local(D, Four, below, B)
  <2> SUFFICES ASSUME NEW g \in [D -> Four], NEW h \in [D -> Four], NEW e \in D,
                      \A d \in below[e] \cap D : g[d] = h[d]
               PROVE  valueAt(a, inner, vars, g, e) = valueAt(a, inner, vars, h, e)
    BY DEF Local
  <2>1. \A d \in usedBy(a, inner, e) : g[d] = h[d]
    BY <1>1
  <2>2. \A d \in usedBy(a, inner, e) : g[d] \in Four /\ h[d] \in Four
    BY <1>1
  <2>3. /\ valueAt(a, inner, vars, g, e) \subseteq valueAt(a, inner, vars, h, e)
        /\ valueAt(a, inner, vars, h, e) \subseteq valueAt(a, inner, vars, g, e)
    <3> HIDE DEF D
    <3>1. e \in DOMAIN a.expr
      BY DEF D
    <3> QED
      BY <1>1, <2>1, <2>2, <3>1, ValueKeeps
  <2> QED
    BY <2>3
<1>7. PICK f \in [D -> Four] : f = B[f]
  <2> HIDE DEF B, D, below
  <2> QED
    BY <1>2, <1>3, <1>5, <1>6, Recursion
<1> QED
  BY <1>7 DEF ValuesOf

\* What evaluatePremises and evaluateSubtree compute.
LEMMA PremiseValues ==
    ASSUME NEW a, Loaded(a), NEW vars, Readable(a, vars)
    PROVE  ValuesOf(a, TRUE, vars, evaluatePremises(a, vars))
<1> DEFINE body(f, e) ==
      IF kindOf(a, e) # "variable"
      THEN applyOperator(kindOf(a, e), [k \in DOMAIN kids(a, e) |-> f[kids(a, e)[k]]])
      ELSE IF ~isInternal(a, a.expr[e].variable) THEN vars[a.expr[e].variable]
      ELSE LET p == a.binding[a.expr[e].variable].premise
           IN  IF p \in premisesOf(a) /\ a.root[p] # None /\ ~isNakedQ(a, p)
               THEN f[a.root[p]] ELSE Null
<1>1. \A f : \A e : valueAt(a, TRUE, vars, f, e) = body(f, e)
  BY DEF valueAt, isRead, variableOf, boundTo, seen
<1>2. PICK f : f = [e \in DOMAIN a.expr |-> valueAt(a, TRUE, vars, f, e)]
  BY ValuesExist DEF ValuesOf
<1> DEFINE F == CHOOSE u : u = [e \in DOMAIN a.expr |-> body(u, e)]
<1>3. evaluatePremises(a, vars) = F
  BY DEF evaluatePremises
<1> HIDE DEF body
<1>4. F = [e \in DOMAIN a.expr |-> body(F, e)]
  BY <1>1, <1>2
<1> HIDE DEF F
<1> QED
  BY <1>1, <1>3, <1>4 DEF ValuesOf

LEMMA SubtreeValues ==
    ASSUME NEW a, Loaded(a), NEW vars, Readable(a, vars)
    PROVE  ValuesOf(a, FALSE, vars, evaluateSubtree(a, vars))
<1> DEFINE body(f, e) ==
      IF kindOf(a, e) = "variable" THEN vars[a.expr[e].variable]
      ELSE applyOperator(kindOf(a, e), [k \in DOMAIN kids(a, e) |-> f[kids(a, e)[k]]])
<1>1. \A f : \A e : valueAt(a, FALSE, vars, f, e) = body(f, e)
  BY DEF valueAt, isRead, variableOf
<1>2. PICK f : f = [e \in DOMAIN a.expr |-> valueAt(a, FALSE, vars, f, e)]
  BY ValuesExist DEF ValuesOf
<1> DEFINE F == CHOOSE u : u = [e \in DOMAIN a.expr |-> body(u, e)]
<1>3. evaluateSubtree(a, vars) = F
  BY DEF evaluateSubtree
<1> HIDE DEF body
<1>4. F = [e \in DOMAIN a.expr |-> body(F, e)]
  BY <1>1, <1>2
<1> HIDE DEF F
<1> QED
  BY <1>1, <1>3, <1>4 DEF ValuesOf

(***************************************************************************)
(* The rows of a truth table.                                              *)
(***************************************************************************)
LEMMA TwoToDoubles ==
    /\ twoTo[0] = 1
    /\ \A n \in Nat : twoTo[n] \in Nat \ {0} /\ twoTo[n + 1] = 2 * twoTo[n]
<1> DEFINE at(g, n) == IF n = 0 THEN 1 ELSE 2 * g[n - 1]
           below == [n \in Nat |-> {n - 1}]
           B == [g \in [Nat -> Nat] |-> [n \in Nat |-> at(g, n)]]
<1>1. Founded(Nat, below)
  <2> SUFFICES ASSUME NEW S \in SUBSET Nat, S # {}
               PROVE  \E e \in S : below[e] \cap S = {}
    BY DEF Founded
  <2>1. PICK e \in S : \A m \in S : e <= m
    BY LeastNumber
  <2> QED
    BY <2>1
<1>2. Total(Nat, Nat, B)
  BY DEF Total
<1>3. Local(Nat, Nat, below, B)
  <2>1. \A g \in [Nat -> Nat] : \A e \in Nat : B[g][e] = at(g, e)
    <3> HIDE DEF at
    <3> QED
      OBVIOUS
  <2>2. ASSUME NEW g \in [Nat -> Nat], NEW h \in [Nat -> Nat], NEW e \in Nat,
               \A d \in below[e] \cap Nat : g[d] = h[d]
        PROVE  at(g, e) = at(h, e)
    <3> HIDE DEF B
    <3> QED
      BY <2>2
  <2> HIDE DEF B, at, below
  <2> QED
    BY <2>1, <2>2 DEF Local
<1>4. PICK f \in [Nat -> Nat] : f = B[f]
  <2> HIDE DEF B, below
  <2>1. PICK D : D = Nat
    OBVIOUS
  <2>2. D # {} /\ Founded(D, below) /\ Total(D, D, B) /\ Local(D, D, below, B)
    BY <1>1, <1>2, <1>3, <2>1
  <2>3. \E f \in [D -> D] : f = B[f]
    BY <2>2, Recursion
  <2> QED
    BY <2>1, <2>3
<1>5. f = [n \in Nat |-> at(f, n)]
  BY <1>4
<1> DEFINE F == CHOOSE u : u = [n \in Nat |-> at(u, n)]
<1>6. F = [n \in Nat |-> at(F, n)]
  <2> HIDE DEF at
  <2> QED
    BY <1>5
<1>7. twoTo = F
  BY DEF twoTo
<1> HIDE DEF F
<1>8. \A n \in Nat : F[n] \in Nat \ {0}
  <2> DEFINE S == {n \in Nat : F[n] \notin Nat \ {0}}
  <2> SUFFICES ASSUME S # {} PROVE FALSE
    OBVIOUS
  <2>1. S \in SUBSET Nat
    OBVIOUS
  <2>2. PICK e \in S : \A m \in S : e <= m
    <3> HIDE DEF S
    <3> QED
      BY <2>1, LeastNumber
  <2>3. e = 0 \/ F[e - 1] \in Nat \ {0}
    BY <2>2
  <2>4. F[e] = at(F, e)
    BY <1>6
  <2> QED
    BY <2>3, <2>4
<1>9. F[0] = 1 /\ \A n \in Nat : F[n + 1] = 2 * F[n]
  <2>1. \A n \in Nat : F[n] = at(F, n)
    BY <1>6
  <2> QED
    BY <2>1
<1> QED
  BY <1>7, <1>8, <1>9

LEMMA TwoToDivides ==
    ASSUME NEW i \in Nat, NEW n \in Nat, i < n
    PROVE  \E q \in Nat : twoTo[n] = (2 * q) * twoTo[i]
<1> DEFINE P(m) == \E q \in Nat : twoTo[m] = (2 * q) * twoTo[i]
           S == {m \in Nat : i < m /\ ~P(m)}
<1> SUFFICES ASSUME S # {} PROVE FALSE
  OBVIOUS
<1>1. S \in SUBSET Nat
  OBVIOUS
<1>2. PICK m \in S : \A k \in S : m <= k
  <2> HIDE DEF S
  <2> QED
    BY <1>1, LeastNumber
<1>3. m - 1 \in Nat /\ m - 1 < m /\ twoTo[m] = 2 * twoTo[m - 1] /\ i <= m - 1
  <2>1. m \in Nat /\ m # 0 /\ i < m
    OBVIOUS
  <2>2. m - 1 \in Nat /\ (m - 1) + 1 = m
    BY <2>1
  <2>3. twoTo[(m - 1) + 1] = 2 * twoTo[m - 1]
    BY <2>2, TwoToDoubles
  <2> QED
    BY <2>1, <2>2, <2>3
<1>4. CASE i = m - 1
  <2>1. twoTo[m] = (2 * 1) * twoTo[i]
    BY <1>3, <1>4
  <2> QED
    BY <2>1
<1>5. CASE i < m - 1
  <2>1. P(m - 1)
    BY <1>2, <1>3, <1>5
  <2>2. PICK q \in Nat : twoTo[m - 1] = (2 * q) * twoTo[i]
    BY <2>1
  <2>3. twoTo[i] \in Nat
    BY TwoToDoubles
  <2>4. 2 * q \in Nat /\ twoTo[m] = (2 * (2 * q)) * twoTo[i]
    BY <1>3, <2>2, <2>3
  <2> QED
    BY <2>4
<1> QED
  BY <1>3, <1>4, <1>5

\* A multiple of what bit i stands for, twice, leaves that bit alone.
LEMMA BitStays ==
    ASSUME NEW m \in Nat, NEW p \in Nat \ {0}, NEW q \in Nat
    PROVE  ((m + (2 * q) * p) \div p) % 2 = (m \div p) % 2
<1>1. (m + (2 * q) * p) \div p = (m \div p) + 2 * q
  <2>1. PICK r : r = 2 * q
    OBVIOUS
  <2>2. r \in Nat
    BY <2>1
  <2>3. (m + r * p) \div p = (m \div p) + r
    BY <2>2
  <2> QED
    BY <2>1, <2>3
<1>2. m \div p \in Nat
  OBVIOUS
<1>3. PICK d : d = m \div p
  OBVIOUS
<1>4. (d + 2 * q) % 2 = d % 2
  BY <1>2, <1>3
<1> QED
  BY <1>1, <1>3, <1>4

\* The members of C that come before place m, and the place of one.
before(C, rank, m) == {y \in C : rank[y] < m}
Ranked(C, rank) ==
    /\ IsFiniteSet(C)
    /\ \A x, y \in C : rank[x] \in Nat /\ (rank[x] = rank[y] => x = y)

LEMMA RanksEnd ==
    ASSUME NEW C, NEW rank, Ranked(C, rank)
    PROVE  \E m \in Nat : before(C, rank, m) = C
<1> DEFINE Ends(K) == \E m \in Nat : \A x \in K : rank[x] < m
           S == {n \in Nat : \E K \in SUBSET C : Cardinality(K) = n /\ ~Ends(K)}
<1>1. \A K \in SUBSET C : IsFiniteSet(K) /\ Cardinality(K) \in Nat
  BY FS_Subset, FS_CardinalityType DEF Ranked
<1>2. S = {}
  <2> SUFFICES ASSUME S # {} PROVE FALSE
    OBVIOUS
  <2>1. S \in SUBSET Nat
    OBVIOUS
  <2>2. PICK n \in S : \A k \in S : n <= k
    <3> HIDE DEF S
    <3> QED
      BY <2>1, LeastNumber
  <2>3. PICK K \in SUBSET C : Cardinality(K) = n /\ ~Ends(K)
    OBVIOUS
  <2>4. PICK z \in K : TRUE
    <3>1. K = {} => \A x \in K : rank[x] < 0
      OBVIOUS
    <3> QED
      BY <2>3, <3>1
  <2>5. Cardinality(K \ {z}) = n - 1
    BY <1>1, <2>3, <2>4, FS_RemoveElement
  <2>6. K \ {z} \in SUBSET C /\ n - 1 \in Nat
    BY <1>1, <2>5
  <2>7. Ends(K \ {z})
    <3> HIDE DEF Ends
    <3> QED
      BY <2>2, <2>5, <2>6
  <2>8. PICK m \in Nat : \A x \in K \ {z} : rank[x] < m
    BY <2>7
  <2>9. rank[z] \in Nat
    BY <2>4 DEF Ranked
  <2>10. \E h \in Nat : m <= h /\ rank[z] < h
    <3>1. CASE rank[z] < m
      BY <3>1
    <3>2. CASE ~(rank[z] < m)
      <4>1. rank[z] + 1 \in Nat /\ m <= rank[z] + 1 /\ rank[z] < rank[z] + 1
        BY <2>9, <3>2
      <4> QED
        BY <4>1
    <3> QED
      BY <3>1, <3>2
  <2>11. PICK h \in Nat : m <= h /\ rank[z] < h
    BY <2>10
  <2>12. \A x \in K : rank[x] \in Nat
    BY DEF Ranked
  <2>13. \A x \in K : rank[x] < h
    BY <2>8, <2>11, <2>12
  <2> QED
    BY <2>3, <2>13
<1>3. Ends(C)
  <2> HIDE DEF Ends
  <2>1. C \in SUBSET C
    OBVIOUS
  <2> QED
    BY <1>1, <1>2, <2>1
<1> QED
  BY <1>3 DEF before

\* Whatever members are chosen, one number has exactly their bits.
LEMMA EveryChoiceIsARow ==
    ASSUME NEW C, NEW rank, Ranked(C, rank), NEW chosen
    PROVE  \E mask \in 0 .. (twoTo[Cardinality(C)] - 1) :
              \A x \in C :
                 (mask \div twoTo[Cardinality(before(C, rank, rank[x]))]) % 2 = 1
                    <=> x \in chosen
<1> DEFINE K(m) == before(C, rank, m)
           bit(mask, x) == (mask \div twoTo[Cardinality(K(rank[x]))]) % 2
           Row(m, mask) == \A x \in K(m) : bit(mask, x) = 1 <=> x \in chosen
           Fine(m) == \E mask \in 0 .. (twoTo[Cardinality(K(m))] - 1) : Row(m, mask)
           S == {m \in Nat : ~Fine(m)}
<1>1. \A m : /\ K(m) \subseteq C /\ IsFiniteSet(K(m))
             /\ Cardinality(K(m)) \in Nat
             /\ twoTo[Cardinality(K(m))] \in Nat \ {0}
  <2> SUFFICES ASSUME NEW m
               PROVE  /\ K(m) \subseteq C /\ IsFiniteSet(K(m))
                      /\ Cardinality(K(m)) \in Nat
                      /\ twoTo[Cardinality(K(m))] \in Nat \ {0}
    OBVIOUS
  <2>1. K(m) \in SUBSET C
    BY DEF before
  <2>2. IsFiniteSet(K(m))
    BY <2>1, FS_Subset DEF Ranked
  <2>3. Cardinality(K(m)) \in Nat
    BY <2>2, FS_CardinalityType
  <2> QED
    BY <2>1, <2>2, <2>3, TwoToDoubles
<1>2. S = {}
  <2> SUFFICES ASSUME S # {} PROVE FALSE
    OBVIOUS
  <2>1. S \in SUBSET Nat
    OBVIOUS
  <2>2. PICK m \in S : \A k \in S : m <= k
    <3> HIDE DEF S
    <3> QED
      BY <2>1, LeastNumber
  <2>3. m \in Nat /\ ~Fine(m)
    OBVIOUS
  <2>4. m # 0
    <3> SUFFICES ASSUME m = 0 PROVE FALSE
      OBVIOUS
    <3>1. K(m) = {}
      BY DEF before, Ranked
    <3>2. 0 \in 0 .. (twoTo[Cardinality(K(m))] - 1)
      BY <1>1
    <3>3. Row(m, 0)
      BY <3>1
    <3> QED
      BY <2>3, <3>2, <3>3
  <2>5. m - 1 \in Nat /\ Fine(m - 1)
    <3>1. m - 1 \in Nat /\ ~(m <= m - 1)
      BY <2>3, <2>4
    <3> HIDE DEF Fine
    <3> QED
      BY <2>2, <3>1
  <2> DEFINE L == K(m - 1)
             N == Cardinality(L)
  <2>6. PICK mask \in 0 .. (twoTo[N] - 1) : Row(m - 1, mask)
    BY <2>5
  <2>7. CASE \A z \in C : rank[z] # m - 1
    <3>1. K(m) = L
      BY <2>3, <2>5, <2>7 DEF before, Ranked
    <3> QED
      BY <2>3, <2>5, <3>1
  <2>8. ASSUME NEW z \in C, rank[z] = m - 1 PROVE FALSE
    <3>1. K(m) = L \cup {z} /\ z \notin L /\ K(rank[z]) = L
      BY <2>3, <2>5, <2>8 DEF before, Ranked
    <3>2. Cardinality(K(m)) = N + 1 /\ N \in Nat
      BY <1>1, <3>1, FS_AddElement
    <3>3. /\ twoTo[N] \in Nat \ {0} /\ twoTo[N + 1] = 2 * twoTo[N]
          /\ mask \in Nat /\ mask < twoTo[N]
      BY <1>1, <2>6, <3>2, TwoToDoubles
    <3> DEFINE b == IF z \in chosen THEN 1 ELSE 0
               sum == mask + b * twoTo[N]
    <3>4. sum \in 0 .. (twoTo[N + 1] - 1)
      <4>1. PICK w : w = twoTo[N]
        OBVIOUS
      <4> QED
        BY <3>3, <4>1
    <3>5. bit(sum, z) = b
      <4>1. PICK w : w = twoTo[N]
        OBVIOUS
      <4>2. w \in Nat \ {0} /\ mask \in Nat /\ mask < w
        BY <3>3, <4>1
      <4>3. (mask + b * w) \div w = b
        BY <4>2
      <4>4. b % 2 = b
        OBVIOUS
      <4> QED
        BY <3>1, <4>1, <4>3, <4>4
    <3>6. ASSUME NEW x \in L PROVE bit(sum, x) = bit(mask, x)
      <4> DEFINE M == K(rank[x])
      <4>1. M \subseteq L /\ x \in L \ M
        BY <2>5 DEF before, Ranked
      <4>2. Cardinality(M) < N
        <5>1. M \in SUBSET L /\ M # L /\ IsFiniteSet(L)
          BY <1>1, <4>1
        <5>2. Cardinality(M) <= N /\ Cardinality(M) # N
          BY <5>1, FS_Subset
        <5>3. Cardinality(M) \in Nat
          BY <1>1
        <5> HIDE DEF M, N
        <5> QED
          BY <3>2, <5>2, <5>3
      <4>3. PICK p, i : p = twoTo[i] /\ i = Cardinality(M)
        OBVIOUS
      <4>4. i \in Nat /\ i < N /\ p \in Nat \ {0}
        BY <1>1, <4>2, <4>3
      <4>5. PICK q \in Nat : twoTo[N] = (2 * q) * p
        BY <3>2, <4>3, <4>4, TwoToDivides
      <4>6. CASE b = 0
        BY <3>3, <4>6
      <4>7. CASE b = 1
        <5>1. ((mask + (2 * q) * p) \div p) % 2 = (mask \div p) % 2
          BY <3>3, <4>4, BitStays
        <5>2. sum = mask + (2 * q) * p
          BY <3>3, <4>5, <4>7
        <5> QED
          BY <4>3, <5>1, <5>2
      <4> QED
        BY <4>6, <4>7
    <3>7. Row(m, sum)
      <4> HIDE DEF sum, L, K
      <4> QED
        BY <2>6, <3>1, <3>5, <3>6 DEF L
    <3> QED
      BY <2>3, <3>2, <3>4, <3>7
  <2> QED
    BY <2>7, <2>8
<1>3. PICK m \in Nat : K(m) = C
  BY RanksEnd
<1>4. Fine(m)
  <2> HIDE DEF Fine
  <2> QED
    BY <1>2
<1> QED
  BY <1>3, <1>4

(***************************************************************************)
(* A visit of an accepted operator.                                        *)
(***************************************************************************)
Named(a) == UNION {variablesUnder(a, d) : d \in DOMAIN a.expr}
StepKey(a) ==
    {<<leafVariable(a, d), e, c>> : d \in DOMAIN a.expr, e \in DOMAIN a.expr, c \in {"t", "f"}}
StepRecords(a) == UNION {[K -> SUBSET Named(a)] : K \in SUBSET StepKey(a)}
Closures(a) == [vars : [argumentVariables(a) -> Four], steps : StepRecords(a)]

LEMMA StepRecordsAre ==
    ASSUME NEW a, NEW K \in SUBSET StepKey(a), NEW r \in [K -> SUBSET Named(a)]
    PROVE  r \in StepRecords(a)
  BY DEF StepRecords

LEMMA ForcedTyped ==
    ASSUME NEW kind \in OperatorKind, NEW vs \in Seq(Four), NEW k \in DOMAIN vs
    PROVE  forced(kind, vs, k) \in Four
<1> DEFINE others == [j \in DOMAIN vs \ {k} |-> vs[j]]
<1>1. CASE kind = "not"
  BY <1>1 DEF forced, Four, False, Null
<1>2. CASE kind = "and"
  BY <1>2 DEF forced, Four, True
<1>3. CASE kind = "or"
  BY <1>3 DEF forced, Four, True, Null
<1>4. CASE kind = "xor"
  <2>1. forced(kind, vs, k) = parityForced(others)
    BY <1>4 DEF forced
  <2> HIDE DEF others
  <2> QED
    BY <2>1 DEF parityForced, Four, True, False, Null
<1>5. CASE kind = "implies"
  <2>1. Len(vs) > 1 => vs[1] \in Four /\ vs[2] \in Four
    OBVIOUS
  <2>2. CASE Len(vs) > 1
    BY <1>5, <2>1, <2>2 DEF forced, Four, True, False, Null, Conditional
  <2>3. CASE ~(Len(vs) > 1)
    BY <1>5, <2>3 DEF forced, Four, Null, Conditional
  <2> QED
    BY <2>2, <2>3
<1>6. CASE kind = "iff"
  <2>1. Len(vs) > 1 /\ k \in {1, 2} => vs[3 - k] \in Four
    OBVIOUS
  <2>2. CASE Len(vs) > 1
    BY <1>6, <2>1, <2>2 DEF forced, Four, Null, Conditional
  <2>3. CASE ~(Len(vs) > 1)
    BY <1>6, <2>3 DEF forced, Four, Null, Conditional
  <2> QED
    BY <2>2, <2>3
<1> QED
  BY <1>1, <1>2, <1>3, <1>4, <1>5, <1>6 DEF OperatorKind, Variadic, Conditional

LEMMA ChildValuesTyped ==
    ASSUME NEW a, Loaded(a), NEW vars, Readable(a, vars), NEW e \in DOMAIN a.expr
    PROVE  /\ childValues(a, e, vars) \in Seq(Four)
           /\ Len(childValues(a, e, vars)) = Len(kids(a, e))
           /\ DOMAIN childValues(a, e, vars) = DOMAIN kids(a, e)
           /\ \A k \in DOMAIN kids(a, e) :
                 childValues(a, e, vars)[k] = evaluateSubtree(a, vars)[kids(a, e)[k]]
<1>1. PICK val : val = evaluateSubtree(a, vars)
  OBVIOUS
<1>2. ValuesOf(a, FALSE, vars, val)
  BY <1>1, SubtreeValues
<1>3. \A d \in DOMAIN a.expr : val[d] \in Four
  <2>1. Covers(a, FALSE, DOMAIN a.expr)
    BY UsesResolve DEF Covers
  <2>2. NoLess(a, FALSE, DOMAIN a.expr, vars, vars)
    BY DEF NoLess, Readable, Loaded, isRead, variableOf
  <2> QED
    BY <1>2, <2>1, <2>2, ValuesTyped
<1>4. kids(a, e) \in Seq(DOMAIN a.expr)
  BY UsesResolve
<1>5. childValues(a, e, vars) = [k \in DOMAIN kids(a, e) |-> val[kids(a, e)[k]]]
  BY <1>1 DEF childValues
<1> QED
  BY <1>1, <1>3, <1>4, <1>5

\* Closure t is s with value added to variable x, if there is one.
Added(a, s, t, x, value) ==
    /\ t \in Closures(a)
    /\ \A y \in argumentVariables(a) :
          t.vars[y] = IF y = x /\ x # NoVariable THEN s.vars[y] \cup value ELSE s.vars[y]

\* A merge adds what is forced and withdraws nothing.
LEMMA MergeAdds ==
    ASSUME NEW a, Loaded(a), NEW s \in Closures(a), NEW e \in DOMAIN a.expr,
           NEW k \in DOMAIN kids(a, e), NEW value \in Four
    PROVE  Added(a, s, mergeIntoChild(a, s, e, k, value),
                 leafVariable(a, kids(a, e)[k]), value)
<1> SUFFICES ASSUME NEW x, x = leafVariable(a, kids(a, e)[k]),
                    NEW t, t = mergeIntoChild(a, s, e, k, value)
             PROVE  /\ t \in Closures(a)
                    /\ \A y \in argumentVariables(a) :
                          t.vars[y] = IF y = x /\ x # NoVariable THEN s.vars[y] \cup value
                                      ELSE s.vars[y]
  BY DEF Added
<1> DEFINE fired == {<<x, e, c>> : c \in value}
           from == IF kindOf(a, e) \in {"not", "and"} THEN {}
                   ELSE UNION {valuedUnder(a, kids(a, e)[j], s.vars) :
                                   j \in DOMAIN kids(a, e) \ {k}}
           vars == [s.vars EXCEPT ![x] = @ \cup value]
           steps == [key \in fired \cup DOMAIN s.steps |->
                        IF key \in fired THEN from ELSE s.steps[key]]
<1>1. \A j \in DOMAIN kids(a, e) : kids(a, e)[j] \in DOMAIN a.expr
  <2>1. kids(a, e) \in Seq(DOMAIN a.expr)
    BY UsesResolve
  <2> QED
    BY <2>1
<1>2. CASE x = NoVariable \/ value = Null
  <2>1. t = s
    BY <1>2 DEF mergeIntoChild
  <2>2. NoVariable \notin argumentVariables(a)
    BY DEF Loaded, argumentVariables
  <2> QED
    BY <1>2, <2>1, <2>2 DEF Null
<1>3. CASE ~(x = NoVariable \/ value = Null)
  <2>1. t = [vars |-> vars, steps |-> steps]
    BY <1>3 DEF mergeIntoChild
  <2>2. s.vars \in [argumentVariables(a) -> Four] /\ s.steps \in StepRecords(a)
    BY DEF Closures
  <2>3. PICK K \in SUBSET StepKey(a) : s.steps \in [K -> SUBSET Named(a)]
    BY <2>2 DEF StepRecords
  <2>4. fired \in SUBSET StepKey(a)
    <3>1. x \in {leafVariable(a, d) : d \in DOMAIN a.expr}
      BY <1>1
    <3>2. value \subseteq {"t", "f"}
      BY DEF Four
    <3>3. \A c \in value : <<x, e, c>> \in StepKey(a)
      BY <3>1, <3>2 DEF StepKey
    <3> QED
      BY <3>3
  <2>5. from \in SUBSET Named(a)
    <3>1. \A j \in DOMAIN kids(a, e) :
            valuedUnder(a, kids(a, e)[j], s.vars) \subseteq Named(a)
      BY <1>1 DEF valuedUnder, Named
    <3> QED
      BY <3>1
  <2>6. steps \in [fired \cup K -> SUBSET Named(a)]
    <3> HIDE DEF from, fired
    <3> QED
      BY <2>3, <2>5
  <2>7. steps \in StepRecords(a)
    <3>1. fired \cup K \in SUBSET StepKey(a)
      BY <2>3, <2>4
    <3> HIDE DEF steps, fired
    <3> QED
      BY <2>6, <3>1, StepRecordsAre
  <2>8. vars \in [argumentVariables(a) -> Four]
    <3>1. \A v \in Four : v \cup value \in Four
      BY DEF Four
    <3> QED
      BY <2>2, <3>1
  <2>9. \A y \in argumentVariables(a) :
          vars[y] = IF y = x THEN s.vars[y] \cup value ELSE s.vars[y]
    <3> QED
      BY <2>2
  <2> HIDE DEF vars, steps
  <2>10. t \in Closures(a) /\ t.vars = vars
    BY <2>1, <2>7, <2>8 DEF Closures
  <2> QED
    BY <1>3, <2>9, <2>10
<1> QED
  BY <1>2, <1>3

\* What a move merges.
valueMoved(a, start, s, e, k) ==
    forced(kindOf(a, e),
           childValues(a, e, IF kindOf(a, e) \in {"xor", "iff"} THEN s.vars ELSE start.vars),
           k)

LEMMA MoveAdds ==
    ASSUME NEW a, Loaded(a), NEW start \in Closures(a), NEW s \in Closures(a),
           NEW e \in operatorsOf(a), NEW k \in DOMAIN kids(a, e)
    PROVE  /\ valueMoved(a, start, s, e, k) \in Four
           /\ Added(a, s, moveInto(a, start, s, e, k), leafVariable(a, kids(a, e)[k]),
                    valueMoved(a, start, s, e, k))
<1> DEFINE value == valueMoved(a, start, s, e, k)
<1> DEFINE vars == IF kindOf(a, e) \in {"xor", "iff"} THEN s.vars ELSE start.vars
<1>1. e \in DOMAIN a.expr /\ kindOf(a, e) \in OperatorKind
  BY DEF operatorsOf, kindOf
<1>2. Readable(a, vars)
  BY DEF Closures, Readable, argumentVariables
<1>3. value \in Four
  <2> HIDE DEF vars
  <2>1. /\ childValues(a, e, vars) \in Seq(Four)
        /\ k \in DOMAIN childValues(a, e, vars)
    BY <1>1, <1>2, ChildValuesTyped
  <2>2. forced(kindOf(a, e), childValues(a, e, vars), k) \in Four
    BY <1>1, <2>1, ForcedTyped
  <2> QED
    BY <2>2 DEF valueMoved, vars
<1>4. moveInto(a, start, s, e, k) = mergeIntoChild(a, s, e, k, value)
  BY DEF moveInto, valueMoved
<1> HIDE DEF value
<1>5. Added(a, s, mergeIntoChild(a, s, e, k, value), leafVariable(a, kids(a, e)[k]), value)
  BY <1>1, <1>3, MergeAdds
<1> QED
  BY <1>3, <1>4, <1>5 DEF value

LEMMA OrderResolves ==
    ASSUME NEW a, Loaded(a), NEW e \in DOMAIN a.expr
    PROVE  /\ visitOrder(a, e) \in Seq(DOMAIN kids(a, e))
           /\ Len(visitOrder(a, e)) \in Nat
           /\ \A i \in 1 .. Len(visitOrder(a, e)) : visitOrder(a, e)[i] \in DOMAIN kids(a, e)
           /\ (kindOf(a, e) \in Conditional => Len(kids(a, e)) = 2)
                => \A k \in DOMAIN kids(a, e) :
                      \E i \in 1 .. Len(visitOrder(a, e)) : visitOrder(a, e)[i] = k
<1>1. kids(a, e) \in Seq(DOMAIN a.expr)
  BY UsesResolve
<1> DEFINE n == Len(kids(a, e))
<1>2. n \in Nat /\ DOMAIN kids(a, e) = 1 .. n
  BY <1>1
<1> HIDE DEF n
<1>3. CASE kindOf(a, e) \in Conditional /\ n > 1
  <2>1. visitOrder(a, e) = <<2, 1>>
    BY <1>3 DEF visitOrder, n
  <2>2. 1 \in 1 .. n /\ 2 \in 1 .. n
    BY <1>2, <1>3
  <2>3. <<2, 1>> \in Seq(1 .. n) /\ Len(<<2, 1>>) = 2
    BY <2>2
  <2>4. \A i \in 1 .. 2 : <<2, 1>>[i] \in 1 .. n
    BY <2>2
  <2>5. n = 2 => \A k \in 1 .. n : \E i \in 1 .. 2 : <<2, 1>>[i] = k
    OBVIOUS
  <2> QED
    BY <1>2, <1>3, <2>1, <2>3, <2>4, <2>5 DEF n
<1>4. CASE ~(kindOf(a, e) \in Conditional /\ n > 1)
  <2>1. visitOrder(a, e) = [k \in 1 .. n |-> k]
    BY <1>4 DEF visitOrder, n
  <2>2. /\ [k \in 1 .. n |-> k] \in Seq(1 .. n)
        /\ Len([k \in 1 .. n |-> k]) = n
    BY <1>2
  <2> QED
    BY <1>2, <2>1, <2>2
<1> QED
  BY <1>3, <1>4

\* A visit moves into one child after the other.
LEMMA VisitMoves ==
    ASSUME NEW a, Loaded(a), NEW s \in Closures(a), NEW e \in operatorsOf(a)
    PROVE  LET n == Len(visitOrder(a, e))
           IN  \E m \in [0 .. n -> Closures(a)] :
                  /\ m[0] = s
                  /\ \A i \in 1 .. n : m[i] = moveInto(a, s, m[i - 1], e, visitOrder(a, e)[i])
                  /\ visit(a, s, e) = m[n]
<1> DEFINE order == visitOrder(a, e)
           n == Len(order)
           D == 0 .. n
           V == Closures(a)
           at(g, i) == IF i = 0 THEN s ELSE moveInto(a, s, g[i - 1], e, order[i])
           below == [i \in D |-> {i - 1}]
           B == [g \in [D -> V] |-> [i \in D |-> at(g, i)]]
<1>0. /\ n \in Nat
      /\ \A i \in D : i # 0 => i - 1 \in D /\ order[i] \in DOMAIN kids(a, e)
      /\ e \in DOMAIN a.expr
      /\ 0 \in D
  <2>1. e \in DOMAIN a.expr
    BY DEF operatorsOf
  <2> QED
    BY <2>1, OrderResolves
<1>m. \A t \in V : \A i \in D : i # 0 => moveInto(a, s, t, e, order[i]) \in V
  <2> HIDE DEF order
  <2> QED
    BY <1>0, MoveAdds DEF Added
<1> HIDE DEF n, order
<1>1. Founded(D, below)
  <2> SUFFICES ASSUME NEW S \in SUBSET D, S # {}
               PROVE  \E i \in S : below[i] \cap S = {}
    BY DEF Founded
  <2>1. PICK i \in S : \A m \in S : i <= m
    BY <1>0, LeastNumber
  <2> QED
    BY <1>0, <2>1
<1>2. \A g \in [D -> V] : \A i \in D : at(g, i) \in V
  <2> HIDE DEF D, V
  <2> QED
    BY <1>0, <1>m DEF V
<1>3. Total(D, V, B)
  <2> HIDE DEF at, D, V
  <2> QED
    BY <1>2 DEF Total
<1>4. Local(D, V, below, B)
  <2>1. \A g \in [D -> V] : \A i \in D : B[g][i] = at(g, i)
    <3> HIDE DEF at, D, V
    <3> QED
      OBVIOUS
  <2>2. ASSUME NEW g \in [D -> V], NEW h \in [D -> V], NEW i \in D,
               \A d \in below[i] \cap D : g[d] = h[d]
        PROVE  at(g, i) = at(h, i)
    <3> HIDE DEF B
    <3> QED
      BY <1>0, <2>2
  <2> HIDE DEF B, at, below, D, V
  <2> QED
    BY <2>1, <2>2 DEF Local
<1>5. PICK f \in [D -> V] : f = B[f]
  <2>1. V # {}
    OBVIOUS
  <2> HIDE DEF B, D, below, V
  <2> QED
    BY <1>1, <1>3, <1>4, <2>1, Recursion
<1>6. f = [i \in D |-> at(f, i)]
  <2> HIDE DEF D, V, at
  <2> QED
    BY <1>5
<1> DEFINE F == CHOOSE u : u = [i \in D |-> at(u, i)]
<1>7. F = [i \in D |-> at(F, i)]
  <2> HIDE DEF D, at
  <2> QED
    BY <1>6
<1>8. visit(a, s, e) = F[n]
  BY DEF visit, n, order
<1> HIDE DEF F
<1>9. F \in [D -> V]
  <2> DEFINE S == {i \in D : F[i] \notin V}
  <2>1. S = {}
    <3> SUFFICES ASSUME S # {} PROVE FALSE
      OBVIOUS
    <3>0. S \in SUBSET Nat
      BY <1>0
    <3>1. PICK i \in S : \A m \in S : i <= m
      <4> HIDE DEF S
      <4> QED
        BY <3>0, LeastNumber
    <3>2. i = 0 \/ F[i - 1] \in V
      BY <1>0, <3>1
    <3>3. F[i] = at(F, i)
      BY <1>7
    <3>4. i \in D /\ F[i] \notin V
      OBVIOUS
    <3> HIDE DEF S, D, V
    <3>5. at(F, i) \in V
      BY <1>0, <1>m, <3>2, <3>4 DEF V
    <3> QED
      BY <3>3, <3>4, <3>5
  <2> HIDE DEF at, V
  <2> QED
    BY <1>7, <2>1
<1>10. F[0] = s /\ \A i \in 1 .. n : F[i] = moveInto(a, s, F[i - 1], e, order[i])
  <2>1. 0 \in D /\ \A i \in 1 .. n : i \in D /\ i # 0
    BY <1>0
  <2>2. \A i \in D : F[i] = at(F, i)
    BY <1>7
  <2> QED
    BY <2>1, <2>2
<1> QED
  BY <1>8, <1>9, <1>10 DEF order, n

LEMMA MoveKeeps ==
    ASSUME NEW a, Loaded(a), NEW start \in Closures(a), NEW s \in Closures(a),
           NEW e \in operatorsOf(a), NEW k \in DOMAIN kids(a, e)
    PROVE  \A y \in argumentVariables(a) : s.vars[y] \subseteq moveInto(a, start, s, e, k).vars[y]
<1>1. PICK x, t, value :
        /\ Added(a, s, t, x, value)
        /\ t = moveInto(a, start, s, e, k)
  BY MoveAdds
<1> QED
  BY <1>1 DEF Added

\* A visit adds and withdraws nothing.
LEMMA VisitAdds ==
    ASSUME NEW a, Loaded(a), NEW s \in Closures(a), NEW e \in operatorsOf(a)
    PROVE  /\ visit(a, s, e) \in Closures(a)
           /\ \A y \in argumentVariables(a) : s.vars[y] \subseteq visit(a, s, e).vars[y]
<1> DEFINE order == visitOrder(a, e)
           n == Len(order)
<1>1. PICK m \in [0 .. n -> Closures(a)] :
        /\ m[0] = s
        /\ \A i \in 1 .. n : m[i] = moveInto(a, s, m[i - 1], e, order[i])
        /\ visit(a, s, e) = m[n]
  BY VisitMoves
<1>2. n \in Nat /\ \A i \in 1 .. n : order[i] \in DOMAIN kids(a, e)
  <2>1. e \in DOMAIN a.expr
    BY DEF operatorsOf
  <2> QED
    BY <2>1, OrderResolves
<1> HIDE DEF n, order
<1> DEFINE Above(i) == \A y \in argumentVariables(a) : s.vars[y] \subseteq m[i].vars[y]
           S == {i \in 0 .. n : ~Above(i)}
<1>3. S = {}
  <2> SUFFICES ASSUME S # {} PROVE FALSE
    OBVIOUS
  <2>0. S \in SUBSET Nat
    BY <1>2
  <2>1. PICK i \in S : \A k \in S : i <= k
    <3> HIDE DEF S
    <3> QED
      BY <2>0, LeastNumber
  <2>2. i # 0
    BY <1>1
  <2>3. i \in 1 .. n /\ i - 1 \in 0 .. n /\ i - 1 \notin S
    BY <1>2, <2>1, <2>2
  <2>4. Above(i - 1) /\ ~Above(i) /\ m[i - 1] \in Closures(a)
    BY <2>3
  <2>5. PICK t \in Closures(a) : t = m[i - 1]
    BY <2>4
  <2>6. m[i] = moveInto(a, s, t, e, order[i])
    BY <1>1, <2>3, <2>5
  <2>7. \A y \in argumentVariables(a) : t.vars[y] \subseteq moveInto(a, s, t, e, order[i]).vars[y]
    <3>1. PICK k \in DOMAIN kids(a, e) : k = order[i]
      BY <1>2, <2>3
    <3>2. \A y \in argumentVariables(a) : t.vars[y] \subseteq moveInto(a, s, t, e, k).vars[y]
      BY MoveKeeps
    <3> QED
      BY <3>1, <3>2
  <2> HIDE DEF S
  <2> QED
    BY <2>4, <2>5, <2>6, <2>7
<1>4. n \in 0 .. n
  BY <1>2
<1>5. Above(n)
  <2> HIDE DEF Above
  <2> QED
    BY <1>3, <1>4
<1> QED
  BY <1>1, <1>4, <1>5

(***************************************************************************)
(* The invariant.                                                          *)
(***************************************************************************)
EvaluationTypes ==
    /\ argument \in Arguments
    /\ \A x \in DOMAIN answers : answers[x] \in {True, False, Null}
    /\ decisions \in [Decidable(argument) -> {"accepted", "rejected", "none"}]
    /\ phase \in {"asked", "closing", "reported", "refused"}
    /\ closure \in Closures(argument)
    /\ toVisit \subseteq granted(argument, decisions)
    /\ changed \in BOOLEAN

\* Only an argument that can be evaluated is; it starts from the seed.
OnlyEvaluable ==
    phase \in {"closing", "reported"} =>
        /\ validateEvaluability(argument) /\ hasConclusion(argument)
        /\ \A x \in argumentVariables(argument) : seed[x] \subseteq closure.vars[x]

\* The report is about the values the closure ended with.
ReportTells ==
    reported =>
        /\ report.struck = struckPremises(argument, decisions)
        /\ report.satisfiable = satisfiable(argument, decisions)
        /\ report.facts = aggregates(argument, closure.vars, report.struck)
        /\ \A x \in argumentVariables(argument) :
              closure.vars[x] = True \cup False => x \in report.contested

EvaluationInv == EvaluationTypes /\ OnlyEvaluable /\ ReportTells

LEMMA SeedTyped ==
    ASSUME NEW a, NEW given, \A x \in DOMAIN given : given[x] \in {True, False, Null}
    PROVE  seedOf(a, given) \in [argumentVariables(a) -> Four]
  BY DEF seedOf, Four, True, False, Null

LEMMA NoStepsYet ==
    ASSUME NEW a, NEW vars \in [argumentVariables(a) -> Four]
    PROVE  noClosure(vars) \in Closures(a) /\ noClosure(vars).vars = vars
<1>1. << >> \in [{} -> SUBSET Named(a)]
  OBVIOUS
<1>2. << >> \in StepRecords(a)
  <2>1. {} \in SUBSET StepKey(a)
    OBVIOUS
  <2> QED
    BY <1>1, <2>1, StepRecordsAre
<1> QED
  BY <1>2 DEF noClosure, Closures

LEMMA GrantedDecided ==
    ASSUME EvaluationTypes
    PROVE  /\ Loaded(argument)
           /\ granted(argument, decisions) \subseteq operatorsOf(argument)
  BY EvaluationAssumption DEF EvaluationTypes, granted, accepted

LEMMA InitKept == EvaluationInit => EvaluationInv
<1> SUFFICES ASSUME EvaluationInit PROVE EvaluationInv
  OBVIOUS
<1>1. [x \in argumentVariables(argument) |-> Null] \in [argumentVariables(argument) -> Four]
  BY DEF Null, Four
<1>2. closure \in Closures(argument)
  BY <1>1, NoStepsYet DEF EvaluationInit
<1>3. \A x \in DOMAIN answers : answers[x] \in {True, False, Null}
  BY DEF EvaluationInit
<1> QED
  BY <1>2, <1>3 DEF EvaluationInit, EvaluationInv, EvaluationTypes, OnlyEvaluable, ReportTells, reported

LEMMA BeginKept ==
    ASSUME EvaluationInv, NEW given, Begin(given),
           \A x \in DOMAIN given : given[x] \in {True, False, Null}
    PROVE  EvaluationInv'
<1>1. seedOf(argument, given) \in [argumentVariables(argument) -> Four]
  BY SeedTyped
<1>2. /\ noClosure(seedOf(argument, given)) \in Closures(argument)
      /\ noClosure(seedOf(argument, given)).vars = seedOf(argument, given)
  BY <1>1, NoStepsYet
<1>3. EvaluationTypes'
  BY <1>2 DEF EvaluationInv, EvaluationTypes, Begin
<1>4. OnlyEvaluable'
  BY <1>2 DEF OnlyEvaluable, Begin, seed
<1>5. ReportTells'
  BY DEF ReportTells, Begin, reported
<1> QED
  BY <1>3, <1>4, <1>5 DEF EvaluationInv

LEMMA StepKept == EvaluationInv /\ [EvaluationNext]_evars => EvaluationInv'
<1> SUFFICES ASSUME EvaluationInv, [EvaluationNext]_evars PROVE EvaluationInv'
  OBVIOUS
<1> USE DEF EvaluationInv
<1>1. CASE evaluate
  BY <1>1, BeginKept DEF evaluate, EvaluationTypes
<1>2. CASE evaluateWithDefaults
  <2>1. PICK given : /\ given = [x \in DOMAIN answers \cup (argumentVariables(argument) \ axiomatic(argument)) |->
                                    IF x \in DOMAIN answers THEN answers[x]
                                    ELSE deriveDefaultAssignment(argument)[x]]
                     /\ Begin(given)
    BY <1>2 DEF evaluateWithDefaults
  <2>2. \A x \in argumentVariables(argument) : deriveDefaultAssignment(argument)[x] \in {True, Null}
    BY DEF deriveDefaultAssignment
  <2>3. \A x \in DOMAIN given : given[x] \in {True, False, Null}
    BY <2>1, <2>2 DEF EvaluationTypes
  <2> QED
    BY <2>1, <2>3, BeginKept
<1>3. ASSUME NEW e \in toVisit, Visit(e) PROVE EvaluationInv'
  <2>1. e \in operatorsOf(argument) /\ Loaded(argument)
    BY GrantedDecided DEF EvaluationTypes
  <2>2. /\ visit(argument, closure, e) \in Closures(argument)
        /\ \A y \in argumentVariables(argument) :
              closure.vars[y] \subseteq visit(argument, closure, e).vars[y]
    BY <2>1, VisitAdds DEF EvaluationTypes
  <2>3. EvaluationTypes'
    BY <1>3, <2>2 DEF EvaluationTypes, Visit
  <2>4. OnlyEvaluable'
    BY <1>3, <2>2 DEF OnlyEvaluable, Visit, seed
  <2>5. ReportTells'
    BY <1>3 DEF ReportTells, Visit, reported
  <2> QED
    BY <2>3, <2>4, <2>5
<1>4. CASE SweepAgain
  BY <1>4 DEF SweepAgain, EvaluationTypes, OnlyEvaluable, ReportTells, reported, seed
<1>5. CASE Report
  <2>1. EvaluationTypes' /\ OnlyEvaluable'
    BY <1>5 DEF Report, EvaluationTypes, OnlyEvaluable, seed
  <2>2. ReportTells'
    BY <1>5 DEF Report, ReportTells, reported, origin
  <2> QED
    BY <2>1, <2>2
<1>6. CASE UNCHANGED evars
  BY <1>6 DEF evars, EvaluationTypes, OnlyEvaluable, ReportTells, reported, seed
<1> QED
  BY <1>1, <1>2, <1>3, <1>4, <1>5, <1>6 DEF EvaluationNext

(***************************************************************************)
(* The invariant of an evaluation: its types, that only an argument that   *)
(* can be evaluated is, that no answer is withdrawn while it closes, and   *)
(* that the report is about the values it ended with.                      *)
(***************************************************************************)
THEOREM EvaluationInvariant == EvaluationSpec => []EvaluationInv
<1>1. EvaluationSpec => [](EvaluationInv)
  BY InitKept, StepKept, PTL DEF EvaluationSpec
<1> QED
  BY <1>1

(***************************************************************************)
(* Validity.                                                               *)
(***************************************************************************)
Seen(a) == {e \in DOMAIN a.expr : a.expr[e].premise \in visiblePremises(a)}

\* What a visible premise says rests on visible premises and on the columns.
LEMMA SeenIsClosed ==
    ASSUME NEW a, Loaded(a), NEW e \in Seen(a)
    PROVE  /\ usedBy(a, TRUE, e) \subseteq Seen(a)
           /\ isRead(a, TRUE, e) => variableOf(a, e) \in referencedVariables(a)
<1>1. e \in DOMAIN a.expr /\ a.expr[e].premise \in visiblePremises(a)
  BY DEF Seen
<1>2. usedBy(a, TRUE, e) \subseteq Seen(a)
  <2>1. CASE kindOf(a, e) # "variable"
    <3>1. usedBy(a, TRUE, e) = Range(kids(a, e))
      BY <2>1 DEF usedBy
    <3>2. usedBy(a, TRUE, e) \subseteq DOMAIN a.expr
      BY <1>1, UsesResolve
    <3>3. \A d \in Range(kids(a, e)) : a.expr[d].premise = a.expr[e].premise
      BY <1>1, UsesResolve
    <3> QED
      BY <1>1, <3>1, <3>2, <3>3 DEF Seen
  <2>2. CASE standsFor(a, TRUE, e) /\ seen(a, boundTo(a, e))
    <3>1. usedBy(a, TRUE, e) = {a.root[boundTo(a, e)]}
      BY <2>2 DEF usedBy, standsFor
    <3>2. a.root[boundTo(a, e)] \in expressionsIn(a, boundTo(a, e))
      BY <2>2 DEF seen, Loaded
    <3>3. boundTo(a, e) \in visiblePremises(a)
      BY <2>2 DEF seen, visiblePremises
    <3> QED
      BY <3>1, <3>2, <3>3 DEF Seen, expressionsIn
  <2>3. CASE kindOf(a, e) = "variable" /\ ~(standsFor(a, TRUE, e) /\ seen(a, boundTo(a, e)))
    BY <2>3 DEF usedBy
  <2> QED
    BY <2>1, <2>2, <2>3
<1>3. isRead(a, TRUE, e) => variableOf(a, e) \in referencedVariables(a)
  BY <1>1 DEF isRead, variableOf, referencedVariables, variablesOf, expressionsIn
<1> QED
  BY <1>2, <1>3

LEMMA ColumnsBound ==
    ASSUME NEW a, Loaded(a)
    PROVE  referencedVariables(a) \subseteq argumentVariables(a)
<1> SUFFICES ASSUME NEW x \in referencedVariables(a) PROVE x \in argumentVariables(a)
  OBVIOUS
<1>1. PICK p \in visiblePremises(a) : x \in variablesOf(a, p)
  BY DEF referencedVariables
<1>2. PICK e \in expressionsIn(a, p) : kindOf(a, e) = "variable" /\ x = a.expr[e].variable
  BY <1>1 DEF variablesOf
<1>3. e \in DOMAIN a.expr
  BY DEF expressionsIn
<1> QED
  BY <1>2, <1>3 DEF Loaded, argumentVariables

LEMMA RootSeen ==
    ASSUME NEW a, Loaded(a), validateEvaluability(a), NEW p \in visiblePremises(a)
    PROVE  a.root[p] \in Seen(a)
<1>1. p \in premisesOf(a)
  BY DEF visiblePremises
<1>2. a.root[p] # None
  BY <1>1 DEF validateEvaluability, validatePremiseEvaluability
<1> QED
  BY <1>1, <1>2 DEF Loaded, expressionsIn, Seen

LEMMA ConjunctionTold ==
    ASSUME NEW vs
    PROVE  /\ conjunction(vs) \in Four
           /\ "t" \in conjunction(vs) <=> \A v \in vs : "t" \in v
           /\ "f" \in conjunction(vs) <=> \E v \in vs : "f" \in v
  BY DEF conjunction, told, Four

\* The premises in which a refutation shows, and what shows it.
Refutes(a, val) ==
    /\ \A p \in constraintPremises(a) \cup (listSupportingPremises(a) \ a.derivations) :
          val[a.root[p]] = True
    /\ val[a.root[a.conclusion]] = False

LEMMA RefutationShows ==
    ASSUME NEW a, Loaded(a), validateEvaluability(a), hasConclusion(a),
           NEW vars, Readable(a, vars)
    PROVE  aggregates(a, vars, {}).premisesHoldConclusionFalse = True
              <=> Refutes(a, evaluatePremises(a, vars))
<1>1. PICK val : val = evaluatePremises(a, vars)
  OBVIOUS
<1> DEFINE rootValues(ps) == {val[a.root[p]] : p \in ps}
           authored == listSupportingPremises(a) \ a.derivations
           admissible == conjunction(rootValues(constraintPremises(a)))
           support == conjunction(rootValues(authored))
           concluded == val[a.root[a.conclusion]]
           all == belnapAnd(admissible, belnapAnd(support, belnapNot(concluded)))
<1>2. aggregates(a, vars, {}).premisesHoldConclusionFalse = all
  <2>1. constraintPremises(a) \ {} = constraintPremises(a) /\ authored \ {} = authored
    OBVIOUS
  <2>2. ~(authored # {} /\ authored \subseteq {})
    OBVIOUS
  <2> HIDE DEF authored
  <2>3. aggregates(a, vars, {}).premisesHoldConclusionFalse =
          belnapAnd(conjunction(rootValues(constraintPremises(a) \ {})),
                    belnapAnd(conjunction(rootValues(authored \ {})), belnapNot(concluded)))
    BY <1>1, <2>2 DEF aggregates, authored
  <2> QED
    BY <2>1, <2>3
<1>3. \A e \in Seen(a) : val[e] \in Four
  <2>1. Covers(a, TRUE, Seen(a))
    BY SeenIsClosed DEF Covers, Seen
  <2>2. NoLess(a, TRUE, Seen(a), vars, vars)
    BY DEF NoLess, Seen, Readable, Loaded, isRead, variableOf
  <2>3. ValuesOf(a, TRUE, vars, val)
    BY <1>1, PremiseValues
  <2> QED
    BY <2>1, <2>2, <2>3, ValuesTyped
<1>4. /\ constraintPremises(a) \subseteq visiblePremises(a)
      /\ authored \subseteq visiblePremises(a)
      /\ a.conclusion \in visiblePremises(a)
  BY DEF constraintPremises, listSupportingPremises, hasConclusion
<1>5. concluded \in Four /\ \A v \in rootValues(constraintPremises(a)) \cup rootValues(authored) : v \in Four
  BY <1>3, <1>4, RootSeen
<1>6. admissible \in Four /\ support \in Four /\ belnapNot(concluded) \in Four
  BY <1>5, ConjunctionTold, NotTold
<1>7. belnapAnd(support, belnapNot(concluded)) \in Four /\ all \in Four
  BY <1>6, AndTold
<1>8. \A v \in Four : v = True <=> "t" \in v /\ "f" \notin v
  BY DEF Four, True
<1>9. \A v \in Four : v = False <=> "f" \in v /\ "t" \notin v
  BY DEF Four, False
<1>10. "t" \in all <=> /\ \A v \in rootValues(constraintPremises(a)) : "t" \in v
                       /\ \A v \in rootValues(authored) : "t" \in v
                       /\ "f" \in concluded
  BY <1>5, <1>6, <1>7, AndTold, NotTold, ConjunctionTold
<1>11. "f" \in all <=> \/ \E v \in rootValues(constraintPremises(a)) : "f" \in v
                       \/ \E v \in rootValues(authored) : "f" \in v
                       \/ "t" \in concluded
  BY <1>5, <1>6, <1>7, AndTold, NotTold, ConjunctionTold
<1>12. all = True <=> /\ \A v \in rootValues(constraintPremises(a)) \cup rootValues(authored) : v = True
                      /\ concluded = False
  <2> HIDE DEF all, concluded, authored, rootValues
  <2> QED
    BY <1>5, <1>7, <1>8, <1>9, <1>10, <1>11
<1>13. (\A v \in rootValues(constraintPremises(a)) \cup rootValues(authored) : v = True)
         <=> \A p \in constraintPremises(a) \cup authored : val[a.root[p]] = True
  OBVIOUS
<1> HIDE DEF all
<1> QED
  BY <1>1, <1>2, <1>12, <1>13 DEF Refutes

\* What refutes an argument on a partial reading refutes it on every reading
\* that settles more and contests nothing.
LEMMA RefutationSpreads ==
    ASSUME NEW a, Loaded(a), validateEvaluability(a), hasConclusion(a),
           NEW vars, Readable(a, vars), NEW wars, Readable(a, wars),
           \A x \in referencedVariables(a) : vars[x] \subseteq wars[x] /\ Clean(wars[x]),
           Refutes(a, evaluatePremises(a, vars))
    PROVE  Refutes(a, evaluatePremises(a, wars))
<1>1. PICK f, g : f = evaluatePremises(a, vars) /\ g = evaluatePremises(a, wars)
  OBVIOUS
<1>2. ValuesOf(a, TRUE, vars, f) /\ ValuesOf(a, TRUE, wars, g)
  BY <1>1, PremiseValues
<1>3. Covers(a, TRUE, Seen(a))
  BY SeenIsClosed DEF Covers, Seen
<1>4. NoLess(a, TRUE, Seen(a), vars, wars) /\ NoLess(a, TRUE, Seen(a), wars, wars)
  BY SeenIsClosed DEF NoLess, Seen, Readable, Loaded, isRead, variableOf
<1>c. ReadsClean(a, TRUE, Seen(a), wars)
  BY SeenIsClosed DEF ReadsClean
<1>5. \A e \in Seen(a) : f[e] \in Four /\ g[e] \in Four /\ f[e] \subseteq g[e]
  BY <1>2, <1>3, <1>4, ValuesKeep
<1>6. \A e \in Seen(a) : Clean(g[e])
  BY <1>2, <1>3, <1>4, <1>c, ValuesTyped
<1>7. \A e \in Seen(a) : (f[e] = True => g[e] = True) /\ (f[e] = False => g[e] = False)
  BY <1>5, <1>6 DEF Four, True, False, Clean
<1>8. /\ constraintPremises(a) \cup (listSupportingPremises(a) \ a.derivations) \subseteq visiblePremises(a)
      /\ a.conclusion \in visiblePremises(a)
  BY DEF constraintPremises, listSupportingPremises, hasConclusion
<1>9. \A p \in visiblePremises(a) : a.root[p] \in Seen(a)
  BY RootSeen
<1> QED
  BY <1>1, <1>7, <1>8, <1>9 DEF Refutes

\* Some row of the table holds whatever settles the columns.
LEMMA RowsCover ==
    ASSUME NEW a, Loaded(a), NEW vars, Readable(a, vars),
           \A x \in referencedVariables(a) : Clean(vars[x]),
           \A x \in grounded(a) : "f" \notin vars[x]
    PROVE  \E mask \in 0 .. (twoTo[Cardinality(checkedVariables(a))] - 1) :
              /\ Readable(a, rowOf(a, mask))
              /\ \A x \in referencedVariables(a) :
                    vars[x] \subseteq rowOf(a, mask)[x] /\ Clean(rowOf(a, mask)[x])
<1> DEFINE columns == checkedVariables(a)
           chosen == {x \in columns : "t" \in vars[x]}
<1>1. referencedVariables(a) \subseteq argumentVariables(a)
  BY ColumnsBound
<1>2. Ranked(columns, a.rank)
  <2>1. columns \in SUBSET DOMAIN a.binding
    BY <1>1 DEF checkedVariables, argumentVariables
  <2>2. IsFiniteSet(columns)
    BY <2>1, FS_Subset DEF Loaded
  <2> QED
    BY <2>1, <2>2 DEF Ranked, Loaded
<1>3. PICK mask \in 0 .. (twoTo[Cardinality(columns)] - 1) :
        \A x \in columns :
           (mask \div twoTo[Cardinality(before(columns, a.rank, a.rank[x]))]) % 2 = 1
              <=> x \in chosen
  <2> HIDE DEF columns, chosen
  <2> QED
    BY <1>2, EveryChoiceIsARow
<1>4. rowOf(a, mask) = [x \in argumentVariables(a) |->
                          IF x \in grounded(a) THEN True
                          ELSE IF x \notin columns THEN Null
                          ELSE IF x \in chosen THEN True ELSE False]
  <2>1. \A x \in columns :
          (mask \div twoTo[Cardinality({y \in columns : a.rank[y] < a.rank[x]})]) % 2 = 1
             <=> x \in chosen
    BY <1>3 DEF before
  <2> HIDE DEF chosen
  <2> QED
    BY <2>1 DEF rowOf
<1>5. \A x \in argumentVariables(a) : vars[x] \in Four
  BY DEF Readable, argumentVariables
<1>6. \A x \in argumentVariables(a) : rowOf(a, mask)[x] \in {True, False, Null}
  BY <1>4
<1>7. Readable(a, rowOf(a, mask))
  BY <1>6 DEF Readable, argumentVariables, Four, True, False, Null
<1>8. \A x \in referencedVariables(a) : vars[x] \subseteq rowOf(a, mask)[x]
  <2> SUFFICES ASSUME NEW x \in referencedVariables(a) PROVE vars[x] \subseteq rowOf(a, mask)[x]
    OBVIOUS
  <2>1. vars[x] \in {Null, True, False} /\ (x \in grounded(a) => "f" \notin vars[x])
    BY <1>1, <1>5 DEF Clean, Four, Null, True, False
  <2>2. x \in argumentVariables(a) /\ (x \notin grounded(a) => x \in columns)
    BY <1>1 DEF checkedVariables
  <2>3. rowOf(a, mask)[x] = IF x \in grounded(a) \/ "t" \in vars[x] THEN True ELSE False
    BY <1>4, <2>2
  <2> QED
    BY <2>1, <2>3 DEF Null, True, False
<1>9. \A x \in referencedVariables(a) : Clean(rowOf(a, mask)[x])
  BY <1>1, <1>6 DEF Clean, True, False, Null
<1> QED
  BY <1>3, <1>7, <1>8, <1>9

(***************************************************************************)
(* A valid argument never reports that the premises hold and the           *)
(* conclusion fails, to a reader who strikes nothing, does not contradict  *)
(* a source and contests nothing: his partial answers extend to a row of   *)
(* the truth table, and what they settled that row settles alike.          *)
(***************************************************************************)
THEOREM ValidNeverRefuted == EvaluationSpec => []ValidIsNeverRefuted
<1>1. EvaluationInv => ValidIsNeverRefuted
  <2> SUFFICES ASSUME EvaluationInv, reported, report.struck = {}, report.contested = {},
                      \A x \in grounded(argument) : "f" \notin closure.vars[x],
                      NEW n \in 1 .. MaxRows, checkArgumentValidity(argument, n) = "valid",
                      report.facts.premisesHoldConclusionFalse = True
               PROVE  FALSE
    BY DEF ValidIsNeverRefuted
  <2>1. PICK a, vars : a = argument /\ vars = closure.vars
    OBVIOUS
  <2>2. Loaded(a) /\ validateEvaluability(a) /\ hasConclusion(a)
    BY <2>1, EvaluationAssumption
    DEF EvaluationInv, EvaluationTypes, OnlyEvaluable, reported
  <2>3. vars \in [argumentVariables(a) -> Four] /\ Readable(a, vars)
    BY <2>1 DEF EvaluationInv, EvaluationTypes, Closures, Readable, argumentVariables
  <2>4. aggregates(a, vars, {}).premisesHoldConclusionFalse = True
    BY <2>1 DEF EvaluationInv, ReportTells
  <2>5. \A x \in argumentVariables(a) : Clean(vars[x])
    <3>1. \A x \in argumentVariables(a) : vars[x] # True \cup False
      BY <2>1 DEF EvaluationInv, ReportTells
    <3> QED
      BY <2>3, <3>1 DEF Clean, Four, True, False
  <2>6. referencedVariables(a) \subseteq argumentVariables(a)
    BY <2>2, ColumnsBound
  <2>7. PICK mask \in 0 .. (twoTo[Cardinality(checkedVariables(a))] - 1) :
          /\ Readable(a, rowOf(a, mask))
          /\ \A x \in referencedVariables(a) :
                vars[x] \subseteq rowOf(a, mask)[x] /\ Clean(rowOf(a, mask)[x])
    BY <2>1, <2>2, <2>3, <2>5, <2>6, RowsCover
  <2>8. Refutes(a, evaluatePremises(a, vars))
    BY <2>2, <2>3, <2>4, RefutationShows
  <2>9. PICK wars : wars = rowOf(a, mask)
    OBVIOUS
  <2>10. Refutes(a, evaluatePremises(a, wars))
    BY <2>2, <2>3, <2>7, <2>8, <2>9, RefutationSpreads
  <2>11. refutes(a, wars)
    BY <2>2, <2>7, <2>9, <2>10, RefutationShows DEF refutes
  <2>12. refutes(a, rowOf(a, mask))
    BY <2>9, <2>11
  <2> DEFINE total == twoTo[Cardinality(checkedVariables(a))]
             walked == IF n < total THEN n ELSE total
  <2>13. walked = total
    BY <2>1 DEF checkArgumentValidity
  <2>14. ~\E row \in 0 .. (total - 1) : refutes(a, rowOf(a, row))
    BY <2>1, <2>13 DEF checkArgumentValidity
  <2> QED
    BY <2>12, <2>14
<1> QED
  BY <1>1, EvaluationInvariant, PTL

(***************************************************************************)
(* What a step forces is what unit propagation forces.                     *)
(***************************************************************************)
Classical == {True, False}

LEMMA ClassicalTold ==
    /\ \A v \in Classical : v \in Four /\ belnapNot(v) \in Classical /\ belnapNot(v) # v
    /\ \A v \in Classical : (v = True <=> "t" \in v) /\ (v = False <=> "f" \in v)
    /\ belnapNot({"t"}) = False /\ belnapNot({"f"}) = True
    /\ {"t"} = True /\ {"f"} = False
    /\ True # False /\ True # Null /\ False # Null
    /\ "t" \in True /\ "f" \in False /\ "f" \notin True /\ "t" \notin False
    /\ Null \in Four /\ "t" \notin Null /\ "f" \notin Null
<1>1. belnapNot({"t"}) = False /\ belnapNot({"f"}) = True
  <2>1. {"t"} \in Four /\ {"f"} \in Four /\ False \in Four /\ True \in Four
    BY DEF Four, True, False
  <2>2. belnapNot({"t"}) \in Four /\ belnapNot({"f"}) \in Four
    BY <2>1, NotTold
  <2>3. /\ "t" \notin belnapNot({"t"}) /\ "f" \in belnapNot({"t"})
        /\ "t" \in belnapNot({"f"}) /\ "f" \notin belnapNot({"f"})
    BY <2>1, NotTold
  <2>4. "t" \notin False /\ "f" \in False /\ "t" \in True /\ "f" \notin True
    BY DEF False, True
  <2> QED
    BY <2>1, <2>2, <2>3, <2>4, SameTold
<1> QED
  BY <1>1 DEF Classical, True, False, Null, Four

\* The parity of classical values is that of the number of trues.
trues(vs, n) == {j \in 1 .. n : "t" \in vs[j]}
even(S) == Cardinality(S) % 2 = 0

LEMMA OneMore ==
    ASSUME NEW S, IsFiniteSet(S), NEW x, x \notin S
    PROVE  IsFiniteSet(S \cup {x}) /\ (even(S \cup {x}) <=> ~even(S))
<1>1. PICK n : n = Cardinality(S)
  OBVIOUS
<1>2. n \in Nat /\ Cardinality(S \cup {x}) = n + 1 /\ IsFiniteSet(S \cup {x})
  BY <1>1, FS_CardinalityType, FS_AddElement
<1>3. (n + 1) % 2 = 0 <=> n % 2 # 0
  BY <1>2
<1> QED
  BY <1>1, <1>2, <1>3 DEF even

LEMMA TruesFinite ==
    ASSUME NEW vs, NEW n \in Nat
    PROVE  IsFiniteSet(trues(vs, n))
<1>1. IsFiniteSet(1 .. n)
  BY FS_Interval
<1>2. trues(vs, n) \in SUBSET (1 .. n)
  BY DEF trues
<1> QED
  BY <1>1, <1>2, FS_Subset

LEMMA ParityCounts ==
    ASSUME NEW vs \in Seq(Four), \A k \in 1 .. Len(vs) : vs[k] \in Classical
    PROVE  parity(vs) = IF even(trues(vs, Len(vs))) THEN False ELSE True
<1> DEFINE n0 == Len(vs)
           Counts(v, n) == v = IF even(trues(vs, n)) THEN False ELSE True
<1>0. n0 \in Nat
  OBVIOUS
<1>1. PICK f \in [0 .. n0 -> Four] :
        /\ f[0] = False
        /\ \A n \in 1 .. n0 : f[n] = belnapXor(f[n - 1], vs[n])
        /\ parity(vs) = f[n0]
  BY ParitySteps
<1> HIDE DEF n0
<1> DEFINE S == {n \in 0 .. n0 : ~Counts(f[n], n)}
<1>2. S = {}
  <2> SUFFICES ASSUME S # {} PROVE FALSE
    OBVIOUS
  <2>0. S \in SUBSET Nat
    BY <1>0
  <2>1. PICK n \in S : \A k \in S : n <= k
    <3> HIDE DEF S
    <3> QED
      BY <2>0, LeastNumber
  <2>2. n # 0
    <3>1. trues(vs, 0) = {}
      BY DEF trues
    <3>2. even({})
      BY FS_EmptySet DEF even
    <3> QED
      BY <1>1, <3>1, <3>2
  <2>3. n \in 1 .. n0 /\ n - 1 \in 0 .. n0 /\ n - 1 \notin S /\ n - 1 \in Nat
    BY <1>0, <2>1, <2>2
  <2>4. Counts(f[n - 1], n - 1) /\ f[n] = belnapXor(f[n - 1], vs[n]) /\ vs[n] \in Classical
    BY <1>1, <2>3 DEF n0
  <2>5. IsFiniteSet(trues(vs, n - 1)) /\ n \notin trues(vs, n - 1)
    <3>1. n \notin trues(vs, n - 1)
      BY <2>3 DEF trues
    <3> QED
      BY <2>3, <3>1, TruesFinite
  <2>6. trues(vs, n) = IF "t" \in vs[n] THEN trues(vs, n - 1) \cup {n} ELSE trues(vs, n - 1)
    <3>1. 1 .. n = (1 .. (n - 1)) \cup {n}
      BY <2>3
    <3> QED
      BY <3>1 DEF trues
  <2>7. even(trues(vs, n)) <=> (even(trues(vs, n - 1)) <=> "t" \notin vs[n])
    BY <2>5, <2>6, OneMore
  <2>8. PICK p, v : p = f[n - 1] /\ v = vs[n]
    OBVIOUS
  <2>9. /\ p \in Classical /\ v \in Classical
        /\ p = False <=> even(trues(vs, n - 1))
    BY <2>4, <2>8, ClassicalTold DEF Classical
  <2>10. belnapXor(p, v) = IF (p = False <=> "t" \notin v) THEN False ELSE True
    <3>1. p \in Four /\ v \in Four /\ belnapXor(p, v) \in Four
      BY <2>9, ClassicalTold, XorTold
    <3>2. CASE p = False <=> "t" \notin v
      <4>1. "f" \in belnapXor(p, v) /\ "t" \notin belnapXor(p, v)
        BY <2>9, <3>1, <3>2, ClassicalTold, XorTold DEF Classical
      <4> QED
        BY <3>1, <3>2, <4>1 DEF Four, False
    <3>3. CASE ~(p = False <=> "t" \notin v)
      <4>1. "t" \in belnapXor(p, v) /\ "f" \notin belnapXor(p, v)
        BY <2>9, <3>1, <3>3, ClassicalTold, XorTold DEF Classical
      <4> QED
        BY <3>1, <3>3, <4>1 DEF Four, True
    <3> QED
      BY <3>2, <3>3
  <2>11. Counts(f[n], n)
    BY <2>4, <2>7, <2>8, <2>9, <2>10
  <2> QED
    BY <2>11
<1>3. n0 \in 0 .. n0
  BY <1>0
<1> QED
  BY <1>1, <1>2, <1>3 DEF n0

\* One unknown operand leaves the parity unknown.
LEMMA ParityUnknown ==
    ASSUME NEW vs \in Seq(Four), NEW k \in 1 .. Len(vs), vs[k] = Null
    PROVE  parity(vs) = Null
<1> DEFINE n0 == Len(vs)
<1>0. n0 \in Nat /\ \A n \in 1 .. n0 : vs[n] \in Four
  OBVIOUS
<1>1. PICK f \in [0 .. n0 -> Four] :
        /\ f[0] = False
        /\ \A n \in 1 .. n0 : f[n] = belnapXor(f[n - 1], vs[n])
        /\ parity(vs) = f[n0]
  BY ParitySteps
<1>2. \A a \in Four : belnapXor(a, Null) = Null /\ belnapXor(Null, a) = Null
  <2> SUFFICES ASSUME NEW a \in Four
               PROVE  belnapXor(a, Null) = Null /\ belnapXor(Null, a) = Null
    OBVIOUS
  <2>1. Null \in Four /\ "t" \notin Null /\ "f" \notin Null
    BY ClassicalTold
  <2>2. /\ belnapXor(a, Null) \in Four /\ belnapXor(Null, a) \in Four
        /\ "t" \notin belnapXor(a, Null) /\ "f" \notin belnapXor(a, Null)
        /\ "t" \notin belnapXor(Null, a) /\ "f" \notin belnapXor(Null, a)
    BY <2>1, XorTold
  <2> QED
    BY <2>1, <2>2, SameTold
<1> HIDE DEF n0
<1> DEFINE S == {n \in 0 .. n0 : n >= k /\ f[n] # Null}
<1>3. S = {}
  <2> SUFFICES ASSUME S # {} PROVE FALSE
    OBVIOUS
  <2>0. S \in SUBSET Nat
    BY <1>0
  <2>1. PICK n \in S : \A m \in S : n <= m
    <3> HIDE DEF S
    <3> QED
      BY <2>0, LeastNumber
  <2>2. n \in 1 .. n0 /\ n - 1 \in 0 .. n0 /\ n - 1 \notin S /\ n >= k /\ f[n] # Null
    BY <1>0, <2>1 DEF n0
  <2>3. f[n - 1] \in Four /\ vs[n] \in Four /\ f[n] = belnapXor(f[n - 1], vs[n])
    BY <1>0, <1>1, <2>2
  <2>4. CASE n = k
    BY <1>2, <2>2, <2>3, <2>4
  <2>5. CASE n # k
    <3>1. f[n - 1] = Null
      BY <1>0, <2>2, <2>5 DEF n0
    <3> QED
      BY <1>2, <2>2, <2>3, <3>1
  <2> QED
    BY <2>4, <2>5
<1>4. n0 \in 0 .. n0 /\ n0 >= k
  BY <1>0 DEF n0
<1> QED
  BY <1>1, <1>3, <1>4

\* Turning one classical operand round turns the parity round.
LEMMA ParityFlips ==
    ASSUME NEW vs \in Seq(Four), \A j \in 1 .. Len(vs) : vs[j] \in Classical,
           NEW k \in 1 .. Len(vs), NEW v \in Classical, v # vs[k],
           NEW ws, ws = [vs EXCEPT ![k] = v]
    PROVE  /\ ws \in Seq(Four) /\ Len(ws) = Len(vs)
           /\ \A j \in 1 .. Len(ws) : ws[j] \in Classical
           /\ parity(vs) = False <=> parity(ws) # False
           /\ parity(vs) \in Classical /\ parity(ws) \in Classical
<1> DEFINE n == Len(vs)
<1>0. n \in Nat /\ vs \in [1 .. n -> Four]
  OBVIOUS
<1>1. ws \in Seq(Four) /\ Len(ws) = n /\ \A j \in 1 .. n : ws[j] = IF j = k THEN v ELSE vs[j]
  BY <1>0, ClassicalTold
<1>2. \A j \in 1 .. n : ws[j] \in Classical
  BY <1>1
<1> HIDE DEF n
<1>3. trues(vs, n) \ {k} = trues(ws, n) \ {k}
  BY <1>1 DEF trues, n
<1>4. k \in trues(vs, n) <=> k \notin trues(ws, n)
  BY <1>1, ClassicalTold DEF trues, n, Classical
<1>5. IsFiniteSet(trues(vs, n)) /\ IsFiniteSet(trues(ws, n))
  BY <1>0, TruesFinite
<1>6. even(trues(vs, n)) <=> ~even(trues(ws, n))
  <2>1. CASE k \in trues(vs, n)
    <3>1. trues(vs, n) = trues(ws, n) \cup {k} /\ k \notin trues(ws, n)
      BY <1>3, <1>4, <2>1
    <3>2. even(trues(ws, n) \cup {k}) <=> ~even(trues(ws, n))
      BY <1>5, <3>1, OneMore
    <3> QED
      BY <3>1, <3>2
  <2>2. CASE k \notin trues(vs, n)
    <3>1. trues(ws, n) = trues(vs, n) \cup {k}
      BY <1>3, <1>4, <2>2
    <3>2. even(trues(vs, n) \cup {k}) <=> ~even(trues(vs, n))
      BY <1>5, <2>2, OneMore
    <3> QED
      BY <3>1, <3>2
  <2> QED
    BY <2>1, <2>2
<1>7. parity(vs) = IF even(trues(vs, n)) THEN False ELSE True
  BY ParityCounts DEF n
<1>8. parity(ws) = IF even(trues(ws, n)) THEN False ELSE True
  BY <1>1, <1>2, ParityCounts
<1> QED
  BY <1>1, <1>2, <1>6, <1>7, <1>8, ClassicalTold DEF n, Classical

\* A reading of the siblings under which the operator is false with the child
\* reading the opposite of c, and not false with it reading c.
Reading(kind, vs, k, c, read) ==
    /\ read \in [DOMAIN vs -> {Null, True, False}]
    /\ read[k] = belnapNot({c})
    /\ \A j \in DOMAIN vs \ {k} : read[j] \subseteq vs[j]
    /\ applyOperator(kind, read) = False
    /\ applyOperator(kind, [read EXCEPT ![k] = {c}]) # False

LEMMA UnitForcedReads ==
    ASSUME NEW kind, NEW vs, NEW k, NEW c
    PROVE  unitForced(kind, vs, k, c) <=> \E read : Reading(kind, vs, k, c, read)
  BY DEF unitForced, Reading

LEMMA ReadingShape ==
    ASSUME NEW vs \in Seq(Four), NEW read \in [DOMAIN vs -> {Null, True, False}],
           NEW k \in DOMAIN vs, NEW c \in {"t", "f"}
    PROVE  /\ DOMAIN vs = 1 .. Len(vs) /\ Len(vs) \in Nat
           /\ read \in Seq(Four) /\ Len(read) = Len(vs) /\ DOMAIN read = DOMAIN vs
           /\ [read EXCEPT ![k] = {c}] \in [DOMAIN vs -> {Null, True, False}]
           /\ [read EXCEPT ![k] = {c}] \in Seq(Four)
           /\ Len([read EXCEPT ![k] = {c}]) = Len(vs)
           /\ \A j \in DOMAIN vs :
                 [read EXCEPT ![k] = {c}][j] = IF j = k THEN {c} ELSE read[j]
<1>1. DOMAIN vs = 1 .. Len(vs) /\ Len(vs) \in Nat
  OBVIOUS
<1>2. {c} \in {True, False} /\ {Null, True, False} \subseteq Four
  BY ClassicalTold DEF Classical
<1> DEFINE n == Len(vs)
<1> HIDE DEF n
<1>3. read \in [1 .. n -> {Null, True, False}] /\ n \in Nat /\ k \in 1 .. n
  BY <1>1 DEF n
<1>4. read \in [1 .. n -> Four] /\ [read EXCEPT ![k] = {c}] \in [1 .. n -> Four]
  BY <1>2, <1>3
<1>5. /\ read \in Seq(Four) /\ Len(read) = n
      /\ [read EXCEPT ![k] = {c}] \in Seq(Four) /\ Len([read EXCEPT ![k] = {c}]) = n
  BY <1>3, <1>4
<1>6. [read EXCEPT ![k] = {c}] \in [1 .. n -> {Null, True, False}]
  BY <1>2, <1>3
<1> QED
  BY <1>1, <1>3, <1>5, <1>6 DEF n

LEMMA AndFalse ==
    ASSUME NEW vs
    PROVE  applyOperator("and", vs) = False
              <=> (\E j \in DOMAIN vs : "f" \in vs[j]) /\ ~(\A j \in DOMAIN vs : "t" \in vs[j])
  BY DEF applyOperator, told, False

LEMMA OrFalse ==
    ASSUME NEW vs
    PROVE  applyOperator("or", vs) = False
              <=> (\A j \in DOMAIN vs : "f" \in vs[j]) /\ ~(\E j \in DOMAIN vs : "t" \in vs[j])
  BY DEF applyOperator, told, False

LEMMA AndExact ==
    ASSUME NEW vs \in Seq(Four), NEW k \in DOMAIN vs, NEW c \in {"t", "f"}
    PROVE  unitForced("and", vs, k, c) <=> c \in forced("and", vs, k)
<1>1. forced("and", vs, k) = True
  BY DEF forced
<1>2. ASSUME c = "t" PROVE unitForced("and", vs, k, c)
  <2> DEFINE read == [j \in DOMAIN vs |-> IF j = k THEN False ELSE Null]
             after == [read EXCEPT ![k] = {c}]
  <2>1. read \in [DOMAIN vs -> {Null, True, False}]
    OBVIOUS
  <2>2. \A j \in DOMAIN vs : after[j] = IF j = k THEN {c} ELSE Null
    OBVIOUS
  <2>3. DOMAIN read = DOMAIN vs /\ DOMAIN after = DOMAIN vs /\ read[k] = False
    OBVIOUS
  <2>4. \A j \in DOMAIN vs : "f" \notin after[j]
    BY <1>2, <2>2, ClassicalTold
  <2>5. applyOperator("and", read) = False
    BY <2>3, AndFalse, ClassicalTold
  <2>6. applyOperator("and", after) # False
    BY <2>3, <2>4, AndFalse
  <2>7. \A j \in DOMAIN vs \ {k} : read[j] \subseteq vs[j]
    BY DEF Null
  <2>8. read[k] = belnapNot({c})
    BY <1>2, <2>3, ClassicalTold
  <2> HIDE DEF read
  <2>9. Reading("and", vs, k, c, read)
    BY <2>1, <2>5, <2>6, <2>7, <2>8 DEF Reading
  <2> QED
    BY <2>9, UnitForcedReads
<1>3. ASSUME c = "f", unitForced("and", vs, k, c) PROVE FALSE
  <2>1. PICK read : Reading("and", vs, k, c, read)
    BY <1>3, UnitForcedReads
  <2>2. PICK after : after = [read EXCEPT ![k] = {c}]
    OBVIOUS
  <2>3. /\ read \in [DOMAIN vs -> {Null, True, False}] /\ read[k] = True
        /\ applyOperator("and", read) = False /\ applyOperator("and", after) # False
    BY <1>3, <2>1, <2>2, ClassicalTold DEF Reading
  <2>4. DOMAIN after = DOMAIN vs /\ after[k] = False
    BY <1>3, <2>2, <2>3, ClassicalTold
  <2>5. "f" \in after[k] /\ ~("t" \in after[k])
    BY <2>4, ClassicalTold
  <2> QED
    BY <2>3, <2>4, <2>5, AndFalse
<1> QED
  BY <1>1, <1>2, <1>3, ClassicalTold

LEMMA OrExact ==
    ASSUME NEW vs \in Seq(Four), NEW k \in DOMAIN vs, NEW c \in {"t", "f"}
    PROVE  unitForced("or", vs, k, c) <=> c \in forced("or", vs, k)
<1> DEFINE others == [j \in DOMAIN vs \ {k} |-> vs[j]]
           denied == \A j \in DOMAIN vs \ {k} : "f" \in vs[j]
<1>1. forced("or", vs, k) = IF denied THEN True ELSE Null
  <2>1. Range(others) = {vs[j] : j \in DOMAIN vs \ {k}}
    BY DEF Range
  <2>2. (\A v \in Range(others) : "f" \in v) <=> denied
    BY <2>1
  <2> HIDE DEF denied
  <2> QED
    BY <2>2 DEF forced
<1>2. ASSUME c = "t", denied PROVE unitForced("or", vs, k, c)
  <2> DEFINE read == [j \in DOMAIN vs |-> False]
             after == [read EXCEPT ![k] = {c}]
  <2>1. read \in [DOMAIN vs -> {Null, True, False}]
    OBVIOUS
  <2>2. DOMAIN after = DOMAIN vs /\ after[k] = {c} /\ DOMAIN read = DOMAIN vs
    OBVIOUS
  <2>3. applyOperator("or", read) = False
    <3>1. \A j \in DOMAIN read : read[j] = False
      OBVIOUS
    <3> QED
      BY <3>1, OrFalse, ClassicalTold
  <2>4. applyOperator("or", after) # False
    BY <1>2, <2>2, OrFalse
  <2>5. \A j \in DOMAIN vs \ {k} : read[j] \subseteq vs[j]
    BY <1>2 DEF False
  <2>6. read[k] = belnapNot({c})
    BY <1>2, ClassicalTold
  <2> HIDE DEF read
  <2>7. Reading("or", vs, k, c, read)
    BY <2>1, <2>3, <2>4, <2>5, <2>6 DEF Reading
  <2> QED
    BY <2>7, UnitForcedReads
<1>3. ASSUME unitForced("or", vs, k, c) PROVE c = "t" /\ denied
  <2>1. PICK read : Reading("or", vs, k, c, read)
    BY <1>3, UnitForcedReads
  <2>2. /\ DOMAIN read = DOMAIN vs /\ read[k] = belnapNot({c})
        /\ applyOperator("or", read) = False
        /\ \A j \in DOMAIN vs \ {k} : read[j] \subseteq vs[j]
    BY <2>1 DEF Reading
  <2>3. \A j \in DOMAIN vs : "f" \in read[j] /\ "t" \notin read[j]
    BY <2>2, OrFalse
  <2>4. "f" \in belnapNot({c})
    BY <2>2, <2>3
  <2>5. c # "f"
    BY <2>4, ClassicalTold
  <2> QED
    BY <2>2, <2>3, <2>5
<1> HIDE DEF denied
<1> QED
  BY <1>1, <1>2, <1>3, ClassicalTold

LEMMA NotExact ==
    ASSUME NEW vs \in Seq(Four), NEW k \in DOMAIN vs, NEW c \in {"t", "f"}, Len(vs) = 1
    PROVE  unitForced("not", vs, k, c) <=> c \in forced("not", vs, k)
<1>1. k = 1 /\ DOMAIN vs = {1}
  OBVIOUS
<1>2. forced("not", vs, k) = False
  BY <1>1 DEF forced
<1>3. \A read \in [DOMAIN vs -> {Null, True, False}] :
        applyOperator("not", read) = belnapNot(read[1])
  <2> SUFFICES ASSUME NEW read \in [DOMAIN vs -> {Null, True, False}]
               PROVE  applyOperator("not", read) = belnapNot(read[1])
    OBVIOUS
  <2>1. Len(read) > 0
    BY ReadingShape
  <2> QED
    BY <2>1 DEF applyOperator
<1>4. ASSUME c = "f" PROVE unitForced("not", vs, k, c)
  <2> DEFINE read == [j \in DOMAIN vs |-> True]
             after == [read EXCEPT ![k] = {c}]
  <2>1. read \in [DOMAIN vs -> {Null, True, False}] /\ read[1] = True
    BY <1>1
  <2>2. after \in [DOMAIN vs -> {Null, True, False}] /\ after[1] = {c}
    BY <1>1, <1>4, ClassicalTold
  <2>3. \A j \in DOMAIN vs \ {k} : read[j] \subseteq vs[j]
    BY <1>1
  <2>5. read[k] = belnapNot({c})
    BY <1>1, <1>4, <2>1, ClassicalTold
  <2>4. applyOperator("not", read) = False /\ applyOperator("not", after) # False
    <3> HIDE DEF read, after
    <3>1. applyOperator("not", read) = belnapNot(True) /\ applyOperator("not", after) = belnapNot({c})
      BY <1>3, <2>1, <2>2
    <3>2. belnapNot(True) = False /\ belnapNot({c}) = True /\ True # False
      BY <1>4, ClassicalTold
    <3> QED
      BY <3>1, <3>2
  <2> HIDE DEF read
  <2>6. Reading("not", vs, k, c, read)
    BY <2>1, <2>3, <2>4, <2>5 DEF Reading
  <2> QED
    BY <2>6, UnitForcedReads
<1>5. ASSUME unitForced("not", vs, k, c) PROVE c = "f"
  <2>1. PICK read : Reading("not", vs, k, c, read)
    BY <1>5, UnitForcedReads
  <2>2. read[1] = belnapNot({c}) /\ belnapNot(read[1]) = False
    BY <1>1, <1>3, <2>1 DEF Reading
  <2>3. CASE c = "t"
    BY <2>2, <2>3, ClassicalTold
  <2> QED
    BY <2>3
<1> QED
  BY <1>2, <1>4, <1>5, ClassicalTold

\* A conditional with child k reading v and the other child reading other.
withChild(kind, k, v, other) ==
    LET value(x, y) == IF kind = "implies" THEN belnapImplies(x, y) ELSE belnapIff(x, y)
    IN  IF k = 1 THEN value(v, other) ELSE value(other, v)

LEMMA PairOf ==
    ASSUME NEW vs \in Seq(Four), Len(vs) = 2, NEW k \in DOMAIN vs
    PROVE  /\ DOMAIN vs = {1, 2} /\ 3 - k \in DOMAIN vs /\ 3 - k # k /\ k \in {1, 2}
           /\ vs[1] \in Four /\ vs[2] \in Four
           /\ \A j \in DOMAIN vs \ {k} : j = 3 - k
<1>1. \A j \in 1 .. 2 : vs[j] \in Four
  OBVIOUS
<1>2. 1 \in 1 .. 2 /\ 2 \in 1 .. 2 /\ DOMAIN vs = 1 .. 2
  OBVIOUS
<1> QED
  BY <1>1, <1>2

\* Some reading of the other child forces c.
PairForces(kind, vs, k, c) ==
    \E other \in {Null, True, False} :
       /\ other \subseteq vs[3 - k]
       /\ withChild(kind, k, belnapNot({c}), other) = False
       /\ withChild(kind, k, {c}, other) # False

LEMMA PairForced ==
    ASSUME NEW vs \in Seq(Four), Len(vs) = 2, NEW k \in DOMAIN vs, NEW c \in {"t", "f"},
           NEW kind \in Conditional
    PROVE  unitForced(kind, vs, k, c) <=> PairForces(kind, vs, k, c)
<1>1. \A read \in [DOMAIN vs -> {Null, True, False}] :
        applyOperator(kind, read) = withChild(kind, k, read[k], read[3 - k])
  <2> SUFFICES ASSUME NEW read \in [DOMAIN vs -> {Null, True, False}]
               PROVE  applyOperator(kind, read) = withChild(kind, k, read[k], read[3 - k])
    OBVIOUS
  <2>1. Len(read) = 2
    <3>1. Len(read) = Len(vs)
      BY ReadingShape
    <3> QED
      BY <3>1
  <2>2. applyOperator(kind, read) = IF kind = "implies" THEN belnapImplies(read[1], read[2])
                                                         ELSE belnapIff(read[1], read[2])
    <3>1. Len(read) > 1
      BY <2>1
    <3>2. CASE kind = "implies"
      BY <3>1, <3>2 DEF applyOperator
    <3>3. CASE kind = "iff"
      BY <3>1, <3>3 DEF applyOperator
    <3> QED
      BY <3>2, <3>3 DEF Conditional
  <2>3. CASE k = 1
    BY <2>2, <2>3 DEF withChild
  <2>4. CASE k = 2
    BY <2>2, <2>4 DEF withChild
  <2> QED
    BY <2>3, <2>4, PairOf
<1>2. ASSUME NEW read \in [DOMAIN vs -> {Null, True, False}]
      PROVE  /\ applyOperator(kind, [read EXCEPT ![k] = {c}])
                  = withChild(kind, k, {c}, read[3 - k])
  <2>1. PICK after : after = [read EXCEPT ![k] = {c}]
    OBVIOUS
  <2>2. /\ after \in [DOMAIN vs -> {Null, True, False}]
        /\ \A j \in DOMAIN vs : after[j] = IF j = k THEN {c} ELSE read[j]
    BY <2>1, ReadingShape
  <2>3. after[k] = {c} /\ after[3 - k] = read[3 - k]
    BY <2>2, PairOf
  <2>4. applyOperator(kind, after) = withChild(kind, k, after[k], after[3 - k])
    BY <1>1, <2>2
  <2> QED
    BY <2>1, <2>3, <2>4
<1>3. ASSUME unitForced(kind, vs, k, c)
      PROVE  PairForces(kind, vs, k, c)
  <2>1. PICK read : Reading(kind, vs, k, c, read)
    BY <1>3, UnitForcedReads
  <2>2. read \in [DOMAIN vs -> {Null, True, False}] /\ read[k] = belnapNot({c})
    BY <2>1 DEF Reading
  <2>3. /\ withChild(kind, k, read[k], read[3 - k]) = False
        /\ withChild(kind, k, {c}, read[3 - k]) # False
    BY <1>1, <1>2, <2>1, <2>2 DEF Reading
  <2>4. read[3 - k] \in {Null, True, False} /\ read[3 - k] \subseteq vs[3 - k]
    BY <2>1, <2>2, PairOf DEF Reading
  <2> QED
    BY <2>2, <2>3, <2>4 DEF PairForces
<1>4. ASSUME NEW other \in {Null, True, False}, other \subseteq vs[3 - k],
             withChild(kind, k, belnapNot({c}), other) = False,
             withChild(kind, k, {c}, other) # False
      PROVE  unitForced(kind, vs, k, c)
  <2> DEFINE read == [j \in DOMAIN vs |-> IF j = k THEN belnapNot({c}) ELSE other]
  <2>1. belnapNot({c}) \in {Null, True, False}
    BY ClassicalTold
  <2>2. read \in [DOMAIN vs -> {Null, True, False}]
    BY <2>1
  <2>3. read[k] = belnapNot({c}) /\ read[3 - k] = other
    BY PairOf
  <2> HIDE DEF read
  <2>4. \A j \in DOMAIN vs \ {k} : read[j] \subseteq vs[j]
    BY <1>4, <2>3, PairOf
  <2>5. applyOperator(kind, read) = False
    BY <1>1, <1>4, <2>2, <2>3
  <2>6. applyOperator(kind, [read EXCEPT ![k] = {c}]) # False
    BY <1>2, <1>4, <2>2, <2>3
  <2>7. Reading(kind, vs, k, c, read)
    BY <2>2, <2>3, <2>4, <2>5, <2>6 DEF Reading
  <2> QED
    BY <2>7, UnitForcedReads
<1> QED
  BY <1>3, <1>4 DEF PairForces

LEMMA ImpliesExact ==
    ASSUME NEW vs \in Seq(Four), Len(vs) = 2, NEW k \in DOMAIN vs, NEW c \in {"t", "f"}
    PROVE  unitForced("implies", vs, k, c) <=> c \in forced("implies", vs, k)
<1>1. forced("implies", vs, k) = IF k = 2 THEN vs[1] \cap True ELSE vs[2] \cap False
  BY PairOf DEF forced, Conditional
<1>2. \A x, y \in Four : belnapImplies(x, y) = False
                           <=> "t" \in x /\ "f" \in y /\ "f" \notin x /\ "t" \notin y
  <2> SUFFICES ASSUME NEW x \in Four, NEW y \in Four
               PROVE  belnapImplies(x, y) = False
                        <=> "t" \in x /\ "f" \in y /\ "f" \notin x /\ "t" \notin y
    OBVIOUS
  <2>1. False \in Four /\ "f" \in False /\ "t" \notin False
    BY ClassicalTold DEF Classical
  <2>2. belnapImplies(x, y) \in Four
    BY ImpliesTold
  <2>3. belnapImplies(x, y) = False <=> "f" \in belnapImplies(x, y) /\ "t" \notin belnapImplies(x, y)
    BY <2>1, <2>2, SameTold
  <2> QED
    BY <2>3, ImpliesTold
<1>3. "implies" \in Conditional
  BY DEF Conditional
<1>p. unitForced("implies", vs, k, c) <=> PairForces("implies", vs, k, c)
  <2>1. PICK kind \in Conditional : kind = "implies"
    BY <1>3
  <2>2. unitForced(kind, vs, k, c) <=> PairForces(kind, vs, k, c)
    BY PairForced
  <2> QED
    BY <2>1, <2>2
<1>4. {c} \in Four /\ belnapNot({c}) \in Four /\ \A v \in {Null, True, False} : v \in Four
  BY ClassicalTold DEF Classical
<1>5. CASE k = 2
  <2>1. unitForced("implies", vs, k, c) <=>
          \E other \in {Null, True, False} :
             /\ other \subseteq vs[1]
             /\ belnapImplies(other, belnapNot({c})) = False
             /\ belnapImplies(other, {c}) # False
    BY <1>p, <1>5 DEF withChild, PairForces
  <2>2. CASE c = "t"
    <3>1. \A other \in {Null, True, False} :
            /\ belnapImplies(other, belnapNot({c})) = False
            /\ belnapImplies(other, {c}) # False
            <=> other = True
      BY <1>2, <1>4, <2>2, ClassicalTold
    <3> QED
      BY <1>1, <1>5, <2>1, <2>2, <3>1 DEF True
  <2>3. CASE c = "f"
    <3>1. \A other \in {Null, True, False} : belnapImplies(other, belnapNot({c})) # False
      BY <1>2, <1>4, <2>3, ClassicalTold
    <3> QED
      BY <1>1, <1>5, <2>1, <2>3, <3>1, ClassicalTold
  <2> QED
    BY <2>2, <2>3
<1>6. CASE k = 1
  <2>1. unitForced("implies", vs, k, c) <=>
          \E other \in {Null, True, False} :
             /\ other \subseteq vs[2]
             /\ belnapImplies(belnapNot({c}), other) = False
             /\ belnapImplies({c}, other) # False
    BY <1>p, <1>6 DEF withChild, PairForces
  <2>2. CASE c = "f"
    <3>1. \A other \in {Null, True, False} :
            /\ belnapImplies(belnapNot({c}), other) = False
            /\ belnapImplies({c}, other) # False
            <=> other = False
      BY <1>2, <1>4, <2>2, ClassicalTold
    <3> QED
      BY <1>1, <1>6, <2>1, <2>2, <3>1 DEF False
  <2>3. CASE c = "t"
    <3>1. \A other \in {Null, True, False} : belnapImplies(belnapNot({c}), other) # False
      BY <1>2, <1>4, <2>3, ClassicalTold
    <3> QED
      BY <1>1, <1>6, <2>1, <2>3, <3>1, ClassicalTold
  <2> QED
    BY <2>2, <2>3
<1> QED
  BY <1>5, <1>6, PairOf

LEMMA IffExact ==
    ASSUME NEW vs \in Seq(Four), Len(vs) = 2, NEW k \in DOMAIN vs, NEW c \in {"t", "f"}
    PROVE  unitForced("iff", vs, k, c) <=> c \in forced("iff", vs, k)
<1>1. forced("iff", vs, k) = vs[3 - k]
  BY PairOf DEF forced, Conditional
<1>2. \A x, y \in Classical \cup {Null} :
        belnapIff(x, y) = False <=> x \in Classical /\ y \in Classical /\ x # y
  <2> SUFFICES ASSUME NEW x \in Classical \cup {Null}, NEW y \in Classical \cup {Null}
               PROVE  belnapIff(x, y) = False <=> x \in Classical /\ y \in Classical /\ x # y
    OBVIOUS
  <2>1. False \in Four /\ "f" \in False /\ "t" \notin False
    BY ClassicalTold DEF Classical
  <2>2. x \in Four /\ y \in Four /\ belnapIff(x, y) \in Four
    BY ClassicalTold, IffTold
  <2>3. belnapIff(x, y) = False <=> "f" \in belnapIff(x, y) /\ "t" \notin belnapIff(x, y)
    BY <2>1, <2>2, SameTold
  <2> QED
    BY <2>2, <2>3, IffTold, ClassicalTold DEF Classical
<1>3. "iff" \in Conditional
  BY DEF Conditional
<1>p. unitForced("iff", vs, k, c) <=> PairForces("iff", vs, k, c)
  <2>1. PICK kind \in Conditional : kind = "iff"
    BY <1>3
  <2>2. unitForced(kind, vs, k, c) <=> PairForces(kind, vs, k, c)
    BY PairForced
  <2> QED
    BY <2>1, <2>2
<1>4. {c} \in Classical /\ belnapNot({c}) \in Classical /\ belnapNot({c}) # {c}
      /\ Null \notin Classical /\ \A v \in Classical : v = {c} <=> v # belnapNot({c})
  BY ClassicalTold DEF Classical
<1>5. \A other \in {Null, True, False} :
        /\ withChild("iff", k, belnapNot({c}), other) = False
        /\ withChild("iff", k, {c}, other) # False
        <=> other = {c}
  BY <1>2, <1>4 DEF withChild, Classical
<1>6. unitForced("iff", vs, k, c) <=>
        \E other \in {Null, True, False} : other \subseteq vs[3 - k] /\ other = {c}
  BY <1>p, <1>5 DEF PairForces
<1> QED
  BY <1>1, <1>4, <1>6 DEF Classical

\* A classical reading of an exclusive disjunction licenses c exactly when its
\* parity is false.
LEMMA XorReading ==
    ASSUME NEW vs \in Seq(Four), NEW k \in DOMAIN vs, NEW c \in {"t", "f"},
           NEW read \in [DOMAIN vs -> Classical], read[k] = belnapNot({c}),
           \A j \in DOMAIN vs \ {k} : read[j] \subseteq vs[j],
           parity(read) = False
    PROVE  unitForced("xor", vs, k, c)
<1>1. read \in [DOMAIN vs -> {Null, True, False}]
  BY DEF Classical
<1>2. PICK after : after = [read EXCEPT ![k] = {c}]
  OBVIOUS
<1>3. /\ DOMAIN vs = 1 .. Len(vs) /\ read \in Seq(Four) /\ Len(read) = Len(vs)
      /\ \A j \in 1 .. Len(read) : read[j] \in Classical
      /\ k \in 1 .. Len(read)
  BY <1>1, ReadingShape
<1>4. {c} \in Classical /\ {c} # read[k]
  BY ClassicalTold DEF Classical
<1>5. parity(read) = False <=> parity(after) # False
  BY <1>2, <1>3, <1>4, ParityFlips
<1>6. applyOperator("xor", read) = False /\ applyOperator("xor", after) # False
  BY <1>5 DEF applyOperator
<1>7. Reading("xor", vs, k, c, read)
  BY <1>1, <1>2, <1>6 DEF Reading
<1> QED
  BY <1>7, UnitForcedReads

LEMMA XorExact ==
    ASSUME NEW vs \in Seq(Four), NEW k \in DOMAIN vs, NEW c \in {"t", "f"}
    PROVE  unitForced("xor", vs, k, c) <=> c \in forced("xor", vs, k)
<1> DEFINE n == Len(vs)
           others == [j \in DOMAIN vs \ {k} |-> vs[j]]
           siblings == DOMAIN vs \ {k}
           T == {j \in siblings : "t" \in vs[j]}
<1>0. n \in Nat /\ DOMAIN vs = 1 .. n /\ \A j \in DOMAIN vs : vs[j] \in Four
  OBVIOUS
<1>1. forced("xor", vs, k) = IF \E j \in siblings : vs[j] = Null THEN Null
                             ELSE IF \E j \in siblings : vs[j] = True \cup False THEN True \cup False
                             ELSE IF even(T) THEN True ELSE False
  <2>1. forced("xor", vs, k) = parityForced(others)
    BY DEF forced
  <2>2. Range(others) = {vs[j] : j \in siblings} /\ DOMAIN others = siblings
    BY DEF Range
  <2>3. {j \in DOMAIN others : "t" \in others[j]} = T
    OBVIOUS
  <2>4. /\ (\E v \in Range(others) : v = Null) <=> \E j \in siblings : vs[j] = Null
        /\ (\E v \in Range(others) : v = True \cup False)
              <=> \E j \in siblings : vs[j] = True \cup False
    BY <2>2
  <2> HIDE DEF others, T, siblings
  <2> QED
    BY <2>1, <2>3, <2>4 DEF parityForced, even
<1> HIDE DEF n
\* Whoever reads the siblings without their unknowns reads them classically.
<1>2. ASSUME NEW read, Reading("xor", vs, k, c, read)
      PROVE  /\ read \in [DOMAIN vs -> Classical] /\ read[k] = belnapNot({c})
             /\ parity(read) = False
             /\ \A j \in siblings : read[j] \subseteq vs[j] /\ vs[j] # Null
             /\ read \in Seq(Four) /\ Len(read) = n
  <2>1. /\ read \in [DOMAIN vs -> {Null, True, False}] /\ read[k] = belnapNot({c})
        /\ \A j \in siblings : read[j] \subseteq vs[j]
        /\ parity(read) = False
    BY <1>2 DEF Reading, applyOperator
  <2>2. read \in Seq(Four) /\ Len(read) = n
    BY <2>1, ReadingShape DEF n
  <2>3. \A j \in DOMAIN vs : read[j] # Null
    BY <1>0, <2>1, <2>2, ParityUnknown, ClassicalTold
  <2>4. \A j \in siblings : vs[j] # Null
    BY <2>1, <2>3 DEF Null
  <2> QED
    BY <2>1, <2>2, <2>3, <2>4 DEF Classical
<1>3. CASE \E j \in siblings : vs[j] = Null
  <2>1. ~unitForced("xor", vs, k, c)
    BY <1>2, <1>3, UnitForcedReads
  <2> QED
    BY <1>1, <1>3, <2>1 DEF Null
<1>4. CASE (\A j \in siblings : vs[j] # Null) /\ \E j \in siblings : vs[j] = True \cup False
  <2>1. PICK i \in siblings : vs[i] = True \cup False
    BY <1>4
  <2> DEFINE read == [j \in DOMAIN vs |-> IF j = k THEN belnapNot({c})
                                          ELSE IF "t" \in vs[j] THEN True ELSE False]
             other == [read EXCEPT ![i] = False]
  <2>2. read \in [DOMAIN vs -> Classical]
    BY ClassicalTold DEF Classical
  <2>3. read[k] = belnapNot({c}) /\ read[i] = True /\ i \in DOMAIN vs /\ i # k
    BY <2>1, ClassicalTold
  <2>4. \A j \in siblings : read[j] \subseteq vs[j]
    <3> SUFFICES ASSUME NEW j \in siblings PROVE read[j] \subseteq vs[j]
      OBVIOUS
    <3>1. vs[j] \in Four /\ vs[j] # Null
      BY <1>0, <1>4
    <3> QED
      BY <3>1 DEF Four, Null, True, False
  <2> HIDE DEF read
  <2>5. ASSUME parity(read) = False PROVE unitForced("xor", vs, k, c)
    BY <2>2, <2>3, <2>4, <2>5, XorReading
  <2>6. ASSUME parity(read) # False PROVE unitForced("xor", vs, k, c)
    <3>1. /\ DOMAIN vs = 1 .. Len(vs) /\ read \in Seq(Four) /\ Len(read) = Len(vs)
      <4>1. read \in [DOMAIN vs -> {Null, True, False}]
        BY <2>2 DEF Classical
      <4> QED
        BY <4>1, ReadingShape
    <3>2. PICK o : o = other
      OBVIOUS
    <3>3. False \in Classical /\ False # read[i] /\ i \in 1 .. Len(read)
          /\ \A j \in 1 .. Len(read) : read[j] \in Classical
      BY <2>2, <2>3, <3>1, ClassicalTold DEF Classical
    <3>4. parity(read) = False <=> parity(o) # False
      BY <3>1, <3>2, <3>3, ParityFlips
    <3>5. o \in [DOMAIN vs -> Classical] /\ o[k] = belnapNot({c})
      BY <2>2, <2>3, <3>2, <3>3
    <3>6. \A j \in siblings : o[j] \subseteq vs[j]
      BY <2>1, <2>2, <2>4, <3>2
    <3> QED
      BY <2>6, <3>4, <3>5, <3>6, XorReading
  <2>7. forced("xor", vs, k) = True \cup False
    BY <1>1, <1>4
  <2>8. c \in True \cup False
    BY DEF True, False
  <2> QED
    BY <2>5, <2>6, <2>7, <2>8
<1>5. CASE \A j \in siblings : vs[j] # Null /\ vs[j] # True \cup False
  <2>1. \A j \in siblings : vs[j] \in Classical
    BY <1>0, <1>5 DEF Four, Null, True, False, Classical
  <2> DEFINE read == [j \in DOMAIN vs |-> IF j = k THEN belnapNot({c}) ELSE vs[j]]
  <2>2. read \in [DOMAIN vs -> Classical] /\ read[k] = belnapNot({c})
    BY <2>1, ClassicalTold DEF Classical
  <2>3. \A j \in siblings : read[j] = vs[j]
    OBVIOUS
  <2> HIDE DEF read
  <2>4. read \in Seq(Four) /\ Len(read) = n
    <3>1. read \in [DOMAIN vs -> {Null, True, False}]
      BY <2>2 DEF Classical
    <3> QED
      BY <3>1, ReadingShape DEF n
  <2>5. parity(read) = IF even(trues(read, n)) THEN False ELSE True
    BY <1>0, <2>2, <2>4, ParityCounts
  <2>6. trues(read, n) = IF c = "f" THEN T \cup {k} ELSE T
    <3>1. "t" \in read[k] <=> c = "f"
      BY <2>2, ClassicalTold
    <3> QED
      BY <1>0, <2>3, <3>1 DEF trues
  <2>7. IsFiniteSet(T) /\ k \notin T
    <3>1. IsFiniteSet(1 .. n)
      BY <1>0, FS_Interval
    <3>2. T \in SUBSET (1 .. n)
      BY <1>0
    <3> QED
      BY <3>1, <3>2, FS_Subset
  <2>8. even(T \cup {k}) <=> ~even(T)
    BY <2>7, OneMore
  <2> HIDE DEF T, siblings
  <2>9. parity(read) = False <=> (IF c = "f" THEN ~even(T) ELSE even(T))
    BY <2>5, <2>6, <2>8, ClassicalTold
  <2>10. ASSUME parity(read) = False PROVE unitForced("xor", vs, k, c)
    <3>1. \A j \in DOMAIN vs \ {k} : read[j] \subseteq vs[j]
      BY <2>3 DEF siblings
    <3> QED
      BY <2>2, <2>10, <3>1, XorReading
  <2>11. ASSUME unitForced("xor", vs, k, c) PROVE parity(read) = False
    <3>1. PICK r : Reading("xor", vs, k, c, r)
      BY <2>11, UnitForcedReads
    <3>2. /\ r \in [DOMAIN vs -> Classical] /\ r[k] = belnapNot({c})
          /\ parity(r) = False
          /\ \A j \in siblings : r[j] \subseteq vs[j]
      BY <1>2, <3>1
    <3>3. \A j \in siblings : r[j] = vs[j]
      BY <2>1, <3>2 DEF siblings, Classical, True, False
    <3>4. r = read
      BY <2>2, <2>3, <3>2, <3>3 DEF siblings
    <3> QED
      BY <3>2, <3>4
  <2>12. forced("xor", vs, k) = IF even(T) THEN True ELSE False
    BY <1>1, <1>5
  <2> QED
    BY <2>9, <2>10, <2>11, <2>12, ClassicalTold
<1> QED
  BY <1>3, <1>4, <1>5

\* As many children as its kind takes.
Shaped(kind, n) ==
    (kind \in Conditional => n = 2) /\ (kind = "not" => n = 1)

LEMMA ForcedIsUnitForced ==
    ASSUME NEW kind \in OperatorKind, NEW vs \in Seq(Four), NEW k \in DOMAIN vs,
           NEW c \in {"t", "f"}, Shaped(kind, Len(vs))
    PROVE  unitForced(kind, vs, k, c) <=> c \in forced(kind, vs, k)
<1>1. CASE kind = "and"
  BY <1>1, AndExact
<1>2. CASE kind = "or"
  BY <1>2, OrExact
<1>3. CASE kind = "xor"
  BY <1>3, XorExact
<1>4. CASE kind = "not"
  BY <1>4, NotExact DEF Shaped
<1>5. CASE kind = "implies"
  BY <1>5, ImpliesExact DEF Shaped, Conditional
<1>6. CASE kind = "iff"
  BY <1>6, IffExact DEF Shaped, Conditional
<1> QED
  BY <1>1, <1>2, <1>3, <1>4, <1>5, <1>6 DEF OperatorKind, Variadic, Conditional

\* Told more of the siblings, a step forces no less.
LEMMA ForcedKeeps ==
    ASSUME NEW kind \in OperatorKind, NEW vs \in Seq(Four), NEW ws \in Seq(Four),
           Len(ws) = Len(vs), \A j \in DOMAIN vs : vs[j] \subseteq ws[j],
           NEW k \in DOMAIN vs, Shaped(kind, Len(vs))
    PROVE  forced(kind, vs, k) \subseteq forced(kind, ws, k)
<1>1. DOMAIN ws = DOMAIN vs /\ k \in DOMAIN ws /\ Shaped(kind, Len(ws))
  OBVIOUS
<1>2. \A c \in {"t", "f"} : unitForced(kind, vs, k, c) => unitForced(kind, ws, k, c)
  <2> SUFFICES ASSUME NEW c \in {"t", "f"}, unitForced(kind, vs, k, c)
               PROVE  unitForced(kind, ws, k, c)
    OBVIOUS
  <2>1. PICK read : Reading(kind, vs, k, c, read)
    BY UnitForcedReads
  <2>2. Reading(kind, ws, k, c, read)
    BY <1>1, <2>1 DEF Reading
  <2> QED
    BY <2>2, UnitForcedReads
<1>3. forced(kind, vs, k) \in Four
  BY ForcedTyped
<1>4. \A c \in forced(kind, vs, k) : c \in {"t", "f"}
  BY <1>3 DEF Four
<1> QED
  BY <1>1, <1>2, <1>4, ForcedIsUnitForced

(***************************************************************************)
(* Valuations no step adds to.                                             *)
(***************************************************************************)
Valuations(a) == [argumentVariables(a) -> Four]
leafOf(a, e, k) == leafVariable(a, kids(a, e)[k])
forces(a, e, k, vars) == forced(kindOf(a, e), childValues(a, e, vars), k)
Below(a, v, w) == \A x \in argumentVariables(a) : v[x] \subseteq w[x]

\* Nothing the step e forces is missing.
Settled(a, e, vars) ==
    \A k \in DOMAIN kids(a, e) :
        leafOf(a, e, k) \in argumentVariables(a) => forces(a, e, k, vars) \subseteq vars[leafOf(a, e, k)]

LEMMA ChildValuesKeep ==
    ASSUME NEW a, Loaded(a), NEW e \in DOMAIN a.expr,
           NEW v \in Valuations(a), NEW w \in Valuations(a), Below(a, v, w)
    PROVE  \A k \in DOMAIN kids(a, e) : childValues(a, e, v)[k] \subseteq childValues(a, e, w)[k]
<1>1. Readable(a, v) /\ Readable(a, w)
  BY DEF Readable, Valuations, argumentVariables
<1>2. PICK f, g : f = evaluateSubtree(a, v) /\ g = evaluateSubtree(a, w)
  OBVIOUS
<1>3. ValuesOf(a, FALSE, v, f) /\ ValuesOf(a, FALSE, w, g)
  BY <1>1, <1>2, SubtreeValues
<1>4. Covers(a, FALSE, DOMAIN a.expr)
  BY UsesResolve DEF Covers
<1>5. NoLess(a, FALSE, DOMAIN a.expr, v, w)
  BY <1>1 DEF NoLess, Below, Readable, argumentVariables, Loaded, isRead, variableOf
<1>6. \A d \in DOMAIN a.expr : f[d] \subseteq g[d]
  BY <1>3, <1>4, <1>5, ValuesKeep
<1>7. \A k \in DOMAIN kids(a, e) :
        childValues(a, e, v)[k] = f[kids(a, e)[k]] /\ childValues(a, e, w)[k] = g[kids(a, e)[k]]
  BY <1>1, <1>2, ChildValuesTyped
<1>8. \A k \in DOMAIN kids(a, e) : kids(a, e)[k] \in DOMAIN a.expr
  <2>1. kids(a, e) \in Seq(DOMAIN a.expr)
    BY UsesResolve
  <2> QED
    BY <2>1
<1> QED
  BY <1>6, <1>7, <1>8

LEMMA OperatorsShaped ==
    ASSUME NEW a, Loaded(a), validateEvaluability(a), NEW e \in operatorsOf(a)
    PROVE  /\ e \in DOMAIN a.expr /\ kindOf(a, e) \in OperatorKind
           /\ Shaped(kindOf(a, e), Len(kids(a, e)))
<1>1. e \in DOMAIN a.expr /\ kindOf(a, e) \in OperatorKind
  BY DEF operatorsOf, kindOf
<1>2. PICK p : p = a.expr[e].premise
  OBVIOUS
<1>3. p \in premisesOf(a) /\ e \in expressionsIn(a, p)
  BY <1>1, <1>2 DEF Loaded, expressionsIn
<1>4. validatePremiseEvaluability(a, p)
  BY <1>3 DEF validateEvaluability
<1> QED
  BY <1>1, <1>3, <1>4 DEF validatePremiseEvaluability, Shaped

LEMMA ForcesTyped ==
    ASSUME NEW a, Loaded(a), NEW e \in operatorsOf(a), NEW k \in DOMAIN kids(a, e),
           NEW v \in Valuations(a)
    PROVE  /\ forces(a, e, k, v) \in Four
           /\ childValues(a, e, v) \in Seq(Four)
           /\ Len(childValues(a, e, v)) = Len(kids(a, e))
           /\ DOMAIN childValues(a, e, v) = DOMAIN kids(a, e)
<1>1. e \in DOMAIN a.expr /\ kindOf(a, e) \in OperatorKind
  BY DEF operatorsOf, kindOf
<1>2. Readable(a, v)
  BY DEF Readable, Valuations, argumentVariables
<1>3. /\ childValues(a, e, v) \in Seq(Four)
      /\ Len(childValues(a, e, v)) = Len(kids(a, e))
      /\ DOMAIN childValues(a, e, v) = DOMAIN kids(a, e)
  BY <1>1, <1>2, ChildValuesTyped
<1> QED
  BY <1>1, <1>3, ForcedTyped DEF forces

\* What is forced on a valuation is forced on every one above it.
LEMMA ForcesKeep ==
    ASSUME NEW a, Loaded(a), validateEvaluability(a),
           NEW e \in operatorsOf(a), NEW k \in DOMAIN kids(a, e),
           NEW v \in Valuations(a), NEW w \in Valuations(a), Below(a, v, w)
    PROVE  forces(a, e, k, v) \subseteq forces(a, e, k, w)
<1>1. PICK vs, ws, kind : vs = childValues(a, e, v) /\ ws = childValues(a, e, w) /\ kind = kindOf(a, e)
  OBVIOUS
<1>2. /\ vs \in Seq(Four) /\ ws \in Seq(Four) /\ Len(vs) = Len(kids(a, e)) /\ Len(ws) = Len(vs)
      /\ DOMAIN vs = DOMAIN kids(a, e)
  BY <1>1, ForcesTyped
<1>3. e \in DOMAIN a.expr /\ kind \in OperatorKind /\ Shaped(kind, Len(vs))
  BY <1>1, <1>2, OperatorsShaped
<1>4. \A j \in DOMAIN vs : vs[j] \subseteq ws[j]
  BY <1>1, <1>2, <1>3, ChildValuesKeep
<1>5. forced(kind, vs, k) \subseteq forced(kind, ws, k)
  BY <1>2, <1>3, <1>4, ForcedKeeps
<1> QED
  BY <1>1, <1>5 DEF forces

LEMMA ForcesAreUnit ==
    ASSUME NEW a, Loaded(a), validateEvaluability(a),
           NEW e \in operatorsOf(a), NEW k \in DOMAIN kids(a, e),
           NEW v \in Valuations(a), NEW c \in {"t", "f"}
    PROVE  unitForced(kindOf(a, e), childValues(a, e, v), k, c) <=> c \in forces(a, e, k, v)
<1>1. PICK vs, kind : vs = childValues(a, e, v) /\ kind = kindOf(a, e)
  OBVIOUS
<1>2. vs \in Seq(Four) /\ Len(vs) = Len(kids(a, e)) /\ k \in DOMAIN vs
  BY <1>1, ForcesTyped
<1>3. kind \in OperatorKind /\ Shaped(kind, Len(vs))
  BY <1>1, <1>2, OperatorsShaped
<1>4. unitForced(kind, vs, k, c) <=> c \in forced(kind, vs, k)
  BY <1>2, <1>3, ForcedIsUnitForced
<1> QED
  BY <1>1, <1>4 DEF forces

(***************************************************************************)
(* A visit, against the valuations that lack nothing its step forces.      *)
(***************************************************************************)
\* The values a move of e reads.
readBy(a, start, s, e) == IF kindOf(a, e) \in {"xor", "iff"} THEN s.vars ELSE start.vars

\* A move adds to the leaf of its child what its step forces there.
LEMMA MoveForces ==
    ASSUME NEW a, Loaded(a), NEW start \in Closures(a), NEW s \in Closures(a),
           NEW e \in operatorsOf(a), NEW k \in DOMAIN kids(a, e)
    PROVE  /\ Added(a, s, moveInto(a, start, s, e, k), leafOf(a, e, k),
                    forces(a, e, k, readBy(a, start, s, e)))
           /\ readBy(a, start, s, e) \in Valuations(a)
<1>1. valueMoved(a, start, s, e, k) = forces(a, e, k, readBy(a, start, s, e))
  BY DEF valueMoved, forces, readBy
<1>2. Added(a, s, moveInto(a, start, s, e, k), leafVariable(a, kids(a, e)[k]),
            valueMoved(a, start, s, e, k))
  BY MoveAdds
<1>3. readBy(a, start, s, e) \in Valuations(a)
  BY DEF readBy, Closures, Valuations
<1> QED
  BY <1>1, <1>2, <1>3 DEF leafOf

\* A visit does not leave a valuation its step is settled on.
LEMMA VisitStaysBelow ==
    ASSUME NEW a, Loaded(a), validateEvaluability(a),
           NEW s \in Closures(a), NEW e \in operatorsOf(a),
           NEW w \in Valuations(a), Settled(a, e, w), Below(a, s.vars, w)
    PROVE  Below(a, visit(a, s, e).vars, w)
<1> DEFINE order == visitOrder(a, e)
           n == Len(order)
<1>1. PICK m \in [0 .. n -> Closures(a)] :
        /\ m[0] = s
        /\ \A i \in 1 .. n : m[i] = moveInto(a, s, m[i - 1], e, order[i])
        /\ visit(a, s, e) = m[n]
  BY VisitMoves
<1>2. n \in Nat /\ \A i \in 1 .. n : order[i] \in DOMAIN kids(a, e)
  <2>1. e \in DOMAIN a.expr
    BY DEF operatorsOf
  <2> QED
    BY <2>1, OrderResolves
<1> HIDE DEF n, order
<1> DEFINE S == {i \in 0 .. n : ~Below(a, m[i].vars, w)}
<1>3. S = {}
  <2> SUFFICES ASSUME S # {} PROVE FALSE
    OBVIOUS
  <2>0. S \in SUBSET Nat
    BY <1>2
  <2>1. PICK i \in S : \A k \in S : i <= k
    <3> HIDE DEF S
    <3> QED
      BY <2>0, LeastNumber
  <2>2. i # 0
    BY <1>1
  <2>3. i \in 1 .. n /\ i - 1 \in 0 .. n /\ i - 1 \notin S
    BY <1>2, <2>1, <2>2
  <2>4. PICK t \in Closures(a) : t = m[i - 1]
    BY <2>3
  <2>5. PICK k \in DOMAIN kids(a, e) : k = order[i]
    BY <1>2, <2>3
  <2>6. m[i] = moveInto(a, s, t, e, k) /\ Below(a, t.vars, w)
    BY <1>1, <2>3, <2>4, <2>5
  <2>7. PICK v, u : v = readBy(a, s, t, e) /\ u = moveInto(a, s, t, e, k)
    OBVIOUS
  <2>8. v \in Valuations(a) /\ Added(a, t, u, leafOf(a, e, k), forces(a, e, k, v))
    BY <2>7, MoveForces
  <2>9. Below(a, v, w)
    BY <2>6, <2>7 DEF readBy
  <2>10. forces(a, e, k, v) \subseteq forces(a, e, k, w)
    BY <2>8, <2>9, ForcesKeep
  <2>11. Below(a, u.vars, w)
    BY <2>6, <2>8, <2>10 DEF Added, Below, Settled
  <2> QED
    BY <2>1, <2>6, <2>7, <2>11
<1>4. n \in 0 .. n
  BY <1>2
<1> QED
  BY <1>1, <1>3, <1>4

\* A visit that changes no value found its step settled.
LEMMA VisitSettles ==
    ASSUME NEW a, Loaded(a), validateEvaluability(a),
           NEW s \in Closures(a), NEW e \in operatorsOf(a),
           visit(a, s, e).vars = s.vars
    PROVE  Settled(a, e, s.vars)
<1> DEFINE order == visitOrder(a, e)
           n == Len(order)
<1>1. PICK m \in [0 .. n -> Closures(a)] :
        /\ m[0] = s
        /\ \A i \in 1 .. n : m[i] = moveInto(a, s, m[i - 1], e, order[i])
        /\ visit(a, s, e) = m[n]
  BY VisitMoves
<1>2. /\ n \in Nat /\ \A i \in 1 .. n : order[i] \in DOMAIN kids(a, e)
      /\ \A k \in DOMAIN kids(a, e) : \E i \in 1 .. n : order[i] = k
  <2>1. e \in DOMAIN a.expr /\ (kindOf(a, e) \in Conditional => Len(kids(a, e)) = 2)
    BY OperatorsShaped DEF Shaped
  <2> QED
    BY <2>1, OrderResolves
<1> HIDE DEF n, order
<1>3. ASSUME NEW i \in 1 .. n
      PROVE  \E t \in Closures(a), k \in DOMAIN kids(a, e), v \in Valuations(a) :
                /\ t = m[i - 1] /\ k = order[i] /\ (v = t.vars \/ v = s.vars)
                /\ Added(a, t, m[i], leafOf(a, e, k), forces(a, e, k, v))
  <2>1. i - 1 \in 0 .. n /\ i \in 0 .. n
    BY <1>2
  <2>2. PICK t \in Closures(a), k \in DOMAIN kids(a, e) : t = m[i - 1] /\ k = order[i]
    BY <1>2, <2>1
  <2>3. PICK v : v = readBy(a, s, t, e)
    OBVIOUS
  <2>4. m[i] = moveInto(a, s, t, e, k)
    BY <1>1, <2>2
  <2>5. v \in Valuations(a) /\ Added(a, t, m[i], leafOf(a, e, k), forces(a, e, k, v))
    BY <2>3, <2>4, MoveForces
  <2>6. v = t.vars \/ v = s.vars
    BY <2>3 DEF readBy
  <2> QED
    BY <2>2, <2>5, <2>6
<1>4. ASSUME NEW i \in 1 .. n PROVE Below(a, m[i - 1].vars, m[i].vars)
  <2>1. PICK t, u, x, value : t = m[i - 1] /\ u = m[i] /\ Added(a, t, u, x, value)
    BY <1>3
  <2>2. Below(a, t.vars, u.vars)
    BY <2>1 DEF Below, Added
  <2> QED
    BY <2>1, <2>2
\* The values only grow, and end as they began.
<1> DEFINE S == {i \in 0 .. n : ~Below(a, m[n - i].vars, s.vars)}
<1>5. S = {}
  <2> SUFFICES ASSUME S # {} PROVE FALSE
    OBVIOUS
  <2>0. S \in SUBSET Nat
    BY <1>2
  <2>1. PICK i \in S : \A k \in S : i <= k
    <3> HIDE DEF S
    <3> QED
      BY <2>0, LeastNumber
  <2>2. i \in 0 .. n /\ ~Below(a, m[n - i].vars, s.vars)
    OBVIOUS
  <2>s. \A l \in 0 .. n : l \notin S => Below(a, m[n - l].vars, s.vars)
    OBVIOUS
  <2> HIDE DEF S
  <2>3. i # 0
    <3>1. Below(a, m[n].vars, s.vars) => Below(a, m[n - 0].vars, s.vars)
      BY <1>2
    <3> QED
      BY <1>1, <2>2, <3>1 DEF Below
  <2>4. PICK l : l = i - 1
    OBVIOUS
  <2>5. l \in 0 .. n /\ n - l \in 1 .. n /\ (n - l) - 1 = n - i /\ ~(i <= l)
    BY <1>2, <2>2, <2>3, <2>4
  <2>6. Below(a, m[n - l].vars, s.vars)
    BY <2>s, <2>1, <2>5
  <2>7. Below(a, m[(n - l) - 1].vars, m[n - l].vars)
    BY <1>4, <2>5
  <2>8. Below(a, m[n - i].vars, m[n - l].vars)
    BY <2>5, <2>7
  <2>9. Below(a, m[n - i].vars, s.vars)
    BY <2>6, <2>8 DEF Below
  <2> QED
    BY <2>2, <2>9
<1>6. \A j \in 0 .. n : Below(a, m[j].vars, s.vars)
  <2> SUFFICES ASSUME NEW j \in 0 .. n PROVE Below(a, m[j].vars, s.vars)
    OBVIOUS
  <2>1. n - j \in 0 .. n /\ n - (n - j) = j
    BY <1>2
  <2> QED
    BY <1>5, <2>1
<1> DEFINE P == {i \in 0 .. n : ~Below(a, s.vars, m[i].vars)}
<1>7. P = {}
  <2> SUFFICES ASSUME P # {} PROVE FALSE
    OBVIOUS
  <2>0. P \in SUBSET Nat
    BY <1>2
  <2>1. PICK i \in P : \A k \in P : i <= k
    <3> HIDE DEF P
    <3> QED
      BY <2>0, LeastNumber
  <2>2. i # 0
    BY <1>1 DEF Below
  <2>3. i \in 1 .. n /\ i - 1 \in 0 .. n /\ i - 1 \notin P
    BY <1>2, <2>1, <2>2
  <2>4. Below(a, s.vars, m[i - 1].vars) /\ Below(a, m[i - 1].vars, m[i].vars)
    BY <1>4, <2>3
  <2>5. Below(a, s.vars, m[i].vars)
    BY <2>4 DEF Below
  <2> QED
    BY <2>5
<1>8. \A j \in 0 .. n : m[j].vars = s.vars
  <2> SUFFICES ASSUME NEW j \in 0 .. n PROVE m[j].vars = s.vars
    OBVIOUS
  <2>1. Below(a, m[j].vars, s.vars) /\ Below(a, s.vars, m[j].vars)
    BY <1>6, <1>7
  <2>2. m[j].vars \in [argumentVariables(a) -> Four] /\ s.vars \in [argumentVariables(a) -> Four]
    BY DEF Closures
  <2>3. \A x \in argumentVariables(a) : m[j].vars[x] = s.vars[x]
    BY <2>1 DEF Below
  <2> QED
    BY <2>2, <2>3
<1> SUFFICES ASSUME NEW k \in DOMAIN kids(a, e), leafOf(a, e, k) \in argumentVariables(a)
             PROVE  forces(a, e, k, s.vars) \subseteq s.vars[leafOf(a, e, k)]
  BY DEF Settled
<1>9. PICK i \in 1 .. n : order[i] = k
  BY <1>2
<1>10. i - 1 \in 0 .. n /\ i \in 0 .. n
  BY <1>2
<1>11. PICK t \in Closures(a), v \in Valuations(a) :
          /\ t = m[i - 1] /\ (v = t.vars \/ v = s.vars)
          /\ Added(a, t, m[i], leafOf(a, e, k), forces(a, e, k, v))
  BY <1>3, <1>9
<1>12. t.vars = s.vars /\ m[i].vars = s.vars /\ v = s.vars
  BY <1>8, <1>10, <1>11
<1>13. NoVariable \notin argumentVariables(a)
  BY DEF Loaded, argumentVariables
<1> QED
  BY <1>11, <1>12, <1>13 DEF Added

(***************************************************************************)
(* The steps of unit propagation.                                          *)
(***************************************************************************)
\* A step taken again and again from x0.
LEMMA Iteration ==
    ASSUME NEW V, NEW x0 \in V, NEW N \in [V -> V]
    PROVE  \E f \in [Nat -> V] : f = [n \in Nat |-> IF n = 0 THEN x0 ELSE N[f[n - 1]]]
<1> DEFINE at(g, n) == IF n = 0 THEN x0 ELSE N[g[n - 1]]
           below == [n \in Nat |-> {n - 1}]
           B == [g \in [Nat -> V] |-> [n \in Nat |-> at(g, n)]]
<1>1. Founded(Nat, below)
  <2> SUFFICES ASSUME NEW S \in SUBSET Nat, S # {}
               PROVE  \E e \in S : below[e] \cap S = {}
    BY DEF Founded
  <2>1. PICK e \in S : \A m \in S : e <= m
    BY LeastNumber
  <2> QED
    BY <2>1
<1>2. Total(Nat, V, B)
  <2>1. \A g \in [Nat -> V] : \A n \in Nat : at(g, n) \in V
    OBVIOUS
  <2> HIDE DEF at
  <2> QED
    BY <2>1 DEF Total
<1>3. Local(Nat, V, below, B)
  <2>1. \A g \in [Nat -> V] : \A e \in Nat : B[g][e] = at(g, e)
    <3> HIDE DEF at
    <3> QED
      OBVIOUS
  <2>2. ASSUME NEW g \in [Nat -> V], NEW h \in [Nat -> V], NEW e \in Nat,
               \A d \in below[e] \cap Nat : g[d] = h[d]
        PROVE  at(g, e) = at(h, e)
    <3> HIDE DEF B
    <3> QED
      BY <2>2
  <2> HIDE DEF B, at, below
  <2> QED
    BY <2>1, <2>2 DEF Local
<1>4. PICK f \in [Nat -> V] : f = B[f]
  <2> HIDE DEF B, below
  <2>1. PICK D : D = Nat
    OBVIOUS
  <2>2. V # {} /\ Founded(D, below) /\ Total(D, V, B) /\ Local(D, V, below, B)
    BY <1>1, <1>2, <1>3, <2>1
  <2>3. \E f \in [D -> V] : f = B[f]
    BY <2>2, Recursion
  <2> QED
    BY <2>1, <2>3
<1> QED
  BY <1>4

\* What the steps ops force on v, added to v, is w.
Propagates(a, ops, v, w) ==
    \A x \in argumentVariables(a) : \A c \in {"t", "f"} :
        c \in w[x] <=>
            \/ c \in v[x]
            \/ \E e \in ops : \E k \in DOMAIN kids(a, e) :
                  leafOf(a, e, k) = x /\ unitForced(kindOf(a, e), childValues(a, e, v), k, c)

\* u runs through the valuations of unit propagation.
Propagation(a, ops, start, u) ==
    /\ u[0] = start
    /\ \A n \in Nat : u[n] \in Valuations(a) /\ Propagates(a, ops, u[n], u[n + 1])

LEMMA PropagationSteps ==
    ASSUME NEW a, Loaded(a), NEW ops, NEW start \in Valuations(a)
    PROVE  \E u : /\ Propagation(a, ops, start, u)
                  /\ unitPropagation(a, ops, start) = u[2 * Cardinality(argumentVariables(a))]
<1> DEFINE X == argumentVariables(a)
           leafVars == {leafOf(a, e, k) : e \in ops, k \in UNION {DOMAIN kids(a, d) : d \in ops}}
           Z == X \cup leafVars
           Facts == {<<x, c>> : x \in Z, c \in {"t", "f"}}
           V == SUBSET Facts
           factsOf(vars) == UNION {{<<x, c>> : c \in vars[x]} : x \in DOMAIN start}
           valuesOf(facts) == [x \in DOMAIN start |-> {c \in {"t", "f"} : <<x, c>> \in facts}]
           forcedBy(e, vars) ==
               UNION {{<<leafVariable(a, kids(a, e)[k]), c>> :
                          c \in {d \in {"t", "f"} :
                              unitForced(kindOf(a, e), childValues(a, e, vars), k, d)}} :
                       k \in {j \in DOMAIN kids(a, e) :
                              leafVariable(a, kids(a, e)[j]) # NoVariable}}
           next(known) == UNION ({known} \cup {forcedBy(e, valuesOf(known)) : e \in ops})
           N == [known \in V |-> next(known)]
           first == factsOf(start)
<1>0. DOMAIN start = X /\ start \in [X -> Four]
  BY DEF Valuations
<1>1. first \in V
  <2>1. \A x \in X : \A c \in start[x] : <<x, c>> \in Facts
    BY <1>0 DEF Four
  <2> QED
    BY <1>0, <2>1
<1>2. ASSUME NEW e \in ops, NEW vars PROVE forcedBy(e, vars) \subseteq Facts
  <2>1. \A k \in DOMAIN kids(a, e) : leafVariable(a, kids(a, e)[k]) \in Z
    BY DEF leafOf
  <2> HIDE DEF Z
  <2> QED
    BY <2>1
<1>3. \A known \in V : next(known) \in V
  <2> HIDE DEF forcedBy, Facts, valuesOf
  <2> QED
    BY <1>2
<1>4. N \in [V -> V]
  <2> HIDE DEF next, V
  <2> QED
    BY <1>3
<1>5. PICK f \in [Nat -> V] : f = [n \in Nat |-> IF n = 0 THEN first ELSE N[f[n - 1]]]
  <2> HIDE DEF N, V, first
  <2> QED
    BY <1>1, <1>4, Iteration
<1>6. f = [n \in Nat |-> IF n = 0 THEN first ELSE next(f[n - 1])]
  <2>1. \A n \in Nat : n # 0 => N[f[n - 1]] = next(f[n - 1])
    <3> HIDE DEF next, V, first
    <3>1. \A n \in Nat : n # 0 => f[n - 1] \in V
      BY <1>5
    <3> QED
      BY <3>1
  <2> HIDE DEF N, next, first, V
  <2> QED
    BY <1>5, <2>1
<1> DEFINE F == CHOOSE g : g = [n \in Nat |-> IF n = 0 THEN first ELSE next(g[n - 1])]
<1>7. F = [n \in Nat |-> IF n = 0 THEN first ELSE next(F[n - 1])]
  <2> HIDE DEF next, first
  <2> QED
    BY <1>6
<1>8. unitPropagation(a, ops, start) = valuesOf(F[2 * Cardinality(X)])
  BY <1>0 DEF unitPropagation
<1> HIDE DEF F
<1>9. F[0] = first /\ \A n \in Nat : F[n + 1] = next(F[n])
  <2> HIDE DEF next, first
  <2> QED
    BY <1>7
<1> DEFINE u == [n \in Nat |-> valuesOf(F[n])]
<1>10. \A n \in Nat : u[n] \in Valuations(a)
  <2>1. \A n \in Nat : \A x \in X : {c \in {"t", "f"} : <<x, c>> \in F[n]} \in Four
    BY DEF Four
  <2> QED
    BY <1>0, <2>1 DEF Valuations
<1>11. u[0] = start
  <2>1. \A x \in X : \A c : <<x, c>> \in first <=> c \in start[x]
    BY <1>0
  <2> HIDE DEF first
  <2>2. u[0] = [x \in X |-> {c \in {"t", "f"} : <<x, c>> \in first}]
    BY <1>0, <1>9
  <2>3. \A x \in X : {c \in {"t", "f"} : <<x, c>> \in first} = start[x]
    BY <1>0, <2>1 DEF Four
  <2> QED
    BY <1>0, <2>2, <2>3
<1>12. ASSUME NEW n \in Nat PROVE Propagates(a, ops, u[n], u[n + 1])
  <2> SUFFICES ASSUME NEW x \in X, NEW c \in {"t", "f"}
               PROVE  c \in u[n + 1][x] <=>
                        \/ c \in u[n][x]
                        \/ \E e \in ops : \E k \in DOMAIN kids(a, e) :
                              /\ leafOf(a, e, k) = x
                              /\ unitForced(kindOf(a, e), childValues(a, e, u[n]), k, c)
    <3> HIDE DEF u
    <3> QED
      BY DEF Propagates
  <2>1. x # NoVariable
    BY DEF Loaded, argumentVariables
  <2>2. c \in u[n + 1][x] <=> <<x, c>> \in next(F[n])
    <3> HIDE DEF next
    <3>1. n + 1 \in Nat /\ F[n + 1] = next(F[n])
      BY <1>9
    <3>2. u[n + 1][x] = {v \in {"t", "f"} : <<x, v>> \in F[n + 1]}
      BY <1>0, <3>1
    <3> QED
      BY <3>1, <3>2
  <2>3. c \in u[n][x] <=> <<x, c>> \in F[n]
    BY <1>0
  <2>4. ASSUME NEW e \in ops, NEW vars
        PROVE  <<x, c>> \in forcedBy(e, vars) <=>
                  \E k \in DOMAIN kids(a, e) :
                      leafOf(a, e, k) = x /\ unitForced(kindOf(a, e), childValues(a, e, vars), k, c)
    BY <2>1 DEF leafOf
  <2>5. u[n] = valuesOf(F[n])
    OBVIOUS
  <2>6. <<x, c>> \in next(F[n]) <=>
            <<x, c>> \in F[n] \/ \E e \in ops : <<x, c>> \in forcedBy(e, u[n])
    <3> HIDE DEF u, valuesOf, forcedBy
    <3> QED
      BY <2>5
  <2> HIDE DEF forcedBy, u, next
  <2> QED
    BY <2>2, <2>3, <2>4, <2>6
<1> HIDE DEF u, valuesOf
<1>13. unitPropagation(a, ops, start) = u[2 * Cardinality(X)]
  <2>1. 2 * Cardinality(X) \in Nat
    <3>1. IsFiniteSet(X)
      BY DEF Loaded, argumentVariables
    <3> QED
      BY <3>1, FS_CardinalityType
  <2> QED
    BY <1>8, <2>1 DEF u
<1> QED
  BY <1>10, <1>11, <1>12, <1>13 DEF Propagation

\* The steps ops force component c into variable x.
Forces(a, ops, v, x, c) ==
    \E e \in ops : \E k \in DOMAIN kids(a, e) :
        leafOf(a, e, k) = x /\ c \in forces(a, e, k, v)

\* What is forced goes into the next valuation, and nothing else.
LEMMA PropagatesForces ==
    ASSUME NEW a, Loaded(a), validateEvaluability(a),
           NEW ops \in SUBSET operatorsOf(a), NEW v \in Valuations(a), NEW w,
           Propagates(a, ops, v, w), NEW x \in argumentVariables(a), NEW c \in {"t", "f"}
    PROVE  c \in w[x] <=> c \in v[x] \/ Forces(a, ops, v, x, c)
<1>1. \A e \in ops : \A k \in DOMAIN kids(a, e) :
          unitForced(kindOf(a, e), childValues(a, e, v), k, c) <=> c \in forces(a, e, k, v)
  BY ForcesAreUnit
<1>2. c \in w[x] <=>
          \/ c \in v[x]
          \/ \E e \in ops : \E k \in DOMAIN kids(a, e) :
                leafOf(a, e, k) = x /\ unitForced(kindOf(a, e), childValues(a, e, v), k, c)
  BY DEF Propagates
<1> QED
  BY <1>1, <1>2 DEF Forces

LEMMA ValuationsTold ==
    ASSUME NEW a, NEW v \in Valuations(a), NEW x \in argumentVariables(a)
    PROVE  \A c \in v[x] : c \in {"t", "f"}
  BY DEF Valuations, Four

\* Each step adds, and stays below what lacks nothing the steps force.
LEMMA PropagationBounds ==
    ASSUME NEW a, Loaded(a), validateEvaluability(a),
           NEW ops \in SUBSET operatorsOf(a), NEW start, NEW u,
           Propagation(a, ops, start, u),
           NEW w \in Valuations(a), Below(a, start, w), \A e \in ops : Settled(a, e, w)
    PROVE  \A n \in Nat : Below(a, u[n], w)
<1> DEFINE S == {n \in Nat : ~Below(a, u[n], w)}
<1> SUFFICES ASSUME S # {} PROVE FALSE
  OBVIOUS
<1>1. S \in SUBSET Nat
  OBVIOUS
<1>2. PICK n \in S : \A m \in S : n <= m
  <2> HIDE DEF S
  <2> QED
    BY <1>1, LeastNumber
<1>3. n \in Nat /\ ~Below(a, u[n], w)
  OBVIOUS
<1>4. n # 0
  BY <1>3 DEF Propagation
<1>5. PICK l \in Nat : n = l + 1 /\ l \notin S
  <2>1. n - 1 \in Nat /\ n = (n - 1) + 1 /\ ~(n <= n - 1)
    BY <1>3, <1>4
  <2> HIDE DEF S
  <2> QED
    BY <1>2, <2>1
<1>6. u[l] \in Valuations(a) /\ Propagates(a, ops, u[l], u[n]) /\ Below(a, u[l], w)
  BY <1>5 DEF Propagation
<1> HIDE DEF S
<1>7. PICK v, z : v = u[l] /\ z = u[n]
  OBVIOUS
<1>8. ASSUME NEW x \in argumentVariables(a), NEW c \in {"t", "f"}, c \in z[x]
      PROVE  c \in v[x] \/ Forces(a, ops, v, x, c)
  BY <1>6, <1>7, <1>8, PropagatesForces
<1>9. \A e \in ops : \A k \in DOMAIN kids(a, e) : forces(a, e, k, v) \subseteq forces(a, e, k, w)
  BY <1>6, <1>7, ForcesKeep
<1>10. z \in Valuations(a)
  BY <1>3, <1>7 DEF Propagation
<1>11. \A x \in argumentVariables(a) : z[x] \subseteq w[x]
  <2> SUFFICES ASSUME NEW x \in argumentVariables(a), NEW c \in z[x] PROVE c \in w[x]
    OBVIOUS
  <2>1. c \in {"t", "f"}
    BY <1>10, ValuationsTold
  <2>2. CASE c \in v[x]
    BY <1>6, <1>7, <2>2 DEF Below
  <2>3. ASSUME NEW e \in ops, NEW k \in DOMAIN kids(a, e),
               leafOf(a, e, k) = x, c \in forces(a, e, k, v)
        PROVE  c \in w[x]
    BY <1>9, <2>3 DEF Settled
  <2>4. c \in v[x] \/ Forces(a, ops, v, x, c)
    BY <1>8, <2>1
  <2> QED
    BY <2>2, <2>3, <2>4 DEF Forces
<1> QED
  BY <1>3, <1>7, <1>11 DEF Below

LEMMA PropagationGrows ==
    ASSUME NEW a, NEW ops, NEW start, NEW u, Propagation(a, ops, start, u), NEW n \in Nat
    PROVE  Below(a, u[n], u[n + 1])
<1>1. u[n] \in Valuations(a) /\ Propagates(a, ops, u[n], u[n + 1])
  BY DEF Propagation
<1> QED
  BY <1>1, ValuationsTold DEF Propagates, Below

\* Once a step adds nothing none after it does.
LEMMA PropagationStops ==
    ASSUME NEW a, NEW ops, NEW start, NEW u, Propagation(a, ops, start, u),
           NEW n \in Nat, u[n + 1] = u[n]
    PROVE  u[n + 2] = u[n + 1]
<1>1. PICK v, w : v = u[n] /\ w = u[n + 2]
  OBVIOUS
<1>2. n + 1 \in Nat /\ n + 2 \in Nat /\ (n + 1) + 1 = n + 2
  OBVIOUS
<1>3. Propagates(a, ops, v, v) /\ Propagates(a, ops, v, w)
  BY <1>1, <1>2 DEF Propagation
<1>4. v \in [argumentVariables(a) -> Four] /\ w \in [argumentVariables(a) -> Four]
  BY <1>1, <1>2 DEF Propagation, Valuations
<1>5. \A x \in argumentVariables(a) : \A c \in {"t", "f"} : c \in w[x] <=> c \in v[x]
  BY <1>3 DEF Propagates
<1>6. \A x \in argumentVariables(a) : w[x] = v[x]
  BY <1>4, <1>5 DEF Four
<1>7. w = v
  BY <1>4, <1>6
<1> QED
  BY <1>1, <1>7

\* The components a valuation has: one for each variable read true, and one for
\* each read false.
Having(a, v, c) == {x \in argumentVariables(a) : c \in v[x]}
Size(a, v) == Cardinality(Having(a, v, "t")) + Cardinality(Having(a, v, "f"))

LEMMA SizeBounded ==
    ASSUME NEW a, Loaded(a), NEW v
    PROVE  /\ Cardinality(argumentVariables(a)) \in Nat
           /\ Size(a, v) \in Nat /\ Size(a, v) <= 2 * Cardinality(argumentVariables(a))
<1>1. IsFiniteSet(argumentVariables(a))
  BY DEF Loaded, argumentVariables
<1>2. PICK T, F : T = Having(a, v, "t") /\ F = Having(a, v, "f")
  OBVIOUS
<1>3. T \in SUBSET argumentVariables(a) /\ F \in SUBSET argumentVariables(a)
  BY <1>2 DEF Having
<1>4. /\ IsFiniteSet(T) /\ Cardinality(T) <= Cardinality(argumentVariables(a))
      /\ IsFiniteSet(F) /\ Cardinality(F) <= Cardinality(argumentVariables(a))
  BY <1>1, <1>3, FS_Subset
<1>5. Cardinality(T) \in Nat /\ Cardinality(F) \in Nat /\ Cardinality(argumentVariables(a)) \in Nat
  BY <1>1, <1>4, FS_CardinalityType
<1> QED
  BY <1>2, <1>4, <1>5 DEF Size

LEMMA SizeGrows ==
    ASSUME NEW a, Loaded(a), NEW v \in Valuations(a), NEW w \in Valuations(a),
           Below(a, v, w), v # w
    PROVE  Size(a, v) + 1 <= Size(a, w)
<1>1. IsFiniteSet(argumentVariables(a))
  BY DEF Loaded, argumentVariables
<1>2. PICK T, F, U, G : /\ T = Having(a, v, "t") /\ F = Having(a, v, "f")
                        /\ U = Having(a, w, "t") /\ G = Having(a, w, "f")
  OBVIOUS
<1>3. T \in SUBSET U /\ F \in SUBSET G /\ U \in SUBSET argumentVariables(a) /\ G \in SUBSET argumentVariables(a)
  BY <1>2 DEF Having, Below
<1>4. IsFiniteSet(U) /\ IsFiniteSet(G)
  BY <1>1, <1>3, FS_Subset
<1>5. /\ IsFiniteSet(T) /\ Cardinality(T) <= Cardinality(U)
      /\ (Cardinality(U) = Cardinality(T) => U = T)
      /\ IsFiniteSet(F) /\ Cardinality(F) <= Cardinality(G)
      /\ (Cardinality(G) = Cardinality(F) => G = F)
  BY <1>3, <1>4, FS_Subset
<1>6. /\ Cardinality(T) \in Nat /\ Cardinality(F) \in Nat
      /\ Cardinality(U) \in Nat /\ Cardinality(G) \in Nat
  BY <1>4, <1>5, FS_CardinalityType
<1>7. ~(U = T /\ G = F)
  <2> SUFFICES ASSUME U = T, G = F PROVE FALSE
    OBVIOUS
  <2>1. \A x \in argumentVariables(a) : ("t" \in v[x] <=> "t" \in w[x]) /\ ("f" \in v[x] <=> "f" \in w[x])
    BY <1>2 DEF Having
  <2>2. v \in [argumentVariables(a) -> Four] /\ w \in [argumentVariables(a) -> Four]
    BY DEF Valuations
  <2>3. \A x \in argumentVariables(a) : v[x] = w[x]
    BY <2>1, <2>2 DEF Four
  <2>4. v = w
    BY <2>2, <2>3
  <2> QED
    BY <2>4
<1> QED
  BY <1>2, <1>5, <1>6, <1>7 DEF Size

\* There are no more steps that add than components to gain.
LEMMA PropagationEnds ==
    ASSUME NEW a, Loaded(a), NEW ops, NEW start, NEW u, Propagation(a, ops, start, u)
    PROVE  LET n == 2 * Cardinality(argumentVariables(a)) IN n \in Nat /\ u[n + 1] = u[n]
<1>1. PICK N : N = 2 * Cardinality(argumentVariables(a))
  OBVIOUS
<1>2. N \in Nat
  BY <1>1, SizeBounded
<1> SUFFICES ASSUME u[N + 1] # u[N] PROVE FALSE
  BY <1>1, <1>2
\* No step before it stopped.
<1> DEFINE S == {i \in Nat : i <= N /\ u[(N - i) + 1] = u[N - i]}
<1>3. S = {}
  <2> SUFFICES ASSUME S # {} PROVE FALSE
    OBVIOUS
  <2>1. S \in SUBSET Nat
    OBVIOUS
  <2>2. PICK i \in S : \A m \in S : i <= m
    <3> HIDE DEF S
    <3> QED
      BY <2>1, LeastNumber
  <2>3. i \in Nat /\ i <= N /\ u[(N - i) + 1] = u[N - i]
    OBVIOUS
  <2>4. i # 0
    BY <1>2, <2>3
  <2>5. PICK n, l : n = N - i /\ l = i - 1
    OBVIOUS
  <2>6. n \in Nat /\ l \in Nat /\ l <= N /\ ~(i <= l) /\ N - l = n + 1 /\ (N - l) + 1 = n + 2
    BY <1>2, <2>3, <2>4, <2>5
  <2>7. u[n + 2] = u[n + 1]
    BY <2>3, <2>5, <2>6, PropagationStops
  <2>8. l \in S
    BY <2>6, <2>7
  <2> HIDE DEF S
  <2> QED
    BY <2>2, <2>6, <2>8
<1>4. \A n \in 0 .. N : u[n + 1] # u[n]
  <2> SUFFICES ASSUME NEW n \in 0 .. N PROVE u[n + 1] # u[n]
    OBVIOUS
  <2>1. N - n \in Nat /\ N - n <= N /\ N - (N - n) = n
    BY <1>2
  <2> QED
    BY <1>3, <2>1
<1> HIDE DEF S
<1> DEFINE P == {n \in Nat : n <= N + 1 /\ ~(n <= Size(a, u[n]))}
<1>5. P = {}
  <2> SUFFICES ASSUME P # {} PROVE FALSE
    OBVIOUS
  <2>1. P \in SUBSET Nat
    OBVIOUS
  <2>2. PICK n \in P : \A m \in P : n <= m
    <3> HIDE DEF P
    <3> QED
      BY <2>1, LeastNumber
  <2>3. n \in Nat /\ n <= N + 1 /\ ~(n <= Size(a, u[n]))
    OBVIOUS
  <2>4. n # 0
    BY <2>3, SizeBounded
  <2>5. PICK l \in Nat : n = l + 1 /\ l \in 0 .. N /\ ~(n <= l)
    <3>1. n - 1 \in Nat /\ n = (n - 1) + 1 /\ n - 1 \in 0 .. N /\ ~(n <= n - 1)
      BY <1>2, <2>3, <2>4
    <3> QED
      BY <3>1
  <2>6. l \notin P
    BY <2>2, <2>5
  <2>7. l <= Size(a, u[l])
    BY <1>2, <2>5, <2>6
  <2>8. /\ u[l] \in Valuations(a) /\ u[n] \in Valuations(a)
        /\ Below(a, u[l], u[n]) /\ u[l] # u[n]
    BY <1>4, <2>3, <2>5, PropagationGrows DEF Propagation
  <2>9. Size(a, u[l]) + 1 <= Size(a, u[n])
    BY <2>8, SizeGrows
  <2>10. Size(a, u[l]) \in Nat /\ Size(a, u[n]) \in Nat
    BY SizeBounded
  <2> QED
    BY <2>3, <2>5, <2>7, <2>9, <2>10
<1>6. N + 1 <= Size(a, u[N + 1])
  BY <1>2, <1>5
<1>7. Size(a, u[N + 1]) \in Nat /\ Size(a, u[N + 1]) <= N
  BY <1>1, SizeBounded
<1> QED
  BY <1>2, <1>6, <1>7

\* U lacks nothing the steps force from start, and is the least such valuation.
LeastSettled(a, ops, start, U) ==
    /\ U \in Valuations(a) /\ Below(a, start, U)
    /\ \A e \in ops : Settled(a, e, U)
    /\ \A w \in Valuations(a) :
          Below(a, start, w) /\ (\A e \in ops : Settled(a, e, w)) => Below(a, U, w)

LEMMA UnitPropagationIsLeast ==
    ASSUME NEW a, Loaded(a), validateEvaluability(a),
           NEW ops \in SUBSET operatorsOf(a), NEW start \in Valuations(a)
    PROVE  LeastSettled(a, ops, start, unitPropagation(a, ops, start))
<1>1. PICK u : /\ Propagation(a, ops, start, u)
               /\ unitPropagation(a, ops, start) = u[2 * Cardinality(argumentVariables(a))]
  BY PropagationSteps
<1>2. PICK N : N = 2 * Cardinality(argumentVariables(a))
  OBVIOUS
<1>3. N \in Nat /\ u[N + 1] = u[N]
  BY <1>1, <1>2, PropagationEnds
<1>4. PICK U : U = u[N]
  OBVIOUS
<1>5. U \in Valuations(a) /\ Propagates(a, ops, U, U)
  BY <1>1, <1>3, <1>4 DEF Propagation
<1>6. Below(a, start, U)
  <2> DEFINE S == {n \in Nat : ~Below(a, start, u[n])}
  <2>1. S = {}
    <3> SUFFICES ASSUME S # {} PROVE FALSE
      OBVIOUS
    <3>1. S \in SUBSET Nat
      OBVIOUS
    <3>2. PICK n \in S : \A m \in S : n <= m
      <4> HIDE DEF S
      <4> QED
        BY <3>1, LeastNumber
    <3>3. n \in Nat /\ ~Below(a, start, u[n])
      OBVIOUS
    <3>4. n # 0
      BY <1>1, <3>3 DEF Propagation, Below
    <3>5. PICK l \in Nat : n = l + 1 /\ ~(n <= l)
      <4>1. n - 1 \in Nat /\ n = (n - 1) + 1 /\ ~(n <= n - 1)
        BY <3>3, <3>4
      <4> QED
        BY <4>1
    <3>6. l \notin S
      BY <3>2, <3>5
    <3>7. Below(a, start, u[l]) /\ Below(a, u[l], u[n])
      BY <1>1, <3>5, <3>6, PropagationGrows
    <3> QED
      BY <3>3, <3>7 DEF Below
  <2> QED
    BY <1>3, <1>4, <2>1
<1>7. \A e \in ops : Settled(a, e, U)
  <2> SUFFICES ASSUME NEW e \in ops, NEW k \in DOMAIN kids(a, e),
                      NEW x \in argumentVariables(a), x = leafOf(a, e, k),
                      NEW c \in forces(a, e, k, U)
               PROVE  c \in U[x]
    BY DEF Settled
  <2>1. c \in {"t", "f"}
    <3>1. forces(a, e, k, U) \in Four
      BY <1>5, ForcesTyped
    <3> QED
      BY <3>1 DEF Four
  <2>2. Forces(a, ops, U, x, c)
    BY DEF Forces
  <2>3. c \in U[x] <=> c \in U[x] \/ Forces(a, ops, U, x, c)
    BY <1>5, <2>1, PropagatesForces
  <2> QED
    BY <2>2, <2>3
<1>8. ASSUME NEW w \in Valuations(a), Below(a, start, w), \A e \in ops : Settled(a, e, w)
      PROVE  Below(a, U, w)
  BY <1>1, <1>3, <1>4, <1>8, PropagationBounds
<1> QED
  BY <1>1, <1>2, <1>4, <1>5, <1>6, <1>7, <1>8 DEF LeastSettled

(***************************************************************************)
(* The steps on record.                                                    *)
(***************************************************************************)
LEMMA FormulaShaped ==
    ASSUME NEW a, Loaded(a), validateEvaluability(a), NEW x \in DOMAIN a.expr,
           kindOf(a, x) = "formula"
    PROVE  Len(kids(a, x)) = 1
<1>1. PICK p : p = a.expr[x].premise
  OBVIOUS
<1>2. p \in premisesOf(a) /\ x \in expressionsIn(a, p)
  BY <1>1 DEF Loaded, expressionsIn
<1>3. validatePremiseEvaluability(a, p)
  BY <1>2 DEF validateEvaluability
<1> QED
  BY <1>2, <1>3 DEF validatePremiseEvaluability

\* Under any parentheses there is an expression of the argument.
LEMMA LookThroughResolves ==
    ASSUME NEW a, Loaded(a), validateEvaluability(a), NEW d \in DOMAIN a.expr
    PROVE  lookThrough(a, d) \in DOMAIN a.expr
<1> DEFINE D == DOMAIN a.expr
           at(g, x) == IF kindOf(a, x) = "formula" THEN g[kids(a, x)[1]] ELSE x
           below == [x \in D |-> Range(kids(a, x))]
           B == [g \in [D -> D] |-> [x \in D |-> at(g, x)]]
<1>1. ASSUME NEW x \in D
      PROVE  /\ Range(kids(a, x)) \subseteq readsFrom(a, x)
             /\ kindOf(a, x) = "formula" =>
                   kids(a, x)[1] \in D /\ kids(a, x)[1] \in Range(kids(a, x))
  <2> HIDE DEF B, below, at
  <2>1. kids(a, x) \in Seq(D) /\ \A k \in DOMAIN kids(a, x) : kids(a, x)[k] \in Range(kids(a, x))
    BY UsesResolve
  <2>2. ASSUME kindOf(a, x) = "formula"
        PROVE  kids(a, x)[1] \in D /\ kids(a, x)[1] \in Range(kids(a, x))
    <3>1. Len(kids(a, x)) = 1
      BY <2>2, FormulaShaped
    <3>2. 1 \in DOMAIN kids(a, x)
      BY <2>1, <3>1
    <3> QED
      BY <2>1, <3>2
  <2>3. Range(kids(a, x)) \subseteq readsFrom(a, x)
    BY DEF readsFrom
  <2> QED
    BY <2>2, <2>3
<1>2. Founded(D, below)
  <2> SUFFICES ASSUME NEW S \in SUBSET D, S # {}
               PROVE  \E x \in S : below[x] \cap S = {}
    BY DEF Founded
  <2>1. PICK x \in S : readsFrom(a, x) \cap S = {}
    BY DEF Loaded
  <2> QED
    BY <1>1, <2>1
<1>3. Total(D, D, B)
  <2>1. \A g \in [D -> D] : \A x \in D : at(g, x) \in D
    BY <1>1
  <2> HIDE DEF at, D
  <2> QED
    BY <2>1 DEF Total
<1>4. Local(D, D, below, B)
  <2>1. \A g \in [D -> D] : \A x \in D : B[g][x] = at(g, x)
    <3> HIDE DEF at, D, D
    <3> QED
      OBVIOUS
  <2>2. ASSUME NEW g \in [D -> D], NEW h \in [D -> D], NEW x \in D,
               \A y \in below[x] \cap D : g[y] = h[y]
        PROVE  at(g, x) = at(h, x)
    <3> HIDE DEF B
    <3> QED
      BY <1>1, <2>2
  <2> HIDE DEF B, at, below, D
  <2> QED
    BY <2>1, <2>2 DEF Local
<1>5. PICK f \in [D -> D] : f = B[f]
  <2>1. D # {}
    OBVIOUS
  <2> HIDE DEF B, D, below
  <2> QED
    BY <1>2, <1>3, <1>4, <2>1, Recursion
<1>6. f = [x \in D |-> at(f, x)]
  <2> HIDE DEF D, at
  <2> QED
    BY <1>5
<1> DEFINE F == CHOOSE g : g = [x \in D |-> at(g, x)]
<1>7. F = [x \in D |-> at(F, x)]
  <2> HIDE DEF D, at
  <2> QED
    BY <1>6
<1>8. lookThrough(a, d) = F[d]
  BY DEF lookThrough
<1> HIDE DEF F
<1>9. {x \in D : F[x] \notin D} = {}
  <2> SUFFICES ASSUME NEW S, S = {x \in D : F[x] \notin D}, S # {} PROVE FALSE
    OBVIOUS
  <2>1. PICK x \in S : below[x] \cap S = {}
    BY <1>2 DEF Founded
  <2>2. x \in D /\ F[x] \notin D /\ F[x] = at(F, x)
    BY <1>7
  <2>3. kindOf(a, x) = "formula" /\ F[kids(a, x)[1]] \notin D
    BY <2>2
  <2>4. kids(a, x)[1] \in S /\ kids(a, x)[1] \in below[x]
    BY <1>1, <2>2, <2>3
  <2> QED
    BY <2>1, <2>4
<1> QED
  BY <1>8, <1>9

LEMMA LeafResolves ==
    ASSUME NEW a, Loaded(a), validateEvaluability(a), NEW d \in DOMAIN a.expr
    PROVE  leafVariable(a, d) = NoVariable \/ leafVariable(a, d) \in argumentVariables(a)
<1>1. PICK l : l = lookThrough(a, d)
  OBVIOUS
<1>2. l \in DOMAIN a.expr
  BY <1>1, LookThroughResolves
<1> QED
  BY <1>1, <1>2 DEF leafVariable, Loaded, argumentVariables

\* The steps on record are granted ones, and their components are there.
Fired(a, ops, s) ==
    \A key \in DOMAIN s.steps :
        key[1] \in argumentVariables(a) /\ key[2] \in ops /\ key[3] \in s.vars[key[1]]

LEMMA MergeFires ==
    ASSUME NEW a, Loaded(a), validateEvaluability(a), NEW ops, NEW s \in Closures(a),
           Fired(a, ops, s), NEW e \in ops, e \in operatorsOf(a), NEW k \in DOMAIN kids(a, e),
           NEW value \in Four
    PROVE  Fired(a, ops, mergeIntoChild(a, s, e, k, value))
<1> SUFFICES ASSUME NEW x, x = leafVariable(a, kids(a, e)[k]),
                    NEW t, t = mergeIntoChild(a, s, e, k, value)
             PROVE  Fired(a, ops, t)
  OBVIOUS
<1> DEFINE fired == {<<x, e, c>> : c \in value}
           from == IF kindOf(a, e) \in {"not", "and"} THEN {}
                   ELSE UNION {valuedUnder(a, kids(a, e)[j], s.vars) :
                                   j \in DOMAIN kids(a, e) \ {k}}
<1>1. CASE x = NoVariable \/ value = Null
  BY <1>1 DEF mergeIntoChild
<1>2. CASE ~(x = NoVariable \/ value = Null)
  <2>1. /\ t.vars = [s.vars EXCEPT ![x] = @ \cup value]
        /\ DOMAIN t.steps = fired \cup DOMAIN s.steps
    BY <1>2 DEF mergeIntoChild
  <2>2. x \in argumentVariables(a)
    <3>1. kids(a, e)[k] \in DOMAIN a.expr
      <4>1. e \in DOMAIN a.expr
        BY DEF operatorsOf
      <4>2. kids(a, e) \in Seq(DOMAIN a.expr)
        BY <4>1, UsesResolve
      <4> QED
        BY <4>2
    <3> QED
      BY <1>2, <3>1, LeafResolves
  <2>3. s.vars \in [argumentVariables(a) -> Four]
    BY DEF Closures
  <2>4. \A y \in argumentVariables(a) : s.vars[y] \subseteq t.vars[y]
    BY <2>1, <2>2, <2>3
  <2>5. value \subseteq t.vars[x]
    BY <2>1, <2>2, <2>3
  <2>6. ASSUME NEW key \in fired
        PROVE  key[1] \in argumentVariables(a) /\ key[2] \in ops /\ key[3] \in t.vars[key[1]]
    <3>1. PICK c \in value : key = <<x, e, c>>
      OBVIOUS
    <3> QED
      BY <2>2, <2>5, <3>1
  <2>7. ASSUME NEW key \in DOMAIN s.steps
        PROVE  key[1] \in argumentVariables(a) /\ key[2] \in ops /\ key[3] \in t.vars[key[1]]
    BY <2>4 DEF Fired
  <2> HIDE DEF fired
  <2> QED
    BY <2>1, <2>6, <2>7 DEF Fired
<1> QED
  BY <1>1, <1>2

LEMMA VisitFires ==
    ASSUME NEW a, Loaded(a), validateEvaluability(a), NEW ops, NEW s \in Closures(a),
           Fired(a, ops, s), NEW e \in ops, e \in operatorsOf(a)
    PROVE  Fired(a, ops, visit(a, s, e))
<1> DEFINE order == visitOrder(a, e)
           n == Len(order)
<1>1. PICK m \in [0 .. n -> Closures(a)] :
        /\ m[0] = s
        /\ \A i \in 1 .. n : m[i] = moveInto(a, s, m[i - 1], e, order[i])
        /\ visit(a, s, e) = m[n]
  BY VisitMoves
<1>2. n \in Nat /\ \A i \in 1 .. n : order[i] \in DOMAIN kids(a, e)
  <2>1. e \in DOMAIN a.expr
    BY DEF operatorsOf
  <2> QED
    BY <2>1, OrderResolves
<1> HIDE DEF n, order
<1> DEFINE S == {i \in 0 .. n : ~Fired(a, ops, m[i])}
<1>3. S = {}
  <2> SUFFICES ASSUME S # {} PROVE FALSE
    OBVIOUS
  <2>0. S \in SUBSET Nat
    BY <1>2
  <2>1. PICK i \in S : \A k \in S : i <= k
    <3> HIDE DEF S
    <3> QED
      BY <2>0, LeastNumber
  <2>2. i # 0
    BY <1>1
  <2>3. i \in 1 .. n /\ i - 1 \in 0 .. n /\ i - 1 \notin S
    BY <1>2, <2>1, <2>2
  <2>4. PICK t \in Closures(a) : t = m[i - 1]
    BY <2>3
  <2>5. PICK k \in DOMAIN kids(a, e) : k = order[i]
    BY <1>2, <2>3
  <2>6. m[i] = moveInto(a, s, t, e, k) /\ Fired(a, ops, t)
    BY <1>1, <2>3, <2>4, <2>5
  <2>7. PICK value : value = valueMoved(a, s, t, e, k)
    OBVIOUS
  <2>8. value \in Four
    BY <2>7, MoveAdds
  <2>9. moveInto(a, s, t, e, k) = mergeIntoChild(a, t, e, k, value)
    BY <2>7 DEF moveInto, valueMoved
  <2>10. Fired(a, ops, mergeIntoChild(a, t, e, k, value))
    BY <2>6, <2>8, MergeFires
  <2> QED
    BY <2>1, <2>6, <2>9, <2>10
<1>4. n \in 0 .. n
  BY <1>2
<1> QED
  BY <1>1, <1>3, <1>4

(***************************************************************************)
(* The closure, while it closes.                                           *)
(***************************************************************************)
grantedNow == granted(argument, decisions)

\* It stays below every valuation the granted steps add nothing to; what was
\* visited in a sweep that changed nothing is settled; what is on record fired.
StaysBelow ==
    \A w \in Valuations(argument) :
        /\ Below(argument, seed, w)
        /\ \A e \in grantedNow : Settled(argument, e, w)
        => Below(argument, closure.vars, w)

VisitedSettled ==
    ~changed => \A e \in grantedNow \ toVisit : Settled(argument, e, closure.vars)

ClosureInv ==
    /\ phase \in {"closing", "reported"} =>
          StaysBelow /\ VisitedSettled /\ Fired(argument, grantedNow, closure)
    /\ reported => toVisit = {} /\ ~changed

LEMMA BeginCloses ==
    ASSUME EvaluationInv, ClosureInv, NEW given, Begin(given),
           \A x \in DOMAIN given : given[x] \in {True, False, Null}
    PROVE  ClosureInv'
<1>1. UNCHANGED grantedNow /\ argument' = argument
  BY DEF Begin, grantedNow
<1>2. CASE phase' = "closing"
  <2>1. closure' = noClosure(seedOf(argument, given)) /\ toVisit' = grantedNow /\ answers' = given
    BY <1>2 DEF Begin, grantedNow
  <2>2. closure'.vars = seed' /\ DOMAIN closure'.steps = {}
    BY <2>1, <1>1 DEF noClosure, seed
  <2> QED
    BY <1>1, <1>2, <2>1, <2>2 DEF ClosureInv, StaysBelow, VisitedSettled, Fired, reported
<1>3. CASE phase' # "closing"
  BY <1>3 DEF Begin, ClosureInv, reported
<1> QED
  BY <1>2, <1>3

LEMMA VisitCloses ==
    ASSUME EvaluationInv, ClosureInv, NEW e \in toVisit, Visit(e)
    PROVE  ClosureInv'
<1>1. PICK a, s, t, ops : a = argument /\ s = closure /\ t = closure' /\ ops = grantedNow
  OBVIOUS
<1>2. /\ phase = "closing" /\ phase' = "closing" /\ t = visit(a, s, e)
      /\ argument' = argument /\ grantedNow' = grantedNow /\ seed' = seed
      /\ toVisit' = toVisit \ {e}
      /\ changed' = (changed \/ t.vars # s.vars)
  BY <1>1 DEF Visit, grantedNow, seed
<1>3. /\ Loaded(a) /\ validateEvaluability(a) /\ s \in Closures(a)
      /\ e \in ops /\ e \in operatorsOf(a) /\ ops \in SUBSET operatorsOf(a)
  BY <1>1, <1>2, GrantedDecided DEF EvaluationInv, EvaluationTypes, OnlyEvaluable, grantedNow
<1>4. StaysBelow /\ VisitedSettled /\ Fired(a, ops, s)
  BY <1>1, <1>2 DEF ClosureInv
<1>5. StaysBelow'
  <2> SUFFICES ASSUME NEW w \in Valuations(a), Below(a, seed, w), \A d \in ops : Settled(a, d, w)
               PROVE  Below(a, t.vars, w)
    BY <1>1, <1>2 DEF StaysBelow
  <2>1. Below(a, s.vars, w)
    BY <1>1, <1>4 DEF StaysBelow
  <2> QED
    BY <1>2, <1>3, <2>1, VisitStaysBelow
<1>6. VisitedSettled'
  <2> SUFFICES ASSUME ~changed', NEW d \in ops \ (toVisit \ {e})
               PROVE  Settled(a, d, t.vars)
    BY <1>1, <1>2 DEF VisitedSettled
  <2>1. ~changed /\ t.vars = s.vars
    BY <1>2
  <2>2. CASE d = e
    BY <1>2, <1>3, <2>1, <2>2, VisitSettles
  <2>3. CASE d # e
    BY <1>1, <1>4, <2>1, <2>3 DEF VisitedSettled
  <2> QED
    BY <2>2, <2>3
<1>7. Fired(a, ops, t)
  BY <1>2, <1>3, <1>4, VisitFires
<1> QED
  BY <1>1, <1>2, <1>5, <1>6, <1>7 DEF ClosureInv, reported

LEMMA ClosureKept == EvaluationInv /\ ClosureInv /\ [EvaluationNext]_evars => ClosureInv'
<1> SUFFICES ASSUME EvaluationInv, ClosureInv, [EvaluationNext]_evars PROVE ClosureInv'
  OBVIOUS
<1>1. CASE evaluate
  BY <1>1, BeginCloses DEF evaluate, EvaluationInv, EvaluationTypes
<1>2. CASE evaluateWithDefaults
  <2>1. PICK given : /\ given = [x \in DOMAIN answers \cup (argumentVariables(argument) \ axiomatic(argument)) |->
                                    IF x \in DOMAIN answers THEN answers[x]
                                    ELSE deriveDefaultAssignment(argument)[x]]
                     /\ Begin(given)
    BY <1>2 DEF evaluateWithDefaults
  <2>2. \A x \in argumentVariables(argument) : deriveDefaultAssignment(argument)[x] \in {True, Null}
    BY DEF deriveDefaultAssignment
  <2>3. \A x \in DOMAIN given : given[x] \in {True, False, Null}
    BY <2>1, <2>2 DEF EvaluationInv, EvaluationTypes
  <2> QED
    BY <2>1, <2>3, BeginCloses
<1>3. ASSUME NEW e \in toVisit, Visit(e) PROVE ClosureInv'
  BY <1>3, VisitCloses
<1>4. CASE SweepAgain
  BY <1>4 DEF SweepAgain, ClosureInv, StaysBelow, VisitedSettled, grantedNow, seed, reported, Fired
<1>5. CASE Report
  BY <1>5 DEF Report, ClosureInv, StaysBelow, VisitedSettled, grantedNow, seed, reported, Fired
<1>6. CASE UNCHANGED evars
  BY <1>6 DEF evars, ClosureInv, StaysBelow, VisitedSettled, grantedNow, seed, reported, Fired
<1> QED
  BY <1>1, <1>2, <1>3, <1>4, <1>5, <1>6 DEF EvaluationNext

LEMMA ClosureBegins == EvaluationInit => ClosureInv
  BY DEF EvaluationInit, ClosureInv, reported

\* Two valuations below each other are one.
LEMMA BelowBothWays ==
    ASSUME NEW a, NEW v \in Valuations(a), NEW w \in Valuations(a),
           Below(a, v, w), Below(a, w, v)
    PROVE  v = w
<1>1. v \in [argumentVariables(a) -> Four] /\ w \in [argumentVariables(a) -> Four]
  BY DEF Valuations
<1>2. \A x \in argumentVariables(a) : v[x] = w[x]
  BY DEF Below
<1> QED
  BY <1>1, <1>2

LEMMA ClosedIsUnitPropagation ==
    EvaluationInv /\ ClosureInv => ClosureIsUnitPropagation
<1> SUFFICES ASSUME EvaluationInv, ClosureInv, reported PROVE ClosureIsUnitPropagation
  BY DEF ClosureIsUnitPropagation
<1>1. PICK a, ops, start, v : /\ a = argument /\ ops = grantedNow /\ start = seed
                              /\ v = closure.vars
  OBVIOUS
<1>2. /\ Loaded(a) /\ validateEvaluability(a) /\ ops \in SUBSET operatorsOf(a)
      /\ v \in Valuations(a) /\ Below(a, start, v)
  BY <1>1, GrantedDecided
  DEF EvaluationInv, EvaluationTypes, OnlyEvaluable, grantedNow, reported, Closures, Valuations, Below
<1>3. start \in Valuations(a)
  BY <1>1, SeedTyped DEF EvaluationInv, EvaluationTypes, seed, Valuations
<1>4. PICK U : U = unitPropagation(a, ops, start)
  OBVIOUS
<1>5. LeastSettled(a, ops, start, U)
  BY <1>2, <1>3, <1>4, UnitPropagationIsLeast
<1>6. \A e \in ops : Settled(a, e, v)
  BY <1>1 DEF ClosureInv, VisitedSettled, reported
<1>7. Below(a, U, v)
  BY <1>2, <1>5, <1>6 DEF LeastSettled
<1>8. Below(a, v, U)
  BY <1>1, <1>5 DEF LeastSettled, ClosureInv, StaysBelow, reported
<1>9. v = U
  BY <1>2, <1>5, <1>7, <1>8, BelowBothWays DEF LeastSettled
<1> QED
  BY <1>1, <1>4, <1>9 DEF ClosureIsUnitPropagation, ClosureInv, Fired, grantedNow, reported

(***************************************************************************)
(* In whatever order the sweeps take the granted steps, an evaluation ends *)
(* with what unit propagation over them forces, no more and no less, and   *)
(* every step on record forced a component its variable has.               *)
(***************************************************************************)
THEOREM ClosureExact == EvaluationSpec => []ClosureIsUnitPropagation
<1>1. EvaluationSpec => [](EvaluationInv /\ ClosureInv)
  <2>1. EvaluationInit => EvaluationInv /\ ClosureInv
    BY InitKept, ClosureBegins
  <2>2. EvaluationInv /\ ClosureInv /\ [EvaluationNext]_evars => (EvaluationInv /\ ClosureInv)'
    BY StepKept, ClosureKept
  <2> QED
    BY <2>1, <2>2, PTL DEF EvaluationSpec
<1> QED
  BY <1>1, ClosedIsUnitPropagation, PTL

(***************************************************************************)
(* The search for a reading under which premises hold.                     *)
(***************************************************************************)
\* What premise p says when the columns in c are read true and the others
\* false is says[c][p].  Under c all of G hold; or none fails and one is open.
Holds(G, says, c) == \A p \in G : says[c][p] = True
LeftOpen(G, says, c) ==
    /\ \A p \in G : says[c][p] # False
    /\ \E p \in G : says[c][p] = Null

\* The answer over every choice of columns.
Verdict(free, G, says) ==
    IF \E c \in SUBSET free : Holds(G, says, c) THEN True
    ELSE IF \E c \in SUBSET free : LeftOpen(G, says, c) THEN Null ELSE False

\* A premise says one thing or the other or nothing, and the columns it reaches
\* decide which.
Speaks(free, P, reach, says) ==
    /\ \A p \in P : reach[p] \subseteq free
    /\ \A c \in SUBSET free : \A p \in P : says[c][p] \in {True, False, Null}
    /\ \A c \in SUBSET free : \A d \in SUBSET free : \A p \in P :
          c \cap reach[p] = d \cap reach[p] => says[c][p] = says[d][p]

\* The groups hold all premises, and share no column.
Apart(P, reach, groups) ==
    /\ UNION groups = P
    /\ \A G \in groups : \A H \in groups : G # H =>
          \A p \in G : \A q \in H : reach[p] \cap reach[q] = {}

LEMMA VerdictTold ==
    ASSUME NEW free, NEW P, NEW reach, NEW says, Speaks(free, P, reach, says),
           NEW G \in SUBSET P
    PROVE  /\ Verdict(free, G, says) \in {True, Null, False}
           /\ Verdict(free, G, says) = True <=> \E c \in SUBSET free : Holds(G, says, c)
           /\ Verdict(free, G, says) = Null => \E c \in SUBSET free : LeftOpen(G, says, c)
           /\ Verdict(free, G, says) = False
                <=> \A c \in SUBSET free : \E p \in G : says[c][p] = False
<1>1. True # False /\ True # Null /\ False # Null
  BY ClassicalTold
<1>2. ASSUME NEW c \in SUBSET free
      PROVE  (\E p \in G : says[c][p] = False) <=> ~Holds(G, says, c) /\ ~LeftOpen(G, says, c)
  <2>1. \A p \in G : says[c][p] \in {True, False, Null}
    BY DEF Speaks
  <2> QED
    BY <1>1, <2>1 DEF Holds, LeftOpen
<1> QED
  BY <1>1, <1>2 DEF Verdict

\* Groups that share no column can be walked one by one.
LEMMA VerdictsCombine ==
    ASSUME NEW free, NEW P, NEW reach, NEW says, Speaks(free, P, reach, says),
           NEW groups, Apart(P, reach, groups)
    PROVE  LET verdicts == {Verdict(free, G, says) : G \in groups}
           IN  Verdict(free, P, says) = IF False \in verdicts THEN False
                                        ELSE IF Null \in verdicts THEN Null ELSE True
<1>1. \A G \in groups : G \in SUBSET P
  BY DEF Apart
<1>2. P \in SUBSET P
  OBVIOUS
<1>3. True # False /\ True # Null /\ False # Null
  BY ClassicalTold
<1>4. CASE \E G \in groups : Verdict(free, G, says) = False
  <2>1. PICK G \in groups : Verdict(free, G, says) = False
    BY <1>4
  <2>2. \A c \in SUBSET free : \E p \in P : says[c][p] = False
    BY <1>1, <2>1, VerdictTold
  <2>3. Verdict(free, P, says) = False
    BY <1>2, <2>2, VerdictTold
  <2> QED
    BY <2>1, <2>3
<1>5. CASE \A G \in groups : Verdict(free, G, says) # False
  \* The best choice for each group, and what they come to together.
  <2> DEFINE Best(G, c) == IF Verdict(free, G, says) = True THEN Holds(G, says, c)
                           ELSE LeftOpen(G, says, c)
  <2>1. \A G \in groups : \E c \in SUBSET free : Best(G, c)
    BY <1>1, <1>5, VerdictTold
  <2>2. PICK choice \in [groups -> SUBSET free] : \A G \in groups : Best(G, choice[G])
    <3>1. PICK ch : ch = [G \in groups |-> CHOOSE c \in SUBSET free : Best(G, c)]
      OBVIOUS
    <3> HIDE DEF Best
    <3>2. \A G \in groups : ch[G] \in SUBSET free /\ Best(G, ch[G])
      BY <2>1, <3>1
    <3>3. ch \in [groups -> SUBSET free]
      BY <3>1, <3>2
    <3> QED
      BY <3>2, <3>3
  <2> DEFINE Share(G) == {x \in choice[G] : \E p \in G : x \in reach[p]}
             joint == UNION {Share(G) : G \in groups}
  <2>3. joint \in SUBSET free
    BY <2>2
  <2>4. ASSUME NEW G \in groups, NEW p \in G
        PROVE  says[joint][p] = says[choice[G]][p]
    <3>1. p \in P
      BY <1>1
    <3>2. joint \cap reach[p] = choice[G] \cap reach[p]
      <4>1. \A x \in choice[G] \cap reach[p] : x \in Share(G)
        OBVIOUS
      <4>2. ASSUME NEW x \in joint \cap reach[p] PROVE x \in choice[G]
        <5>1. PICK H \in groups : x \in Share(H)
          OBVIOUS
        <5>2. PICK q \in H : x \in reach[q] /\ x \in choice[H]
          BY <5>1
        <5>3. H = G
          BY <5>2, <2>4, <4>2 DEF Apart
        <5> QED
          BY <5>2, <5>3
      <4> HIDE DEF Share
      <4> QED
        BY <4>1, <4>2
    <3>3. choice[G] \in SUBSET free
      BY <2>2
    <3> HIDE DEF joint
    <3> QED
      BY <2>3, <3>1, <3>2, <3>3 DEF Speaks
  <2> HIDE DEF joint
  <2>5. \A p \in P : \E G \in groups : p \in G
    BY DEF Apart
  <2>6. ASSUME NEW G \in groups, NEW p \in G
        PROVE  /\ says[joint][p] # False
               /\ Verdict(free, G, says) = True => says[joint][p] = True
    BY <1>3, <2>2, <2>4 DEF Holds, LeftOpen
  <2>7. CASE \E G \in groups : Verdict(free, G, says) = Null
    <3>1. PICK G \in groups : Verdict(free, G, says) = Null
      BY <2>7
    <3>2. PICK p \in G : says[choice[G]][p] = Null
      BY <1>3, <2>2, <3>1 DEF LeftOpen
    <3>3. says[joint][p] = Null /\ p \in P
      BY <1>1, <2>4, <3>2
    <3>4. \A q \in P : says[joint][q] # False
      BY <2>5, <2>6
    <3>5. LeftOpen(P, says, joint)
      BY <3>3, <3>4 DEF LeftOpen
    <3>6. \A c \in SUBSET free : ~Holds(P, says, c)
      <4>1. \A c \in SUBSET free : ~Holds(G, says, c)
        BY <1>1, <1>3, <3>1, VerdictTold
      <4> QED
        BY <1>1, <4>1 DEF Holds
    <3>7. Verdict(free, P, says) = Null
      BY <2>3, <3>5, <3>6 DEF Verdict
    <3> QED
      BY <1>5, <3>1, <3>7
  <2>8. CASE \A G \in groups : Verdict(free, G, says) # Null
    <3>1. \A G \in groups : Verdict(free, G, says) = True
      BY <1>1, <1>5, <2>8, VerdictTold
    <3>2. Holds(P, says, joint)
      BY <2>5, <2>6, <3>1 DEF Holds
    <3>3. Verdict(free, P, says) = True
      BY <2>3, <3>2 DEF Verdict
    <3> QED
      BY <1>5, <2>8, <3>3
  <2> QED
    BY <2>7, <2>8
<1> QED
  BY <1>4, <1>5

\* Two premises in one group: both reach a column, or both reach nothing.
Shares(reach, p, q) == reach[p] \cap reach[q] # {} \/ reach[p] = reach[q]
Sharing(P, reach, G) == {p \in P : \E q \in G : Shares(reach, p, q)}

\* Nothing in G is apart from the rest of it.
Bound(P, reach, G) ==
    \A Z \in SUBSET P : Sharing(P, reach, Z) \subseteq Z /\ Z \cap G # {} => G \subseteq Z

\* The groups after n rounds: each is complete, or has grown n times.
Grouped(P, reach, groups, n) ==
    /\ UNION groups = P
    /\ \A G \in groups :
        /\ G # {} /\ Bound(P, reach, G)
        /\ Sharing(P, reach, G) = G \/ n + 1 <= Cardinality(G)

LEMMA SharesBothWays ==
    ASSUME NEW P, NEW reach, NEW G \in SUBSET P
    PROVE  /\ G \subseteq Sharing(P, reach, G) /\ Sharing(P, reach, G) \subseteq P
           /\ \A p \in P : \A q \in P : Shares(reach, p, q) => Shares(reach, q, p)
  BY DEF Shares, Sharing

LEMMA GroupsStart ==
    ASSUME NEW P, IsFiniteSet(P), NEW reach
    PROVE  Grouped(P, reach, {{p} : p \in P}, 0)
<1>1. \A p \in P : Cardinality({p}) = 1
  BY FS_Singleton
<1> QED
  BY <1>1 DEF Grouped, Bound

LEMMA GroupsGrow ==
    ASSUME NEW P, IsFiniteSet(P), NEW reach, NEW groups, NEW n \in Nat,
           Grouped(P, reach, groups, n)
    PROVE  Grouped(P, reach, {Sharing(P, reach, G) : G \in groups}, n + 1)
<1>1. \A G \in groups : G \in SUBSET P
  BY DEF Grouped
<1>2. ASSUME NEW G \in groups
      PROVE  LET H == Sharing(P, reach, G)
             IN  /\ H # {} /\ G \subseteq H /\ H \subseteq P /\ Bound(P, reach, H)
                 /\ Sharing(P, reach, H) = H \/ n + 2 <= Cardinality(H)
  <2>1. PICK H : H = Sharing(P, reach, G)
    OBVIOUS
  <2>2. G \subseteq H /\ H \in SUBSET P /\ G # {} /\ Bound(P, reach, G)
    BY <1>1, <2>1, SharesBothWays DEF Grouped
  <2>3. Bound(P, reach, H)
    <3> SUFFICES ASSUME NEW Z \in SUBSET P, Sharing(P, reach, Z) \subseteq Z, Z \cap H # {}
                 PROVE  H \subseteq Z
      BY DEF Bound
    <3>1. PICK z \in Z, g \in G : Shares(reach, z, g)
      BY <2>1 DEF Sharing
    <3>2. g \in Z
      BY <1>1, <3>1, SharesBothWays DEF Sharing
    <3>3. G \subseteq Z
      BY <2>2, <3>2 DEF Bound
    <3> QED
      BY <2>1, <3>3 DEF Sharing
  <2>4. Sharing(P, reach, H) = H \/ n + 2 <= Cardinality(H)
    <3>1. CASE H = G
      BY <2>1, <3>1
    <3>2. CASE H # G
      <4>1. n + 1 <= Cardinality(G)
        BY <2>1, <3>2 DEF Grouped
      <4>2. IsFiniteSet(H) /\ IsFiniteSet(G)
        BY <2>2, FS_Subset
      <4>3. Cardinality(G) \in Nat /\ Cardinality(H) \in Nat
        BY <4>2, FS_CardinalityType
      <4>4. Cardinality(G) <= Cardinality(H) /\ Cardinality(G) # Cardinality(H)
        BY <2>2, <3>2, <4>2, FS_Subset
      <4> QED
        BY <4>1, <4>3, <4>4
    <3> QED
      BY <3>1, <3>2
  <2> QED
    BY <2>1, <2>2, <2>3, <2>4
<1>3. UNION {Sharing(P, reach, G) : G \in groups} = P
  <2>1. \A p \in P : \E G \in groups : p \in G
    BY DEF Grouped
  <2> QED
    BY <1>2, <2>1
<1>4. (n + 1) + 1 = n + 2
  OBVIOUS
<1> QED
  BY <1>2, <1>3, <1>4 DEF Grouped

\* After as many rounds as there are premises every group is complete.
LEMMA GroupsEnd ==
    ASSUME NEW P, IsFiniteSet(P), NEW reach, NEW groups,
           Grouped(P, reach, groups, Cardinality(P))
    PROVE  Apart(P, reach, groups)
<1>1. \A G \in groups : G \in SUBSET P
  BY DEF Grouped
<1>2. ASSUME NEW G \in groups PROVE Sharing(P, reach, G) = G
  <2>1. IsFiniteSet(G) /\ Cardinality(G) <= Cardinality(P)
    BY <1>1, FS_Subset
  <2>2. Cardinality(G) \in Nat /\ Cardinality(P) \in Nat
    BY <2>1, FS_CardinalityType
  <2> QED
    BY <2>1, <2>2 DEF Grouped
<1>3. ASSUME NEW G \in groups, NEW H \in groups, NEW p \in G, NEW q \in H,
             reach[p] \cap reach[q] # {}
      PROVE  G = H
  <2>1. p \in P /\ q \in P /\ Shares(reach, p, q) /\ Shares(reach, q, p)
    BY <1>1, <1>3 DEF Shares
  <2>2. q \in Sharing(P, reach, G)
    BY <2>1 DEF Sharing
  <2>3. q \in G
    BY <1>2, <2>2
  <2>4. H \subseteq G
    BY <1>1, <1>2, <2>3 DEF Grouped, Bound
  <2>5. G \subseteq H
    BY <1>1, <1>2, <2>3 DEF Grouped, Bound
  <2> QED
    BY <2>4, <2>5
<1> QED
  BY <1>3 DEF Apart, Grouped

LEMMA GroupsAreApart ==
    ASSUME NEW P, IsFiniteSet(P), NEW reach
    PROVE  Apart(P, reach, partitionIntoGroups(P, reach))
<1> DEFINE V == SUBSET SUBSET P
           x0 == {{p} : p \in P}
           N == [gs \in V |-> {Sharing(P, reach, G) : G \in gs}]
           at(g, n) == IF n = 0 THEN x0 ELSE {Sharing(P, reach, G) : G \in g[n - 1]}
           grown == CHOOSE g : g = [n \in Nat |-> at(g, n)]
<1>1. x0 \in V
  OBVIOUS
<1>2. N \in [V -> V]
  BY DEF Sharing
<1>3. PICK f \in [Nat -> V] : f = [n \in Nat |-> IF n = 0 THEN x0 ELSE N[f[n - 1]]]
  <2> HIDE DEF V, x0, N
  <2> QED
    BY <1>1, <1>2, Iteration
<1>4. f = [n \in Nat |-> at(f, n)]
  <2>1. \A n \in Nat : n # 0 => f[n - 1] \in V
    OBVIOUS
  <2>2. \A gs \in V : N[gs] = {Sharing(P, reach, G) : G \in gs}
    OBVIOUS
  <2>3. \A n \in Nat : f[n] = at(f, n)
    <3> HIDE DEF V, x0, N
    <3> QED
      BY <1>3, <2>1, <2>2
  <2> HIDE DEF V, x0, N, at
  <2> QED
    BY <1>3, <2>3
<1>5. grown = [n \in Nat |-> at(grown, n)]
  <2> HIDE DEF at
  <2> QED
    BY <1>4
<1>6. partitionIntoGroups(P, reach) = grown[Cardinality(P)]
  BY DEF partitionIntoGroups, Sharing, Shares
<1>7. PICK g : g = grown
  OBVIOUS
<1>8. g[0] = x0 /\ \A n \in Nat : g[n + 1] = {Sharing(P, reach, G) : G \in g[n]}
  <2> HIDE DEF grown, x0
  <2>1. \A n \in Nat : g[n] = at(g, n)
    <3> HIDE DEF at
    <3> QED
      BY <1>5, <1>7
  <2>2. \A n \in Nat : n + 1 \in Nat /\ n + 1 # 0 /\ (n + 1) - 1 = n
    OBVIOUS
  <2> QED
    BY <2>1, <2>2
<1> HIDE DEF grown
<1> DEFINE S == {n \in Nat : ~Grouped(P, reach, g[n], n)}
<1>9. S = {}
  <2> SUFFICES ASSUME S # {} PROVE FALSE
    OBVIOUS
  <2>1. PICK n \in S : \A m \in S : n <= m
    <3>1. S \in SUBSET Nat
      OBVIOUS
    <3> HIDE DEF S
    <3> QED
      BY <3>1, LeastNumber
  <2>2. n # 0
    BY <1>8, GroupsStart
  <2>3. PICK l \in Nat : n = l + 1 /\ ~(n <= l)
    <3>1. n - 1 \in Nat /\ n = (n - 1) + 1 /\ ~(n <= n - 1)
      BY <2>2
    <3> QED
      BY <3>1
  <2>4. Grouped(P, reach, g[l], l)
    BY <2>1, <2>3
  <2>5. Grouped(P, reach, g[n], n)
    BY <1>8, <2>3, <2>4, GroupsGrow
  <2> QED
    BY <2>5
<1>10. Cardinality(P) \in Nat
  BY FS_CardinalityType
<1> QED
  BY <1>6, <1>7, <1>9, <1>10, GroupsEnd

\* The premises p reads through its variables that are not in free.
readThrough(a, free, p) ==
    {a.binding[x].premise : x \in {y \in variablesOf(a, p) \ free : isInternal(a, y)}}
        \cap {q \in premisesOf(a) : ~isNakedQ(a, q)}

Reaches(a, free, reach) ==
    /\ reach \in [premisesOf(a) -> SUBSET free]
    /\ \A p \in premisesOf(a) :
          reach[p] = (variablesOf(a, p) \cap free) \cup UNION {reach[q] : q \in readThrough(a, free, p)}

LEMMA ReachResolves ==
    ASSUME NEW a, Loaded(a), NEW free
    PROVE  Reaches(a, free, collectReachable(a, free))
<1> DEFINE D == premisesOf(a)
           V == SUBSET free
           below == [p \in D |-> readThrough(a, free, p)]
           at(g, p) == (variablesOf(a, p) \cap free) \cup UNION {g[q] : q \in readThrough(a, free, p)}
           B == [g \in [D -> V] |-> [p \in D |-> at(g, p)]]
           F == CHOOSE g : g = [p \in D |-> at(g, p)]
<1>1. \A p \in D : readThrough(a, free, p) \subseteq D
  BY DEF readThrough
<1>2. Founded(D, below)
  <2> SUFFICES ASSUME NEW S \in SUBSET D, S # {}
               PROVE  \E p \in S : below[p] \cap S = {}
    BY DEF Founded
  <2>1. PICK p \in S : \A x \in variablesOf(a, p) : isInternal(a, x) => a.binding[x].premise \notin S
    BY DEF Loaded
  <2>2. readThrough(a, free, p) \cap S = {}
    BY <2>1 DEF readThrough
  <2> QED
    BY <2>2
<1>3. Total(D, V, B)
  <2>1. ASSUME NEW g \in [D -> V], NEW p \in D PROVE at(g, p) \in V
    BY <1>1
  <2> HIDE DEF at, D, V
  <2> QED
    BY <2>1 DEF Total
<1>4. Local(D, V, below, B)
  <2>1. ASSUME NEW g \in [D -> V], NEW h \in [D -> V], NEW p \in D,
               \A q \in below[p] \cap D : g[q] = h[q]
        PROVE  at(g, p) = at(h, p)
    <3>1. \A q \in readThrough(a, free, p) : g[q] = h[q]
      BY <1>1, <2>1
    <3> HIDE DEF B, below, D, V
    <3> QED
      BY <3>1
  <2>2. \A g \in [D -> V] : \A p \in D : B[g][p] = at(g, p)
    <3> HIDE DEF at, D, V
    <3> QED
      OBVIOUS
  <2> HIDE DEF B, at, below, D, V
  <2> QED
    BY <2>1, <2>2 DEF Local
<1>5. PICK f \in [D -> V] : f = B[f]
  <2>1. V # {}
    OBVIOUS
  <2> HIDE DEF B, D, V, below
  <2> QED
    BY <1>2, <1>3, <1>4, <2>1, Recursion
<1>6. f = [p \in D |-> at(f, p)]
  <2> HIDE DEF at, D, V
  <2> QED
    BY <1>5
<1>7. F = [p \in D |-> at(F, p)]
  <2> HIDE DEF at
  <2> QED
    BY <1>6
<1>8. F \in [D -> V]
  \* No premise is the first at which F is not a set of columns.
  <2> DEFINE S == {p \in D : ~(F[p] \in V)}
  <2>1. S = {}
    <3> SUFFICES ASSUME S # {} PROVE FALSE
      OBVIOUS
    <3>0. S \in SUBSET D
      OBVIOUS
    <3>1. PICK p \in S : below[p] \cap S = {}
      BY <1>2, <3>0 DEF Founded
    <3>2. \A q \in readThrough(a, free, p) : F[q] \in V
      <4> HIDE DEF F
      <4> QED
        BY <1>1, <3>1
    <3>3. F[p] = at(F, p)
      <4> HIDE DEF F, at
      <4> QED
        BY <1>7, <3>1
    <3> HIDE DEF F
    <3>4. at(F, p) \in V
      BY <3>2
    <3> QED
      BY <3>1, <3>3, <3>4
  <2>2. \A p \in D : F[p] \in V
    BY <2>1
  <2> HIDE DEF F, at, V
  <2> QED
    BY <1>7, <2>2
<1>9. collectReachable(a, free) = F
  BY DEF collectReachable, readThrough
<1>10. \A p \in D : F[p] = at(F, p)
  <2> HIDE DEF F, at
  <2> QED
    BY <1>7
<1> HIDE DEF F
<1> QED
  BY <1>8, <1>9, <1>10 DEF Reaches

\* A row of a table over columns: the sources true, the columns in chosen true.
rowFor(a, columns, chosen) ==
    [x \in DOMAIN a.binding |->
        IF x \in grounded(a) THEN True
        ELSE IF x \in columns THEN IF x \in chosen THEN True ELSE False
        ELSE Null]

LEMMA RowTold ==
    ASSUME NEW a, NEW columns, NEW chosen
    PROVE  /\ Readable(a, rowFor(a, columns, chosen))
           /\ \A x \in DOMAIN a.binding :
                 /\ rowFor(a, columns, chosen)[x] \in Four
                 /\ Clean(rowFor(a, columns, chosen)[x])
<1>1. \A x \in DOMAIN a.binding : rowFor(a, columns, chosen)[x] \in {True, False, Null}
  BY DEF rowFor
<1>2. \A v \in {True, False, Null} : v \in Four /\ Clean(v)
  BY DEF True, False, Null, Four, Clean
<1> QED
  BY <1>1, <1>2 DEF Readable

\* Two choices are alike on the columns in C, which both tables have.
AlikeOn(C, columns, chosen, wolumns, whosen) ==
    C \subseteq columns \cap wolumns /\ C \cap chosen = C \cap whosen

\* What a premise reaches decides what it says.
LEMMA RowsAgree ==
    ASSUME NEW a, Loaded(a), validateEvaluability(a),
           NEW reach, Reaches(a, checkedVariables(a), reach),
           NEW C, NEW columns, NEW chosen, NEW wolumns, NEW whosen,
           AlikeOn(C, columns, chosen, wolumns, whosen),
           NEW p \in visiblePremises(a), reach[p] \subseteq C
    PROVE  /\ evaluatePremises(a, rowFor(a, columns, chosen))[a.root[p]]
                 = evaluatePremises(a, rowFor(a, wolumns, whosen))[a.root[p]]
           /\ evaluatePremises(a, rowFor(a, columns, chosen))[a.root[p]] \in {True, False, Null}
<1> DEFINE R == {e \in Seen(a) : reach[a.expr[e].premise] \subseteq C}
<1>1. PICK v, w : v = rowFor(a, columns, chosen) /\ w = rowFor(a, wolumns, whosen)
  OBVIOUS
<1>2. PICK f, g : f = evaluatePremises(a, v) /\ g = evaluatePremises(a, w)
  OBVIOUS
<1>3. /\ Readable(a, v) /\ Readable(a, w)
      /\ \A x \in DOMAIN a.binding : v[x] \in Four /\ w[x] \in Four /\ Clean(v[x])
  BY <1>1, RowTold
<1>4. ValuesOf(a, TRUE, v, f) /\ ValuesOf(a, TRUE, w, g)
  BY <1>2, <1>3, PremiseValues
<1>5. ASSUME NEW e \in R, NEW q, q = a.expr[e].premise
      PROVE  /\ e \in Seen(a) /\ e \in DOMAIN a.expr /\ q \in visiblePremises(a) /\ q \in premisesOf(a)
             /\ reach[q] \subseteq C
             /\ kindOf(a, e) = "variable" => variableOf(a, e) \in variablesOf(a, q)
             /\ kindOf(a, e) = "variable" => variableOf(a, e) \in DOMAIN a.binding
  <2>1. e \in Seen(a) /\ e \in DOMAIN a.expr /\ q \in visiblePremises(a) /\ reach[q] \subseteq C
    BY <1>5 DEF Seen
  <2>2. kindOf(a, e) = "variable" => variableOf(a, e) \in variablesOf(a, q)
    BY <1>5, <2>1 DEF variableOf, variablesOf, expressionsIn
  <2>3. kindOf(a, e) = "variable" => variableOf(a, e) \in DOMAIN a.binding
    BY <2>1 DEF Loaded, variableOf
  <2> QED
    BY <2>1, <2>2, <2>3 DEF visiblePremises
<1>6. Covers(a, TRUE, R)
  <2> SUFFICES ASSUME NEW e \in R, NEW d \in usedBy(a, TRUE, e) PROVE d \in R
    BY DEF Covers, Seen
  <2>1. PICK q : q = a.expr[e].premise
    OBVIOUS
  <2>2. d \in Seen(a)
    BY <1>5, <2>1, SeenIsClosed
  <2>3. CASE kindOf(a, e) # "variable"
    <3>e. e \in DOMAIN a.expr /\ d \in Range(kids(a, e))
      BY <1>5, <2>3 DEF usedBy
    <3>1. \A k \in Range(kids(a, e)) : a.expr[k].premise = a.expr[e].premise
      <4>1. TRUE \in BOOLEAN
        OBVIOUS
      <4> QED
        BY <3>e, <4>1, UsesResolve
    <3>2. a.expr[d].premise = q
      BY <2>1, <3>e, <3>1
    <3> QED
      BY <1>5, <2>1, <2>2, <3>2
  <2>4. CASE standsFor(a, TRUE, e) /\ seen(a, boundTo(a, e))
    <3>1. PICK b : b = boundTo(a, e)
      OBVIOUS
    <3>2. d = a.root[b]
      BY <2>4, <3>1 DEF usedBy, standsFor
    <3>3. a.root[b] \in expressionsIn(a, b)
      BY <2>4, <3>1 DEF seen, Loaded
    <3>4. a.expr[d].premise = b
      BY <3>2, <3>3 DEF expressionsIn
    <3>5. variableOf(a, e) \notin checkedVariables(a)
      BY <2>4 DEF checkedVariables, referencedVariables, standsFor
    <3>6. b \in readThrough(a, checkedVariables(a), q)
      <4>1. variableOf(a, e) \in variablesOf(a, q) /\ isInternal(a, variableOf(a, e))
        BY <1>5, <2>1, <2>4 DEF standsFor
      <4>2. b = a.binding[variableOf(a, e)].premise
        BY <3>1 DEF boundTo
      <4> QED
        BY <2>4, <3>1, <3>5, <4>1, <4>2 DEF readThrough, seen
    <3>7. reach[b] \subseteq reach[q]
      BY <1>5, <2>1, <3>6 DEF Reaches
    <3> QED
      BY <1>5, <2>1, <2>2, <3>4, <3>7
  <2> QED
    BY <2>3, <2>4 DEF usedBy
<1>7. ASSUME NEW e \in R, isRead(a, TRUE, e)
      PROVE  LET x == variableOf(a, e)
             IN  v[x] \in Four /\ w[x] \in Four /\ v[x] = w[x] /\ Clean(v[x])
  <2>1. PICK q, x : q = a.expr[e].premise /\ x = variableOf(a, e)
    OBVIOUS
  <2>2. x \in variablesOf(a, q) /\ x \in DOMAIN a.binding
    BY <1>5, <1>7, <2>1 DEF isRead
  <2>3. x \in referencedVariables(a)
    BY <1>5, <1>7, <2>1, SeenIsClosed
  <2>4. x \notin grounded(a) => x \in C
    <3>1. x \notin grounded(a) => x \in variablesOf(a, q) \cap checkedVariables(a)
      BY <2>2, <2>3 DEF checkedVariables
    <3>2. variablesOf(a, q) \cap checkedVariables(a) \subseteq reach[q]
      BY <1>5, <2>1 DEF Reaches
    <3> QED
      BY <1>5, <2>1, <3>1, <3>2
  <2>5. v[x] = w[x]
    BY <1>1, <2>2, <2>4 DEF rowFor, AlikeOn
  <2> QED
    BY <1>3, <2>1, <2>2, <2>5
<1>8. NoLess(a, TRUE, R, v, w) /\ NoLess(a, TRUE, R, w, v) /\ ReadsClean(a, TRUE, R, v)
  BY <1>7 DEF NoLess, ReadsClean
<1>9. a.root[p] \in R
  <2>1. a.root[p] \in Seen(a)
    BY RootSeen
  <2>2. a.expr[a.root[p]].premise = p
    BY <2>1 DEF Seen, Loaded, visiblePremises, validateEvaluability, validatePremiseEvaluability, expressionsIn
  <2> QED
    BY <2>1, <2>2
<1> HIDE DEF R
<1>10. \A e \in R : f[e] \in Four /\ g[e] \in Four /\ f[e] \subseteq g[e]
  BY <1>4, <1>6, <1>8, ValuesKeep
<1>c. \A e \in R : Clean(f[e])
  BY <1>4, <1>6, <1>8, ValuesKeep
<1>11. \A e \in R : g[e] \subseteq f[e]
  BY <1>4, <1>6, <1>8, ValuesKeep
<1>12. f[a.root[p]] = g[a.root[p]] /\ f[a.root[p]] \in Four /\ Clean(f[a.root[p]])
  BY <1>9, <1>10, <1>11, <1>c
<1>13. \A u \in Four : Clean(u) => u \in {True, False, Null}
  BY DEF Four, Clean, True, False, Null
<1> QED
  BY <1>1, <1>2, <1>12, <1>13

\* What each premise says under each choice of all the columns.
saidBy(a, P) ==
    [c \in SUBSET checkedVariables(a) |->
        [p \in P |-> evaluatePremises(a, rowFor(a, checkedVariables(a), c))[a.root[p]]]]

LEMMA SaidSpeaks ==
    ASSUME NEW a, Loaded(a), validateEvaluability(a),
           NEW reach, Reaches(a, checkedVariables(a), reach),
           NEW P \in SUBSET visiblePremises(a)
    PROVE  Speaks(checkedVariables(a), P, reach, saidBy(a, P))
<1>1. PICK free : free = checkedVariables(a)
  OBVIOUS
<1>2. \A p \in P : p \in visiblePremises(a) /\ p \in premisesOf(a) /\ reach[p] \subseteq free
  BY <1>1 DEF Reaches, visiblePremises
<1>3. ASSUME NEW c \in SUBSET free, NEW d \in SUBSET free, NEW p \in P,
             c \cap reach[p] = d \cap reach[p]
      PROVE  /\ saidBy(a, P)[c][p] \in {True, False, Null}
             /\ saidBy(a, P)[c][p] = saidBy(a, P)[d][p]
  <2>1. PICK C : C = reach[p]
    OBVIOUS
  <2>2. AlikeOn(C, free, c, free, d)
    BY <1>2, <1>3, <2>1 DEF AlikeOn
  <2>3. /\ evaluatePremises(a, rowFor(a, free, c))[a.root[p]]
              = evaluatePremises(a, rowFor(a, free, d))[a.root[p]]
        /\ evaluatePremises(a, rowFor(a, free, c))[a.root[p]] \in {True, False, Null}
    <3>1. Reaches(a, checkedVariables(a), reach) /\ p \in visiblePremises(a) /\ reach[p] \subseteq C
      BY <1>2, <2>1
    <3> QED
      BY <2>2, <3>1, RowsAgree
  <2> QED
    BY <1>1, <2>3 DEF saidBy
<1> QED
  BY <1>1, <1>2, <1>3 DEF Speaks

\* The walk over a group's own columns answers as one over all columns.
LEMMA WalkIsVerdict ==
    ASSUME NEW a, Loaded(a), validateEvaluability(a),
           NEW reach, Reaches(a, checkedVariables(a), reach),
           NEW P \in SUBSET visiblePremises(a), NEW G \in SUBSET P
    PROVE  LET columns == UNION {reach[p] : p \in G}
           IN  walkGroup(a, G, columns, grounded(a)) =
                  IF Cardinality(columns) > Ceiling THEN Null
                  ELSE Verdict(checkedVariables(a), G, saidBy(a, P))
<1>1. PICK free, columns, says : /\ free = checkedVariables(a) /\ says = saidBy(a, P)
                                 /\ columns = UNION {reach[p] : p \in G}
  OBVIOUS
<1>2. \A p \in G : p \in visiblePremises(a) /\ p \in premisesOf(a) /\ reach[p] \subseteq columns
  BY <1>1 DEF visiblePremises
<1>3. columns \subseteq free
  BY <1>1, <1>2 DEF Reaches
<1> DEFINE at(c, p) == evaluatePremises(a, rowFor(a, columns, c))[a.root[p]]
           values(c) == {at(c, p) : p \in G}
           results == {values(c) : c \in SUBSET columns}
<1>4. ASSUME NEW c \in SUBSET free, NEW p \in G
      PROVE  at(c \cap columns, p) = says[c][p]
  <2>1. PICK d : d = c \cap columns
    OBVIOUS
  <2>2. AlikeOn(columns, columns, d, free, c)
    BY <1>3, <2>1 DEF AlikeOn
  <2>3. at(d, p) = evaluatePremises(a, rowFor(a, free, c))[a.root[p]]
    <3>1. /\ Reaches(a, checkedVariables(a), reach)
          /\ p \in visiblePremises(a) /\ reach[p] \subseteq columns
      BY <1>2
    <3> QED
      BY <2>2, <3>1, RowsAgree
  <2> QED
    BY <1>1, <2>1, <2>3 DEF saidBy
<1>5. walkGroup(a, G, columns, grounded(a)) =
        IF Cardinality(columns) > Ceiling THEN Null
        ELSE IF \E vs \in results : vs \subseteq {True} THEN True
        ELSE IF \E vs \in results : False \notin vs /\ Null \in vs THEN Null
        ELSE False
  BY DEF walkGroup, rowFor
<1>6. (\E vs \in results : vs \subseteq {True}) <=> \E c \in SUBSET free : Holds(G, says, c)
  <2>1. ASSUME NEW c \in SUBSET columns, values(c) \subseteq {True}
        PROVE  \E d \in SUBSET free : Holds(G, says, d)
    <3>1. c \in SUBSET free /\ c \cap columns = c
      BY <1>3
    <3>2. \A p \in G : at(c, p) = True
      BY <2>1
    <3> HIDE DEF at
    <3>3. \A p \in G : says[c][p] = True
      BY <1>4, <3>1, <3>2
    <3> QED
      BY <3>1, <3>3 DEF Holds
  <2>2. ASSUME NEW c \in SUBSET free, Holds(G, says, c)
        PROVE  \E vs \in results : vs \subseteq {True}
    <3>1. PICK d \in SUBSET columns : d = c \cap columns
      OBVIOUS
    <3> HIDE DEF at
    <3>2. \A p \in G : at(d, p) = True
      BY <1>4, <2>2, <3>1 DEF Holds
    <3>3. values(d) \subseteq {True} /\ values(d) \in results
      BY <3>2
    <3> QED
      BY <3>3
  <2> QED
    BY <2>1, <2>2
<1>7. (\E vs \in results : False \notin vs /\ Null \in vs) <=> \E c \in SUBSET free : LeftOpen(G, says, c)
  <2>1. ASSUME NEW c \in SUBSET columns, False \notin values(c), Null \in values(c)
        PROVE  \E d \in SUBSET free : LeftOpen(G, says, d)
    <3>1. c \in SUBSET free /\ c \cap columns = c
      BY <1>3
    <3> HIDE DEF at
    <3>2. (\A p \in G : at(c, p) # False) /\ (\E p \in G : at(c, p) = Null)
      BY <2>1
    <3>3. \A p \in G : says[c][p] = at(c, p)
      BY <1>4, <3>1
    <3> QED
      BY <3>1, <3>2, <3>3 DEF LeftOpen
  <2>2. ASSUME NEW c \in SUBSET free, LeftOpen(G, says, c)
        PROVE  \E vs \in results : False \notin vs /\ Null \in vs
    <3>1. PICK d \in SUBSET columns : d = c \cap columns
      OBVIOUS
    <3> HIDE DEF at
    <3>2. \A p \in G : at(d, p) = says[c][p]
      BY <1>4, <3>1
    <3>3. False \notin values(d) /\ Null \in values(d) /\ values(d) \in results
      BY <2>2, <3>2 DEF LeftOpen
    <3> QED
      BY <3>3
  <2> QED
    BY <2>1, <2>2
<1> HIDE DEF results
<1> QED
  BY <1>1, <1>5, <1>6, <1>7 DEF Verdict

\* One walk over all the columns.
LEMMA FlatIsVerdict ==
    ASSUME NEW a, Loaded(a), validateEvaluability(a),
           NEW reach, Reaches(a, checkedVariables(a), reach),
           NEW P \in SUBSET visiblePremises(a)
    PROVE  flatWalk(a, P) = Verdict(checkedVariables(a), P, saidBy(a, P))
<1>1. PICK free, says : free = checkedVariables(a) /\ says = saidBy(a, P)
  OBVIOUS
<1> DEFINE row(c) == [x \in argumentVariables(a) |->
                        IF x \in grounded(a) THEN True ELSE IF x \notin free THEN Null
                        ELSE IF x \in c THEN True ELSE False]
           answer(r) == conjunction({evaluatePremises(a, r)[a.root[p]] : p \in P})
           answered == {answer(r) : r \in {row(c) : c \in SUBSET free}}
           joined(c) == conjunction({says[c][p] : p \in P})
<1>2. \A c \in SUBSET free : row(c) = rowFor(a, free, c)
  BY DEF rowFor, argumentVariables
<1>3. ASSUME NEW c \in SUBSET free PROVE answer(row(c)) = joined(c)
  <2>1. \A p \in P : says[c][p] = evaluatePremises(a, row(c))[a.root[p]]
    <3> HIDE DEF row
    <3> QED
      BY <1>1, <1>2 DEF saidBy
  <2> HIDE DEF row
  <2> QED
    BY <2>1
<1>4. answered = {joined(c) : c \in SUBSET free}
  <2> HIDE DEF answer, row, joined
  <2> QED
    BY <1>3
<1>5. flatWalk(a, P) = IF True \in answered THEN True ELSE IF Null \in answered THEN Null ELSE False
  BY <1>1 DEF flatWalk, checkedVariables
<1>6. ASSUME NEW c \in SUBSET free
      PROVE  /\ joined(c) = True <=> Holds(P, says, c)
             /\ joined(c) = Null <=> LeftOpen(P, says, c)
  <2>1. \A p \in P : says[c][p] \in {True, False, Null}
    BY <1>1, SaidSpeaks DEF Speaks
  <2>2. PICK v : v = joined(c)
    OBVIOUS
  <2>3. /\ v \in Four
        /\ "t" \in v <=> \A p \in P : "t" \in says[c][p]
        /\ "f" \in v <=> \E p \in P : "f" \in says[c][p]
    BY <2>2, ConjunctionTold
  <2>4. \A u \in {True, False, Null} : ("t" \in u <=> u = True) /\ ("f" \in u <=> u = False)
    BY DEF True, False, Null
  <2>5. "t" \in v <=> Holds(P, says, c)
    BY <2>1, <2>3, <2>4 DEF Holds
  <2>6. "f" \in v <=> \E p \in P : says[c][p] = False
    BY <2>1, <2>3, <2>4
  <2>7. (v = True <=> "t" \in v /\ "f" \notin v) /\ (v = Null <=> "t" \notin v /\ "f" \notin v)
    BY <2>3 DEF Four, True, Null
  <2>8. True # False /\ True # Null /\ False # Null
    BY ClassicalTold
  <2> HIDE DEF joined
  <2> QED
    BY <2>1, <2>2, <2>5, <2>6, <2>7, <2>8 DEF Holds, LeftOpen
<1> HIDE DEF answered, joined
<1>7. True \in answered <=> \E c \in SUBSET free : Holds(P, says, c)
  BY <1>4, <1>6
<1>8. Null \in answered <=> \E c \in SUBSET free : LeftOpen(P, says, c)
  BY <1>4, <1>6
<1> QED
  BY <1>1, <1>5, <1>7, <1>8 DEF Verdict

LEMMA SplitIsFlat ==
    ASSUME NEW a, Loaded(a), validateEvaluability(a), NEW P \in SUBSET visiblePremises(a)
    PROVE  LET answer == isPremiseSetSatisfiable(a, P, referencedVariables(a), grounded(a))
               reach == collectReachable(a, checkedVariables(a))
           IN  \/ answer = flatWalk(a, P)
               \/ answer = Null /\ Cardinality(UNION {reach[p] : p \in P}) > Ceiling
<1>1. PICK free, reach, says : /\ free = checkedVariables(a)
                               /\ reach = collectReachable(a, free)
                               /\ says = saidBy(a, P)
  OBVIOUS
<1>2. Reaches(a, free, reach)
  BY <1>1, ReachResolves
<1>3. IsFiniteSet(P)
  <2>1. P \in SUBSET premisesOf(a) /\ IsFiniteSet(premisesOf(a))
    BY DEF visiblePremises, Loaded
  <2> QED
    BY <2>1, FS_Subset
<1>4. PICK groups : groups = partitionIntoGroups(P, reach)
  OBVIOUS
<1>5. Apart(P, reach, groups)
  BY <1>3, <1>4, GroupsAreApart
<1> DEFINE columns(G) == UNION {reach[p] : p \in G}
           settled == {walkGroup(a, G, columns(G), grounded(a)) : G \in groups}
           verdicts == {Verdict(free, G, says) : G \in groups}
<1>6. isPremiseSetSatisfiable(a, P, referencedVariables(a), grounded(a)) =
        IF False \in settled THEN False ELSE IF Null \in settled THEN Null ELSE True
  BY <1>1, <1>4 DEF isPremiseSetSatisfiable, checkedVariables
<1>7. flatWalk(a, P) = IF False \in verdicts THEN False ELSE IF Null \in verdicts THEN Null ELSE True
  <2>1. flatWalk(a, P) = Verdict(free, P, says)
    BY <1>1, <1>2, FlatIsVerdict
  <2>2. Speaks(free, P, reach, says)
    BY <1>1, <1>2, SaidSpeaks
  <2> QED
    BY <1>5, <2>1, <2>2, VerdictsCombine
<1>8. \A G \in groups : G \in SUBSET P
  BY <1>5 DEF Apart
<1>9. \A G \in groups : walkGroup(a, G, columns(G), grounded(a)) =
                           IF Cardinality(columns(G)) > Ceiling THEN Null ELSE Verdict(free, G, says)
  BY <1>1, <1>2, <1>8, WalkIsVerdict
<1>10. True # False /\ True # Null /\ False # Null
  BY ClassicalTold
<1>11. CASE \A G \in groups : ~(Cardinality(columns(G)) > Ceiling)
  <2> HIDE DEF columns
  <2>1. settled = verdicts
    BY <1>9, <1>11
  <2> QED
    BY <1>6, <1>7, <2>1
<1>12. CASE False \in settled
  <2> HIDE DEF columns
  <2>1. False \in verdicts
    BY <1>9, <1>10, <1>12
  <2> QED
    BY <1>6, <1>7, <1>12, <2>1
<1>13. CASE False \notin settled /\ \E G \in groups : Cardinality(columns(G)) > Ceiling
  <2>1. PICK G \in groups : Cardinality(columns(G)) > Ceiling
    BY <1>13
  <2>2. Null \in settled
    <3> HIDE DEF columns
    <3> QED
      BY <1>9, <2>1
  <2>3. PICK few, all : few = columns(G) /\ all = UNION {reach[p] : p \in P}
    OBVIOUS
  <2>4. few \in SUBSET all
    BY <1>8, <2>3
  <2>5. IsFiniteSet(all)
    <3>1. \A p \in P : reach[p] \subseteq free
      BY <1>2 DEF Reaches, visiblePremises
    <3>2. all \in SUBSET DOMAIN a.binding
      BY <1>1, <2>3, <3>1, ColumnsBound DEF checkedVariables, argumentVariables
    <3> QED
      BY <3>2, FS_Subset DEF Loaded
  <2>6. IsFiniteSet(few) /\ Cardinality(few) <= Cardinality(all)
    BY <2>4, <2>5, FS_Subset
  <2>7. Cardinality(few) \in Nat /\ Cardinality(all) \in Nat /\ Ceiling \in Nat
    BY <2>5, <2>6, FS_CardinalityType, EvaluationAssumption
  <2>8. Cardinality(all) > Ceiling
    BY <2>1, <2>3, <2>6, <2>7
  <2> HIDE DEF settled
  <2> QED
    BY <1>1, <1>6, <1>13, <2>2, <2>3, <2>8
<1> QED
  BY <1>11, <1>12, <1>13

(***************************************************************************)
(* Splitting the premises into groups that share no variable answers as    *)
(* one walk over all the columns would: "every reduction here is           *)
(* answer-preserving", for any argument, the ceiling apart.                *)
(***************************************************************************)
THEOREM SplittingPreserves == EvaluationSpec => []SearchMatchesFlatWalk
<1>1. EvaluationInv => SearchMatchesFlatWalk
  <2> SUFFICES ASSUME EvaluationInv, reported PROVE SearchMatchesFlatWalk
    BY DEF SearchMatchesFlatWalk
  <2>1. PICK a, P : /\ a = argument
                    /\ P = (listSupportingPremises(a) \cup constraintPremises(a)) \ report.struck
    OBVIOUS
  <2>2. Loaded(a) /\ validateEvaluability(a)
    BY <2>1, EvaluationAssumption
    DEF EvaluationInv, EvaluationTypes, OnlyEvaluable, reported
  <2>3. P \in SUBSET visiblePremises(a)
    BY <2>1 DEF listSupportingPremises, constraintPremises
  <2>4. report.satisfiable = isPremiseSetSatisfiable(a, P, referencedVariables(a), grounded(a))
    BY <2>1 DEF EvaluationInv, ReportTells, satisfiable
  <2>5. LET reach == collectReachable(a, checkedVariables(a))
        IN  \/ report.satisfiable = flatWalk(a, P)
            \/ report.satisfiable = Null /\ Cardinality(UNION {reach[p] : p \in P}) > Ceiling
    BY <2>2, <2>3, <2>4, SplitIsFlat
  <2> QED
    BY <2>1, <2>5 DEF SearchMatchesFlatWalk, checkedVariables
<1> QED
  BY <1>1, EvaluationInvariant, PTL

(***************************************************************************)
(* Sorting a finite set by distinct ranks.                                 *)
(***************************************************************************)
\* S in the order of its ranks, each element once.
Ascending(s, n, rank, S) ==
    /\ s \in [1 .. n -> S]
    /\ \A x \in S : \E k \in 1 .. n : s[k] = x
    /\ \A j, k \in 1 .. n : j < k => rank[s[j]] < rank[s[k]]

\* The lowest element goes before the others.
LEMMA LowestFirst ==
    ASSUME NEW S, NEW rank, NEW n \in Nat, NEW low \in S, NEW s,
           Ascending(s, n, rank, S \ {low}),
           \A x \in S \ {low} : rank[low] < rank[x]
    PROVE  \E t : Ascending(t, n + 1, rank, S)
<1> DEFINE t == [k \in 1 .. n + 1 |-> IF k = 1 THEN low ELSE s[k - 1]]
<1>1. \A k \in 1 .. n + 1 : k # 1 => k - 1 \in 1 .. n
  OBVIOUS
<1>2. \A k \in 1 .. n : s[k] \in S \ {low}
  BY DEF Ascending
<1>3. t \in [1 .. n + 1 -> S]
  BY <1>1, <1>2
<1>4. ASSUME NEW x \in S
      PROVE  \E k \in 1 .. n + 1 : t[k] = x
  <2>1. CASE x = low
    <3>1. 1 \in 1 .. n + 1
      OBVIOUS
    <3> QED
      BY <2>1, <3>1
  <2>2. CASE x # low
    <3>1. PICK k \in 1 .. n : s[k] = x
      BY <2>2 DEF Ascending
    <3>2. k + 1 \in 1 .. n + 1 /\ k + 1 # 1 /\ (k + 1) - 1 = k
      OBVIOUS
    <3>3. t[k + 1] = x
      BY <3>1, <3>2
    <3> QED
      BY <3>2, <3>3
  <2> QED
    BY <2>1, <2>2
<1>5. ASSUME NEW j \in 1 .. n + 1, NEW k \in 1 .. n + 1, j < k
      PROVE  rank[t[j]] < rank[t[k]]
  <2>1. k # 1 /\ k - 1 \in 1 .. n /\ t[k] = s[k - 1]
    BY <1>1, <1>5
  <2>2. CASE j = 1
    BY <1>2, <2>1, <2>2
  <2>3. CASE j # 1
    <3>1. j - 1 \in 1 .. n /\ t[j] = s[j - 1] /\ j - 1 < k - 1
      BY <1>1, <1>5, <2>3
    <3> HIDE DEF t
    <3> QED
      BY <2>1, <3>1 DEF Ascending
  <2> QED
    BY <2>2, <2>3
<1> HIDE DEF t
<1> QED
  BY <1>3, <1>4, <1>5 DEF Ascending

LEMMA SortedExists ==
    ASSUME NEW rank
    PROVE  \A n \in Nat : \A S : 
             (/\ IsFiniteSet(S) /\ Cardinality(S) = n
              /\ \A x, y \in S : rank[x] \in Nat /\ (rank[x] = rank[y] => x = y))
             => \E s : Ascending(s, n, rank, S)
<1> DEFINE Fits(n, S) == /\ IsFiniteSet(S) /\ Cardinality(S) = n
                         /\ \A x, y \in S : rank[x] \in Nat /\ (rank[x] = rank[y] => x = y)
           Bad == {n \in Nat : \E S : Fits(n, S) /\ ~ \E s : Ascending(s, n, rank, S)}
<1>1. Bad = {}
  <2> SUFFICES ASSUME Bad # {} PROVE FALSE
    OBVIOUS
  <2>1. PICK n \in Bad : \A m \in Bad : n <= m
    <3>1. Bad \in SUBSET Nat
      OBVIOUS
    <3> HIDE DEF Bad
    <3> QED
      BY <3>1, LeastNumber
  <2>2. PICK S : Fits(n, S) /\ ~ \E s : Ascending(s, n, rank, S)
    BY <2>1
  <2>3. n \in Nat
    BY <2>1
  <2>4. S # {}
    <3> SUFFICES ASSUME S = {} PROVE FALSE
      OBVIOUS
    <3>1. n = 0
      BY <2>2, FS_EmptySet
    <3>2. Ascending(<< >>, 0, rank, S)
      BY DEF Ascending
    <3> QED
      BY <2>2, <3>1, <3>2
  <2>5. PICK low \in S : \A x \in S \ {low} : rank[low] < rank[x]
    <3> DEFINE T == {rank[x] : x \in S}
    <3>1. T \in SUBSET Nat /\ T # {}
      BY <2>2, <2>4
    <3>2. PICK m \in T : \A k \in T : m <= k
      <4> HIDE DEF T
      <4> QED
        BY <3>1, LeastNumber
    <3>3. PICK low \in S : rank[low] = m
      BY <3>2
    <3>4. ASSUME NEW x \in S \ {low} PROVE rank[low] < rank[x]
      <4>1. rank[x] \in T /\ rank[x] \in Nat /\ rank[low] \in Nat /\ rank[x] # rank[low]
        BY <2>2
      <4>2. m <= rank[x]
        BY <3>2, <4>1
      <4> QED
        BY <3>3, <4>1, <4>2
    <3> QED
      BY <3>4
  <2>6. IsFiniteSet(S \ {low}) /\ Cardinality(S \ {low}) = n - 1 /\ n - 1 \in Nat /\ (n - 1) + 1 = n /\ ~(n <= n - 1)
    <3>1. IsFiniteSet(S \ {low}) /\ Cardinality(S \ {low}) = Cardinality(S) - 1
      BY <2>2, FS_RemoveElement
    <3>2. Cardinality(S \ {low}) \in Nat
      BY <3>1, FS_CardinalityType
    <3> QED
      BY <2>2, <2>3, <3>1, <3>2
  <2>7. Fits(n - 1, S \ {low})
    BY <2>2, <2>6
  <2>8. n - 1 \notin Bad
    <3> HIDE DEF Bad
    <3> QED
      BY <2>1, <2>6
  <2>9. PICK s : Ascending(s, n - 1, rank, S \ {low})
    <3> HIDE DEF Fits
    <3> QED
      BY <2>6, <2>7, <2>8
  <2>10. \E t : Ascending(t, (n - 1) + 1, rank, S)
    BY <2>5, <2>6, <2>9, LowestFirst
  <2> QED
    BY <2>2, <2>6, <2>10
<1> QED
  BY <1>1

\* Premises with distinct ranks are listed, each once.
LEMMA InOrderIs ==
    ASSUME NEW a, NEW S, IsFiniteSet(S),
           \A x, y \in S : a.premiseRank[x] \in Nat
                           /\ (a.premiseRank[x] = a.premiseRank[y] => x = y)
    PROVE  /\ inOrder(a, S) \in [1 .. Cardinality(S) -> S]
           /\ \A x \in S : \E k \in 1 .. Cardinality(S) : inOrder(a, S)[k] = x
           /\ \A j, k \in 1 .. Cardinality(S) : inOrder(a, S)[j] = inOrder(a, S)[k] => j = k
<1> DEFINE n == Cardinality(S)
           rank == a.premiseRank
           order(s) == \A j, k \in DOMAIN s : j < k => a.premiseRank[s[j]] < a.premiseRank[s[k]]
<1>1. n \in Nat
  BY FS_CardinalityType
<1>2. PICK s : Ascending(s, n, rank, S)
  <2>1. \A x, y \in S : rank[x] \in Nat /\ (rank[x] = rank[y] => x = y)
    OBVIOUS
  <2> HIDE DEF rank
  <2> QED
    BY <1>1, <2>1, SortedExists
<1>3. s \in SetToSeqs(S)
  <2>1. ASSUME NEW j \in 1 .. n, NEW k \in 1 .. n, j # k PROVE s[j] # s[k]
    <3>1. rank[s[j]] \in Nat /\ rank[s[k]] \in Nat
      BY <1>2 DEF Ascending
    <3>2. j < k \/ k < j
      BY <1>1, <2>1
    <3>3. rank[s[j]] < rank[s[k]] \/ rank[s[k]] < rank[s[j]]
      BY <1>2, <3>2 DEF Ascending
    <3> HIDE DEF rank
    <3> QED
      BY <3>1, <3>3
  <2> QED
    BY <1>2, <2>1 DEF Ascending, SetToSeqs
<1>4. order(s)
  BY <1>2 DEF Ascending
<1> DEFINE t == inOrder(a, S)
<1>5. t \in SetToSeqs(S) /\ order(t)
  BY <1>3, <1>4 DEF inOrder
<1>6. t \in [1 .. n -> S] /\ \A i, j \in 1 .. n : t[i] = t[j] => i = j
  BY <1>5 DEF SetToSeqs
<1>7. t \in Injection(1 .. n, S)
  BY <1>6 DEF Injection, IsInjective
<1>8. IsFiniteSet(1 .. n) /\ Cardinality(1 .. n) = Cardinality(S)
  <2> HIDE DEF n
  <2>1. IsFiniteSet(1 .. n) /\ Cardinality(1 .. n) = n
    BY <1>1, FS_Interval
  <2> QED
    BY <2>1 DEF n
<1>9. t \in Surjection(1 .. n, S)
  BY <1>7, <1>8, FS_Injection
<1> QED
  BY <1>6, <1>9 DEF Surjection

(***************************************************************************)
(* Ways from premise to premise.                                           *)
(***************************************************************************)
\* A way of n steps along which the polarities come to match.
Tells(a, from, q, n, match) ==
    \E w \in waysOf(a, from, q, n) : match <=> (mismatches(a, w, n) % 2 = 0)

LEMMA NoStep ==
    ASSUME NEW a, NEW from \in premisesOf(a)
    PROVE  Tells(a, from, from, 0, TRUE)
<1> DEFINE w == [k \in 0 .. 0 |-> from]
<1>1. w \in [0 .. 0 -> premisesOf(a)] /\ w[0] = from
  OBVIOUS
<1>2. w \in waysOf(a, from, from, 0)
  <2>1. \A k \in 1 .. 0 : flow(a, w[k - 1], w[k]) # {}
    OBVIOUS
  <2> HIDE DEF w
  <2> QED
    BY <1>1, <2>1 DEF waysOf
<1>3. mismatches(a, w, 0) = 0
  <2>1. {k \in 1 .. 0 : ~allMatch(flow(a, w[k - 1], w[k]))} = {}
    OBVIOUS
  <2> HIDE DEF w
  <2> QED
    BY <2>1, FS_EmptySet DEF mismatches
<1> HIDE DEF w
<1> QED
  BY <1>2, <1>3 DEF Tells

\* One step more keeps or turns the match.
LEMMA StepTells ==
    ASSUME NEW a, NEW from, NEW p, NEW q \in premisesOf(a), NEW n \in Nat,
           NEW match \in BOOLEAN, Tells(a, from, p, n, match), flow(a, p, q) # {}
    PROVE  Tells(a, from, q, n + 1, alongStep(match, allMatch(flow(a, p, q))))
<1>1. PICK w \in waysOf(a, from, p, n) : match <=> (mismatches(a, w, n) % 2 = 0)
  BY DEF Tells
<1>2. /\ w \in [0 .. n -> premisesOf(a)] /\ w[0] = from /\ w[n] = p
      /\ \A k \in 1 .. n : flow(a, w[k - 1], w[k]) # {}
  BY <1>1 DEF waysOf
<1> DEFINE v == [k \in 0 .. n + 1 |-> IF k = n + 1 THEN q ELSE w[k]]
           turns(u, m) == {k \in 1 .. m : ~allMatch(flow(a, u[k - 1], u[k]))}
<1>3. \A k \in 0 .. n : v[k] = w[k]
  BY <1>2
<1>4. v \in [0 .. n + 1 -> premisesOf(a)] /\ v[0] = from /\ v[n + 1] = q /\ v[n] = p
  <2>1. \A k \in 0 .. n + 1 : k = n + 1 \/ k \in 0 .. n
    OBVIOUS
  <2>2. 0 \in 0 .. n /\ n \in 0 .. n /\ n + 1 \in 0 .. n + 1
    OBVIOUS
  <2>3. v[n + 1] = q
    BY <2>2
  <2>4. v \in [0 .. n + 1 -> premisesOf(a)]
    BY <1>2, <2>1
  <2> HIDE DEF v
  <2> QED
    BY <1>2, <1>3, <2>2, <2>3, <2>4
<1> HIDE DEF v
<1>5. \A k \in 1 .. n + 1 : k = n + 1 \/ (k \in 1 .. n /\ k \in 0 .. n /\ k - 1 \in 0 .. n)
  OBVIOUS
<1>6. (n + 1) - 1 = n /\ n + 1 \in 1 .. n + 1 /\ n + 1 \notin 1 .. n
  OBVIOUS
<1>7. v \in waysOf(a, from, q, n + 1)
  <2>1. \A k \in 1 .. n + 1 : flow(a, v[k - 1], v[k]) # {}
    BY <1>2, <1>3, <1>4, <1>5, <1>6
  <2> QED
    BY <1>4, <2>1 DEF waysOf
<1>8. turns(v, n + 1) = turns(w, n) \cup (IF allMatch(flow(a, p, q)) THEN {} ELSE {n + 1})
  <2>1. \A k \in 1 .. n : v[k - 1] = w[k - 1] /\ v[k] = w[k] /\ k \in 1 .. n + 1
    BY <1>3
  <2>2. n + 1 \in turns(v, n + 1) <=> ~allMatch(flow(a, p, q))
    BY <1>4, <1>6
  <2>3. \A k \in 1 .. n : k \in turns(v, n + 1) <=> k \in turns(w, n)
    BY <2>1
  <2>4. turns(v, n + 1) \subseteq 1 .. n + 1 /\ turns(w, n) \subseteq 1 .. n
    OBVIOUS
  <2> HIDE DEF turns
  <2> QED
    BY <1>5, <1>6, <2>2, <2>3, <2>4
<1>9. IsFiniteSet(turns(w, n)) /\ n + 1 \notin turns(w, n) /\ Cardinality(turns(w, n)) \in Nat
  <2>1. IsFiniteSet(1 .. n)
    BY FS_Interval
  <2>2. IsFiniteSet(turns(w, n))
    BY <2>1, FS_Subset
  <2> QED
    BY <1>6, <2>2, FS_CardinalityType
<1>10. mismatches(a, w, n) = Cardinality(turns(w, n))
       /\ mismatches(a, v, n + 1) = Cardinality(turns(v, n + 1))
  BY DEF mismatches
<1> HIDE DEF turns
<1>11. mismatches(a, v, n + 1) =
          mismatches(a, w, n) + (IF allMatch(flow(a, p, q)) THEN 0 ELSE 1)
  <2>1. CASE allMatch(flow(a, p, q))
    BY <1>8, <1>9, <1>10, <2>1
  <2>2. CASE ~allMatch(flow(a, p, q))
    <3>1. Cardinality(turns(w, n) \cup {n + 1}) = Cardinality(turns(w, n)) + 1
      BY <1>9, FS_AddElement
    <3> QED
      BY <1>8, <1>10, <2>2, <3>1
  <2> QED
    BY <2>1, <2>2
<1>12. mismatches(a, w, n) \in Nat
  BY <1>9, <1>10
<1>13. \A m \in Nat : ((m + 1) % 2 = 0) <=> ~(m % 2 = 0)
  OBVIOUS
<1>14. allMatch(flow(a, p, q)) \in BOOLEAN
  BY DEF allMatch
<1>15. alongStep(match, allMatch(flow(a, p, q))) <=> (mismatches(a, v, n + 1) % 2 = 0)
  <2>1. CASE allMatch(flow(a, p, q))
    <3>1. alongStep(match, allMatch(flow(a, p, q))) <=> match
      BY <2>1, <1>14, Zenon DEF alongStep
    <3>2. mismatches(a, v, n + 1) = mismatches(a, w, n)
      BY <1>11, <1>12, <2>1
    <3> QED
      BY <1>1, <3>1, <3>2
  <2>2. CASE ~allMatch(flow(a, p, q))
    <3>1. alongStep(match, allMatch(flow(a, p, q))) <=> ~match
      BY <2>2, <1>14, Zenon DEF alongStep
    <3>2. mismatches(a, v, n + 1) = mismatches(a, w, n) + 1
      BY <1>11, <2>2
    <3> QED
      BY <1>1, <1>12, <1>13, <3>1, <3>2
  <2> QED
    BY <2>1, <2>2
<1> QED
  BY <1>7, <1>15 DEF Tells

(***************************************************************************)
(* The search.                                                             *)
(***************************************************************************)
\* What the search has handled: seen, and no longer in the queue.
queued(s) == {s.queue[i].premise : i \in DOMAIN s.queue}
handled(s) == s.visited \ queued(s)

\* What the queue says of a premise reached in n steps is so.
Known(a, from, item, n) ==
    /\ item.match \in BOOLEAN
    /\ Tells(a, from, item.premise, n, item.match)
    /\ item.premise = from => n = 0
    /\ item.premise # from => item.entry # {}

\* The search has handled n premises, all nearer than those queued, which are in
\* the order of their distances d and at most one step apart; what it handled
\* leads nowhere it has not seen.
Searching(a, from, to, s, d, n) ==
    /\ s.found = << >>
    /\ s.visited \subseteq premisesOf(a) /\ from \in s.visited /\ to \notin s.visited
    /\ s.queue = [i \in 1 .. Len(s.queue) |-> s.queue[i]] /\ Len(s.queue) \in Nat
    /\ d \in [s.visited -> 0 .. n] /\ d[from] = 0
    /\ Cardinality(handled(s)) = n
    /\ \A i \in 1 .. Len(s.queue) :
        LET at == s.queue[i]
        IN  /\ at.premise \in s.visited
            /\ Known(a, from, at, d[at.premise])
            /\ \A j \in 1 .. Len(s.queue) : s.queue[j].premise = at.premise => j = i
            /\ \A j \in i .. Len(s.queue) : d[at.premise] <= d[s.queue[j].premise]
            /\ d[at.premise] <= d[s.queue[1].premise] + 1
            /\ \A x \in handled(s) : d[x] <= d[at.premise]
    /\ \A x \in handled(s) : \A y \in premisesOf(a) :
          flow(a, x, y) # {} => y \in s.visited /\ d[y] <= d[x] + 1

\* A way out of what was handled goes through the queue, no nearer than by its
\* distance there.
LEMMA WayOut ==
    ASSUME NEW a, NEW from, NEW to, NEW s, NEW d, NEW n \in Nat,
           Searching(a, from, to, s, d, n),
           NEW m \in Nat, NEW w \in waysOf(a, from, to, m)
    PROVE  \E k \in 0 .. m : k < m /\ w[k] \in queued(s) /\ d[w[k]] <= k
<1>1. /\ w \in [0 .. m -> premisesOf(a)] /\ w[0] = from /\ w[m] = to
      /\ \A k \in 1 .. m : flow(a, w[k - 1], w[k]) # {}
  BY DEF waysOf
<1> DEFINE Out == {k \in 0 .. m : w[k] \notin handled(s)}
<1>2. m \in Out
  BY <1>1 DEF Searching, handled
<1>3. PICK k \in Out : \A j \in Out : k <= j
  <2>1. Out \in SUBSET Nat
    OBVIOUS
  <2> HIDE DEF Out
  <2> QED
    BY <1>2, <2>1, LeastNumber
<1>4. k \in 0 .. m /\ w[k] \notin handled(s)
  BY <1>3
<1>5. \A j \in 0 .. m : j < k => w[j] \in handled(s)
  <2> SUFFICES ASSUME NEW j \in 0 .. m, j < k, w[j] \notin handled(s) PROVE FALSE
    OBVIOUS
  <2>1. j \in Out
    OBVIOUS
  <2>2. k <= j
    BY <1>3, <2>1
  <2> QED
    BY <1>4, <2>2
<1>6. \A x \in s.visited : d[x] \in Nat
  BY DEF Searching
\* Up to there each premise is seen, no nearer than the way took.
<1> DEFINE Far == {j \in 0 .. k : ~(w[j] \in s.visited /\ d[w[j]] <= j)}
<1>7. Far = {}
  <2> SUFFICES ASSUME Far # {} PROVE FALSE
    OBVIOUS
  <2>1. PICK j \in Far : \A i \in Far : j <= i
    <3>1. Far \in SUBSET Nat
      BY <1>4
    <3> HIDE DEF Far
    <3> QED
      BY <3>1, LeastNumber
  <2>2. j \in 0 .. k /\ j \in Nat /\ j \in 0 .. m
    BY <1>4, <2>1
  <2>3. j # 0
    BY <1>1, <2>1 DEF Searching
  <2>4. PICK i \in 0 .. k : i = j - 1 /\ i \in 0 .. m /\ i < k /\ ~(j <= i) /\ j \in 1 .. m
    <3>1. j - 1 \in 0 .. k /\ j - 1 \in 0 .. m /\ j - 1 < k /\ ~(j <= j - 1) /\ j \in 1 .. m
      BY <1>4, <2>2, <2>3
    <3> QED
      BY <3>1
  <2>5. w[i] \in s.visited /\ d[w[i]] <= i
    BY <2>1, <2>4
  <2>6. w[i] \in handled(s) /\ flow(a, w[i], w[j]) # {} /\ w[j] \in premisesOf(a)
    BY <1>1, <1>5, <2>2, <2>4
  <2>7. w[j] \in s.visited /\ d[w[j]] <= d[w[i]] + 1
    BY <2>6 DEF Searching
  <2>8. d[w[j]] <= j
    BY <1>6, <2>2, <2>4, <2>5, <2>7
  <2> QED
    BY <2>1, <2>7, <2>8
<1>8. w[k] \in s.visited /\ d[w[k]] <= k
  <2>1. k \in 0 .. k
    BY <1>4
  <2> QED
    BY <1>7, <2>1
<1>9. w[k] \in queued(s)
  BY <1>4, <1>8 DEF handled
<1>10. k # m
  BY <1>1, <1>8 DEF Searching
<1> QED
  BY <1>4, <1>8, <1>9, <1>10

\* What the search puts in the queue for q, reached from at.
arrival(a, from, at, q) ==
    [premise |-> q,
     match |-> IF at.premise = from THEN allMatch(flow(a, from, q))
               ELSE alongStep(at.match, allMatch(flow(a, at.premise, q))),
     entry |-> IF at.premise = from THEN flow(a, from, q) ELSE at.entry]

\* From the first premise as from any other: nothing was turned before.
LEMMA ArrivalKnown ==
    ASSUME NEW a, NEW from, NEW at, NEW n \in Nat, Known(a, from, at, n),
           NEW q \in premisesOf(a), q # from, flow(a, at.premise, q) # {}
    PROVE  /\ arrival(a, from, at, q).premise = q
           /\ Known(a, from, arrival(a, from, at, q), n + 1)
<1> DEFINE here == allMatch(flow(a, at.premise, q))
           next == arrival(a, from, at, q)
<1>1. here \in BOOLEAN /\ alongStep(at.match, here) \in BOOLEAN
  BY Zenon DEF allMatch, alongStep
<1>2. Tells(a, from, q, n + 1, alongStep(at.match, here))
  <2>1. at.match \in BOOLEAN /\ Tells(a, from, at.premise, n, at.match)
    BY DEF Known
  <2> QED
    BY <2>1, StepTells
<1>3. next.premise = q
  BY DEF arrival
<1>4. next.match = alongStep(at.match, here) /\ next.entry # {}
  <2>1. CASE at.premise = from
    <3>1. n = 0 /\ at.match \in BOOLEAN
      BY <2>1 DEF Known
    <3>2. PICK w \in waysOf(a, from, from, 0) : at.match <=> (mismatches(a, w, 0) % 2 = 0)
      BY <2>1, <3>1 DEF Known, Tells
    <3>3. {k \in 1 .. 0 : ~allMatch(flow(a, w[k - 1], w[k]))} = {}
      OBVIOUS
    <3>4. mismatches(a, w, 0) = 0
      BY <3>3, FS_EmptySet DEF mismatches
    <3>5. at.match
      BY <3>2, <3>4
    <3>6. alongStep(at.match, here) = here
      BY <1>1, <3>1, <3>5, Zenon DEF alongStep
    <3>7. next.match = here /\ next.entry = flow(a, from, q)
      BY <2>1 DEF arrival
    <3> HIDE DEF here, next
    <3> QED
      BY <2>1, <3>6, <3>7
  <2>2. CASE at.premise # from
    <3>1. next.match = alongStep(at.match, here) /\ next.entry = at.entry
      BY <2>2 DEF arrival
    <3> HIDE DEF here, next
    <3> QED
      BY <2>2, <3>1 DEF Known
  <2> QED
    BY <2>1, <2>2
<1> HIDE DEF here, next
<1>5. Known(a, from, next, n + 1)
  BY <1>1, <1>2, <1>3, <1>4 DEF Known
<1> QED
  BY <1>3, <1>5 DEF next

LEMMA Joined ==
    ASSUME NEW T, NEW u \in Seq(T), NEW v \in Seq(T)
    PROVE  /\ u \o v \in Seq(T) /\ Len(u \o v) = Len(u) + Len(v)
           /\ u \o v = [i \in 1 .. Len(u) + Len(v) |-> (u \o v)[i]]
           /\ \A i \in 1 .. Len(u) : (u \o v)[i] = u[i]
           /\ \A k \in 1 .. Len(v) : (u \o v)[Len(u) + k] = v[k]
<1>1. u \o v \in Seq(T) /\ Len(u \o v) = Len(u) + Len(v)
  OBVIOUS
<1>2. \A i \in 1 .. Len(u) : (u \o v)[i] = u[i]
  OBVIOUS
<1>3. \A k \in 1 .. Len(v) : (u \o v)[Len(u) + k] = v[k]
  <2> SUFFICES ASSUME NEW k \in 1 .. Len(v) PROVE (u \o v)[Len(u) + k] = v[k]
    OBVIOUS
  <2>1. Len(u) \in Nat /\ Len(v) \in Nat
    OBVIOUS
  <2>2. Len(u) + k \in 1 .. Len(u) + Len(v) /\ ~(Len(u) + k <= Len(u)) /\ (Len(u) + k) - Len(u) = k
    BY <2>1
  <2> QED
    BY <2>1, <2>2
<1>4. u \o v = [i \in 1 .. Len(u) + Len(v) |-> (u \o v)[i]]
  <2>1. \A z \in Seq(T) : z = [i \in 1 .. Len(z) |-> z[i]]
    OBVIOUS
  <2> QED
    BY <1>1, <2>1
<1> QED
  BY <1>1, <1>2, <1>3, <1>4

\* What is left of a queue, and then what is fresh.
Followed(old, fresh, queue) ==
    /\ Len(queue) = (Len(old) - 1) + Len(fresh)
    /\ queue = [i \in 1 .. Len(queue) |-> queue[i]]
    /\ \A i \in 1 .. Len(old) - 1 : queue[i] = old[i + 1]
    /\ \A k \in 1 .. Len(fresh) : queue[(Len(old) - 1) + k] = fresh[k]

LEMMA QueueAfter ==
    ASSUME NEW Item, NEW old \in Seq(Item), old # << >>, NEW fresh \in Seq(Item)
    PROVE  Followed(old, fresh, Tail(old) \o fresh) /\ Tail(old) \o fresh \in Seq(Item)
<1>1. Len(old) \in Nat /\ Len(old) > 0
  OBVIOUS
<1>2. /\ Tail(old) \in Seq(Item) /\ Len(Tail(old)) = Len(old) - 1
      /\ \A i \in 1 .. Len(old) - 1 : Tail(old)[i] = old[i + 1]
  BY <1>1
<1>3. PICK rest \in Seq(Item) : rest = Tail(old)
  BY <1>2
<1>4. /\ rest \o fresh \in Seq(Item) /\ Len(rest \o fresh) = Len(rest) + Len(fresh)
      /\ rest \o fresh = [i \in 1 .. Len(rest) + Len(fresh) |-> (rest \o fresh)[i]]
      /\ \A i \in 1 .. Len(rest) : (rest \o fresh)[i] = rest[i]
      /\ \A k \in 1 .. Len(fresh) : (rest \o fresh)[Len(rest) + k] = fresh[k]
  BY Joined
<1>5. PICK queue : queue = rest \o fresh
  OBVIOUS
<1>6. PICK N : N = Len(old) - 1
  OBVIOUS
<1> QED
  BY <1>2, <1>3, <1>4, <1>5, <1>6, Zenon DEF Followed

\* The search when the first of its queue has been handled.
handle(a, from, s, at, new) ==
    [queue |-> Tail(s.queue) \o [k \in DOMAIN new |-> arrival(a, from, at, new[k])],
     visited |-> s.visited \cup edges(a, at.premise), found |-> << >>]

\* The M elements of E, each once.
Lists(new, M, E) ==
    /\ M \in Nat /\ new \in [1 .. M -> E]
    /\ \A q \in E : \E k \in 1 .. M : new[k] = q
    /\ \A j, k \in 1 .. M : new[j] = new[k] => j = k

\* Handling the first of the queue keeps what the search knows.
LEMMA HandleKeeps ==
    ASSUME NEW a, IsFiniteSet(premisesOf(a)), NEW from \in premisesOf(a), NEW to,
           NEW s, NEW d, NEW n \in Nat, Searching(a, from, to, s, d, n),
           NEW Item, s.queue \in Seq(Item), s.queue # << >>,
           NEW at, at = s.queue[1], to \notin edges(a, at.premise),
           NEW M, NEW new, Lists(new, M, edges(a, at.premise) \ s.visited),
           \A q \in edges(a, at.premise) : arrival(a, from, at, q) \in Item
    PROVE  \E e : Searching(a, from, to, handle(a, from, s, at, new), e, n + 1)
<1>0. PICK here : at = s.queue[1] /\ here = at.premise
  OBVIOUS
<1> DEFINE E == edges(a, here) \ s.visited
           t == handle(a, from, s, at, new)
           fresh == [k \in DOMAIN new |-> arrival(a, from, at, new[k])]
           D == d[here]
           e == [x \in s.visited \cup edges(a, here) |-> IF x \in s.visited THEN d[x] ELSE D + 1]
<1>a. /\ M \in Nat /\ new \in [1 .. M -> E]
      /\ \A j, k \in 1 .. M : new[j] = new[k] => j = k
  BY <1>0 DEF Lists
<1> USE <1>a
\* What is known of the queue as it was.
<1>1. PICK N \in Nat : N = Len(s.queue) - 1 /\ Len(s.queue) = N + 1
  <2>1. Len(s.queue) \in Nat /\ Len(s.queue) > 0
    OBVIOUS
  <2>2. Len(s.queue) - 1 \in Nat /\ Len(s.queue) = (Len(s.queue) - 1) + 1
    BY <2>1
  <2> QED
    BY <2>2
<1>2. 1 \in 1 .. N + 1 /\ \A i \in 1 .. N : i + 1 \in 1 .. N + 1 /\ i + 1 # 1
  BY <1>1
<1>3. \A i \in 1 .. N + 1 :
        LET item == s.queue[i]
        IN  /\ item.premise \in s.visited
            /\ Known(a, from, item, d[item.premise])
            /\ \A j \in 1 .. N + 1 : s.queue[j].premise = item.premise => j = i
            /\ \A j \in i .. N + 1 : d[item.premise] <= d[s.queue[j].premise]
            /\ d[item.premise] <= D + 1
            /\ \A x \in handled(s) : d[x] <= d[item.premise]
  <2>1. \A i \in 1 .. Len(s.queue) :
          LET item == s.queue[i]
          IN  /\ item.premise \in s.visited
              /\ Known(a, from, item, d[item.premise])
              /\ \A j \in 1 .. Len(s.queue) : s.queue[j].premise = item.premise => j = i
              /\ \A j \in i .. Len(s.queue) : d[item.premise] <= d[s.queue[j].premise]
              /\ d[item.premise] <= d[s.queue[1].premise] + 1
              /\ \A x \in handled(s) : d[x] <= d[item.premise]
    BY Zenon DEF Searching
  <2> QED
    BY <1>0, <1>1, <2>1, Zenon
<1>4. /\ s.visited \subseteq premisesOf(a) /\ from \in s.visited /\ to \notin s.visited
      /\ d \in [s.visited -> 0 .. n] /\ d[from] = 0 /\ Cardinality(handled(s)) = n
      /\ \A x \in handled(s) : \A y \in premisesOf(a) :
            flow(a, x, y) # {} => y \in s.visited /\ d[y] <= d[x] + 1
  BY DEF Searching
<1>5. here \in s.visited /\ D \in 0 .. n /\ D \in Nat
      /\ \A x \in s.visited : d[x] \in 0 .. n /\ d[x] \in Nat
  <2>1. here \in s.visited
    BY <1>0, <1>2, <1>3
  <2> QED
    BY <1>4, <2>1
<1>6. \A i \in 1 .. N + 1 : D <= d[s.queue[i].premise]
  BY <1>0, <1>2, <1>3
<1>7. \A x \in handled(s) : d[x] <= D
  BY <1>0, <1>2, <1>3
<1>8. queued(s) = {s.queue[i].premise : i \in 1 .. N + 1}
  BY <1>1 DEF queued
<1>9. \A x \in s.visited : d[x] <= D + 1
  <2> SUFFICES ASSUME NEW x \in s.visited PROVE d[x] <= D + 1
    OBVIOUS
  <2>1. CASE x \in handled(s)
    BY <1>5, <1>7, <2>1
  <2>2. CASE x \notin handled(s)
    <3>1. PICK i \in 1 .. N + 1 : s.queue[i].premise = x
      BY <1>8, <2>2 DEF handled
    <3> QED
      BY <1>3, <3>1
  <2> QED
    BY <2>1, <2>2
<1>10. Known(a, from, at, D)
  BY <1>0, <1>2, <1>3
\* What is new.
<1>11. \A q \in E : q \in premisesOf(a) /\ flow(a, here, q) # {} /\ q \notin s.visited /\ q # to
  BY <1>0 DEF edges
<1>12. \A k \in 1 .. M : new[k] \in E
  BY <1>0
<1>13. \A q \in E : \E k \in 1 .. M : new[k] = q
  BY <1>0 DEF Lists
<1>14. \A q \in E : /\ arrival(a, from, at, q).premise = q
                    /\ Known(a, from, arrival(a, from, at, q), D + 1)
  <2> SUFFICES ASSUME NEW q \in E
               PROVE  /\ arrival(a, from, at, q).premise = q
                      /\ Known(a, from, arrival(a, from, at, q), D + 1)
    OBVIOUS
  <2>1. q \in premisesOf(a) /\ flow(a, at.premise, q) # {} /\ q # from
    BY <1>0, <1>4, <1>11
  <2>2. PICK item, m : item = at /\ m = D
    OBVIOUS
  <2>3. m \in Nat /\ Known(a, from, item, m) /\ flow(a, item.premise, q) # {}
    BY <1>5, <1>10, <2>1, <2>2
  <2> HIDE DEF D, E
  <2>4. arrival(a, from, item, q).premise = q /\ Known(a, from, arrival(a, from, item, q), m + 1)
    BY <2>1, <2>3, ArrivalKnown
  <2> QED
    BY <2>2, <2>4
\* The queue as it is now: the others, and then what is new.
<1>15. /\ t.queue = [i \in 1 .. Len(t.queue) |-> t.queue[i]] /\ Len(t.queue) = N + M
       /\ \A i \in 1 .. N : t.queue[i] = s.queue[i + 1]
       /\ \A k \in 1 .. M : t.queue[N + k] = arrival(a, from, at, new[k])
  <2>1. fresh = [k \in 1 .. M |-> arrival(a, from, at, new[k])]
    OBVIOUS
  <2>2. \A k \in 1 .. M : arrival(a, from, at, new[k]) \in Item
    BY <1>0, <1>12
  <2>3. fresh \in Seq(Item) /\ Len(fresh) = M
    <3>1. fresh \in [1 .. M -> Item]
      BY <2>1, <2>2
    <3> HIDE DEF fresh
    <3> QED
      BY <3>1
  <2>4. t.queue = Tail(s.queue) \o fresh
    BY <1>0 DEF handle
  <2>5. \A k \in 1 .. M : fresh[k] = arrival(a, from, at, new[k])
    BY <2>1
  <2> HIDE DEF fresh, t
  <2>6. Followed(s.queue, fresh, t.queue)
    BY <2>3, <2>4, QueueAfter
  <2> QED
    BY <1>1, <2>3, <2>5, <2>6 DEF Followed
<1>16. t.visited = s.visited \cup edges(a, here) /\ t.found = << >> /\ t.visited = s.visited \cup E
  BY <1>0 DEF handle
<1>17. \A i \in 1 .. N + M : i \in 1 .. N \/ \E k \in 1 .. M : i = N + k
  <2> SUFFICES ASSUME NEW i \in 1 .. N + M, i \notin 1 .. N PROVE \E k \in 1 .. M : i = N + k
    OBVIOUS
  <2>1. i - N \in 1 .. M /\ i = N + (i - N)
    OBVIOUS
  <2> QED
    BY <2>1
<1>18. \A i \in 1 .. N : i \in 1 .. N + M
  OBVIOUS
<1>19. \A k \in 1 .. M : N + k \in 1 .. N + M /\ N + k \notin 1 .. N
  OBVIOUS
<1>20. e \in [t.visited -> 0 .. n + 1] /\ e[from] = 0
       /\ (\A x \in s.visited : e[x] = d[x]) /\ (\A x \in E : e[x] = D + 1)
  <2>1. \A x \in s.visited : e[x] = d[x]
    OBVIOUS
  <2>2. \A x \in E : e[x] = D + 1
    OBVIOUS
  <2>3. e = [x \in t.visited |-> e[x]]
    BY <1>16
  <2>4. \A x \in t.visited : e[x] \in 0 .. n + 1
    <3>1. \A x \in s.visited : d[x] \in 0 .. n + 1
      BY <1>5
    <3>2. D + 1 \in 0 .. n + 1
      BY <1>5
    <3> HIDE DEF e, t, D, E
    <3> QED
      BY <1>16, <2>1, <2>2, <3>1, <3>2
  <2> HIDE DEF e, t, D, E
  <2> QED
    BY <1>4, <2>1, <2>2, <2>3, <2>4
<1> HIDE DEF e, t, D, E, fresh
\* Each in the queue now.
<1>21. \A i \in 1 .. N : /\ t.queue[i] = s.queue[i + 1] /\ i + 1 \in 1 .. N + 1
                         /\ t.queue[i].premise \in s.visited /\ t.queue[i].premise # here
                         /\ e[t.queue[i].premise] = d[t.queue[i].premise]
  <2> SUFFICES ASSUME NEW i \in 1 .. N
               PROVE  /\ t.queue[i] = s.queue[i + 1] /\ i + 1 \in 1 .. N + 1
                      /\ t.queue[i].premise \in s.visited /\ t.queue[i].premise # here
                      /\ e[t.queue[i].premise] = d[t.queue[i].premise]
    OBVIOUS
  <2>1. t.queue[i] = s.queue[i + 1] /\ i + 1 \in 1 .. N + 1 /\ i + 1 # 1 /\ 1 \in 1 .. N + 1
    BY <1>2, <1>15
  <2>2. s.queue[i + 1].premise \in s.visited /\ (s.queue[i + 1].premise = s.queue[1].premise => i + 1 = 1)
    BY <1>3, <2>1
  <2> QED
    BY <1>0, <1>20, <2>1, <2>2
<1>22. \A k \in 1 .. M : /\ t.queue[N + k] = arrival(a, from, at, new[k])
                         /\ t.queue[N + k].premise = new[k] /\ new[k] \in E
                         /\ e[t.queue[N + k].premise] = D + 1
                         /\ Known(a, from, t.queue[N + k], D + 1)
  <2> SUFFICES ASSUME NEW k \in 1 .. M
               PROVE  /\ t.queue[N + k] = arrival(a, from, at, new[k])
                      /\ t.queue[N + k].premise = new[k] /\ new[k] \in E
                      /\ e[t.queue[N + k].premise] = D + 1
                      /\ Known(a, from, t.queue[N + k], D + 1)
    OBVIOUS
  <2>1. new[k] \in E
    BY <1>12
  <2>2. arrival(a, from, at, new[k]).premise = new[k]
        /\ Known(a, from, arrival(a, from, at, new[k]), D + 1)
    BY <1>14, <2>1
  <2>3. t.queue[N + k] = arrival(a, from, at, new[k])
    BY <1>15
  <2>4. e[new[k]] = D + 1
    BY <1>20, <2>1
  <2> QED
    BY <2>1, <2>2, <2>3, <2>4
<1>23. \A i \in 1 .. N + M :
          LET item == t.queue[i]
          IN  /\ item.premise \in t.visited /\ Known(a, from, item, e[item.premise])
              /\ e[item.premise] \in Nat
              /\ D <= e[item.premise] /\ e[item.premise] <= D + 1
  <2> SUFFICES ASSUME NEW i \in 1 .. N + M
               PROVE  LET item == t.queue[i]
                      IN  /\ item.premise \in t.visited /\ Known(a, from, item, e[item.premise])
                          /\ e[item.premise] \in Nat
                          /\ D <= e[item.premise] /\ e[item.premise] <= D + 1
    OBVIOUS
  <2>1. CASE i \in 1 .. N
    <3>1. PICK j \in 1 .. N + 1 : j = i + 1 /\ t.queue[i] = s.queue[j]
      BY <1>21, <2>1
    <3>2. /\ s.queue[j].premise \in s.visited
          /\ Known(a, from, s.queue[j], d[s.queue[j].premise])
          /\ d[s.queue[j].premise] <= D + 1
      BY <1>3
    <3>3. D <= d[s.queue[j].premise]
      BY <1>6
    <3>4. e[t.queue[i].premise] = d[s.queue[j].premise]
      BY <1>21, <2>1, <3>1
    <3> QED
      BY <1>5, <1>16, <3>1, <3>2, <3>3, <3>4
  <2>2. CASE \E k \in 1 .. M : i = N + k
    <3>1. PICK k \in 1 .. M : i = N + k
      BY <2>2
    <3>2. Known(a, from, t.queue[i], D + 1)
      BY <1>22, <3>1
    <3>3. e[t.queue[i].premise] = D + 1 /\ t.queue[i].premise \in E
      BY <1>22, <3>1
    <3> QED
      BY <1>5, <1>16, <3>2, <3>3
  <2> QED
    BY <1>17, <2>1, <2>2
<1>24. \A i, j \in 1 .. N + M : t.queue[j].premise = t.queue[i].premise => j = i
  <2> SUFFICES ASSUME NEW i \in 1 .. N + M, NEW j \in 1 .. N + M,
                      t.queue[j].premise = t.queue[i].premise
               PROVE  j = i
    OBVIOUS
  <2>1. CASE i \in 1 .. N /\ j \in 1 .. N
    <3>1. i + 1 \in 1 .. N + 1 /\ j + 1 \in 1 .. N + 1
          /\ s.queue[j + 1].premise = s.queue[i + 1].premise
      BY <1>21, <2>1
    <3>2. j + 1 = i + 1
      BY <1>3, <3>1
    <3> QED
      BY <3>2
  <2>2. CASE i \notin 1 .. N /\ j \notin 1 .. N
    <3>1. PICK k \in 1 .. M : i = N + k
      BY <1>17, <2>2
    <3>2. PICK l \in 1 .. M : j = N + l
      BY <1>17, <2>2
    <3>3. new[k] = new[l]
      BY <1>22, <3>1, <3>2
    <3> QED
      BY <3>1, <3>2, <3>3
  <2>3. CASE i \in 1 .. N /\ j \notin 1 .. N
    <3>1. PICK l \in 1 .. M : j = N + l
      BY <1>17, <2>3
    <3>2. t.queue[j].premise \in E /\ t.queue[i].premise \in s.visited
      BY <1>21, <1>22, <2>3, <3>1
    <3> QED
      BY <1>11, <3>2
  <2>4. CASE i \notin 1 .. N /\ j \in 1 .. N
    <3>1. PICK k \in 1 .. M : i = N + k
      BY <1>17, <2>4
    <3>2. t.queue[i].premise \in E /\ t.queue[j].premise \in s.visited
      BY <1>21, <1>22, <2>4, <3>1
    <3> QED
      BY <1>11, <3>2
  <2> QED
    BY <2>1, <2>2, <2>3, <2>4
<1>25. \A i \in 1 .. N + M : \A j \in i .. N + M : e[t.queue[i].premise] <= e[t.queue[j].premise]
  <2> SUFFICES ASSUME NEW i \in 1 .. N + M, NEW j \in i .. N + M
               PROVE  e[t.queue[i].premise] <= e[t.queue[j].premise]
    OBVIOUS
  <2>1. j \in 1 .. N + M /\ i <= j
    OBVIOUS
  <2>2. CASE j \in 1 .. N
    <3>1. i \in 1 .. N
      BY <2>1, <2>2
    <3>2. i + 1 \in 1 .. N + 1 /\ j + 1 \in i + 1 .. N + 1
      BY <2>1, <2>2, <3>1
    <3>3. d[s.queue[i + 1].premise] <= d[s.queue[j + 1].premise]
      BY <1>3, <3>2
    <3> QED
      BY <1>21, <2>2, <3>1, <3>3
  <2>3. CASE j \notin 1 .. N
    <3>1. PICK l \in 1 .. M : j = N + l
      BY <1>17, <2>1, <2>3
    <3>2. e[t.queue[j].premise] = D + 1
      BY <1>22, <3>1
    <3>3. e[t.queue[i].premise] <= D + 1
      BY <1>23
    <3> QED
      BY <3>2, <3>3
  <2> QED
    BY <2>2, <2>3
\* What has been handled now.
<1>26. handled(t) = handled(s) \cup {here} /\ here \notin handled(s)
  <2>1. here \in queued(s)
    BY <1>0, <1>2, <1>8
  <2>2. queued(t) = {t.queue[i].premise : i \in 1 .. N + M}
    BY <1>15 DEF queued
  <2>3. ASSUME NEW x \in queued(s), x # here PROVE x \in queued(t)
    <3>1. PICK i \in 1 .. N + 1 : s.queue[i].premise = x
      BY <1>8
    <3>2. i # 1
      BY <1>0, <2>3, <3>1
    <3>3. i - 1 \in 1 .. N /\ (i - 1) + 1 = i
      BY <3>2
    <3>4. t.queue[i - 1].premise = x
      BY <1>21, <3>1, <3>3
    <3> QED
      BY <1>18, <2>2, <3>3, <3>4
  <2>4. E \subseteq queued(t)
    <3> SUFFICES ASSUME NEW q \in E PROVE q \in queued(t)
      OBVIOUS
    <3>1. PICK k \in 1 .. M : new[k] = q
      BY <1>13
    <3> QED
      BY <1>19, <1>22, <2>2, <3>1
  <2>5. ASSUME NEW x \in queued(t) PROVE x \in E \/ (x \in queued(s) /\ x # here)
    <3>1. PICK i \in 1 .. N + M : t.queue[i].premise = x
      BY <2>2
    <3>2. CASE i \in 1 .. N
      BY <1>8, <1>21, <3>1, <3>2
    <3>3. CASE i \notin 1 .. N
      <4>1. PICK k \in 1 .. M : i = N + k
        BY <1>17, <3>3
      <4>2. t.queue[i].premise \in E
        BY <1>22, <4>1
      <4> QED
        BY <3>1, <4>2
    <3> QED
      BY <3>2, <3>3
  <2> QED
    BY <1>5, <1>11, <1>16, <2>1, <2>3, <2>4, <2>5 DEF handled
<1>27. Cardinality(handled(t)) = n + 1
  <2>1. IsFiniteSet(handled(s))
    <3>1. handled(s) \in SUBSET premisesOf(a)
      BY <1>4 DEF handled
    <3> QED
      BY <3>1, FS_Subset
  <2>2. Cardinality(handled(s) \cup {here}) = Cardinality(handled(s)) + 1
    BY <1>26, <2>1, FS_AddElement
  <2> QED
    BY <1>4, <1>26, <2>2
<1>28. \A x \in handled(t) : x \in s.visited /\ e[x] = d[x] /\ e[x] <= D /\ e[x] \in Nat
  <2>1. \A x \in handled(t) : x \in s.visited /\ d[x] <= D
    <3>1. handled(s) \subseteq s.visited
      BY DEF handled
    <3>2. d[here] <= D
      BY <1>5 DEF D
    <3> QED
      BY <1>5, <1>7, <1>26, <3>1, <3>2
  <2> QED
    BY <1>5, <1>20, <2>1
<1>29. \A x \in handled(t) : \A y \in premisesOf(a) :
          flow(a, x, y) # {} => y \in t.visited /\ e[y] <= e[x] + 1
  <2> SUFFICES ASSUME NEW x \in handled(t), NEW y \in premisesOf(a), flow(a, x, y) # {}
               PROVE  y \in t.visited /\ e[y] <= e[x] + 1
    OBVIOUS
  <2>1. CASE x \in handled(s)
    BY <1>4, <1>16, <1>20, <1>28, <2>1
  <2>2. CASE x = here
    <3>1. e[x] = D
      BY <1>28, <2>2 DEF D
    <3>2. CASE y \in s.visited
      BY <1>9, <1>16, <1>20, <3>1, <3>2
    <3>3. CASE y \notin s.visited
      <4>1. y \in E
        BY <1>5, <2>2, <3>3 DEF E, edges
      <4> QED
        BY <1>5, <1>16, <1>20, <3>1, <4>1
    <3> QED
      BY <3>2, <3>3
  <2> QED
    BY <1>26, <2>1, <2>2
<1>30. \A i \in 1 .. N + M :
          LET item == t.queue[i]
          IN  /\ item.premise \in t.visited
              /\ Known(a, from, item, e[item.premise])
              /\ \A j \in 1 .. N + M : t.queue[j].premise = item.premise => j = i
              /\ \A j \in i .. N + M : e[item.premise] <= e[t.queue[j].premise]
              /\ e[item.premise] <= e[t.queue[1].premise] + 1
              /\ \A x \in handled(t) : e[x] <= e[item.premise]
  <2> SUFFICES ASSUME NEW i \in 1 .. N + M
               PROVE  /\ e[t.queue[i].premise] <= e[t.queue[1].premise] + 1
                      /\ \A x \in handled(t) : e[x] <= e[t.queue[i].premise]
    BY <1>23, <1>24, <1>25
  <2>1. 1 \in 1 .. N + M
    OBVIOUS
  <2>2. e[t.queue[i].premise] <= e[t.queue[1].premise] + 1
    BY <1>5, <1>23, <1>28, <2>1
  <2>3. \A x \in handled(t) : e[x] <= e[t.queue[i].premise]
    BY <1>5, <1>23, <1>28
  <2> QED
    BY <2>2, <2>3
<1>31. t.visited \subseteq premisesOf(a) /\ from \in t.visited /\ to \notin t.visited
  BY <1>4, <1>11, <1>16
<1>32. Len(t.queue) = N + M /\ N + M \in Nat /\ t.queue = [i \in 1 .. N + M |-> t.queue[i]]
  BY <1>15
<1>33. Searching(a, from, to, t, e, n + 1)
  BY <1>16, <1>20, <1>27, <1>29, <1>30, <1>31, <1>32, Zenon DEF Searching
<1> QED
  BY <1>33 DEF t

(***************************************************************************)
(* What the search returns.                                                *)
(***************************************************************************)
\* A shortest way to q, of n steps, as it is reported.
Reached(a, from, item, q, n) ==
    /\ item.premise = q /\ Known(a, from, item, n)
    /\ \A m \in Nat : waysOf(a, from, q, m) # {} => n <= m
Unreached(a, from, q) == \A m \in Nat : waysOf(a, from, q, m) = {}

LEMMA FoundIsShortest ==
    ASSUME NEW a, NEW from, NEW to, NEW s, NEW d, NEW n \in Nat,
           Searching(a, from, to, s, d, n), Len(s.queue) > 0,
           to \in edges(a, s.queue[1].premise)
    PROVE  \E l \in 1 .. n + 1 : Reached(a, from, arrival(a, from, s.queue[1], to), to, l)
<1>1. PICK at : at = s.queue[1]
  OBVIOUS
<1> DEFINE D == d[at.premise]
<1>2. Len(s.queue) \in Nat /\ 1 \in 1 .. Len(s.queue)
  BY DEF Searching
<1>3. /\ at.premise \in s.visited /\ Known(a, from, at, D)
      /\ \A j \in 1 .. Len(s.queue) : D <= d[s.queue[j].premise]
  <2>1. /\ s.queue[1].premise \in s.visited /\ Known(a, from, s.queue[1], d[s.queue[1].premise])
        /\ \A j \in 1 .. Len(s.queue) : d[s.queue[1].premise] <= d[s.queue[j].premise]
    BY <1>2, Zenon DEF Searching
  <2> QED
    BY <1>1, <2>1, Zenon
<1>4. D \in 0 .. n /\ D \in Nat /\ D + 1 \in 1 .. n + 1
  <2>1. D \in 0 .. n
    BY <1>3 DEF Searching
  <2> QED
    BY <2>1
<1>5. to \in premisesOf(a) /\ to # from /\ flow(a, at.premise, to) # {}
  BY <1>1 DEF edges, Searching
<1>6. arrival(a, from, at, to).premise = to /\ Known(a, from, arrival(a, from, at, to), D + 1)
  <2> HIDE DEF D
  <2> QED
    BY <1>3, <1>4, <1>5, ArrivalKnown
<1>7. ASSUME NEW m \in Nat, NEW w \in waysOf(a, from, to, m)
      PROVE  D + 1 <= m
  <2>1. PICK k \in 0 .. m : k < m /\ w[k] \in queued(s) /\ d[w[k]] <= k
    BY WayOut
  <2>2. PICK j \in 1 .. Len(s.queue) : w[k] = s.queue[j].premise
    BY <2>1 DEF queued, Searching
  <2>3. D <= d[w[k]] /\ d[w[k]] \in Nat
    <3>1. w[k] \in s.visited
      BY <2>2, Zenon DEF Searching
    <3>2. d[w[k]] \in 0 .. n
      BY <3>1 DEF Searching
    <3> QED
      BY <1>3, <2>2, <3>2
  <2> HIDE DEF D
  <2> QED
    BY <1>4, <2>1, <2>3
<1> HIDE DEF D
<1>8. Reached(a, from, arrival(a, from, at, to), to, D + 1)
  BY <1>6, <1>7 DEF Reached
<1> QED
  BY <1>1, <1>4, <1>8

LEMMA ExhaustedIsUnreached ==
    ASSUME NEW a, NEW from, NEW to, NEW s, NEW d, NEW n \in Nat,
           Searching(a, from, to, s, d, n), Len(s.queue) = 0
    PROVE  Unreached(a, from, to)
<1> SUFFICES ASSUME NEW m \in Nat, NEW w \in waysOf(a, from, to, m) PROVE FALSE
  BY DEF Unreached
<1>1. PICK k \in 0 .. m : w[k] \in queued(s)
  BY WayOut
<1>2. queued(s) = {}
  BY DEF queued, Searching
<1> QED
  BY <1>1, <1>2

\* No more premises are handled than there are, short of what is sought.
LEMMA HandlesFew ==
    ASSUME NEW a, IsFiniteSet(premisesOf(a)), NEW from, NEW to \in premisesOf(a),
           NEW s, NEW d, NEW n \in Nat, Searching(a, from, to, s, d, n)
    PROVE  n < Cardinality(premisesOf(a))
<1>1. handled(s) \in SUBSET premisesOf(a) /\ to \notin handled(s)
  BY DEF handled, Searching
<1>2. IsFiniteSet(handled(s)) /\ handled(s) \subseteq premisesOf(a) /\ handled(s) # premisesOf(a)
  BY <1>1, FS_Subset
<1>3. Cardinality(handled(s)) < Cardinality(premisesOf(a))
  <2>1. Cardinality(handled(s)) \in Nat /\ Cardinality(premisesOf(a)) \in Nat
    BY <1>2, FS_CardinalityType
  <2>2. /\ Cardinality(handled(s)) <= Cardinality(premisesOf(a))
        /\ Cardinality(handled(s)) = Cardinality(premisesOf(a)) => handled(s) = premisesOf(a)
    BY <1>1, FS_Subset
  <2> QED
    BY <1>2, <2>1, <2>2
<1> QED
  BY <1>3 DEF Searching

\* Before anything is handled.
LEMMA StartSearches ==
    ASSUME NEW a, NEW from \in premisesOf(a), NEW to, to # from
    PROVE  \E d : Searching(a, from, to,
                     [queue |-> << [premise |-> from, match |-> TRUE, entry |-> {}] >>,
                      visited |-> {from}, found |-> << >>], d, 0)
<1> DEFINE first == [premise |-> from, match |-> TRUE, entry |-> {}]
           s == [queue |-> << first >>, visited |-> {from}, found |-> << >>]
           d == [x \in {from} |-> 0]
<1>1. first.premise = from /\ first.match = TRUE
  OBVIOUS
<1>2. Known(a, from, first, 0)
  <2>1. Tells(a, from, from, 0, TRUE)
    BY NoStep
  <2> HIDE DEF first
  <2> QED
    BY <1>1, <2>1 DEF Known
<1> HIDE DEF first
<1>3. s.found = << >> /\ s.visited = {from} /\ s.queue = << first >>
  OBVIOUS
<1>4. Len(s.queue) = 1 /\ s.queue = [i \in 1 .. 1 |-> s.queue[i]] /\ s.queue[1] = first
      /\ \A i \in 1 .. Len(s.queue) : i = 1
  BY <1>3
<1> HIDE DEF s
<1>5. handled(s) = {} /\ Cardinality(handled(s)) = 0
  <2>1. queued(s) = {from}
    BY <1>1, <1>3 DEF queued
  <2> QED
    BY <1>3, <2>1, FS_EmptySet DEF handled
<1>6. d \in [s.visited -> 0 .. 0] /\ d[from] = 0
  BY <1>3
<1> HIDE DEF d
<1>7. \A i \in 1 .. Len(s.queue) :
        LET at == s.queue[i]
        IN  /\ at.premise \in s.visited
            /\ Known(a, from, at, d[at.premise])
            /\ \A j \in 1 .. Len(s.queue) : s.queue[j].premise = at.premise => j = i
            /\ \A j \in i .. Len(s.queue) : d[at.premise] <= d[s.queue[j].premise]
            /\ d[at.premise] <= d[s.queue[1].premise] + 1
            /\ \A x \in handled(s) : d[x] <= d[at.premise]
  BY <1>1, <1>2, <1>3, <1>4, <1>5, <1>6
<1>8. Searching(a, from, to, s, d, 0)
  BY <1>3, <1>4, <1>5, <1>6, <1>7 DEF Searching
<1> QED
  BY <1>8 DEF s, first

\* One turn of the search.
turn(a, from, to, s) ==
    IF s.queue = << >> \/ s.found # << >> THEN s
    ELSE IF to \in edges(a, Head(s.queue).premise)
    THEN [s EXCEPT !.found = << arrival(a, from, Head(s.queue), to) >>]
    ELSE handle(a, from, s, Head(s.queue),
                inOrder(a, edges(a, Head(s.queue).premise) \ s.visited))

\* The states the search goes through.
ways(a, from) == {{}} \cup {flow(a, from, q) : q \in premisesOf(a)}
Items(a, from) == [premise : premisesOf(a), match : BOOLEAN, entry : ways(a, from)]
States(a, from) ==
    [queue : Seq(Items(a, from)), visited : SUBSET premisesOf(a), found : Seq(Items(a, from))]

InDistinctOrder(a) == /\ IsFiniteSet(premisesOf(a))
             /\ \A p, q \in premisesOf(a) :
                   a.premiseRank[p] \in Nat /\ (a.premiseRank[p] = a.premiseRank[q] => p = q)

LEMMA ArrivalTyped ==
    ASSUME NEW a, NEW from, NEW at \in Items(a, from), NEW q \in premisesOf(a)
    PROVE  arrival(a, from, at, q) \in Items(a, from)
<1>1. PICK m, y : /\ m = (IF at.premise = from THEN allMatch(flow(a, from, q))
                            ELSE alongStep(at.match, allMatch(flow(a, at.premise, q))))
                  /\ y = (IF at.premise = from THEN flow(a, from, q) ELSE at.entry)
  OBVIOUS
<1>2. m \in BOOLEAN
  BY <1>1, Zenon DEF allMatch, alongStep
<1>3. y \in ways(a, from)
  BY <1>1 DEF ways, Items
<1>4. arrival(a, from, at, q) = [premise |-> q, match |-> m, entry |-> y]
  BY <1>1 DEF arrival
<1> QED
  BY <1>2, <1>3, <1>4 DEF Items

LEMMA FreshIs ==
    ASSUME NEW a, InDistinctOrder(a), NEW p, NEW met
    PROVE  Lists(inOrder(a, edges(a, p) \ met), Cardinality(edges(a, p) \ met), edges(a, p) \ met)
<1> DEFINE E == edges(a, p) \ met
<1>1. E \in SUBSET premisesOf(a)
  BY DEF edges
<1>2. IsFiniteSet(E)
  BY <1>1, FS_Subset DEF InDistinctOrder
<1>3. \A x, y \in E : a.premiseRank[x] \in Nat /\ (a.premiseRank[x] = a.premiseRank[y] => x = y)
  BY <1>1 DEF InDistinctOrder
<1> HIDE DEF E
<1>4. Cardinality(E) \in Nat
  BY <1>2, FS_CardinalityType
<1>5. /\ inOrder(a, E) \in [1 .. Cardinality(E) -> E]
      /\ \A x \in E : \E k \in 1 .. Cardinality(E) : inOrder(a, E)[k] = x
      /\ \A j, k \in 1 .. Cardinality(E) : inOrder(a, E)[j] = inOrder(a, E)[k] => j = k
  BY <1>2, <1>3, InOrderIs
<1>6. Lists(inOrder(a, E), Cardinality(E), E)
  BY <1>4, <1>5 DEF Lists
<1> QED
  BY <1>6 DEF E

LEMMA TurnTyped ==
    ASSUME NEW a, InDistinctOrder(a), NEW from \in premisesOf(a), NEW to \in premisesOf(a),
           NEW s \in States(a, from)
    PROVE  turn(a, from, to, s) \in States(a, from)
<1>1. CASE s.queue = << >> \/ s.found # << >>
  BY <1>1 DEF turn
<1>2. CASE ~(s.queue = << >> \/ s.found # << >>)
  <2>1. PICK at : at = Head(s.queue)
    OBVIOUS
  <2>2. s.queue \in Seq(Items(a, from)) /\ s.visited \subseteq premisesOf(a)
    BY DEF States
  <2>3. at \in Items(a, from) /\ Tail(s.queue) \in Seq(Items(a, from))
    <3>1. \A Q : \A u \in Seq(Q) : u # << >> => Head(u) \in Q /\ Tail(u) \in Seq(Q)
      OBVIOUS
    <3> QED
      BY <1>2, <2>1, <2>2, <3>1
  <2>4. CASE to \in edges(a, at.premise)
    <3>1. PICK item \in Items(a, from) : item = arrival(a, from, at, to)
      BY <2>3, ArrivalTyped
    <3>2. turn(a, from, to, s) = [s EXCEPT !.found = << item >>]
      BY <1>2, <2>1, <2>4, <3>1 DEF turn
    <3>3. << item >> \in Seq(Items(a, from))
      OBVIOUS
    <3> QED
      BY <3>2, <3>3 DEF States
  <2>5. CASE to \notin edges(a, at.premise)
    <3>1. PICK new : new = inOrder(a, edges(a, at.premise) \ s.visited)
      OBVIOUS
    <3>2. PICK E, M : E = edges(a, at.premise) \ s.visited /\ M = Cardinality(E)
      OBVIOUS
    <3>3. M \in Nat /\ new \in [1 .. M -> E]
      BY <3>1, <3>2, FreshIs DEF Lists
    <3>4. \A k \in 1 .. M : new[k] \in premisesOf(a)
      <4>1. E \subseteq premisesOf(a)
        BY <3>2 DEF edges
      <4> QED
        BY <3>3, <4>1
    <3>5. PICK fresh : fresh = [k \in DOMAIN new |-> arrival(a, from, at, new[k])]
      OBVIOUS
    <3>6. fresh \in Seq(Items(a, from))
      <4>1. \A k \in 1 .. M : arrival(a, from, at, new[k]) \in Items(a, from)
        BY <2>3, <3>4, ArrivalTyped
      <4>2. fresh \in [1 .. M -> Items(a, from)]
        BY <3>3, <3>5, <4>1
      <4> QED
        BY <3>3, <4>2
    <3>7. Tail(s.queue) \o fresh \in Seq(Items(a, from))
      BY <2>3, <3>6
    <3>8. turn(a, from, to, s) =
            [queue |-> Tail(s.queue) \o fresh,
             visited |-> s.visited \cup edges(a, at.premise), found |-> << >>]
      BY <1>2, <2>1, <2>5, <3>1, <3>5, Zenon DEF turn, handle
    <3>9. edges(a, at.premise) \subseteq premisesOf(a)
      BY DEF edges
    <3>10. << >> \in Seq(Items(a, from))
      OBVIOUS
    <3> QED
      BY <2>2, <3>7, <3>8, <3>9, <3>10 DEF States
  <2> QED
    BY <2>4, <2>5
<1> QED
  BY <1>1, <1>2

\* What the search knows after n turns, of N at most.
Progress(a, from, to, s, n, N) ==
    \/ \E d : Searching(a, from, to, s, d, n)
    \/ \E item : s.found = << item >> /\ \E l \in 1 .. N : Reached(a, from, item, to, l)
    \/ s.found = << >> /\ s.queue = << >> /\ Unreached(a, from, to)

LEMMA TurnProgresses ==
    ASSUME NEW a, InDistinctOrder(a), NEW from \in premisesOf(a), NEW to \in premisesOf(a),
           NEW s \in States(a, from), NEW n \in Nat, NEW N \in Nat, n < N,
           Progress(a, from, to, s, n, N)
    PROVE  Progress(a, from, to, turn(a, from, to, s), n + 1, N)
<1>1. CASE \E item : s.found = << item >> /\ \E l \in 1 .. N : Reached(a, from, item, to, l)
  <2>1. s.found # << >>
    BY <1>1
  <2>2. turn(a, from, to, s) = s
    BY <2>1 DEF turn
  <2> QED
    BY <1>1, <2>2 DEF Progress
<1>2. CASE s.found = << >> /\ s.queue = << >> /\ Unreached(a, from, to)
  <2>1. turn(a, from, to, s) = s
    BY <1>2 DEF turn
  <2> QED
    BY <1>2, <2>1 DEF Progress
<1>3. ASSUME NEW d, Searching(a, from, to, s, d, n)
      PROVE  Progress(a, from, to, turn(a, from, to, s), n + 1, N)
  <2>1. s.found = << >>
    BY <1>3 DEF Searching
  <2>2. s.queue \in Seq(Items(a, from))
    BY DEF States
  <2>3. CASE s.queue = << >>
    <3>1. Len(s.queue) = 0
      BY <2>3
    <3>2. Unreached(a, from, to)
      BY <1>3, <3>1, ExhaustedIsUnreached
    <3>3. turn(a, from, to, s) = s
      BY <2>3 DEF turn
    <3> QED
      BY <2>1, <2>3, <3>2, <3>3 DEF Progress
  <2>4. CASE s.queue # << >>
    <3>1. PICK at : at = Head(s.queue) /\ at = s.queue[1] /\ at \in Items(a, from) /\ Len(s.queue) > 0
      <4>1. \A Q : \A u \in Seq(Q) : u # << >> => Head(u) \in Q /\ Head(u) = u[1] /\ Len(u) > 0
        OBVIOUS
      <4>2. Head(s.queue) = s.queue[1] /\ Head(s.queue) \in Items(a, from) /\ Len(s.queue) > 0
        BY <2>2, <2>4, <4>1
      <4> QED
        BY <4>2
    <3>2. CASE to \in edges(a, at.premise)
      <4>1. PICK l \in 1 .. n + 1 : Reached(a, from, arrival(a, from, at, to), to, l)
        BY <1>3, <3>1, <3>2, FoundIsShortest
      <4>2. l \in 1 .. N
        OBVIOUS
      <4>3. PICK item : item = arrival(a, from, at, to)
        OBVIOUS
      <4>4. turn(a, from, to, s) = [s EXCEPT !.found = << item >>]
        BY <2>1, <2>4, <3>1, <3>2, <4>3 DEF turn
      <4>5. turn(a, from, to, s).found = << item >>
        BY <4>4 DEF States
      <4> QED
        BY <4>1, <4>2, <4>3, <4>5 DEF Progress
    <3>3. CASE to \notin edges(a, at.premise)
      <4>1. PICK E, M, new : /\ E = edges(a, at.premise) \ s.visited /\ M = Cardinality(E)
                             /\ new = inOrder(a, E)
        OBVIOUS
      <4>2. Lists(new, M, edges(a, at.premise) \ s.visited)
        BY <4>1, FreshIs
      <4>3. \A q \in edges(a, at.premise) : arrival(a, from, at, q) \in Items(a, from)
        <5>1. edges(a, at.premise) \subseteq premisesOf(a)
          BY DEF edges
        <5> QED
          BY <3>1, <5>1, ArrivalTyped
      <4>4. turn(a, from, to, s) = handle(a, from, s, at, new)
        BY <2>1, <2>4, <3>1, <3>3, <4>1 DEF turn
      <4>5. IsFiniteSet(premisesOf(a))
        BY DEF InDistinctOrder
      <4>6. \E e : Searching(a, from, to, handle(a, from, s, at, new), e, n + 1)
        BY <1>3, <2>2, <2>4, <3>1, <3>3, <4>2, <4>3, <4>5, HandleKeeps
      <4> QED
        BY <3>1, <4>4, <4>6 DEF Progress
    <3> QED
      BY <3>2, <3>3
  <2> QED
    BY <2>3, <2>4
<1> QED
  BY <1>1, <1>2, <1>3 DEF Progress

\* Breadth first finds a shortest way if there is one.
LEMMA SearchIs ==
    ASSUME NEW a, InDistinctOrder(a), NEW from \in premisesOf(a), NEW to \in premisesOf(a), to # from
    PROVE  \/ \E item : /\ bfsToTarget(a, from, to) = << item >>
                        /\ \E l \in 1 .. Cardinality(premisesOf(a)) : Reached(a, from, item, to, l)
           \/ bfsToTarget(a, from, to) = << >> /\ Unreached(a, from, to)
<1> DEFINE N == Cardinality(premisesOf(a))
           D == 0 .. N
           V == States(a, from)
           start == [queue |-> << [premise |-> from, match |-> TRUE, entry |-> {}] >>,
                     visited |-> {from}, found |-> << >>]
           body(g) == [n \in D |-> IF n = 0 THEN start ELSE turn(a, from, to, g[n - 1])]
           B == [g \in [D -> V] |-> body(g)]
           below == [n \in D |-> {n - 1}]
           search == CHOOSE g : g = body(g)
<1>1. bfsToTarget(a, from, to) = search[N].found
  BY Zenon DEF bfsToTarget, turn, handle, arrival
<1>2. N \in Nat
  BY FS_CardinalityType DEF InDistinctOrder
<1>3. start \in V
  <2>1. PICK item \in Items(a, from) : item = [premise |-> from, match |-> TRUE, entry |-> {}]
    BY DEF Items, ways
  <2>2. << item >> \in Seq(Items(a, from)) /\ << >> \in Seq(Items(a, from))
    OBVIOUS
  <2> QED
    BY <2>1, <2>2 DEF States
<1>4. \E d : Searching(a, from, to, start, d, 0)
  BY StartSearches
<1> HIDE DEF N, start
<1>5. \A n \in D : n # 0 => n - 1 \in D
  BY <1>2
<1>6. \A s \in V : turn(a, from, to, s) \in V
  BY TurnTyped
<1>7. Total(D, V, B)
  <2>1. \A g \in [D -> V] : \A n \in D : n # 0 => g[n - 1] \in V
    <3> HIDE DEF V, D
    <3> QED
      BY <1>5
  <2> HIDE DEF V, D
  <2> QED
    BY <1>3, <1>6, <2>1 DEF Total
<1>8. Local(D, V, below, B)
  <2> SUFFICES ASSUME NEW g \in [D -> V], NEW h \in [D -> V], NEW n \in D,
                      \A d \in below[n] \cap D : g[d] = h[d]
               PROVE  B[g][n] = B[h][n]
    BY DEF Local
  <2>1. n # 0 => g[n - 1] = h[n - 1]
    BY <1>5
  <2> HIDE DEF V, D
  <2> QED
    BY <2>1
<1>9. Founded(D, below)
  <2> SUFFICES ASSUME NEW T \in SUBSET D, T # {}
               PROVE  \E n \in T : below[n] \cap T = {}
    BY DEF Founded
  <2>1. T \in SUBSET Nat
    BY <1>2
  <2>2. PICK n \in T : \A m \in T : n <= m
    BY <2>1, LeastNumber
  <2>3. n - 1 \notin T
    BY <2>1, <2>2
  <2> QED
    BY <2>3
<1>10. PICK f \in [D -> V] : f = B[f]
  <2>1. V # {}
    BY <1>3
  <2> HIDE DEF V, D, B, below
  <2> QED
    BY <1>7, <1>8, <1>9, <2>1, Recursion
<1>11. f = body(f)
  BY <1>10
<1> HIDE DEF body, B, below
<1>12. search = body(search)
  BY <1>11
<1> HIDE DEF search
<1>13. search[0] = start
  BY <1>2, <1>12 DEF body
<1>14. ASSUME NEW i \in D, i # 0
       PROVE  search[i] = turn(a, from, to, search[i - 1])
  BY <1>12, <1>14 DEF body
<1> DEFINE Bad == {n \in D : ~(search[n] \in V /\ Progress(a, from, to, search[n], n, N))}
<1>15. Bad = {}
  <2> SUFFICES ASSUME Bad # {} PROVE FALSE
    OBVIOUS
  <2>1. PICK n \in Bad : \A m \in Bad : n <= m
    <3>1. Bad \in SUBSET Nat
      BY <1>2
    <3> HIDE DEF Bad
    <3> QED
      BY <3>1, LeastNumber
  <2>2. n \in D /\ ~(search[n] \in V /\ Progress(a, from, to, search[n], n, N))
    BY <2>1
  <2>3. n # 0
    BY <1>3, <1>4, <1>13, <2>2 DEF Progress
  <2>4. PICK m \in Nat : m = n - 1 /\ m \in D /\ n = m + 1 /\ m < N /\ ~(n <= m)
    <3>1. n - 1 \in Nat /\ n - 1 \in D /\ n = (n - 1) + 1 /\ n - 1 < N /\ ~(n <= n - 1)
      BY <1>2, <2>2, <2>3
    <3> QED
      BY <3>1
  <2>5. m \notin Bad
    BY <2>1, <2>4
  <2>6. search[m] \in V /\ Progress(a, from, to, search[m], m, N)
    BY <2>4, <2>5
  <2>7. search[n] = turn(a, from, to, search[m])
    BY <1>14, <2>2, <2>3, <2>4
  <2>8. search[n] \in V
    BY <1>6, <2>6, <2>7
  <2>9. Progress(a, from, to, turn(a, from, to, search[m]), m + 1, N)
    BY <1>2, <2>4, <2>6, TurnProgresses
  <2> QED
    BY <2>2, <2>4, <2>7, <2>8, <2>9
<1>16. Progress(a, from, to, search[N], N, N)
  <2>1. N \in D
    BY <1>2
  <2> QED
    BY <1>15, <2>1
<1>17. ~ \E d : Searching(a, from, to, search[N], d, N)
  <2> SUFFICES ASSUME NEW d, Searching(a, from, to, search[N], d, N) PROVE FALSE
    OBVIOUS
  <2>1. N < N
    BY <1>2, HandlesFew DEF InDistinctOrder, N
  <2> QED
    BY <1>2, <2>1
<1> QED
  BY <1>1, <1>16, <1>17 DEF Progress, N

\* So relations between premises follow shortest ways.
LEMMA RelationsFollow ==
    ASSUME NEW a, InDistinctOrder(a)
    PROVE  FollowsShortestWay(a)
<1> SUFFICES ASSUME NEW p \in premisesOf(a), NEW q \in premisesOf(a) \ {p}
             PROVE  LET lengths == {n \in 1 .. Cardinality(premisesOf(a)) : waysOf(a, p, q, n) # {}}
                        shortest == CHOOSE n \in lengths : \A m \in lengths : n <= m
                    IN  IF lengths = {} THEN ~leadsTo(a, p, q)
                        ELSE /\ leadsTo(a, p, q)
                             /\ isTransitive(a, p, q) <=> shortest > 1
                             /\ isTransitive(a, p, q) =>
                                  \E w \in waysOf(a, p, q, shortest) :
                                     ("contradicting" \in variableDetails(a, p, q))
                                        <=> (mismatches(a, w, shortest) % 2 = 1)
  BY DEF FollowsShortestWay
<1> DEFINE lengths == {n \in 1 .. Cardinality(premisesOf(a)) : waysOf(a, p, q, n) # {}}
           shortest == CHOOSE n \in lengths : \A m \in lengths : n <= m
<1>0. Cardinality(premisesOf(a)) \in Nat
  BY FS_CardinalityType DEF InDistinctOrder
<1>1. CASE bfsToTarget(a, p, q) = << >> /\ Unreached(a, p, q)
  <2>1. lengths = {}
    <3>1. \A n \in 1 .. Cardinality(premisesOf(a)) : n \in Nat
      OBVIOUS
    <3> QED
      BY <1>1, <3>1 DEF Unreached
  <2>2. ~leadsTo(a, p, q)
    BY <1>1 DEF leadsTo
  <2> QED
    BY <2>1, <2>2
<1>2. ASSUME NEW item, bfsToTarget(a, p, q) = << item >>,
             NEW l \in 1 .. Cardinality(premisesOf(a)), Reached(a, p, item, q, l)
      PROVE  /\ lengths # {} /\ leadsTo(a, p, q)
             /\ isTransitive(a, p, q) <=> shortest > 1
             /\ isTransitive(a, p, q) =>
                  \E w \in waysOf(a, p, q, shortest) :
                     ("contradicting" \in variableDetails(a, p, q))
                        <=> (mismatches(a, w, shortest) % 2 = 1)
  <2>1. /\ item.premise = q /\ item.match \in BOOLEAN /\ item.entry # {}
        /\ Tells(a, p, q, l, item.match)
        /\ \A m \in Nat : waysOf(a, p, q, m) # {} => l <= m
    BY <1>2, Zenon DEF Reached, Known
  <2>2. PICK w \in waysOf(a, p, q, l) : item.match <=> (mismatches(a, w, l) % 2 = 0)
    BY <2>1 DEF Tells
  <2>3. l \in lengths /\ l \in Nat
    BY <1>0, <1>2, <2>2
  <2>4. \A m \in lengths : m \in Nat /\ l <= m
    BY <2>1
  <2>5. shortest = l
    <3>1. \A n \in lengths : (\A m \in lengths : n <= m) => n = l
      BY <2>3, <2>4
    <3> HIDE DEF lengths
    <3> QED
      BY <2>3, <2>4, <3>1
  <2> HIDE DEF lengths, shortest
  <2>6. bfsToTarget(a, p, q) # << >> /\ bfsToTarget(a, p, q)[1] = item
    BY <1>2
  <2>7. leadsTo(a, p, q)
    BY <2>6 DEF leadsTo
  <2>8. isTransitive(a, p, q) <=> l > 1
    <3>1. CASE flow(a, p, q) = {}
      <4>1. l # 1
        <5> SUFFICES ASSUME l = 1 PROVE FALSE
          OBVIOUS
        <5>1. w[0] = p /\ w[1] = q /\ 1 \in 1 .. 1 /\ flow(a, w[1 - 1], w[1]) # {}
          BY <2>2 DEF waysOf
        <5>2. 1 - 1 = 0
          OBVIOUS
        <5> QED
          BY <3>1, <5>1, <5>2
      <4> QED
        BY <1>0, <2>7, <3>1, <4>1 DEF isTransitive
    <3>2. CASE flow(a, p, q) # {}
      <4>1. Tells(a, p, q, 0 + 1, alongStep(TRUE, allMatch(flow(a, p, q))))
        BY <3>2, NoStep, StepTells
      <4>2. waysOf(a, p, q, 1) # {}
        BY <4>1 DEF Tells
      <4>3. l <= 1
        BY <2>1, <4>2
      <4> QED
        BY <2>3, <3>2, <4>3 DEF isTransitive
    <3> QED
      BY <3>1, <3>2
  <2>9. ASSUME isTransitive(a, p, q)
        PROVE  ("contradicting" \in variableDetails(a, p, q)) <=> ~item.match
    <3>1. variableDetails(a, p, q) =
            {IF item.match THEN "supporting" ELSE "contradicting" : v \in item.entry}
      BY <2>6, <2>7, <2>9 DEF variableDetails
    <3> QED
      BY <2>1, <3>1
  <2>10. mismatches(a, w, l) \in Nat
    <3>1. IsFiniteSet(1 .. l)
      BY <2>3, FS_Interval
    <3>2. {k \in 1 .. l : ~allMatch(flow(a, w[k - 1], w[k]))} \in SUBSET (1 .. l)
      OBVIOUS
    <3> QED
      BY <3>1, <3>2, FS_Subset, FS_CardinalityType DEF mismatches
  <2>11. ~item.match <=> (mismatches(a, w, l) % 2 = 1)
    <3>1. \A m \in Nat : (m % 2 = 1) <=> ~(m % 2 = 0)
      OBVIOUS
    <3> QED
      BY <2>2, <2>10, <3>1
  <2> QED
    BY <2>2, <2>3, <2>5, <2>7, <2>8, <2>9, <2>11
<1> HIDE DEF lengths, shortest
<1>3. q \in premisesOf(a) /\ q # p
  OBVIOUS
<1>4. \/ bfsToTarget(a, p, q) = << >> /\ Unreached(a, p, q)
      \/ \E item : /\ bfsToTarget(a, p, q) = << item >>
                   /\ \E l \in 1 .. Cardinality(premisesOf(a)) : Reached(a, p, item, q, l)
  BY <1>3, SearchIs
<1>5. CASE \E item : /\ bfsToTarget(a, p, q) = << item >>
                     /\ \E l \in 1 .. Cardinality(premisesOf(a)) : Reached(a, p, item, q, l)
  <2>1. /\ lengths # {} /\ leadsTo(a, p, q)
        /\ isTransitive(a, p, q) <=> shortest > 1
        /\ isTransitive(a, p, q) =>
             \E w \in waysOf(a, p, q, shortest) :
                ("contradicting" \in variableDetails(a, p, q))
                   <=> (mismatches(a, w, shortest) % 2 = 1)
    BY <1>2, <1>5
  <2> QED
    BY <2>1, Zenon DEF lengths, shortest
<1> QED
  BY <1>1, <1>4, <1>5

(***************************************************************************)
(* How premises relate is read off shortest ways: there is an answer when  *)
(* there is a way, and further on it contradicts when the polarity turns   *)
(* an odd number of times on a shortest one, for any argument, circles     *)
(* included (bfsToTarget).                                                 *)
(***************************************************************************)
THEOREM RelationsShortest == EvaluationSpec => []RelationsFollowShortestWay
<1>1. EvaluationInv => RelationsFollowShortestWay
  <2> SUFFICES ASSUME EvaluationInv PROVE FollowsShortestWay(argument)
    BY DEF RelationsFollowShortestWay
  <2>1. Loaded(argument)
    BY EvaluationAssumption DEF EvaluationInv, EvaluationTypes
  <2>2. InDistinctOrder(argument)
    BY <2>1 DEF Loaded, InDistinctOrder
  <2> QED
    BY <2>2, RelationsFollow
<1> QED
  BY <1>1, EvaluationInvariant, PTL

(***************************************************************************)
(* The least and the greatest premise.                                     *)
(***************************************************************************)
\* Any premises have a lowest one, the next conclusion.
LEMMA MinExists ==
    ASSUME NEW S, S \subseteq Nat, S # {}
    PROVE  Min(S) \in S
BY LeastNumber DEF Min

\* Finitely many have a greatest one, the premise of a loaded response.
LEMMA MaxExists ==
    ASSUME NEW S, S \subseteq Nat, S # {}, IsFiniteSet(S)
    PROVE  Max(S) \in S
<1> DEFINE Topless(T) == T # {} /\ \A x \in T : \E y \in T : ~(x >= y)
           Sizes == {n \in Nat : \E T \in SUBSET S : Topless(T) /\ Cardinality(T) = n}
<1>1. Sizes = {}
  <2> SUFFICES ASSUME Sizes # {} PROVE FALSE
    OBVIOUS
  <2>1. PICK n \in Sizes : \A k \in Sizes : n <= k
    BY LeastNumber
  <2>2. PICK T \in SUBSET S : Topless(T) /\ Cardinality(T) = n
    OBVIOUS
  <2>3. PICK x \in T : TRUE
    BY <2>2
  <2>4. IsFiniteSet(T \ {x}) /\ Cardinality(T \ {x}) = n - 1
    BY <2>2, <2>3, FS_Subset, FS_RemoveElement
  <2>5. n - 1 \in Nat /\ n - 1 \notin Sizes
    BY <2>1, <2>4, FS_CardinalityType
  <2>6. ~Topless(T \ {x})
    BY <2>4, <2>5
  <2>7. CASE T \ {x} = {}
    <3>1. T = {x} /\ x \in Nat
      BY <2>3, <2>7
    <3> QED
      BY <2>2, <3>1
  <2>8. CASE T \ {x} # {}
    <3>1. PICK m \in T \ {x} : \A y \in T \ {x} : m >= y
      BY <2>6, <2>8
    <3>2. x \in Nat /\ m \in Nat /\ T \subseteq Nat
      BY <2>3, <3>1
    <3>3. (\A y \in T : m >= y) \/ (\A y \in T : x >= y)
      BY <3>1, <3>2
    <3> QED
      BY <2>2, <2>3, <3>1, <3>3
  <2> QED
    BY <2>7, <2>8
<1>2. Cardinality(S) \in Nat
  BY FS_CardinalityType
<1>3. ~Topless(S)
  BY <1>1, <1>2
<1> QED
  BY <1>3 DEF Max

(***************************************************************************)
(* Circular bindings.                                                      *)
(***************************************************************************)
\* What the recursion visits holds its start and whatever a visited premise
\* is bound to.
LEMMA ReachesIsClosed ==
    ASSUME NEW q \in PremiseId, NEW links, links \subseteq PremiseId \X PremiseId
    PROVE  /\ q \in ReachesFrom(q, links)
           /\ \A e \in links : e[1] \in ReachesFrom(q, links) => e[2] \in ReachesFrom(q, links)
           /\ ReachesFrom(q, links) \subseteq PremiseId
BY DEF ReachesFrom

\* Fewer bindings close no circle.
LEMMA FewerAcyclic ==
    ASSUME NEW links, NEW fewer, fewer \subseteq links, Acyclic(links)
    PROVE  Acyclic(fewer)
<1> SUFFICES ASSUME NEW T \in (SUBSET PremiseId) \ {{}}
             PROVE  {p \in T : \A e \in fewer : e[1] = p => e[2] \notin T} # {}
  BY DEF Acyclic
<1>1. PICK p \in T : \A e \in links : e[1] = p => e[2] \notin T
  BY DEF Acyclic
<1> QED
  BY <1>1

\* The check before an expression is added is enough: a binding from p to a
\* premise from which p is not visited closes no circle.
LEMMA CheckSuffices ==
    ASSUME NEW links, links \subseteq PremiseId \X PremiseId, Acyclic(links),
           NEW p \in PremiseId, NEW q \in PremiseId, p \notin ReachesFrom(q, links),
           NEW more, more \subseteq links \cup {<<p, q>>}
    PROVE  Acyclic(more)
<1> SUFFICES ASSUME NEW T \in (SUBSET PremiseId) \ {{}}
             PROVE  \E x \in T : \A e \in more : e[1] = x => e[2] \notin T
  BY DEF Acyclic
<1> DEFINE R == ReachesFrom(q, links)
<1>1. /\ q \in R /\ R \subseteq PremiseId
      /\ \A e \in links : e[1] \in R => e[2] \in R
  BY ReachesIsClosed
<1> HIDE DEF R
<1>2. CASE q \in T
  <2>1. T \cap R \in (SUBSET PremiseId) \ {{}}
    BY <1>1, <1>2
  <2>2. PICK x \in T \cap R : \A e \in links : e[1] = x => e[2] \notin T \cap R
    BY <2>1 DEF Acyclic
  <2>3. x # p
    BY DEF R
  <2> QED
    BY <1>1, <2>2, <2>3
<1>3. CASE q \notin T
  <2>1. PICK x \in T : \A e \in links : e[1] = x => e[2] \notin T
    BY DEF Acyclic
  <2> QED
    BY <1>3, <2>1
<1> QED
  BY <1>2, <1>3

\* Renaming the premises closes no circle.
LEMMA RenamedAcyclic ==
    ASSUME NEW ps, ps \subseteq PremiseId, NEW f \in Injection(ps, PremiseId),
           NEW links, links \subseteq ps \X ps, Acyclic(links),
           NEW renamed, renamed \subseteq {<<f[e[1]], f[e[2]]>> : e \in links}
    PROVE  Acyclic(renamed)
<1>1. f \in [ps -> PremiseId] /\ \A a, b \in ps : f[a] = f[b] => a = b
  BY DEF Injection, IsInjective
<1> SUFFICES ASSUME NEW T \in (SUBSET PremiseId) \ {{}}
             PROVE  \E x \in T : \A e \in renamed : e[1] = x => e[2] \notin T
  BY DEF Acyclic
<1> DEFINE U == {p \in ps : f[p] \in T}
<1>2. CASE U = {}
  <2>1. \A e \in renamed : e[1] \notin T
    BY <1>2
  <2> QED
    BY <2>1
<1>3. CASE U # {}
  <2> U \in (SUBSET PremiseId) \ {{}}
    BY <1>3
  <2> HIDE DEF U
  <2>1. PICK p \in U : \A e \in links : e[1] = p => e[2] \notin U
    BY DEF Acyclic
  <2> USE DEF U
  <2>2. ASSUME NEW e \in renamed, e[1] = f[p] PROVE e[2] \notin T
    <3>1. PICK d \in links : e = <<f[d[1]], f[d[2]]>>
      OBVIOUS
    <3>2. d[1] \in ps /\ d[2] \in ps
      OBVIOUS
    <3>3. d[1] = p
      BY <1>1, <2>2, <3>1, <3>2
    <3> QED
      BY <2>1, <3>1, <3>2, <3>3
  <2> QED
    BY <2>1, <2>2
<1> QED
  BY <1>2, <1>3

(***************************************************************************)
(* The inductive invariant: what the snapshots hold is as good as what the *)
(* engine holds, and no two expressions share an id.                       *)
(***************************************************************************)
Typed(ps, vs, ls, c) ==
    /\ ps \subseteq PremiseId
    /\ DOMAIN vs \subseteq VarId
    /\ \A v \in DOMAIN vs : vs[v] \in Binding
    /\ ls \subseteq Leaf
    /\ \A l, m \in ls : l.id = m.id => l = m
    /\ c \in PremiseId \cup {NoPremise}

Undoable == {"createPremise", "removePremise", "addVariable",
             "bindVariableToExpression", "updateVariable", "removeVariable",
             "setConclusionPremise", "clearConclusionPremise"}

SavedIsSound ==
    \A s \in saved : /\ Typed(s.premises, s.variables, s.leaves, s.conclusion)
                     /\ Valid(s.premises, s.variables, s.leaves, s.conclusion)

IInv ==
    /\ isResponse \in BOOLEAN
    /\ Typed(premises, variables, leaves, conclusion)
    /\ StaysValid
    /\ IndexAgrees
    /\ OnlyRebindIsUndone
    /\ saved = {} \/ \E s : saved = {s}
    /\ SavedIsSound

\* The index of expressions with ids of their own answers with their premises,
\* and what does so is the index.
LEMMA IndexIs ==
    ASSUME NEW ls, \A l, m \in ls : l.id = m.id => l = m
    PROVE  /\ DOMAIN IndexOf(ls) = idsOf(ls)
           /\ \A l \in ls : IndexOf(ls)[l.id] = l.premise
           /\ \A ix : /\ ix = [e \in idsOf(ls) |-> ix[e]]
                      /\ \A l \in ls : ix[l.id] = l.premise
                      => ix = IndexOf(ls)
<1>1. ASSUME NEW l \in ls PROVE IndexOf(ls)[l.id] = l.premise
  BY DEF IndexOf, idsOf
<1>2. ASSUME NEW ix, ix = [e \in idsOf(ls) |-> ix[e]],
             \A l \in ls : ix[l.id] = l.premise
      PROVE  ix = IndexOf(ls)
  <2>1. \A e \in idsOf(ls) : ix[e] = IndexOf(ls)[e]
    BY <1>1, <1>2 DEF idsOf
  <2>2. IndexOf(ls) = [e \in idsOf(ls) |-> IndexOf(ls)[e]]
    BY DEF IndexOf
  <2> QED
    BY <1>2, <2>1, <2>2
<1> QED
  BY <1>1, <1>2 DEF IndexOf

\* Which premises an expression relates.
LEMMA EdgesAre ==
    ASSUME NEW ps, NEW vs, NEW ls, NEW c, Typed(ps, vs, ls, c), Valid(ps, vs, ls, c)
    PROVE  /\ Edges(vs, ls) \subseteq ps \X ps
           /\ Edges(vs, ls) \subseteq PremiseId \X PremiseId
BY DEF Typed, Valid, Edges

\* The invariant implies the type invariant.
LEMMA IInvIsTyped == IInv => TypeOK
<1> SUFFICES ASSUME IInv PROVE TypeOK
  OBVIOUS
<1>1. Range(variables) \subseteq Binding
  BY DEF IInv, Typed, Range
<1>2. DOMAIN index = idsOf(leaves) /\ \A l \in leaves : index[l.id] = l.premise
  BY IndexIs DEF IInv, Typed, IndexAgrees
<1>3. DOMAIN index \subseteq ExprId /\ Range(index) \subseteq PremiseId
  BY <1>2 DEF IInv, Typed, idsOf, Leaf, Range
<1>4. Cardinality(saved) <= 1
  <2>1. CASE saved = {}
    BY <2>1, FS_EmptySet
  <2>2. CASE \E s : saved = {s}
    <3>1. PICK s : saved = {s}
      BY <2>2
    <3>2. Cardinality(saved) = 1
      BY <3>1, FS_Singleton
    <3> QED
      BY <3>2
  <2> QED
    BY <2>1, <2>2 DEF IInv
<1>5. undone \in {"none", "updateVariable"}
  BY DEF IInv, OnlyRebindIsUndone
<1> QED
  BY <1>1, <1>3, <1>4, <1>5 DEF TypeOK, IInv, Typed

\* A call keeps the invariant when what it would commit is well typed, and
\* valid unless it rebinds a variable.
LEMMA CommitKeeps ==
    ASSUME IInv, NEW op \in Undoable, NEW ps, NEW vs, NEW ls, NEW ix, NEW c,
           Typed(ps, vs, ls, c), ix = IndexOf(ls),
           op = "updateVariable" \/ Valid(ps, vs, ls, c),
           Commit(op, ps, vs, ls, ix, c)
    PROVE  IInv'
<1>1. isResponse' = isResponse /\ saved' = saved
  BY DEF Commit
<1>2. SavedIsSound'
  BY <1>1 DEF IInv, SavedIsSound, Typed, Valid
<1>3. CASE Valid(ps, vs, ls, c)
  <2>1. /\ premises' = ps /\ variables' = vs /\ leaves' = ls
        /\ index' = ix /\ conclusion' = c /\ undone' = "none"
    BY <1>3 DEF Commit
  <2> QED
    BY <1>1, <1>2, <1>3, <2>1
       DEF IInv, StaysValid, Valid, IndexAgrees, OnlyRebindIsUndone, Typed
<1>4. CASE ~Valid(ps, vs, ls, c)
  <2>1. /\ premises' = premises /\ variables' = variables /\ leaves' = leaves
        /\ index' = index /\ conclusion' = conclusion /\ undone' = op
    BY <1>4 DEF Commit, content
  <2>2. OnlyRebindIsUndone'
    BY <1>4, <2>1 DEF OnlyRebindIsUndone
  <2> QED
    BY <1>1, <1>2, <2>1, <2>2 DEF IInv, StaysValid, Valid, IndexAgrees, Typed
<1> QED
  BY <1>3, <1>4

\* So does a call that restores a sound snapshot and gives it up.
LEMMA RestoreKeeps ==
    ASSUME IInv, NEW s, NEW op, Restore(s, op),
           Typed(s.premises, s.variables, s.leaves, s.conclusion),
           Valid(s.premises, s.variables, s.leaves, s.conclusion),
           saved' = {}, isResponse' = isResponse
    PROVE  IInv'
<1>1. /\ premises' = s.premises /\ variables' = s.variables
      /\ leaves' = s.leaves /\ index' = IndexOf(s.leaves)
      /\ conclusion' = s.conclusion /\ undone' = "none"
  BY DEF Restore
<1> QED
  BY <1>1 DEF IInv, StaysValid, Valid, IndexAgrees, OnlyRebindIsUndone, Typed, SavedIsSound

(***************************************************************************)
(* What the operations make of a sound state.                              *)
(***************************************************************************)
Sound(ps, vs, ls, c) == Typed(ps, vs, ls, c) /\ Valid(ps, vs, ls, c)

\* A variable nothing names yet, bound to what is there, and premises more.
LEMMA FreshVariable ==
    ASSUME NEW ps, NEW vs, NEW ls, NEW c, Sound(ps, vs, ls, c),
           NEW v \in VarId, v \notin DOMAIN vs, NEW b \in Binding,
           NEW more, ps \subseteq more, more \subseteq PremiseId,
           b.kind = "premise" => b.to \in more,
           b.kind = "expression" => isResponse,
           NEW d \in more \cup {NoPremise}
    PROVE  Sound(more, With(vs, v, b), ls, d)
<1> DEFINE ws == With(vs, v, b)
<1>1. /\ DOMAIN ws = DOMAIN vs \cup {v} /\ ws[v] = b
      /\ \A x \in DOMAIN vs : ws[x] = vs[x]
  BY DEF With
<1> HIDE DEF ws
<1>2. Typed(more, ws, ls, d)
  BY <1>1 DEF Sound, Typed
<1>3. Edges(ws, ls) \subseteq Edges(vs, ls)
  <2>1. \A l \in ls : l.variable \in DOMAIN vs
    BY DEF Sound, Valid
  <2> QED
    BY <1>1, <2>1 DEF Edges
<1>4. Acyclic(Edges(ws, ls))
  BY <1>3, FewerAcyclic DEF Sound, Valid
<1>5. Valid(more, ws, ls, d)
  BY <1>1, <1>4 DEF Sound, Valid
<1> QED
  BY <1>2, <1>5 DEF ws, Sound

\* Variables, expressions and premises less, with nothing left hanging.
LEMMA Removed ==
    ASSUME NEW ps, NEW vs, NEW ls, NEW c, Sound(ps, vs, ls, c),
           NEW rest, rest \subseteq ps, NEW gone, NEW fewer, fewer \subseteq ls,
           \A l \in fewer : l.premise \in rest /\ l.variable \notin gone,
           \A v \in DOMAIN vs \ gone : vs[v].kind = "premise" => vs[v].to \in rest,
           NEW d \in rest \cup {NoPremise}
    PROVE  Sound(rest, Without(vs, gone), fewer, d)
<1> DEFINE ws == Without(vs, gone)
<1>1. /\ DOMAIN ws = DOMAIN vs \ gone
      /\ \A x \in DOMAIN vs \ gone : ws[x] = vs[x]
  BY DEF Without, Restrict
<1> HIDE DEF ws
<1>2. Typed(rest, ws, fewer, d)
  BY <1>1 DEF Sound, Typed
<1>3. Edges(ws, fewer) \subseteq Edges(vs, ls)
  BY <1>1 DEF Edges
<1>4. Acyclic(Edges(ws, fewer))
  BY <1>3, FewerAcyclic DEF Sound, Valid
<1>5. Valid(rest, ws, fewer, d)
  BY <1>1, <1>4 DEF Sound, Valid
<1> QED
  BY <1>2, <1>5 DEF ws, Sound

\* An expression over a variable bound to a claim.
LEMMA ClaimNamed ==
    ASSUME NEW ps, NEW vs, NEW ls, NEW c, Sound(ps, vs, ls, c),
           NEW p \in ps, NEW w \in DOMAIN vs, vs[w].kind = "claim",
           NEW e \in ExprId, e \notin idsOf(ls)
    PROVE  Sound(ps, vs, ls \cup {[id |-> e, premise |-> p, variable |-> w]}, c)
<1> DEFINE ms == ls \cup {[id |-> e, premise |-> p, variable |-> w]}
<1>1. Typed(ps, vs, ms, c)
  BY DEF Sound, Typed, Leaf, idsOf
<1>2. Edges(vs, ms) \subseteq Edges(vs, ls)
  BY DEF Edges
<1>3. Acyclic(Edges(vs, ms))
  BY <1>2, FewerAcyclic DEF Sound, Valid
<1>4. Valid(ps, vs, ms, c)
  BY <1>3 DEF Sound, Valid
<1> QED
  BY <1>1, <1>4 DEF Sound

\* The index with one expression more, and with some less.
LEMMA IndexOneMore ==
    ASSUME NEW ls, \A l, m \in ls : l.id = m.id => l = m,
           NEW leaf, leaf.id \notin idsOf(ls)
    PROVE  With(IndexOf(ls), leaf.id, leaf.premise) = IndexOf(ls \cup {leaf})
<1> DEFINE ix == With(IndexOf(ls), leaf.id, leaf.premise)
           ms == ls \cup {leaf}
<1>1. \A l, m \in ms : l.id = m.id => l = m
  BY DEF idsOf
<1>2. DOMAIN IndexOf(ls) = idsOf(ls) /\ \A l \in ls : IndexOf(ls)[l.id] = l.premise
  BY IndexIs
<1>3. idsOf(ms) = idsOf(ls) \cup {leaf.id}
  BY DEF idsOf
<1>4. ix = [x \in idsOf(ms) |-> ix[x]]
  BY <1>2, <1>3 DEF With
<1>5. \A l \in ms : ix[l.id] = l.premise
  BY <1>2, <1>3 DEF With, idsOf
<1> HIDE DEF ix, ms
<1>6. ix = IndexOf(ms)
  BY <1>1, <1>4, <1>5, IndexIs
<1> QED
  BY <1>6 DEF ix, ms

LEMMA IndexSomeLess ==
    ASSUME NEW ls, \A l, m \in ls : l.id = m.id => l = m, NEW gone, gone \subseteq ls
    PROVE  Without(IndexOf(ls), idsOf(gone)) = IndexOf(ls \ gone)
<1> DEFINE ix == Without(IndexOf(ls), idsOf(gone))
           ms == ls \ gone
<1>1. \A l, m \in ms : l.id = m.id => l = m
  OBVIOUS
<1>2. DOMAIN IndexOf(ls) = idsOf(ls) /\ \A l \in ls : IndexOf(ls)[l.id] = l.premise
  BY IndexIs
<1>3. idsOf(ms) = idsOf(ls) \ idsOf(gone)
  BY DEF idsOf
<1>4. ix = [x \in idsOf(ms) |-> ix[x]]
  BY <1>2, <1>3 DEF Without, Restrict
<1>5. \A l \in ms : ix[l.id] = l.premise
  <2>1. \A l \in ms : l.id \in idsOf(ms) /\ l \in ls
    BY DEF idsOf
  <2> QED
    BY <1>2, <1>3, <2>1 DEF Without, Restrict
<1> HIDE DEF ix, ms
<1>6. ix = IndexOf(ms)
  BY <1>1, <1>4, <1>5, IndexIs
<1> QED
  BY <1>6 DEF ix, ms

(***************************************************************************)
(* One lemma per operation.                                                *)
(***************************************************************************)
LEMMA IInvParts ==
    ASSUME IInv
    PROVE  /\ Sound(premises, variables, leaves, conclusion)
           /\ index = IndexOf(leaves)
           /\ \A l, m \in leaves : l.id = m.id => l = m
           /\ \A l \in leaves : l \in Leaf /\ l.premise \in premises
                                /\ l.variable \in DOMAIN variables
           /\ \A v \in DOMAIN variables : variables[v] \in Binding
           /\ premises \subseteq PremiseId
BY DEF IInv, Sound, StaysValid, IndexAgrees, Typed, Valid

LEMMA CreatePremiseKeeps ==
    ASSUME IInv, NEW p \in PremiseId, NEW v \in VarId, createPremise(p, v)
    PROVE  IInv'
<1>1. ToPremise(p) \in Binding /\ ToPremise(p).kind = "premise" /\ ToPremise(p).to = p
  BY DEF ToPremise, Binding
<1>2. FirstConclusion(p) \in (premises \cup {p}) \cup {NoPremise}
  BY DEF FirstConclusion, IInv, StaysValid, Valid
<1>3. Sound(premises \cup {p}, With(variables, v, ToPremise(p)), leaves, FirstConclusion(p))
  BY <1>1, <1>2, IInvParts, FreshVariable DEF createPremise
<1>4. Commit("createPremise", premises \cup {p}, With(variables, v, ToPremise(p)),
             leaves, index, FirstConclusion(p))
  BY DEF createPremise
<1> QED
  BY <1>3, <1>4, CommitKeeps, IInvParts DEF Undoable, Sound

LEMMA CreateDerivationKeeps ==
    ASSUME IInv, NEW p \in PremiseId, NEW v \in VarId, NEW k \in Claim,
           NEW w \in VarId, NEW e \in ExprId, createDerivation(p, v, k, w, e)
    PROVE  IInv'
<1> DEFINE more == premises \cup {p}
           bound == With(variables, v, ToPremise(p))
           named == With(bound, w, ToClaim(k))
           leaf == [id |-> e, premise |-> p, variable |-> w]
           c == FirstConclusion(p)
<1>1. /\ p \notin premises /\ v \notin DOMAIN variables /\ e \notin idsOf(leaves)
      /\ \/ w \in DOMAIN variables /\ variables[w] = ToClaim(k)
         \/ w \notin DOMAIN bound
      /\ Commit("createPremise", more, named, leaves \cup {leaf}, With(index, e, p), c)
  BY DEF createDerivation
<1>2. /\ ToPremise(p) \in Binding /\ ToPremise(p).kind = "premise" /\ ToPremise(p).to = p
      /\ ToClaim(k) \in Binding /\ ToClaim(k).kind = "claim"
  BY DEF ToPremise, ToClaim, Binding
<1>3. c \in more \cup {NoPremise}
  BY DEF FirstConclusion, IInv, StaysValid, Valid
<1>4. Sound(more, bound, leaves, c)
  <2>1. premises \subseteq more /\ more \subseteq PremiseId /\ p \in more
    BY IInvParts
  <2> HIDE DEF more, named, leaf, c
  <2> QED
    BY <1>1, <1>2, <1>3, <2>1, IInvParts, FreshVariable
<1>5. Sound(more, named, leaves, c)
  <2>1. CASE w \in DOMAIN variables /\ variables[w] = ToClaim(k)
    <3>1. named = bound
      BY <1>1, <2>1 DEF With
    <3> QED
      BY <1>4, <3>1
  <2>2. CASE w \notin DOMAIN bound
    <3>1. more \subseteq PremiseId
      BY IInvParts
    <3> HIDE DEF more, bound, c
    <3> QED
      BY <1>2, <1>3, <1>4, <2>2, <3>1, FreshVariable
  <2> QED
    BY <1>1, <2>1, <2>2
<1>6. w \in DOMAIN named /\ named[w].kind = "claim" /\ p \in more
  BY <1>2 DEF With
<1>7. leaf.id = e /\ leaf.premise = p
  OBVIOUS
<1>8. With(index, e, p) = IndexOf(leaves \cup {leaf})
  <2> HIDE DEF leaf
  <2> QED
    BY <1>1, <1>7, IInvParts, IndexOneMore
<1>9. Sound(more, named, leaves \cup {leaf}, c)
  <2> HIDE DEF more, named, c
  <2> QED
    BY <1>1, <1>5, <1>6, ClaimNamed
<1> HIDE DEF more, named, leaf, c
<1> QED
  BY <1>1, <1>8, <1>9, CommitKeeps DEF Undoable, Sound

LEMMA RemovePremiseKeeps ==
    ASSUME IInv, NEW p \in PremiseId, removePremise(p)
    PROVE  IInv'
<1> DEFINE bound == getVariablesBoundToPremise(p)
           gone  == {l \in leaves : l.premise = p \/ l.variable \in bound}
           rest  == premises \ {p}
           c == IF conclusion # p THEN conclusion
                ELSE IF rest # {} /\ ~isResponse THEN Min(rest) ELSE NoPremise
<1>1. Commit("removePremise", rest, Without(variables, bound), leaves \ gone,
             Without(index, idsOf(gone)), c)
  BY DEF removePremise
<1>2. c \in rest \cup {NoPremise}
  <2>1. rest # {} => Min(rest) \in rest
    BY MinExists, IInvParts, EngineAssumption
  <2>2. conclusion \in premises \cup {NoPremise}
    BY DEF IInv, StaysValid, Valid
  <2> QED
    BY <2>1, <2>2
<1>3. \A l \in leaves \ gone : l.premise \in rest /\ l.variable \notin bound
  BY IInvParts
<1>4. \A x \in DOMAIN variables \ bound :
         variables[x].kind = "premise" => variables[x].to \in rest
  <2> SUFFICES ASSUME NEW x \in DOMAIN variables, x \notin bound,
                      variables[x].kind = "premise"
               PROVE  variables[x].to \in premises /\ variables[x].to # p
    OBVIOUS
  <2>1. variables[x].to \in premises
    BY DEF IInv, StaysValid, Valid
  <2>2. variables[x] = ToPremise(variables[x].to)
    BY IInvParts DEF Binding, ToPremise
  <2> QED
    BY <2>1, <2>2 DEF getVariablesBoundToPremise
<1>5. Without(index, idsOf(gone)) = IndexOf(leaves \ gone)
  BY IInvParts, IndexSomeLess
<1>6. rest \subseteq premises /\ leaves \ gone \subseteq leaves
  OBVIOUS
<1> HIDE DEF bound, gone, rest, c
<1>7. Sound(rest, Without(variables, bound), leaves \ gone, c)
  BY <1>2, <1>3, <1>4, <1>6, IInvParts, Removed
<1> QED
  BY <1>1, <1>5, <1>7, CommitKeeps DEF Undoable, Sound

LEMMA AddVariableKeeps ==
    ASSUME IInv, NEW v \in VarId, NEW b \in Binding, addVariable(v, b)
    PROVE  IInv'
<1>1. /\ v \notin DOMAIN variables /\ b.kind # "expression"
      /\ b.kind = "premise" => b.to \in premises
      /\ Commit("addVariable", premises, With(variables, v, b), leaves, index, conclusion)
  BY DEF addVariable
<1>2. conclusion \in premises \cup {NoPremise}
  BY DEF IInv, StaysValid, Valid
<1>3. Sound(premises, With(variables, v, b), leaves, conclusion)
  BY <1>1, <1>2, IInvParts, FreshVariable
<1> QED
  BY <1>1, <1>3, IInvParts, CommitKeeps DEF Undoable, Sound

LEMMA BindToExpressionKeeps ==
    ASSUME IInv, NEW v \in VarId, NEW x \in Answered, bindVariableToExpression(v, x)
    PROVE  IInv'
<1>1. /\ v \notin DOMAIN variables /\ isResponse
      /\ Commit("bindVariableToExpression", premises,
                With(variables, v, ToExpression(x)), leaves, index, conclusion)
  BY DEF bindVariableToExpression
<1>2. conclusion \in premises \cup {NoPremise}
  BY DEF IInv, StaysValid, Valid
<1>3. ToExpression(x) \in Binding /\ ToExpression(x).kind = "expression"
  BY DEF ToExpression, Binding
<1>4. Sound(premises, With(variables, v, ToExpression(x)), leaves, conclusion)
  BY <1>1, <1>2, <1>3, IInvParts, FreshVariable
<1> QED
  BY <1>1, <1>4, IInvParts, CommitKeeps DEF Undoable, Sound

\* The one operation whose result the validation may refuse.
LEMMA UpdateVariableKeeps ==
    ASSUME IInv, NEW v \in VarId, NEW b \in Binding, updateVariable(v, b)
    PROVE  IInv'
<1>1. Commit("updateVariable", premises, With(variables, v, b), leaves, index, conclusion)
  BY DEF updateVariable
<1>2. Typed(premises, With(variables, v, b), leaves, conclusion)
  BY DEF IInv, Typed, With
<1> QED
  BY <1>1, <1>2, IInvParts, CommitKeeps DEF Undoable

LEMMA RemoveVariableKeeps ==
    ASSUME IInv, NEW v \in VarId, removeVariable(v)
    PROVE  IInv'
<1> DEFINE gone == {l \in leaves : l.variable = v}
<1>1. Commit("removeVariable", premises, Without(variables, {v}), leaves \ gone,
             Without(index, idsOf(gone)), conclusion)
  BY DEF removeVariable
<1>2. /\ conclusion \in premises \cup {NoPremise}
      /\ \A x \in DOMAIN variables \ {v} :
            variables[x].kind = "premise" => variables[x].to \in premises
  BY DEF IInv, StaysValid, Valid
<1>3. \A l \in leaves \ gone : l.premise \in premises /\ l.variable \notin {v}
  BY IInvParts
<1>4. Without(index, idsOf(gone)) = IndexOf(leaves \ gone)
  BY IInvParts, IndexSomeLess
<1>5. leaves \ gone \subseteq leaves
  OBVIOUS
<1> HIDE DEF gone
<1>6. Sound(premises, Without(variables, {v}), leaves \ gone, conclusion)
  BY <1>2, <1>3, <1>5, IInvParts, Removed
<1> QED
  BY <1>1, <1>4, <1>6, CommitKeeps DEF Undoable, Sound

LEMMA ConclusionKeeps ==
    ASSUME IInv, clearConclusionPremise \/ \E p \in PremiseId : setConclusionPremise(p)
    PROVE  IInv'
<1>1. PICK op \in Undoable, c \in premises \cup {NoPremise} :
         Commit(op, premises, variables, leaves, index, c)
  <2>1. conclusion \in premises \cup {NoPremise}
    BY DEF IInv, StaysValid, Valid
  <2> QED
    BY <2>1 DEF clearConclusionPremise, setConclusionPremise, Undoable
<1>2. Sound(premises, variables, leaves, c)
  BY <1>1 DEF IInv, StaysValid, Valid, Typed, Sound
<1> QED
  BY <1>1, <1>2, IInvParts, CommitKeeps DEF Sound

LEMMA SnapshotKeeps ==
    ASSUME IInv, snapshot
    PROVE  IInv'
<1> DEFINE s == [premises |-> premises, variables |-> variables,
                 leaves |-> leaves, conclusion |-> conclusion]
<1>1. saved' = {s} /\ UNCHANGED <<isResponse, content, undone>>
  BY DEF snapshot
<1>2. Sound(s.premises, s.variables, s.leaves, s.conclusion)
  BY IInvParts
<1> HIDE DEF s
<1>3. /\ premises' = premises /\ variables' = variables /\ leaves' = leaves
      /\ index' = index /\ conclusion' = conclusion /\ isResponse' = isResponse
      /\ undone' = undone
  BY <1>1 DEF content
<1>4. SavedIsSound'
  BY <1>1, <1>2, <1>3 DEF SavedIsSound, Sound, Typed, Valid
<1>5. Typed(premises, variables, leaves, conclusion)'
  BY <1>3 DEF IInv, Typed
<1>6. StaysValid' /\ IndexAgrees' /\ OnlyRebindIsUndone'
  BY <1>3 DEF IInv, StaysValid, Valid, IndexAgrees, OnlyRebindIsUndone
<1>7. \E t : saved' = {t}
  BY <1>1
<1> QED
  BY <1>3, <1>4, <1>5, <1>6, <1>7 DEF IInv

LEMMA LoadKeeps ==
    ASSUME IInv, rollback \/ fromSnapshot
    PROVE  IInv'
<1>1. PICK s \in saved : \E op : Restore(s, op)
  BY DEF rollback, fromSnapshot
<1>2. saved' = {} /\ isResponse' = isResponse
  BY DEF rollback, fromSnapshot
<1>3. /\ Typed(s.premises, s.variables, s.leaves, s.conclusion)
      /\ Valid(s.premises, s.variables, s.leaves, s.conclusion)
  BY <1>1 DEF IInv, SavedIsSound
<1> QED
  BY <1>1, <1>2, <1>3, RestoreKeeps

\* An expression the check let through closes no circle.
LEMMA Checked ==
    ASSUME IInv, NEW p \in premises, NEW v, assertVariableExpressionValid(v, p),
           NEW leaf, leaf.premise = p, leaf.variable = v,
           NEW ls, ls \subseteq leaves \cup {leaf}
    PROVE  Acyclic(Edges(variables, ls))
<1> DEFINE links == Edges(variables, leaves)
           q == variables[v].to
<1>1. links \subseteq PremiseId \X PremiseId /\ Acyclic(links) /\ p \in PremiseId
  BY IInvParts, EdgesAre DEF Sound, Valid
<1>2. v \in DOMAIN variables
  BY DEF assertVariableExpressionValid
<1>3. CASE variables[v].kind = "premise"
  <2>1. q \in PremiseId /\ p \notin ReachesFrom(q, links)
    BY <1>2, <1>3
       DEF assertVariableExpressionValid, wouldCreateCycle, IInv, StaysValid, Valid, Typed
  <2>2. Edges(variables, ls) \subseteq links \cup {<<p, q>>}
    BY DEF Edges
  <2> HIDE DEF links, q
  <2> QED
    BY <1>1, <2>1, <2>2, CheckSuffices
<1>4. CASE variables[v].kind # "premise"
  <2>1. Edges(variables, ls) \subseteq links
    BY <1>4 DEF Edges
  <2> QED
    BY <1>1, <2>1, FewerAcyclic
<1> QED
  BY <1>3, <1>4

LEMMA AppendKeeps ==
    ASSUME IInv, NEW p \in PremiseId, NEW e \in ExprId, NEW v \in VarId,
           appendExpression(p, e, v)
    PROVE  IInv'
<1> DEFINE leaf == [id |-> e, premise |-> p, variable |-> v]
           ls == leaves \cup {leaf}
<1>1. /\ p \in premises /\ e \notin idsOf(leaves) /\ v \in DOMAIN variables
      /\ assertVariableExpressionValid(v, p)
      /\ leaves' = ls /\ index' = syncExpressionIndex(p, {e}, {}) /\ undone' = "none"
      /\ UNCHANGED <<isResponse, premises, variables, conclusion, saved>>
  BY DEF appendExpression, assertVariableExpressionValid
<1>2. leaf.id = e /\ leaf.premise = p /\ leaf.variable = v /\ leaf \in Leaf
  BY DEF Leaf
<1> HIDE DEF leaf
<1>3. Acyclic(Edges(variables, ls))
  BY <1>1, <1>2, Checked
<1>4. Valid(premises, variables, ls, conclusion)
  BY <1>1, <1>2, <1>3 DEF IInv, StaysValid, Valid
<1>5. Typed(premises, variables, ls, conclusion)
  BY <1>1, <1>2 DEF IInv, Typed, idsOf
<1>6. index' = IndexOf(ls)
  <2>1. syncExpressionIndex(p, {e}, {}) = With(index, e, p)
    BY DEF syncExpressionIndex, With
  <2> QED
    BY <1>1, <1>2, <2>1, IInvParts, IndexOneMore
<1>7. SavedIsSound'
  BY <1>1 DEF IInv, SavedIsSound, Typed, Valid
<1> QED
  BY <1>1, <1>4, <1>5, <1>6, <1>7
     DEF IInv, StaysValid, Valid, IndexAgrees, OnlyRebindIsUndone, Typed

LEMMA UpdateExpressionKeeps ==
    ASSUME IInv, NEW l \in leaves, NEW v \in VarId, updateExpression(l, v)
    PROVE  IInv'
<1> DEFINE leaf == [l EXCEPT !.variable = v]
           ls == (leaves \ {l}) \cup {leaf}
<1>1. /\ v \in DOMAIN variables /\ assertVariableExpressionValid(v, l.premise)
      /\ leaves' = ls /\ undone' = "none"
      /\ UNCHANGED <<isResponse, premises, variables, index, conclusion, saved>>
  BY DEF updateExpression, assertVariableExpressionValid
<1>2. /\ leaf.id = l.id /\ leaf.premise = l.premise /\ leaf.variable = v
      /\ leaf \in Leaf /\ l.premise \in premises /\ l \in Leaf
  BY IInvParts DEF Leaf
<1> HIDE DEF leaf
<1>3. Acyclic(Edges(variables, ls))
  BY <1>1, <1>2, Checked
<1>4. Valid(premises, variables, ls, conclusion)
  BY <1>1, <1>2, <1>3 DEF IInv, StaysValid, Valid
<1>5. Typed(premises, variables, ls, conclusion)
  BY <1>1, <1>2 DEF IInv, Typed
<1>6. index' = IndexOf(ls)
  <2>1. \A x, y \in ls : x.id = y.id => x = y
    BY <1>5 DEF Typed
  <2>2. idsOf(ls) = idsOf(leaves)
    BY <1>2 DEF idsOf
  <2>3. /\ index = IndexOf(leaves) /\ \A x \in leaves : index[x.id] = x.premise
    BY IInvParts, IndexIs
  <2>4. index = [e \in idsOf(ls) |-> index[e]]
    BY <2>2, <2>3 DEF IndexOf
  <2>5. \A x \in ls : index[x.id] = x.premise
    BY <1>2, <2>3
  <2> HIDE DEF ls
  <2> QED
    BY <1>1, <2>1, <2>4, <2>5, IndexIs
<1>7. SavedIsSound'
  BY <1>1 DEF IInv, SavedIsSound, Typed, Valid
<1> QED
  BY <1>1, <1>4, <1>5, <1>6, <1>7
     DEF IInv, StaysValid, Valid, IndexAgrees, OnlyRebindIsUndone, Typed

LEMMA RemoveExpressionKeeps ==
    ASSUME IInv, NEW p \in premises, NEW gone \in SUBSET {l \in leaves : l.premise = p},
           removeExpression(p, gone)
    PROVE  IInv'
<1> DEFINE ls == leaves \ gone
<1>1. /\ leaves' = ls /\ index' = syncExpressionIndex(p, {}, idsOf(gone))
      /\ undone' = "none"
      /\ UNCHANGED <<isResponse, premises, variables, conclusion, saved>>
  BY DEF removeExpression
<1>2. Edges(variables, ls) \subseteq Edges(variables, leaves)
  BY DEF Edges
<1>3. Acyclic(Edges(variables, ls))
  BY <1>2, FewerAcyclic DEF IInv, StaysValid, Valid
<1>4. Valid(premises, variables, ls, conclusion) /\ Typed(premises, variables, ls, conclusion)
  BY <1>3 DEF IInv, StaysValid, Valid, Typed
<1>5. index' = IndexOf(ls)
  <2>1. syncExpressionIndex(p, {}, idsOf(gone)) = Without(index, idsOf(gone))
    BY DEF syncExpressionIndex, Without, Restrict
  <2> QED
    BY <1>1, <2>1, IInvParts, IndexSomeLess
<1>6. SavedIsSound'
  BY <1>1 DEF IInv, SavedIsSound, Typed, Valid
<1> QED
  BY <1>1, <1>4, <1>5, <1>6
     DEF IInv, StaysValid, Valid, IndexAgrees, OnlyRebindIsUndone, Typed

\* A fork renames premises that stay apart: no two of them become one.
LEMMA ForkKeeps ==
    ASSUME IInv, NEW f \in PremiseRemaps, forkArgumentEngine(f)
    PROVE  IInv'
<1> DEFINE ps == Range(f)
           vs == [v \in DOMAIN variables |-> remapBinding(variables[v], f)]
           ls == {[l EXCEPT !.premise = f[@]] : l \in leaves}
           c == IF conclusion = NoPremise THEN NoPremise ELSE f[conclusion]
           s == [premises |-> ps, variables |-> vs, leaves |-> ls, conclusion |-> c]
<1>1. /\ Restore(s, "load") /\ saved' = {} /\ isResponse' = isResponse
  BY DEF forkArgumentEngine
<1>2. /\ f \in [premises -> PremiseId]
      /\ \A p \in premises : f[p] \in ps
      /\ ps \subseteq PremiseId
  BY DEF PremiseRemaps, Injection, Range
<1>3. /\ \A v \in DOMAIN variables :
            variables[v].kind = "premise" => variables[v].to \in premises
      /\ \A v \in DOMAIN variables : variables[v].kind = "expression" => isResponse
      /\ conclusion \in premises \cup {NoPremise}
  BY DEF IInv, StaysValid, Valid
<1>4. /\ DOMAIN vs = DOMAIN variables
      /\ \A v \in DOMAIN vs :
            IF variables[v].kind = "premise"
            THEN vs[v].kind = "premise" /\ vs[v].to = f[variables[v].to] /\ vs[v] \in Binding
            ELSE vs[v] = variables[v]
  <2>1. ASSUME NEW v \in DOMAIN vs, variables[v].kind = "premise"
        PROVE  vs[v].kind = "premise" /\ vs[v].to = f[variables[v].to] /\ vs[v] \in Binding
    <3>1. vs[v] = [kind |-> "premise", to |-> f[variables[v].to]]
      BY <2>1 DEF remapBinding, ToPremise
    <3>2. f[variables[v].to] \in PremiseId
      BY <1>2, <1>3, <2>1
    <3> QED
      BY <3>1, <3>2 DEF Binding
  <2>2. ASSUME NEW v \in DOMAIN vs, variables[v].kind # "premise"
        PROVE  vs[v] = variables[v]
    BY <2>2 DEF remapBinding
  <2> HIDE DEF vs
  <2>3. DOMAIN vs = DOMAIN variables
    BY DEF vs
  <2> QED
    BY <2>1, <2>2, <2>3
<1>5. \A m \in ls : \E l \in leaves : /\ m.id = l.id /\ m.variable = l.variable
                                      /\ m.premise = f[l.premise] /\ m \in Leaf
                                      /\ m = [l EXCEPT !.premise = f[l.premise]]
  <2> SUFFICES ASSUME NEW l \in leaves
               PROVE  LET m == [l EXCEPT !.premise = f[l.premise]]
                      IN  /\ m.id = l.id /\ m.variable = l.variable
                          /\ m.premise = f[l.premise] /\ m \in Leaf
    OBVIOUS
  <2>1. l \in Leaf /\ f[l.premise] \in PremiseId
    BY <1>2, IInvParts
  <2> QED
    BY <2>1 DEF Leaf
<1>6. c \in ps \cup {NoPremise}
  BY <1>2, <1>3
<1>7. Typed(ps, vs, ls, c)
  <2>1. \A l, m \in ls : l.id = m.id => l = m
    <3> HIDE DEF ls
    <3> QED
      BY <1>5, IInvParts
  <2>2. ls \subseteq Leaf
    <3> HIDE DEF ls
    <3> QED
      BY <1>5
  <2>3. DOMAIN vs \subseteq VarId /\ \A v \in DOMAIN vs : vs[v] \in Binding
    <3> HIDE DEF vs
    <3> QED
      BY <1>4 DEF IInv, Typed
  <2> HIDE DEF ps, vs, ls, c
  <2> QED
    BY <1>2, <1>6, <2>1, <2>2, <2>3 DEF Typed
<1>8. Acyclic(Edges(vs, ls))
  <2> HIDE DEF vs, ls
  <2>1. Edges(vs, ls) \subseteq {<<f[e[1]], f[e[2]]>> : e \in Edges(variables, leaves)}
    <3> SUFFICES ASSUME NEW m \in ls, m.variable \in DOMAIN vs, vs[m.variable].kind = "premise"
                 PROVE  <<m.premise, vs[m.variable].to>>
                           \in {<<f[e[1]], f[e[2]]>> : e \in Edges(variables, leaves)}
      BY DEF Edges
    <3>1. PICK l \in leaves : m.variable = l.variable /\ m.premise = f[l.premise]
      BY <1>5
    <3>2. variables[l.variable].kind = "premise" /\ l.variable \in DOMAIN variables
      BY <1>4, <3>1
    <3>3. <<l.premise, variables[l.variable].to>> \in Edges(variables, leaves)
      BY <3>2 DEF Edges
    <3>4. vs[m.variable].to = f[variables[l.variable].to]
      BY <1>4, <3>1, <3>2
    <3> QED
      BY <3>1, <3>3, <3>4
  <2>2. Edges(variables, leaves) \subseteq premises \X premises /\ Acyclic(Edges(variables, leaves))
    BY IInvParts, EdgesAre DEF Sound, Valid
  <2>3. premises \subseteq PremiseId /\ f \in Injection(premises, PremiseId)
    BY IInvParts DEF PremiseRemaps
  <2> QED
    BY <2>1, <2>2, <2>3, RenamedAcyclic
<1>9. Valid(ps, vs, ls, c)
  <2>1. \A l \in ls : l.premise \in ps /\ l.variable \in DOMAIN vs
    <3> HIDE DEF ls, vs, ps
    <3> QED
      BY <1>2, <1>4, <1>5, IInvParts
  <2>2. \A v \in DOMAIN vs : /\ vs[v].kind = "premise" => vs[v].to \in ps
                             /\ vs[v].kind = "expression" => isResponse
    <3> HIDE DEF vs, ps
    <3> QED
      BY <1>2, <1>3, <1>4
  <2> HIDE DEF ps, vs, ls, c
  <2> QED
    BY <1>6, <1>8, <2>1, <2>2 DEF Valid
<1>10. s.premises = ps /\ s.variables = vs /\ s.leaves = ls /\ s.conclusion = c
  OBVIOUS
<1> HIDE DEF s, ps, vs, ls, c
<1> QED
  BY <1>1, <1>7, <1>9, <1>10, RestoreKeeps

LEMMA InitIsSound == Init => IInv
<1> SUFFICES ASSUME Init PROVE IInv
  OBVIOUS
<1>1. /\ isResponse \in BOOLEAN /\ leaves = {} /\ index = NoVariables /\ saved = {}
      /\ undone = "none"
  BY EngineAssumption DEF Init
<1>2. IndexAgrees
  <2>1. idsOf(leaves) = {}
    BY <1>1 DEF idsOf
  <2> QED
    BY <1>1, <2>1 DEF IndexAgrees, IndexOf, NoVariables
<1>3. Edges(variables, leaves) = {}
  BY <1>1 DEF Edges
<1>4. Acyclic({})
  BY DEF Acyclic
<1>5. Typed(premises, variables, leaves, conclusion) /\ Valid(premises, variables, leaves, conclusion)
  <2>1. CASE premises = {} /\ variables = NoVariables /\ conclusion = NoPremise
    <3>1. DOMAIN variables = {}
      BY <2>1 DEF NoVariables
    <3> QED
      BY <1>1, <1>3, <1>4, <2>1, <3>1 DEF Typed, Valid
  <2>2. CASE /\ premises = {Max(PremiseId)}
             /\ \E v \in VarId : variables = [x \in {v} |-> ToPremise(Max(PremiseId))]
             /\ conclusion = Max(PremiseId)
    <3> DEFINE p == Max(PremiseId)
    <3>1. p \in PremiseId
      BY MaxExists, EngineAssumption
    <3> HIDE DEF p
    <3>2. PICK v \in VarId : variables = [x \in {v} |-> ToPremise(p)]
      BY <2>2 DEF p
    <3>3. ToPremise(p) \in Binding /\ ToPremise(p).kind = "premise" /\ ToPremise(p).to = p
      BY <3>1 DEF ToPremise, Binding
    <3>4. DOMAIN variables = {v} /\ variables[v] = ToPremise(p)
      BY <3>2
    <3> QED
      BY <1>1, <1>3, <1>4, <2>2, <3>1, <3>3, <3>4 DEF Typed, Valid, p
  <2> QED
    BY <2>1, <2>2 DEF Init
<1> QED
  BY <1>1, <1>2, <1>5 DEF IInv, StaysValid, OnlyRebindIsUndone, SavedIsSound

LEMMA NextKeeps == IInv /\ [Next]_engineVars => IInv'
<1> SUFFICES ASSUME IInv, [Next]_engineVars PROVE IInv'
  OBVIOUS
<1>1. ASSUME NEW p \in PremiseId, NEW v \in VarId, createPremise(p, v) PROVE IInv'
  BY <1>1, CreatePremiseKeeps
<1>2. ASSUME NEW p \in PremiseId, NEW v \in VarId, NEW w \in VarId, NEW k \in Claim,
             NEW e \in ExprId, createDerivation(p, v, k, w, e)
      PROVE  IInv'
  BY <1>2, CreateDerivationKeeps
<1>3. ASSUME NEW p \in PremiseId, removePremise(p) \/ setConclusionPremise(p) PROVE IInv'
  BY <1>3, RemovePremiseKeeps, ConclusionKeeps
<1>4. ASSUME NEW v \in VarId, NEW b \in Binding, addVariable(v, b) \/ updateVariable(v, b)
      PROVE  IInv'
  BY <1>4, AddVariableKeeps, UpdateVariableKeeps
<1>5. ASSUME NEW v \in VarId, removeVariable(v) PROVE IInv'
  BY <1>5, RemoveVariableKeeps
<1>6. ASSUME NEW v \in VarId, NEW x \in Answered, bindVariableToExpression(v, x) PROVE IInv'
  BY <1>6, BindToExpressionKeeps
<1>7. CASE clearConclusionPremise \/ snapshot \/ rollback \/ fromSnapshot
  BY <1>7, ConclusionKeeps, SnapshotKeeps, LoadKeeps
<1>8. ASSUME NEW f \in PremiseRemaps, forkArgumentEngine(f) PROVE IInv'
  BY <1>8, ForkKeeps
<1>9. ASSUME NEW p \in PremiseId, NEW e \in ExprId, NEW v \in VarId, appendExpression(p, e, v)
      PROVE  IInv'
  BY <1>9, AppendKeeps
<1>10. ASSUME NEW l \in leaves, NEW v \in VarId, updateExpression(l, v) PROVE IInv'
  BY <1>10, UpdateExpressionKeeps
<1>11. ASSUME NEW p \in premises, NEW gone \in SUBSET {l \in leaves : l.premise = p},
              removeExpression(p, gone)
       PROVE  IInv'
  BY <1>11, RemoveExpressionKeeps
<1>12. CASE UNCHANGED engineVars
  BY <1>12 DEF engineVars, content, IInv, Typed, StaysValid, Valid, IndexAgrees,
               OnlyRebindIsUndone, SavedIsSound
<1> QED
  BY <1>1, <1>2, <1>3, <1>4, <1>5, <1>6, <1>7, <1>8, <1>9, <1>10, <1>11, <1>12 DEF Next

(***************************************************************************)
(* The theorems.                                                           *)
(***************************************************************************)
\* The inductive invariant of the engine, snapshots the caller holds included.
THEOREM EngineInvariant == Spec => []IInv
BY InitIsSound, NextKeeps, PTL DEF Spec

\* The engine's maps hold what their types say, and it undoes known calls only.
THEOREM EngineTyped == Spec => []TypeOK
BY EngineInvariant, IInvIsTyped, PTL

\* The light validation after the edits of a premise is enough for references,
\* bindings and the conclusion: no sequence of calls leaves any of them in a
\* state validateInvariants() refuses.
THEOREM EngineStaysValid == Spec => []StaysValid
<1>1. IInv => StaysValid
  BY DEF IInv
<1> QED
  BY <1>1, EngineInvariant, PTL

\* For its references withValidation() never rolls back anything but a variable
\* bound anew: the other operations' own cascades and checks keep them valid.
THEOREM EngineUndoesRebindsOnly == Spec => []OnlyRebindIsUndone
<1>1. IInv => OnlyRebindIsUndone
  BY DEF IInv
<1> QED
  BY <1>1, EngineInvariant, PTL

\* The expression index follows every edit, cascade, rollback, load and fork.
THEOREM EngineIndexAgrees == Spec => []IndexAgrees
<1>1. IInv => IndexAgrees
  BY DEF IInv
<1> QED
  BY <1>1, EngineInvariant, PTL
=============================================================================
