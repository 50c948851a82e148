---------------------------- MODULE ResponseProofs ----------------------------
(***************************************************************************)
(* Proofs about responses (Response, Rebase), for any response of any      *)
(* shape, any versions of the argument it answers, any snapshots of other  *)
(* arguments, any decisions a caller makes and any reader.                 *)
(***************************************************************************)
EXTENDS Response, SequenceTheorems, WellFoundedInduction, FiniteSetTheorems, TLAPS

(***************************************************************************)
(* Functions on numbers.                                                   *)
(***************************************************************************)
Lower == {ss \in Nat \X Nat : ss[1] < ss[2]}

\* A nonempty set of numbers has a least one.
LEMMA LeastNumber ==
    ASSUME NEW S \in SUBSET Nat, S # {}
    PROVE  \E n \in S : \A m \in S : n <= m
<1>1. IsWellFoundedOn(Lower, Nat)
  BY NatLessThanWellFounded DEF OpToRel, Lower
<1>2. PICK x \in S : \A y \in S : ~(<<y, x>> \in Lower)
  BY <1>1, WFMin
<1>3. \A y \in S : y < x => <<y, x>> \in Lower
  BY DEF Lower
<1>4. \A y \in S : ~(y < x)
  BY <1>2, <1>3
<1> QED
  BY <1>4

\* The first n steps of N from x0.
Run(V, x0, N, n, g) ==
    /\ g \in [0 .. n -> V]
    /\ g[0] = x0
    /\ \A i \in 1 .. n : g[i] = N[g[i - 1]]

\* Two runs agree as far as both go.
LEMMA RunsAgree ==
    ASSUME NEW V, NEW x0 \in V, NEW N \in [V -> V], NEW m \in Nat, NEW n \in Nat, m <= n,
           NEW g, NEW h, Run(V, x0, N, m, g), Run(V, x0, N, n, h)
    PROVE  \A i \in 0 .. m : g[i] = h[i]
<1> DEFINE S == {i \in 0 .. m : g[i] # h[i]}
<1> SUFFICES ASSUME S # {} PROVE FALSE
  OBVIOUS
<1>1. S \in SUBSET Nat
  OBVIOUS
<1>2. PICK i \in S : \A j \in S : i <= j
  <2> HIDE DEF S
  <2> QED
    BY <1>1, LeastNumber
<1>3. i \in 0 .. m /\ g[i] # h[i] /\ i # 0
  BY DEF Run
<1>4. PICK l : l = i - 1
  OBVIOUS
<1>5. l \in 0 .. m /\ ~(i <= l) /\ i \in 1 .. m /\ i \in 1 .. n
  BY <1>3, <1>4
<1>6. g[l] = h[l]
  BY <1>2, <1>5
<1> QED
  BY <1>3, <1>4, <1>5, <1>6 DEF Run

LEMMA RunsExist ==
    ASSUME NEW V, NEW x0 \in V, NEW N \in [V -> V]
    PROVE  \A n \in Nat : \E g : Run(V, x0, N, n, g)
<1> DEFINE S == {n \in Nat : ~ \E g : Run(V, x0, N, n, g)}
<1> SUFFICES ASSUME S # {} PROVE FALSE
  OBVIOUS
<1>1. S \in SUBSET Nat
  OBVIOUS
<1>2. PICK n \in S : \A m \in S : n <= m
  <2> HIDE DEF S
  <2> QED
    BY <1>1, LeastNumber
<1>3. n # 0
  <2>1. Run(V, x0, N, 0, [i \in 0 .. 0 |-> x0])
    BY DEF Run
  <2> QED
    BY <2>1
<1>4. PICK l \in Nat : n = l + 1
  <2>1. n \in Nat /\ n - 1 \in Nat /\ n = (n - 1) + 1
    BY <1>3
  <2> QED
    BY <2>1
<1>5. l \notin S
  BY <1>2, <1>4
<1>6. PICK g : Run(V, x0, N, l, g)
  BY <1>5
<1> DEFINE h == [i \in 0 .. n |-> IF i = n THEN N[g[l]] ELSE g[i]]
<1>7. /\ h \in [0 .. n -> V] /\ h[n] = N[g[l]]
      /\ \A i \in 0 .. l : h[i] = g[i]
  <2>1. \A i \in 0 .. n : i = n \/ i \in 0 .. l
    BY <1>4
  <2>2. \A i \in 0 .. l : i # n /\ i \in 0 .. n
    BY <1>4
  <2>3. g \in [0 .. l -> V] /\ l \in 0 .. l
    BY <1>6 DEF Run
  <2>4. n \in 0 .. n
    BY <1>4
  <2> QED
    BY <2>1, <2>2, <2>3, <2>4
<1> HIDE DEF h
<1>8. Run(V, x0, N, n, h)
  <2>1. \A i \in 1 .. n : (i \in 1 .. l \/ i = n) /\ i - 1 \in 0 .. l
    BY <1>4
  <2>2. \A i \in 1 .. l : i \in 0 .. l
    BY <1>4
  <2>3. 0 \in 0 .. l
    BY <1>4
  <2>4. \A i \in 1 .. n : h[i] = N[h[i - 1]]
    <3> SUFFICES ASSUME NEW i \in 1 .. n PROVE h[i] = N[h[i - 1]]
      OBVIOUS
    <3>1. CASE i \in 1 .. l
      BY <3>1, <2>1, <2>2, <1>6, <1>7 DEF Run
    <3>2. CASE i = n
      <4>1. i - 1 = l
        BY <3>2, <1>4
      <4> QED
        BY <4>1, <3>2, <2>1, <1>7
    <3> QED
      BY <2>1, <3>1, <3>2
  <2> QED
    BY <2>3, <2>4, <1>6, <1>7 DEF Run
<1> QED
  BY <1>8

\* So a function is defined by what it is at 0 and what each value makes of the
\* one before it.
LEMMA Iteration ==
    ASSUME NEW V, NEW x0 \in V, NEW N \in [V -> V]
    PROVE  \E f \in [Nat -> V] : f = [n \in Nat |-> IF n = 0 THEN x0 ELSE N[f[n - 1]]]
<1> DEFINE run(n) == CHOOSE g : Run(V, x0, N, n, g)
           f == [n \in Nat |-> run(n)[n]]
<1>1. \A n \in Nat : Run(V, x0, N, n, run(n))
  BY RunsExist
<1> HIDE DEF run
<1>2. \A n \in Nat : f[n] = run(n)[n] /\ f[n] \in V
  <2>1. \A n \in Nat : n \in 0 .. n
    OBVIOUS
  <2> QED
    BY <1>1, <2>1 DEF Run
<1>3. f \in [Nat -> V]
  BY <1>2
<1>4. \A n \in Nat : f[n] = IF n = 0 THEN x0 ELSE N[f[n - 1]]
  <2> SUFFICES ASSUME NEW n \in Nat PROVE f[n] = IF n = 0 THEN x0 ELSE N[f[n - 1]]
    OBVIOUS
  <2>1. CASE n = 0
    BY <2>1, <1>1, <1>2 DEF Run
  <2>2. CASE n # 0
    <3>1. PICK l \in Nat : l = n - 1 /\ l <= n /\ l \in 0 .. l /\ n \in 1 .. n
      <4>1. n - 1 \in Nat /\ n - 1 <= n /\ n - 1 \in 0 .. n - 1 /\ n \in 1 .. n
        BY <2>2
      <4> QED
        BY <4>1
    <3>2. run(l)[l] = run(n)[l]
      BY <3>1, <1>1, RunsAgree
    <3>3. run(n)[n] = N[run(n)[l]]
      BY <3>1, <1>1 DEF Run
    <3> QED
      BY <2>2, <3>1, <3>2, <3>3, <1>2
  <2> QED
    BY <2>1, <2>2
<1> HIDE DEF f
<1> QED
  BY <1>3, <1>4

(***************************************************************************)
(* What a rebase lists as going with a binding that is dropped is closed:  *)
(* nothing listed is stood on by anything that is not.                     *)
(***************************************************************************)
\* One more round.
Wider(r) == [P \in SUBSET premisesOf(r) |-> P \cup UNION {alongWith(r, p) : p \in P}]

LEMMA WiderTyped ==
    ASSUME NEW r
    PROVE  /\ \A p : alongWith(r, p) \subseteq premisesOf(r)
           /\ \A x : usedIn(r, x) \subseteq premisesOf(r)
           /\ Wider(r) \in [SUBSET premisesOf(r) -> SUBSET premisesOf(r)]
<1>1. \A x : usedIn(r, x) \subseteq premisesOf(r)
  BY DEF usedIn
<1>2. \A p : alongWith(r, p) \subseteq premisesOf(r)
  BY <1>1 DEF alongWith
<1> QED
  BY <1>1, <1>2 DEF Wider

LEMMA ListedRounds ==
    ASSUME NEW r, NEW x
    PROVE  \E f \in [Nat -> SUBSET premisesOf(r)] :
              /\ f[0] = usedIn(r, x)
              /\ \A n \in Nat : f[n + 1] = Wider(r)[f[n]]
              /\ premisesDroppedWith(r, x) = f[Cardinality(premisesOf(r))]
<1> DEFINE round(f) == [n \in Nat |->
                          IF n = 0 THEN usedIn(r, x)
                          ELSE f[n - 1] \cup UNION {alongWith(r, p) : p \in f[n - 1]}]
           g == CHOOSE f : f = round(f)
<1>1. premisesDroppedWith(r, x) = g[Cardinality(premisesOf(r))]
  BY DEF premisesDroppedWith
<1>2. PICK f \in [Nat -> SUBSET premisesOf(r)] :
          f = [n \in Nat |-> IF n = 0 THEN usedIn(r, x) ELSE Wider(r)[f[n - 1]]]
  <2> DEFINE V == SUBSET premisesOf(r)
             x0 == usedIn(r, x)
             N == Wider(r)
  <2>1. x0 \in V
    BY WiderTyped
  <2>2. N \in [V -> V]
    BY WiderTyped
  <2>3. \E f \in [Nat -> V] : f = [n \in Nat |-> IF n = 0 THEN x0 ELSE N[f[n - 1]]]
    <3> HIDE DEF g, round, V, x0, N
    <3> QED
      BY <2>1, <2>2, Iteration, Z3
  <2> QED
    BY <2>3
<1>3. f = round(f)
  <2>1. \A n \in Nat : n # 0 => n - 1 \in Nat
    OBVIOUS
  <2>2. \A n \in Nat : n # 0 =>
            Wider(r)[f[n - 1]] = f[n - 1] \cup UNION {alongWith(r, p) : p \in f[n - 1]}
    BY <2>1 DEF Wider
  <2>3. \A n \in Nat : f[n] = IF n = 0 THEN usedIn(r, x) ELSE Wider(r)[f[n - 1]]
    BY <1>2
  <2> QED
    BY <2>2, <2>3
<1>4. g = round(g)
  <2> HIDE DEF round
  <2> QED
    BY <1>3
<1> HIDE DEF g
<1>5. g = [n \in Nat |-> g[n]]
  BY <1>4
<1>6. g[0] = usedIn(r, x)
  BY <1>4
<1>7. \A n \in Nat : g[n + 1] = g[n] \cup UNION {alongWith(r, p) : p \in g[n]}
  <2> SUFFICES ASSUME NEW n \in Nat
               PROVE  g[n + 1] = g[n] \cup UNION {alongWith(r, p) : p \in g[n]}
    OBVIOUS
  <2>1. n + 1 \in Nat /\ n + 1 # 0 /\ (n + 1) - 1 = n
    OBVIOUS
  <2> QED
    BY <2>1, <1>4
<1>t. usedIn(r, x) \in SUBSET premisesOf(r) /\ \A p : alongWith(r, p) \subseteq premisesOf(r)
  BY WiderTyped
<1>8. \A n \in Nat : g[n] \in SUBSET premisesOf(r)
  <2> DEFINE S == {n \in Nat : g[n] \notin SUBSET premisesOf(r)}
  <2> SUFFICES ASSUME S # {} PROVE FALSE
    OBVIOUS
  <2>1. S \in SUBSET Nat
    OBVIOUS
  <2>2. PICK n \in S : \A m \in S : n <= m
    <3> HIDE DEF S
    <3> QED
      BY <2>1, LeastNumber
  <2>3. n \in Nat /\ g[n] \notin SUBSET premisesOf(r) /\ n # 0
    BY <1>6, <1>t
  <2>4. PICK l \in Nat : n = l + 1 /\ ~(n <= l)
    <3>1. n - 1 \in Nat /\ n = (n - 1) + 1 /\ ~(n <= n - 1)
      BY <2>3
    <3> QED
      BY <3>1
  <2>5. g[l] \in SUBSET premisesOf(r)
    BY <2>2, <2>4
  <2>6. g[n] = g[l] \cup UNION {alongWith(r, p) : p \in g[l]}
    BY <2>4, <1>7
  <2>7. g[n] \subseteq premisesOf(r)
    BY <2>5, <2>6, <1>t
  <2> QED
    BY <2>3, <2>7
<1>9. g \in [Nat -> SUBSET premisesOf(r)]
  BY <1>5, <1>8
<1>10. \A n \in Nat : g[n + 1] = Wider(r)[g[n]]
  BY <1>7, <1>8 DEF Wider
<1> QED
  <2> HIDE DEF round
  <2> QED
    BY <1>1, <1>6, <1>9, <1>10

LEMMA ListedIsClosed ==
    ASSUME NEW r, IsFiniteSet(premisesOf(r)), NEW x
    PROVE  LET P == premisesDroppedWith(r, x)
           IN  /\ usedIn(r, x) \subseteq P
               /\ \A p \in P : alongWith(r, p) \subseteq P
<1>1. PICK f \in [Nat -> SUBSET premisesOf(r)] :
          /\ f[0] = usedIn(r, x)
          /\ \A n \in Nat : f[n + 1] = Wider(r)[f[n]]
          /\ premisesDroppedWith(r, x) = f[Cardinality(premisesOf(r))]
  BY ListedRounds
<1>2. PICK N : N = Cardinality(premisesOf(r))
  OBVIOUS
<1>3. N \in Nat
  BY <1>2, FS_CardinalityType
<1> DEFINE Closed(P) == \A p \in P : alongWith(r, p) \subseteq P
\* A round adds, and once it adds nothing no later one does.
<1>4. \A n \in Nat : /\ f[n] \subseteq f[n + 1]
                     /\ f[n + 1] \subseteq premisesOf(r)
                     /\ f[n + 1] = f[n] <=> Closed(f[n])
  <2> SUFFICES ASSUME NEW n \in Nat
               PROVE  /\ f[n] \subseteq f[n + 1]
                      /\ f[n + 1] \subseteq premisesOf(r)
                      /\ f[n + 1] = f[n] <=> Closed(f[n])
    OBVIOUS
  <2>1. f[n] \in SUBSET premisesOf(r) /\ f[n + 1] \in SUBSET premisesOf(r)
    BY <1>1
  <2>2. f[n + 1] = f[n] \cup UNION {alongWith(r, p) : p \in f[n]}
    BY <1>1, <2>1 DEF Wider
  <2> QED
    BY <2>1, <2>2
<1>5. \A n \in Nat : usedIn(r, x) \subseteq f[n]
  <2> DEFINE S == {n \in Nat : ~(usedIn(r, x) \subseteq f[n])}
  <2> SUFFICES ASSUME S # {} PROVE FALSE
    OBVIOUS
  <2>1. S \in SUBSET Nat
    OBVIOUS
  <2>2. PICK n \in S : \A m \in S : n <= m
    <3> HIDE DEF S
    <3> QED
      BY <2>1, LeastNumber
  <2>3. n # 0
    BY <1>1
  <2>4. PICK l \in Nat : n = l + 1 /\ ~(n <= l)
    <3>1. n - 1 \in Nat /\ n = (n - 1) + 1 /\ ~(n <= n - 1)
      BY <2>3
    <3> QED
      BY <3>1
  <2>5. l \notin S
    BY <2>2, <2>4
  <2> QED
    BY <2>4, <2>5, <1>4
\* Before that each round adds a premise, and there are no more than N.
<1> HIDE DEF Closed
<1> DEFINE P == {n \in Nat : ~(Closed(f[n]) \/ n <= Cardinality(f[n]))}
<1>6. P = {}
  <2> SUFFICES ASSUME P # {} PROVE FALSE
    OBVIOUS
  <2>1. P \in SUBSET Nat
    OBVIOUS
  <2>2. PICK n \in P : \A m \in P : n <= m
    <3> HIDE DEF P
    <3> QED
      BY <2>1, LeastNumber
  <2>3. \A m \in Nat : IsFiniteSet(f[m]) /\ Cardinality(f[m]) \in Nat
    BY <1>1, FS_Subset, FS_CardinalityType
  <2>4. n # 0
    BY <2>3
  <2>5. PICK l \in Nat : n = l + 1 /\ ~(n <= l)
    <3>1. n - 1 \in Nat /\ n = (n - 1) + 1 /\ ~(n <= n - 1)
      BY <2>4
    <3> QED
      BY <3>1
  <2>6. Closed(f[l]) \/ l <= Cardinality(f[l])
    BY <2>2, <2>5
  <2>7. CASE Closed(f[l])
    <3>1. f[n] = f[l]
      BY <2>5, <2>7, <1>4
    <3> QED
      BY <2>7, <3>1
  <2>8. CASE ~Closed(f[l])
    <3>1. f[n] # f[l] /\ f[l] \subseteq f[n]
      BY <2>5, <2>8, <1>4
    <3>2. Cardinality(f[l]) <= Cardinality(f[n]) /\ Cardinality(f[l]) # Cardinality(f[n])
      BY <2>3, <3>1, FS_Subset
    <3>3. l <= Cardinality(f[l]) /\ n <= Cardinality(f[n])
      BY <2>3, <2>5, <2>6, <2>8, <3>2
    <3> QED
      BY <3>3
  <2> QED
    BY <2>7, <2>8
<1>7. Closed(f[N])
  <2> SUFFICES ASSUME ~Closed(f[N]) PROVE FALSE
    OBVIOUS
  <2>1. N <= Cardinality(f[N])
    BY <1>3, <1>6
  <2>2. f[N] \in SUBSET premisesOf(r)
    BY <1>1, <1>3
  <2>3. Cardinality(f[N]) <= N /\ Cardinality(f[N]) \in Nat
    BY <1>2, <2>2, FS_Subset, FS_CardinalityType
  <2>4. f[N] = premisesOf(r)
    BY <1>2, <1>3, <2>1, <2>2, <2>3, FS_Subset
  <2>5. \A p : alongWith(r, p) \subseteq premisesOf(r)
    BY WiderTyped
  <2> QED
    BY <2>4, <2>5 DEF Closed
<1> QED
  BY <1>1, <1>2, <1>3, <1>5, <1>7 DEF Closed

(***************************************************************************)
(* Removing variables that no expression uses removes no expression.       *)
(***************************************************************************)
\* u is what is left of s, element after element, without those out empties.
Picking(s, out, u) ==
    u = [n \in 0 .. Len(s) |->
            IF n = 0 THEN << >>
            ELSE IF out[s[n]] = {} THEN u[n - 1]
            ELSE Append(u[n - 1], s[n])]

\* A sequence of which nothing is left out is left as it is.
LEMMA AllKept ==
    ASSUME NEW S, NEW s \in Seq(S), NEW out, \A n \in DOMAIN s : out[s[n]] # {},
           NEW u, Picking(s, out, u)
    PROVE  u[Len(s)] = s
<1>0. u = [n \in 0 .. Len(s) |->
              IF n = 0 THEN << >>
              ELSE IF out[s[n]] = {} THEN u[n - 1]
              ELSE Append(u[n - 1], s[n])]
  BY DEF Picking
<1>1. Len(s) \in Nat /\ DOMAIN s = 1 .. Len(s) /\ \A n \in 1 .. Len(s) : s[n] \in S
  OBVIOUS
<1> DEFINE T == {n \in 0 .. Len(s) : ~(u[n] \in Seq(S) /\ Len(u[n]) = n /\ \A k \in 1 .. n : u[n][k] = s[k])}
<1>2. T = {}
  <2> SUFFICES ASSUME T # {} PROVE FALSE
    OBVIOUS
  <2>1. T \in SUBSET Nat
    BY <1>1
  <2>2. PICK n \in T : \A m \in T : n <= m
    <3> HIDE DEF T
    <3> QED
      BY <2>1, LeastNumber
  <2>3. u[0] = << >>
    BY <1>0, <1>1
  <2>4. n # 0
    <3> SUFFICES ASSUME n = 0 PROVE FALSE
      OBVIOUS
    <3>1. << >> \in Seq(S) /\ Len(<< >>) = 0
      OBVIOUS
    <3>2. u[n] \in Seq(S) /\ Len(u[n]) = n /\ \A k \in 1 .. n : u[n][k] = s[k]
      <4>1. \A k : k \notin 1 .. n
        OBVIOUS
      <4>2. u[n] = << >>
        BY <2>3
      <4> QED
        BY <3>1, <4>1, <4>2
    <3> QED
      BY <3>2
  <2>5. PICK l \in Nat : n = l + 1 /\ l = n - 1 /\ l \in 0 .. Len(s) /\ ~(n <= l) /\ n \in 1 .. Len(s)
    <3>1. n \in 0 .. Len(s) /\ n \in Nat
      BY <1>1
    <3>2. /\ n - 1 \in Nat /\ n = (n - 1) + 1 /\ n - 1 \in 0 .. Len(s) /\ ~(n <= n - 1)
          /\ n \in 1 .. Len(s)
      BY <1>1, <2>4, <3>1
    <3> QED
      BY <3>2
  <2>6. u[l] \in Seq(S) /\ Len(u[l]) = l /\ \A k \in 1 .. l : u[l][k] = s[k]
    BY <2>2, <2>5
  <2>7. u[n] = Append(u[l], s[n])
    <3>1. out[s[n]] # {} /\ n \in 0 .. Len(s) /\ n # 0
      BY <1>1, <2>5
    <3>2. u[n] = IF n = 0 THEN << >>
                 ELSE IF out[s[n]] = {} THEN u[n - 1]
                 ELSE Append(u[n - 1], s[n])
      <4> HIDE DEF T
      <4> QED
        BY <1>0, <3>1
    <3> QED
      BY <2>5, <3>1, <3>2
  <2>8. s[n] \in S
    BY <1>1, <2>5
  <2>9. /\ u[n] \in Seq(S) /\ Len(u[n]) = n
        /\ \A k \in 1 .. n : u[n][k] = IF k <= l THEN u[l][k] ELSE s[n]
    <3>1. PICK w, e : w = u[l] /\ e = s[n]
      OBVIOUS
    <3>2. w \in Seq(S) /\ e \in S /\ Len(w) = l
      BY <2>6, <2>8, <3>1
    <3>3. /\ Append(w, e) \in Seq(S)
          /\ Len(Append(w, e)) = l + 1
          /\ \A i \in 1 .. l : Append(w, e)[i] = w[i]
          /\ Append(w, e)[l + 1] = e
      BY <3>2, AppendProperties
    <3>4. \A k \in 1 .. n : k \in 1 .. l \/ (k = l + 1 /\ ~(k <= l))
      BY <2>5
    <3>5. PICK v : v = u[n] /\ v = Append(w, e)
      BY <2>7, <3>1
    <3>6. \A k \in 1 .. n : v[k] = IF k <= l THEN w[k] ELSE e
      <4> SUFFICES ASSUME NEW k \in 1 .. n PROVE v[k] = IF k <= l THEN w[k] ELSE e
        OBVIOUS
      <4>1. CASE k \in 1 .. l
        <5>1. k <= l
          BY <4>1
        <5>2. v[k] = w[k]
          BY <4>1, <3>3, <3>5
        <5> QED
          BY <5>1, <5>2
      <4>2. CASE k = l + 1 /\ ~(k <= l)
        <5>1. v[k] = e
          BY <4>2, <3>3, <3>5
        <5> QED
          BY <4>2, <5>1
      <4> QED
        BY <4>1, <4>2, <3>4
    <3>7. v \in Seq(S) /\ Len(v) = n
      BY <2>5, <3>3, <3>5
    <3> QED
      BY <3>1, <3>5, <3>6, <3>7
  <2>10. \A k \in 1 .. n : u[n][k] = s[k]
    <3> SUFFICES ASSUME NEW k \in 1 .. n PROVE u[n][k] = s[k]
      OBVIOUS
    <3>1. CASE k <= l
      <4>1. k \in 1 .. l
        BY <2>5, <3>1
      <4> QED
        BY <2>6, <2>9, <3>1, <4>1
    <3>2. CASE ~(k <= l)
      <4>1. k = n
        BY <2>5, <3>2
      <4> QED
        BY <2>9, <3>2, <4>1
    <3> QED
      BY <3>1, <3>2
  <2> QED
    BY <2>9, <2>10
<1>3. PICK L, w : L = Len(s) /\ w = u[L]
  OBVIOUS
<1>4. L \in 0 .. L
  BY <1>1, <1>3
<1>5. w \in Seq(S) /\ Len(w) = L /\ \A k \in 1 .. L : w[k] = s[k]
  BY <1>2, <1>3, <1>4
<1> HIDE DEF T
<1>6. w = s
  BY <1>1, <1>3, <1>5, SeqEqual
<1> QED
  BY <1>3, <1>6

LEMMA PickingDefined ==
    ASSUME NEW S, NEW s \in Seq(S), NEW out, \A n \in DOMAIN s : out[s[n]] # {}
    PROVE  \E u : Picking(s, out, u)
<1>1. Len(s) \in Nat /\ DOMAIN s = 1 .. Len(s) /\ \A n \in 1 .. Len(s) : s[n] \in S
  OBVIOUS
<1> DEFINE first(n) == [k \in 1 .. n |-> s[k]]
           u == [n \in 0 .. Len(s) |-> first(n)]
<1>2. \A n \in 0 .. Len(s) : first(n) \in Seq(S) /\ Len(first(n)) = n
  <2> SUFFICES ASSUME NEW n \in 0 .. Len(s) PROVE first(n) \in Seq(S) /\ Len(first(n)) = n
    OBVIOUS
  <2>1. n \in Nat /\ \A k \in 1 .. n : s[k] \in S
    BY <1>1
  <2>2. first(n) \in [1 .. n -> S]
    BY <2>1
  <2> QED
    BY <2>1, <2>2
<1>3. first(0) = << >>
  OBVIOUS
<1>4. \A n \in 1 .. Len(s) : first(n) = Append(first(n - 1), s[n])
  <2> SUFFICES ASSUME NEW n \in 1 .. Len(s) PROVE first(n) = Append(first(n - 1), s[n])
    OBVIOUS
  <2>1. PICK l, v, w, e : l = n - 1 /\ v = first(n) /\ w = first(l) /\ e = s[n]
    OBVIOUS
  <2>2. n \in Nat /\ l \in Nat /\ n = l + 1 /\ l \in 0 .. Len(s) /\ n \in 0 .. Len(s)
    BY <1>1, <2>1
  <2>3. /\ w \in Seq(S) /\ Len(w) = l /\ e \in S
        /\ v \in Seq(S) /\ Len(v) = n
    BY <1>1, <1>2, <2>1, <2>2
  <2>4. /\ Append(w, e) \in Seq(S) /\ Len(Append(w, e)) = n
        /\ \A k \in 1 .. l : Append(w, e)[k] = w[k]
        /\ Append(w, e)[n] = e
    BY <2>2, <2>3, AppendProperties
  <2>5. \A k \in 1 .. n : v[k] = s[k]
    BY <2>1
  <2>6. \A k \in 1 .. l : w[k] = s[k]
    BY <2>1
  <2>7. \A k \in 1 .. n : k \in 1 .. l \/ k = n
    BY <2>2
  <2>8. \A k \in 1 .. n : v[k] = Append(w, e)[k]
    BY <2>1, <2>4, <2>5, <2>6, <2>7
  <2>9. v = Append(w, e)
    BY <2>3, <2>4, <2>8, SeqEqual
  <2> QED
    BY <2>1, <2>9
<1> HIDE DEF first
<1>5. \A n \in 0 .. Len(s) : u[n] = IF n = 0 THEN << >>
                                    ELSE IF out[s[n]] = {} THEN u[n - 1]
                                    ELSE Append(u[n - 1], s[n])
  <2> SUFFICES ASSUME NEW n \in 0 .. Len(s)
               PROVE  u[n] = IF n = 0 THEN << >>
                             ELSE IF out[s[n]] = {} THEN u[n - 1]
                             ELSE Append(u[n - 1], s[n])
    OBVIOUS
  <2>1. CASE n = 0
    BY <2>1, <1>3
  <2>2. CASE n # 0
    <3>1. n \in 1 .. Len(s) /\ n - 1 \in 0 .. Len(s)
      BY <1>1, <2>2
    <3>2. u[n] = first(n) /\ u[n - 1] = first(n - 1) /\ out[s[n]] # {}
      BY <1>1, <3>1
    <3>3. first(n) = Append(first(n - 1), s[n])
      BY <1>4, <3>1
    <3> HIDE DEF u
    <3> QED
      BY <2>2, <3>2, <3>3
  <2> QED
    BY <2>1, <2>2
<1>6. u = [n \in 0 .. Len(s) |-> u[n]]
  OBVIOUS
<1> HIDE DEF u
<1>7. Picking(s, out, u)
  BY <1>5, <1>6 DEF Picking
<1> QED
  BY <1>7

LEMMA NothingLeaves ==
    ASSUME NEW r, Trees(r), NEW xs,
           \A e \in DOMAIN r.expr : kindOf(r, e) = "variable" => r.expr[e].variable \notin xs
    PROVE  deleteExpressionsUsingVariables(r, xs) =
               [r EXCEPT !.root = [p \in DOMAIN r.root |-> r.root[p]],
                         !.expr = [e \in DOMAIN r.expr |-> r.expr[e]]]
<1> DEFINE at(f, e) ==
               IF kindOf(r, e) = "variable"
               THEN IF r.expr[e].variable \in xs THEN {} ELSE {e}
               ELSE LET kept == {k \in DOMAIN kids(r, e) : f[kids(r, e)[k]] # {}}
                    IN  IF kept = DOMAIN kids(r, e) \/ Cardinality(kept) > 1 THEN {e}
                        ELSE UNION {f[kids(r, e)[k]] : k \in kept}
           left == CHOOSE f : f = [e \in DOMAIN r.expr |-> at(f, e)]
           picked(s) == CHOOSE u : Picking(s, left, u)
           keptKids(e) == picked(kids(r, e))[Len(kids(r, e))]
           remains(e) == CHOOSE f \in left[e] : TRUE
           root == [p \in DOMAIN r.root |-> IF r.root[p] = None \/ left[r.root[p]] = {} THEN None
                                            ELSE remains(r.root[p])]
           expr == [e \in {f \in DOMAIN r.expr : left[f] = {f}} |->
                [r.expr[e] EXCEPT !.kids = [k \in DOMAIN keptKids(e) |-> remains(keptKids(e)[k])]]]
<1>1. deleteExpressionsUsingVariables(r, xs) = [r EXCEPT !.root = root, !.expr = expr]
  BY DEF deleteExpressionsUsingVariables, Picking
<1> HIDE DEF keptKids, remains, picked
<1>2. ASSUME NEW f, NEW e \in DOMAIN r.expr, \A k \in DOMAIN kids(r, e) : f[kids(r, e)[k]] = {kids(r, e)[k]}
      PROVE  at(f, e) = {e}
  BY <1>2
<1>3. \A e \in DOMAIN r.expr : \A k \in DOMAIN kids(r, e) :
          kids(r, e)[k] \in expressionsIn(r, premiseOf(r, e))
  <2> SUFFICES ASSUME NEW e \in DOMAIN r.expr, NEW k \in DOMAIN kids(r, e)
               PROVE  kids(r, e)[k] \in expressionsIn(r, premiseOf(r, e))
    OBVIOUS
  <2>1. PICK T, s : T = expressionsIn(r, premiseOf(r, e)) /\ s = kids(r, e)
    OBVIOUS
  <2>2. s \in Seq(T)
    BY <2>1 DEF Trees
  <2> QED
    BY <2>1, <2>2
<1>4. \A p : expressionsIn(r, p) \subseteq DOMAIN r.expr
  BY DEF expressionsIn
<1> HIDE DEF at
<1>5. left = [e \in DOMAIN r.expr |-> at(left, e)]
  <2> DEFINE g == [e \in DOMAIN r.expr |-> {e}]
  <2>1. \A e \in DOMAIN r.expr : g[e] = {e}
    OBVIOUS
  <2>2. g = [e \in DOMAIN r.expr |-> g[e]]
    OBVIOUS
  <2> HIDE DEF g
  <2>3. \A e \in DOMAIN r.expr : at(g, e) = g[e]
    BY <1>2, <1>3, <1>4, <2>1
  <2>4. g = [e \in DOMAIN r.expr |-> at(g, e)]
    BY <2>2, <2>3
  <2> QED
    BY <2>4
<1> HIDE DEF left
<1>6. \A e \in DOMAIN r.expr : left[e] = {e}
  <2> DEFINE S == {e \in DOMAIN r.expr : left[e] # {e}}
  <2> SUFFICES ASSUME NEW d \in S PROVE FALSE
    OBVIOUS
  <2> DEFINE p == premiseOf(r, d)
             below == S \cap expressionsIn(r, p)
  <2>1. d \in DOMAIN r.expr /\ d \in below
    BY DEF expressionsIn, premiseOf
  <2>2. p \in premisesOf(r)
    BY <2>1 DEF Trees
  <2>3. below \in (SUBSET expressionsIn(r, p)) \ {{}}
    BY <2>1
  <2>4. PICK e \in below : Range(kids(r, e)) \cap below = {}
    <3> HIDE DEF below, p
    <3> QED
      BY <2>2, <2>3 DEF Trees
  <2>5. e \in DOMAIN r.expr /\ left[e] # {e} /\ premiseOf(r, e) = p
    BY <2>4 DEF expressionsIn, premiseOf
  <2>6. \A k \in DOMAIN kids(r, e) : kids(r, e)[k] \in Range(kids(r, e))
    BY DEF Range
  <2>7. \A k \in DOMAIN kids(r, e) : left[kids(r, e)[k]] = {kids(r, e)[k]}
    BY <1>3, <1>4, <2>4, <2>5, <2>6
  <2>8. left[e] = at(left, e)
    BY <1>5, <2>5
  <2> QED
    BY <1>2, <2>5, <2>7, <2>8
<1>7. \A e \in DOMAIN r.expr : remains(e) = e
  BY <1>6 DEF remains
<1>8. \A e \in DOMAIN r.expr : keptKids(e) = kids(r, e)
  <2> SUFFICES ASSUME NEW e \in DOMAIN r.expr PROVE keptKids(e) = kids(r, e)
    OBVIOUS
  <2>1. PICK T, s : T = expressionsIn(r, premiseOf(r, e)) /\ s = kids(r, e)
    OBVIOUS
  <2>2. s \in Seq(T)
    BY <2>1 DEF Trees
  <2>3. \A n \in DOMAIN s : left[s[n]] # {}
    BY <1>3, <1>4, <1>6, <2>1
  <2>4. \E u : Picking(s, left, u)
    BY <2>2, <2>3, PickingDefined
  <2>5. Picking(s, left, picked(s))
    BY <2>4 DEF picked
  <2>6. picked(s)[Len(s)] = s
    BY <2>2, <2>3, <2>5, AllKept
  <2> QED
    BY <2>1, <2>6 DEF keptKids
<1>9. root = [p \in DOMAIN r.root |-> r.root[p]]
  <2>1. \A p \in DOMAIN r.root : r.root[p] # None => r.root[p] \in DOMAIN r.expr
    BY <1>4 DEF Trees, premisesOf
  <2> QED
    BY <1>6, <1>7, <2>1
<1>10. expr = [e \in DOMAIN r.expr |-> r.expr[e]]
  <2>1. {f \in DOMAIN r.expr : left[f] = {f}} = DOMAIN r.expr
    BY <1>6
  <2>2. \A e \in DOMAIN r.expr :
            [k \in DOMAIN keptKids(e) |-> remains(keptKids(e)[k])] = kids(r, e)
    <3> SUFFICES ASSUME NEW e \in DOMAIN r.expr
                 PROVE  [k \in DOMAIN keptKids(e) |-> remains(keptKids(e)[k])] = kids(r, e)
      OBVIOUS
    <3>1. \A k \in DOMAIN kids(r, e) : remains(kids(r, e)[k]) = kids(r, e)[k]
      BY <1>3, <1>4, <1>7
    <3>2. kids(r, e) = [k \in DOMAIN kids(r, e) |-> kids(r, e)[k]]
      <4>1. PICK T : kids(r, e) \in Seq(T)
        BY DEF Trees
      <4> QED
        BY <4>1
    <3> QED
      BY <1>8, <3>1, <3>2
  <2>3. \A e \in DOMAIN r.expr : [r.expr[e] EXCEPT !.kids = kids(r, e)] = r.expr[e]
    <3> SUFFICES ASSUME NEW e \in DOMAIN r.expr
                 PROVE  [r.expr[e] EXCEPT !.kids = kids(r, e)] = r.expr[e]
      OBVIOUS
    <3>1. PICK x, p, k, c, v : x = r.expr[e] /\ c = kids(r, e) /\
              x = [premise |-> p, kind |-> k, kids |-> c, variable |-> v]
      BY DEF Trees
    <3>2. [x EXCEPT !.kids = c] = x
      BY <3>1
    <3> QED
      BY <3>1, <3>2
  <2> QED
    BY <2>1, <2>2, <2>3
<1> QED
  BY <1>1, <1>9, <1>10

(***************************************************************************)
(* Removing what was listed.                                               *)
(***************************************************************************)
\* What r is without the premises P.
Without(r, P, s) ==
    /\ s.root = Restrict(r.root, DOMAIN r.root \ P)
    /\ s.expr = Restrict(r.expr, {e \in DOMAIN r.expr : premiseOf(r, e) \notin P})

LEMMA WhatIsLeft ==
    ASSUME NEW r, NEW P, NEW s, Without(r, P, s)
    PROVE  /\ premisesOf(s) = premisesOf(r) \ P
           /\ DOMAIN s.expr = {e \in DOMAIN r.expr : premiseOf(r, e) \notin P}
           /\ \A e \in DOMAIN s.expr : s.expr[e] = r.expr[e]
           /\ \A p \in premisesOf(s) : s.root[p] = r.root[p] /\ expressionsIn(s, p) = expressionsIn(r, p)
<1>1. DOMAIN s.root = DOMAIN r.root \ P /\ \A p \in DOMAIN r.root \ P : s.root[p] = r.root[p]
  BY DEF Without, Restrict
<1>2. /\ DOMAIN s.expr = {e \in DOMAIN r.expr : premiseOf(r, e) \notin P}
      /\ \A e \in DOMAIN s.expr : s.expr[e] = r.expr[e]
  BY DEF Without, Restrict
<1>3. \A p \in DOMAIN r.root \ P : expressionsIn(s, p) = expressionsIn(r, p)
  BY <1>2 DEF expressionsIn, premiseOf
<1> QED
  BY <1>1, <1>2, <1>3 DEF premisesOf

LEMMA TreesShrink ==
    ASSUME NEW r, Trees(r), NEW P, NEW s, Without(r, P, s)
    PROVE  Trees(s)
<1>1. /\ premisesOf(s) = premisesOf(r) \ P
      /\ DOMAIN s.expr = {e \in DOMAIN r.expr : premiseOf(r, e) \notin P}
      /\ \A e \in DOMAIN s.expr : s.expr[e] = r.expr[e]
      /\ \A p \in premisesOf(s) : s.root[p] = r.root[p] /\ expressionsIn(s, p) = expressionsIn(r, p)
  BY WhatIsLeft
<1>2. None \notin DOMAIN s.expr
  BY <1>1 DEF Trees
<1>3. \A p \in premisesOf(s) : s.root[p] # None => s.root[p] \in expressionsIn(s, p)
  BY <1>1 DEF Trees
<1>4. \A e \in DOMAIN s.expr : /\ e \in DOMAIN r.expr
                               /\ premiseOf(s, e) = premiseOf(r, e) /\ premiseOf(r, e) \notin P
                               /\ kindOf(s, e) = kindOf(r, e)
                               /\ kids(s, e) = kids(r, e)
  BY <1>1 DEF premiseOf, kindOf, kids
<1>5. \A e \in DOMAIN s.expr :
        /\ s.expr[e] = [premise |-> premiseOf(s, e), kind |-> kindOf(s, e),
                        kids |-> kids(s, e), variable |-> s.expr[e].variable]
        /\ premiseOf(s, e) \in premisesOf(s)
        /\ kids(s, e) \in Seq(expressionsIn(s, premiseOf(s, e)))
  <2> SUFFICES ASSUME NEW e \in DOMAIN s.expr
               PROVE  /\ s.expr[e] = [premise |-> premiseOf(s, e), kind |-> kindOf(s, e),
                                      kids |-> kids(s, e), variable |-> s.expr[e].variable]
                      /\ premiseOf(s, e) \in premisesOf(s)
                      /\ kids(s, e) \in Seq(expressionsIn(s, premiseOf(s, e)))
    OBVIOUS
  <2>1. e \in DOMAIN r.expr /\ s.expr[e] = r.expr[e]
    BY <1>1, <1>4
  <2>2. /\ r.expr[e] = [premise |-> premiseOf(r, e), kind |-> kindOf(r, e),
                        kids |-> kids(r, e), variable |-> r.expr[e].variable]
        /\ premiseOf(r, e) \in premisesOf(r)
        /\ kids(r, e) \in Seq(expressionsIn(r, premiseOf(r, e)))
    BY <2>1 DEF Trees
  <2>3. premiseOf(s, e) \in premisesOf(s)
    BY <1>1, <1>4, <2>2
  <2>4. expressionsIn(s, premiseOf(s, e)) = expressionsIn(r, premiseOf(r, e))
    BY <1>1, <1>4, <2>3
  <2> QED
    BY <1>4, <2>1, <2>2, <2>3, <2>4
<1>6. ASSUME NEW p \in premisesOf(s), NEW below \in (SUBSET expressionsIn(s, p)) \ {{}}
      PROVE  \E e \in below : Range(kids(s, e)) \cap below = {}
  <2>1. p \in premisesOf(r) /\ below \in (SUBSET expressionsIn(r, p)) \ {{}}
    BY <1>1, <1>6
  <2>2. PICK e \in below : Range(kids(r, e)) \cap below = {}
    BY <2>1 DEF Trees
  <2>3. e \in DOMAIN s.expr
    BY <1>6, <2>2 DEF expressionsIn
  <2> QED
    BY <1>4, <2>2, <2>3
<1> QED
  BY <1>2, <1>3, <1>5, <1>6 DEF Trees

\* Trees no leaf of which reads xs stay the trees they are when xs goes.
LEMMA VariablesGone ==
    ASSUME NEW r, IsArgument(r), Trees(r), NEW xs,
           \A e \in DOMAIN r.expr : kindOf(r, e) = "variable" => r.expr[e].variable \notin xs
    PROVE  \E s : /\ s = deleteExpressionsUsingVariables(r, xs)
                  /\ IsArgument(s)
                  /\ s.root = [p \in DOMAIN r.root |-> r.root[p]]
                  /\ s.expr = [e \in DOMAIN r.expr |-> r.expr[e]]
                  /\ s.binding = r.binding /\ s.order = r.order
<1>1. PICK root, expr : /\ root = [p \in DOMAIN r.root |-> r.root[p]]
                        /\ expr = [e \in DOMAIN r.expr |-> r.expr[e]]
  OBVIOUS
<1>2. PICK s : s = [r EXCEPT !.root = root, !.expr = expr]
  OBVIOUS
<1>3. s = deleteExpressionsUsingVariables(r, xs)
  BY <1>1, <1>2, NothingLeaves
<1>4. /\ IsArgument(s) /\ s.root = root /\ s.expr = expr
      /\ s.binding = r.binding /\ s.order = r.order
  BY <1>2 DEF IsArgument
<1> QED
  BY <1>1, <1>3, <1>4

LEMMA UsesGoToo ==
    ASSUME NEW r, Loaded(r), NEW P,
           \A p \in P : alongWith(r, p) \subseteq P
    PROVE  \A e \in DOMAIN r.expr :
               kindOf(r, e) = "variable" /\ premiseOf(r, e) \notin P
                   => r.expr[e].variable \notin boundTo(r, P)
<1> SUFFICES ASSUME NEW e \in DOMAIN r.expr, kindOf(r, e) = "variable", premiseOf(r, e) \notin P,
                    r.expr[e].variable \in boundTo(r, P)
             PROVE  FALSE
  OBVIOUS
<1>1. PICK x, p : x = r.expr[e].variable /\ p = r.binding[x].premise
  OBVIOUS
<1>2. p \in P /\ x \in {y \in DOMAIN r.binding : isInternal(r, y) /\ r.binding[y].premise = p}
  BY <1>1 DEF boundTo
<1>3. premiseOf(r, e) \in usedIn(r, x)
  <2>1. x \in variablesOf(r, premiseOf(r, e))
    BY <1>1 DEF variablesOf, expressionsIn, premiseOf
  <2> QED
    BY <2>1 DEF usedIn, Loaded, Trees
<1>4. premiseOf(r, e) \in alongWith(r, p)
  BY <1>2, <1>3 DEF alongWith
<1> QED
  BY <1>2, <1>4

LEMMA DroppedGoesToo ==
    ASSUME NEW r, Loaded(r), NEW P, NEW D, \A x \in D : usedIn(r, x) \subseteq P
    PROVE  \A e \in DOMAIN r.expr :
               kindOf(r, e) = "variable" /\ premiseOf(r, e) \notin P
                   => r.expr[e].variable \notin D
<1> SUFFICES ASSUME NEW e \in DOMAIN r.expr, kindOf(r, e) = "variable", premiseOf(r, e) \notin P,
                    r.expr[e].variable \in D
             PROVE  FALSE
  OBVIOUS
<1>1. PICK x : x = r.expr[e].variable
  OBVIOUS
<1>2. x \in variablesOf(r, premiseOf(r, e))
  BY <1>1 DEF variablesOf, expressionsIn, premiseOf
<1>3. premiseOf(r, e) \in usedIn(r, x)
  BY <1>2 DEF usedIn, Loaded, Trees
<1> QED
  BY <1>1, <1>3

\* Removing premises P closed in this way, and then variables only they use.
LEMMA Removal ==
    ASSUME NEW r, Loaded(r), NEW P, NEW D, D \subseteq expressionBound(r),
           \A x \in D : usedIn(r, x) \subseteq P,
           \A p \in P : alongWith(r, p) \subseteq P
    PROVE  \E s : /\ s = removeVariables(removePremises(r, P), D)
                  /\ IsArgument(s)
                  /\ Without(r, P, s)
                  /\ s.binding = Restrict(r.binding, (DOMAIN r.binding \ boundTo(r, P)) \ D)
                  /\ s.order = r.order
<1>1. PICK root, expr, derivations, conclusion :
          /\ root = Restrict(r.root, DOMAIN r.root \ P)
          /\ expr = Restrict(r.expr, {e \in DOMAIN r.expr : premiseOf(r, e) \notin P})
          /\ derivations = r.derivations \ P
          /\ conclusion = (IF r.conclusion \in P THEN "none" ELSE r.conclusion)
  OBVIOUS
<1>2. PICK cut : cut = [r EXCEPT !.root = root, !.expr = expr, !.derivations = derivations,
                                 !.conclusion = conclusion]
  OBVIOUS
<1>3. PICK orphans : orphans = boundTo(r, P)
  OBVIOUS
<1>4. removePremises(r, P) = [deleteExpressionsUsingVariables(cut, orphans) EXCEPT
                                  !.binding = Restrict(@, DOMAIN @ \ orphans)]
  BY <1>1, <1>2, <1>3 DEF removePremises
<1>5. /\ IsArgument(cut) /\ cut.root = root /\ cut.expr = expr
      /\ cut.binding = r.binding /\ cut.order = r.order
  BY <1>2 DEF Loaded, IsArgument
<1>6. Without(r, P, cut)
  BY <1>1, <1>5 DEF Without
<1>7. Trees(cut)
  BY <1>6, TreesShrink DEF Loaded
<1>8. \A e \in DOMAIN cut.expr : /\ e \in DOMAIN r.expr
                                 /\ premiseOf(r, e) \notin P
                                 /\ cut.expr[e] = r.expr[e]
                                 /\ kindOf(cut, e) = kindOf(r, e)
  BY <1>6, WhatIsLeft DEF kindOf
<1>9. \A e \in DOMAIN cut.expr : kindOf(cut, e) = "variable" => cut.expr[e].variable \notin orphans
  BY <1>3, <1>8, UsesGoToo
<1>10. PICK s1 : /\ s1 = deleteExpressionsUsingVariables(cut, orphans)
                 /\ IsArgument(s1)
                 /\ s1.root = [p \in DOMAIN cut.root |-> cut.root[p]]
                 /\ s1.expr = [e \in DOMAIN cut.expr |-> cut.expr[e]]
                 /\ s1.binding = cut.binding /\ s1.order = cut.order
  BY <1>5, <1>7, <1>9, VariablesGone
<1>11. Without(r, P, s1)
  BY <1>6, <1>10 DEF Without, Restrict
<1>12. PICK bound1, s2 : /\ bound1 = Restrict(r.binding, DOMAIN r.binding \ orphans)
                         /\ s2 = [s1 EXCEPT !.binding = bound1]
  OBVIOUS
<1>13. removePremises(r, P) = s2
  BY <1>4, <1>5, <1>10, <1>12
<1>14. /\ IsArgument(s2) /\ s2.root = s1.root /\ s2.expr = s1.expr
       /\ s2.binding = bound1 /\ s2.order = s1.order
  BY <1>10, <1>12 DEF IsArgument
<1>15. Without(r, P, s2)
  BY <1>11, <1>14 DEF Without
<1>16. Trees(s2)
  BY <1>15, TreesShrink DEF Loaded
<1>17. \A e \in DOMAIN s2.expr : kindOf(s2, e) = "variable" => s2.expr[e].variable \notin D
  <2>1. \A e \in DOMAIN s2.expr : /\ e \in DOMAIN r.expr
                                  /\ premiseOf(r, e) \notin P
                                  /\ s2.expr[e] = r.expr[e]
                                  /\ kindOf(s2, e) = kindOf(r, e)
    BY <1>15, WhatIsLeft DEF kindOf
  <2> QED
    BY <2>1, DroppedGoesToo
<1>18. PICK s3 : /\ s3 = deleteExpressionsUsingVariables(s2, D)
                 /\ IsArgument(s3)
                 /\ s3.root = [p \in DOMAIN s2.root |-> s2.root[p]]
                 /\ s3.expr = [e \in DOMAIN s2.expr |-> s2.expr[e]]
                 /\ s3.binding = s2.binding /\ s3.order = s2.order
  BY <1>14, <1>16, <1>17, VariablesGone
<1>19. Without(r, P, s3)
  BY <1>15, <1>18 DEF Without, Restrict
<1>20. PICK bound2, s : /\ bound2 = Restrict(bound1, DOMAIN bound1 \ D)
                        /\ s = [s3 EXCEPT !.binding = bound2]
  OBVIOUS
<1>21. s = removeVariables(removePremises(r, P), D)
  BY <1>13, <1>14, <1>18, <1>20 DEF removeVariables
<1>22. /\ IsArgument(s) /\ s.root = s3.root /\ s.expr = s3.expr
       /\ s.binding = bound2 /\ s.order = s3.order
  BY <1>18, <1>20 DEF IsArgument
<1>23. Without(r, P, s)
  BY <1>19, <1>22 DEF Without
<1>24. bound2 = Restrict(r.binding, (DOMAIN r.binding \ boundTo(r, P)) \ D)
  BY <1>3, <1>12, <1>20 DEF Restrict
<1>25. s.order = r.order
  BY <1>5, <1>10, <1>14, <1>18, <1>22
<1> QED
  BY <1>21, <1>22, <1>23, <1>24, <1>25

(***************************************************************************)
(* A rebase that is resolved.                                              *)
(***************************************************************************)
\* The premises listed for what is dropped.
Listed(entries, decisions) ==
    UNION {b.premises : b \in {c \in entries : c.variable \in dropped(decisions)}}

LEMMA ListedAreClosed ==
    ASSUME NEW r, Loaded(r), NEW from, NEW to, NEW outside, NEW decisions,
           resolvable(r, to, classifyBindings(r, from, to, outside), decisions)
    PROVE  LET P == Listed(classifyBindings(r, from, to, outside), decisions)
           IN  /\ dropped(decisions) \subseteq expressionBound(r)
               /\ \A x \in dropped(decisions) : usedIn(r, x) \subseteq P
               /\ \A p \in P : alongWith(r, p) \subseteq P
<1>1. PICK entries : entries = classifyBindings(r, from, to, outside)
  OBVIOUS
<1>2. DOMAIN decisions = needing(entries)
  BY <1>1 DEF resolvable
<1>3. needing(entries) \subseteq {b.variable : b \in entries}
  BY DEF needing
<1> DEFINE row(x) == [variable |-> x, status |-> statusOfBinding(r, from, to, outside, x),
                      premises |-> premisesDroppedWith(r, x)]
<1>r. entries = {row(x) : x \in expressionBound(r)}
  BY <1>1 DEF classifyBindings
<1>f. \A x : row(x).variable = x /\ row(x).premises = premisesDroppedWith(r, x)
  OBVIOUS
<1> HIDE DEF row
<1>4. {b.variable : b \in entries} = expressionBound(r)
  BY <1>r, <1>f
<1>5. dropped(decisions) \subseteq expressionBound(r)
  BY <1>2, <1>3, <1>4 DEF dropped
<1>6. Listed(entries, decisions) = UNION {premisesDroppedWith(r, x) : x \in dropped(decisions)}
  <2>1. \A c \in entries : /\ c.variable \in expressionBound(r)
                           /\ c.premises = premisesDroppedWith(r, c.variable)
    BY <1>r, <1>f
  <2>2. \A x \in expressionBound(r) :
            \E c \in entries : c.variable = x /\ c.premises = premisesDroppedWith(r, x)
    BY <1>r, <1>f
  <2>3. {b.premises : b \in {c \in entries : c.variable \in dropped(decisions)}}
            = {premisesDroppedWith(r, x) : x \in dropped(decisions)}
    BY <1>5, <2>1, <2>2
  <2> QED
    BY <2>3 DEF Listed
<1>7. \A x : /\ usedIn(r, x) \subseteq premisesDroppedWith(r, x)
             /\ \A p \in premisesDroppedWith(r, x) : alongWith(r, p) \subseteq premisesDroppedWith(r, x)
  BY ListedIsClosed DEF Loaded
<1> QED
  BY <1>1, <1>5, <1>6, <1>7

\* What a resolved rebase makes of a response.
Rebased(r, to, decisions, P, s) ==
    /\ s.respondsTo = reference(to)
    /\ Without(r, P, s)
    /\ expressionBound(s) = expressionBound(r) \ dropped(decisions)
    /\ \A x \in expressionBound(s) :
        /\ s.binding[x].expression = repointTo(r, decisions, x)
        /\ s.binding[x].aspect = r.binding[x].aspect

LEMMA MovedIsRebased ==
    ASSUME NEW r, Loaded(r), NEW from, NEW to, NEW outside, NEW decisions,
           resolvable(r, to, classifyBindings(r, from, to, outside), decisions)
    PROVE  LET entries == classifyBindings(r, from, to, outside)
               s == moved(r, to, entries, decisions)
           IN  Loaded(s) /\ Rebased(r, to, decisions, Listed(entries, decisions), s)
<1>1. PICK entries, P, D : /\ entries = classifyBindings(r, from, to, outside)
                           /\ P = Listed(entries, decisions)
                           /\ D = dropped(decisions)
  OBVIOUS
<1>2. /\ D \subseteq expressionBound(r)
      /\ \A x \in D : usedIn(r, x) \subseteq P
      /\ \A p \in P : alongWith(r, p) \subseteq P
  BY <1>1, ListedAreClosed
<1>3. PICK s1 : /\ s1 = removeVariables(removePremises(r, P), D)
                /\ IsArgument(s1)
                /\ Without(r, P, s1)
                /\ s1.binding = Restrict(r.binding, (DOMAIN r.binding \ boundTo(r, P)) \ D)
                /\ s1.order = r.order
  BY <1>2, Removal
<1>4. PICK s2 : s2 = [s1 EXCEPT !.respondsTo = reference(to)]
  OBVIOUS
<1>5. /\ IsArgument(s2) /\ s2.respondsTo = reference(to)
      /\ s2.root = s1.root /\ s2.expr = s1.expr /\ s2.binding = s1.binding
      /\ s2.order = s1.order
  BY <1>3, <1>4 DEF IsArgument
<1>6. PICK binding : binding = [x \in DOMAIN s2.binding |->
                         IF s2.binding[x].to # "expression" THEN s2.binding[x]
                         ELSE [s2.binding[x] EXCEPT !.version = to.version,
                                                    !.expression = repointTo(s2, decisions, x)]]
  OBVIOUS
<1>7. PICK s : s = [s2 EXCEPT !.binding = binding]
  OBVIOUS
<1>8. s = moved(r, to, entries, decisions)
  BY <1>1, <1>3, <1>4, <1>6, <1>7 DEF moved, repoint, Listed
<1>9. /\ IsArgument(s) /\ s.respondsTo = reference(to)
      /\ s.root = s1.root /\ s.expr = s1.expr /\ s.binding = binding
      /\ s.order = r.order
  BY <1>3, <1>5, <1>7 DEF IsArgument
<1>10. Without(r, P, s)
  BY <1>3, <1>9 DEF Without
\* The bindings.
<1>11. PICK X : X = (DOMAIN r.binding \ boundTo(r, P)) \ D
  OBVIOUS
<1>12. DOMAIN binding = X /\ \A x \in X : s2.binding[x] = r.binding[x]
  BY <1>3, <1>5, <1>6, <1>11 DEF Restrict
<1>13. \A x \in X : r.binding[x].to # "expression" => binding[x] = r.binding[x]
  BY <1>6, <1>12
<1>14. ASSUME NEW x \in X, r.binding[x].to = "expression"
       PROVE  LET b == binding[x]
              IN  /\ b = [to |-> "expression", argument |-> b.argument, version |-> b.version,
                          expression |-> b.expression, aspect |-> b.aspect]
                  /\ b.to = "expression"
                  /\ b.expression = repointTo(r, decisions, x)
                  /\ b.aspect = r.binding[x].aspect
  <2>1. x \in expressionBound(r)
    BY <1>11, <1>14 DEF expressionBound
  <2>2. PICK c, g, v, e, a : /\ c = r.binding[x]
                             /\ c = [to |-> "expression", argument |-> g, version |-> v,
                                     expression |-> e, aspect |-> a]
    BY <2>1 DEF Loaded
  <2>3. repointTo(s2, decisions, x) = repointTo(r, decisions, x)
    BY <1>12 DEF repointTo
  <2>4. binding[x] = [c EXCEPT !.version = to.version, !.expression = repointTo(r, decisions, x)]
    BY <1>6, <1>12, <1>14, <2>2, <2>3
  <2>5. binding[x] = [to |-> "expression", argument |-> g, version |-> to.version,
                      expression |-> repointTo(r, decisions, x), aspect |-> a]
    <3>1. PICK w, f : w = to.version /\ f = repointTo(r, decisions, x)
      OBVIOUS
    <3>2. [c EXCEPT !.version = w, !.expression = f]
              = [to |-> "expression", argument |-> g, version |-> w, expression |-> f, aspect |-> a]
      <4>1. PICK d : d = [c EXCEPT !.version = w]
        OBVIOUS
      <4>2. c = [to |-> "expression", argument |-> g, version |-> v, expression |-> e, aspect |-> a]
        BY <2>2
      <4>3. d = [to |-> "expression", argument |-> g, version |-> w, expression |-> e, aspect |-> a]
        BY <4>1, <4>2
      <4>4. [d EXCEPT !.expression = f]
              = [to |-> "expression", argument |-> g, version |-> w, expression |-> f, aspect |-> a]
        BY <4>3
      <4> QED
        BY <4>1, <4>4
    <3> QED
      BY <2>4, <3>1, <3>2
  <2> QED
    BY <2>2, <2>5
<1>15. expressionBound(s) = {x \in X : r.binding[x].to = "expression"}
  BY <1>9, <1>12, <1>13, <1>14 DEF expressionBound
<1>16. expressionBound(s) = expressionBound(r) \ D
  <2>1. \A x \in expressionBound(r) : x \in DOMAIN r.binding /\ x \notin boundTo(r, P)
    BY DEF expressionBound, boundTo, isInternal
  <2> QED
    BY <1>11, <1>15, <2>1 DEF expressionBound
<1>17. Rebased(r, to, decisions, P, s)
  BY <1>1, <1>9, <1>10, <1>14, <1>15, <1>16 DEF Rebased
\* It is well formed.
<1>18. Trees(s)
  BY <1>10, TreesShrink DEF Loaded
<1>19. IsFiniteSet(premisesOf(s))
  <2>1. premisesOf(s) \subseteq premisesOf(r) /\ IsFiniteSet(premisesOf(r))
    BY <1>10, WhatIsLeft DEF Loaded
  <2> QED
    BY <2>1, FS_Subset
<1>20. \A e \in DOMAIN s.expr : kindOf(s, e) = "variable" => s.expr[e].variable \in DOMAIN s.binding
  <2> SUFFICES ASSUME NEW e \in DOMAIN s.expr, kindOf(s, e) = "variable"
               PROVE  s.expr[e].variable \in DOMAIN s.binding
    OBVIOUS
  <2>1. /\ e \in DOMAIN r.expr /\ premiseOf(r, e) \notin P
        /\ s.expr[e] = r.expr[e] /\ kindOf(r, e) = "variable"
    BY <1>10, WhatIsLeft DEF kindOf
  <2>2. r.expr[e].variable \in DOMAIN r.binding
    BY <2>1 DEF Loaded
  <2>3. r.expr[e].variable \notin boundTo(r, P)
    BY <1>2, <2>1, UsesGoToo
  <2>4. r.expr[e].variable \notin D
    BY <1>2, <2>1, DroppedGoesToo
  <2> QED
    BY <1>9, <1>11, <1>12, <2>1, <2>2, <2>3, <2>4
<1>21. \A x \in expressionBound(s) :
          LET b == s.binding[x]
          IN  b = [to |-> "expression", argument |-> b.argument, version |-> b.version,
                   expression |-> b.expression, aspect |-> b.aspect]
  BY <1>9, <1>14, <1>15
<1>22. s.order \in Seq(Range(s.order)) /\ premisesOf(s) \subseteq Range(s.order)
  <2>1. premisesOf(s) \subseteq premisesOf(r)
    BY <1>10, WhatIsLeft
  <2> QED
    BY <1>9, <2>1 DEF Loaded
<1>23. Loaded(s)
  BY <1>9, <1>18, <1>19, <1>20, <1>21, <1>22 DEF Loaded
<1> QED
  BY <1>1, <1>8, <1>17, <1>23

\* Two bindings that are moved are not brought together.
LEMMA StayApart ==
    ASSUME NEW r, NEW from, NEW to, NEW outside, NEW decisions,
           resolvable(r, to, classifyBindings(r, from, to, outside), decisions),
           NEW x \in expressionBound(r) \ dropped(decisions),
           NEW y \in expressionBound(r) \ dropped(decisions),
           referent(r, decisions, x) = referent(r, decisions, y)
    PROVE  <<r.binding[x].expression, r.binding[x].aspect>>
               = <<r.binding[y].expression, r.binding[y].aspect>>
<1>1. \A v \in decided(decisions), w \in expressionBound(r) \ dropped(decisions) :
          v # w => referent(r, decisions, v) # referent(r, decisions, w)
  BY DEF resolvable
<1>2. CASE x \in DOMAIN decisions
  <2>1. x = y
    BY <1>1, <1>2 DEF decided
  <2> QED
    BY <2>1
<1>3. CASE y \in DOMAIN decisions
  <2>1. x = y
    BY <1>1, <1>3 DEF decided
  <2> QED
    BY <2>1
<1>4. CASE x \notin DOMAIN decisions /\ y \notin DOMAIN decisions
  BY <1>4 DEF referent, repointTo
<1> QED
  BY <1>2, <1>3, <1>4

LEMMA VersionFound ==
    ASSUME NEW versions, \A t, u \in versions : t.version = u.version => t = u,
           NEW to \in versions
    PROVE  (CHOOSE t \in versions : t.version = to.version) = to
  OBVIOUS

(***************************************************************************)
(* The theorems.                                                           *)
(***************************************************************************)
\* The response moves between forms an engine can hold and gains no expression,
\* and the last call did what it listed.
ResponseInv ==
    /\ scenario \in Scenarios
    /\ Loaded(response)
    /\ DOMAIN response.expr \subseteq DOMAIN scenario.response.expr
    /\ RebaseDoesWhatWasListed

LEMMA InitResponse == Init => ResponseInv
<1> SUFFICES ASSUME Init PROVE ResponseInv
  OBVIOUS
<1>1. scenario \in Scenarios /\ Loaded(response)
  BY ResponseAssumption DEF Init
<1>2. last.call # "rebase"
  BY DEF Init
<1>3. DOMAIN response.expr \subseteq DOMAIN scenario.response.expr
  BY DEF Init
<1> QED
  BY <1>1, <1>2, <1>3 DEF ResponseInv, RebaseDoesWhatWasListed

LEMMA OtherCalls ==
    ASSUME ResponseInv, classify \/ check \/ carry
    PROVE  ResponseInv'
<1>1. UNCHANGED <<scenario, response>>
  BY DEF classify, check, carry
<1>2. last'.call # "rebase"
  BY DEF classify, check, carry, carryReport
<1>3. /\ (scenario \in Scenarios)' /\ Loaded(response)'
      /\ (DOMAIN response.expr \subseteq DOMAIN scenario.response.expr)'
  BY <1>1 DEF ResponseInv
<1>4. RebaseDoesWhatWasListed'
  BY <1>2 DEF RebaseDoesWhatWasListed
<1> QED
  BY <1>3, <1>4 DEF ResponseInv

LEMMA RebaseStep ==
    ASSUME ResponseInv, rebaseResponse
    PROVE  ResponseInv'
<1>1. PICK from \in scenario.versions, to \in scenario.versions, decisions \in scenario.decisions :
        LET entries == classifyBindings(response, from, to, scenario.outside)
            before == IF response.respondsTo[2] = from.version THEN from ELSE to
            after == moved(response, to, entries, decisions)
            resolved == /\ to.version \in scenario.bindable
                        /\ classifiable(response, from, to)
                        /\ resolvable(response, to, entries, decisions)
        IN  /\ from # to
            /\ UNCHANGED scenario
            /\ IF resolved
               THEN IF assertRebased(after, before, to, linkFaultKeys(response, before))
                    THEN /\ response' = after
                         /\ last' = [call |-> "rebase", done |-> TRUE, before |-> response,
                                     from |-> from.version, to |-> to.version,
                                     entries |-> entries, decisions |-> decisions]
                    ELSE refuse
               ELSE refuse
  BY DEF rebaseResponse
<1>2. PICK entries, before, after, faults :
          /\ entries = classifyBindings(response, from, to, scenario.outside)
          /\ before = (IF response.respondsTo[2] = from.version THEN from ELSE to)
          /\ after = moved(response, to, entries, decisions)
          /\ faults = linkFaultKeys(response, before)
  OBVIOUS
<1>3. /\ scenario' = scenario /\ scenario \in Scenarios /\ Loaded(response)
      /\ DOMAIN response.expr \subseteq DOMAIN scenario.response.expr
  BY <1>1 DEF ResponseInv
<1>4. CASE refuse
  <2>1. response' = response /\ last'.done = FALSE
    BY <1>4 DEF refuse
  <2>2. Loaded(response)' /\ (DOMAIN response.expr \subseteq DOMAIN scenario.response.expr)'
    BY <1>3, <2>1
  <2>3. RebaseDoesWhatWasListed'
    BY <2>1 DEF RebaseDoesWhatWasListed
  <2> QED
    BY <1>3, <2>2, <2>3 DEF ResponseInv
<1>5. CASE /\ resolvable(response, to, entries, decisions)
           /\ assertRebased(after, before, to, faults)
           /\ response' = after
           /\ last' = [call |-> "rebase", done |-> TRUE, before |-> response,
                       from |-> from.version, to |-> to.version,
                       entries |-> entries, decisions |-> decisions]
  <2>1. PICK P : P = Listed(entries, decisions)
    OBVIOUS
  <2>2. Loaded(after) /\ Rebased(response, to, decisions, P, after)
    BY <1>2, <1>3, <1>5, <2>1, MovedIsRebased
  <2>3. /\ last'.to = to.version /\ last'.before = response
        /\ last'.entries = entries /\ last'.decisions = decisions
    BY <1>5
  <2>4. versionNamed(last.to)' = to
    <3>1. \A t, u \in scenario.versions : t.version = u.version => t = u
      BY <1>3, ResponseAssumption
    <3>2. (CHOOSE t \in scenario.versions : t.version = to.version) = to
      BY <3>1, VersionFound
    <3> QED
      BY <1>3, <2>3, <3>2 DEF versionNamed
  <2>5. ASSUME NEW x \in expressionBound(after)
        PROVE  /\ after.binding[x].version = to.version
               /\ snapshotHasExpression(to, after.binding[x].expression)
    BY <1>5 DEF assertRebased
  <2>6. ASSUME NEW x \in expressionBound(after), NEW y \in expressionBound(after),
               <<after.binding[x].expression, after.binding[x].aspect>>
                   = <<after.binding[y].expression, after.binding[y].aspect>>
        PROVE  <<response.binding[x].expression, response.binding[x].aspect>>
                   = <<response.binding[y].expression, response.binding[y].aspect>>
    <3>1. /\ x \in expressionBound(response) \ dropped(decisions)
          /\ y \in expressionBound(response) \ dropped(decisions)
      BY <2>2 DEF Rebased
    <3>2. referent(response, decisions, x) = referent(response, decisions, y)
      BY <2>2, <2>6 DEF Rebased, referent
    <3> QED
      BY <1>2, <1>5, <3>1, <3>2, StayApart
  <2>7. /\ after.respondsTo = reference(to)
        /\ expressionBound(after) = expressionBound(response) \ dropped(decisions)
    BY <2>2 DEF Rebased
  <2>8. premisesOf(after) = premisesOf(response) \ P
    BY <2>2, WhatIsLeft DEF Rebased
  <2>9. /\ after.root = Restrict(response.root, premisesOf(after))
        /\ after.expr = Restrict(response.expr, {e \in DOMAIN response.expr :
                                                   premiseOf(response, e) \notin P})
    BY <2>2, <2>8 DEF Rebased, Without, premisesOf
  <2>10. P = UNION {b.premises : b \in {c \in entries : c.variable \in dropped(decisions)}}
    BY <2>1 DEF Listed
  <2>11. RebaseDoesWhatWasListed'
    BY <1>5, <2>3, <2>4, <2>5, <2>6, <2>7, <2>8, <2>9, <2>10 DEF RebaseDoesWhatWasListed
  <2>12. Loaded(response)' /\ (DOMAIN response.expr \subseteq DOMAIN scenario.response.expr)'
    <3>1. DOMAIN after.expr \subseteq DOMAIN response.expr
      BY <2>2 DEF Rebased, Without, Restrict
    <3> QED
      BY <1>3, <1>5, <2>2, <3>1
  <2> QED
    BY <1>3, <2>11, <2>12 DEF ResponseInv
<1> QED
  BY <1>1, <1>2, <1>4, <1>5

\* Whatever calls are made, the response is one whose parts resolve: no leaf
\* reads a variable that was removed with a premise, and no tree lost a part.
THEOREM ResponseInvariant == Spec => []ResponseInv
<1>1. ResponseInv /\ [Next]_rvars => ResponseInv'
  <2> SUFFICES ASSUME ResponseInv, [Next]_rvars PROVE ResponseInv'
    OBVIOUS
  <2>1. CASE UNCHANGED rvars
    BY <2>1 DEF rvars, ResponseInv, RebaseDoesWhatWasListed, versionNamed
  <2>2. CASE Next
    BY <2>2, OtherCalls, RebaseStep DEF Next
  <2> QED
    BY <2>1, <2>2
<1> QED
  BY InitResponse, <1>1, PTL DEF Spec

\* A rebase that returns did what the caller was shown and nothing else: of any
\* response, however far the premises stand on one another, onto any version.
\* (rebaseResponse, premisesDroppedWith)
THEOREM RebaseIsAsListed == Spec => []RebaseDoesWhatWasListed
  BY ResponseInvariant, PTL DEF ResponseInv

(***************************************************************************)
(* Functions on trees.                                                     *)
(***************************************************************************)
\* Nothing rests on itself.
Founded(D, below) ==
    \A S \in SUBSET D : S # {} => \E e \in S : below[e] \cap S = {}

\* B computes a function into V from any.
Total(D, V, B) == \A g \in [D -> V] : B[g] \in [D -> V]

\* What B computes at e reads only what is below e.
Local(D, V, below, B) ==
    \A g \in [D -> V] : \A h \in [D -> V] : \A e \in D :
        (\A d \in below[e] \cap D : g[d] = h[d]) => B[g][e] = B[h][e]

\* On C, which reads nothing outside it, g is what B computes from it.
ComputedOn(D, below, B, C, g) ==
    /\ C \subseteq D
    /\ \A x \in C : below[x] \cap D \subseteq C
    /\ \A x \in C : g[x] = B[g][x]

\* Two such functions agree wherever both are.
LEMMA Agreement ==
    ASSUME NEW D, NEW V, NEW below, NEW B,
           Founded(D, below), Local(D, V, below, B),
           NEW C1, NEW C2, NEW g1 \in [D -> V], NEW g2 \in [D -> V],
           ComputedOn(D, below, B, C1, g1), ComputedOn(D, below, B, C2, g2)
    PROVE  \A y \in C1 \cap C2 : g1[y] = g2[y]
<1> DEFINE S == {y \in C1 \cap C2 : g1[y] # g2[y]}
<1> SUFFICES ASSUME S # {} PROVE FALSE
  OBVIOUS
<1>1. S \in SUBSET D
  BY DEF ComputedOn
<1>2. PICK e \in S : below[e] \cap S = {}
  BY <1>1 DEF Founded
<1>3. \A d \in below[e] \cap D : g1[d] = g2[d]
  BY <1>2 DEF ComputedOn
<1>4. B[g1][e] = B[g2][e]
  BY <1>1, <1>3 DEF Local
<1> QED
  BY <1>4 DEF ComputedOn

\* There is then a function that is at every e what is computed there from it.
LEMMA Recursion ==
    ASSUME NEW D, NEW V, V # {}, NEW below,
           NEW B, Total(D, V, B),
           Founded(D, below), Local(D, V, below, B)
    PROVE  \E f \in [D -> V] : f = B[f]
<1> DEFINE Fits(x, g) == g \in [D -> V] /\ \E C : x \in C /\ ComputedOn(D, below, B, C, g)
           W == {x \in D : \E g : Fits(x, g)}
           pick(x) == CHOOSE g : Fits(x, g)
           v0 == CHOOSE w : w \in V
           G == [x \in D |-> IF x \in W THEN pick(x)[x] ELSE v0]
<1>0. \A x \in W : Fits(x, pick(x))
  <2> HIDE DEF Fits
  <2> QED
    OBVIOUS
<1>2. \A x \in W : pick(x) \in [D -> V] /\ \E C : x \in C /\ ComputedOn(D, below, B, C, pick(x))
  <2> HIDE DEF pick, W
  <2> QED
    BY <1>0
<1>3. G \in [D -> V]
  <2>1. v0 \in V
    OBVIOUS
  <2>2. W \subseteq D
    OBVIOUS
  <2> HIDE DEF pick, v0, W
  <2> QED
    BY <1>2, <2>1, <2>2
<1>g. \A x \in W : x \in D /\ G[x] = pick(x)[x]
  <2> HIDE DEF pick
  <2> QED
    OBVIOUS
<1> HIDE DEF G, pick
<1>4. ASSUME NEW x \in W
      PROVE  /\ below[x] \cap D \subseteq W
             /\ G[x] = B[G][x]
  <2>p. PICK g : g = pick(x)
    OBVIOUS
  <2>1. PICK C : x \in C /\ ComputedOn(D, below, B, C, g)
    BY <1>2, <2>p
  <2>2. g \in [D -> V]
    BY <1>2, <2>p
  <2>0. G[x] = g[x]
    BY <1>g, <2>p
  <2>3. C \subseteq W
    BY <2>1, <2>2 DEF ComputedOn
  <2> HIDE DEF W
  <2>4. ASSUME NEW y \in C PROVE G[y] = g[y]
    <3>p. PICK k : k = pick(y)
      OBVIOUS
    <3>1. k \in [D -> V] /\ G[y] = k[y]
      BY <2>3, <2>4, <3>p, <1>2, <1>g
    <3>2. PICK Cy : y \in Cy /\ ComputedOn(D, below, B, Cy, k)
      BY <2>3, <2>4, <3>p, <1>2
    <3>3. ComputedOn(D, below, B, Cy, k) /\ ComputedOn(D, below, B, C, g) /\ k \in [D -> V] /\ g \in [D -> V]
      BY <2>1, <2>2, <3>1, <3>2
    <3>4. \A z \in Cy \cap C : k[z] = g[z]
      BY <3>3, Agreement
    <3> QED
      BY <2>4, <3>1, <3>2, <3>4
  <2>5. \A d \in below[x] \cap D : G[d] = g[d]
    BY <2>1, <2>4 DEF ComputedOn
  <2>6. B[G][x] = B[g][x]
    BY <1>3, <1>g, <2>2, <2>5 DEF Local
  <2> QED
    BY <2>0, <2>1, <2>3, <2>6 DEF ComputedOn
<1>5. W = D
  <2> SUFFICES ASSUME D \ W # {} PROVE FALSE
    OBVIOUS
  <2>0. W \subseteq D
    OBVIOUS
  <2> HIDE DEF W
  <2>1. PICK e \in D \ W : below[e] \cap (D \ W) = {}
    BY DEF Founded
  <2> DEFINE H == [x \in D |-> IF x = e THEN B[G][e] ELSE G[x]]
  <2>b. B[G] \in [D -> V]
    BY <1>3 DEF Total
  <2>2. H \in [D -> V] /\ \A x \in D : x # e => H[x] = G[x]
    BY <1>3, <2>b
  <2>h. H[e] = B[G][e]
    OBVIOUS
  <2> HIDE DEF H
  <2>3. \A x \in W \cup {e} : /\ below[x] \cap D \subseteq W
                              /\ H[x] = B[G][x]
    BY <1>4, <2>0, <2>1, <2>2, <2>h
  <2>4. ASSUME NEW x \in W \cup {e} PROVE B[H][x] = B[G][x]
    <3>1. \A d \in below[x] \cap D : H[d] = G[d]
      BY <2>0, <2>1, <2>2, <2>3
    <3> QED
      BY <1>3, <2>0, <2>1, <2>2, <3>1 DEF Local
  <2>5. ComputedOn(D, below, B, W \cup {e}, H)
    BY <2>0, <2>1, <2>3, <2>4 DEF ComputedOn
  <2>6. e \in W
    BY <2>1, <2>2, <2>5 DEF W
  <2> QED
    BY <2>1, <2>6
<1>6. G = B[G]
  <2>1. B[G] \in [D -> V]
    BY <1>3 DEF Total
  <2> HIDE DEF W
  <2>2. \A x \in D : G[x] = B[G][x]
    BY <1>4, <1>5
  <2> QED
    BY <1>3, <2>1, <2>2
<1> QED
  BY <1>3, <1>6

\* A property of everything below an expression that then holds of it holds of
\* every expression.
LEMMA FoundedInduction ==
    ASSUME NEW D, NEW below, Founded(D, below), NEW Good \in SUBSET D,
           \A e \in D : below[e] \cap D \subseteq Good => e \in Good
    PROVE  D = Good
<1> DEFINE S == D \ Good
<1> SUFFICES ASSUME S # {} PROVE FALSE
  OBVIOUS
<1>1. PICK e \in S : below[e] \cap S = {}
  BY DEF Founded
<1> QED
  BY <1>1

(***************************************************************************)
(* The combined formulas of one argument that can be answered.             *)
(***************************************************************************)
NodeKind == OperatorKind \cup {"formula"}

\* Each node has the children its kind takes, and none is below itself.
partsOf(set) == [e \in DOMAIN set |-> Range(set[e].kids)]
WellFormed(set) ==
    /\ IsFiniteSet(DOMAIN set)
    /\ Founded(DOMAIN set, partsOf(set))
    /\ \A e \in DOMAIN set :
        /\ set[e].kind \in NodeKind \cup {"column"}
        /\ set[e].kids \in Seq(DOMAIN set)
        /\ set[e].kind \in Variadic => Len(set[e].kids) >= 2
        /\ set[e].kind \in Conditional => Len(set[e].kids) = 2
        /\ set[e].kind \in {"not", "formula"} => Len(set[e].kids) = 1
        /\ set[e].kind = "column" => set[e].kids = << >>

\* What a variable leaf gives way to.
inlined(t, e) == ownRoot(t, premisesOf(t), t.binding[t.expr[e].variable])

LEMMA ExpanderIs ==
    ASSUME NEW t
    PROVE  /\ DOMAIN expander(t) = DOMAIN t.expr
           /\ \A e \in DOMAIN t.expr :
                expander(t)[e] =
                    IF kindOf(t, e) # "variable" THEN [kind |-> kindOf(t, e), kids |-> kids(t, e)]
                    ELSE IF inlined(t, e) # None THEN [kind |-> "formula", kids |-> <<inlined(t, e)>>]
                    ELSE [kind |-> "column", kids |-> << >>,
                          column |-> columnOf(t, t.binding[t.expr[e].variable])]
<1>1. DOMAIN noResponse.expr = {}
  BY DEF noResponse
<1>2. DOMAIN noResponse.expr \cup DOMAIN t.expr = DOMAIN t.expr
  BY <1>1
<1>3. \A e \in DOMAIN t.expr : standsFor(noResponse, t, e) = inlined(t, e)
  BY DEF standsFor, inlined
<1> QED
  BY <1>2, <1>3 DEF expander, combine

LEMMA NodeIs ==
    ASSUME NEW t, NEW e \in DOMAIN t.expr
    PROVE  LET node == expander(t)[e]
           IN  /\ kindOf(t, e) # "variable"
                    => node.kind = kindOf(t, e) /\ node.kids = kids(t, e)
               /\ kindOf(t, e) = "variable" /\ inlined(t, e) # None
                    => node.kind = "formula" /\ node.kids = <<inlined(t, e)>>
               /\ kindOf(t, e) = "variable" /\ inlined(t, e) = None
                    => /\ node.kind = "column" /\ node.kids = << >>
                       /\ node.column = columnOf(t, t.binding[t.expr[e].variable])
<1> DEFINE node == expander(t)[e]
<1>1. node = IF kindOf(t, e) # "variable" THEN [kind |-> kindOf(t, e), kids |-> kids(t, e)]
             ELSE IF inlined(t, e) # None THEN [kind |-> "formula", kids |-> <<inlined(t, e)>>]
             ELSE [kind |-> "column", kids |-> << >>,
                   column |-> columnOf(t, t.binding[t.expr[e].variable])]
  BY ExpanderIs
<1> HIDE DEF node
<1>2. kindOf(t, e) # "variable" => node.kind = kindOf(t, e) /\ node.kids = kids(t, e)
  BY <1>1
<1>3. kindOf(t, e) = "variable" /\ inlined(t, e) # None
        => node.kind = "formula" /\ node.kids = <<inlined(t, e)>>
  BY <1>1
<1>4. kindOf(t, e) = "variable" /\ inlined(t, e) = None
        => /\ node.kind = "column" /\ node.kids = << >>
           /\ node.column = columnOf(t, t.binding[t.expr[e].variable])
  BY <1>1
<1> QED
  BY <1>2, <1>3, <1>4 DEF node

LEMMA InlinedIs ==
    ASSUME NEW t, Answerable(t), NEW e \in DOMAIN t.expr, kindOf(t, e) = "variable",
           inlined(t, e) # None
    PROVE  /\ inlined(t, e) \in DOMAIN t.expr
           /\ premiseOf(t, inlined(t, e)) \in readThrough(t, premiseOf(t, e))
<1> DEFINE x == t.expr[e].variable
           p == t.binding[x].premise
<1>1. /\ t.binding[x].to = "premise" /\ p \in premisesOf(t) /\ inlined(t, e) = t.root[p]
  BY DEF inlined, ownRoot
<1>2. t.root[p] \in expressionsIn(t, p)
  BY <1>1 DEF Answerable, Trees
<1>3. x \in variablesOf(t, premiseOf(t, e))
  BY DEF variablesOf, expressionsIn, premiseOf
<1>4. isInternal(t, x)
  BY <1>1 DEF isInternal
<1>5. p \in readThrough(t, premiseOf(t, e))
  BY <1>3, <1>4 DEF readThrough
<1> QED
  BY <1>1, <1>2, <1>5 DEF expressionsIn, premiseOf

LEMMA ExpanderWellFormed ==
    ASSUME NEW t, Answerable(t)
    PROVE  WellFormed(expander(t))
<1> DEFINE D == DOMAIN t.expr
           set == expander(t)
<1>1. DOMAIN set = D
  BY ExpanderIs
<1>2. \A e \in D : kids(t, e) \in Seq(expressionsIn(t, premiseOf(t, e)))
  BY DEF Answerable, Trees
<1>3. \A e \in D : expressionsIn(t, premiseOf(t, e)) \subseteq D
  BY DEF expressionsIn
<1>4. \A e \in D : kids(t, e) \in Seq(D)
  BY <1>2, <1>3
<1>5. ASSUME NEW e \in D
      PROVE  /\ set[e].kind \in NodeKind \cup {"column"}
             /\ set[e].kids \in Seq(D)
             /\ set[e].kind \in Variadic => Len(set[e].kids) >= 2
             /\ set[e].kind \in Conditional => Len(set[e].kids) = 2
             /\ set[e].kind \in {"not", "formula"} => Len(set[e].kids) = 1
             /\ set[e].kind = "column" => set[e].kids = << >>
  <2>0. e \in expressionsIn(t, premiseOf(t, e)) /\ validatePremiseEvaluability(t, premiseOf(t, e))
    BY DEF Answerable, expressionsIn, premiseOf
  <2>1. CASE kindOf(t, e) # "variable"
    <3>1. set[e].kind = kindOf(t, e) /\ set[e].kids = kids(t, e)
      BY <2>1, NodeIs
    <3>2. kindOf(t, e) \in NodeKind
      BY <2>1 DEF Answerable, NodeKind
    <3> QED
      <4>1. kindOf(t, e) # "column"
        BY <3>2 DEF NodeKind, OperatorKind, Variadic, Conditional
      <4> QED
        BY <1>4, <2>0, <3>1, <3>2, <4>1 DEF validatePremiseEvaluability
  <2>2. CASE kindOf(t, e) = "variable" /\ inlined(t, e) # None
    <3>1. set[e].kind = "formula" /\ set[e].kids = <<inlined(t, e)>>
      BY <2>2, NodeIs
    <3>2. inlined(t, e) \in D
      BY <2>2, InlinedIs
    <3> QED
      <4>1. "formula" \notin Variadic \cup Conditional /\ "formula" \in NodeKind
        BY DEF NodeKind, Variadic, Conditional
      <4>2. <<inlined(t, e)>> \in Seq(D) /\ Len(<<inlined(t, e)>>) = 1
        <5>1. PICK d : d = inlined(t, e)
          OBVIOUS
        <5>2. d \in D
          BY <3>2, <5>1
        <5> HIDE DEF D
        <5>3. <<d>> \in Seq(D) /\ Len(<<d>>) = 1
          BY <5>2
        <5> QED
          BY <5>1, <5>3
      <4> QED
        BY <3>1, <4>1, <4>2
  <2>3. CASE kindOf(t, e) = "variable" /\ inlined(t, e) = None
    <3>1. set[e].kind = "column" /\ set[e].kids = << >>
      BY <2>3, NodeIs
    <3> QED
      BY <3>1 DEF Variadic, Conditional
  <2> QED
    BY <2>1, <2>2, <2>3
<1>6. Founded(D, partsOf(set))
  <2> SUFFICES ASSUME NEW S \in SUBSET D, S # {}
               PROVE  \E e \in S : partsOf(set)[e] \cap S = {}
    BY DEF Founded
  <2> DEFINE P == {premiseOf(t, e) : e \in S}
  <2>0. \A e \in D : premiseOf(t, e) \in premisesOf(t)
    BY DEF Answerable, Trees
  <2>1. P \in (SUBSET premisesOf(t)) \ {{}}
    BY <2>0
  <2>2. PICK p \in P : readThrough(t, p) \cap P = {}
    BY <2>1 DEF Answerable
  <2> DEFINE Q == S \cap expressionsIn(t, p)
  <2>3. Q \in (SUBSET expressionsIn(t, p)) \ {{}}
    BY <2>2 DEF expressionsIn, premiseOf
  <2>4. p \in premisesOf(t)
    BY <2>1, <2>2
  <2>5. PICK e \in Q : Range(kids(t, e)) \cap Q = {}
    <3> HIDE DEF Q
    <3>1. \A below \in (SUBSET expressionsIn(t, p)) \ {{}} :
             \E e \in below : Range(kids(t, e)) \cap below = {}
      BY <2>4 DEF Answerable, Trees
    <3> QED
      BY <2>3, <3>1
  <2>6. e \in S /\ e \in D /\ premiseOf(t, e) = p
    BY <2>5 DEF expressionsIn, premiseOf
  <2>7. Range(kids(t, e)) \subseteq expressionsIn(t, p)
    BY <1>2, <2>6 DEF Range
  <2>8. partsOf(set)[e] = Range(set[e].kids)
    BY <1>1, <2>6 DEF partsOf
  <2>9. CASE kindOf(t, e) # "variable"
    <3>1. set[e].kids = kids(t, e)
      BY <2>6, <2>9, NodeIs
    <3>2. partsOf(set)[e] \cap S = {}
      BY <2>5, <2>7, <2>8, <3>1
    <3> QED
      BY <2>6, <3>2
  <2>10. CASE kindOf(t, e) = "variable" /\ inlined(t, e) # None
    <3>1. set[e].kids = <<inlined(t, e)>>
      BY <2>6, <2>10, NodeIs
    <3>2. Range(set[e].kids) = {inlined(t, e)}
      BY <3>1 DEF Range
    <3>3. premiseOf(t, inlined(t, e)) \notin P
      BY <2>2, <2>6, <2>10, InlinedIs
    <3>4. partsOf(set)[e] \cap S = {}
      BY <2>8, <3>2, <3>3
    <3> QED
      BY <2>6, <3>4
  <2>11. CASE kindOf(t, e) = "variable" /\ inlined(t, e) = None
    <3>1. set[e].kids = << >>
      BY <2>6, <2>11, NodeIs
    <3>2. Range(set[e].kids) = {}
      BY <3>1 DEF Range
    <3> QED
      BY <2>6, <2>8, <3>2
  <2> QED
    BY <2>9, <2>10, <2>11
<1> HIDE DEF set
<1>7. IsFiniteSet(D)
  BY DEF Answerable
<1> QED
  BY <1>1, <1>5, <1>6, <1>7 DEF WellFormed, set

LEMMA PartsResolve ==
    ASSUME NEW set, WellFormed(set), NEW x \in DOMAIN set
    PROVE  /\ Len(set[x].kids) \in Nat
           /\ DOMAIN set[x].kids = 1 .. Len(set[x].kids)
           /\ \A k \in DOMAIN set[x].kids : set[x].kids[k] \in DOMAIN set
                                            /\ set[x].kids[k] \in partsOf(set)[x]
           /\ partsOf(set)[x] = Range(set[x].kids)
           /\ partsOf(set)[x] \subseteq DOMAIN set
<1>1. set[x].kids \in Seq(DOMAIN set)
  BY DEF WellFormed
<1>2. PICK s : s = set[x].kids
  OBVIOUS
<1>3. PICK D : D = DOMAIN set
  OBVIOUS
<1>4. s \in Seq(D)
  BY <1>1, <1>2, <1>3
<1>5. Len(s) \in Nat /\ DOMAIN s = 1 .. Len(s) /\ \A k \in DOMAIN s : s[k] \in D
  BY <1>4
<1>6. partsOf(set)[x] = Range(s)
  BY <1>2 DEF partsOf
<1>7. \A k \in DOMAIN s : s[k] \in Range(s)
  BY DEF Range
<1>8. Range(s) \subseteq D
  BY <1>5 DEF Range
<1> QED
  BY <1>2, <1>3, <1>5, <1>6, <1>7, <1>8

\* The columns of the whole set.
allColumns(set) == {set[x].column : x \in {y \in DOMAIN set : set[y].kind = "column"}}

LEMMA ColumnsFinite ==
    ASSUME NEW set, WellFormed(set)
    PROVE  IsFiniteSet(allColumns(set))
<1> DEFINE C == {y \in DOMAIN set : set[y].kind = "column"}
<1>1. IsFiniteSet(C)
  BY FS_Subset DEF WellFormed
<1> HIDE DEF C
<1> DEFINE T == {set[x].column : x \in C}
           m == [x \in C |-> set[x].column]
<1>2. m \in Surjection(C, T)
  BY DEF Surjection
<1>3. IsFiniteSet(T)
  <2> HIDE DEF m, T
  <2> QED
    BY <1>1, <1>2, FS_Surjection
<1> QED
  BY <1>3 DEF allColumns, C

columnsAt(set, f, x) ==
    IF set[x].kind = "column" THEN {set[x].column}
    ELSE UNION {f[y] : y \in Range(set[x].kids)}

\* An expression reads what its parts read, and finitely many columns in all.
LEMMA ColumnsAre ==
    ASSUME NEW set, WellFormed(set)
    PROVE  \A x \in DOMAIN set :
              /\ columnsOf(set, x) \subseteq allColumns(set)
              /\ IsFiniteSet(columnsOf(set, x))
              /\ set[x].kind = "column" => columnsOf(set, x) = {set[x].column}
              /\ set[x].kind # "column" =>
                    \A y \in partsOf(set)[x] : columnsOf(set, y) \subseteq columnsOf(set, x)
<1> DEFINE D == DOMAIN set
           V == SUBSET allColumns(set)
           B == [g \in [D -> V] |-> [x \in D |-> columnsAt(set, g, x)]]
<1>1. \A g \in [D -> V] : \A x \in D : columnsAt(set, g, x) \in V
  <2> SUFFICES ASSUME NEW g \in [D -> V], NEW x \in D
               PROVE  columnsAt(set, g, x) \in V
    OBVIOUS
  <2>1. CASE set[x].kind = "column"
    BY <2>1 DEF columnsAt, allColumns
  <2>2. CASE set[x].kind # "column"
    <3>1. Range(set[x].kids) \subseteq D
      BY PartsResolve
    <3> HIDE DEF D
    <3>2. \A y \in Range(set[x].kids) : g[y] \in V
      BY <3>1
    <3> QED
      BY <2>2, <3>2 DEF columnsAt
  <2> QED
    BY <2>1, <2>2
<1>2. Total(D, V, B)
  <2> HIDE DEF D, V
  <2> QED
    BY <1>1 DEF Total
<1>3. Local(D, V, partsOf(set), B)
  <2> SUFFICES ASSUME NEW g \in [D -> V], NEW h \in [D -> V], NEW x \in D,
                      \A d \in partsOf(set)[x] \cap D : g[d] = h[d]
               PROVE  columnsAt(set, g, x) = columnsAt(set, h, x)
    BY DEF Local
  <2>1. \A d \in Range(set[x].kids) : g[d] = h[d]
    BY PartsResolve
  <2> QED
    BY <2>1 DEF columnsAt
<1>4. PICK f \in [D -> V] : f = B[f]
  <2>1. V # {} /\ Founded(D, partsOf(set))
    BY DEF WellFormed
  <2> HIDE DEF B, D, V
  <2> QED
    BY <1>2, <1>3, <2>1, Recursion
<1> DEFINE F == CHOOSE u : u = [x \in D |-> columnsAt(set, u, x)]
<1>5. f = [x \in D |-> columnsAt(set, f, x)]
  BY <1>4
<1>6. F = [x \in D |-> columnsAt(set, F, x)]
  <2> HIDE DEF D
  <2> QED
    BY <1>5
<1>7. \A x : columnsOf(set, x) = F[x]
  BY DEF columnsOf, columnsAt
<1> HIDE DEF F
<1>8. \A x \in D : F[x] \in V
  <2> DEFINE Good == {x \in D : F[x] \in V}
  <2>1. ASSUME NEW x \in D, partsOf(set)[x] \cap D \subseteq Good
        PROVE  x \in Good
    <3>1. F[x] = columnsAt(set, F, x)
      BY <1>6
    <3>2. CASE set[x].kind = "column"
      BY <3>1, <3>2 DEF columnsAt, allColumns
    <3>3. CASE set[x].kind # "column"
      <4>1. \A y \in Range(set[x].kids) : F[y] \in V
        BY <2>1, PartsResolve
      <4>2. F[x] = UNION {F[y] : y \in Range(set[x].kids)}
        BY <3>1, <3>3 DEF columnsAt
      <4> QED
        BY <4>1, <4>2
    <3> QED
      BY <3>2, <3>3
  <2>2. Founded(D, partsOf(set)) /\ Good \in SUBSET D
    BY DEF WellFormed
  <2>3. D = Good
    <3> HIDE DEF Good, D, V
    <3> QED
      BY <2>1, <2>2, FoundedInduction
  <2> QED
    BY <2>3
<1>9. IsFiniteSet(allColumns(set))
  BY ColumnsFinite
<1> SUFFICES ASSUME NEW x \in D
             PROVE  /\ F[x] \in V
                    /\ IsFiniteSet(F[x])
                    /\ set[x].kind = "column" => F[x] = {set[x].column}
                    /\ set[x].kind # "column" => \A y \in partsOf(set)[x] : F[y] \subseteq F[x]
  BY <1>7
<1>10. F[x] = columnsAt(set, F, x)
  BY <1>6
<1>11. F[x] \in V /\ IsFiniteSet(F[x])
  BY <1>8, <1>9, FS_Subset
<1>12. set[x].kind = "column" => F[x] = {set[x].column}
  BY <1>10 DEF columnsAt
<1>13. set[x].kind # "column" => \A y \in Range(set[x].kids) : F[y] \subseteq F[x]
  BY <1>10 DEF columnsAt
<1>14. partsOf(set)[x] = Range(set[x].kids)
  BY DEF partsOf
<1> QED
  BY <1>11, <1>12, <1>13, <1>14

\* Whether an expression is true, from whether its parts are.
holdsAt(set, row, f, x) ==
    LET kid(k) == f[set[x].kids[k]]
        n == DOMAIN set[x].kids
    IN  CASE set[x].kind = "column"  -> set[x].column \in row
          [] set[x].kind = "formula" -> kid(1)
          [] set[x].kind = "not"     -> ~kid(1)
          [] set[x].kind = "and"     -> \A k \in n : kid(k)
          [] set[x].kind = "or"      -> \E k \in n : kid(k)
          [] set[x].kind = "xor"     -> Cardinality({k \in n : kid(k)}) % 2 = 1
          [] set[x].kind = "implies" -> kid(1) => kid(2)
          [] set[x].kind = "iff"     -> kid(1) <=> kid(2)

\* It is so in rows that agree on its own column, from parts that agree.
LEMMA HoldsAtLocal ==
    ASSUME NEW set, WellFormed(set), NEW x \in DOMAIN set, NEW row, NEW row2, NEW f, NEW g,
           set[x].kind = "column" => (set[x].column \in row <=> set[x].column \in row2),
           \A y \in partsOf(set)[x] : f[y] \in BOOLEAN /\ g[y] = f[y]
    PROVE  /\ holdsAt(set, row, f, x) \in BOOLEAN
           /\ holdsAt(set, row, f, x) = holdsAt(set, row2, g, x)
<1> DEFINE n == DOMAIN set[x].kids
           kid(k) == f[set[x].kids[k]]
           kid2(k) == g[set[x].kids[k]]
<1>1. \A k \in n : kid(k) \in BOOLEAN /\ kid2(k) = kid(k)
  BY PartsResolve
<1>2. /\ set[x].kind \in {"formula", "not"} => 1 \in n
      /\ set[x].kind \in Conditional => 1 \in n /\ 2 \in n
  BY PartsResolve DEF WellFormed
<1>3. set[x].kind \in {"column", "formula", "not", "and", "or", "xor", "implies", "iff"}
  BY DEF WellFormed, NodeKind, OperatorKind, Variadic, Conditional
<1> DEFINE a == holdsAt(set, row, f, x)
           b == holdsAt(set, row2, g, x)
<1> SUFFICES a \in BOOLEAN /\ a = b
  OBVIOUS
<1>4. CASE set[x].kind = "column"
  BY <1>4 DEF holdsAt
<1>5. CASE set[x].kind = "formula"
  <2>1. a = kid(1) /\ b = kid2(1)
    BY <1>5 DEF holdsAt
  <2> HIDE DEF a, b, kid, kid2, n
  <2> QED
    BY <1>1, <1>2, <1>5, <2>1
<1>6. CASE set[x].kind = "not"
  <2>1. a = ~kid(1) /\ b = ~kid2(1)
    BY <1>6 DEF holdsAt
  <2> HIDE DEF a, b, kid, kid2, n
  <2> QED
    BY <1>1, <1>2, <1>6, <2>1
<1>7. CASE set[x].kind = "and"
  <2>1. a = (\A k \in n : kid(k)) /\ b = (\A k \in n : kid2(k))
    BY <1>7 DEF holdsAt
  <2> HIDE DEF a, b, kid, kid2, n
  <2> QED
    BY <1>1, <2>1
<1>8. CASE set[x].kind = "or"
  <2>1. a = (\E k \in n : kid(k)) /\ b = (\E k \in n : kid2(k))
    BY <1>8 DEF holdsAt
  <2> HIDE DEF a, b, kid, kid2, n
  <2> QED
    BY <1>1, <2>1
<1>9. CASE set[x].kind = "xor"
  <2>1. /\ a = (Cardinality({k \in n : kid(k)}) % 2 = 1)
        /\ b = (Cardinality({k \in n : kid2(k)}) % 2 = 1)
    BY <1>9 DEF holdsAt
  <2>2. {k \in n : kid(k)} = {k \in n : kid2(k)}
    <3> HIDE DEF a, b, kid, kid2, n
    <3> QED
      BY <1>1
  <2> HIDE DEF a, b, kid, kid2, n
  <2> QED
    BY <2>1, <2>2
<1>10. CASE set[x].kind = "implies"
  <2>1. a = (kid(1) => kid(2)) /\ b = (kid2(1) => kid2(2))
    BY <1>10 DEF holdsAt
  <2> HIDE DEF a, b, kid, kid2, n
  <2> QED
    BY <1>1, <1>2, <1>10, <2>1 DEF Conditional
<1>11. CASE set[x].kind = "iff"
  <2>1. a = (kid(1) <=> kid(2)) /\ b = (kid2(1) <=> kid2(2))
    BY <1>11 DEF holdsAt
  <2> HIDE DEF a, b, kid, kid2, n
  <2> QED
    BY <1>1, <1>2, <1>11, <2>1 DEF Conditional
<1> QED
  BY <1>3, <1>4, <1>5, <1>6, <1>7, <1>8, <1>9, <1>10, <1>11

\* The truth of every expression of the set in a row.
Truths(set, row, f) ==
    \A x \in DOMAIN set : f[x] \in BOOLEAN /\ f[x] = holdsAt(set, row, f, x)

LEMMA TruthsAre ==
    ASSUME NEW set, WellFormed(set), NEW row
    PROVE  \E f : /\ Truths(set, row, f)
                  /\ \A e : evaluateCombinedNode(set, e, row) = f[e]
<1> DEFINE D == DOMAIN set
           V == BOOLEAN
           B == [g \in [D -> V] |-> [x \in D |-> holdsAt(set, row, g, x)]]
<1>1. \A g \in [D -> V] : \A x \in D : holdsAt(set, row, g, x) \in V
  <2> SUFFICES ASSUME NEW g \in [D -> V], NEW x \in D
               PROVE  holdsAt(set, row, g, x) \in V
    OBVIOUS
  <2>1. \A y \in partsOf(set)[x] : g[y] \in BOOLEAN /\ g[y] = g[y]
    BY PartsResolve
  <2> QED
    BY <2>1, HoldsAtLocal
<1>2. Total(D, V, B)
  <2> HIDE DEF D, V
  <2> QED
    BY <1>1 DEF Total
<1>3. Local(D, V, partsOf(set), B)
  <2> SUFFICES ASSUME NEW g \in [D -> V], NEW h \in [D -> V], NEW x \in D,
                      \A d \in partsOf(set)[x] \cap D : g[d] = h[d]
               PROVE  holdsAt(set, row, g, x) = holdsAt(set, row, h, x)
    BY DEF Local
  <2>1. \A y \in partsOf(set)[x] : g[y] \in BOOLEAN /\ h[y] = g[y]
    BY PartsResolve
  <2> QED
    BY <2>1, HoldsAtLocal
<1>4. PICK f \in [D -> V] : f = B[f]
  <2>1. V # {} /\ Founded(D, partsOf(set))
    BY DEF WellFormed
  <2> HIDE DEF B, D, V
  <2> QED
    BY <1>2, <1>3, <2>1, Recursion
<1> DEFINE F == CHOOSE u : u = [x \in D |-> holdsAt(set, row, u, x)]
<1>5. f = [x \in D |-> holdsAt(set, row, f, x)]
  BY <1>4
<1>6. F = [x \in D |-> holdsAt(set, row, F, x)]
  <2> HIDE DEF D
  <2> QED
    BY <1>5
<1>7. \A e : evaluateCombinedNode(set, e, row) = F[e]
  BY DEF evaluateCombinedNode, holdsAt
<1> HIDE DEF F
<1>8. \A x \in D : F[x] \in V
  <2> DEFINE Good == {x \in D : F[x] \in V}
  <2>1. ASSUME NEW x \in D, partsOf(set)[x] \cap D \subseteq Good
        PROVE  x \in Good
    <3>1. F[x] = holdsAt(set, row, F, x)
      BY <1>6
    <3>2. \A y \in partsOf(set)[x] : F[y] \in BOOLEAN /\ F[y] = F[y]
      BY <2>1, PartsResolve
    <3>3. holdsAt(set, row, F, x) \in BOOLEAN
      BY <3>2, HoldsAtLocal
    <3> QED
      BY <3>1, <3>3
  <2>2. Founded(D, partsOf(set)) /\ Good \in SUBSET D
    BY DEF WellFormed
  <2>3. D = Good
    <3> HIDE DEF Good, D, V
    <3> QED
      BY <2>1, <2>2, FoundedInduction
  <2> QED
    BY <2>3
<1>9. Truths(set, row, F)
  BY <1>6, <1>8 DEF Truths
<1> QED
  BY <1>7, <1>9

\* Rows that agree on the columns an expression reads give it one value.
LEMMA OwnColumnsDecide ==
    ASSUME NEW set, WellFormed(set), NEW row, NEW row2
    PROVE  \A e \in DOMAIN set :
              row \cap columnsOf(set, e) = row2 \cap columnsOf(set, e)
                => evaluateCombinedNode(set, e, row) = evaluateCombinedNode(set, e, row2)
<1>1. PICK f : Truths(set, row, f) /\ \A e : evaluateCombinedNode(set, e, row) = f[e]
  BY TruthsAre
<1>2. PICK g : Truths(set, row2, g) /\ \A e : evaluateCombinedNode(set, e, row2) = g[e]
  BY TruthsAre
<1> DEFINE D == DOMAIN set
           Same(x) == row \cap columnsOf(set, x) = row2 \cap columnsOf(set, x)
           Good == {x \in D : Same(x) => g[x] = f[x]}
<1>3. ASSUME NEW x \in D, partsOf(set)[x] \cap D \subseteq Good, Same(x)
      PROVE  g[x] = f[x]
  <2>1. set[x].kind = "column" => (set[x].column \in row <=> set[x].column \in row2)
    BY <1>3, ColumnsAre
  <2>2. \A y \in partsOf(set)[x] : f[y] \in BOOLEAN /\ g[y] = f[y]
    <3>1. CASE set[x].kind = "column"
      <4>1. set[x].kids = << >> /\ partsOf(set)[x] = Range(set[x].kids)
        BY <3>1, PartsResolve DEF WellFormed
      <4>2. partsOf(set)[x] = {}
        BY <4>1 DEF Range
      <4> QED
        BY <4>2
    <3>2. CASE set[x].kind # "column"
      <4>1. \A y \in partsOf(set)[x] : y \in D /\ columnsOf(set, y) \subseteq columnsOf(set, x)
        BY <3>2, PartsResolve, ColumnsAre
      <4>2. \A y \in partsOf(set)[x] : Same(y)
        BY <1>3, <4>1
      <4> QED
        BY <1>1, <1>3, <4>1, <4>2 DEF Truths
    <3> QED
      BY <3>1, <3>2
  <2>3. holdsAt(set, row, f, x) = holdsAt(set, row2, g, x)
    BY <2>1, <2>2, HoldsAtLocal
  <2> QED
    BY <1>1, <1>2, <2>3 DEF Truths
<1>4. D = Good
  <2>1. \A x \in D : partsOf(set)[x] \cap D \subseteq Good => x \in Good
    BY <1>3
  <2>2. Founded(D, partsOf(set)) /\ Good \in SUBSET D
    BY DEF WellFormed
  <2> HIDE DEF Good, D
  <2> QED
    BY <2>1, <2>2, FoundedInduction
<1> QED
  BY <1>1, <1>2, <1>4

\* A family of sets that agree outside free is all that do when it is as large.
LEMMA FullFamily ==
    ASSUME NEW free, IsFiniteSet(free), NEW family, IsFiniteSet(family),
           \A a, b \in family : a \cap free = b \cap free => a = b,
           Cardinality(family) = 2 ^ Cardinality(free), NEW w
    PROVE  \E a \in family : a \cap free = w \cap free
<1> DEFINE I == {a \cap free : a \in family}
           m == [a \in family |-> a \cap free]
<1>1. m \in Surjection(family, I)
  BY DEF Surjection
<1>2. m \in Injection(family, I)
  BY DEF Injection, IsInjective
<1>3. IsFiniteSet(I) /\ Cardinality(I) = Cardinality(family)
  <2> HIDE DEF m, I
  <2> QED
    BY <1>1, <1>2, FS_Surjection
<1>4. I \in SUBSET (SUBSET free)
  OBVIOUS
<1>5. I = SUBSET free
  <2>1. IsFiniteSet(SUBSET free) /\ Cardinality(SUBSET free) = 2 ^ Cardinality(free)
    BY FS_SUBSET
  <2>2. Cardinality(SUBSET free) = Cardinality(I)
    BY <1>3, <2>1
  <2> HIDE DEF m, I
  <2> QED
    BY <1>4, <2>1, <2>2, FS_Subset
<1>6. w \cap free \in I
  BY <1>5
<1> QED
  BY <1>6

\* What a statement fixes says it all: whatever else is true, a row that has
\* the columns fixed as they are fixed gives the expression its value.
LEMMA CubeSaysAll ==
    ASSUME NEW set, WellFormed(set), NEW e \in DOMAIN set, NEW value \in BOOLEAN,
           decomposeStatement(set, e, value) = "cube", NEW w,
           \A c \in fixedColumns(set, e, value) : c \in w <=> valueOf(set, e, value, c)
    PROVE  evaluateCombinedNode(set, e, w) = value
<1> DEFINE C == columnsOf(set, e)
           kept == keptRows(set, e, value)
           fixed == fixedColumns(set, e, value)
           free == C \ fixed
<1>1. kept # {} /\ Cardinality(kept) = 2 ^ Cardinality(free)
  BY DEF decomposeStatement
<1>2. IsFiniteSet(C)
  BY ColumnsAre
<1>3. \A row \in kept : row \in SUBSET C /\ evaluateCombinedNode(set, e, row) = value
  BY DEF keptRows
<1>4. /\ fixed \subseteq C
      /\ \A c \in fixed : (\A row \in kept : c \in row) \/ (\A row \in kept : c \notin row)
  BY DEF fixedColumns
<1> DEFINE r0 == CHOOSE row \in kept : TRUE
<1>5. \A c : valueOf(set, e, value, c) <=> c \in r0
  BY DEF valueOf
<1>6. r0 \in kept
  BY <1>1
<1>7. \A c \in fixed : c \in w <=> c \in r0
  BY <1>5
<1> HIDE DEF kept, fixed, C, r0
<1>8. IsFiniteSet(free) /\ IsFiniteSet(kept)
  <2>1. IsFiniteSet(free)
    BY <1>2, FS_Subset
  <2>2. IsFiniteSet(SUBSET C)
    BY <1>2, FS_SUBSET
  <2>3. kept \in SUBSET (SUBSET C)
    BY <1>3
  <2> HIDE DEF free
  <2> QED
    BY <2>1, <2>2, <2>3, FS_Subset
<1>9. \A row \in kept : \A c \in fixed : c \in row <=> c \in r0
  BY <1>4, <1>6
<1>10. \A a, b \in kept : a \cap free = b \cap free => a = b
  <2> SUFFICES ASSUME NEW a \in kept, NEW b \in kept, a \cap free = b \cap free
               PROVE  a = b
    OBVIOUS
  <2>1. a \subseteq C /\ b \subseteq C
    BY <1>3
  <2>2. \A c \in C : c \in fixed \/ c \in free
    OBVIOUS
  <2>3. \A c \in fixed : c \in a <=> c \in b
    BY <1>9
  <2>4. \A c \in free : c \in a <=> c \in b
    OBVIOUS
  <2> HIDE DEF free
  <2> QED
    BY <2>1, <2>2, <2>3, <2>4
<1>11. PICK row \in kept : row \cap free = w \cap free
  <2> HIDE DEF free
  <2> QED
    BY <1>1, <1>8, <1>10, FullFamily
<1>12. row \cap C = w \cap C
  BY <1>4, <1>7, <1>9, <1>11
<1>13. evaluateCombinedNode(set, e, row) = evaluateCombinedNode(set, e, w)
  BY <1>12, OwnColumnsDecide DEF C
<1> QED
  BY <1>3, <1>13

(***************************************************************************)
(* Evaluation and the combined formulas agree.                             *)
(***************************************************************************)
Classical == {True, False}

LEMMA ValueInIs ==
    /\ valueIn(TRUE) = True /\ valueIn(FALSE) = False
    /\ True # False /\ True \in Classical /\ False \in Classical
    /\ \A p \in BOOLEAN : valueIn(p) \in Classical /\ (valueIn(p) = True <=> p)
                          /\ ("t" \in valueIn(p) <=> p) /\ ("f" \in valueIn(p) <=> ~p)
    /\ \A v \in Classical : \E p \in BOOLEAN : v = valueIn(p)
  BY DEF valueIn, True, False, Classical

LEMMA ToldIs ==
    ASSUME NEW p \in BOOLEAN, NEW q \in BOOLEAN, q = ~p
    PROVE  told(p, q) = valueIn(p)
  BY DEF told, valueIn, True, False

LEMMA ConnectivesAre ==
    ASSUME NEW p \in BOOLEAN, NEW q \in BOOLEAN
    PROVE  /\ belnapNot(valueIn(p)) = valueIn(~p)
           /\ belnapXor(valueIn(p), valueIn(q)) = valueIn(~(p <=> q))
           /\ belnapImplies(valueIn(p), valueIn(q)) = valueIn(p => q)
           /\ belnapIff(valueIn(p), valueIn(q)) = valueIn(p <=> q)
<1>1. \A r \in BOOLEAN : belnapNot(valueIn(r)) = valueIn(~r)
  BY ValueInIs, ToldIs DEF belnapNot
<1>2. \A r \in BOOLEAN, s \in BOOLEAN :
         /\ belnapAnd(valueIn(r), valueIn(s)) = valueIn(r /\ s)
         /\ belnapOr(valueIn(r), valueIn(s)) = valueIn(r \/ s)
  BY ValueInIs, ToldIs DEF belnapAnd, belnapOr
<1>3. belnapXor(valueIn(p), valueIn(q)) = valueIn(~(p <=> q))
  BY ValueInIs, ToldIs DEF belnapXor
<1>4. \A r \in BOOLEAN, s \in BOOLEAN :
         belnapImplies(valueIn(r), valueIn(s)) = valueIn(r => s)
  BY <1>1, <1>2 DEF belnapImplies, valueIn
<1>5. belnapIff(valueIn(p), valueIn(q)) = valueIn(p <=> q)
  BY <1>2, <1>4 DEF belnapIff, valueIn
<1> QED
  BY <1>1, <1>3, <1>4, <1>5

\* Parity is computed step by step.
LEMMA ParitySteps ==
    ASSUME NEW vs \in Seq(Classical)
    PROVE  \E f \in [0 .. Len(vs) -> Classical] :
              /\ f[0] = False
              /\ \A n \in 1 .. Len(vs) : f[n] = belnapXor(f[n - 1], vs[n])
              /\ parity(vs) = f[Len(vs)]
<1> DEFINE D == 0 .. Len(vs)
           at(g, n) == IF n = 0 THEN False ELSE belnapXor(g[n - 1], vs[n])
           below == [n \in D |-> {n - 1}]
           B == [g \in [D -> Classical] |-> [n \in D |-> at(g, n)]]
<1>x. \A v, w \in Classical : belnapXor(v, w) \in Classical
  <2> SUFFICES ASSUME NEW v \in Classical, NEW w \in Classical
               PROVE  belnapXor(v, w) \in Classical
    OBVIOUS
  <2>1. PICK p \in BOOLEAN, q \in BOOLEAN : v = valueIn(p) /\ w = valueIn(q)
    BY ValueInIs
  <2>2. belnapXor(valueIn(p), valueIn(q)) = valueIn(~(p <=> q))
    BY ConnectivesAre
  <2> QED
    BY <2>1, <2>2 DEF valueIn, Classical
<1>0. Len(vs) \in Nat /\ False \in Classical /\ \A n \in D : n # 0 => n - 1 \in D /\ vs[n] \in Classical
  BY DEF Classical
<1>1. Founded(D, below)
  <2> SUFFICES ASSUME NEW S \in SUBSET D, S # {}
               PROVE  \E e \in S : below[e] \cap S = {}
    BY DEF Founded
  <2>1. PICK e \in S : \A m \in S : e <= m
    BY <1>0, LeastNumber
  <2> QED
    BY <1>0, <2>1
<1>2. \A g \in [D -> Classical] : \A n \in D : at(g, n) \in Classical
  BY <1>0, <1>x
<1>3. Total(D, Classical, B)
  BY <1>2 DEF Total
<1>4. Local(D, Classical, below, B)
  <2>1. \A g \in [D -> Classical] : \A e \in D : B[g][e] = at(g, e)
    <3> HIDE DEF at, D
    <3> QED
      OBVIOUS
  <2>2. ASSUME NEW g \in [D -> Classical], NEW h \in [D -> Classical], NEW e \in D,
               \A d \in below[e] \cap D : g[d] = h[d]
        PROVE  at(g, e) = at(h, e)
    <3> HIDE DEF B
    <3> QED
      BY <1>0, <2>2
  <2> HIDE DEF B, at, below, D
  <2> QED
    BY <2>1, <2>2 DEF Local
<1>5. PICK f \in [D -> Classical] : f = B[f]
  <2>1. Classical # {}
    BY DEF Classical
  <2> HIDE DEF B, D, below
  <2> QED
    BY <1>1, <1>3, <1>4, <2>1, Recursion
<1>6. f = [n \in D |-> at(f, n)]
  BY <1>5
<1> DEFINE F == CHOOSE u : u = [n \in D |-> at(u, n)]
<1>7. F = [n \in D |-> at(F, n)]
  <2> HIDE DEF D, at
  <2> QED
    BY <1>6
<1>8. parity(vs) = F[Len(vs)]
  BY DEF parity
<1> HIDE DEF F
<1>9. F \in [D -> Classical]
  <2> DEFINE S == {n \in D : F[n] \notin Classical}
  <2>1. S = {}
    <3> SUFFICES ASSUME S # {} PROVE FALSE
      OBVIOUS
    <3>0. S \in SUBSET Nat
      BY <1>0
    <3>1. PICK e \in S : \A m \in S : e <= m
      <4> HIDE DEF S
      <4> QED
        BY <3>0, LeastNumber
    <3>2. e = 0 \/ F[e - 1] \in Classical
      BY <1>0, <3>1
    <3>3. F[e] = at(F, e)
      BY <1>7
    <3> QED
      BY <1>0, <1>x, <3>1, <3>2, <3>3
  <2> QED
    BY <1>7, <2>1
<1>10. F[0] = False /\ \A n \in 1 .. Len(vs) : F[n] = belnapXor(F[n - 1], vs[n])
  <2>1. 0 \in D /\ \A n \in 1 .. Len(vs) : n \in D /\ n # 0
    BY <1>0
  <2>2. \A n \in D : F[n] = at(F, n)
    BY <1>7
  <2> QED
    BY <2>1, <2>2
<1> QED
  BY <1>8, <1>9, <1>10

\* Whether an odd number of members.
odd(S) == Cardinality(S) % 2 = 1

LEMMA OneMore ==
    ASSUME NEW S, IsFiniteSet(S), NEW x, x \notin S
    PROVE  IsFiniteSet(S \cup {x}) /\ (odd(S \cup {x}) <=> ~odd(S))
<1>1. PICK n : n = Cardinality(S)
  OBVIOUS
<1>2. n \in Nat /\ Cardinality(S \cup {x}) = n + 1 /\ IsFiniteSet(S \cup {x})
  BY <1>1, FS_CardinalityType, FS_AddElement
<1>3. (n + 1) % 2 = 1 <=> ~(n % 2 = 1)
  BY <1>2
<1> QED
  BY <1>1, <1>2, <1>3 DEF odd

\* The positions up to n that hold.
trues(b, n) == {j \in 1 .. n : b[j]}

LEMMA ParityCounts ==
    ASSUME NEW m \in Nat, NEW b \in [1 .. m -> BOOLEAN]
    PROVE  parity([k \in 1 .. m |-> valueIn(b[k])]) = valueIn(odd(trues(b, m)))
<1> DEFINE vs == [k \in 1 .. m |-> valueIn(b[k])]
           Counts(v, n) == v = valueIn(odd(trues(b, n)))
<1>0. vs \in Seq(Classical) /\ Len(vs) = m
  <2>1. \A k \in 1 .. m : valueIn(b[k]) \in Classical
    BY ValueInIs
  <2> QED
    BY <2>1
<1>v. \A k \in 1 .. m : vs[k] = valueIn(b[k]) /\ b[k] \in BOOLEAN
  OBVIOUS
<1> HIDE DEF vs
<1>1. PICK f \in [0 .. m -> Classical] :
        /\ f[0] = False
        /\ \A n \in 1 .. m : f[n] = belnapXor(f[n - 1], vs[n])
        /\ parity(vs) = f[m]
  BY <1>0, ParitySteps
<1> DEFINE S == {n \in 0 .. m : ~Counts(f[n], n)}
<1>2. S = {}
  <2> SUFFICES ASSUME S # {} PROVE FALSE
    OBVIOUS
  <2>0. S \in SUBSET Nat
    OBVIOUS
  <2>1. PICK n \in S : \A k \in S : n <= k
    <3> HIDE DEF S
    <3> QED
      BY <2>0, LeastNumber
  <2>2. n # 0
    <3>1. trues(b, 0) = {}
      BY DEF trues
    <3>2. ~odd({})
      BY FS_EmptySet DEF odd
    <3>3. Counts(f[0], 0)
      BY <1>1, <3>1, <3>2 DEF valueIn
    <3> QED
      BY <3>3
  <2>3. n \in 1 .. m /\ n - 1 \in 0 .. m /\ n - 1 \notin S /\ n - 1 \in Nat
    BY <2>1, <2>2
  <2>4. Counts(f[n - 1], n - 1) /\ f[n] = belnapXor(f[n - 1], vs[n])
    BY <1>1, <2>3
  <2>5. IsFiniteSet(trues(b, n - 1)) /\ n \notin trues(b, n - 1)
    <3>1. n \notin trues(b, n - 1)
      BY <2>3 DEF trues
    <3>2. IsFiniteSet(1 .. (n - 1)) /\ trues(b, n - 1) \in SUBSET (1 .. (n - 1))
      BY <2>3, FS_Interval DEF trues
    <3> QED
      BY <3>1, <3>2, FS_Subset
  <2>6. trues(b, n) = IF b[n] THEN trues(b, n - 1) \cup {n} ELSE trues(b, n - 1)
    <3>1. 1 .. n = (1 .. (n - 1)) \cup {n}
      BY <2>3
    <3> QED
      BY <3>1 DEF trues
  <2>7. PICK p \in BOOLEAN, q \in BOOLEAN : (p <=> odd(trues(b, n - 1))) /\ (q <=> b[n])
    OBVIOUS
  <2>8. odd(trues(b, n)) <=> ~(p <=> q)
    BY <2>5, <2>6, <2>7, OneMore
  <2>9. f[n - 1] = valueIn(p) /\ vs[n] = valueIn(q)
    BY <1>v, <2>3, <2>4, <2>7 DEF valueIn
  <2>10. f[n] = valueIn(~(p <=> q))
    BY <2>4, <2>9, ConnectivesAre
  <2>11. Counts(f[n], n)
    BY <2>8, <2>10 DEF valueIn
  <2> QED
    BY <2>11
<1>3. Counts(f[m], m)
  <2>1. m \in 0 .. m /\ m \notin S
    BY <1>2
  <2> QED
    BY <2>1
<1> QED
  BY <1>1, <1>3 DEF vs

\* Each kind gives of true and false values the value of the formula.
LEMMA OperatorAgrees ==
    ASSUME NEW set, WellFormed(set), NEW row, NEW f,
           NEW x \in DOMAIN set, set[x].kind # "column",
           \A y \in partsOf(set)[x] : f[y] \in BOOLEAN
    PROVE  applyOperator(set[x].kind,
                         [k \in DOMAIN set[x].kids |-> valueIn(f[set[x].kids[k]])])
               = valueIn(holdsAt(set, row, f, x))
<1> DEFINE m == Len(set[x].kids)
           b == [k \in 1 .. m |-> f[set[x].kids[k]]]
           vs == [k \in 1 .. m |-> valueIn(b[k])]
           kind == set[x].kind
<1>1. m \in Nat /\ DOMAIN set[x].kids = 1 .. m /\ \A k \in 1 .. m : f[set[x].kids[k]] \in BOOLEAN
  BY PartsResolve
<1>2. b \in [1 .. m -> BOOLEAN]
  BY <1>1
<1>3. [k \in DOMAIN set[x].kids |-> valueIn(f[set[x].kids[k]])] = vs
  BY <1>1
<1>4. /\ kind \in {"formula", "not"} => 1 \in 1 .. m
      /\ kind \in Conditional => 1 \in 1 .. m /\ 2 \in 1 .. m
  <2>1. (kind \in {"not", "formula"} => m = 1) /\ (kind \in Conditional => m = 2)
    BY DEF WellFormed
  <2> HIDE DEF m, kind
  <2> QED
    BY <2>1
<1>5. kind \in {"formula", "not", "and", "or", "xor", "implies", "iff"}
  BY DEF WellFormed, NodeKind, OperatorKind, Variadic, Conditional
<1> DEFINE a == holdsAt(set, row, f, x)
<1>6. /\ kind = "formula" => a = b[1]
      /\ kind = "not" => a = ~b[1]
      /\ kind = "implies" => a = (b[1] => b[2])
      /\ kind = "iff" => a = (b[1] <=> b[2])
      /\ kind = "and" => a = (\A k \in 1 .. m : b[k])
      /\ kind = "or" => a = (\E k \in 1 .. m : b[k])
      /\ kind = "xor" => a = odd(trues(b, m))
  <2>1. \A k \in 1 .. m : f[set[x].kids[k]] = b[k]
    OBVIOUS
  <2>2. kind = "formula" => a = b[1]
    BY <1>4 DEF holdsAt
  <2>3. kind = "not" => a = ~b[1]
    BY <1>4 DEF holdsAt
  <2>4. kind = "implies" => a = (b[1] => b[2])
    BY <1>4 DEF holdsAt, Conditional
  <2>5. kind = "iff" => a = (b[1] <=> b[2])
    BY <1>4 DEF holdsAt, Conditional
  <2>6. kind = "and" => a = (\A k \in 1 .. m : b[k])
    BY <1>1 DEF holdsAt
  <2>7. kind = "or" => a = (\E k \in 1 .. m : b[k])
    BY <1>1 DEF holdsAt
  <2>8. kind = "xor" => a = odd(trues(b, m))
    <3>1. {k \in 1 .. m : f[set[x].kids[k]]} = trues(b, m)
      BY DEF trues
    <3> QED
      BY <1>1, <3>1 DEF holdsAt, odd
  <2> QED
    BY <2>2, <2>3, <2>4, <2>5, <2>6, <2>7, <2>8
<1>7. Len(vs) = m /\ DOMAIN vs = 1 .. m /\ \A k \in 1 .. m : vs[k] = valueIn(b[k]) /\ b[k] \in BOOLEAN
  BY <1>1
<1>8. parity(vs) = valueIn(odd(trues(b, m)))
  <2> HIDE DEF m, b
  <2> QED
    BY <1>1, <1>2, ParityCounts
<1> SUFFICES applyOperator(kind, vs) = valueIn(a)
  BY <1>3
<1> HIDE DEF m, b, vs, kind, a
<1>9. CASE kind = "formula"
  BY <1>1, <1>4, <1>6, <1>7, <1>9 DEF applyOperator
<1>10. CASE kind = "not"
  <2>1. applyOperator(kind, vs) = belnapNot(vs[1])
    BY <1>1, <1>4, <1>7, <1>10 DEF applyOperator
  <2>2. belnapNot(vs[1]) = valueIn(~b[1])
    BY <1>4, <1>7, <1>10, ConnectivesAre
  <2> QED
    BY <1>6, <1>10, <2>1, <2>2
<1>11. CASE kind = "implies"
  <2>1. applyOperator(kind, vs) = belnapImplies(vs[1], vs[2])
    BY <1>1, <1>4, <1>7, <1>11 DEF applyOperator, Conditional
  <2>2. belnapImplies(vs[1], vs[2]) = valueIn(b[1] => b[2])
    BY <1>4, <1>7, <1>11, ConnectivesAre DEF Conditional
  <2> QED
    BY <1>6, <1>11, <2>1, <2>2
<1>12. CASE kind = "iff"
  <2>1. applyOperator(kind, vs) = belnapIff(vs[1], vs[2])
    BY <1>1, <1>4, <1>7, <1>12 DEF applyOperator, Conditional
  <2>2. belnapIff(vs[1], vs[2]) = valueIn(b[1] <=> b[2])
    BY <1>4, <1>7, <1>12, ConnectivesAre DEF Conditional
  <2> QED
    BY <1>6, <1>12, <2>1, <2>2
<1>13. CASE kind = "and"
  <2>1. applyOperator(kind, vs) = told(\A k \in 1 .. m : "t" \in vs[k], \E k \in 1 .. m : "f" \in vs[k])
    BY <1>7, <1>13 DEF applyOperator
  <2>2. /\ (\A k \in 1 .. m : "t" \in vs[k]) <=> \A k \in 1 .. m : b[k]
        /\ (\E k \in 1 .. m : "f" \in vs[k]) <=> ~ \A k \in 1 .. m : b[k]
    BY <1>7, ValueInIs
  <2>3. told(\A k \in 1 .. m : "t" \in vs[k], \E k \in 1 .. m : "f" \in vs[k])
            = valueIn(\A k \in 1 .. m : b[k])
    BY <2>2 DEF told, valueIn, True, False
  <2> QED
    BY <1>6, <1>13, <2>1, <2>3
<1>14. CASE kind = "or"
  <2>1. applyOperator(kind, vs) = told(\E k \in 1 .. m : "t" \in vs[k], \A k \in 1 .. m : "f" \in vs[k])
    BY <1>7, <1>14 DEF applyOperator
  <2>2. /\ (\E k \in 1 .. m : "t" \in vs[k]) <=> \E k \in 1 .. m : b[k]
        /\ (\A k \in 1 .. m : "f" \in vs[k]) <=> ~ \E k \in 1 .. m : b[k]
    BY <1>7, ValueInIs
  <2>3. told(\E k \in 1 .. m : "t" \in vs[k], \A k \in 1 .. m : "f" \in vs[k])
            = valueIn(\E k \in 1 .. m : b[k])
    BY <2>2 DEF told, valueIn, True, False
  <2> QED
    BY <1>6, <1>14, <2>1, <2>3
<1>15. CASE kind = "xor"
  BY <1>6, <1>8, <1>15 DEF applyOperator
<1> QED
  BY <1>5, <1>9, <1>10, <1>11, <1>12, <1>13, <1>14, <1>15

\* The target as it is evaluated in a world: a variable that stands for a premise
\* of it gives way to that premise.
readIn(t) == inPlace(t, premisesOf(t))

LEMMA ReadInIs ==
    ASSUME NEW t, Answerable(t), NEW e \in DOMAIN t.expr
    PROVE  LET node == expander(t)[e]
               x == readIn(t).expr[e].variable
           IN  /\ kindOf(readIn(t), e) = "variable" <=> node.kind = "column"
               /\ node.kind # "column" => /\ kindOf(readIn(t), e) = node.kind
                                          /\ kids(readIn(t), e) = node.kids
               /\ node.kind = "column" => /\ x \in DOMAIN t.binding
                                          /\ node.column = columnOf(t, t.binding[x])
<1>1. t = [id |-> t.id, version |-> t.version, expr |-> t.expr, root |-> t.root,
           conclusion |-> t.conclusion, derivations |-> t.derivations,
           binding |-> t.binding, respondsTo |-> t.respondsTo, order |-> t.order]
  BY DEF Answerable, IsArgument
<1>2. t.expr[e] = [premise |-> premiseOf(t, e), kind |-> kindOf(t, e),
                   kids |-> kids(t, e), variable |-> t.expr[e].variable]
  BY DEF Answerable, Trees
<1> DEFINE x == t.expr[e].variable
           n == t.expr[e]
           u == readIn(t).expr[e]
<1>3. u = IF kindOf(t, e) = "variable" /\ inlined(t, e) # None
          THEN [n EXCEPT !.kind = "formula", !.kids = <<inlined(t, e)>>] ELSE n
  BY <1>1 DEF readIn, inPlace, inlined
<1>4. kindOf(readIn(t), e) = u.kind /\ kids(readIn(t), e) = u.kids
  BY DEF kindOf, kids
<1>5. n.kind = kindOf(t, e) /\ n.kids = kids(t, e)
  BY DEF kindOf, kids
<1>6. kindOf(t, e) = "variable" => x \in DOMAIN t.binding
  <2>1. e \in expressionsIn(t, premiseOf(t, e)) /\ validatePremiseEvaluability(t, premiseOf(t, e))
    BY DEF Answerable, expressionsIn, premiseOf
  <2> QED
    BY <2>1 DEF validatePremiseEvaluability
<1> HIDE DEF u
<1>7. CASE kindOf(t, e) # "variable"
  <2>1. expander(t)[e].kind = kindOf(t, e) /\ expander(t)[e].kids = kids(t, e)
    BY <1>7, NodeIs
  <2>2. kindOf(t, e) # "column"
    BY <1>7 DEF Answerable, OperatorKind, Variadic, Conditional
  <2>3. u = n
    BY <1>3, <1>7
  <2> QED
    BY <1>4, <1>5, <1>7, <2>1, <2>2, <2>3 DEF u
<1>8. CASE kindOf(t, e) = "variable" /\ inlined(t, e) # None
  <2>1. expander(t)[e].kind = "formula" /\ expander(t)[e].kids = <<inlined(t, e)>>
    BY <1>8, NodeIs
  <2>2. u = [n EXCEPT !.kind = "formula", !.kids = <<inlined(t, e)>>]
    BY <1>3, <1>8
  <2>3. u.kind = "formula" /\ u.kids = <<inlined(t, e)>>
    BY <1>2, <2>2
  <2> QED
    BY <1>4, <2>1, <2>3
<1>9. CASE kindOf(t, e) = "variable" /\ inlined(t, e) = None
  <2>1. /\ expander(t)[e].kind = "column"
        /\ expander(t)[e].column = columnOf(t, t.binding[x])
    BY <1>9, NodeIs
  <2>2. u = n
    BY <1>3, <1>9
  <2> QED
    BY <1>4, <1>5, <1>6, <1>9, <2>1, <2>2 DEF u
<1> QED
  BY <1>7, <1>8, <1>9

\* In every world the values of the target's expressions are those of its
\* formulas, which are true or false.
LEMMA TargetValuesAre ==
    ASSUME NEW t, Answerable(t), NEW w
    PROVE  \A e \in DOMAIN t.expr :
              /\ evaluateCombinedNode(expander(t), e, w) \in BOOLEAN
              /\ targetValues(t, w)[e] = valueIn(evaluateCombinedNode(expander(t), e, w))
<1> DEFINE D == DOMAIN t.expr
           set == expander(t)
           u == readIn(t)
           vars == [x \in DOMAIN t.binding |-> valueIn(columnOf(t, t.binding[x]) \in w)]
           body(v, e) == IF kindOf(u, e) = "variable" THEN vars[u.expr[e].variable]
                         ELSE applyOperator(kindOf(u, e), [k \in DOMAIN kids(u, e) |-> v[kids(u, e)[k]]])
<1>1. WellFormed(set) /\ DOMAIN set = D
  BY ExpanderWellFormed, ExpanderIs
<1>2. DOMAIN u.expr = D
  <2>1. t = [id |-> t.id, version |-> t.version, expr |-> t.expr, root |-> t.root,
             conclusion |-> t.conclusion, derivations |-> t.derivations,
             binding |-> t.binding, respondsTo |-> t.respondsTo, order |-> t.order]
    BY DEF Answerable, IsArgument
  <2> QED
    BY <2>1 DEF readIn, inPlace
<1>3. PICK f : Truths(set, w, f) /\ \A e : evaluateCombinedNode(set, e, w) = f[e]
  BY <1>1, TruthsAre
<1> DEFINE g == [e \in D |-> valueIn(f[e])]
<1>4. ASSUME NEW v, NEW e \in D, \A d \in partsOf(set)[e] : v[d] = g[d]
      PROVE  body(v, e) = g[e]
  <2>1. g[e] = valueIn(holdsAt(set, w, f, e))
    BY <1>1, <1>3 DEF Truths
  <2>2. CASE set[e].kind = "column"
    <3>1. kindOf(u, e) = "variable"
      BY <2>2, ReadInIs
    <3>2. PICK x : x = u.expr[e].variable
      OBVIOUS
    <3>3. x \in DOMAIN t.binding /\ set[e].column = columnOf(t, t.binding[x])
      BY <2>2, <3>2, ReadInIs
    <3>4. body(v, e) = vars[x]
      BY <3>1, <3>2
    <3>5. vars[x] = valueIn(set[e].column \in w)
      BY <3>3
    <3>6. holdsAt(set, w, f, e) = (set[e].column \in w)
      BY <2>2 DEF holdsAt
    <3> HIDE DEF body, g, vars
    <3> QED
      BY <2>1, <3>4, <3>5, <3>6
  <2>3. CASE set[e].kind # "column"
    <3>1. kindOf(u, e) # "variable" /\ kindOf(u, e) = set[e].kind /\ kids(u, e) = set[e].kids
      BY <2>3, ReadInIs
    <3>2. \A d \in partsOf(set)[e] : d \in D /\ f[d] \in BOOLEAN
      BY <1>1, <1>3, PartsResolve DEF Truths
    <3>3. \A k \in DOMAIN set[e].kids : set[e].kids[k] \in partsOf(set)[e]
      BY <1>1, PartsResolve
    <3>4. \A k \in DOMAIN set[e].kids : v[set[e].kids[k]] = valueIn(f[set[e].kids[k]])
      BY <1>4, <3>2, <3>3
    <3>5. [k \in DOMAIN set[e].kids |-> v[set[e].kids[k]]]
              = [k \in DOMAIN set[e].kids |-> valueIn(f[set[e].kids[k]])]
      <4> HIDE DEF set
      <4> QED
        BY <3>4
    <3>6. body(v, e) = applyOperator(set[e].kind, [k \in DOMAIN set[e].kids |-> v[set[e].kids[k]]])
      BY <3>1
    <3>7. applyOperator(set[e].kind, [k \in DOMAIN set[e].kids |-> valueIn(f[set[e].kids[k]])])
              = valueIn(holdsAt(set, w, f, e))
      <4> HIDE DEF set
      <4> QED
        BY <1>1, <2>3, <3>2, OperatorAgrees
    <3> HIDE DEF body, g, set
    <3> QED
      BY <2>1, <3>5, <3>6, <3>7
  <2> QED
    BY <2>2, <2>3
<1>5. g = [e \in D |-> body(g, e)]
  <2>1. \A e \in D : body(g, e) = g[e]
    BY <1>4
  <2> HIDE DEF body
  <2> QED
    BY <2>1
<1> DEFINE F == CHOOSE val : val = [e \in DOMAIN u.expr |-> body(val, e)]
<1>6. targetValues(t, w) = F
  BY DEF targetValues, evaluateSubtree, readIn
<1> HIDE DEF body
<1>7. F = [e \in D |-> body(F, e)]
  BY <1>2, <1>5
<1> HIDE DEF F
<1> DEFINE Good == {e \in D : F[e] = g[e]}
<1>8. D = Good
  <2>1. ASSUME NEW e \in D, partsOf(set)[e] \cap D \subseteq Good
        PROVE  e \in Good
    <3>1. \A d \in partsOf(set)[e] : F[d] = g[d]
      BY <1>1, <2>1, PartsResolve
    <3>2. body(F, e) = g[e]
      BY <1>4, <3>1
    <3> QED
      BY <1>7, <3>2
  <2>2. Founded(D, partsOf(set)) /\ Good \in SUBSET D
    BY <1>1 DEF WellFormed
  <2> HIDE DEF Good, D, set
  <2> QED
    BY <2>1, <2>2, FoundedInduction
<1>9. ASSUME NEW e \in D
      PROVE  /\ evaluateCombinedNode(set, e, w) \in BOOLEAN
             /\ F[e] = valueIn(evaluateCombinedNode(set, e, w))
  <2>1. f[e] \in BOOLEAN
    BY <1>1, <1>3 DEF Truths
  <2>2. F[e] = valueIn(f[e])
    BY <1>8
  <2> QED
    BY <1>3, <2>1, <2>2
<1> QED
  BY <1>6, <1>9

(***************************************************************************)
(* What is carried.                                                        *)
(***************************************************************************)
\* A variable evaluation reads is bound.
LEMMA EvaluatedAreBound ==
    ASSUME NEW t, Answerable(t), NEW x \in evaluatedVariables(t)
    PROVE  x \in DOMAIN t.binding
<1>1. PICK p \in premisesOf(t) : x \in variablesOf(t, p)
  BY DEF evaluatedVariables
<1>2. PICK e \in expressionsIn(t, p) : kindOf(t, e) = "variable" /\ t.expr[e].variable = x
  BY <1>1 DEF variablesOf
<1>3. e \in DOMAIN t.expr /\ premiseOf(t, e) = p
  BY <1>2 DEF expressionsIn, premiseOf
<1>4. validatePremiseEvaluability(t, p)
  BY <1>3 DEF Answerable
<1> QED
  BY <1>2, <1>4 DEF validatePremiseEvaluability

\* A world in which the values carried for a statement hold, and the axioms do,
\* has the columns fixed as they are fixed.
LEMMA StatementSaid ==
    ASSUME NEW t, Answerable(t), NEW link, link.expression \in DOMAIN t.expr,
           NEW types, carryStatement(t, link, types).values # {},
           fixedColumns(expander(t), link.expression, saysTrue(link)) \subseteq heard(t),
           NEW w \in agreeing(t, types, carryStatement(t, link, types).values)
    PROVE  targetValues(t, w)[link.expression] = valueIn(saysTrue(link))
<1> DEFINE set == expander(t)
           value == saysTrue(link)
           e == link.expression
           kind == decomposeStatement(set, e, value)
           fixed == fixedColumns(set, e, value)
           on(c) == {x \in evaluatedVariables(t) :
                        LET b == t.binding[x]
                        IN  columnOf(t, b) = c /\ b.to \in {"claim", "premise", "external"}}
           heardOf == UNION {on(c) : c \in fixed}
           claims == {x \in heardOf : t.binding[x].to = "claim"}
           typeOf(x) == LET b == t.binding[x]
                        IN  IF <<b.claim, b.version>> \in DOMAIN types
                            THEN types[<<b.claim, b.version>>] ELSE "unknown"
           axioms == {x \in claims : typeOf(x) = "axiomatic"}
           takes(x) == valueOf(set, e, value, columnOf(t, t.binding[x]))
           values == {proposal("variable", x, truth(takes(x))) : x \in heardOf \ axioms}
           stops == {x \in claims : typeOf(x) = "unknown" \/ (x \in axioms /\ ~takes(x))}
           outcome == carryStatement(t, link, types)
<1>1. outcome = IF kind # "cube" THEN refused(kind)
                ELSE IF \E x \in stops : typeOf(x) = "unknown" THEN refused("unknownClaim")
                ELSE IF stops # {} THEN refused("axiom")
                ELSE carried(values, IF axioms # {} THEN "axiom" ELSE "noLinkReached")
  BY DEF carryStatement
<1>2. outcome.values # {} /\ w \in agreeing(t, types, outcome.values)
  OBVIOUS
<1>3. kind = "cube" /\ stops = {} /\ outcome.values = values
  <2> HIDE DEF kind, stops, values, outcome, axioms, typeOf
  <2>1. \A reason : refused(reason).values = {}
    BY DEF refused
  <2>2. \A reason : carried(values, reason).values = values
    BY <2>1 DEF carried
  <2> QED
    BY <1>1, <1>2, <2>1, <2>2
<1>4. ASSUME NEW c \in fixed
      PROVE  c \in w <=> valueOf(set, e, value, c)
  <2>1. PICK x \in evaluatedVariables(t) :
           c = columnOf(t, t.binding[x]) /\ t.binding[x].to \in {"claim", "premise", "external"}
    BY DEF heard
  <2>2. x \in heardOf /\ x \in DOMAIN t.binding
    BY <2>1, EvaluatedAreBound
  <2>3. /\ (proposal("variable", x, "true") \in values \/ axiomIn(t, types, x)) => c \in w
        /\ proposal("variable", x, "false") \in values => c \notin w
    <3> HIDE DEF values
    <3> QED
      BY <1>2, <1>3, <2>1, <2>2 DEF agreeing
  <2>4. takes(x) = valueOf(set, e, value, c)
    BY <2>1
  <2>5. valueOf(set, e, value, c) \in BOOLEAN
    BY DEF valueOf
  <2>6. CASE x \in axioms
    <3>1. takes(x)
      BY <1>3, <2>6
    <3>2. axiomIn(t, types, x)
      BY <2>6 DEF axiomIn
    <3> QED
      BY <2>3, <2>4, <3>1, <3>2
  <2>7. CASE x \notin axioms
    <3>1. proposal("variable", x, truth(takes(x))) \in values
      BY <2>2, <2>7
    <3>2. CASE valueOf(set, e, value, c)
      <4>1. truth(takes(x)) = "true"
        BY <2>4, <3>2 DEF truth
      <4> HIDE DEF values, takes
      <4> QED
        BY <2>3, <3>1, <3>2, <4>1
    <3>3. CASE ~valueOf(set, e, value, c)
      <4>1. truth(takes(x)) = "false"
        BY <2>4, <3>3 DEF truth
      <4> HIDE DEF values, takes
      <4> QED
        BY <2>3, <3>1, <3>3, <4>1
    <3> QED
      BY <2>5, <3>2, <3>3
  <2> QED
    BY <2>6, <2>7
<1>5. value \in BOOLEAN
  BY DEF saysTrue
<1>6. WellFormed(set) /\ e \in DOMAIN set
  BY ExpanderWellFormed, ExpanderIs
<1>7. evaluateCombinedNode(set, e, w) = value
  <2> HIDE DEF set, e, value
  <2> QED
    BY <1>3, <1>4, <1>5, <1>6, CubeSaysAll DEF kind, fixed
<1> QED
  BY <1>7, TargetValuesAre

\* An expression at the root of its premise has the value of the premise.
LEMMA RootsValue ==
    ASSUME NEW t, Answerable(t), NEW e \in DOMAIN t.expr, isAtRoot(t, e), NEW w
    PROVE  targetValues(t, w)[t.root[premiseOf(t, e)]] = targetValues(t, w)[e]
<1> DEFINE D == DOMAIN t.expr
           V == SUBSET D
           set == expander(t)
           at(f, x) == {x} \cup IF kindOf(t, x) = "formula" THEN f[kids(t, x)[1]] ELSE {}
           B == [g \in [D -> V] |-> [x \in D |-> at(g, x)]]
           holds(x) == evaluateCombinedNode(set, x, w)
           top == t.root[premiseOf(t, e)]
<1>1. WellFormed(set) /\ DOMAIN set = D
  BY ExpanderWellFormed, ExpanderIs
<1>2. \A x \in D : kindOf(t, x) = "formula" =>
         /\ set[x].kind = "formula"
         /\ kids(t, x)[1] \in D
         /\ kids(t, x)[1] \in partsOf(set)[x]
         /\ kids(t, x)[1] = set[x].kids[1]
  <2> SUFFICES ASSUME NEW x \in D, kindOf(t, x) = "formula"
               PROVE  /\ set[x].kind = "formula"
                      /\ kids(t, x)[1] \in D
                      /\ kids(t, x)[1] \in partsOf(set)[x]
                      /\ kids(t, x)[1] = set[x].kids[1]
    OBVIOUS
  <2>1. set[x].kind = "formula" /\ set[x].kids = kids(t, x)
    BY NodeIs
  <2>2. Len(set[x].kids) = 1
    BY <1>1, <2>1 DEF WellFormed
  <2>3. 1 \in DOMAIN set[x].kids
    BY <1>1, <2>2, PartsResolve
  <2>4. set[x].kids[1] \in D /\ set[x].kids[1] \in partsOf(set)[x]
    BY <1>1, <2>3, PartsResolve
  <2> QED
    BY <2>1, <2>4
<1>3. Total(D, V, B)
  <2> SUFFICES ASSUME NEW g \in [D -> V], NEW x \in D PROVE at(g, x) \in V
    BY DEF Total
  <2> QED
    BY <1>2
<1>4. Local(D, V, partsOf(set), B)
  <2>1. \A g \in [D -> V] : \A x \in D : B[g][x] = at(g, x)
    <3> HIDE DEF at, D, V
    <3> QED
      OBVIOUS
  <2>2. ASSUME NEW g \in [D -> V], NEW h \in [D -> V], NEW x \in D,
               \A d \in partsOf(set)[x] \cap D : g[d] = h[d]
        PROVE  at(g, x) = at(h, x)
    <3> HIDE DEF B
    <3> QED
      BY <1>2, <2>2
  <2> HIDE DEF B, at, D, V, set
  <2> QED
    BY <2>1, <2>2 DEF Local
<1>5. PICK f \in [D -> V] : f = B[f]
  <2>1. V # {} /\ Founded(D, partsOf(set))
    BY <1>1 DEF WellFormed
  <2> HIDE DEF B, D, V
  <2> QED
    BY <1>3, <1>4, <2>1, Recursion
<1> DEFINE F == CHOOSE u : u = [x \in D |-> at(u, x)]
<1>6. f = [x \in D |-> at(f, x)]
  BY <1>5
<1>7. F = [x \in D |-> at(F, x)]
  <2> HIDE DEF D, at
  <2> QED
    BY <1>6
<1>8. e \in F[top]
  BY DEF isAtRoot
<1> HIDE DEF F
<1>9. \A x \in D : kindOf(t, x) = "formula" => holds(x) = holds(kids(t, x)[1])
  <2>1. PICK h : Truths(set, w, h) /\ \A d : evaluateCombinedNode(set, d, w) = h[d]
    BY <1>1, TruthsAre
  <2>2. \A x \in D : set[x].kind = "formula" => h[x] = h[set[x].kids[1]]
    BY <1>1, <2>1 DEF Truths, holdsAt
  <2> QED
    BY <1>2, <2>1, <2>2
<1> DEFINE Good == {x \in D : \A y \in F[x] : holds(y) = holds(x)}
<1>10. D = Good
  <2>1. ASSUME NEW x \in D, partsOf(set)[x] \cap D \subseteq Good
        PROVE  x \in Good
    <3>1. F[x] = at(F, x)
      BY <1>7
    <3>2. CASE kindOf(t, x) # "formula"
      BY <3>1, <3>2
    <3>3. CASE kindOf(t, x) = "formula"
      <4>1. PICK k : k = kids(t, x)[1]
        OBVIOUS
      <4>2. k \in Good /\ holds(x) = holds(k) /\ F[x] = {x} \cup F[k]
        BY <1>2, <1>9, <2>1, <3>1, <3>3, <4>1
      <4> QED
        BY <4>2
    <3> QED
      BY <3>2, <3>3
  <2>2. Founded(D, partsOf(set)) /\ Good \in SUBSET D
    BY <1>1 DEF WellFormed
  <2> HIDE DEF Good, D, set
  <2> QED
    BY <2>1, <2>2, FoundedInduction
<1>11. top \in D
  <2>1. premiseOf(t, e) \in premisesOf(t) /\ validatePremiseEvaluability(t, premiseOf(t, e))
    BY DEF Answerable, Trees
  <2>2. top # None
    BY <2>1 DEF validatePremiseEvaluability
  <2> QED
    BY <2>1, <2>2 DEF Answerable, Trees, expressionsIn
<1>12. holds(e) = holds(top)
  <2> HIDE DEF holds, top, D
  <2> QED
    BY <1>8, <1>10, <1>11
<1> QED
  BY <1>11, <1>12, TargetValuesAre

\* Links are settled on values none of which contradicts another, each carrying
\* what its own outcome was.
LEMMA SettledAgree ==
    ASSUME NEW outcome, NEW own
    PROVE  LET result == settleAll(outcome, own)
           IN  /\ \A p \in DOMAIN result.sources :
                    p \in DOMAIN outcome /\ outcome[p].values # {}
                    /\ result.sources[p] = outcome[p]
               /\ \A v, w \in carriedValues(result) : ~contradict(v, w)
<1> DEFINE reached == {p \in DOMAIN outcome : outcome[p].values # {}}
           mine == Restrict(outcome, reached \cap own)
           theirs == Restrict(outcome, reached \ own)
           winning == ownValues(mine)
           overridden == {p \in DOMAIN theirs :
                \E v \in theirs[p].values, w \in winning : contradict(v, w)}
           open == Restrict(theirs, DOMAIN theirs \ overridden)
           left == settle(open)
           ours == settle(mine)
           sources == Restrict(outcome, DOMAIN ours \cup DOMAIN left)
<1>1. settleAll(outcome, own).sources = sources
  BY DEF settleAll
<1>2. /\ DOMAIN mine = reached \cap own /\ \A p \in DOMAIN mine : mine[p] = outcome[p]
      /\ DOMAIN theirs = reached \ own /\ \A p \in DOMAIN theirs : theirs[p] = outcome[p]
      /\ DOMAIN open = DOMAIN theirs \ overridden /\ \A p \in DOMAIN open : open[p] = outcome[p]
  BY DEF Restrict
<1>3. \A o : /\ DOMAIN settle(o) = DOMAIN o \ conflictsWithin(o)
             /\ \A p \in DOMAIN settle(o) : settle(o)[p] = o[p]
  BY DEF settle, Restrict
<1>4. \A o : \A p \in DOMAIN settle(o), q \in DOMAIN settle(o) :
        \A v \in o[p].values, w \in o[q].values : ~contradict(v, w)
  BY <1>3 DEF conflictsWithin
<1>5. \A v, w : contradict(v, w) => contradict(w, v)
  BY DEF contradict, sameKey
<1>6. \A p \in DOMAIN ours : \A v \in outcome[p].values : v \in winning
  BY <1>2, <1>3 DEF ownValues, valuesOf
<1>7. \A p \in DOMAIN ours, q \in DOMAIN left :
        \A v \in outcome[p].values, w \in outcome[q].values : ~contradict(v, w)
  <2> SUFFICES ASSUME NEW p \in DOMAIN ours, NEW q \in DOMAIN left,
                      NEW v \in outcome[p].values, NEW w \in outcome[q].values,
                      contradict(v, w)
               PROVE  FALSE
    OBVIOUS
  <2>1. v \in winning /\ contradict(w, v)
    BY <1>5, <1>6
  <2>2. q \in DOMAIN theirs /\ q \notin overridden /\ w \in theirs[q].values
    BY <1>2, <1>3
  <2> QED
    BY <2>1, <2>2
<1>8. DOMAIN ours \subseteq reached /\ DOMAIN left \subseteq reached
  BY <1>2, <1>3
<1>9. /\ \A p \in DOMAIN ours : mine[p] = outcome[p]
      /\ \A p \in DOMAIN left : open[p] = outcome[p]
  BY <1>2, <1>3
<1>10. DOMAIN sources = DOMAIN ours \cup DOMAIN left /\ \A p \in DOMAIN sources : sources[p] = outcome[p]
  BY DEF Restrict
<1>11. \A p \in DOMAIN ours, q \in DOMAIN ours :
        \A v \in outcome[p].values, w \in outcome[q].values : ~contradict(v, w)
  <2> HIDE DEF mine, left
  <2> QED
    BY <1>4, <1>9
<1>12. \A p \in DOMAIN left, q \in DOMAIN left :
        \A v \in outcome[p].values, w \in outcome[q].values : ~contradict(v, w)
  <2> HIDE DEF mine, open
  <2> QED
    BY <1>4, <1>9
<1> HIDE DEF reached, ours, left, sources
<1>13. \A p \in DOMAIN sources, q \in DOMAIN sources :
        \A v \in outcome[p].values, w \in outcome[q].values : ~contradict(v, w)
  BY <1>5, <1>7, <1>10, <1>11, <1>12
<1>14. \A p \in DOMAIN sources : p \in reached
  BY <1>8, <1>10
<1>15. \A v, w \in valuesOf(sources) : ~contradict(v, w)
  BY <1>10, <1>13 DEF valuesOf
<1> QED
  BY <1>1, <1>10, <1>14, <1>15 DEF reached, carriedValues

\* What the property says of one call.
Said(r, t, types, result) ==
    /\ \A v, w \in carriedValues(result) : ~contradict(v, w)
    /\ \A p \in DOMAIN result.sources :
        LET link == readLink(r, p)
            e == link.expression
            q == premiseOf(t, e)
        IN
        /\ result.sources[p].values # {}
        /\ (/\ link.aspect = "statement" /\ t.respondsTo = Nobody
            /\ fixedColumns(expander(t), e, saysTrue(link)) \subseteq heard(t)) =>
               \A w \in agreeing(t, types, result.sources[p].values) :
                   targetValues(t, w)[e] = valueIn(saysTrue(link))
        /\ (link.aspect = "inference" /\ t.respondsTo = Nobody) =>
               IF link.move = "undercut"
               THEN q \notin t.derivations /\ (q = t.conclusion => isAtRoot(t, e))
               ELSE /\ kindOf(t, e) \in Conditional
                    /\ \A w \in SUBSET worldOf(noResponse, t) :
                          targetValues(t, w)[t.root[q]] = targetValues(t, w)[e]

\* A link without a fault is bound to an expression of the argument.
LEMMA LinkBound ==
    ASSUME NEW r, NEW t, linkFaultKeys(r, t) = {}, NEW p, isLink(r, p)
    PROVE  readLink(r, p).expression \in DOMAIN t.expr
<1> DEFINE x == r.expr[linkLeaf(r, p)].variable
           b == r.binding[x]
<1>1. x \in expressionBound(r) /\ readLink(r, p).expression = b.expression
  BY DEF isLink, readLink
<1>2. faultOf(r, t, x) = {}
  <2> DEFINE keys == {<<code, x, b.expression>> : code \in faultOf(r, t, x)}
  <2>1. keys \subseteq linkFaultKeys(r, t)
    BY <1>1 DEF linkFaultKeys
  <2>2. keys = {}
    BY <2>1
  <2> QED
    BY <2>2
<1>3. snapshotHasExpression(t, b.expression)
  BY <1>2 DEF faultOf
<1> QED
  BY <1>1, <1>3 DEF snapshotHasExpression

\* What an inference link carries is about a step it may grant or strike.
LEMMA InferenceSaid ==
    ASSUME NEW t, Answerable(t), NEW link, link.expression \in DOMAIN t.expr,
           carryInference(t, link).values # {}
    PROVE  LET e == link.expression
               q == premiseOf(t, e)
           IN  /\ link.move # "reinforce" =>
                     q \notin t.derivations /\ (q = t.conclusion => isAtRoot(t, e))
               /\ link.move = "reinforce" =>
                    /\ kindOf(t, e) \in Conditional
                    /\ \A w : targetValues(t, w)[t.root[q]] = targetValues(t, w)[e]
<1>1. \A reason : refused(reason).values = {}
  BY DEF refused
<1>2. CASE link.move = "reinforce"
  <2>1. isAtRoot(t, link.expression) /\ kindOf(t, link.expression) \in Conditional
    BY <1>1, <1>2 DEF carryInference
  <2> QED
    BY <1>2, <2>1, RootsValue
<1>3. CASE link.move # "reinforce"
  BY <1>1, <1>3 DEF carryInference
<1> QED
  BY <1>2, <1>3

LEMMA AnswersSaid ==
    ASSUME NEW r, NEW t, Answerable(t), linkFaultKeys(r, t) = {},
           NEW agreed, NEW own, NEW types
    PROVE  Said(r, t, types, carryAnswers(r, t, agreed, own, types))
<1> DEFINE outcome == [p \in agreed |-> outcomeOf(r, t, p, types)]
           result == carryAnswers(r, t, agreed, own, types)
<1>1. result = settleAll(outcome, own)
  BY DEF carryAnswers
<1> HIDE DEF result
<1>2. /\ \A p \in DOMAIN result.sources :
            p \in DOMAIN outcome /\ outcome[p].values # {} /\ result.sources[p] = outcome[p]
      /\ \A v, w \in carriedValues(result) : ~contradict(v, w)
  <2> HIDE DEF outcome
  <2> QED
    BY <1>1, SettledAgree
<1>3. \A p \in DOMAIN result.sources :
         /\ result.sources[p].values # {}
         /\ result.sources[p] = outcomeOf(r, t, p, types)
  BY <1>2
<1>6. ASSUME NEW p \in DOMAIN result.sources
      PROVE  LET link == readLink(r, p)
                 e == link.expression
                 q == premiseOf(t, e)
             IN  /\ (/\ link.aspect = "statement" /\ t.respondsTo = Nobody
                     /\ fixedColumns(expander(t), e, saysTrue(link)) \subseteq heard(t)) =>
                        \A w \in agreeing(t, types, result.sources[p].values) :
                            targetValues(t, w)[e] = valueIn(saysTrue(link))
                 /\ (link.aspect = "inference" /\ t.respondsTo = Nobody) =>
                        IF link.move = "undercut"
                        THEN q \notin t.derivations /\ (q = t.conclusion => isAtRoot(t, e))
                        ELSE /\ kindOf(t, e) \in Conditional
                             /\ \A w \in SUBSET worldOf(noResponse, t) :
                                   targetValues(t, w)[t.root[q]] = targetValues(t, w)[e]
  <2> DEFINE link == readLink(r, p)
             e == link.expression
             from == result.sources[p]
  <2>1. from.values # {} /\ from = outcomeOf(r, t, p, types)
    BY <1>3
  <2>2. \A reason : refused(reason).values = {}
    BY DEF refused
  <2>3. isLink(r, p)
    BY <2>1, <2>2 DEF outcomeOf
  <2>4. e \in DOMAIN t.expr
    BY <2>3, LinkBound
  <2>5. ASSUME link.aspect = "statement", t.respondsTo = Nobody,
               fixedColumns(expander(t), e, saysTrue(link)) \subseteq heard(t),
               NEW w \in agreeing(t, types, from.values)
        PROVE  targetValues(t, w)[e] = valueIn(saysTrue(link))
    <3>1. from = carryStatement(t, link, types)
      BY <2>1, <2>3, <2>5 DEF outcomeOf
    <3> HIDE DEF link, from
    <3> QED
      BY <2>1, <2>4, <2>5, <3>1, StatementSaid
  <2>6. ASSUME link.aspect = "inference", t.respondsTo = Nobody
        PROVE  LET q == premiseOf(t, e) IN
               IF link.move = "undercut"
               THEN q \notin t.derivations /\ (q = t.conclusion => isAtRoot(t, e))
               ELSE /\ kindOf(t, e) \in Conditional
                    /\ \A w \in SUBSET worldOf(noResponse, t) :
                          targetValues(t, w)[t.root[q]] = targetValues(t, w)[e]
    <3>1. from = carryInference(t, link)
      BY <2>1, <2>3, <2>6 DEF outcomeOf
    <3>2. link.move \in {"undercut", "reinforce"}
      BY <2>6 DEF readLink, moveOf
    <3> HIDE DEF link, from
    <3> QED
      BY <2>1, <2>4, <3>1, <3>2, InferenceSaid
  <2> QED
    BY <2>5, <2>6
<1> QED
  BY <1>2, <1>3, <1>6 DEF Said, result

\* What a caller agreed to carries what its links say, however often the
\* response was moved before.  (core/response/carry.ts)
THEOREM CarriedValuesAreSaid == Spec => []CarriedValuesSayIt
<1>1. Init => CarriedValuesSayIt
  BY DEF Init, CarriedValuesSayIt
<1>2. ASSUME ResponseInv, CarriedValuesSayIt, [Next]_rvars
      PROVE  CarriedValuesSayIt'
  <2>1. CASE classify \/ rebaseResponse \/ check
    <3>1. last'.call # "carry"
      BY <2>1 DEF classify, rebaseResponse, refuse, check
    <3> QED
      BY <3>1 DEF CarriedValuesSayIt
  <2>2. CASE carry
    <3>1. PICK t \in scenario.versions, reader \in scenario.readers :
            /\ last' = IF problems(t) # {} THEN [call |-> "carry", invalid |-> TRUE]
                       ELSE carryReport(t, reader,
                                carryAnswers(response, t, reader.agreed, reader.own,
                                             scenario.claimTypes))
            /\ UNCHANGED <<scenario, response>>
      BY <2>2 DEF carry
    <3>2. CASE problems(t) # {}
      <4>1. last'.invalid
        BY <3>1, <3>2
      <4> QED
        BY <4>1 DEF CarriedValuesSayIt
    <3>3. CASE problems(t) = {}
      <4> DEFINE types == scenario.claimTypes
                 result == carryAnswers(response, t, reader.agreed, reader.own, types)
      <4>1. scenario \in Scenarios
        BY <1>2 DEF ResponseInv
      <4>2. Answerable(t) /\ linkFaultKeys(response, t) = {}
        BY <3>3, <4>1, ResponseAssumption DEF problems
      <4>3. Said(response, t, types, result)
        BY <4>2, AnswersSaid
      <4>4. last'.against = t.version /\ last'.result = result
        BY <3>1, <3>3 DEF carryReport
      <4>5. (CHOOSE u \in scenario.versions : u.version = t.version) = t
        BY <4>1, ResponseAssumption
      <4>6. versionNamed(last.against)' = t
        BY <3>1, <4>4, <4>5 DEF versionNamed
      <4>7. Said(response', versionNamed(last.against)', scenario'.claimTypes, last'.result)
        BY <3>1, <4>3, <4>4, <4>6
      <4> QED
        BY <4>7 DEF CarriedValuesSayIt, Said
    <3> QED
      BY <3>2, <3>3
  <2>3. CASE UNCHANGED rvars
    BY <1>2, <2>3 DEF CarriedValuesSayIt, rvars, versionNamed
  <2> QED
    BY <1>2, <2>1, <2>2, <2>3 DEF Next
<1> QED
  BY <1>1, <1>2, ResponseInvariant, PTL DEF Spec

(***************************************************************************)
(* The groups of the search.                                               *)
(***************************************************************************)
\* The columns a formula reads that are not forced, and which formulas share one.
readBy(set, forced, f) == columnsOf(set, f[1]) \ forced
meeting(set, forced, f, g) ==
    \/ readBy(set, forced, f) \cap readBy(set, forced, g) # {}
    \/ readBy(set, forced, f) = readBy(set, forced, g)
neighbours(set, forced, F, C) == {f \in F : \E g \in C : meeting(set, forced, f, g)}
ClosedIn(set, forced, F, C) ==
    C \subseteq F /\ \A f \in C : \A g \in F : meeting(set, forced, g, f) => g \in C

\* After n rounds: nonempty groups that cover the formulas, none of which leaves
\* a closed set it has a formula of, and that are closed or have grown each time.
Round(set, forced, F, G, n) ==
    /\ \A g \in G : g # {} /\ g \subseteq F
    /\ \A f \in F : \E g \in G : f \in g
    /\ \A C : ClosedIn(set, forced, F, C) => \A g \in G : C \cap g # {} => g \subseteq C
    /\ \A g \in G : ClosedIn(set, forced, F, g) \/ Cardinality(g) > n

LEMMA NextRound ==
    ASSUME NEW set, NEW forced, NEW F, IsFiniteSet(F), NEW n \in Nat, NEW G,
           Round(set, forced, F, G, n)
    PROVE  Round(set, forced, F, {neighbours(set, forced, F, g) : g \in G}, n + 1)
<1> DEFINE H == {neighbours(set, forced, F, g) : g \in G}
<1>1. \A f, g : meeting(set, forced, f, f) /\ (meeting(set, forced, f, g) => meeting(set, forced, g, f))
  BY DEF meeting
<1>2. \A g \in G : g \subseteq neighbours(set, forced, F, g) /\ neighbours(set, forced, F, g) \subseteq F
  BY <1>1 DEF Round, neighbours
<1>3. \A g \in H : g # {} /\ g \subseteq F
  BY <1>2 DEF Round
<1>4. \A f \in F : \E g \in H : f \in g
  BY <1>2 DEF Round
<1>5. ASSUME NEW C, ClosedIn(set, forced, F, C), NEW g \in G,
             C \cap neighbours(set, forced, F, g) # {}
      PROVE  neighbours(set, forced, F, g) \subseteq C
  <2>1. PICK f \in C : f \in F /\ \E h \in g : meeting(set, forced, f, h)
    BY <1>5 DEF neighbours
  <2>2. PICK h \in g : meeting(set, forced, f, h)
    BY <2>1
  <2>3. h \in F /\ meeting(set, forced, h, f)
    BY <1>1, <2>2 DEF Round
  <2>4. h \in C
    BY <1>5, <2>1, <2>3 DEF ClosedIn
  <2>5. g \subseteq C
    BY <1>5, <2>2, <2>4 DEF Round
  <2> QED
    BY <1>5, <2>5 DEF neighbours, ClosedIn
<1>6. ASSUME NEW g \in G
      PROVE  LET h == neighbours(set, forced, F, g)
             IN  ClosedIn(set, forced, F, h) \/ Cardinality(h) > n + 1
  <2> DEFINE h == neighbours(set, forced, F, g)
  <2>1. CASE h = g
    <3>1. ClosedIn(set, forced, F, g)
      BY <2>1, <1>2 DEF ClosedIn, neighbours
    <3> QED
      BY <2>1, <3>1
  <2>2. CASE h # g
    <3>1. ~ClosedIn(set, forced, F, g)
      BY <2>2, <1>2 DEF ClosedIn, neighbours
    <3>2. Cardinality(g) > n
      BY <3>1 DEF Round
    <3>3. g \subseteq h /\ h \subseteq F
      BY <1>2
    <3> HIDE DEF h
    <3>4. IsFiniteSet(h) /\ IsFiniteSet(g)
      BY <3>3, FS_Subset
    <3>5. Cardinality(g) <= Cardinality(h) /\ Cardinality(g) # Cardinality(h)
      BY <2>2, <3>3, <3>4, FS_Subset
    <3>6. Cardinality(g) \in Nat /\ Cardinality(h) \in Nat
      BY <3>4, FS_CardinalityType
    <3> QED
      BY <3>2, <3>5, <3>6 DEF h
  <2> QED
    BY <2>1, <2>2
<1>7. \A C : ClosedIn(set, forced, F, C) => \A g \in H : C \cap g # {} => g \subseteq C
  BY <1>5
<1>8. \A g \in H : ClosedIn(set, forced, F, g) \/ Cardinality(g) > n + 1
  BY <1>6
<1> QED
  BY <1>3, <1>4, <1>7, <1>8 DEF Round

\* The groups are the smallest closed sets of formulas.
LEMMA GroupsAre ==
    ASSUME NEW set, NEW forced, NEW F, IsFiniteSet(F)
    PROVE  LET G == groupsOf(set, forced, F)
           IN  /\ \A g \in G : g # {} /\ ClosedIn(set, forced, F, g)
               /\ \A f \in F : \E g \in G : f \in g
               /\ \A C : ClosedIn(set, forced, F, C) => \A g \in G : C \cap g # {} => g \subseteq C
<1> DEFINE V == SUBSET SUBSET F
           first == {{f} : f \in F}
           N == [G \in V |-> {neighbours(set, forced, F, g) : g \in G}]
           body(h) == [n \in Nat |->
                IF n = 0 THEN first ELSE {neighbours(set, forced, F, g) : g \in h[n - 1]}]
           grown == CHOOSE h : h = body(h)
<1>1. groupsOf(set, forced, F) = grown[Cardinality(F)]
  BY DEF groupsOf, neighbours, meeting, readBy
<1>2. first \in V /\ N \in [V -> V]
  BY DEF neighbours
<1>3. PICK f \in [Nat -> V] : f = [n \in Nat |-> IF n = 0 THEN first ELSE N[f[n - 1]]]
  <2> HIDE DEF V, N, first
  <2> QED
    BY <1>2, Iteration
<1>4. f = body(f)
  <2>1. \A n \in Nat : n # 0 => f[n - 1] \in V
    <3> HIDE DEF V
    <3>1. \A n \in Nat : n # 0 => n - 1 \in Nat
      OBVIOUS
    <3> QED
      BY <3>1
  <2>2. \A n \in Nat : n # 0 => N[f[n - 1]] = {neighbours(set, forced, F, g) : g \in f[n - 1]}
    BY <2>1
  <2> HIDE DEF V, N, first
  <2> QED
    BY <1>3, <2>2
<1> HIDE DEF body
<1>5. grown = body(grown)
  BY <1>4
<1> HIDE DEF grown
<1> DEFINE Bad == {n \in Nat : ~Round(set, forced, F, grown[n], n)}
<1>6. Bad = {}
  <2> SUFFICES ASSUME Bad # {} PROVE FALSE
    OBVIOUS
  <2>1. PICK n \in Bad : \A m \in Bad : n <= m
    <3>1. Bad \in SUBSET Nat
      OBVIOUS
    <3> HIDE DEF Bad
    <3> QED
      BY <3>1, LeastNumber
  <2>2. n \in Nat /\ ~Round(set, forced, F, grown[n], n)
    BY DEF Bad
  <2>3. CASE n = 0
    <3>1. grown[n] = first
      BY <1>5, <2>2, <2>3 DEF body
    <3>2. \A g : Cardinality({g}) = 1
      BY FS_Singleton
    <3>3. ASSUME NEW g \in first
          PROVE  g # {} /\ g \subseteq F /\ Cardinality(g) > 0
      <4>1. PICK one \in F : g = {one}
        OBVIOUS
      <4>2. Cardinality(g) = 1
        BY <3>2, <4>1
      <4> QED
        BY <4>1, <4>2
    <3>4. \A C : \A g \in first : C \cap g # {} => g \subseteq C
      OBVIOUS
    <3>5. \A g \in F : {g} \in first /\ g \in {g}
      OBVIOUS
    <3> HIDE DEF first
    <3>6. Round(set, forced, F, first, 0)
      BY <3>3, <3>4, <3>5 DEF Round
    <3> QED
      BY <2>2, <2>3, <3>1, <3>6
  <2>4. CASE n # 0
    <3>1. PICK m \in Nat : m + 1 = n /\ n - 1 = m /\ ~(n <= m)
      <4>1. n - 1 \in Nat /\ (n - 1) + 1 = n /\ ~(n <= n - 1)
        BY <2>2, <2>4
      <4> QED
        BY <4>1
    <3>2. Round(set, forced, F, grown[m], m)
      BY <2>1, <3>1
    <3>3. grown[n] = {neighbours(set, forced, F, g) : g \in grown[m]}
      BY <1>5, <2>2, <2>4, <3>1 DEF body
    <3> HIDE DEF Bad
    <3> QED
      BY <2>2, <3>1, <3>2, <3>3, NextRound
  <2> QED
    BY <2>3, <2>4
<1>7. Cardinality(F) \in Nat
  BY FS_CardinalityType
<1>8. Round(set, forced, F, grown[Cardinality(F)], Cardinality(F))
  BY <1>6, <1>7
<1>9. \A g \in grown[Cardinality(F)] : ClosedIn(set, forced, F, g)
  <2> SUFFICES ASSUME NEW g \in grown[Cardinality(F)] PROVE ClosedIn(set, forced, F, g)
    OBVIOUS
  <2>1. g \subseteq F
    BY <1>8 DEF Round
  <2>2. Cardinality(g) <= Cardinality(F) /\ Cardinality(g) \in Nat
    BY <2>1, FS_Subset, FS_CardinalityType
  <2> QED
    BY <1>7, <1>8, <2>2 DEF Round
<1> QED
  BY <1>1, <1>8, <1>9 DEF Round

(***************************************************************************)
(* What the search answers.                                                *)
(***************************************************************************)
Formulas(set, F) == IsFiniteSet(F) /\ \A f \in F : f[1] \in DOMAIN set
Hold(set, F, row) == \A f \in F : trueIn(set, f, row)
\* Every group is small enough to be walked.
Walked(set, forced, F) == \A g \in groupsOf(set, forced, F) : ~tooLarge(set, forced, g)

LEMMA OwnColumnsTell ==
    ASSUME NEW set, WellFormed(set), NEW f, f[1] \in DOMAIN set, NEW row, NEW row2,
           row \cap columnsOf(set, f[1]) = row2 \cap columnsOf(set, f[1]),
           trueIn(set, f, row)
    PROVE  trueIn(set, f, row2)
<1>1. evaluateCombinedNode(set, f[1], row) = evaluateCombinedNode(set, f[1], row2)
  BY OwnColumnsDecide
<1> QED
  BY <1>1 DEF trueIn

LEMMA SearchAnswers ==
    ASSUME NEW set, NEW forced, NEW F
    PROVE  LET said == search(set, forced, F)
               G == groupsOf(set, forced, F)
           IN  /\ said.answer \in {"yes", "no", "unknown"}
               /\ said.answer = "no" => \E g \in G : rowsOf(set, forced, g) = {}
               /\ said.answer = "yes" =>
                    /\ Walked(set, forced, F)
                    /\ \A g \in G : rowsOf(set, forced, g) # {}
                    /\ said.witness = forced \cup
                          UNION {CHOOSE row \in rowsOf(set, forced, g) : TRUE : g \in G}
               /\ said.answer = "unknown" => ~Walked(set, forced, F)
<1> DEFINE G == groupsOf(set, forced, F)
           walked == {g \in G : ~tooLarge(set, forced, g)}
           witness == forced \cup UNION {CHOOSE row \in rowsOf(set, forced, g) : TRUE : g \in G}
           said == search(set, forced, F)
<1>1. said = IF \E g \in walked : rowsOf(set, forced, g) = {} THEN [answer |-> "no"]
             ELSE IF walked # G THEN [answer |-> "unknown"]
             ELSE [answer |-> "yes", witness |-> witness]
  BY DEF search, walk
<1>2. walked = G <=> Walked(set, forced, F)
  BY DEF Walked
<1>3. walked = G => \A g \in G : g \in walked
  OBVIOUS
<1>4. \A g \in walked : g \in G
  OBVIOUS
<1> HIDE DEF walked, witness, G, said
<1>5. CASE \E g \in walked : rowsOf(set, forced, g) = {}
  <2>1. said.answer = "no"
    BY <1>1, <1>5
  <2> QED
    BY <1>4, <1>5, <2>1 DEF said, G
<1>6. CASE ~(\E g \in walked : rowsOf(set, forced, g) = {}) /\ walked # G
  <2>1. said.answer = "unknown"
    BY <1>1, <1>6
  <2> QED
    BY <1>2, <1>6, <2>1 DEF said, G
<1>7. CASE ~(\E g \in walked : rowsOf(set, forced, g) = {}) /\ walked = G
  <2>1. said.answer = "yes" /\ said.witness = witness
    BY <1>1, <1>7
  <2> QED
    BY <1>2, <1>7, <2>1 DEF said, G, witness
<1> QED
  BY <1>5, <1>6, <1>7

\* "no": whatever row is tried, some formula fails in it.
LEMMA SearchNo ==
    ASSUME NEW set, WellFormed(set), NEW forced, NEW F, Formulas(set, F),
           search(set, forced, F).answer = "no", NEW row, forced \subseteq row
    PROVE  ~Hold(set, F, row)
<1> SUFFICES ASSUME Hold(set, F, row) PROVE FALSE
  OBVIOUS
<1>1. PICK g \in groupsOf(set, forced, F) : rowsOf(set, forced, g) = {}
  BY SearchAnswers
<1>2. g \subseteq F
  BY <1>1, GroupsAre DEF ClosedIn, Formulas
<1> DEFINE columns == (UNION {columnsOf(set, f[1]) : f \in g}) \ forced
           chosen == row \cap columns
<1>3. ASSUME NEW f \in g
      PROVE  trueIn(set, f, chosen \cup forced)
  <2>1. f \in F /\ f[1] \in DOMAIN set /\ trueIn(set, f, row)
    BY <1>2 DEF Formulas, Hold
  <2>2. columnsOf(set, f[1]) \ forced \subseteq columns
    OBVIOUS
  <2>3. row \cap columnsOf(set, f[1]) = (chosen \cup forced) \cap columnsOf(set, f[1])
    <3> HIDE DEF columns
    <3> QED
      BY <2>2
  <2> HIDE DEF chosen
  <2> QED
    BY <2>1, <2>3, OwnColumnsTell
<1>4. chosen \in rowsOf(set, forced, g)
  <2>1. chosen \in SUBSET columns
    OBVIOUS
  <2> HIDE DEF chosen
  <2> QED
    BY <1>3, <2>1 DEF rowsOf
<1> QED
  BY <1>1, <1>4

\* "yes": every formula holds in the witness.
LEMMA SearchYes ==
    ASSUME NEW set, WellFormed(set), NEW forced, NEW F, Formulas(set, F),
           search(set, forced, F).answer = "yes"
    PROVE  Hold(set, F, search(set, forced, F).witness) /\ forced \subseteq search(set, forced, F).witness
<1> DEFINE G == groupsOf(set, forced, F)
           chosen(g) == CHOOSE row \in rowsOf(set, forced, g) : TRUE
           witness == search(set, forced, F).witness
<1>1. /\ \A g \in G : rowsOf(set, forced, g) # {}
      /\ witness = forced \cup UNION {chosen(g) : g \in G}
  BY SearchAnswers
<1>2. \A g \in G : chosen(g) \in rowsOf(set, forced, g)
  BY <1>1
<1> HIDE DEF chosen, witness
<1>3. \A g \in G : ClosedIn(set, forced, F, g)
  BY GroupsAre DEF Formulas
<1>4. ASSUME NEW g \in G, NEW h \in G, NEW c, c \in chosen(h),
             NEW f \in g, c \in columnsOf(set, f[1]), c \notin forced
      PROVE  c \in chosen(g)
  <2>1. chosen(h) \subseteq (UNION {columnsOf(set, k[1]) : k \in h}) \ forced
    BY <1>2 DEF rowsOf
  <2>2. PICK k \in h : c \in columnsOf(set, k[1])
    BY <1>4, <2>1
  <2>3. meeting(set, forced, k, f) /\ meeting(set, forced, f, k)
    BY <1>4, <2>2 DEF meeting, readBy
  <2>4. f \in F /\ k \in F
    BY <1>3, <1>4, <2>2 DEF ClosedIn
  <2>5. k \in g /\ f \in h
    BY <1>3, <1>4, <2>2, <2>3, <2>4 DEF ClosedIn
  <2>6. g \subseteq h /\ h \subseteq g
    <3>1. \A C : ClosedIn(set, forced, F, C) => \A q \in G : C \cap q # {} => q \subseteq C
      BY GroupsAre DEF Formulas
    <3>2. g \cap h # {} /\ h \cap g # {}
      BY <1>4, <2>5
    <3> HIDE DEF G
    <3> QED
      BY <1>3, <3>1, <3>2
  <2>7. g = h
    BY <2>6
  <2> QED
    BY <1>4, <2>7
<1>5. ASSUME NEW f \in F
      PROVE  trueIn(set, f, witness)
  <2>1. PICK g \in G : f \in g
    BY GroupsAre DEF Formulas
  <2>2. trueIn(set, f, chosen(g) \cup forced)
    BY <1>2, <2>1 DEF rowsOf
  <2>3. (chosen(g) \cup forced) \cap columnsOf(set, f[1]) = witness \cap columnsOf(set, f[1])
    BY <1>1, <1>4, <2>1
  <2>4. f[1] \in DOMAIN set
    BY DEF Formulas
  <2> QED
    BY <2>2, <2>3, <2>4, OwnColumnsTell
<1> QED
  BY <1>1, <1>5 DEF Hold, witness

\* When every group of more formulas is small enough, so are the groups of fewer.
LEMMA FewerAreWalked ==
    ASSUME NEW set, WellFormed(set), NEW forced, Ceiling \in Nat,
           NEW F, Formulas(set, F), Walked(set, forced, F),
           NEW E, Formulas(set, E),
           \A f \in E : \E g \in F : columnsOf(set, f[1]) = columnsOf(set, g[1])
    PROVE  Walked(set, forced, E)
<1> SUFFICES ASSUME NEW e \in groupsOf(set, forced, E) PROVE ~tooLarge(set, forced, e)
  BY DEF Walked
<1>1. e # {} /\ e \subseteq E
  BY GroupsAre DEF ClosedIn, Formulas
<1>2. PICK f \in e : TRUE
  BY <1>1
<1>3. PICK k \in F : columnsOf(set, f[1]) = columnsOf(set, k[1])
  BY <1>1, <1>2
<1>4. PICK g \in groupsOf(set, forced, F) : k \in g
  BY <1>3, GroupsAre DEF Formulas
<1>5. ClosedIn(set, forced, F, g)
  BY <1>4, GroupsAre DEF Formulas
<1> DEFINE C == {x \in E : \E y \in g : columnsOf(set, x[1]) = columnsOf(set, y[1])}
<1>6. ClosedIn(set, forced, E, C)
  <2> SUFFICES ASSUME NEW x \in C, NEW z \in E, meeting(set, forced, z, x) PROVE z \in C
    BY DEF ClosedIn
  <2>1. PICK y \in g : columnsOf(set, x[1]) = columnsOf(set, y[1])
    OBVIOUS
  <2>2. PICK v \in F : columnsOf(set, z[1]) = columnsOf(set, v[1])
    OBVIOUS
  <2>3. meeting(set, forced, v, y)
    BY <2>1, <2>2 DEF meeting, readBy
  <2>4. v \in g
    BY <1>5, <2>2, <2>3 DEF ClosedIn
  <2> QED
    BY <2>2, <2>4
<1>7. f \in C
  BY <1>1, <1>2, <1>3, <1>4
<1> HIDE DEF C
<1>8. e \subseteq C
  <2>1. C \cap e # {}
    BY <1>2, <1>7
  <2> QED
    BY <1>6, <2>1, GroupsAre DEF Formulas
<1> DEFINE few == (UNION {columnsOf(set, x[1]) : x \in e}) \ forced
           many == (UNION {columnsOf(set, x[1]) : x \in g}) \ forced
<1>9. few \subseteq many
  <2>1. \A x \in e : \E y \in g : columnsOf(set, x[1]) = columnsOf(set, y[1])
    BY <1>8 DEF C
  <2> QED
    BY <2>1
<1>10. IsFiniteSet(many)
  <2>1. g \subseteq F /\ IsFiniteSet(F) /\ \A x \in F : x[1] \in DOMAIN set
    BY <1>5 DEF ClosedIn, Formulas
  <2>2. IsFiniteSet(allColumns(set))
    BY ColumnsFinite
  <2>3. \A x \in g : columnsOf(set, x[1]) \subseteq allColumns(set)
    BY <2>1, ColumnsAre
  <2>4. many \subseteq allColumns(set)
    BY <2>3
  <2> HIDE DEF many
  <2> QED
    BY <2>2, <2>4, FS_Subset
<1>11. Cardinality(many) <= Ceiling
  <2>1. ~(Cardinality(many) > Ceiling)
    BY <1>4 DEF Walked, tooLarge
  <2>2. Cardinality(many) \in Nat
    BY <1>10, FS_CardinalityType
  <2> QED
    BY <2>1, <2>2
<1> HIDE DEF few, many
<1>12. Cardinality(few) <= Cardinality(many) /\ Cardinality(few) \in Nat /\ Cardinality(many) \in Nat
  BY <1>9, <1>10, FS_Subset, FS_CardinalityType
<1>13. ~(Cardinality(few) > Ceiling)
  BY <1>11, <1>12
<1> QED
  BY <1>13 DEF few, tooLarge

(***************************************************************************)
(* A response and the argument it answers read as one set of formulas.     *)
(***************************************************************************)
Joined(r, t) ==
    /\ Answerable(r) /\ Answerable(t)
    /\ DOMAIN r.expr \cap DOMAIN t.expr = {}
    /\ linkFaultKeys(r, t) = {}

\* What a variable of the response gives way to among its own premises.
sourceOf(r, e) == ownRoot(r, sourcePremises(r), r.binding[r.expr[e].variable])
boundToStatement(r, e) == r.expr[e].variable \in statementBound(r)

LEMMA BindingResolves ==
    ASSUME NEW r, NEW t, linkFaultKeys(r, t) = {}, NEW x \in expressionBound(r)
    PROVE  r.binding[x].expression \in DOMAIN t.expr
<1>1. {<<code, x, r.binding[x].expression>> : code \in faultOf(r, t, x)} = {}
  BY DEF linkFaultKeys
<1>2. faultOf(r, t, x) = {}
  BY <1>1
<1> QED
  BY <1>2 DEF faultOf, snapshotHasExpression

LEMMA TargetPart ==
    ASSUME NEW r, NEW t
    PROVE  /\ DOMAIN combine(r, t) = DOMAIN r.expr \cup DOMAIN t.expr
           /\ \A e \in DOMAIN t.expr : combine(r, t)[e] = expander(t)[e]
<1>1. \A e \in DOMAIN t.expr : standsFor(r, t, e) = inlined(t, e)
  BY DEF standsFor, inlined
<1>2. \A e \in DOMAIN t.expr :
         combine(r, t)[e] =
                    IF kindOf(t, e) # "variable" THEN [kind |-> kindOf(t, e), kids |-> kids(t, e)]
                    ELSE IF inlined(t, e) # None THEN [kind |-> "formula", kids |-> <<inlined(t, e)>>]
                    ELSE [kind |-> "column", kids |-> << >>,
                          column |-> columnOf(t, t.binding[t.expr[e].variable])]
  BY <1>1 DEF combine
<1>3. DOMAIN combine(r, t) = DOMAIN r.expr \cup DOMAIN t.expr
  BY DEF combine
<1> QED
  BY <1>2, <1>3, ExpanderIs

LEMMA ResponsePart ==
    ASSUME NEW r, NEW t, Joined(r, t), NEW e \in DOMAIN r.expr
    PROVE  LET node == combine(r, t)[e]
               b == r.binding[r.expr[e].variable]
           IN  /\ kindOf(r, e) # "variable"
                    => node.kind = kindOf(r, e) /\ node.kids = kids(r, e)
               /\ kindOf(r, e) = "variable" => r.expr[e].variable \in DOMAIN r.binding
               /\ kindOf(r, e) = "variable" /\ boundToStatement(r, e)
                    => /\ node.kind = "formula" /\ node.kids = <<b.expression>>
                       /\ b.expression \in DOMAIN t.expr /\ sourceOf(r, e) = None
               /\ kindOf(r, e) = "variable" /\ ~boundToStatement(r, e) /\ sourceOf(r, e) # None
                    => node.kind = "formula" /\ node.kids = <<sourceOf(r, e)>>
               /\ kindOf(r, e) = "variable" /\ ~boundToStatement(r, e) /\ sourceOf(r, e) = None
                    => /\ node.kind = "column" /\ node.kids = << >>
                       /\ node.column = columnOf(r, b)
<1> DEFINE node == combine(r, t)[e]
           x == r.expr[e].variable
           b == r.binding[x]
           stands == standsFor(r, t, e)
<1>0. e \notin DOMAIN t.expr
  BY DEF Joined
<1>1. node = IF kindOf(r, e) # "variable" THEN [kind |-> kindOf(r, e), kids |-> kids(r, e)]
             ELSE IF stands # None THEN [kind |-> "formula", kids |-> <<stands>>]
             ELSE [kind |-> "column", kids |-> << >>, column |-> columnOf(r, b)]
  BY <1>0 DEF combine
<1>2. stands = IF b.to = "expression" /\ b.aspect = "statement" THEN b.expression ELSE sourceOf(r, e)
  BY <1>0 DEF standsFor, sourceOf
<1>3. kindOf(r, e) = "variable" => x \in DOMAIN r.binding
  <2>1. e \in expressionsIn(r, premiseOf(r, e)) /\ validatePremiseEvaluability(r, premiseOf(r, e))
    BY DEF Joined, Answerable, expressionsIn, premiseOf
  <2> QED
    BY <2>1 DEF validatePremiseEvaluability
<1>4. kindOf(r, e) = "variable" =>
        (boundToStatement(r, e) <=> b.to = "expression" /\ b.aspect = "statement")
  BY <1>3 DEF boundToStatement, statementBound
<1>5. kindOf(r, e) = "variable" /\ boundToStatement(r, e)
        => b.expression \in DOMAIN t.expr /\ b.expression # None /\ sourceOf(r, e) = None
  <2> SUFFICES ASSUME kindOf(r, e) = "variable", boundToStatement(r, e)
               PROVE  b.expression \in DOMAIN t.expr /\ b.expression # None /\ sourceOf(r, e) = None
    OBVIOUS
  <2>1. x \in expressionBound(r) /\ b.to = "expression"
    BY <1>3, <1>4 DEF expressionBound
  <2>2. b.expression \in DOMAIN t.expr
    BY <2>1, BindingResolves DEF Joined
  <2>3. None \notin DOMAIN t.expr
    BY DEF Joined, Answerable, Trees
  <2>4. sourceOf(r, e) = None
    BY <2>1 DEF sourceOf, ownRoot
  <2> QED
    BY <2>2, <2>3, <2>4
<1> HIDE DEF node, stands, b, x
<1>6. kindOf(r, e) # "variable" => node.kind = kindOf(r, e) /\ node.kids = kids(r, e)
  BY <1>1
<1>7. kindOf(r, e) = "variable" /\ boundToStatement(r, e)
        => node.kind = "formula" /\ node.kids = <<b.expression>>
  <2> SUFFICES ASSUME kindOf(r, e) = "variable", boundToStatement(r, e)
               PROVE  node.kind = "formula" /\ node.kids = <<b.expression>>
    OBVIOUS
  <2>1. stands = b.expression /\ b.expression # None
    BY <1>2, <1>4, <1>5
  <2>2. node = [kind |-> "formula", kids |-> <<b.expression>>]
    BY <1>1, <2>1
  <2> QED
    BY <2>2
<1>8. kindOf(r, e) = "variable" /\ ~boundToStatement(r, e) => stands = sourceOf(r, e)
  BY <1>2, <1>4
<1>9. kindOf(r, e) = "variable" /\ ~boundToStatement(r, e) /\ sourceOf(r, e) # None
        => node.kind = "formula" /\ node.kids = <<sourceOf(r, e)>>
  BY <1>1, <1>8
<1>10. kindOf(r, e) = "variable" /\ ~boundToStatement(r, e) /\ sourceOf(r, e) = None
        => node.kind = "column" /\ node.kids = << >> /\ node.column = columnOf(r, b)
  BY <1>1, <1>8
<1> QED
  BY <1>3, <1>5, <1>6, <1>7, <1>9, <1>10 DEF node, b, x

\* A premise that stands for a variable is one the variable is read as when the
\* response is read on its own.
LEMMA SourceIs ==
    ASSUME NEW r, Answerable(r), NEW e \in DOMAIN r.expr, kindOf(r, e) = "variable",
           sourceOf(r, e) # None
    PROVE  sourceOf(r, e) = inlined(r, e) /\ sourceOf(r, e) \in DOMAIN r.expr
<1>1. sourceOf(r, e) = inlined(r, e)
  BY DEF sourceOf, inlined, ownRoot, sourcePremises
<1> QED
  BY <1>1, InlinedIs

LEMMA JoinedWellFormed ==
    ASSUME NEW r, NEW t, Joined(r, t)
    PROVE  WellFormed(combine(r, t))
<1> DEFINE D == DOMAIN r.expr \cup DOMAIN t.expr
           set == combine(r, t)
           own == expander(r)
           target == expander(t)
<1>1. DOMAIN set = D
  BY TargetPart
<1>2. /\ WellFormed(own) /\ DOMAIN own = DOMAIN r.expr
      /\ WellFormed(target) /\ DOMAIN target = DOMAIN t.expr
  BY ExpanderWellFormed, ExpanderIs DEF Joined
<1>3. \A e \in DOMAIN t.expr : set[e] = target[e]
  BY TargetPart
\* A node of the response is what it is on its own, a column or a way out.
<1>4. ASSUME NEW e \in DOMAIN r.expr
      PROVE  \/ set[e].kind = own[e].kind /\ set[e].kids = own[e].kids
             \/ set[e].kind = "column" /\ set[e].kids = << >>
             \/ set[e].kind = "formula" /\ \E d \in DOMAIN t.expr : set[e].kids = <<d>>
  <2>1. CASE kindOf(r, e) # "variable"
    BY <2>1, NodeIs, ResponsePart
  <2>2. CASE kindOf(r, e) = "variable" /\ boundToStatement(r, e)
    BY <2>2, ResponsePart
  <2>3. CASE kindOf(r, e) = "variable" /\ ~boundToStatement(r, e) /\ sourceOf(r, e) # None
    <3>1. sourceOf(r, e) = inlined(r, e)
      BY <2>3, SourceIs DEF Joined
    <3> QED
      BY <2>3, <3>1, NodeIs, ResponsePart
  <2>4. CASE kindOf(r, e) = "variable" /\ ~boundToStatement(r, e) /\ sourceOf(r, e) = None
    BY <2>4, ResponsePart
  <2> QED
    BY <2>1, <2>2, <2>3, <2>4
<1> DEFINE Fine(node) ==
        /\ node.kind \in NodeKind \cup {"column"}
        /\ node.kids \in Seq(D)
        /\ node.kind \in Variadic => Len(node.kids) >= 2
        /\ node.kind \in Conditional => Len(node.kids) = 2
        /\ node.kind \in {"not", "formula"} => Len(node.kids) = 1
        /\ node.kind = "column" => node.kids = << >>
<1>5. ASSUME NEW e \in D PROVE Fine(set[e])
  <2> DEFINE Proper(node) ==
            /\ node.kind \in NodeKind \cup {"column"}
            /\ node.kind \in Variadic => Len(node.kids) >= 2
            /\ node.kind \in Conditional => Len(node.kids) = 2
            /\ node.kind \in {"not", "formula"} => Len(node.kids) = 1
            /\ node.kind = "column" => node.kids = << >>
  <2>1. CASE e \in DOMAIN t.expr
    <3>1. Proper(target[e]) /\ target[e].kids \in Seq(DOMAIN t.expr)
      BY <1>2, <2>1 DEF WellFormed
    <3>2. target[e].kids \in Seq(D)
      BY <3>1
    <3> QED
      BY <1>3, <2>1, <3>1, <3>2
  <2>2. CASE e \in DOMAIN r.expr /\ set[e].kind = own[e].kind /\ set[e].kids = own[e].kids
    <3>1. Proper(own[e]) /\ own[e].kids \in Seq(DOMAIN r.expr)
      BY <1>2, <2>2 DEF WellFormed
    <3>2. own[e].kids \in Seq(D)
      BY <3>1
    <3> QED
      BY <2>2, <3>1, <3>2
  <2>3. CASE set[e].kind = "column" /\ set[e].kids = << >>
    BY <2>3 DEF Variadic, Conditional
  <2>4. CASE set[e].kind = "formula" /\ \E d \in DOMAIN t.expr : set[e].kids = <<d>>
    <3>1. PICK d \in D : set[e].kids = <<d>>
      BY <2>4
    <3>2. "formula" \notin Variadic \cup Conditional /\ "formula" \in NodeKind
      BY DEF NodeKind, Variadic, Conditional
    <3> HIDE DEF D
    <3>3. <<d>> \in Seq(D) /\ Len(<<d>>) = 1
      OBVIOUS
    <3> QED
      BY <2>4, <3>1, <3>2, <3>3
  <2> HIDE DEF Fine, set, own
  <2> QED
    BY <1>4, <2>1, <2>2, <2>3, <2>4
<1>6. Founded(D, partsOf(set))
  <2> SUFFICES ASSUME NEW S \in SUBSET D, S # {}
               PROVE  \E e \in S : partsOf(set)[e] \cap S = {}
    BY DEF Founded
  <2>1. \A e \in D : partsOf(set)[e] = Range(set[e].kids)
    BY <1>1 DEF partsOf
  <2>2. CASE S \cap DOMAIN t.expr # {}
    <3>1. PICK e \in S \cap DOMAIN t.expr : partsOf(target)[e] \cap (S \cap DOMAIN t.expr) = {}
      BY <1>2, <2>2 DEF WellFormed, Founded
    <3>2. partsOf(target)[e] \subseteq DOMAIN t.expr
      <4> HIDE DEF target
      <4> QED
        BY <1>2, <3>1, PartsResolve
    <3>3. partsOf(set)[e] = partsOf(target)[e]
      BY <1>2, <1>3, <2>1, <3>1 DEF partsOf
    <3> QED
      BY <3>1, <3>2, <3>3
  <2>3. CASE S \cap DOMAIN t.expr = {}
    <3>1. S \in SUBSET DOMAIN r.expr
      BY <2>3
    <3>2. PICK e \in S : partsOf(own)[e] \cap S = {}
      BY <1>2, <3>1 DEF WellFormed, Founded
    <3>3. partsOf(own)[e] = Range(own[e].kids)
      BY <1>2, <3>1, <3>2 DEF partsOf
    <3>4. CASE set[e].kids = own[e].kids
      BY <2>1, <3>2, <3>3, <3>4
    <3>5. CASE set[e].kids = << >>
      <4>1. Range(set[e].kids) = {}
        BY <3>5 DEF Range
      <4> QED
        BY <2>1, <3>2, <4>1
    <3>6. CASE \E d \in DOMAIN t.expr : set[e].kids = <<d>>
      <4>1. PICK d \in DOMAIN t.expr : set[e].kids = <<d>>
        BY <3>6
      <4>2. Range(set[e].kids) = {d}
        BY <4>1 DEF Range
      <4> QED
        BY <2>1, <2>3, <3>2, <4>1, <4>2
    <3> QED
      BY <1>4, <3>1, <3>2, <3>4, <3>5, <3>6
  <2> QED
    BY <2>2, <2>3
<1>7. IsFiniteSet(D)
  BY FS_Union DEF Joined, Answerable
<1> HIDE DEF set
<1> QED
  BY <1>1, <1>5, <1>6, <1>7 DEF WellFormed, set

\* The target's formulas have the truth they have on their own.
LEMMA TargetTruths ==
    ASSUME NEW r, NEW t, Joined(r, t), NEW w
    PROVE  \A e \in DOMAIN t.expr :
              evaluateCombinedNode(combine(r, t), e, w) = evaluateCombinedNode(expander(t), e, w)
<1> DEFINE set == combine(r, t)
           target == expander(t)
           D == DOMAIN t.expr
<1>1. WellFormed(set) /\ WellFormed(target) /\ DOMAIN target = D /\ D \subseteq DOMAIN set
  <2>1. Answerable(t)
    BY DEF Joined
  <2>2. WellFormed(set)
    BY JoinedWellFormed
  <2>3. WellFormed(target) /\ DOMAIN target = D
    BY <2>1, ExpanderWellFormed, ExpanderIs
  <2>4. D \subseteq DOMAIN set
    <3>1. DOMAIN set = DOMAIN r.expr \cup D
      BY TargetPart
    <3> HIDE DEF set, D
    <3> QED
      BY <3>1
  <2> QED
    BY <2>2, <2>3, <2>4
<1>2. \A e \in D : set[e] = target[e]
  BY TargetPart
<1>3. PICK f : Truths(set, w, f) /\ \A e : evaluateCombinedNode(set, e, w) = f[e]
  BY <1>1, TruthsAre
<1>4. PICK g : Truths(target, w, g) /\ \A e : evaluateCombinedNode(target, e, w) = g[e]
  BY <1>1, TruthsAre
<1> DEFINE Good == {e \in D : f[e] = g[e]}
<1> SUFFICES D = Good
  BY <1>3, <1>4
<1>5. ASSUME NEW e \in D, partsOf(target)[e] \cap D \subseteq Good
      PROVE  e \in Good
  <2>1. \A d \in partsOf(target)[e] : d \in D /\ g[d] \in BOOLEAN /\ f[d] = g[d]
    <3>1. partsOf(target)[e] \subseteq D
      <4> HIDE DEF target, D
      <4> QED
        BY <1>1, PartsResolve
    <3> QED
      BY <1>1, <1>4, <1>5, <3>1 DEF Truths
  <2>2. holdsAt(target, w, g, e) = holdsAt(target, w, f, e)
    <3> HIDE DEF target, D
    <3> QED
      BY <1>1, <2>1, HoldsAtLocal
  <2>3. holdsAt(target, w, f, e) = holdsAt(set, w, f, e)
    BY <1>2 DEF holdsAt
  <2>4. f[e] = holdsAt(set, w, f, e) /\ g[e] = holdsAt(target, w, g, e)
    BY <1>1, <1>3, <1>4 DEF Truths
  <2> QED
    BY <2>2, <2>3, <2>4
<1>6. Founded(D, partsOf(target)) /\ Good \in SUBSET D
  BY <1>1 DEF WellFormed
<1> HIDE DEF Good, D, target
<1> QED
  BY <1>5, <1>6, FoundedInduction

\* An expression of the response as it is read with premises in place.
LEMMA InPlaceIs ==
    ASSUME NEW r, Answerable(r), NEW e \in DOMAIN r.expr
    PROVE  LET u == inPlace(r, sourcePremises(r))
           IN  /\ DOMAIN u.expr = DOMAIN r.expr
               /\ kindOf(r, e) = "variable" /\ sourceOf(r, e) # None
                    => kindOf(u, e) = "formula" /\ kids(u, e) = <<sourceOf(r, e)>>
               /\ ~(kindOf(r, e) = "variable" /\ sourceOf(r, e) # None)
                    => u.expr[e] = r.expr[e]
<1>1. r = [id |-> r.id, version |-> r.version, expr |-> r.expr, root |-> r.root,
           conclusion |-> r.conclusion, derivations |-> r.derivations,
           binding |-> r.binding, respondsTo |-> r.respondsTo, order |-> r.order]
  BY DEF Answerable, IsArgument
<1>2. r.expr[e] = [premise |-> premiseOf(r, e), kind |-> kindOf(r, e),
                   kids |-> kids(r, e), variable |-> r.expr[e].variable]
  BY DEF Answerable, Trees
<1> DEFINE n == r.expr[e]
           u == inPlace(r, sourcePremises(r))
           m == u.expr[e]
<1>3. /\ DOMAIN u.expr = DOMAIN r.expr
      /\ m = IF kindOf(r, e) = "variable" /\ sourceOf(r, e) # None
             THEN [n EXCEPT !.kind = "formula", !.kids = <<sourceOf(r, e)>>] ELSE n
  BY <1>1 DEF inPlace, sourceOf
<1>4. kindOf(u, e) = m.kind /\ kids(u, e) = m.kids
  BY DEF kindOf, kids
<1> HIDE DEF m, u
<1>5. CASE kindOf(r, e) = "variable" /\ sourceOf(r, e) # None
  <2>1. m = [n EXCEPT !.kind = "formula", !.kids = <<sourceOf(r, e)>>]
    BY <1>3, <1>5
  <2>2. m.kind = "formula" /\ m.kids = <<sourceOf(r, e)>>
    BY <1>2, <2>1
  <2> QED
    BY <1>3, <1>4, <1>5, <2>2 DEF u
<1>6. CASE ~(kindOf(r, e) = "variable" /\ sourceOf(r, e) # None)
  BY <1>3, <1>6 DEF u, m
<1> QED
  BY <1>5, <1>6

\* In every world the values of the response's expressions are those of the
\* formulas they make with the target's.
LEMMA ResponseValuesAre ==
    ASSUME NEW r, NEW t, Joined(r, t), NEW w
    PROVE  \A e \in DOMAIN r.expr :
              /\ evaluateCombinedNode(combine(r, t), e, w) \in BOOLEAN
              /\ responseValues(r, t, w)[e] = valueIn(evaluateCombinedNode(combine(r, t), e, w))
<1> DEFINE D == DOMAIN r.expr
           set == combine(r, t)
           u == inPlace(r, sourcePremises(r))
           target == targetValues(t, w)
           vars == [x \in DOMAIN r.binding |->
                       IF x \in statementBound(r) THEN target[r.binding[x].expression]
                       ELSE valueIn(columnOf(r, r.binding[x]) \in w)]
           body(v, e) == IF kindOf(u, e) = "variable" THEN vars[u.expr[e].variable]
                         ELSE applyOperator(kindOf(u, e), [k \in DOMAIN kids(u, e) |-> v[kids(u, e)[k]]])
<1>1. WellFormed(set) /\ D \subseteq DOMAIN set /\ DOMAIN t.expr \subseteq DOMAIN set
  BY JoinedWellFormed, TargetPart
<1>2. D # {} => DOMAIN u.expr = D
  BY InPlaceIs DEF Joined
<1>3. PICK f : Truths(set, w, f) /\ \A e : evaluateCombinedNode(set, e, w) = f[e]
  BY <1>1, TruthsAre
<1> DEFINE g == [e \in D |-> valueIn(f[e])]
           own == expander(r)
<1>o. WellFormed(own) /\ DOMAIN own = D
  BY ExpanderWellFormed, ExpanderIs DEF Joined
<1>4. ASSUME NEW v, NEW e \in D, \A d \in partsOf(own)[e] : v[d] = g[d]
      PROVE  body(v, e) = g[e]
  <2>1. g[e] = valueIn(holdsAt(set, w, f, e))
    BY <1>1, <1>3 DEF Truths
  <2>2. CASE kindOf(r, e) = "variable" /\ sourceOf(r, e) = None
    <3>1. PICK x : x = r.expr[e].variable
      OBVIOUS
    <3>2. u.expr[e] = r.expr[e] /\ x \in DOMAIN r.binding
      BY <2>2, <3>1, InPlaceIs, ResponsePart DEF Joined
    <3>3. body(v, e) = vars[x]
      BY <2>2, <3>1, <3>2 DEF kindOf
    <3>4. CASE boundToStatement(r, e)
      <4>1. PICK d \in DOMAIN t.expr : d = r.binding[x].expression /\ set[e].kids = <<d>> /\ set[e].kind = "formula"
        BY <2>2, <3>1, <3>4, ResponsePart
      <4>2. x \in statementBound(r)
        BY <3>1, <3>4 DEF boundToStatement
      <4>3. vars[x] = target[d]
        BY <3>2, <4>1, <4>2
      <4>4. target[d] = valueIn(evaluateCombinedNode(expander(t), d, w))
        BY TargetValuesAre DEF Joined
      <4>5. evaluateCombinedNode(expander(t), d, w) = f[d]
        BY <1>3, TargetTruths
      <4>6. holdsAt(set, w, f, e) = f[d]
        BY <4>1 DEF holdsAt
      <4> HIDE DEF body, g, vars, target
      <4> QED
        BY <2>1, <3>3, <4>3, <4>4, <4>5, <4>6
    <3>5. CASE ~boundToStatement(r, e)
      <4>1. set[e].kind = "column" /\ set[e].column = columnOf(r, r.binding[x])
        BY <2>2, <3>1, <3>5, ResponsePart
      <4>2. x \notin statementBound(r)
        BY <3>1, <3>5 DEF boundToStatement
      <4>3. vars[x] = valueIn(set[e].column \in w)
        BY <3>2, <4>1, <4>2
      <4>4. holdsAt(set, w, f, e) = (set[e].column \in w)
        BY <4>1 DEF holdsAt
      <4> HIDE DEF body, g, vars
      <4> QED
        BY <2>1, <3>3, <4>3, <4>4
    <3> QED
      BY <3>4, <3>5
  <2>3. CASE ~(kindOf(r, e) = "variable" /\ sourceOf(r, e) = None)
    <3>1. /\ set[e].kind # "column" /\ kindOf(u, e) # "variable"
          /\ kindOf(u, e) = set[e].kind /\ kids(u, e) = set[e].kids
          /\ set[e].kids = own[e].kids
      <4>1. CASE kindOf(r, e) # "variable"
        <5>1. kindOf(r, e) # "column"
          BY <4>1 DEF Joined, Answerable, OperatorKind, Variadic, Conditional
        <5>2. u.expr[e] = r.expr[e]
          BY <4>1, InPlaceIs DEF Joined
        <5>3. kindOf(u, e) = kindOf(r, e) /\ kids(u, e) = kids(r, e)
          BY <5>2 DEF kindOf, kids
        <5>4. /\ set[e].kind = kindOf(r, e) /\ set[e].kids = kids(r, e)
              /\ own[e].kids = kids(r, e)
          BY <4>1, ResponsePart, NodeIs
        <5> QED
          BY <4>1, <5>1, <5>3, <5>4
      <4>2. CASE kindOf(r, e) = "variable" /\ sourceOf(r, e) # None
        <5>1. ~boundToStatement(r, e)
          BY <4>2, ResponsePart
        <5>2. set[e].kind = "formula" /\ set[e].kids = <<sourceOf(r, e)>>
          BY <4>2, <5>1, ResponsePart
        <5>3. kindOf(u, e) = "formula" /\ kids(u, e) = <<sourceOf(r, e)>>
          BY <4>2, InPlaceIs DEF Joined
        <5>4. own[e].kids = <<sourceOf(r, e)>>
          BY <4>2, SourceIs, NodeIs DEF Joined
        <5> QED
          BY <5>2, <5>3, <5>4
      <4> QED
        BY <2>3, <4>1, <4>2
    <3>2. \A d \in partsOf(own)[e] : d \in D /\ f[d] \in BOOLEAN
      <4>1. partsOf(own)[e] \subseteq D
        <5> HIDE DEF own
        <5> QED
          BY <1>o, PartsResolve
      <4> QED
        BY <1>1, <1>3, <4>1 DEF Truths
    <3>3. partsOf(set)[e] = partsOf(own)[e]
      BY <1>1, <1>o, <3>1 DEF partsOf
    <3>4. \A k \in DOMAIN set[e].kids : set[e].kids[k] \in partsOf(set)[e]
      <4> HIDE DEF set
      <4> QED
        BY <1>1, PartsResolve
    <3>5. \A k \in DOMAIN set[e].kids : v[set[e].kids[k]] = valueIn(f[set[e].kids[k]])
      BY <1>4, <3>2, <3>3, <3>4
    <3>6. [k \in DOMAIN set[e].kids |-> v[set[e].kids[k]]]
              = [k \in DOMAIN set[e].kids |-> valueIn(f[set[e].kids[k]])]
      <4> HIDE DEF set
      <4> QED
        BY <3>5
    <3>7. body(v, e) = applyOperator(set[e].kind, [k \in DOMAIN set[e].kids |-> v[set[e].kids[k]]])
      BY <3>1
    <3>8. applyOperator(set[e].kind, [k \in DOMAIN set[e].kids |-> valueIn(f[set[e].kids[k]])])
              = valueIn(holdsAt(set, w, f, e))
      <4> HIDE DEF set
      <4> QED
        BY <1>1, <3>1, <3>2, <3>3, OperatorAgrees
    <3> HIDE DEF body, g, set
    <3> QED
      BY <2>1, <3>6, <3>7, <3>8
  <2> QED
    BY <2>2, <2>3
<1>5. g = [e \in D |-> body(g, e)]
  <2>1. \A e \in D : body(g, e) = g[e]
    BY <1>4
  <2> HIDE DEF body
  <2> QED
    BY <2>1
<1> DEFINE F == CHOOSE val : val = [e \in DOMAIN u.expr |-> body(val, e)]
<1>6. responseValues(r, t, w) = F
  BY DEF responseValues, evaluateSubtree
<1> HIDE DEF body
<1>7. D # {} => F = [e \in D |-> body(F, e)]
  BY <1>2, <1>5
<1> HIDE DEF F
<1> DEFINE Good == {e \in D : F[e] = g[e]}
<1>8. D = Good
  <2>1. ASSUME NEW e \in D, partsOf(own)[e] \cap D \subseteq Good
        PROVE  e \in Good
    <3>1. partsOf(own)[e] \subseteq D
      <4> HIDE DEF own
      <4> QED
        BY <1>o, PartsResolve
    <3>2. \A d \in partsOf(own)[e] : F[d] = g[d]
      BY <2>1, <3>1
    <3>3. body(F, e) = g[e]
      BY <1>4, <3>2
    <3> QED
      BY <1>7, <3>3
  <2>2. Founded(D, partsOf(own)) /\ Good \in SUBSET D
    BY <1>o DEF WellFormed
  <2> HIDE DEF Good, D, own
  <2> QED
    BY <2>1, <2>2, FoundedInduction
<1>9. ASSUME NEW e \in D
      PROVE  /\ evaluateCombinedNode(set, e, w) \in BOOLEAN
             /\ F[e] = valueIn(evaluateCombinedNode(set, e, w))
  <2>1. f[e] \in BOOLEAN
    BY <1>1, <1>3 DEF Truths
  <2>2. F[e] = valueIn(f[e])
    BY <1>8
  <2> QED
    BY <1>3, <2>1, <2>2
<1> QED
  BY <1>6, <1>9

\* Every column is an atom of the world, of which there are finitely many.
LEMMA WorldHasColumns ==
    ASSUME NEW r, NEW t, Joined(r, t)
    PROVE  allColumns(combine(r, t)) \subseteq worldOf(r, t) /\ IsFiniteSet(worldOf(r, t))
<1> DEFINE set == combine(r, t)
           free(a, xs, premises) == {y \in xs : ownRoot(a, premises, a.binding[y]) = None}
<1>1. ASSUME NEW e \in DOMAIN t.expr, set[e].kind = "column"
      PROVE  set[e].column \in worldOf(r, t)
  <2>1. set[e] = expander(t)[e]
    BY TargetPart
  <2>2. kindOf(t, e) = "variable" /\ inlined(t, e) = None
    <3>1. kindOf(t, e) # "variable" => kindOf(t, e) # "column"
      BY DEF Joined, Answerable, OperatorKind, Variadic, Conditional
    <3> QED
      BY <1>1, <2>1, <3>1, NodeIs
  <2>3. set[e].column = columnOf(t, t.binding[t.expr[e].variable])
    BY <2>1, <2>2, NodeIs
  <2>4. t.expr[e].variable \in DOMAIN t.binding
    <3>1. e \in expressionsIn(t, premiseOf(t, e)) /\ validatePremiseEvaluability(t, premiseOf(t, e))
      BY DEF Joined, Answerable, expressionsIn, premiseOf
    <3> QED
      BY <2>2, <3>1 DEF validatePremiseEvaluability
  <2> QED
    BY <2>2, <2>3, <2>4 DEF worldOf, atoms, inlined
<1>2. ASSUME NEW e \in DOMAIN r.expr, set[e].kind = "column"
      PROVE  set[e].column \in worldOf(r, t)
  <2>1. kindOf(r, e) # "variable" => kindOf(r, e) # "column"
    BY DEF Joined, Answerable, OperatorKind, Variadic, Conditional
  <2>2. kindOf(r, e) = "variable" /\ ~boundToStatement(r, e) /\ sourceOf(r, e) = None
    BY <1>2, <2>1, ResponsePart
  <2>3. /\ set[e].column = columnOf(r, r.binding[r.expr[e].variable])
        /\ r.expr[e].variable \in DOMAIN r.binding
    BY <2>2, ResponsePart
  <2> QED
    BY <2>2, <2>3 DEF worldOf, atoms, boundToStatement, sourceOf
<1>3. allColumns(set) \subseteq worldOf(r, t)
  <2> SUFFICES ASSUME NEW c \in allColumns(set) PROVE c \in worldOf(r, t)
    OBVIOUS
  <2>1. PICK x \in DOMAIN set : set[x].kind = "column" /\ set[x].column = c
    BY DEF allColumns
  <2>2. DOMAIN set = DOMAIN r.expr \cup DOMAIN t.expr
    BY TargetPart
  <2>3. x \in DOMAIN r.expr \/ x \in DOMAIN t.expr
    <3> HIDE DEF set
    <3> QED
      BY <2>1, <2>2
  <2> HIDE DEF set
  <2> QED
    BY <1>1, <1>2, <2>1, <2>3
<1>4. ASSUME NEW a, NEW xs, IsFiniteSet(xs), NEW premises
      PROVE  IsFiniteSet(atoms(a, xs, premises))
  <2> DEFINE C == {y \in xs : ownRoot(a, premises, a.binding[y]) = None}
             T == {columnOf(a, a.binding[x]) : x \in C}
             m == [x \in C |-> columnOf(a, a.binding[x])]
  <2>1. IsFiniteSet(C)
    BY <1>4, FS_Subset
  <2> HIDE DEF C
  <2>2. m \in Surjection(C, T)
    BY DEF Surjection
  <2>3. IsFiniteSet(T)
    <3> HIDE DEF m, T
    <3> QED
      BY <2>1, <2>2, FS_Surjection
  <2> QED
    BY <2>3 DEF atoms, C
<1>5. IsFiniteSet(DOMAIN t.binding) /\ IsFiniteSet(DOMAIN r.binding \ statementBound(r))
  BY FS_Subset DEF Joined, Answerable
<1>6. IsFiniteSet(worldOf(r, t))
  BY <1>4, <1>5, FS_Union DEF worldOf
<1> QED
  BY <1>3, <1>6

(***************************************************************************)
(* The search answers what entailment does.                                *)
(***************************************************************************)
\* The premises that hold in a row.
heldIn(r, t, row) ==
    {p \in sourcePremises(r) : evaluateCombinedNode(combine(r, t), r.root[p], row)}

LEMMA RootsAre ==
    ASSUME NEW r, NEW t, Joined(r, t)
    PROVE  /\ IsFiniteSet(sourcePremises(r))
           /\ \A p \in sourcePremises(r) :
                /\ r.root[p] \in DOMAIN r.expr /\ premiseOf(r, r.root[p]) = p
                /\ r.root[p] \in DOMAIN combine(r, t)
<1>1. \A p \in sourcePremises(r) : p \in premisesOf(r) /\ r.root[p] # None
  BY DEF sourcePremises
<1>2. \A p \in sourcePremises(r) : r.root[p] \in DOMAIN r.expr /\ premiseOf(r, r.root[p]) = p
  BY <1>1 DEF Joined, Answerable, Trees, expressionsIn, premiseOf
<1>3. DOMAIN r.expr \subseteq DOMAIN combine(r, t)
  BY TargetPart
<1> DEFINE C == {e \in DOMAIN r.expr : premiseOf(r, e) \in sourcePremises(r)}
           m == [e \in C |-> premiseOf(r, e)]
<1>4. m \in Surjection(C, sourcePremises(r))
  BY <1>2 DEF Surjection
<1>5. IsFiniteSet(C)
  BY FS_Subset DEF Joined, Answerable
<1> HIDE DEF C, m
<1>6. IsFiniteSet(sourcePremises(r))
  BY <1>4, <1>5, FS_Surjection
<1> QED
  BY <1>2, <1>3, <1>6

\* A formula names its expression.
LEMMA NamesRoot ==
    ASSUME NEW r, NEW ps
    PROVE  /\ \A f \in formulasOf(r, ps) : \E p \in ps : f[1] = r.root[p]
           /\ \A p \in ps : \E f \in formulasOf(r, ps) : f[1] = r.root[p]
           /\ \A p : negationOf(r, p)[1] = r.root[p]
<1>1. \A x, b : <<x, b>>[1] = x
  OBVIOUS
<1>2. \A x : <<x, TRUE>>[1] = x /\ <<x, FALSE>>[1] = x
  BY <1>1, Zenon
<1>3. ASSUME NEW f \in formulasOf(r, ps)
      PROVE  \E p \in ps : f[1] = r.root[p]
  <2>1. PICK p \in ps : f = <<r.root[p], TRUE>>
    BY DEF formulasOf
  <2>2. f[1] = r.root[p]
    BY <1>2, <2>1, Zenon
  <2> QED
    BY <2>2
<1>4. ASSUME NEW p \in ps
      PROVE  \E f \in formulasOf(r, ps) : f[1] = r.root[p]
  <2>1. <<r.root[p], TRUE>> \in formulasOf(r, ps)
    BY DEF formulasOf
  <2>2. <<r.root[p], TRUE>>[1] = r.root[p]
    BY <1>2, Zenon
  <2> QED
    BY <2>1, <2>2, Zenon
<1>5. ASSUME NEW p
      PROVE  negationOf(r, p)[1] = r.root[p]
  BY <1>2, Zenon DEF negationOf
<1> QED
  BY <1>3, <1>4, <1>5

\* What the property calls the premises that hold.
LEMMA HeldIs ==
    ASSUME NEW r, NEW t, Joined(r, t), NEW row
    PROVE  heldIn(r, t, row) = {p \in sourcePremises(r) : responseValues(r, t, row)[r.root[p]] = True}
<1>1. \A b \in BOOLEAN : valueIn(b) = True <=> b
  BY DEF valueIn, True, False
<1>2. ASSUME NEW p \in sourcePremises(r)
      PROVE  evaluateCombinedNode(combine(r, t), r.root[p], row)
                <=> responseValues(r, t, row)[r.root[p]] = True
  <2>1. r.root[p] \in DOMAIN r.expr
    BY RootsAre
  <2> QED
    BY <1>1, <2>1, ResponseValuesAre
<1> QED
  BY <1>2 DEF heldIn

\* The readings are the rows in which the forced columns are true.
LEMMA ReadingsAreRows ==
    ASSUME NEW r, NEW t, Joined(r, t)
    PROVE  /\ \A row : forcedTrueColumns(r) \subseteq row => heldIn(r, t, row) \in holding(r, t)
           /\ \A h \in holding(r, t) :
                \E row : forcedTrueColumns(r) \subseteq row /\ h = heldIn(r, t, row)
<1> DEFINE set == combine(r, t)
           forced == forcedTrueColumns(r)
<1>1. \A row : heldIn(r, t, row)
                 = {p \in sourcePremises(r) : responseValues(r, t, row)[r.root[p]] = True}
  BY HeldIs
<1>2. holding(r, t) = {heldIn(r, t, w) : w \in worlds(r, t)}
  BY <1>1 DEF holding
<1>3. ASSUME NEW row, forced \subseteq row
      PROVE  \E w \in worlds(r, t) : heldIn(r, t, row) = heldIn(r, t, w)
  <2> DEFINE w == (row \cap worldOf(r, t)) \cup forced
  <2>1. w \in worlds(r, t)
    BY DEF worlds
  <2>2. ASSUME NEW p \in sourcePremises(r)
        PROVE  evaluateCombinedNode(set, r.root[p], row) = evaluateCombinedNode(set, r.root[p], w)
    <3>1. WellFormed(set) /\ r.root[p] \in DOMAIN set
      BY RootsAre, JoinedWellFormed
    <3>2. columnsOf(set, r.root[p]) \subseteq worldOf(r, t)
      <4>1. columnsOf(set, r.root[p]) \subseteq allColumns(set)
        BY <3>1, ColumnsAre
      <4> QED
        BY <4>1, WorldHasColumns
    <3>3. row \cap columnsOf(set, r.root[p]) = w \cap columnsOf(set, r.root[p])
      <4> HIDE DEF set, forced
      <4> QED
        BY <1>3, <3>2
    <3> HIDE DEF set, w
    <3> QED
      BY <3>1, <3>3, OwnColumnsDecide
  <2> HIDE DEF w
  <2>3. heldIn(r, t, row) = heldIn(r, t, w)
    BY <2>2 DEF heldIn
  <2> QED
    BY <2>1, <2>3
<1>4. \A w \in worlds(r, t) : forced \subseteq w
  BY DEF worlds
<1> HIDE DEF forced
<1> QED
  BY <1>2, <1>3, <1>4 DEF forced

\* What the search is given, and what it means for that to hold.
denying(r, p, ps) == {negationOf(r, p)} \cup formulasOf(r, ps)

LEMMA FormulasAre ==
    ASSUME NEW r, NEW t, Joined(r, t), NEW ps \in SUBSET sourcePremises(r)
    PROVE  LET set == combine(r, t)
           IN  /\ Formulas(set, formulasOf(r, ps))
               /\ \A row : Hold(set, formulasOf(r, ps), row) <=> ps \subseteq heldIn(r, t, row)
               /\ \A p \in sourcePremises(r) :
                    /\ Formulas(set, denying(r, p, ps))
                    /\ \A row : Hold(set, denying(r, p, ps), row)
                                  <=> p \notin heldIn(r, t, row) /\ ps \subseteq heldIn(r, t, row)
<1> DEFINE set == combine(r, t)
           F == formulasOf(r, ps)
           m == [p \in ps |-> <<r.root[p], TRUE>>]
<1>1. WellFormed(set) /\ \A p \in sourcePremises(r) : r.root[p] \in DOMAIN set
  BY JoinedWellFormed, RootsAre
<1>2. IsFiniteSet(ps)
  BY RootsAre, FS_Subset
<1>3. IsFiniteSet(F)
  <2>1. m \in Surjection(ps, F)
    BY DEF Surjection, formulasOf
  <2> HIDE DEF m, F
  <2> QED
    BY <1>2, <2>1, FS_Surjection
<1>4. \A f \in F : \E p \in ps : f = <<r.root[p], TRUE>>
  BY DEF formulasOf
<1>5. \A p \in ps : <<r.root[p], TRUE>> \in F
  BY DEF formulasOf
<1>6. ASSUME NEW row
      PROVE  /\ \A p \in sourcePremises(r) :
                  /\ trueIn(set, <<r.root[p], TRUE>>, row) <=> p \in heldIn(r, t, row)
                  /\ trueIn(set, negationOf(r, p), row) <=> p \notin heldIn(r, t, row)
  <2>1. PICK f : Truths(set, row, f) /\ \A e : evaluateCombinedNode(set, e, row) = f[e]
    BY <1>1, TruthsAre
  <2>2. ASSUME NEW p \in sourcePremises(r)
        PROVE  evaluateCombinedNode(set, r.root[p], row) \in BOOLEAN
    BY <1>1, <2>1, <2>2 DEF Truths
  <2>3. ASSUME NEW p \in sourcePremises(r)
        PROVE  /\ trueIn(set, <<r.root[p], TRUE>>, row) <=> p \in heldIn(r, t, row)
               /\ trueIn(set, negationOf(r, p), row) <=> p \notin heldIn(r, t, row)
    <3>1. PICK b \in BOOLEAN : b = evaluateCombinedNode(set, r.root[p], row)
      BY <2>2
    <3>2. trueIn(set, <<r.root[p], TRUE>>, row) <=> b = TRUE
      BY <3>1 DEF trueIn
    <3>3. trueIn(set, negationOf(r, p), row) <=> b = FALSE
      BY <3>1 DEF trueIn, negationOf
    <3>4. p \in heldIn(r, t, row) <=> b
      BY <3>1 DEF heldIn
    <3> QED
      BY <3>2, <3>3, <3>4
  <2> QED
    BY <2>3
<1> HIDE DEF F, set, m
<1>7. Formulas(set, F)
  <2>1. \A f \in F : \E p \in ps : f[1] = r.root[p]
    BY NamesRoot DEF F
  <2> QED
    BY <1>1, <1>3, <2>1 DEF Formulas
<1>8. ASSUME NEW row
      PROVE  Hold(set, F, row) <=> ps \subseteq heldIn(r, t, row)
  BY <1>4, <1>5, <1>6 DEF Hold
<1>9. ASSUME NEW p \in sourcePremises(r)
      PROVE  /\ Formulas(set, denying(r, p, ps))
             /\ \A row : Hold(set, denying(r, p, ps), row)
                          <=> p \notin heldIn(r, t, row) /\ ps \subseteq heldIn(r, t, row)
  <2>1. denying(r, p, ps) = F \cup {negationOf(r, p)}
    BY DEF denying, F
  <2>2. negationOf(r, p)[1] \in DOMAIN set
    BY <1>1 DEF negationOf
  <2>3. IsFiniteSet(F \cup {negationOf(r, p)})
    BY <1>3, FS_AddElement
  <2>4. Formulas(set, denying(r, p, ps))
    BY <1>7, <2>1, <2>2, <2>3 DEF Formulas
  <2>5. ASSUME NEW row
        PROVE  Hold(set, denying(r, p, ps), row)
                <=> trueIn(set, negationOf(r, p), row) /\ Hold(set, F, row)
    BY <2>1 DEF Hold
  <2> QED
    BY <1>6, <1>8, <2>4, <2>5
<1> QED
  BY <1>7, <1>8, <1>9 DEF F, set

\* An answer is right: "no" when nothing, "yes" when the witness, makes all hold.
LEMMA AnswersAreRight ==
    ASSUME NEW r, NEW t, Joined(r, t), NEW ps \in SUBSET sourcePremises(r)
    PROVE  LET set == combine(r, t)
               forced == forcedTrueColumns(r)
               hs == holding(r, t)
               together == search(set, forced, formulasOf(r, ps))
               without(p) == search(set, forced, denying(r, p, ps))
           IN  /\ together.answer = "no" => ~ \E h \in hs : ps \subseteq h
               /\ together.answer = "yes" => \E h \in hs : ps \subseteq h
               /\ \A p \in sourcePremises(r) :
                    /\ without(p).answer = "no" => entails(hs, ps, p)
                    /\ without(p).answer = "yes" =>
                        LET h == heldIn(r, t, without(p).witness)
                        IN  h \in hs /\ ps \subseteq h /\ p \notin h
<1> DEFINE set == combine(r, t)
           forced == forcedTrueColumns(r)
           hs == holding(r, t)
           together == search(set, forced, formulasOf(r, ps))
           without(p) == search(set, forced, denying(r, p, ps))
<1>1. WellFormed(set)
  BY JoinedWellFormed
<1>2. /\ Formulas(set, formulasOf(r, ps))
      /\ \A row : Hold(set, formulasOf(r, ps), row) <=> ps \subseteq heldIn(r, t, row)
      /\ \A p \in sourcePremises(r) :
           /\ Formulas(set, denying(r, p, ps))
           /\ \A row : Hold(set, denying(r, p, ps), row)
                         <=> p \notin heldIn(r, t, row) /\ ps \subseteq heldIn(r, t, row)
  BY FormulasAre
<1>3. /\ \A row : forced \subseteq row => heldIn(r, t, row) \in hs
      /\ \A h \in hs : \E row : forced \subseteq row /\ h = heldIn(r, t, row)
  BY ReadingsAreRows
<1>4. together.answer = "no" => ~ \E h \in hs : ps \subseteq h
  <2> SUFFICES ASSUME together.answer = "no", NEW h \in hs, ps \subseteq h PROVE FALSE
    OBVIOUS
  <2>1. PICK row : forced \subseteq row /\ h = heldIn(r, t, row)
    BY <1>3
  <2>2. ~Hold(set, formulasOf(r, ps), row)
    <3> HIDE DEF set, forced
    <3> QED
      BY <1>1, <1>2, <2>1, SearchNo
  <2> QED
    BY <1>2, <2>1, <2>2
<1>5. together.answer = "yes" => \E h \in hs : ps \subseteq h
  <2> SUFFICES ASSUME together.answer = "yes" PROVE \E h \in hs : ps \subseteq h
    OBVIOUS
  <2>1. Hold(set, formulasOf(r, ps), together.witness) /\ forced \subseteq together.witness
    <3> HIDE DEF set, forced
    <3> QED
      BY <1>1, <1>2, SearchYes
  <2> HIDE DEF together, hs, set, forced
  <2> QED
    BY <1>2, <1>3, <2>1
<1>6. ASSUME NEW p \in sourcePremises(r), without(p).answer = "no"
      PROVE  entails(hs, ps, p)
  <2> SUFFICES ASSUME NEW h \in hs, ps \subseteq h, p \notin h PROVE FALSE
    BY DEF entails
  <2>1. PICK row : forced \subseteq row /\ h = heldIn(r, t, row)
    BY <1>3
  <2>2. ~Hold(set, denying(r, p, ps), row)
    <3> HIDE DEF set, forced
    <3> QED
      BY <1>1, <1>2, <1>6, <2>1, SearchNo
  <2> QED
    BY <1>2, <2>1, <2>2
<1>7. ASSUME NEW p \in sourcePremises(r), without(p).answer = "yes"
      PROVE  LET h == heldIn(r, t, without(p).witness)
             IN  h \in hs /\ ps \subseteq h /\ p \notin h
  <2>1. Hold(set, denying(r, p, ps), without(p).witness) /\ forced \subseteq without(p).witness
    <3> HIDE DEF set, forced
    <3> QED
      BY <1>1, <1>2, <1>7, SearchYes
  <2> HIDE DEF without, hs, set, forced
  <2> QED
    BY <1>2, <1>3, <2>1
<1> QED
  BY <1>4, <1>5, <1>6, <1>7

\* And the search answers when the groups of all the premises can be walked.
LEMMA AnswersWhenWalked ==
    ASSUME NEW r, NEW t, Joined(r, t), Ceiling \in Nat,
           Walked(combine(r, t), forcedTrueColumns(r), formulasOf(r, sourcePremises(r))),
           NEW ps \in SUBSET sourcePremises(r)
    PROVE  LET set == combine(r, t)
               forced == forcedTrueColumns(r)
               hs == holding(r, t)
           IN  /\ impossible(set, forced, formulasOf(r, ps)) <=> ~ \E h \in hs : ps \subseteq h
               /\ \A p \in sourcePremises(r) : entailedBy(r, set, p, ps) <=> entails(hs, ps, p)
<1> DEFINE set == combine(r, t)
           forced == forcedTrueColumns(r)
           hs == holding(r, t)
           all == formulasOf(r, sourcePremises(r))
<1>1. WellFormed(set) /\ Formulas(set, all)
  BY JoinedWellFormed, FormulasAre
<1>2. ASSUME NEW E, Formulas(set, E), \A f \in E : \E p \in sourcePremises(r) : f[1] = r.root[p]
      PROVE  search(set, forced, E).answer \in {"yes", "no"}
  <2>1. \A f \in E : \E g \in all : columnsOf(set, f[1]) = columnsOf(set, g[1])
    <3>1. \A p \in sourcePremises(r) : \E g \in all : g[1] = r.root[p]
      BY NamesRoot
    <3> HIDE DEF all, set
    <3> QED
      BY <1>2, <3>1
  <2>2. Walked(set, forced, E)
    <3> HIDE DEF set, forced, all
    <3> QED
      BY <1>1, <1>2, <2>1, FewerAreWalked DEF all, set, forced
  <2> HIDE DEF set, forced
  <2> QED
    BY <2>2, SearchAnswers
<1>3. search(set, forced, formulasOf(r, ps)).answer \in {"yes", "no"}
  <2>1. Formulas(set, formulasOf(r, ps))
    BY FormulasAre
  <2>2. \A f \in formulasOf(r, ps) : \E p \in sourcePremises(r) : f[1] = r.root[p]
    BY NamesRoot
  <2> QED
    BY <1>2, <2>1, <2>2
<1>4. impossible(set, forced, formulasOf(r, ps)) <=> ~ \E h \in hs : ps \subseteq h
  <2>1. /\ search(set, forced, formulasOf(r, ps)).answer = "no" => ~ \E h \in hs : ps \subseteq h
        /\ search(set, forced, formulasOf(r, ps)).answer = "yes" => \E h \in hs : ps \subseteq h
    BY AnswersAreRight
  <2> HIDE DEF set, forced, hs
  <2> QED
    BY <1>3, <2>1 DEF impossible
<1>5. ASSUME NEW p \in sourcePremises(r)
      PROVE  entailedBy(r, set, p, ps) <=> entails(hs, ps, p)
  <2> DEFINE said == search(set, forced, denying(r, p, ps))
  <2>1. said.answer \in {"yes", "no"}
    <3>1. Formulas(set, denying(r, p, ps))
      BY FormulasAre
    <3>2. \A f \in denying(r, p, ps) : \E q \in sourcePremises(r) : f[1] = r.root[q]
      BY NamesRoot DEF denying
    <3> QED
      BY <1>2, <3>1, <3>2
  <2>2. /\ said.answer = "no" => entails(hs, ps, p)
        /\ said.answer = "yes" =>
              LET h == heldIn(r, t, said.witness) IN h \in hs /\ ps \subseteq h /\ p \notin h
    BY AnswersAreRight
  <2>3. entailedBy(r, set, p, ps) <=> said.answer = "no"
    BY DEF entailedBy, impossible, denying
  <2> HIDE DEF said, set, hs
  <2> QED
    BY <2>1, <2>2, <2>3 DEF entails
<1> QED
  BY <1>4, <1>5

\* It leaves nothing open unless the columns together exceed the ceiling.
LEMMA OpenIsLarge ==
    ASSUME NEW r, NEW t, Joined(r, t), Ceiling \in Nat, NEW F, Formulas(combine(r, t), F),
           search(combine(r, t), forcedTrueColumns(r), F).answer = "unknown"
    PROVE  Cardinality(worldOf(r, t) \ forcedTrueColumns(r)) > Ceiling
<1> DEFINE set == combine(r, t)
           forced == forcedTrueColumns(r)
<1>1. WellFormed(set)
  BY JoinedWellFormed
<1>2. PICK g \in groupsOf(set, forced, F) : tooLarge(set, forced, g)
  <2>1. ~Walked(set, forced, F)
    BY SearchAnswers
  <2> QED
    BY <2>1 DEF Walked
<1>3. g \subseteq F
  BY <1>2, GroupsAre DEF ClosedIn, Formulas
<1> DEFINE few == (UNION {columnsOf(set, x[1]) : x \in g}) \ forced
           many == worldOf(r, t) \ forced
<1>4. few \subseteq many
  <2>1. \A x \in g : columnsOf(set, x[1]) \subseteq allColumns(set)
    BY <1>1, <1>3, ColumnsAre DEF Formulas
  <2>2. allColumns(set) \subseteq worldOf(r, t)
    BY WorldHasColumns
  <2> HIDE DEF set, forced
  <2> QED
    BY <2>1, <2>2
<1>5. IsFiniteSet(many)
  BY WorldHasColumns, FS_Subset
<1>6. Cardinality(few) > Ceiling
  BY <1>2 DEF tooLarge
<1> HIDE DEF few, many
<1>7. Cardinality(few) <= Cardinality(many) /\ Cardinality(few) \in Nat /\ Cardinality(many) \in Nat
  BY <1>4, <1>5, FS_Subset, FS_CardinalityType
<1>8. Cardinality(many) > Ceiling
  BY <1>6, <1>7
<1> QED
  BY <1>8 DEF many

(***************************************************************************)
(* Taking premises out one by one.                                         *)
(***************************************************************************)
\* What is left does what was asked, and each premise listed that is left could
\* not be taken from what there was when its turn came.
Shrunk(order, start, sufficient, m) ==
    /\ m \subseteq start
    /\ start \in sufficient => m \in sufficient
    /\ \A q \in m : q \in Range(order) =>
          \E K : K \subseteq start /\ m \subseteq K /\ K \ {q} \notin sufficient
startOf(premises, sufficient, removeFirst) ==
    IF premises \ removeFirst \in sufficient THEN premises \ removeFirst ELSE premises

LEMMA MinimiseIs ==
    ASSUME NEW order, order \in Seq(Range(order)),
           NEW premises, NEW sufficient, NEW removeFirst
    PROVE  Shrunk(order, startOf(premises, sufficient, removeFirst), sufficient,
                  minimise(order, premises, sufficient, removeFirst))
<1> DEFINE start == startOf(premises, sufficient, removeFirst)
           N == Len(order)
           D == 0 .. N
           V == SUBSET start
           after(prev, q) == IF prev \ {q} \in sufficient THEN prev \ {q} ELSE prev
           body(g) == [n \in D |-> IF n = 0 THEN start ELSE after(g[n - 1], order[n])]
           B == [g \in [D -> V] |-> body(g)]
           below == [n \in D |-> {n - 1}]
           kept == CHOOSE g : g = body(g)
<1>1. minimise(order, premises, sufficient, removeFirst) = kept[N]
  BY DEF minimise, startOf
<1>2. N \in Nat /\ DOMAIN order = 1 .. N
  OBVIOUS
<1> HIDE DEF N, start
<1>3. \A n \in D : n # 0 => n - 1 \in D /\ n \in 1 .. N
  BY <1>2
<1>4. \A prev \in V : \A q : after(prev, q) \in V
  OBVIOUS
<1>5. Total(D, V, B)
  <2>1. \A g \in [D -> V] : \A n \in D : n # 0 => g[n - 1] \in V
    <3> HIDE DEF V, D
    <3> QED
      BY <1>3
  <2>2. start \in V
    OBVIOUS
  <2> HIDE DEF V, D, after
  <2> QED
    BY <1>4, <2>1, <2>2 DEF Total
<1>6. Local(D, V, below, B)
  <2> SUFFICES ASSUME NEW g \in [D -> V], NEW h \in [D -> V], NEW n \in D,
                      \A d \in below[n] \cap D : g[d] = h[d]
               PROVE  B[g][n] = B[h][n]
    BY DEF Local
  <2>1. n # 0 => g[n - 1] = h[n - 1]
    BY <1>3
  <2> HIDE DEF V, D, after
  <2> QED
    BY <2>1
<1>7. Founded(D, below)
  <2> SUFFICES ASSUME NEW T \in SUBSET D, T # {}
               PROVE  \E n \in T : below[n] \cap T = {}
    BY DEF Founded
  <2>1. T \in SUBSET Nat
    BY <1>2
  <2>2. PICK n \in T : \A m \in T : n <= m
    BY <2>1, LeastNumber
  <2>3. n - 1 \notin T
    BY <2>1, <2>2
  <2> QED
    BY <2>3
<1>8. PICK f \in [D -> V] : f = B[f]
  <2>1. V # {}
    OBVIOUS
  <2> HIDE DEF V, D, B, below
  <2> QED
    BY <1>5, <1>6, <1>7, <2>1, Recursion
<1>9. f = body(f)
  BY <1>8
<1> HIDE DEF body, B, below
<1>10. kept = body(kept)
  BY <1>9
<1> HIDE DEF kept
<1>11. kept[0] = start
  BY <1>2, <1>10 DEF body
<1>12. ASSUME NEW i \in D, i # 0
       PROVE  kept[i] = after(kept[i - 1], order[i])
  BY <1>10, <1>12 DEF body
\* Nothing comes back.
<1> DEFINE Bad == {j \in D : ~(/\ start \in sufficient => kept[j] \in sufficient
                               /\ \A i \in 0 .. j : kept[j] \subseteq kept[i])}
<1>13. Bad = {}
  <2> SUFFICES ASSUME Bad # {} PROVE FALSE
    OBVIOUS
  <2>1. PICK j \in Bad : \A m \in Bad : j <= m
    <3>1. Bad \in SUBSET Nat
      BY <1>2
    <3> HIDE DEF Bad
    <3> QED
      BY <3>1, LeastNumber
  <2>2. j \in D /\ j \in Nat
    BY <1>2
  <2>3. j # 0
    <3>1. \A i \in 0 .. 0 : i = 0
      OBVIOUS
    <3> SUFFICES ASSUME j = 0 PROVE FALSE
      OBVIOUS
    <3>2. start \in sufficient => kept[j] \in sufficient
      BY <1>11
    <3>3. \A i \in 0 .. j : kept[j] \subseteq kept[i]
      BY <3>1
    <3> QED
      BY <3>2, <3>3
  <2>4. PICK l \in D : l = j - 1 /\ ~(j <= l) /\ \A i \in 0 .. j : i = j \/ i \in 0 .. l
    <3>1. j - 1 \in D /\ ~(j <= j - 1) /\ \A i \in 0 .. j : i = j \/ i \in 0 .. j - 1
      BY <1>2, <2>2, <2>3
    <3> QED
      BY <3>1
  <2>5. l \notin Bad
    BY <2>1, <2>4
  <2>6. kept[j] = after(kept[l], order[j])
    BY <1>12, <2>2, <2>3, <2>4
  <2>7. kept[j] \subseteq kept[l] /\ (kept[l] \in sufficient => kept[j] \in sufficient)
    BY <2>6
  <2>8. start \in sufficient => kept[j] \in sufficient
    BY <2>5, <2>7
  <2>9. \A i \in 0 .. j : kept[j] \subseteq kept[i]
    BY <2>4, <2>5, <2>7
  <2> QED
    BY <2>8, <2>9
<1>14. /\ start \in sufficient => kept[N] \in sufficient
       /\ \A i \in D : kept[N] \subseteq kept[i] /\ kept[i] \subseteq start
  <2>1. N \in D /\ 0 \in D /\ \A i \in D : 0 \in 0 .. i
    BY <1>2
  <2>2. \A j \in D : \A i \in 0 .. j : kept[j] \subseteq kept[i]
    BY <1>13
  <2>3. start \in sufficient => kept[N] \in sufficient
    BY <1>13, <2>1
  <2> QED
    BY <1>11, <2>1, <2>2, <2>3
<1>15. ASSUME NEW q \in kept[N] \cap Range(order)
       PROVE  \E K \in SUBSET start : kept[N] \subseteq K /\ K \ {q} \notin sufficient
  <2>1. PICK i \in 1 .. N : order[i] = q
    BY <1>2 DEF Range
  <2>2. i \in D /\ i # 0 /\ i - 1 \in D
    BY <1>2, <2>1
  <2>3. PICK K : K = kept[i - 1]
    OBVIOUS
  <2>4. kept[i] = after(K, q)
    BY <1>12, <2>1, <2>2, <2>3
  <2>5. q \in kept[i]
    BY <1>14, <2>2
  <2>6. K \ {q} \notin sufficient
    BY <2>4, <2>5
  <2> QED
    BY <1>14, <2>2, <2>3, <2>6
<1>16. kept[N] \subseteq start
  BY <1>2, <1>14
<1>17. Shrunk(order, start, sufficient, kept[N])
  BY <1>14, <1>15, <1>16 DEF Shrunk
<1> QED
  BY <1>1, <1>17 DEF start

(***************************************************************************)
(* Links that say the same.                                                *)
(***************************************************************************)
keyAt(set, f, x) ==
    IF set[x].kind = "column" THEN <<"column", set[x].column>>
    ELSE IF set[x].kind = "formula" THEN f[set[x].kids[1]]
    ELSE <<set[x].kind, [k \in DOMAIN set[x].kids |-> f[set[x].kids[k]]]>>

LEMMA KeyAtLocal ==
    ASSUME NEW set, WellFormed(set), NEW x \in DOMAIN set, NEW f, NEW g,
           \A y \in partsOf(set)[x] : g[y] = f[y]
    PROVE  keyAt(set, f, x) = keyAt(set, g, x)
<1>1. \A k \in DOMAIN set[x].kids : g[set[x].kids[k]] = f[set[x].kids[k]]
  BY PartsResolve
<1>2. set[x].kind = "formula" => 1 \in DOMAIN set[x].kids
  BY PartsResolve DEF WellFormed
<1>3. [k \in DOMAIN set[x].kids |-> f[set[x].kids[k]]] = [k \in DOMAIN set[x].kids |-> g[set[x].kids[k]]]
  BY <1>1
<1> QED
  BY <1>1, <1>2, <1>3 DEF keyAt

\* The key of an expression is made of those of its parts.
LEMMA KeysAre ==
    ASSUME NEW set, WellFormed(set)
    PROVE  \E f : /\ \A x \in DOMAIN set : f[x] = keyAt(set, f, x)
                  /\ \A e : formulaKey(set, e) = f[e]
<1> DEFINE D == DOMAIN set
           Part(C, f) == /\ C \subseteq D
                         /\ \A x \in C : partsOf(set)[x] \subseteq C
                         /\ f = [x \in D |-> f[x]]
                         /\ \A x \in C : f[x] = keyAt(set, f, x)
           Left == {n \in Nat : \E C, f : Part(C, f) /\ n = Cardinality(D \ C)}
<1>0. IsFiniteSet(D) /\ Founded(D, partsOf(set))
  BY DEF WellFormed
<1>1. Cardinality(D) \in Left
  <2> DEFINE f == [x \in D |-> None]
  <2>1. Part({}, f)
    OBVIOUS
  <2>2. Cardinality(D) \in Nat /\ D \ {} = D
    BY <1>0, FS_CardinalityType
  <2> HIDE DEF Part, f, D
  <2> QED
    BY <2>1, <2>2
<1>2. PICK n \in Left : \A m \in Left : n <= m
  <2>1. Left \in SUBSET Nat /\ Left # {}
    BY <1>1
  <2> HIDE DEF Left
  <2> QED
    BY <2>1, LeastNumber
<1>3. PICK C, f : Part(C, f) /\ n = Cardinality(D \ C)
  OBVIOUS
<1>4. D \ C = {}
  <2> SUFFICES ASSUME D \ C # {} PROVE FALSE
    OBVIOUS
  <2>1. PICK e \in D \ C : partsOf(set)[e] \cap (D \ C) = {}
    BY <1>0 DEF Founded
  <2>2. partsOf(set)[e] \subseteq C
    <3>1. partsOf(set)[e] \subseteq D
      BY <2>1, PartsResolve
    <3> QED
      BY <2>1, <3>1
  <2> DEFINE g == [x \in D |-> IF x = e THEN keyAt(set, f, e) ELSE f[x]]
  <2>3. \A x \in C : g[x] = f[x]
    BY <1>3, <2>1
  <2>4. g[e] = keyAt(set, f, e) /\ g = [x \in D |-> g[x]]
    BY <2>1
  <2> HIDE DEF g
  <2>5. \A x \in C \cup {e} : \A y \in partsOf(set)[x] : g[y] = f[y]
    BY <1>3, <2>2, <2>3
  <2>6. \A x \in C \cup {e} : keyAt(set, f, x) = keyAt(set, g, x)
    <3>1. C \cup {e} \subseteq DOMAIN set
      BY <1>3, <2>1
    <3> QED
      BY <2>5, <3>1, KeyAtLocal
  <2>7. \A x \in C \cup {e} : g[x] = keyAt(set, g, x)
    BY <1>3, <2>3, <2>4, <2>6
  <2>8. Part(C \cup {e}, g)
    BY <1>3, <2>1, <2>2, <2>4, <2>7
  <2>9. /\ Cardinality(D \ (C \cup {e})) \in Nat
        /\ Cardinality(D \ (C \cup {e})) = n - 1
    <3>1. D \ (C \cup {e}) = (D \ C) \ {e} /\ e \in D \ C
      BY <2>1
    <3>2. IsFiniteSet(D \ C)
      BY <1>0, FS_Subset
    <3>3. PICK E : E = D \ C
      OBVIOUS
    <3>4. IsFiniteSet(E) /\ e \in E
      BY <3>1, <3>2, <3>3
    <3>5. IsFiniteSet(E \ {e}) /\ Cardinality(E \ {e}) = Cardinality(E) - 1
      BY <3>4, FS_RemoveElement
    <3>6. Cardinality(E \ {e}) \in Nat
      BY <3>5, FS_CardinalityType
    <3> HIDE DEF D
    <3> QED
      BY <1>3, <3>1, <3>3, <3>5, <3>6
  <2> HIDE DEF Part
  <2>10. (n - 1) \in Left
    BY <2>8, <2>9
  <2>11. n \in Nat
    OBVIOUS
  <2> HIDE DEF Left
  <2> QED
    BY <1>2, <2>10, <2>11
<1>5. C = D
  BY <1>3, <1>4
<1>6. f = [x \in D |-> keyAt(set, f, x)]
  BY <1>3, <1>5
<1> DEFINE F == CHOOSE u : u = [x \in D |-> keyAt(set, u, x)]
<1>7. F = [x \in D |-> keyAt(set, F, x)]
  <2> HIDE DEF D
  <2> QED
    BY <1>6
<1>8. \A e : formulaKey(set, e) = F[e]
  BY DEF formulaKey, keyAt
<1> HIDE DEF F
<1> QED
  BY <1>7, <1>8

\* Its leaf is the root of a link, or under the negation that is.
LEMMA LinkLeafIs ==
    ASSUME NEW r, NEW t, Joined(r, t), NEW p \in links(r)
    PROVE  /\ ~isNegated(r, p) => linkLeaf(r, p) = r.root[p]
           /\ isNegated(r, p) => /\ combine(r, t)[r.root[p]].kind = "not"
                                 /\ combine(r, t)[r.root[p]].kids[1] = linkLeaf(r, p)
<1>1. p \in sourcePremises(r) /\ linkLeaf(r, p) # None /\ kindOf(r, linkLeaf(r, p)) = "variable"
  BY DEF links, isLink
<1>2. \/ linkLeaf(r, p) = r.root[p]
      \/ kindOf(r, r.root[p]) = "not" /\ linkLeaf(r, p) = kids(r, r.root[p])[1]
  BY <1>1 DEF linkLeaf
<1>3. ~isNegated(r, p) => linkLeaf(r, p) = r.root[p]
  BY <1>2 DEF isNegated
<1>4. isNegated(r, p) => linkLeaf(r, p) = kids(r, r.root[p])[1] /\ kindOf(r, r.root[p]) = "not"
  BY <1>1, <1>2 DEF isNegated
<1>5. r.root[p] \in DOMAIN r.expr
  BY <1>1, RootsAre
<1>6. isNegated(r, p) => combine(r, t)[r.root[p]].kind = "not"
                         /\ combine(r, t)[r.root[p]].kids = kids(r, r.root[p])
  BY <1>4, <1>5, ResponsePart
<1> QED
  BY <1>3, <1>4, <1>6

LEMMA GroupIs ==
    ASSUME NEW r, NEW t, Joined(r, t), NEW p \in links(r)
    PROVE  groupOf(r, combine(r, t), p)
              = {q \in links(r) : isNegated(r, q) = isNegated(r, p)
                    /\ formulaKey(combine(r, t), linkLeaf(r, q))
                          = formulaKey(combine(r, t), linkLeaf(r, p))}
<1> DEFINE set == combine(r, t)
<1>1. WellFormed(set) /\ \A q \in links(r) : r.root[q] \in DOMAIN set
  BY JoinedWellFormed, RootsAre DEF links
<1>2. PICK f : /\ \A x \in DOMAIN set : f[x] = keyAt(set, f, x)
               /\ \A e : formulaKey(set, e) = f[e]
  <2> HIDE DEF set
  <2> QED
    BY <1>1, KeysAre
<1>3. ASSUME NEW q \in links(r), isNegated(r, q)
      PROVE  f[r.root[q]] = <<"not", [k \in {1} |-> f[linkLeaf(r, q)]]>>
  <2>1. set[r.root[q]].kind = "not" /\ set[r.root[q]].kids[1] = linkLeaf(r, q)
    BY <1>3, LinkLeafIs
  <2> HIDE DEF set
  <2>2. DOMAIN set[r.root[q]].kids = {1}
    <3>1. Len(set[r.root[q]].kids) = 1 /\ DOMAIN set[r.root[q]].kids = 1 .. Len(set[r.root[q]].kids)
      BY <1>1, <2>1, PartsResolve DEF WellFormed
    <3> QED
      BY <3>1
  <2>3. [k \in DOMAIN set[r.root[q]].kids |-> f[set[r.root[q]].kids[k]]]
            = [k \in {1} |-> f[linkLeaf(r, q)]]
    BY <2>1, <2>2
  <2>4. keyAt(set, f, r.root[q]) = <<"not", [k \in {1} |-> f[linkLeaf(r, q)]]>>
    BY <2>1, <2>3 DEF keyAt
  <2> QED
    BY <1>1, <1>2, <2>4
<1>4. ASSUME NEW q \in links(r), isNegated(r, q) = isNegated(r, p)
      PROVE  f[r.root[q]] = f[r.root[p]] <=> f[linkLeaf(r, q)] = f[linkLeaf(r, p)]
  <2>1. CASE ~isNegated(r, p)
    BY <1>4, <2>1, LinkLeafIs
  <2>2. CASE isNegated(r, p)
    <3>1. PICK a, b : a = f[linkLeaf(r, q)] /\ b = f[linkLeaf(r, p)]
      OBVIOUS
    <3>2. /\ f[r.root[q]] = <<"not", [k \in {1} |-> a]>>
          /\ f[r.root[p]] = <<"not", [k \in {1} |-> b]>>
      BY <1>3, <1>4, <2>2, <3>1
    <3>3. f[r.root[q]] = f[r.root[p]] => a = b
      <4> SUFFICES ASSUME f[r.root[q]] = f[r.root[p]] PROVE a = b
        OBVIOUS
      <4>1. \A u, v : <<"not", u>> = <<"not", v>> => u = v
        OBVIOUS
      <4>2. [k \in {1} |-> a] = [k \in {1} |-> b]
        BY <3>2, <4>1, Zenon
      <4>3. [k \in {1} |-> a][1] = [k \in {1} |-> b][1]
        BY <4>2
      <4> QED
        BY <4>3
    <3>4. a = b => f[r.root[q]] = f[r.root[p]]
      BY <3>2
    <3> QED
      BY <3>1, <3>3, <3>4
  <2> QED
    BY <2>1, <2>2
<1>5. \A q \in links(r) : isNegated(r, q) = isNegated(r, p) =>
         (formulaKey(set, r.root[q]) = formulaKey(set, r.root[p])
            <=> formulaKey(set, linkLeaf(r, q)) = formulaKey(set, linkLeaf(r, p)))
  BY <1>2, <1>4
<1> HIDE DEF set
<1> QED
  BY <1>5 DEF groupOf, set

(***************************************************************************)
(* What rests on links only.                                               *)
(***************************************************************************)
\* The search decides what the premises of a response entail.
Decided(r, t) ==
    /\ Joined(r, t)
    /\ \A ps \in SUBSET sourcePremises(r) : \A p \in sourcePremises(r) :
          entailedBy(r, combine(r, t), p, ps) <=> entails(holding(r, t), ps, p)

\* Grounded links are those the premises that are not links and the asserted
\* ones entail.
LEMMA GroundIs ==
    ASSUME NEW r, NEW t, Decided(r, t),
           NEW follows \in SUBSET sourcePremises(r), NEW asserted \in SUBSET sourcePremises(r)
    PROVE  \A p \in follows :
              p \in ground(r, combine(r, t), follows, asserted)
                 <=> entails(holding(r, t), nonLinkPremises(r) \cup asserted, p)
<1> DEFINE set == combine(r, t)
           hs == holding(r, t)
           base == nonLinkPremises(r)
           from(premises) == {p \in follows : entailedBy(r, set, p, premises)}
           V == SUBSET (asserted \cup follows)
           x0 == asserted \cup from(base)
           N == [P \in V |-> UNION {P, from(base \cup P)}]
           body(h) == [n \in Nat |-> IF n = 0 THEN x0
                                     ELSE UNION {h[n - 1], from(base \cup h[n - 1])}]
           grown == CHOOSE h : h = body(h)
<1>1. ground(r, set, follows, asserted) = grown[Cardinality(follows)]
  BY DEF ground
<1>2. x0 \in V /\ N \in [V -> V]
  OBVIOUS
<1>3. base \subseteq sourcePremises(r)
  BY DEF nonLinkPremises
<1>4. \A ps \in SUBSET sourcePremises(r) : from(ps) = {p \in follows : entails(hs, ps, p)}
  BY DEF Decided
<1> HIDE DEF from
<1>5. PICK f \in [Nat -> V] : f = [n \in Nat |-> IF n = 0 THEN x0 ELSE N[f[n - 1]]]
  <2>1. \E f \in [Nat -> V] : f = [n \in Nat |-> IF n = 0 THEN x0 ELSE N[f[n - 1]]]
    <3> HIDE DEF V, N, x0, body, grown
    <3>1. PICK VV : VV = V
      OBVIOUS
    <3>2. PICK y0 : y0 = x0
      OBVIOUS
    <3>3. PICK NN : NN = N
      OBVIOUS
    <3>4. y0 \in VV /\ NN \in [VV -> VV]
      BY <1>2, <3>1, <3>2, <3>3
    <3>5. \E f \in [Nat -> VV] : f = [n \in Nat |-> IF n = 0 THEN y0 ELSE NN[f[n - 1]]]
      BY ONLY <3>4, Iteration, Z3
    <3> QED
      BY <3>1, <3>2, <3>3, <3>5
  <2> QED
    BY <2>1
<1>6. f = body(f)
  <2>1. \A n \in Nat : n # 0 => f[n - 1] \in V
    <3> HIDE DEF V
    <3>1. \A n \in Nat : n # 0 => n - 1 \in Nat
      OBVIOUS
    <3> QED
      BY <3>1
  <2>2. \A n \in Nat : n # 0 => N[f[n - 1]] = UNION {f[n - 1], from(base \cup f[n - 1])}
    BY <2>1
  <2> HIDE DEF V, N, x0, base
  <2> QED
    BY <1>5, <2>2
<1> HIDE DEF body
<1>7. grown = body(grown)
  BY <1>6
<1> HIDE DEF grown
<1>8. grown[0] = x0
  BY <1>7 DEF body
<1>9. ASSUME NEW n \in Nat
      PROVE  grown[n + 1] = grown[n] \cup from(base \cup grown[n])
  <2>1. n + 1 \in Nat /\ n + 1 # 0 /\ (n + 1) - 1 = n
    OBVIOUS
  <2>2. grown[n + 1] = UNION {grown[n], from(base \cup grown[n])}
    BY <1>7, <2>1 DEF body
  <2> QED
    BY <2>2
\* Everything grown is entailed.
<1> DEFINE Sound(P) == P \subseteq sourcePremises(r) /\ \A q \in P : entails(hs, base \cup asserted, q)
           Bad == {n \in Nat : ~Sound(grown[n])}
<1>10. Bad = {}
  <2> SUFFICES ASSUME Bad # {} PROVE FALSE
    OBVIOUS
  <2>1. PICK n \in Bad : \A m \in Bad : n <= m
    <3>1. Bad \in SUBSET Nat
      OBVIOUS
    <3> HIDE DEF Bad
    <3> QED
      BY <3>1, LeastNumber
  <2>2. n \in Nat /\ ~Sound(grown[n])
    OBVIOUS
  <2>3. CASE n = 0
    <3>1. \A q \in from(base) : q \in follows /\ entails(hs, base, q)
      BY <1>3, <1>4
    <3>2. Sound(x0)
      BY <3>1 DEF entails
    <3> QED
      BY <1>8, <2>2, <2>3, <3>2
  <2>4. CASE n # 0
    <3>1. PICK m \in Nat : m + 1 = n /\ ~(n <= m)
      <4>1. n - 1 \in Nat /\ (n - 1) + 1 = n /\ ~(n <= n - 1)
        BY <2>2, <2>4
      <4> QED
        BY <4>1
    <3>2. Sound(grown[m])
      BY <2>1, <3>1
    <3>3. \A q \in from(base \cup grown[m]) : q \in follows /\ entails(hs, base \cup grown[m], q)
      BY <1>3, <1>4, <3>2
    <3>4. \A q \in from(base \cup grown[m]) : entails(hs, base \cup asserted, q)
      BY <3>2, <3>3 DEF entails
    <3>5. Sound(grown[n])
      BY <1>9, <3>1, <3>2, <3>3, <3>4
    <3> QED
      BY <2>2, <3>5
  <2> QED
    BY <2>3, <2>4
\* Nothing grown is lost.
<1> DEFINE Lost == {n \in Nat : n >= 1 /\ ~(grown[1] \subseteq grown[n])}
<1>11. Lost = {}
  <2> SUFFICES ASSUME Lost # {} PROVE FALSE
    OBVIOUS
  <2>1. PICK n \in Lost : \A m \in Lost : n <= m
    <3>1. Lost \in SUBSET Nat
      OBVIOUS
    <3> HIDE DEF Lost
    <3> QED
      BY <3>1, LeastNumber
  <2>2. n \in Nat /\ n >= 1 /\ ~(grown[1] \subseteq grown[n]) /\ n # 1
    OBVIOUS
  <2>3. PICK m \in Nat : m + 1 = n /\ ~(n <= m) /\ m >= 1
    <3>1. n - 1 \in Nat /\ (n - 1) + 1 = n /\ ~(n <= n - 1) /\ n - 1 >= 1
      BY <2>2
    <3> QED
      BY <3>1
  <2>4. grown[1] \subseteq grown[m]
    BY <2>1, <2>3
  <2> QED
    BY <1>9, <2>2, <2>3, <2>4
<1>12. IsFiniteSet(follows)
  <2>1. IsFiniteSet(sourcePremises(r))
    BY RootsAre DEF Decided
  <2> QED
    BY <2>1, FS_Subset
<1> SUFFICES ASSUME NEW p \in follows
             PROVE  p \in grown[Cardinality(follows)] <=> entails(hs, base \cup asserted, p)
  BY <1>1
<1>13. PICK n \in Nat : n = Cardinality(follows) /\ n >= 1
  <2>1. Cardinality(follows) \in Nat /\ Cardinality(follows) # 0
    BY <1>12, FS_CardinalityType, FS_EmptySet
  <2> QED
    BY <2>1
<1>14. p \in grown[n] => entails(hs, base \cup asserted, p)
  BY <1>10
<1>15. entails(hs, base \cup asserted, p) => p \in grown[n]
  <2> SUFFICES ASSUME entails(hs, base \cup asserted, p) PROVE p \in grown[n]
    OBVIOUS
  <2>1. asserted \subseteq grown[0] /\ grown[0] \subseteq sourcePremises(r)
    BY <1>8, <1>10
  <2>2. entails(hs, base \cup grown[0], p)
    BY <2>1 DEF entails
  <2>3. p \in from(base \cup grown[0])
    BY <1>3, <1>4, <2>1, <2>2
  <2>4. p \in grown[1]
    BY <1>9, <2>3
  <2> QED
    BY <1>11, <1>13, <2>4
<1> QED
  BY <1>13, <1>14, <1>15

(***************************************************************************)
(* The two reports.                                                        *)
(***************************************************************************)
\* What the property says of one call.
CoherenceSaid(r, t, said) ==
    LET hs == holding(r, t)
        fits == \E h \in hs : sourcePremises(r) \subseteq h
    IN  /\ said.coherent = "yes" => fits
        /\ said.coherent = "no" =>
            LET bad == said.unsatisfiable
            IN  /\ ~ \E h \in hs : bad \subseteq h
                /\ decidable(r, t) => \A q \in bad : \E h \in hs : bad \ {q} \subseteq h

LinkSaid(r, t, p, said, asserted) ==
    LET set == combine(r, t)
        hs == holding(r, t)
        all == sourcePremises(r)
        fits == \E h \in hs : all \subseteq h
        twins == {q \in links(r) : isNegated(r, q) = isNegated(r, p)
            /\ formulaKey(set, linkLeaf(r, q)) = formulaKey(set, linkLeaf(r, p))}
    IN  /\ said.status = "follows" =>
            /\ fits
            /\ said.support \subseteq all \ twins
            /\ entails(hs, said.support, p)
            /\ \A q \in said.support : ~entails(hs, said.support \ {q}, p)
            /\ entails(hs, nonLinkPremises(r), p) => said.support \cap links(r) = {}
        /\ said.status = "asserted" =>
            LET h == {q \in all : responseValues(r, t, said.counterexample)[r.root[q]] = True}
            IN  fits /\ p \notin h /\ all \ twins \subseteq h
        /\ said.status = "incoherent" => ~fits
        /\ said.status = "undetermined" =>
            Cardinality(worldOf(r, t) \ forcedTrueColumns(r)) > Ceiling
        /\ (said.status = "follows" /\ said.restsOnlyOnLinks # "absent") =>
            (said.restsOnlyOnLinks = "no"
                <=> entails(hs, nonLinkPremises(r) \cup asserted, p))

LEMMA CoherenceIs ==
    ASSUME NEW r, NEW t, Joined(r, t), Ceiling \in Nat,
           r.order \in Seq(Range(r.order)), premisesOf(r) \subseteq Range(r.order)
    PROVE  CoherenceSaid(r, t, checkResponseCoherent(r, t))
<1> DEFINE set == combine(r, t)
           forced == forcedTrueColumns(r)
           hs == holding(r, t)
           all == sourcePremises(r)
           answer == coherence(r, set)
           said == checkResponseCoherent(r, t)
           fits == \E h \in hs : all \subseteq h
<1>1. /\ answer = "no" => ~fits
      /\ answer = "yes" => fits
  <2>1. answer = search(set, forced, formulasOf(r, all)).answer
    BY DEF coherence
  <2> QED
    BY <2>1, AnswersAreRight
<1>2. said.coherent = answer
      /\ (answer = "no" =>
            said.unsatisfiable = minimise(r.order, all, clashes(r, set), {}))
  BY DEF checkResponseCoherent, coherenceReport
<1>3. ASSUME answer = "no"
      PROVE  /\ ~ \E h \in hs : said.unsatisfiable \subseteq h
             /\ decidable(r, t) =>
                   \A q \in said.unsatisfiable : \E h \in hs : said.unsatisfiable \ {q} \subseteq h
  <2> DEFINE bad == said.unsatisfiable
  <2>1. all \in clashes(r, set)
    BY <1>3 DEF clashes, coherence, impossible
  <2>2. /\ bad \subseteq all /\ bad \in clashes(r, set)
        /\ \A q \in bad : q \in Range(r.order) =>
              \E K : K \subseteq all /\ bad \subseteq K /\ K \ {q} \notin clashes(r, set)
    <3>1. all \ {} = all
      OBVIOUS
    <3>2. bad = minimise(r.order, all, clashes(r, set), {})
      BY <1>2, <1>3
    <3>3. startOf(all, clashes(r, set), {}) = all
      BY DEF startOf
    <3>4. Shrunk(r.order, all, clashes(r, set), bad)
      BY <3>2, <3>3, MinimiseIs
    <3> HIDE DEF bad, all, set
    <3> QED
      BY <2>1, <3>4 DEF Shrunk
  <2>3. impossible(set, forced, formulasOf(r, bad))
    BY <2>2 DEF clashes
  <2>4. ~ \E h \in hs : bad \subseteq h
    BY <2>2, <2>3, AnswersAreRight DEF impossible
  <2>5. ASSUME decidable(r, t), NEW q \in bad
        PROVE  \E h \in hs : bad \ {q} \subseteq h
    <3>1. q \in Range(r.order)
      BY <2>2 DEF sourcePremises
    <3>2. PICK K : K \subseteq all /\ bad \subseteq K /\ K \ {q} \notin clashes(r, set)
      BY <2>2, <3>1
    <3>3. ~impossible(set, forced, formulasOf(r, K \ {q}))
      BY <3>2 DEF clashes
    <3>4. Walked(set, forced, formulasOf(r, all))
      BY <2>5 DEF decidable, Walked
    <3>5. \E h \in hs : K \ {q} \subseteq h
      <4>1. K \ {q} \in SUBSET all
        BY <3>2
      <4> QED
        BY <3>3, <3>4, <4>1, AnswersWhenWalked
    <3> QED
      BY <3>2, <3>5
  <2> QED
    BY <2>4, <2>5
<1> HIDE DEF said, answer, set
<1> QED
  BY <1>1, <1>2, <1>3 DEF CoherenceSaid, said

\* When the premises hold together the search decides everything asked of it.
LEMMA CoherentIsDecided ==
    ASSUME NEW r, NEW t, Joined(r, t), Ceiling \in Nat, coherence(r, combine(r, t)) = "yes"
    PROVE  Decided(r, t) /\ \E h \in holding(r, t) : sourcePremises(r) \subseteq h
<1>1. search(combine(r, t), forcedTrueColumns(r), formulasOf(r, sourcePremises(r))).answer = "yes"
  BY DEF coherence
<1>2. Walked(combine(r, t), forcedTrueColumns(r), formulasOf(r, sourcePremises(r)))
  BY <1>1, SearchAnswers
<1>3. \E h \in holding(r, t) : sourcePremises(r) \subseteq h
  BY <1>1, AnswersAreRight
<1> QED
  BY <1>2, <1>3, AnswersWhenWalked DEF Decided

LEMMA SupportIs ==
    ASSUME NEW r, NEW t, Decided(r, t),
           r.order \in Seq(Range(r.order)), premisesOf(r) \subseteq Range(r.order),
           NEW p \in links(r),
           entails(holding(r, t), othersOf(r, combine(r, t), p), p)
    PROVE  LET set == combine(r, t)
               hs == holding(r, t)
               others == othersOf(r, set, p)
               support == minimise(r.order, others,
                             {ps \in SUBSET others : entailedBy(r, set, p, ps)}, links(r))
           IN  /\ support \subseteq others
               /\ entails(hs, support, p)
               /\ \A q \in support : ~entails(hs, support \ {q}, p)
               /\ entails(hs, nonLinkPremises(r), p) => support \cap links(r) = {}
<1> DEFINE set == combine(r, t)
           hs == holding(r, t)
           others == othersOf(r, set, p)
           sufficient == {ps \in SUBSET others : entailedBy(r, set, p, ps)}
           support == minimise(r.order, others, sufficient, links(r))
           start == IF others \ links(r) \in sufficient THEN others \ links(r) ELSE others
<1>1. others \ links(r) = nonLinkPremises(r) /\ others \subseteq sourcePremises(r)
      /\ p \in sourcePremises(r)
  BY DEF othersOf, nonLinkPremises, groupOf, links
<1>2. \A ps \in SUBSET others : ps \in sufficient <=> entails(hs, ps, p)
  BY <1>1 DEF Decided
<1>3. others \in sufficient
  BY <1>2
<1>4. /\ support \subseteq start
      /\ start \in sufficient => support \in sufficient
      /\ \A q \in support : q \in Range(r.order) =>
            \E K : K \subseteq start /\ support \subseteq K /\ K \ {q} \notin sufficient
  <2> HIDE DEF others, sufficient
  <2>1. Shrunk(r.order, startOf(others, sufficient, links(r)), sufficient, support)
    BY MinimiseIs
  <2>2. start = startOf(others, sufficient, links(r))
    BY DEF startOf
  <2> HIDE DEF support, start
  <2> QED
    BY <2>1, <2>2 DEF Shrunk
<1> HIDE DEF sufficient, support, others, hs
<1>5. start \in sufficient /\ start \subseteq others
  BY <1>3
<1>6. support \in sufficient /\ support \subseteq others
  BY <1>4, <1>5
<1>7. entails(hs, support, p)
  BY <1>2, <1>6
<1>8. ASSUME NEW q \in support
      PROVE  ~entails(hs, support \ {q}, p)
  <2>1. q \in Range(r.order)
    BY <1>1, <1>6 DEF sourcePremises
  <2>2. PICK K : K \subseteq start /\ support \subseteq K /\ K \ {q} \notin sufficient
    BY <1>4, <2>1
  <2>3. ~entails(hs, K \ {q}, p)
    BY <1>2, <1>5, <2>2
  <2> QED
    BY <2>2, <2>3 DEF entails
<1>9. entails(hs, nonLinkPremises(r), p) => support \cap links(r) = {}
  <2> SUFFICES ASSUME entails(hs, nonLinkPremises(r), p) PROVE support \cap links(r) = {}
    OBVIOUS
  <2>1. others \ links(r) \in sufficient
    BY <1>1, <1>2
  <2> QED
    BY <1>4, <2>1
<1> QED
  BY <1>6, <1>7, <1>8, <1>9 DEF support, sufficient, others, hs

\* How a status came about.
LEMMA StatusIs ==
    ASSUME NEW r, NEW t, Joined(r, t), NEW p \in links(r)
    PROVE  LET set == combine(r, t)
               status == statusOf(r, set, p)
               alone == coherence(r, set)
               denied == against(r, set, p).answer
           IN  /\ status = "incoherent" => alone = "no"
               /\ status = "undetermined" => alone = "unknown" \/ denied = "unknown"
               /\ status = "asserted" => alone = "yes" /\ denied = "yes"
               /\ status = "follows" =>
                    /\ alone = "yes"
                    /\ denied = "no" \/ entailedBy(r, set, p, nonLinkPremises(r))
<1>1. \A F : search(combine(r, t), forcedTrueColumns(r), F).answer \in {"yes", "no", "unknown"}
  BY SearchAnswers
<1>2. /\ coherence(r, combine(r, t)) \in {"yes", "no", "unknown"}
      /\ against(r, combine(r, t), p).answer \in {"yes", "no", "unknown"}
  BY <1>1 DEF coherence, against
<1> QED
  BY <1>2 DEF statusOf, statusFrom

LEMMA LinkIs ==
    ASSUME NEW r, NEW t, Joined(r, t), Ceiling \in Nat,
           r.order \in Seq(Range(r.order)), premisesOf(r) \subseteq Range(r.order),
           NEW p \in links(r)
    PROVE  LET said == checkLinks(r, t)
               asserted == {q \in DOMAIN said : said[q].status = "asserted"}
           IN  DOMAIN said = links(r) /\ LinkSaid(r, t, p, said[p], asserted)
<1> DEFINE set == combine(r, t)
           hs == holding(r, t)
           all == sourcePremises(r)
           others == othersOf(r, set, p)
           statuses == [q \in links(r) |-> statusOf(r, set, q)]
           follows == having("follows", statuses)
           asserted == having("asserted", statuses)
           grounded == ground(r, set, follows, asserted)
           report(q) == reportOf(r, set, q, statuses, grounded)
           said == checkLinks(r, t)
           status == statusOf(r, set, p)
           fits == \E h \in hs : all \subseteq h
           twins == {q \in links(r) : isNegated(r, q) = isNegated(r, p)
               /\ formulaKey(set, linkLeaf(r, q)) = formulaKey(set, linkLeaf(r, p))}
<1>1. said = [q \in links(r) |-> report(q)]
  BY DEF checkLinks, checkCombined, reportsFrom, reports
<1>2. \A q \in links(r) : report(q).status = statuses[q]
  BY DEF reportOf
<1>3. asserted = {q \in DOMAIN said : said[q].status = "asserted"}
  BY <1>1, <1>2 DEF having
<1>4. p \in all /\ links(r) \subseteq all
  BY DEF links
<1>5. others = all \ twins /\ others \in SUBSET all
  BY GroupIs DEF othersOf
<1>6. statuses[p] = status /\ DOMAIN statuses = links(r)
  OBVIOUS
<1>7. /\ status = "incoherent" => coherence(r, set) = "no"
      /\ status = "undetermined" => coherence(r, set) = "unknown" \/ against(r, set, p).answer = "unknown"
      /\ status = "asserted" => coherence(r, set) = "yes" /\ against(r, set, p).answer = "yes"
      /\ status = "follows" =>
           /\ coherence(r, set) = "yes"
           /\ against(r, set, p).answer = "no" \/ entailedBy(r, set, p, nonLinkPremises(r))
  BY StatusIs
<1>8. /\ coherence(r, set) = search(set, forcedTrueColumns(r), formulasOf(r, all)).answer
      /\ against(r, set, p) = search(set, forcedTrueColumns(r), denying(r, p, others))
  BY DEF coherence, against, denying
<1>a. /\ search(set, forcedTrueColumns(r), formulasOf(r, all)).answer = "no" => ~fits
      /\ LET found == search(set, forcedTrueColumns(r), denying(r, p, others))
         IN  /\ found.answer = "no" => entails(hs, others, p)
             /\ found.answer = "yes" =>
                    LET h == heldIn(r, t, found.witness) IN others \subseteq h /\ p \notin h
  <2>1. PICK P \in SUBSET sourcePremises(r) : P = others
    BY <1>5
  <2>2. /\ search(set, forcedTrueColumns(r), denying(r, p, P)).answer = "no" => entails(hs, P, p)
        /\ search(set, forcedTrueColumns(r), denying(r, p, P)).answer = "yes" =>
              LET h == heldIn(r, t, search(set, forcedTrueColumns(r), denying(r, p, P)).witness)
              IN  P \subseteq h /\ p \notin h
    BY <1>4, AnswersAreRight
  <2>3. search(set, forcedTrueColumns(r), formulasOf(r, all)).answer = "no" => ~fits
    BY AnswersAreRight
  <2> HIDE DEF others, set, hs, fits
  <2> QED
    BY <2>1, <2>2, <2>3
<1>9. coherence(r, set) = "yes" => Decided(r, t) /\ fits
  BY CoherentIsDecided
<1>10. ASSUME status = "follows"
       PROVE  LET support == minimise(r.order, others,
                      {ps \in SUBSET others : entailedBy(r, set, p, ps)}, links(r))
              IN  /\ fits
                  /\ support \subseteq others
                  /\ entails(hs, support, p)
                  /\ \A q \in support : ~entails(hs, support \ {q}, p)
                  /\ entails(hs, nonLinkPremises(r), p) => support \cap links(r) = {}
  <2>1. Decided(r, t) /\ fits
    BY <1>7, <1>9, <1>10
  <2>2. entails(hs, others, p)
    <3>1. CASE against(r, set, p).answer = "no"
      BY <1>8, <1>a, <3>1
    <3>2. CASE entailedBy(r, set, p, nonLinkPremises(r))
      <4>1. nonLinkPremises(r) \subseteq others /\ nonLinkPremises(r) \in SUBSET all
        BY DEF nonLinkPremises, othersOf, groupOf
      <4>2. entails(hs, nonLinkPremises(r), p)
        BY <1>4, <2>1, <3>2, <4>1 DEF Decided
      <4> HIDE DEF others, hs
      <4> QED
        BY <4>1, <4>2 DEF entails
    <3> QED
      BY <1>7, <1>10, <3>1, <3>2
  <2> QED
    BY <2>1, <2>2, SupportIs
<1>11. ASSUME status = "follows"
       PROVE  p \in grounded <=> entails(hs, nonLinkPremises(r) \cup asserted, p)
  <2>1. Decided(r, t)
    BY <1>7, <1>9, <1>11
  <2>2. follows \in SUBSET all /\ asserted \in SUBSET all /\ p \in follows
    BY <1>4, <1>6, <1>11 DEF having
  <2> HIDE DEF follows, asserted, set, hs
  <2> QED
    BY <2>1, <2>2, GroundIs DEF set, hs
<1>12. ASSUME status = "asserted"
       PROVE  LET h == {q \in all : responseValues(r, t, against(r, set, p).witness)[r.root[q]] = True}
              IN  fits /\ p \notin h /\ others \subseteq h
  <2>1. against(r, set, p).answer = "yes" /\ fits
    BY <1>7, <1>9, <1>12
  <2>2. LET h == heldIn(r, t, against(r, set, p).witness)
        IN  others \subseteq h /\ p \notin h
    BY <1>8, <1>a, <2>1
  <2> QED
    BY <2>1, <2>2, HeldIs
<1>13. ASSUME status = "incoherent"
       PROVE  ~fits
  <2>1. coherence(r, set) = "no"
    BY <1>7, <1>13
  <2> QED
    BY <1>8, <1>a, <2>1
<1>14. ASSUME status = "undetermined"
       PROVE  Cardinality(worldOf(r, t) \ forcedTrueColumns(r)) > Ceiling
  <2>1. Formulas(set, formulasOf(r, all)) /\ Formulas(set, denying(r, p, others))
    BY <1>4, <1>5, FormulasAre
  <2>2. CASE coherence(r, set) = "unknown"
    BY <1>8, <2>1, <2>2, OpenIsLarge
  <2>3. CASE against(r, set, p).answer = "unknown"
    BY <1>8, <2>1, <2>3, OpenIsLarge
  <2> QED
    BY <1>7, <1>14, <2>2, <2>3
<1>15. /\ said[p].status = status
       /\ status = "follows" =>
            /\ said[p].support = minimise(r.order, others,
                  {ps \in SUBSET others : entailedBy(r, set, p, ps)}, links(r))
            /\ said[p].restsOnlyOnLinks = restsOnlyOnLinks(p, statuses, grounded)
       /\ status = "asserted" => said[p].counterexample = against(r, set, p).witness
  <2>1. said[p] = reportOf(r, set, p, statuses, grounded)
    BY <1>1
  <2> HIDE DEF said, statuses, grounded, set
  <2> QED
    BY <1>6, <2>1 DEF reportOf, others
<1>16. said[p].restsOnlyOnLinks # "absent" /\ status = "follows" =>
          (said[p].restsOnlyOnLinks = "no" <=> p \in grounded)
  BY <1>15 DEF restsOnlyOnLinks
<1>17. DOMAIN said = links(r)
  BY <1>1
<1> HIDE DEF said, set, hs, others, statuses, follows, asserted, grounded, status, twins, fits, all
<1>18. LinkSaid(r, t, p, said[p], asserted)
  <2>1. ASSUME status = "follows"
        PROVE  /\ fits
               /\ said[p].support \subseteq all \ twins
               /\ entails(hs, said[p].support, p)
               /\ \A q \in said[p].support : ~entails(hs, said[p].support \ {q}, p)
               /\ entails(hs, nonLinkPremises(r), p) => said[p].support \cap links(r) = {}
    BY <1>5, <1>10, <1>15, <2>1
  <2>2. ASSUME status = "asserted"
        PROVE  LET h == {q \in all : responseValues(r, t, said[p].counterexample)[r.root[q]] = True}
               IN  fits /\ p \notin h /\ all \ twins \subseteq h
    BY <1>5, <1>12, <1>15, <2>2
  <2>3. (status = "follows" /\ said[p].restsOnlyOnLinks # "absent") =>
            (said[p].restsOnlyOnLinks = "no" <=> entails(hs, nonLinkPremises(r) \cup asserted, p))
    BY <1>11, <1>16
  <2> QED
    BY <1>13, <1>14, <1>15, <2>1, <2>2, <2>3 DEF LinkSaid, fits, all, hs, set, twins
<1> QED
  BY <1>3, <1>17, <1>18 DEF said

\* Whatever the response and the version it is checked against, what the check
\* reports is what its premises entail, as long as evaluation accepts them.
\* (core/response/check.ts)
THEOREM CheckIsEntailed == Spec => []CheckIsEntailment
<1>1. Init => CheckIsEntailment
  BY DEF Init, CheckIsEntailment
<1>2. ASSUME ResponseInv, CheckIsEntailment, [Next]_rvars
      PROVE  CheckIsEntailment'
  <2>1. CASE classify \/ rebaseResponse \/ carry
    <3>1. last'.call # "check"
      BY <2>1 DEF classify, rebaseResponse, refuse, carry, carryReport
    <3> QED
      BY <3>1 DEF CheckIsEntailment
  <2>2. CASE check
    <3>1. PICK t \in scenario.versions :
            /\ last' = IF problems(t) # {} THEN [call |-> "check", invalid |-> TRUE]
                       ELSE [call |-> "check", invalid |-> FALSE, against |-> t.version,
                             links |-> checkLinks(response, t),
                             coherence |-> checkResponseCoherent(response, t)]
            /\ UNCHANGED <<scenario, response>>
      BY <2>2 DEF check
    <3>2. CASE problems(t) # {}
      <4>1. last'.invalid
        BY <3>1, <3>2
      <4> QED
        BY <4>1 DEF CheckIsEntailment
    <3>3. CASE ~Answerable(response)
      <4>1. ~Answerable(response)'
        BY <3>1, <3>3
      <4> QED
        BY <4>1 DEF CheckIsEntailment
    <3>4. CASE problems(t) = {} /\ Answerable(response)
      <4>1. scenario \in Scenarios /\ Loaded(response)
            /\ DOMAIN response.expr \subseteq DOMAIN scenario.response.expr
        BY <1>2 DEF ResponseInv
      <4>2. Joined(response, t)
        <5>1. Answerable(t) /\ DOMAIN scenario.response.expr \cap DOMAIN t.expr = {}
          BY <4>1, ResponseAssumption
        <5>2. linkFaultKeys(response, t) = {}
          BY <3>4 DEF problems
        <5> QED
          BY <3>4, <4>1, <5>1, <5>2 DEF Joined
      <4>3. Ceiling \in Nat /\ response.order \in Seq(Range(response.order))
            /\ premisesOf(response) \subseteq Range(response.order)
        BY <4>1, ResponseAssumption DEF Loaded
      <4>4. PICK said, coherent : said = checkLinks(response, t)
                                  /\ coherent = checkResponseCoherent(response, t)
        OBVIOUS
      <4>5. PICK asserted : asserted = {q \in DOMAIN said : said[q].status = "asserted"}
        OBVIOUS
      <4>6. CoherenceSaid(response, t, coherent)
        BY <4>2, <4>3, <4>4, CoherenceIs
      <4>7. \A p \in DOMAIN said : LinkSaid(response, t, p, said[p], asserted)
        <5>1. ASSUME NEW p \in links(response)
              PROVE  LinkSaid(response, t, p, said[p], asserted)
          <6>1. LET verdicts == checkLinks(response, t)
                    those == {q \in DOMAIN verdicts : verdicts[q].status = "asserted"}
                IN  DOMAIN verdicts = links(response) /\ LinkSaid(response, t, p, verdicts[p], those)
            BY <4>2, <4>3, LinkIs
          <6> QED
            BY <4>4, <4>5, <6>1
        <5>2. DOMAIN said = links(response)
          BY <4>4 DEF checkLinks, checkCombined, reportsFrom, reports
        <5> QED
          BY <5>1, <5>2
      <4>8. last'.against = t.version /\ last'.links = said /\ last'.coherence = coherent
        BY <3>1, <3>4, <4>4
      <4>9. (CHOOSE u \in scenario.versions : u.version = t.version) = t
        BY <4>1, ResponseAssumption
      <4>10. versionNamed(last.against)' = t
        BY <3>1, <4>8, <4>9 DEF versionNamed
      <4>11. /\ CoherenceSaid(response', versionNamed(last.against)', last'.coherence)
             /\ \A p \in DOMAIN last'.links :
                   LinkSaid(response', versionNamed(last.against)', p, last'.links[p],
                            {q \in DOMAIN last'.links : last'.links[q].status = "asserted"})
        BY <3>1, <4>5, <4>6, <4>7, <4>8, <4>10
      <4> QED
        BY <4>11 DEF CheckIsEntailment, CoherenceSaid, LinkSaid
    <3> QED
      BY <3>2, <3>3, <3>4
  <2>3. CASE UNCHANGED rvars
    <3>1. response' = response /\ scenario' = scenario /\ last' = last
      BY <2>3 DEF rvars
    <3>2. (last.call = "check" /\ ~last.invalid /\ Answerable(response)) =>
            /\ CoherenceSaid(response, versionNamed(last.against), last.coherence)
            /\ \A p \in DOMAIN last.links :
                  LinkSaid(response, versionNamed(last.against), p, last.links[p],
                           {q \in DOMAIN last.links : last.links[q].status = "asserted"})
      BY <1>2 DEF CheckIsEntailment, CoherenceSaid, LinkSaid
    <3>3. versionNamed(last.against)' = versionNamed(last.against)
      BY <3>1 DEF versionNamed
    <3>4. (last'.call = "check" /\ ~last'.invalid /\ Answerable(response')) =>
            /\ CoherenceSaid(response', versionNamed(last.against)', last'.coherence)
            /\ \A p \in DOMAIN last'.links :
                  LinkSaid(response', versionNamed(last.against)', p, last'.links[p],
                           {q \in DOMAIN last'.links : last'.links[q].status = "asserted"})
      BY <3>1, <3>2, <3>3
    <3> QED
      BY <3>4 DEF CheckIsEntailment, CoherenceSaid, LinkSaid
  <2> QED
    BY <1>2, <2>1, <2>2, <2>3 DEF Next
<1> QED
  BY <1>1, <1>2, ResponseInvariant, PTL DEF Spec
=============================================================================
