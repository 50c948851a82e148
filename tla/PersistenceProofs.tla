--------------------------- MODULE PersistenceProofs --------------------------
(***************************************************************************)
(* Proofs about changesets and the store they are run against (Changeset,  *)
(* Persistence), for any ids, any arguments to start from and any calls    *)
(* composed before a commit.                                               *)
(***************************************************************************)
EXTENDS Persistence, FiniteSetTheorems, SequenceTheorems, WellFoundedInduction, TLAPS

(***************************************************************************)
(* Orders of a finite set.                                                 *)
(***************************************************************************)
Lower == {ss \in Nat \X Nat : ss[1] < ss[2]}

\* A nonempty set of numbers has a least one.
LEMMA LeastNumber ==
    ASSUME NEW S \in SUBSET Nat, S # {}
    PROVE  \E n \in S : \A m \in S : n <= m
<1>1. IsWellFoundedOn(Lower, Nat)
  BY NatLessThanWellFounded DEF OpToRel, Lower
<1>2. PICK x \in S : \A y \in S : ~(<<y, x>> \in Lower)
  BY <1>1, WFMin
<1>3. \A y \in S : y < x => <<y, x>> \in Lower
  BY DEF Lower
<1>4. \A y \in S : ~(y < x)
  BY <1>2, <1>3
<1> QED
  BY <1>4

\* A sequence with each element of a set once.
Enumerates(s, S) ==
    /\ s \in [1 .. Cardinality(S) -> S]
    /\ \A j, k \in 1 .. Cardinality(S) : s[j] = s[k] => j = k
    /\ \A x \in S : \E k \in 1 .. Cardinality(S) : s[k] = x

LEMMA SomeOrder ==
    ASSUME NEW S, IsFiniteSet(S)
    PROVE  Enumerates(SetToSeq(S), S)
<1> DEFINE n == Cardinality(S)
<1>1. n \in Nat /\ IsFiniteSet(1 .. n) /\ Cardinality(1 .. n) = Cardinality(S)
  <2>1. n \in Nat
    BY FS_CardinalityType
  <2> HIDE DEF n
  <2>2. IsFiniteSet(1 .. n) /\ Cardinality(1 .. n) = n
    BY <2>1, FS_Interval
  <2> QED
    BY <2>1, <2>2 DEF n
<1>2. PICK f \in Bijection(1 .. n, S) : TRUE
  BY FS_CardinalityType DEF ExistsBijection
<1>3. f \in [1 .. n -> S] /\ IsInjective(f)
  BY <1>2 DEF Bijection, Injection
<1>4. SetToSeq(S) \in [1 .. n -> S] /\ IsInjective(SetToSeq(S))
  BY <1>3 DEF SetToSeq
<1>5. SetToSeq(S) \in Injection(1 .. n, S)
  BY <1>4 DEF Injection
<1>6. SetToSeq(S) \in Surjection(1 .. n, S)
  BY <1>1, <1>5, FS_Injection
<1> QED
  BY <1>4, <1>6 DEF Enumerates, Surjection, IsInjective

\* A part of S in an order in which what is above an element comes before it.
PartlySorted(s, n, par, S) ==
    /\ s \in [1 .. n -> S]
    /\ \A j, k \in 1 .. n : s[j] = s[k] => j = k
    /\ \A k \in 1 .. n : par[s[k]] \in S => \E j \in 1 .. n : j < k /\ s[j] = par[s[k]]

LEMMA SortedFurther ==
    ASSUME NEW S, NEW par, NEW n \in Nat, NEW s, PartlySorted(s, n, par, S),
           NEW e \in S, \A k \in 1 .. n : s[k] # e,
           par[e] \in S => \E j \in 1 .. n : s[j] = par[e]
    PROVE  \E t : PartlySorted(t, n + 1, par, S)
<1> DEFINE t == [k \in 1 .. n + 1 |-> IF k = n + 1 THEN e ELSE s[k]]
<1>1. \A k \in 1 .. n + 1 : k \in 1 .. n \/ k = n + 1
  OBVIOUS
<1>2. \A k \in 1 .. n : k \in 1 .. n + 1 /\ k < n + 1 /\ t[k] = s[k]
  OBVIOUS
<1>3. t[n + 1] = e
  OBVIOUS
<1>4. t \in [1 .. n + 1 -> S]
  BY <1>1 DEF PartlySorted
<1> HIDE DEF t
<1>5. \A j, k \in 1 .. n + 1 : t[j] = t[k] => j = k
  BY <1>1, <1>2, <1>3 DEF PartlySorted
<1>6. ASSUME NEW k \in 1 .. n + 1, par[t[k]] \in S
      PROVE  \E j \in 1 .. n + 1 : j < k /\ t[j] = par[t[k]]
  BY <1>1, <1>2, <1>3, <1>6 DEF PartlySorted
<1> QED
  BY <1>4, <1>5, <1>6 DEF PartlySorted

LEMMA SortedSoFar ==
    ASSUME NEW S, IsFiniteSet(S), NEW par,
           \A T \in SUBSET S : T # {} => \E e \in T : par[e] \notin T
    PROVE  \A n \in 0 .. Cardinality(S) : \E s : PartlySorted(s, n, par, S)
<1> DEFINE C == Cardinality(S)
           Bad == {n \in 0 .. C : ~ \E s : PartlySorted(s, n, par, S)}
<1> SUFFICES ASSUME Bad # {} PROVE FALSE
  OBVIOUS
<1>1. C \in Nat
  BY FS_CardinalityType
<1>2. PICK n \in Bad : \A m \in Bad : n <= m
  <2>1. Bad \in SUBSET Nat
    BY <1>1
  <2> HIDE DEF Bad
  <2> QED
    BY <2>1, LeastNumber
<1>3. n # 0
  <2>1. PartlySorted([k \in 1 .. 0 |-> k], 0, par, S)
    BY DEF PartlySorted
  <2> QED
    BY <2>1
<1>4. PICK l \in Nat : n = l + 1 /\ l \in 0 .. C /\ l < C
  <2>1. n - 1 \in Nat /\ n = (n - 1) + 1 /\ n - 1 \in 0 .. C /\ n - 1 < C
    BY <1>1, <1>3
  <2> QED
    BY <2>1
<1>5. PICK s : PartlySorted(s, l, par, S)
  BY <1>2, <1>4
<1> DEFINE T == {e \in S : \A k \in 1 .. l : s[k] # e}
<1>6. T # {}
  <2> SUFFICES ASSUME T = {} PROVE FALSE
    OBVIOUS
  <2>1. s \in Surjection(1 .. l, S)
    BY <1>5 DEF Surjection, PartlySorted
  <2>2. IsFiniteSet(1 .. l) /\ Cardinality(1 .. l) = l
    BY <1>4, FS_Interval
  <2>3. C <= l
    BY <2>1, <2>2, FS_Surjection
  <2> QED
    BY <1>1, <1>4, <2>3
<1>7. PICK e \in T : par[e] \notin T
  BY <1>6
<1>8. \E t : PartlySorted(t, l + 1, par, S)
  BY <1>5, <1>7, SortedFurther
<1> QED
  BY <1>2, <1>4, <1>8

\* The code's sort finds an order, which it would not on a cycle.
LEMMA ParentsFirst ==
    ASSUME NEW changes, NEW S, IsFiniteSet(S),
           \A T \in SUBSET S : T # {} => \E e \in T : changes[e].row.parent \notin T
    PROVE  /\ Enumerates(topologicalSortExpressions(changes, S), S)
           /\ \A j, k \in 1 .. Cardinality(S) :
                 changes[topologicalSortExpressions(changes, S)[k]].row.parent
                    = topologicalSortExpressions(changes, S)[j] => j < k
<1> DEFINE n == Cardinality(S)
           par == [e \in S |-> changes[e].row.parent]
           order(s) == \A j, k \in DOMAIN s : changes[s[k]].row.parent = s[j] => j < k
<1>1. n \in Nat /\ n \in 0 .. n /\ IsFiniteSet(1 .. n) /\ Cardinality(1 .. n) = Cardinality(S)
  <2>1. n \in Nat
    BY FS_CardinalityType
  <2> HIDE DEF n
  <2>2. IsFiniteSet(1 .. n) /\ Cardinality(1 .. n) = n /\ n \in 0 .. n
    BY <2>1, FS_Interval
  <2> QED
    BY <2>1, <2>2 DEF n
<1>2. \A T \in SUBSET S : T # {} => \E e \in T : par[e] \notin T
  OBVIOUS
<1>3. PICK s : PartlySorted(s, n, par, S)
  <2> HIDE DEF par
  <2> QED
    BY <1>1, <1>2, SortedSoFar
<1>4. s \in SetToSeqs(S)
  BY <1>3 DEF PartlySorted, SetToSeqs
<1>5. order(s)
  <2> SUFFICES ASSUME NEW j \in 1 .. n, NEW k \in 1 .. n, changes[s[k]].row.parent = s[j]
               PROVE  j < k
    BY <1>3 DEF PartlySorted
  <2>1. s[k] \in S /\ s[j] \in S /\ par[s[k]] = s[j]
    BY <1>3 DEF PartlySorted
  <2> HIDE DEF par
  <2>2. PICK i \in 1 .. n : i < k /\ s[i] = s[j]
    BY <1>3, <2>1 DEF PartlySorted
  <2>3. i = j
    BY <1>3, <2>2 DEF PartlySorted
  <2> QED
    BY <2>2, <2>3
<1> DEFINE t == topologicalSortExpressions(changes, S)
<1>6. t \in SetToSeqs(S) /\ order(t)
  BY <1>4, <1>5 DEF topologicalSortExpressions
<1>7. t \in [1 .. n -> S] /\ \A i, j \in 1 .. n : t[i] = t[j] => i = j
  BY <1>6 DEF SetToSeqs
<1>8. t \in Injection(1 .. n, S)
  BY <1>7 DEF Injection, IsInjective
<1>9. t \in Surjection(1 .. n, S)
  BY <1>1, <1>8, FS_Injection
<1> QED
  BY <1>6, <1>7, <1>9 DEF Enumerates, Surjection

LEMMA Reversed ==
    ASSUME NEW S, IsFiniteSet(S), NEW s, Enumerates(s, S)
    PROVE  Enumerates(Reverse(s), S)
<1> DEFINE n == Cardinality(S)
<1>1. n \in Nat
  BY FS_CardinalityType
<1>2. s \in Seq(S) /\ Len(s) = n
  BY <1>1 DEF Enumerates
<1>3. Reverse(s) = [k \in 1 .. n |-> s[(n - k) + 1]]
  BY <1>2 DEF Reverse
<1>4. \A k \in 1 .. n : (n - k) + 1 \in 1 .. n /\ (n - ((n - k) + 1)) + 1 = k
  BY <1>1
<1> HIDE DEF n
<1>5. s \in [1 .. n -> S] /\ \A j, k \in 1 .. n : s[j] = s[k] => j = k
  BY DEF Enumerates, n
<1>6. Reverse(s) \in [1 .. n -> S]
  BY <1>3, <1>4, <1>5
<1>7. ASSUME NEW j \in 1 .. n, NEW k \in 1 .. n, Reverse(s)[j] = Reverse(s)[k]
      PROVE  j = k
  <2>1. (n - j) + 1 = (n - k) + 1
    BY <1>3, <1>4, <1>5, <1>7
  <2> QED
    BY <1>1, <2>1
<1>8. ASSUME NEW x \in S
      PROVE  \E k \in 1 .. n : Reverse(s)[k] = x
  <2>1. PICK k \in 1 .. n : s[k] = x
    BY DEF Enumerates, n
  <2>2. Reverse(s)[(n - k) + 1] = x
    BY <1>3, <1>4, <2>1
  <2> QED
    BY <1>4, <2>2
<1> QED
  BY <1>6, <1>7, <1>8 DEF Enumerates, n

(***************************************************************************)
(* Statements run against a store.                                         *)
(***************************************************************************)
accepts(rows, s) ==
    /\ s.type \in {"insert", "update", "delete"}
    /\ s.type = "insert" <=> s.id \notin DOMAIN rows

\* The statements of w bring a store from the rows a to the rows b; each is
\* accepted and leaves every reference to a row that is there.
Brings(a, w, b) ==
    /\ \E S : w \in Seq(S)
    /\ \E st :
          /\ st[0] = a /\ st[Len(w)] = b
          /\ \A k \in 0 .. Len(w) : closed(st[k])
          /\ \A k \in 1 .. Len(w) :
                accepts(st[k - 1], w[k]) /\ st[k] = execute(st[k - 1], w[k])

LEMMA NothingBrings ==
    ASSUME NEW a, closed(a)
    PROVE  Brings(a, << >>, a)
<1> DEFINE st == [k \in 0 .. 0 |-> a]
<1>1. << >> \in Seq({}) /\ Len(<< >>) = 0
  OBVIOUS
<1>2. st[0] = a /\ \A k \in 0 .. 0 : closed(st[k])
  OBVIOUS
<1> HIDE DEF st
<1> QED
  BY <1>1, <1>2 DEF Brings

LEMMA BroughtByNothing ==
    ASSUME NEW a, NEW b, Brings(a, << >>, b)
    PROVE  a = b /\ closed(a)
BY DEF Brings

LEMMA FirstStatement ==
    ASSUME NEW a, NEW w, NEW b, Brings(a, w, b)
    PROVE  /\ closed(a)
           /\ w # << >> => /\ accepts(a, Head(w))
                           /\ Brings(execute(a, Head(w)), Tail(w), b)
<1>1. PICK S : w \in Seq(S)
  BY DEF Brings
<1>2. PICK st :
          /\ st[0] = a /\ st[Len(w)] = b
          /\ \A k \in 0 .. Len(w) : closed(st[k])
          /\ \A k \in 1 .. Len(w) :
                accepts(st[k - 1], w[k]) /\ st[k] = execute(st[k - 1], w[k])
  BY DEF Brings
<1>3. Len(w) \in Nat
  BY <1>1
<1>4. closed(a)
  <2>1. 0 \in 0 .. Len(w)
    BY <1>3
  <2> QED
    BY <1>2, <2>1
<1>5. ASSUME w # << >>
      PROVE  accepts(a, Head(w)) /\ Brings(execute(a, Head(w)), Tail(w), b)
  <2>1. Tail(w) \in Seq(S) /\ Len(Tail(w)) = Len(w) - 1 /\ Len(w) # 0
        /\ \A k \in 1 .. Len(w) - 1 : Tail(w)[k] = w[k + 1]
    BY <1>1, <1>5
  <2>2. PICK l \in Nat : l = Len(w) - 1
    <3>1. Len(w) - 1 \in Nat
      BY <1>3, <2>1
    <3> QED
      BY <3>1
  <2> DEFINE h == [k \in 0 .. l |-> st[k + 1]]
  <2>3. \A k \in 0 .. l : h[k] = st[k + 1] /\ k + 1 \in 0 .. Len(w) /\ k + 1 \in 1 .. Len(w)
    BY <1>3, <2>1, <2>2
  <2> HIDE DEF h
  <2>4. accepts(a, w[1]) /\ st[1] = execute(a, w[1])
    <3>1. 1 \in 1 .. Len(w) /\ 1 - 1 = 0
      BY <1>3, <2>1
    <3> QED
      BY <1>2, <3>1
  <2>5. h[0] = execute(a, w[1]) /\ h[l] = b
    <3>1. 0 \in 0 .. l /\ l \in 0 .. l /\ 0 + 1 = 1 /\ l + 1 = Len(w)
      BY <1>3, <2>1, <2>2
    <3>2. h[0] = st[1] /\ h[l] = st[Len(w)]
      BY <2>3, <3>1
    <3> QED
      BY <1>2, <2>4, <3>2
  <2>6. ASSUME NEW k \in 1 .. l
        PROVE  accepts(h[k - 1], Tail(w)[k]) /\ h[k] = execute(h[k - 1], Tail(w)[k])
    <3>1. k - 1 \in 0 .. l /\ k \in 0 .. l /\ (k - 1) + 1 = k /\ (k + 1) - 1 = k
      BY <2>2
    <3>2. h[k - 1] = st[k] /\ h[k] = st[k + 1] /\ k + 1 \in 1 .. Len(w) /\ Tail(w)[k] = w[k + 1]
      BY <2>1, <2>2, <2>3, <3>1
    <3>3. accepts(st[(k + 1) - 1], w[k + 1]) /\ st[k + 1] = execute(st[(k + 1) - 1], w[k + 1])
      BY <1>2, <3>2
    <3> QED
      BY <3>1, <3>2, <3>3
  <2>7. Brings(execute(a, w[1]), Tail(w), b)
    <3>1. \A k \in 0 .. l : closed(h[k])
      BY <1>2, <2>3
    <3> QED
      BY <2>1, <2>2, <2>5, <2>6, <3>1 DEF Brings
  <2> QED
    BY <1>1, <1>5, <2>4, <2>7
<1> QED
  BY <1>4, <1>5

LEMMA BringsOn ==
    ASSUME NEW a, NEW v, NEW b, NEW w, NEW c, Brings(a, v, b), Brings(b, w, c)
    PROVE  Brings(a, v \o w, c)
<1>1. PICK V : v \in Seq(V)
  BY DEF Brings
<1>2. PICK W : w \in Seq(W)
  BY DEF Brings
<1>3. PICK f :
          /\ f[0] = a /\ f[Len(v)] = b
          /\ \A k \in 0 .. Len(v) : closed(f[k])
          /\ \A k \in 1 .. Len(v) :
                accepts(f[k - 1], v[k]) /\ f[k] = execute(f[k - 1], v[k])
  BY DEF Brings
<1>4. PICK g :
          /\ g[0] = b /\ g[Len(w)] = c
          /\ \A k \in 0 .. Len(w) : closed(g[k])
          /\ \A k \in 1 .. Len(w) :
                accepts(g[k - 1], w[k]) /\ g[k] = execute(g[k - 1], w[k])
  BY DEF Brings
<1>5. PICK m \in Nat : m = Len(v)
  BY <1>1
<1>6. PICK n \in Nat : n = Len(w)
  BY <1>2
<1>7. v \in Seq(V \cup W) /\ w \in Seq(V \cup W)
  BY <1>1, <1>2
<1>8. /\ v \o w \in Seq(V \cup W) /\ Len(v \o w) = m + n
      /\ \A k \in 1 .. m + n : (v \o w)[k] = IF k <= m THEN v[k] ELSE w[k - m]
  BY <1>5, <1>6, <1>7, ConcatProperties
<1> DEFINE h == [k \in 0 .. m + n |-> IF k <= m THEN f[k] ELSE g[k - m]]
<1>9. /\ \A k \in 0 .. m : h[k] = f[k]
      /\ \A k \in 0 .. m + n : k >= m => h[k] = g[k - m] /\ k - m \in 0 .. n
  <2>1. \A k \in 0 .. m + n : k >= m => k - m \in 0 .. n /\ (k = m => k - m = 0)
    BY <1>5, <1>6
  <2>2. f[m] = g[0]
    BY <1>3, <1>4, <1>5
  <2>3. \A k \in 0 .. m : k \in 0 .. m + n /\ k <= m
    BY <1>5, <1>6
  <2>4. \A k \in 0 .. m + n : k >= m => k = m \/ ~(k <= m)
    BY <1>5, <1>6
  <2> QED
    BY <2>1, <2>2, <2>3, <2>4
<1> HIDE DEF h
<1>10. h[0] = a /\ h[m + n] = c
  <2>1. 0 \in 0 .. m /\ m + n \in 0 .. m + n /\ m + n >= m /\ (m + n) - m = n
    BY <1>5, <1>6
  <2> QED
    BY <1>3, <1>4, <1>6, <1>9, <2>1
<1>11. \A k \in 0 .. m + n : closed(h[k])
  <2>1. \A k \in 0 .. m + n : k \in 0 .. m \/ k >= m
    BY <1>5, <1>6
  <2> QED
    BY <1>3, <1>4, <1>5, <1>6, <1>9, <2>1
<1>12. ASSUME NEW k \in 1 .. m + n
       PROVE  accepts(h[k - 1], (v \o w)[k]) /\ h[k] = execute(h[k - 1], (v \o w)[k])
  <2>1. CASE k <= m
    <3>1. k \in 1 .. m /\ k - 1 \in 0 .. m /\ k \in 0 .. m
      BY <1>5, <1>6, <2>1
    <3>2. (v \o w)[k] = v[k] /\ h[k] = f[k] /\ h[k - 1] = f[k - 1]
      BY <1>8, <1>9, <2>1, <3>1
    <3> QED
      BY <1>3, <1>5, <3>1, <3>2
  <2>2. CASE ~(k <= m)
    <3>1. PICK l \in 1 .. n : l = k - m
      <4>1. k - m \in 1 .. n
        BY <1>5, <1>6, <2>2
      <4> QED
        BY <4>1
    <3>2. k \in 0 .. m + n /\ k - 1 \in 0 .. m + n /\ k >= m /\ k - 1 >= m /\ (k - 1) - m = l - 1
      BY <1>5, <1>6, <2>2, <3>1
    <3>3. (v \o w)[k] = w[l] /\ h[k] = g[l] /\ h[k - 1] = g[l - 1]
      BY <1>8, <1>9, <2>2, <3>1, <3>2
    <3> QED
      BY <1>4, <1>6, <3>1, <3>3
  <2> QED
    BY <2>1, <2>2
<1> QED
  BY <1>8, <1>10, <1>11, <1>12 DEF Brings

(***************************************************************************)
(* One phase: statements with different ids, each for its own row.         *)
(***************************************************************************)
\* The rows of a, those of the ids done as in b.
Mixed(a, b, done) ==
    [id \in (DOMAIN a \ done) \cup (DOMAIN b \cap done) |-> IF id \in done THEN b[id] ELSE a[id]]

isMap(a) == a = [id \in DOMAIN a |-> a[id]]

\* The same rows but those of D.
SameBut(a, b, D) ==
    /\ isMap(a) /\ isMap(b)
    /\ DOMAIN a \ D = DOMAIN b \ D
    /\ \A id \in DOMAIN a \ D : a[id] = b[id]

\* The statement makes the row of its id, as in a, the one in b.
Makes(a, b, s) ==
    \/ s.type = "insert" /\ s.id \in DOMAIN b \ DOMAIN a /\ b[s.id] = s.data
    \/ s.type = "update" /\ s.id \in DOMAIN a \cap DOMAIN b /\ b[s.id] = written(s.data, a[s.id])
    \/ s.type = "delete" /\ s.id \in DOMAIN a \ DOMAIN b

LEMMA MixedStep ==
    ASSUME NEW a, NEW b, NEW done, NEW x, x \notin done, NEW s, s.id = x, Makes(a, b, s)
    PROVE  /\ accepts(Mixed(a, b, done), s)
           /\ Mixed(a, b, done \cup {x}) = execute(Mixed(a, b, done), s)
<1> DEFINE m == Mixed(a, b, done)
           n == Mixed(a, b, done \cup {x})
<1>1. /\ m = [id \in (DOMAIN a \ done) \cup (DOMAIN b \cap done) |->
                 IF id \in done THEN b[id] ELSE a[id]]
      /\ n = [id \in (DOMAIN a \ (done \cup {x})) \cup (DOMAIN b \cap (done \cup {x})) |->
                 IF id \in done \cup {x} THEN b[id] ELSE a[id]]
  BY DEF Mixed
<1> HIDE DEF m, n
<1>2. CASE s.type = "insert"
  <2>1. x \in DOMAIN b \ DOMAIN a /\ b[x] = s.data
    BY <1>2 DEF Makes
  <2>2. accepts(m, s)
    BY <1>1, <1>2, <2>1 DEF accepts
  <2>3. execute(m, s) = [id \in DOMAIN m \cup {x} |-> IF id = x THEN s.data ELSE m[id]]
    BY <1>2 DEF execute
  <2>4. n = [id \in DOMAIN m \cup {x} |-> IF id = x THEN s.data ELSE m[id]]
    BY <1>1, <2>1
  <2> QED
    BY <2>2, <2>3, <2>4 DEF m, n
<1>3. CASE s.type = "update"
  <2>1. x \in DOMAIN a \cap DOMAIN b /\ b[x] = written(s.data, a[x])
    BY <1>3 DEF Makes
  <2>2. x \in DOMAIN m /\ m[x] = a[x]
    BY <1>1, <2>1
  <2>3. accepts(m, s)
    BY <1>3, <2>2 DEF accepts
  <2>4. execute(m, s) = [m EXCEPT ![x] = written(s.data, @)]
    BY <1>3 DEF execute
  <2>5. n = [m EXCEPT ![x] = b[x]]
    BY <1>1, <2>1
  <2> QED
    BY <2>1, <2>2, <2>3, <2>4, <2>5 DEF m, n
<1>4. CASE s.type = "delete"
  <2>1. x \in DOMAIN a \ DOMAIN b
    BY <1>4 DEF Makes
  <2>2. x \in DOMAIN m
    BY <1>1, <2>1
  <2>3. accepts(m, s)
    BY <1>4, <2>2 DEF accepts
  <2>4. execute(m, s) = [id \in DOMAIN m \ {x} |-> m[id]]
    BY <1>4 DEF execute
  <2>5. n = [id \in DOMAIN m \ {x} |-> m[id]]
    BY <1>1, <2>1
  <2> QED
    BY <2>3, <2>4, <2>5 DEF m, n
<1> QED
  BY <1>2, <1>3, <1>4 DEF Makes

\* The ids of the first k statements.
FirstOf(ids, k) == {ids[j] : j \in 1 .. k}

LEMMA OneByOne ==
    ASSUME NEW D, IsFiniteSet(D), NEW ids, Enumerates(ids, D),
           NEW a, NEW b, SameBut(a, b, D),
           NEW w, w = [k \in 1 .. Cardinality(D) |-> w[k]],
           \A k \in 1 .. Cardinality(D) : w[k].id = ids[k] /\ Makes(a, b, w[k]),
           \A k \in 0 .. Cardinality(D) : closed(Mixed(a, b, FirstOf(ids, k)))
    PROVE  Brings(a, w, b)
<1>1. PICK n \in Nat : n = Cardinality(D)
  BY FS_CardinalityType
<1>2. PICK S : w \in Seq(S) /\ Len(w) = n
  <2> DEFINE S == {w[k] : k \in 1 .. n}
  <2>1. w \in [1 .. n -> S]
    BY <1>1
  <2> HIDE DEF S
  <2>2. w \in Seq(S) /\ Len(w) = n
    BY <1>1, <2>1
  <2> QED
    BY <2>2
<1> DEFINE st == [k \in 0 .. n |-> Mixed(a, b, FirstOf(ids, k))]
<1> \A k \in 0 .. n : st[k] = Mixed(a, b, FirstOf(ids, k))
  OBVIOUS
<1> HIDE DEF st
<1>3. st[0] = a
  <2>1. FirstOf(ids, 0) = {} /\ 0 \in 0 .. n
    BY DEF FirstOf
  <2>2. Mixed(a, b, {}) = a
    BY DEF Mixed, SameBut, isMap
  <2> QED
    BY <1>1, <2>1, <2>2
<1>4. st[n] = b
  <2>1. FirstOf(ids, n) = D
    BY <1>1 DEF FirstOf, Enumerates
  <2>2. (DOMAIN a \ D) \cup (DOMAIN b \cap D) = DOMAIN b
    BY DEF SameBut
  <2>3. \A id \in DOMAIN b : (IF id \in D THEN b[id] ELSE a[id]) = b[id]
    BY DEF SameBut
  <2>4. Mixed(a, b, D) = b
    BY <2>2, <2>3 DEF Mixed, SameBut, isMap
  <2>5. n \in 0 .. n
    BY <1>1
  <2> QED
    BY <2>1, <2>4, <2>5
<1>5. \A k \in 0 .. n : closed(st[k])
  BY <1>1
<1>6. ASSUME NEW k \in 1 .. n
      PROVE  accepts(st[k - 1], w[k]) /\ st[k] = execute(st[k - 1], w[k])
  <2>1. k - 1 \in 0 .. n /\ k \in 0 .. n
    BY <1>1
  <2>2. FirstOf(ids, k) = FirstOf(ids, k - 1) \cup {ids[k]}
    <3>1. 1 .. k = (1 .. k - 1) \cup {k}
      BY <1>1
    <3> QED
      BY <3>1 DEF FirstOf
  <2>3. ids[k] \notin FirstOf(ids, k - 1)
    <3>1. \A j \in 1 .. k - 1 : j \in 1 .. n /\ j # k
      BY <1>1
    <3> QED
      BY <1>1, <3>1 DEF FirstOf, Enumerates
  <2>4. w[k].id = ids[k] /\ Makes(a, b, w[k])
    BY <1>1
  <2>5. /\ accepts(Mixed(a, b, FirstOf(ids, k - 1)), w[k])
        /\ Mixed(a, b, FirstOf(ids, k)) = execute(Mixed(a, b, FirstOf(ids, k - 1)), w[k])
    BY <2>2, <2>3, <2>4, MixedStep
  <2>6. /\ st[k - 1] = Mixed(a, b, FirstOf(ids, k - 1))
        /\ st[k] = Mixed(a, b, FirstOf(ids, k))
    BY <2>1
  <2> QED
    BY <2>5, <2>6
<1> QED
  BY <1>2, <1>3, <1>4, <1>5, <1>6 DEF Brings

\* Updates: both states have the same ids.
LEMMA UpdatesBring ==
    ASSUME NEW D, IsFiniteSet(D), NEW ids, Enumerates(ids, D),
           NEW a, NEW b, SameBut(a, b, D), closed(a), closed(b), DOMAIN a = DOMAIN b,
           NEW w, w = [k \in 1 .. Cardinality(D) |-> w[k]],
           \A k \in 1 .. Cardinality(D) : w[k].id = ids[k] /\ Makes(a, b, w[k])
    PROVE  Brings(a, w, b)
<1>1. ASSUME NEW done
      PROVE  closed(Mixed(a, b, done))
  BY DEF closed, Mixed
<1> QED
  BY <1>1, OneByOne

\* Deletes: what is deleted refers to rows that stay.
LEMMA DeletesBring ==
    ASSUME NEW D, IsFiniteSet(D), NEW ids, Enumerates(ids, D),
           NEW a, NEW b, SameBut(a, b, D), closed(b), D \subseteq DOMAIN a, D \cap DOMAIN b = {},
           \A id \in D : references(a[id]) \subseteq DOMAIN b,
           NEW w, w = [k \in 1 .. Cardinality(D) |-> w[k]],
           \A k \in 1 .. Cardinality(D) : w[k].id = ids[k] /\ w[k].type = "delete"
    PROVE  Brings(a, w, b)
<1>1. \A k \in 1 .. Cardinality(D) : Makes(a, b, w[k])
  BY DEF Makes, Enumerates
<1>2. ASSUME NEW k \in 0 .. Cardinality(D)
      PROVE  closed(Mixed(a, b, FirstOf(ids, k)))
  <2>1. FirstOf(ids, k) \subseteq D
    <3>1. Cardinality(D) \in Nat
      BY FS_CardinalityType
    <3>2. 1 .. k \subseteq 1 .. Cardinality(D)
      BY <3>1
    <3> QED
      BY <3>2 DEF FirstOf, Enumerates
  <2>2. DOMAIN b \subseteq DOMAIN a \ FirstOf(ids, k)
    BY <2>1 DEF SameBut
  <2>3. Mixed(a, b, FirstOf(ids, k)) = [id \in DOMAIN a \ FirstOf(ids, k) |-> a[id]]
    BY <2>1 DEF Mixed
  <2>4. \A id \in DOMAIN a : references(a[id]) \subseteq DOMAIN b
    BY DEF SameBut, closed
  <2> QED
    BY <2>2, <2>3, <2>4 DEF closed
<1> QED
  BY <1>1, <1>2, OneByOne

\* What is inserted refers to rows that are there by then.
refersBack(D, ids, a, b) ==
    \A k \in 1 .. Cardinality(D) : references(b[ids[k]]) \subseteq DOMAIN a \cup FirstOf(ids, k)

insertEach(D, ids, b, w) ==
    /\ w = [k \in 1 .. Cardinality(D) |-> w[k]]
    /\ \A k \in 1 .. Cardinality(D) :
          w[k].id = ids[k] /\ w[k].type = "insert" /\ w[k].data = b[ids[k]]

LEMMA InsertsBring ==
    ASSUME NEW D, IsFiniteSet(D), NEW ids, Enumerates(ids, D),
           NEW a, NEW b, SameBut(a, b, D), closed(a), D \cap DOMAIN a = {}, D \subseteq DOMAIN b,
           refersBack(D, ids, a, b), NEW w, insertEach(D, ids, b, w)
    PROVE  Brings(a, w, b)
<1>1. \A k \in 1 .. Cardinality(D) : Makes(a, b, w[k])
  BY DEF Makes, Enumerates, insertEach
<1>2. ASSUME NEW k \in 0 .. Cardinality(D)
      PROVE  closed(Mixed(a, b, FirstOf(ids, k)))
  <2>1. Cardinality(D) \in Nat
    BY FS_CardinalityType
  <2>2. 1 .. k \subseteq 1 .. Cardinality(D)
    BY <2>1
  <2>3. FirstOf(ids, k) \subseteq D
    BY <2>2 DEF FirstOf, Enumerates
  <2>4. Mixed(a, b, FirstOf(ids, k)) =
            [id \in DOMAIN a \cup FirstOf(ids, k) |-> IF id \in FirstOf(ids, k) THEN b[id] ELSE a[id]]
    BY <2>3 DEF Mixed
  <2>5. ASSUME NEW id \in FirstOf(ids, k)
        PROVE  references(b[id]) \subseteq DOMAIN a \cup FirstOf(ids, k)
    <3>1. PICK j \in 1 .. k : id = ids[j]
      BY DEF FirstOf
    <3>2. 1 .. j \subseteq 1 .. k
      BY <2>1
    <3>3. FirstOf(ids, j) \subseteq FirstOf(ids, k)
      BY <3>2 DEF FirstOf
    <3> QED
      BY <2>2, <3>1, <3>3 DEF refersBack
  <2> QED
    BY <2>4, <2>5 DEF closed
<1>3. /\ w = [k \in 1 .. Cardinality(D) |-> w[k]]
      /\ \A k \in 1 .. Cardinality(D) : w[k].id = ids[k]
  BY DEF insertEach
<1> QED
  BY <1>1, <1>2, <1>3, OneByOne

(***************************************************************************)
(* Rows.                                                                   *)
(***************************************************************************)
Ids == Premise \cup Variable \cup Expression \cup {Roles}

LEMMA Disjoint ==
    /\ Premise \cap Variable = {} /\ Premise \cap Expression = {} /\ Variable \cap Expression = {}
    /\ None \notin Ids
    /\ Roles \notin Premise /\ Roles \notin Variable /\ Roles \notin Expression
BY PersistenceAssumption DEF Ids, None, Roles

LEMMA RowOfPremise ==
    ASSUME NEW id, id \in Premise, NEW row, isRowOf(id, row)
    PROVE  row = premiseRow /\ row.kind = "premises" /\ references(row) = {}
<1>1. row = premiseRow
  BY Disjoint DEF isRowOf
<1> QED
  BY <1>1 DEF premiseRow, references

LEMMA RowOfVariable ==
    ASSUME NEW id, id \in Variable, NEW row, isRowOf(id, row)
    PROVE  /\ row \in VariableRow /\ row.kind = "variables"
           /\ row.bound \in Premise \cup {None} /\ references(row) = {row.bound} \ {None}
<1>1. row \in VariableRow
  BY Disjoint DEF isRowOf
<1> QED
  BY <1>1 DEF VariableRow, references

LEMMA RowOfExpression ==
    ASSUME NEW id, id \in Expression, NEW row, isRowOf(id, row)
    PROVE  /\ row \in ExpressionRow /\ row.kind = "expressions"
           /\ row.premise \in Premise /\ row.parent \in Expression \cup {None}
           /\ row.variable \in Variable \cup {None}
           /\ row.type = "variable" <=> row.variable # None
           /\ references(row) = {row.premise, row.parent, row.variable} \ {None}
<1>1. row \in ExpressionRow /\ (row.type = "variable" <=> row.variable # None)
  BY Disjoint DEF isRowOf
<1> QED
  BY <1>1 DEF ExpressionRow, references

LEMMA RowOfRoles ==
    ASSUME NEW row, isRowOf(Roles, row)
    PROVE  /\ row \in RolesRow /\ row.kind = "roles" /\ row.conclusion \in Premise \cup {None}
           /\ references(row) = {}
<1>1. row \in RolesRow
  BY Disjoint DEF isRowOf
<1> QED
  BY <1>1 DEF RolesRow, references

LEMMA KindOfRow ==
    ASSUME NEW id, NEW row, isRowOf(id, row)
    PROVE  /\ id \in Ids
           /\ id \in Premise <=> row.kind = "premises"
           /\ id \in Variable <=> row.kind = "variables"
           /\ id \in Expression <=> row.kind = "expressions"
           /\ id = Roles <=> row.kind = "roles"
<1>1. id \in Ids
  BY DEF isRowOf, Ids
<1> QED
  BY <1>1, Disjoint, RowOfPremise, RowOfVariable, RowOfExpression, RowOfRoles DEF Ids

\* An update with a whole row leaves that row.
LEMMA WrittenWhole ==
    ASSUME NEW id, NEW old, NEW new, isRowOf(id, old), isRowOf(id, new)
    PROVE  written(new, old) = new
<1>1. DOMAIN new = DOMAIN old /\ new = [f \in DOMAIN new |-> new[f]]
  <2>1. CASE id \in Premise
    BY <2>1, RowOfPremise DEF premiseRow
  <2>2. CASE id \in Variable
    BY <2>2, RowOfVariable DEF VariableRow
  <2>3. CASE id \in Expression
    BY <2>3, RowOfExpression DEF ExpressionRow
  <2>4. CASE id = Roles
    BY <2>4, RowOfRoles DEF RolesRow
  <2> QED
    BY <2>1, <2>2, <2>3, <2>4, KindOfRow DEF Ids
<1> QED
  BY <1>1 DEF written

\* One that detaches leaves the row without its parent.
detached(row) == [row EXCEPT !.parent = None]

LEMMA WrittenDetached ==
    ASSUME NEW row \in ExpressionRow
    PROVE  written([parent |-> None], row) = detached(row)
<1>1. DOMAIN row = {"kind", "premise", "parent", "type", "variable"}
  BY DEF ExpressionRow
<1>2. DOMAIN [parent |-> None] = {"parent"} /\ [parent |-> None]["parent"] = None
  OBVIOUS
<1>3. row = [f \in DOMAIN row |-> row[f]]
  BY DEF ExpressionRow
<1> QED
  BY <1>1, <1>2, <1>3 DEF written, detached

LEMMA DetachedIsRow ==
    ASSUME NEW id, id \in Expression, NEW row, isRowOf(id, row)
    PROVE  /\ isRowOf(id, detached(row))
           /\ references(detached(row)) = {row.premise, row.variable} \ {None}
<1>1. row \in ExpressionRow /\ (row.type = "variable" <=> row.variable # None)
  BY RowOfExpression
<1>2. detached(row) \in ExpressionRow
  BY <1>1 DEF detached, ExpressionRow
<1>3. /\ detached(row).type = row.type /\ detached(row).variable = row.variable
      /\ detached(row).premise = row.premise /\ detached(row).parent = None
  BY <1>1 DEF detached, ExpressionRow
<1>4. isRowOf(id, detached(row))
  BY <1>1, <1>2, <1>3 DEF isRowOf
<1> QED
  BY <1>3, <1>4, RowOfExpression

(***************************************************************************)
(* What the changes of a call, and those of several, tell.                 *)
(***************************************************************************)
isEntry(id, e) ==
    /\ e = [bucket |-> e.bucket, row |-> e.row]
    /\ e.bucket \in {"added", "modified", "removed"} /\ isRowOf(id, e.row)

\* The changes tell how the rows b differ from the rows a.
Tells(changes, a, b) ==
    /\ isMap(changes) /\ SameBut(a, b, DOMAIN changes)
    /\ \A id \in DOMAIN changes :
          /\ isEntry(id, changes[id])
          /\ changes[id].bucket = "added" => id \in DOMAIN b \ DOMAIN a
          /\ changes[id].bucket = "modified" => id \in DOMAIN a \cap DOMAIN b
          /\ changes[id].bucket = "removed" => id \in DOMAIN a \ DOMAIN b
          /\ changes[id].bucket # "removed" => changes[id].row = b[id]

LEMMA NoChangesTell ==
    ASSUME NEW a, isMap(a)
    PROVE  Tells(noChanges, a, a)
<1>1. DOMAIN noChanges = {} /\ isMap(noChanges)
  BY DEF noChanges, isMap
<1> QED
  BY <1>1 DEF Tells, SameBut

\* An entry on top of an earlier one of the same row.
LEMMA EntryOnTop ==
    ASSUME NEW id, NEW e, NEW f, isEntry(id, e), isEntry(id, f)
    PROVE  /\ isEntry(id, recordEntityChange(e, f))
           /\ recordEntityChange(e, f).row = f.row
           /\ recordEntityChange(e, f).bucket = nextBucket(e.bucket, f.bucket)
<1>1. f = [bucket |-> f.bucket, row |-> f.row]
  BY DEF isEntry
<1>2. recordEntityChange(e, f) = [bucket |-> nextBucket(e.bucket, f.bucket), row |-> f.row]
  BY <1>1 DEF recordEntityChange
<1>3. nextBucket(e.bucket, f.bucket) \in {"added", "modified", "removed"}
  BY DEF isEntry, nextBucket
<1> QED
  BY <1>2, <1>3 DEF isEntry

LEMMA ComposedTell ==
    ASSUME NEW f, NEW g, NEW a, NEW b, NEW c, Tells(f, a, b), Tells(g, b, c)
    PROVE  Tells(composeChangesets(f, g), a, c)
<1> DEFINE undone == {id \in DOMAIN f \cap DOMAIN g :
                         f[id].bucket = "added" /\ g[id].bucket = "removed"}
           h == composeChangesets(f, g)
<1>1. h = [id \in (DOMAIN f \cup DOMAIN g) \ undone |->
              IF id \notin DOMAIN g THEN f[id]
              ELSE IF id \notin DOMAIN f THEN g[id]
              ELSE recordEntityChange(f[id], g[id])]
  BY DEF composeChangesets
<1> HIDE DEF h
<1>2. isMap(h) /\ DOMAIN h = (DOMAIN f \cup DOMAIN g) \ undone
  BY <1>1 DEF isMap
<1>3. SameBut(a, c, DOMAIN h)
  <2>1. isMap(a) /\ isMap(c)
    BY DEF Tells, SameBut
  <2>2. \A id \in undone : id \notin DOMAIN a /\ id \notin DOMAIN c
    BY DEF Tells
  <2>3. \A id : id \notin DOMAIN h => (id \in DOMAIN a <=> id \in DOMAIN c)
    BY <1>2, <2>2 DEF Tells, SameBut
  <2>4. \A id \in DOMAIN a \ DOMAIN h : a[id] = c[id]
    BY <1>2, <2>2 DEF Tells, SameBut
  <2> QED
    BY <2>1, <2>3, <2>4 DEF SameBut
<1>4. ASSUME NEW id \in DOMAIN h
      PROVE  /\ isEntry(id, h[id])
             /\ h[id].bucket = "added" => id \in DOMAIN c \ DOMAIN a
             /\ h[id].bucket = "modified" => id \in DOMAIN a \cap DOMAIN c
             /\ h[id].bucket = "removed" => id \in DOMAIN a \ DOMAIN c
             /\ h[id].bucket # "removed" => h[id].row = c[id]
  <2>1. CASE id \notin DOMAIN g
    <3>1. h[id] = f[id] /\ id \in DOMAIN f
      BY <1>1, <1>2, <2>1
    <3>2. (id \in DOMAIN b <=> id \in DOMAIN c) /\ (id \in DOMAIN b => b[id] = c[id])
      BY <2>1 DEF Tells, SameBut
    <3> QED
      BY <3>1, <3>2 DEF Tells, isEntry
  <2>2. CASE id \in DOMAIN g /\ id \notin DOMAIN f
    <3>1. h[id] = g[id]
      BY <1>1, <1>2, <2>2
    <3>2. id \in DOMAIN a <=> id \in DOMAIN b
      BY <2>2 DEF Tells, SameBut
    <3> QED
      BY <2>2, <3>1, <3>2 DEF Tells
  <2>3. CASE id \in DOMAIN g /\ id \in DOMAIN f
    <3>1. h[id] = recordEntityChange(f[id], g[id]) /\ id \notin undone
      BY <1>1, <1>2, <2>3
    <3>2. isEntry(id, f[id]) /\ isEntry(id, g[id])
      BY <2>3 DEF Tells
    <3>3. /\ isEntry(id, h[id]) /\ h[id].row = g[id].row
          /\ h[id].bucket = nextBucket(f[id].bucket, g[id].bucket)
      BY <3>1, <3>2, EntryOnTop
    <3>4. f[id].bucket \in {"added", "modified", "removed"} /\ g[id].bucket \in {"added", "modified", "removed"}
      BY <3>2 DEF isEntry
    <3>5. ~(f[id].bucket = "added" /\ g[id].bucket = "removed")
      BY <2>3, <3>1
    <3> QED
      BY <2>3, <3>3, <3>4, <3>5 DEF nextBucket, Tells
  <2> QED
    BY <2>1, <2>2, <2>3
<1> QED
  BY <1>2, <1>3, <1>4 DEF Tells, h

LEMMA EntriesAreCurrent ==
    ASSUME NEW changes, NEW a, NEW b, Tells(changes, a, b)
    PROVE  withCurrentEntries(changes, b) = changes
<1>1. ASSUME NEW id \in DOMAIN changes, changes[id].bucket # "removed"
      PROVE  [changes[id] EXCEPT !.row = b[id]] = changes[id]
  <2>1. changes[id].row = b[id] /\ changes[id] = [bucket |-> changes[id].bucket, row |-> changes[id].row]
    BY <1>1 DEF Tells, isEntry
  <2> QED
    BY <2>1
<1> QED
  BY <1>1 DEF withCurrentEntries, Tells, isMap

(***************************************************************************)
(* Drafts: what a call has made of the rows a it began with.               *)
(***************************************************************************)
rowsOfTheirKind(a) == isMap(a) /\ \A id \in DOMAIN a : isRowOf(id, a[id])

\* What is removed is removed as it was.
RemovesAsWas(changes, a) ==
    \A id \in DOMAIN changes : changes[id].bucket = "removed" => changes[id].row = a[id]

isDraft(d, a) ==
    /\ d = [rows |-> d.rows, changes |-> d.changes]
    /\ rowsOfTheirKind(d.rows) /\ Tells(d.changes, a, d.rows) /\ RemovesAsWas(d.changes, a)

LEMMA DraftToBegin ==
    ASSUME NEW a, rowsOfTheirKind(a)
    PROVE  isDraft([rows |-> a, changes |-> noChanges], a)
<1>1. DOMAIN noChanges = {}
  BY DEF noChanges
<1>2. Tells(noChanges, a, a)
  BY NoChangesTell DEF rowsOfTheirKind
<1> QED
  BY <1>1, <1>2 DEF isDraft, RemovesAsWas

\* The rows once a row is put in place, and once rows are taken away.
With(rows, id, row) == [i \in DOMAIN rows \cup {id} |-> IF i = id THEN row ELSE rows[i]]
Without(rows, ids) == [i \in DOMAIN rows \ ids |-> rows[i]]

LEMMA PutDraft ==
    ASSUME NEW a, NEW d, isDraft(d, a), NEW id, NEW row, isRowOf(id, row)
    PROVE  isDraft(put(d, id, row), a) /\ put(d, id, row).rows = With(d.rows, id, row)
<1> DEFINE entry == [bucket |-> IF id \in DOMAIN d.rows THEN "modified" ELSE "added", row |-> row]
           one == [i \in {id} |-> entry]
           r == With(d.rows, id, row)
           h == composeChangesets(d.changes, one)
<1>1. put(d, id, row) = [rows |-> r, changes |-> h]
  BY DEF put, With
<1>2. DOMAIN one = {id} /\ one[id] = entry /\ isMap(one)
  BY DEF isMap
<1>3. isEntry(id, entry) /\ entry.bucket # "removed" /\ entry.row = row
  BY DEF isEntry
<1>4. entry.bucket = IF id \in DOMAIN d.rows THEN "modified" ELSE "added"
  OBVIOUS
<1> HIDE DEF entry, one
<1>5. rowsOfTheirKind(r) /\ DOMAIN r = DOMAIN d.rows \cup {id} /\ r[id] = row
  BY DEF isDraft, rowsOfTheirKind, isMap, With
<1>6. Tells(one, d.rows, r)
  <2>1. SameBut(d.rows, r, {id})
    BY DEF SameBut, isDraft, rowsOfTheirKind, isMap, With
  <2> QED
    BY <1>2, <1>3, <1>4, <1>5, <2>1 DEF Tells
<1>7. Tells(h, a, r)
  BY <1>6, ComposedTell DEF isDraft
<1>8. RemovesAsWas(h, a)
  <2>1. h = [i \in (DOMAIN d.changes \cup DOMAIN one) \ {} |->
                IF i \notin DOMAIN one THEN d.changes[i]
                ELSE IF i \notin DOMAIN d.changes THEN one[i]
                ELSE recordEntityChange(d.changes[i], one[i])]
    BY <1>2, <1>3 DEF composeChangesets
  <2>2. ASSUME NEW i \in DOMAIN h, h[i].bucket = "removed"
        PROVE  i # id
    <3> SUFFICES ASSUME i = id PROVE FALSE
      OBVIOUS
    <3>1. CASE id \notin DOMAIN d.changes
      BY <1>2, <1>3, <2>1, <2>2, <3>1
    <3>2. CASE id \in DOMAIN d.changes
      <4>1. h[id] = recordEntityChange(d.changes[id], entry)
        BY <1>2, <2>1, <3>2
      <4>2. PICK e : e = d.changes[id] /\ isEntry(id, e)
        BY <3>2 DEF isDraft, Tells
      <4>3. PICK f : f = entry /\ isEntry(id, f)
        BY <1>3
      <4>4. isEntry(id, e) /\ isEntry(id, f)
        BY <4>2, <4>3
      <4>5. recordEntityChange(e, f).bucket = nextBucket(e.bucket, f.bucket)
        BY <4>4, EntryOnTop
      <4> QED
        BY <1>3, <2>2, <4>1, <4>2, <4>3, <4>5 DEF nextBucket
    <3> QED
      BY <3>1, <3>2
  <2> QED
    BY <1>2, <2>1, <2>2 DEF RemovesAsWas, isDraft
<1> QED
  BY <1>1, <1>5, <1>7, <1>8 DEF isDraft

\* Rows the call has not changed before.
LEMMA DropDraft ==
    ASSUME NEW a, NEW d, isDraft(d, a), NEW ids, ids \subseteq DOMAIN d.rows,
           \A id \in ids : id \in DOMAIN a /\ d.rows[id] = a[id]
    PROVE  isDraft(dropAll(d, ids), a) /\ dropAll(d, ids).rows = Without(d.rows, ids)
<1> DEFINE gone == [i \in ids |-> [bucket |-> "removed", row |-> d.rows[i]]]
           r == Without(d.rows, ids)
           h == composeChangesets(d.changes, gone)
<1>1. dropAll(d, ids) = [rows |-> r, changes |-> h]
  BY DEF dropAll, Without
<1>2. /\ DOMAIN gone = ids /\ isMap(gone)
      /\ \A i \in ids : gone[i] = [bucket |-> "removed", row |-> d.rows[i]]
  BY DEF isMap
<1>3. \A i \in ids : isEntry(i, gone[i]) /\ gone[i].bucket = "removed" /\ gone[i].row = d.rows[i]
  BY <1>2 DEF isEntry, isDraft, rowsOfTheirKind
<1> HIDE DEF gone
<1>4. rowsOfTheirKind(r) /\ DOMAIN r = DOMAIN d.rows \ ids
  BY DEF isDraft, rowsOfTheirKind, isMap, Without
<1>5. Tells(gone, d.rows, r)
  <2>1. SameBut(d.rows, r, ids)
    BY DEF SameBut, isDraft, rowsOfTheirKind, isMap, Without
  <2> QED
    BY <1>2, <1>3, <1>4, <2>1 DEF Tells
<1>6. Tells(h, a, r)
  BY <1>5, ComposedTell DEF isDraft
<1>7. RemovesAsWas(h, a)
  <2> DEFINE undone == {id \in DOMAIN d.changes \cap DOMAIN gone :
                           d.changes[id].bucket = "added" /\ gone[id].bucket = "removed"}
  <2>1. h = [i \in (DOMAIN d.changes \cup DOMAIN gone) \ undone |->
                IF i \notin DOMAIN gone THEN d.changes[i]
                ELSE IF i \notin DOMAIN d.changes THEN gone[i]
                ELSE recordEntityChange(d.changes[i], gone[i])]
    BY DEF composeChangesets
  <2> HIDE DEF undone
  <2> SUFFICES ASSUME NEW i \in DOMAIN h, h[i].bucket = "removed"
               PROVE  h[i].row = a[i]
    BY DEF RemovesAsWas
  <2>2. CASE i \notin ids
    BY <1>2, <2>1, <2>2 DEF RemovesAsWas, isDraft
  <2>3. CASE i \in ids /\ i \notin DOMAIN d.changes
    BY <1>2, <1>3, <2>1, <2>3
  <2>4. CASE i \in ids /\ i \in DOMAIN d.changes
    <3>1. h[i] = recordEntityChange(d.changes[i], gone[i])
      BY <1>2, <2>1, <2>4
    <3>2. PICK e : e = d.changes[i] /\ isEntry(i, e)
      BY <2>4 DEF isDraft, Tells
    <3>3. PICK f : f = gone[i] /\ isEntry(i, f)
      BY <1>3, <2>4
    <3>4. recordEntityChange(e, f).row = f.row
      BY <3>2, <3>3, EntryOnTop
    <3> QED
      BY <1>3, <2>4, <3>1, <3>2, <3>3, <3>4
  <2> QED
    BY <2>2, <2>3, <2>4
<1> QED
  BY <1>1, <1>4, <1>6, <1>7 DEF isDraft

(***************************************************************************)
(* A call keeps the rows sound.                                            *)
(***************************************************************************)
LEMMA KindsOfRows ==
    ASSUME NEW rows, rowsOfTheirKind(rows)
    PROVE  /\ ofKind(rows, "premises") = DOMAIN rows \cap Premise
           /\ ofKind(rows, "variables") = DOMAIN rows \cap Variable
           /\ ofKind(rows, "expressions") = DOMAIN rows \cap Expression
BY KindOfRow DEF rowsOfTheirKind, ofKind

expressionsIn(rows) == DOMAIN rows \cap Expression

parentsInPremise(rows) ==
    \A e \in expressionsIn(rows) :
        rows[e].parent # None => rows[rows[e].parent].premise = rows[e].premise

LEMMA SoundRows ==
    ASSUME NEW rows
    PROVE  sound(rows) <=> /\ rowsOfTheirKind(rows) /\ Roles \in DOMAIN rows /\ closed(rows)
                           /\ parentsInPremise(rows) /\ isForest(rows, expressionsIn(rows))
BY KindsOfRows DEF sound, rowsOfTheirKind, isMap, parentsInPremise, expressionsIn

\* The references of an expression's row in sound rows.
LEMMA ReferencesOfExpression ==
    ASSUME NEW rows, rowsOfTheirKind(rows), closed(rows), NEW e \in expressionsIn(rows)
    PROVE  /\ isRowOf(e, rows[e])
           /\ rows[e].premise \in DOMAIN rows \cap Premise
           /\ rows[e].parent # None => rows[e].parent \in expressionsIn(rows)
           /\ rows[e].variable # None => rows[e].variable \in DOMAIN rows \cap Variable
<1>1. PICK row : row = rows[e] /\ isRowOf(e, row) /\ e \in Expression
  BY DEF rowsOfTheirKind, expressionsIn
<1>2. references(row) \subseteq DOMAIN rows
  BY <1>1 DEF closed, expressionsIn
<1>3. row.premise # None
  BY <1>1, RowOfExpression, Disjoint DEF Ids
<1> QED
  BY <1>1, <1>2, <1>3, RowOfExpression DEF expressionsIn

\* Another premise, variable or role state, or another one of an old one.
LEMMA PutOther ==
    ASSUME NEW rows, sound(rows), NEW id, id \notin Expression, NEW row, isRowOf(id, row),
           references(row) \subseteq DOMAIN rows
    PROVE  sound(With(rows, id, row))
<1> DEFINE r == With(rows, id, row)
<1>1. /\ rowsOfTheirKind(rows) /\ Roles \in DOMAIN rows /\ closed(rows)
      /\ parentsInPremise(rows) /\ isForest(rows, expressionsIn(rows))
  BY SoundRows
<1>2. /\ DOMAIN r = DOMAIN rows \cup {id} /\ r[id] = row
      /\ \A i \in DOMAIN rows \ {id} : r[i] = rows[i]
  BY DEF With
<1>3. rowsOfTheirKind(r)
  BY <1>1 DEF rowsOfTheirKind, isMap, With
<1> HIDE DEF r
<1>4. closed(r)
  BY <1>1, <1>2 DEF closed
<1>5. expressionsIn(r) = expressionsIn(rows) /\ \A e \in expressionsIn(rows) : r[e] = rows[e]
  BY <1>2 DEF expressionsIn
<1>6. parentsInPremise(r)
  BY <1>1, <1>5, ReferencesOfExpression DEF parentsInPremise
<1>7. isForest(r, expressionsIn(r))
  BY <1>1, <1>5 DEF isForest
<1> QED
  BY <1>1, <1>2, <1>3, <1>4, <1>6, <1>7, SoundRows DEF r

\* Another expression, or another row of an old one in the same premise.
LEMMA PutExpression ==
    ASSUME NEW rows, sound(rows), NEW e, e \in Expression, NEW row, isRowOf(e, row),
           references(row) \subseteq DOMAIN rows,
           e \in DOMAIN rows => row.premise = rows[e].premise,
           row.parent # None => row.parent # e /\ rows[row.parent].premise = row.premise,
           isForest(With(rows, e, row), expressionsIn(rows) \cup {e})
    PROVE  sound(With(rows, e, row))
<1> DEFINE r == With(rows, e, row)
<1>1. /\ rowsOfTheirKind(rows) /\ Roles \in DOMAIN rows /\ closed(rows)
      /\ parentsInPremise(rows) /\ isForest(rows, expressionsIn(rows))
  BY SoundRows
<1>2. /\ DOMAIN r = DOMAIN rows \cup {e} /\ r[e] = row
      /\ \A i \in DOMAIN rows \ {e} : r[i] = rows[i]
  BY DEF With
<1>3. rowsOfTheirKind(r)
  BY <1>1 DEF rowsOfTheirKind, isMap, With
<1> HIDE DEF r
<1>4. closed(r)
  BY <1>1, <1>2 DEF closed
<1>5. expressionsIn(r) = expressionsIn(rows) \cup {e}
  BY <1>2 DEF expressionsIn
<1>6. \A i \in DOMAIN rows \cap Expression : r[i].premise = rows[i].premise
  BY <1>2
<1>7. ASSUME NEW c \in expressionsIn(r), r[c].parent # None
      PROVE  r[r[c].parent].premise = r[c].premise
  <2>1. CASE c = e
    <3>1. row.parent \in DOMAIN rows \cap Expression /\ row.parent # e
      <4>1. row.parent \in references(row) /\ row.parent \in Expression
        BY <1>2, <1>7, <2>1, RowOfExpression
      <4> QED
        BY <1>2, <1>7, <2>1, <4>1
    <3> QED
      BY <1>2, <1>7, <2>1, <3>1
  <2>2. CASE c # e
    <3>1. r[c] = rows[c] /\ c \in expressionsIn(rows)
      BY <1>2, <1>5, <2>2 DEF expressionsIn
    <3>2. rows[c].parent \in expressionsIn(rows) /\ rows[rows[c].parent].premise = rows[c].premise
      BY <1>1, <1>7, <3>1, ReferencesOfExpression DEF parentsInPremise
    <3> QED
      BY <1>6, <3>1, <3>2 DEF expressionsIn
  <2> QED
    BY <2>1, <2>2
<1>8. parentsInPremise(r)
  BY <1>7 DEF parentsInPremise
<1> QED
  BY <1>1, <1>2, <1>3, <1>4, <1>5, <1>8, SoundRows DEF r

\* A new expression below an old one.
LEMMA LeafForest ==
    ASSUME NEW rows, isForest(rows, expressionsIn(rows)), closed(rows), rowsOfTheirKind(rows),
           NEW e \in Expression, e \notin DOMAIN rows, NEW row, row.parent # e
    PROVE  isForest(With(rows, e, row), expressionsIn(rows) \cup {e})
<1> DEFINE r == With(rows, e, row)
<1>1. r[e] = row /\ \A i \in DOMAIN rows : r[i] = rows[i]
  BY DEF With
<1> HIDE DEF r
<1>2. SUFFICES ASSUME NEW S \in SUBSET (expressionsIn(rows) \cup {e}), S # {}
               PROVE  \E c \in S : r[c].parent \notin S
  BY DEF isForest, r
<1>3. CASE S = {e}
  BY <1>1, <1>3
<1>4. CASE S # {e}
  <2>1. S \ {e} \in SUBSET expressionsIn(rows) /\ S \ {e} # {}
    BY <1>2, <1>4
  <2>2. PICK c \in S \ {e} : rows[c].parent \notin S \ {e}
    BY <2>1 DEF isForest
  <2>3. c \in expressionsIn(rows) /\ r[c] = rows[c]
    BY <1>1, <2>1, <2>2 DEF expressionsIn
  <2>4. rows[c].parent # e
    <3>1. CASE rows[c].parent = None
      BY <3>1, Disjoint DEF Ids
    <3>2. CASE rows[c].parent # None
      BY <2>3, <3>2, ReferencesOfExpression DEF expressionsIn
    <3> QED
      BY <3>1, <3>2
  <2> QED
    BY <2>2, <2>3, <2>4
<1> QED
  BY <1>3, <1>4

\* Another row of an expression with the parent it had.
LEMMA SameForest ==
    ASSUME NEW rows, isForest(rows, expressionsIn(rows)), NEW e \in expressionsIn(rows),
           NEW row, row.parent = rows[e].parent
    PROVE  isForest(With(rows, e, row), expressionsIn(rows) \cup {e})
<1> DEFINE r == With(rows, e, row)
<1>1. \A c \in expressionsIn(rows) : r[c].parent = rows[c].parent
  BY DEF With, expressionsIn
<1>2. expressionsIn(rows) \cup {e} = expressionsIn(rows)
  OBVIOUS
<1> HIDE DEF r
<1> QED
  BY <1>1, <1>2 DEF isForest, r

\* A new expression above an old one.
LEMMA AboveForest ==
    ASSUME NEW rows, isForest(rows, expressionsIn(rows)), closed(rows), rowsOfTheirKind(rows),
           NEW e \in expressionsIn(rows), NEW new \in Expression, new \notin DOMAIN rows,
           NEW above, above.parent = rows[e].parent, NEW row, row.parent = new
    PROVE  isForest(With(With(rows, new, above), e, row), expressionsIn(rows) \cup {new})
<1> DEFINE r == With(With(rows, new, above), e, row)
<1>1. /\ e # new /\ r[new] = above /\ r[e] = row
      /\ \A i \in DOMAIN rows \ {e} : r[i] = rows[i]
  BY DEF With, expressionsIn
<1> HIDE DEF r
<1>2. \A c \in expressionsIn(rows) : rows[c].parent # new
  BY ReferencesOfExpression, Disjoint DEF Ids, expressionsIn
<1>3. SUFFICES ASSUME NEW S \in SUBSET (expressionsIn(rows) \cup {new}), S # {}
               PROVE  \E c \in S : r[c].parent \notin S
  BY DEF isForest, r
<1>4. CASE S = {new}
  BY <1>1, <1>2, <1>4
<1>5. CASE S # {new}
  <2>1. S \ {new} \in SUBSET expressionsIn(rows) /\ S \ {new} # {}
    BY <1>3, <1>5
  <2>2. PICK c \in S \ {new} : rows[c].parent \notin S \ {new}
    BY <2>1 DEF isForest
  <2>3. c \in expressionsIn(rows) /\ rows[c].parent \notin S
    BY <1>2, <2>1, <2>2
  <2>4. CASE c # e
    BY <1>1, <2>2, <2>3, <2>4 DEF expressionsIn
  <2>5. CASE c = e
    BY <1>1, <2>2, <2>3, <2>5
  <2> QED
    BY <2>4, <2>5
<1> QED
  BY <1>4, <1>5

\* The only child of an expression that goes takes its place.
LEMMA PromotedForest ==
    ASSUME NEW rows, isForest(rows, expressionsIn(rows)),
           NEW e \in expressionsIn(rows), NEW c \in expressionsIn(rows), rows[c].parent = e,
           NEW row, row.parent = rows[e].parent,
           NEW r, r = Without(With(rows, c, row), {e})
    PROVE  isForest(r, expressionsIn(r)) /\ c # e
<1>1. c # e
  <2> SUFFICES ASSUME c = e PROVE FALSE
    OBVIOUS
  <2>1. {e} \in SUBSET expressionsIn(rows)
    OBVIOUS
  <2> QED
    BY <2>1 DEF isForest
<1>2. /\ DOMAIN r = DOMAIN rows \ {e} /\ r[c] = row
      /\ \A i \in DOMAIN rows \ {e, c} : r[i] = rows[i]
  BY <1>1 DEF With, Without, expressionsIn
<1>3. SUFFICES ASSUME NEW S \in SUBSET expressionsIn(r), S # {}
               PROVE  \E b \in S : r[b].parent \notin S
  BY <1>1 DEF isForest
<1>4. e \notin S /\ S \in SUBSET expressionsIn(rows)
  BY <1>2 DEF expressionsIn
<1>5. CASE c \notin S
  <2>1. PICK b \in S : rows[b].parent \notin S
    BY <1>3, <1>4 DEF isForest
  <2> QED
    BY <1>2, <1>4, <1>5, <2>1 DEF expressionsIn
<1>6. CASE c \in S
  <2>1. S \cup {e} \in SUBSET expressionsIn(rows) /\ S \cup {e} # {}
    BY <1>4
  <2>2. PICK b \in S \cup {e} : rows[b].parent \notin S \cup {e}
    BY <2>1 DEF isForest
  <2>3. CASE b = e
    BY <1>2, <1>6, <2>2, <2>3
  <2>4. CASE b # e
    BY <1>2, <1>4, <2>2, <2>4 DEF expressionsIn
  <2> QED
    BY <2>3, <2>4
<1> QED
  BY <1>5, <1>6

\* Rows are taken away with all that refers to them.
LEMMA FewerRows ==
    ASSUME NEW rows, sound(rows), NEW r, rowsOfTheirKind(r), DOMAIN r \subseteq DOMAIN rows,
           Roles \in DOMAIN r,
           \A id \in DOMAIN r \ {Roles} :
              r[id] = rows[id] /\ references(rows[id]) \subseteq DOMAIN r
    PROVE  sound(r)
<1>1. /\ rowsOfTheirKind(rows) /\ closed(rows)
      /\ parentsInPremise(rows) /\ isForest(rows, expressionsIn(rows))
  BY SoundRows
<1>2. closed(r)
  <2>1. references(r[Roles]) = {}
    <3>1. isRowOf(Roles, r[Roles])
      BY DEF rowsOfTheirKind
    <3> QED
      BY <3>1, RowOfRoles
  <2> QED
    BY <2>1 DEF closed
<1>3. expressionsIn(r) \subseteq expressionsIn(rows) /\ \A e \in expressionsIn(r) : r[e] = rows[e]
  BY Disjoint DEF expressionsIn
<1>4. parentsInPremise(r)
  <2> SUFFICES ASSUME NEW e \in expressionsIn(r), r[e].parent # None
               PROVE  r[r[e].parent].premise = r[e].premise
    BY DEF parentsInPremise
  <2>1. r[e].parent \in expressionsIn(r)
    BY <1>2, ReferencesOfExpression
  <2> QED
    BY <1>1, <1>3, <2>1 DEF parentsInPremise
<1>5. isForest(r, expressionsIn(r))
  BY <1>1, <1>3 DEF isForest
<1> QED
  BY <1>2, <1>4, <1>5, SoundRows

(***************************************************************************)
(* The calls.                                                              *)
(***************************************************************************)
isGood(d, a) == isDraft(d, a) /\ sound(d.rows)

LEMMA Rows ==
    /\ \A p \in Premise : isRowOf(p, premiseRow)
    /\ \A c \in Premise \cup {None} : isRowOf(Roles, rolesRow(c))
    /\ \A x \in Variable, s \in Symbol, b \in Premise \cup {None} :
          isRowOf(x, variableRow(s, b)) /\ references(variableRow(s, b)) = {b} \ {None}
<1>1. \A p \in Premise : isRowOf(p, premiseRow)
  BY DEF isRowOf
<1>2. \A c \in Premise \cup {None} : isRowOf(Roles, rolesRow(c))
  BY DEF isRowOf, RolesRow, rolesRow
<1>3. ASSUME NEW x \in Variable, NEW s \in Symbol, NEW b \in Premise \cup {None}
      PROVE  isRowOf(x, variableRow(s, b)) /\ references(variableRow(s, b)) = {b} \ {None}
  <2>1. isRowOf(x, variableRow(s, b))
    BY DEF isRowOf, VariableRow, variableRow
  <2>2. variableRow(s, b).bound = b
    BY DEF variableRow
  <2> QED
    BY <2>1, <2>2, RowOfVariable
<1> QED
  BY <1>1, <1>2, <1>3

LEMMA RowForExpression ==
    ASSUME NEW e \in Expression, NEW p \in Premise, NEW parent \in Expression \cup {None},
           NEW type \in ExpressionType, NEW x \in Variable \cup {None}, type = "variable" <=> x # None,
           NEW row, row = expressionRow(p, parent, type, x)
    PROVE  /\ isRowOf(e, row) /\ row.premise = p /\ row.parent = parent
           /\ references(row) = {p, parent, x} \ {None}
<1>1. /\ row.premise = p /\ row.parent = parent /\ row.type = type /\ row.variable = x
      /\ row \in ExpressionRow
  BY DEF expressionRow, ExpressionRow
<1>2. isRowOf(e, row)
  BY <1>1 DEF isRowOf
<1> QED
  BY <1>1, <1>2, RowOfExpression

LEMMA GoodPutOther ==
    ASSUME NEW a, NEW d, isGood(d, a), NEW id, id \notin Expression, NEW row, isRowOf(id, row),
           references(row) \subseteq DOMAIN d.rows
    PROVE  isGood(put(d, id, row), a) /\ put(d, id, row).rows = With(d.rows, id, row)
<1>1. isDraft(put(d, id, row), a) /\ put(d, id, row).rows = With(d.rows, id, row)
  BY PutDraft DEF isGood
<1>2. sound(With(d.rows, id, row))
  BY PutOther DEF isGood
<1> QED
  BY <1>1, <1>2 DEF isGood

\* What is known of sound rows, by kind.
LEMMA InSoundRows ==
    ASSUME NEW rows, sound(rows)
    PROVE  /\ Roles \in DOMAIN rows /\ isMap(rows) /\ rowsOfTheirKind(rows) /\ closed(rows)
           /\ isForest(rows, expressionsIn(rows)) /\ parentsInPremise(rows)
           /\ ofKind(rows, "premises") = DOMAIN rows \cap Premise
           /\ ofKind(rows, "variables") = DOMAIN rows \cap Variable
           /\ ofKind(rows, "expressions") = expressionsIn(rows)
           /\ conclusionOf(rows) \in Premise \cup {None}
<1>1. rowsOfTheirKind(rows) /\ Roles \in DOMAIN rows
  BY SoundRows
<1>2. isRowOf(Roles, rows[Roles])
  BY <1>1 DEF rowsOfTheirKind
<1>3. conclusionOf(rows) \in Premise \cup {None}
  BY <1>2, RowOfRoles DEF conclusionOf
<1> QED
  BY <1>1, <1>3, KindsOfRows, SoundRows DEF rowsOfTheirKind, expressionsIn

LEMMA SetRolesGood ==
    ASSUME NEW a, NEW d, isGood(d, a), NEW c \in Premise \cup {None}
    PROVE  isGood(setRoles(d, c), a)
<1>1. isRowOf(Roles, rolesRow(c))
  BY Rows
<1>2. references(rolesRow(c)) = {} /\ Roles \notin Expression
  BY <1>1, RowOfRoles, Disjoint
<1> QED
  BY <1>1, <1>2, GoodPutOther DEF setRoles

LEMMA CreatePremiseGood ==
    ASSUME NEW a, NEW d, isGood(d, a), NEW p \in Premise, NEW x \in Variable, NEW s \in Symbol
    PROVE  isGood(createPremise(d, p, x, s), a)
<1> DEFINE d1 == put(d, p, premiseRow)
           d2 == put(d1, x, variableRow(s, p))
<1>1. isGood(d1, a) /\ d1.rows = With(d.rows, p, premiseRow)
  <2>1. isRowOf(p, premiseRow) /\ references(premiseRow) = {} /\ p \notin Expression
    BY Rows, RowOfPremise, Disjoint
  <2> QED
    BY <2>1, GoodPutOther
<1>2. p \in DOMAIN d1.rows
  BY <1>1 DEF With
<1> HIDE DEF d1
<1>3. isGood(d2, a)
  <2>1. /\ isRowOf(x, variableRow(s, p)) /\ references(variableRow(s, p)) \subseteq {p}
        /\ x \notin Expression
    BY Rows, Disjoint
  <2> QED
    BY <1>1, <1>2, <2>1, GoodPutOther
<1> HIDE DEF d2
<1>4. createPremise(d, p, x, s) = IF conclusionOf(d.rows) = None THEN setRoles(d2, p) ELSE d2
  BY DEF createPremise, d1, d2
<1> QED
  BY <1>3, <1>4, SetRolesGood

LEMMA PutVariableGood ==
    ASSUME NEW a, NEW d, isGood(d, a), NEW x \in Variable, NEW s \in Symbol,
           NEW b \in (DOMAIN d.rows \cap Premise) \cup {None}
    PROVE  isGood(put(d, x, variableRow(s, b)), a)
<1>1. /\ isRowOf(x, variableRow(s, b)) /\ references(variableRow(s, b)) \subseteq DOMAIN d.rows
      /\ x \notin Expression
  BY Rows, Disjoint
<1> QED
  BY <1>1, GoodPutOther

LEMMA UpdateVariableGood ==
    ASSUME NEW a, NEW d, isGood(d, a), NEW x \in ofKind(d.rows, "variables"),
           NEW t \in updateVariable(d, x)
    PROVE  isGood(t, a)
<1> DEFINE row == d.rows[x]
<1>1. sound(d.rows) /\ x \in Variable /\ x \in DOMAIN d.rows
  BY InSoundRows DEF isGood
<1>2. isRowOf(x, row)
  BY <1>1, InSoundRows DEF rowsOfTheirKind
<1>3. /\ row = variableRow(row.symbol, row.bound) /\ row.symbol \in Symbol
      /\ row.bound \in Premise \cup {None}
  <2>1. row \in VariableRow
    BY <1>1, <1>2, RowOfVariable
  <2> QED
    BY <2>1 DEF VariableRow, variableRow
<1>4. row.bound \in (DOMAIN d.rows \cap Premise) \cup {None}
  <2>1. references(row) \subseteq DOMAIN d.rows
    BY <1>1, InSoundRows DEF closed
  <2>2. references(row) = {row.bound} \ {None}
    BY <1>1, <1>2, RowOfVariable
  <2> QED
    BY <1>3, <2>1, <2>2
<1>5. CASE t \in renameVariable(d, x)
  <2>1. PICK s \in Symbol : t = put(d, x, [row EXCEPT !.symbol = s])
    BY <1>5 DEF renameVariable, freeSymbols
  <2>2. [row EXCEPT !.symbol = s] = variableRow(s, row.bound)
    BY <1>3 DEF variableRow
  <2> QED
    BY <1>1, <1>4, <2>1, <2>2, PutVariableGood
<1>6. CASE t \in rebindVariable(d, x)
  <2>1. PICK b \in ofKind(d.rows, "premises") : t = put(d, x, [row EXCEPT !.bound = b])
    BY <1>6 DEF rebindVariable
  <2>2. [row EXCEPT !.bound = b] = variableRow(row.symbol, b)
    BY <1>3 DEF variableRow
  <2>3. b \in (DOMAIN d.rows \cap Premise) \cup {None}
    BY <1>1, InSoundRows
  <2> QED
    BY <1>1, <1>3, <2>1, <2>2, <2>3, PutVariableGood
<1> QED
  BY <1>5, <1>6 DEF updateVariable

LEMMA AddExpressionGood ==
    ASSUME NEW a, NEW d, isGood(d, a), NEW e \in Expression, e \notin DOMAIN d.rows,
           NEW p \in DOMAIN d.rows \cap Premise,
           NEW parent, parent = None \/ parent \in expressionsOf(d.rows, p),
           NEW type \in ExpressionType, NEW x \in (DOMAIN d.rows \cap Variable) \cup {None},
           type = "variable" <=> x # None
    PROVE  isGood(put(d, e, expressionRow(p, parent, type, x)), a)
<1> DEFINE row == expressionRow(p, parent, type, x)
<1>1. sound(d.rows)
  BY DEF isGood
<1>2. parent # None => parent \in expressionsIn(d.rows) /\ d.rows[parent].premise = p
  BY <1>1, InSoundRows DEF expressionsOf
<1>3. parent \in Expression \cup {None} /\ parent # e
  BY <1>2, Disjoint DEF expressionsIn, Ids
<1>4. /\ isRowOf(e, row) /\ row.premise = p /\ row.parent = parent
      /\ references(row) = {p, parent, x} \ {None}
  BY <1>3, RowForExpression
<1> HIDE DEF row
<1>5. references(row) \subseteq DOMAIN d.rows
  BY <1>2, <1>4 DEF expressionsIn
<1>6. isForest(With(d.rows, e, row), expressionsIn(d.rows) \cup {e})
  BY <1>1, <1>3, <1>4, InSoundRows, LeafForest
<1>7. sound(With(d.rows, e, row))
  BY <1>1, <1>2, <1>3, <1>4, <1>5, <1>6, PutExpression
<1> QED
  BY <1>4, <1>7, PutDraft DEF isGood, row

LEMMA UpdateExpressionGood ==
    ASSUME NEW a, NEW d, isGood(d, a), NEW e \in ofKind(d.rows, "expressions"),
           d.rows[e].type = "variable", NEW x \in ofKind(d.rows, "variables")
    PROVE  isGood(put(d, e, [d.rows[e] EXCEPT !.variable = x]), a)
<1> DEFINE old == d.rows[e]
           row == [old EXCEPT !.variable = x]
<1>1. /\ sound(d.rows) /\ e \in expressionsIn(d.rows) /\ x \in DOMAIN d.rows \cap Variable
      /\ rowsOfTheirKind(d.rows) /\ closed(d.rows)
  BY InSoundRows DEF isGood
<1>2. /\ isRowOf(e, old) /\ e \in Expression /\ e \in DOMAIN d.rows
      /\ old.premise \in DOMAIN d.rows \cap Premise
      /\ old.parent # None => old.parent \in expressionsIn(d.rows)
  BY <1>1, ReferencesOfExpression DEF expressionsIn
<1>3. old \in ExpressionRow /\ old.parent \in Expression \cup {None}
  BY <1>2, RowOfExpression
<1>4. row = expressionRow(old.premise, old.parent, "variable", x)
  BY <1>3 DEF ExpressionRow, expressionRow
<1>5. x # None /\ x \in Variable \cup {None}
  BY <1>1, Disjoint DEF Ids
<1>6. /\ isRowOf(e, row) /\ row.premise = old.premise /\ row.parent = old.parent
      /\ references(row) = {old.premise, old.parent, x} \ {None}
  <2>1. PICK type \in ExpressionType : type = "variable" /\ (type = "variable" <=> x # None)
    <3>1. "variable" \in ExpressionType /\ ("variable" = "variable" <=> x # None)
      BY <1>5 DEF ExpressionType
    <3> QED
      BY <3>1
  <2>2. old.premise \in Premise /\ row = expressionRow(old.premise, old.parent, type, x)
    BY <1>2, <1>4, <2>1
  <2>3. PICK p \in Premise : p = old.premise
    BY <2>2
  <2>4. PICK parent \in Expression \cup {None} : parent = old.parent
    BY <1>3
  <2>5. PICK r : r = row
    OBVIOUS
  <2>6. r = expressionRow(p, parent, type, x)
    BY <2>2, <2>3, <2>4, <2>5
  <2>7. e \in Expression /\ x \in Variable \cup {None} /\ (type = "variable" <=> x # None)
    BY <1>2, <1>5, <2>1
  <2> HIDE DEF row, old
  <2>8. /\ isRowOf(e, r) /\ r.premise = p /\ r.parent = parent
        /\ references(r) = {p, parent, x} \ {None}
    BY <2>6, <2>7, RowForExpression
  <2> QED
    BY <2>3, <2>4, <2>5, <2>8
<1>7. row.parent # None => row.parent # e /\ d.rows[row.parent].premise = row.premise
  <2>1. isForest(d.rows, expressionsIn(d.rows)) /\ {e} \in SUBSET expressionsIn(d.rows)
    BY <1>1, InSoundRows
  <2>2. old.parent # e
    BY <2>1 DEF isForest
  <2>3. old.parent # None => d.rows[old.parent].premise = old.premise
    BY <1>1, InSoundRows DEF parentsInPremise
  <2> QED
    BY <1>6, <2>2, <2>3
<1> HIDE DEF row
<1>8. references(row) \subseteq DOMAIN d.rows
  BY <1>1, <1>2, <1>6 DEF expressionsIn
<1>9. isForest(With(d.rows, e, row), expressionsIn(d.rows) \cup {e})
  BY <1>1, <1>6, InSoundRows, SameForest
<1>10. sound(With(d.rows, e, row))
  BY <1>1, <1>2, <1>6, <1>7, <1>8, <1>9, PutExpression
<1> QED
  BY <1>6, <1>10, PutDraft DEF isGood, row

LEMMA InsertExpressionGood ==
    ASSUME NEW a, NEW d, isGood(d, a), NEW new \in Expression, new \notin DOMAIN d.rows,
           NEW e \in ofKind(d.rows, "expressions")
    PROVE  isGood(insertExpression(d, new, "not", e), a)
<1> DEFINE old == d.rows[e]
           above == expressionRow(old.premise, old.parent, "not", None)
           row == [old EXCEPT !.parent = new]
           d1 == put(d, new, above)
<1>1. /\ sound(d.rows) /\ e \in expressionsIn(d.rows) /\ rowsOfTheirKind(d.rows) /\ closed(d.rows)
      /\ isForest(d.rows, expressionsIn(d.rows)) /\ parentsInPremise(d.rows)
  BY InSoundRows DEF isGood
<1>2. /\ isRowOf(e, old) /\ e \in Expression /\ e \in DOMAIN d.rows /\ e # new
      /\ old.premise \in DOMAIN d.rows \cap Premise
      /\ old.parent # None => old.parent \in expressionsIn(d.rows)
      /\ old.variable # None => old.variable \in DOMAIN d.rows \cap Variable
  BY <1>1, ReferencesOfExpression DEF expressionsIn
<1>3. /\ old \in ExpressionRow /\ old.parent \in Expression \cup {None} /\ old.type \in ExpressionType
      /\ old.variable \in Variable \cup {None} /\ (old.type = "variable" <=> old.variable # None)
  BY <1>2, RowOfExpression DEF ExpressionRow
<1>4. row = expressionRow(old.premise, new, old.type, old.variable)
  BY <1>3 DEF ExpressionRow, expressionRow
<1>5. /\ isRowOf(e, row) /\ row.premise = old.premise /\ row.parent = new
      /\ references(row) = {old.premise, new, old.variable} \ {None}
  <2>1. old.premise \in Premise /\ new \in Expression \cup {None}
    BY <1>2
  <2>2. old.type = "variable" <=> old.variable # None
    BY <1>3
  <2> HIDE DEF row, old
  <2> QED
    BY <1>2, <1>3, <1>4, <2>1, <2>2, RowForExpression
<1>6. above.premise = old.premise /\ above.parent = old.parent
  BY DEF expressionRow
<1>7. old.parent = None \/ old.parent \in expressionsOf(d.rows, old.premise)
  <2>1. old.parent # None => d.rows[old.parent].premise = old.premise
    BY <1>1 DEF parentsInPremise
  <2> QED
    BY <1>1, <1>2, <2>1, KindsOfRows DEF expressionsOf, expressionsIn
<1>8. isGood(d1, a) /\ d1.rows = With(d.rows, new, above)
  <2>1. PICK type \in ExpressionType : type = "not" /\ (type = "variable" <=> None # None)
    <3>1. "not" \in ExpressionType /\ ("not" = "variable" <=> None # None)
      BY DEF ExpressionType
    <3> QED
      BY <3>1
  <2>2. above = expressionRow(old.premise, old.parent, type, None)
    BY <2>1
  <2>3. /\ old.premise \in Premise /\ None \in Variable \cup {None}
        /\ None \in (DOMAIN d.rows \cap Variable) \cup {None}
    BY <1>2
  <2> HIDE DEF old, above, d1
  <2>4. isRowOf(new, above)
    BY <1>3, <2>1, <2>2, <2>3, RowForExpression
  <2>5. isGood(d1, a)
    <3>1. isGood(put(d, new, expressionRow(old.premise, old.parent, type, None)), a)
      BY <1>2, <1>7, <2>1, <2>3, AddExpressionGood
    <3> QED
      BY <2>2, <3>1 DEF d1
  <2>6. d1.rows = With(d.rows, new, above)
    BY <2>4, PutDraft DEF isGood, d1
  <2> QED
    BY <2>5, <2>6
<1>9. isForest(With(With(d.rows, new, above), e, row), expressionsIn(d.rows) \cup {new})
  <2> HIDE DEF above, row, old
  <2> QED
    BY <1>1, <1>5, <1>6, AboveForest DEF old
<1>10. insertExpression(d, new, "not", e) = put(d1, e, row)
  BY DEF insertExpression
<1> HIDE DEF row, above, d1
<1>11. /\ DOMAIN d1.rows = DOMAIN d.rows \cup {new} /\ d1.rows[new] = above /\ d1.rows[e] = old
       /\ expressionsIn(d1.rows) \cup {e} = expressionsIn(d.rows) \cup {new}
  BY <1>1, <1>2, <1>8 DEF With, expressionsIn
<1>12. references(row) \subseteq DOMAIN d1.rows
  BY <1>2, <1>5, <1>11
<1>13. sound(With(d1.rows, e, row))
  <2>1. row.parent # e /\ d1.rows[row.parent].premise = row.premise /\ row.premise = d1.rows[e].premise
    BY <1>2, <1>5, <1>6, <1>11
  <2>2. isForest(With(d1.rows, e, row), expressionsIn(d1.rows) \cup {e})
    BY <1>8, <1>9, <1>11
  <2>3. sound(d1.rows)
    BY <1>8 DEF isGood
  <2> QED
    BY <1>2, <1>5, <1>12, <2>1, <2>2, <2>3, PutExpression
<1> QED
  BY <1>5, <1>8, <1>10, <1>13, PutDraft DEF isGood

\* What is below an expression: it and, with each of them, its children.
LEMMA SubtreeClosed ==
    ASSUME NEW rows, NEW e \in ofKind(rows, "expressions")
    PROVE  /\ e \in subtree(rows, e) /\ subtree(rows, e) \subseteq ofKind(rows, "expressions")
           /\ \A b \in subtree(rows, e) : childrenOf(rows, b) \subseteq subtree(rows, e)
<1>1. e \in subtree(rows, e) /\ subtree(rows, e) \subseteq ofKind(rows, "expressions")
  BY DEF subtree
<1>2. ASSUME NEW b \in subtree(rows, e), NEW c \in childrenOf(rows, b)
      PROVE  c \in subtree(rows, e)
  <2>1. c \in ofKind(rows, "expressions")
    BY DEF childrenOf
  <2>2. ASSUME NEW S \in SUBSET ofKind(rows, "expressions"), e \in S,
               \A f \in S : childrenOf(rows, f) \subseteq S
        PROVE  c \in S
    <3>1. b \in S
      BY <2>2 DEF subtree
    <3> QED
      BY <2>2, <3>1
  <2> QED
    BY <2>1, <2>2 DEF subtree
<1> QED
  BY <1>1, <1>2

LEMMA RemoveExpressionGood ==
    ASSUME NEW a, NEW d, isGood(d, a), d.rows = a, NEW e \in ofKind(d.rows, "expressions")
    PROVE  isGood(removeExpression(d, e), a)
<1> DEFINE ids == subtree(a, e)
           r == Without(a, ids)
<1>1. /\ sound(a) /\ rowsOfTheirKind(a) /\ closed(a) /\ Roles \in DOMAIN a
      /\ ofKind(a, "expressions") = expressionsIn(a)
  BY InSoundRows DEF isGood
<1>2. /\ ids \subseteq expressionsIn(a)
      /\ \A b \in ids, c \in expressionsIn(a) : a[c].parent = b => c \in ids
  BY <1>1, SubtreeClosed DEF childrenOf
<1> HIDE DEF ids
<1>3. isDraft(dropAll(d, ids), a) /\ dropAll(d, ids).rows = r
  BY <1>2, DropDraft DEF isGood, expressionsIn
<1>4. sound(r)
  <2>1. DOMAIN r = DOMAIN a \ ids /\ \A id \in DOMAIN r : r[id] = a[id]
    BY DEF Without
  <2>2. rowsOfTheirKind(r)
    BY <1>3 DEF isDraft
  <2>3. Roles \in DOMAIN r
    BY <1>1, <1>2, <2>1, Disjoint DEF expressionsIn
  <2> HIDE DEF r
  <2>4. ASSUME NEW id \in DOMAIN r
        PROVE  references(a[id]) \subseteq DOMAIN r
    <3>1. isRowOf(id, a[id]) /\ references(a[id]) \subseteq DOMAIN a
      BY <1>1, <2>1 DEF rowsOfTheirKind, closed
    <3>2. CASE id \in Expression
      <4>1. id \in expressionsIn(a) /\ id \notin ids
        BY <2>1, <3>2 DEF expressionsIn
      <4>2. a[id].parent \notin ids
        BY <1>2, <4>1
      <4>3. a[id].premise \notin ids /\ (a[id].variable # None => a[id].variable \notin ids)
        BY <1>1, <1>2, <4>1, ReferencesOfExpression, Disjoint DEF expressionsIn
      <4>4. references(a[id]) = {a[id].premise, a[id].parent, a[id].variable} \ {None}
        BY <3>1, <3>2, RowOfExpression
      <4> QED
        BY <2>1, <3>1, <4>2, <4>3, <4>4
    <3>3. CASE id \notin Expression
      <4>1. references(a[id]) \subseteq Premise
        BY <3>1, <3>3, KindOfRow, RowOfPremise, RowOfVariable, RowOfRoles DEF Ids
      <4> QED
        BY <1>2, <2>1, <3>1, <4>1, Disjoint DEF expressionsIn
    <3> QED
      BY <3>2, <3>3
  <2> QED
    BY <1>1, <2>1, <2>2, <2>3, <2>4, FewerRows
<1> QED
  BY <1>3, <1>4 DEF isGood, removeExpression, ids

\* What goes with the variables xs: they and what is below the expressions that
\* use them.
goesWith(rows, xs) ==
    xs \cup UNION {subtree(rows, e) : e \in UNION {usesOf(rows, x) : x \in xs}}

LEMMA GoesWith ==
    ASSUME NEW rows, rowsOfTheirKind(rows), NEW xs, xs \subseteq DOMAIN rows \cap Variable
    PROVE  /\ goesWith(rows, xs) \subseteq xs \cup expressionsIn(rows)
           /\ xs \subseteq goesWith(rows, xs)
           /\ \A c \in expressionsIn(rows) :
                 rows[c].parent \in goesWith(rows, xs) \cap Expression \/ rows[c].variable \in xs
                    => c \in goesWith(rows, xs)
<1> DEFINE used == UNION {usesOf(rows, x) : x \in xs}
<1>1. ofKind(rows, "expressions") = expressionsIn(rows)
  BY KindsOfRows DEF expressionsIn
<1>2. /\ used \subseteq expressionsIn(rows)
      /\ \A c \in expressionsIn(rows) : rows[c].variable \in xs => c \in used
  BY <1>1 DEF usesOf
<1>3. goesWith(rows, xs) = xs \cup UNION {subtree(rows, e) : e \in used}
  BY DEF goesWith
<1> HIDE DEF used
<1>4. \A e \in used : /\ e \in subtree(rows, e) /\ subtree(rows, e) \subseteq expressionsIn(rows)
                      /\ \A b \in subtree(rows, e) : childrenOf(rows, b) \subseteq subtree(rows, e)
  BY <1>1, <1>2, SubtreeClosed
<1>5. ASSUME NEW c \in expressionsIn(rows), rows[c].parent \in goesWith(rows, xs) \cap Expression
      PROVE  c \in goesWith(rows, xs)
  <2>1. rows[c].parent \notin xs
    BY <1>5, Disjoint
  <2>2. PICK e \in used : rows[c].parent \in subtree(rows, e)
    BY <1>3, <1>5, <2>1
  <2>3. c \in childrenOf(rows, rows[c].parent)
    BY <1>1 DEF childrenOf
  <2>4. c \in subtree(rows, e)
    BY <1>4, <2>2, <2>3
  <2> QED
    BY <1>3, <2>4
<1>6. ASSUME NEW c \in expressionsIn(rows), rows[c].variable \in xs
      PROVE  c \in goesWith(rows, xs)
  BY <1>2, <1>3, <1>4, <1>6
<1> QED
  BY <1>3, <1>4, <1>5, <1>6

LEMMA RemoveVariablesGood ==
    ASSUME NEW a, NEW d, isGood(d, a), d.rows = a, NEW x \in ofKind(d.rows, "variables")
    PROVE  isGood(removeVariables(d, {x}), a)
<1> DEFINE ids == goesWith(a, {x})
           r == Without(a, ids)
<1>1. /\ sound(a) /\ rowsOfTheirKind(a) /\ closed(a) /\ Roles \in DOMAIN a
      /\ x \in DOMAIN a \cap Variable
  BY InSoundRows DEF isGood
<1>2. /\ ids \subseteq {x} \cup expressionsIn(a)
      /\ \A c \in expressionsIn(a) :
            a[c].parent \in ids \cap Expression \/ a[c].variable = x => c \in ids
  BY <1>1, GoesWith
<1>3. removeVariables(d, {x}) = dropAll(d, ids)
  BY DEF removeVariables, goesWith
<1> HIDE DEF ids
<1>4. isDraft(dropAll(d, ids), a) /\ dropAll(d, ids).rows = r
  BY <1>1, <1>2, DropDraft DEF isGood, expressionsIn
<1>5. sound(r)
  <2>1. DOMAIN r = DOMAIN a \ ids /\ \A id \in DOMAIN r : r[id] = a[id]
    BY DEF Without
  <2>2. rowsOfTheirKind(r)
    BY <1>4 DEF isDraft
  <2>3. Roles \in DOMAIN r
    BY <1>1, <1>2, <2>1, Disjoint DEF expressionsIn
  <2> HIDE DEF r
  <2>4. ASSUME NEW id \in DOMAIN r
        PROVE  references(a[id]) \subseteq DOMAIN r
    <3>1. isRowOf(id, a[id]) /\ references(a[id]) \subseteq DOMAIN a
      BY <1>1, <2>1 DEF rowsOfTheirKind, closed
    <3>2. CASE id \in Expression
      <4>1. id \in expressionsIn(a) /\ id \notin ids
        BY <2>1, <3>2 DEF expressionsIn
      <4>2. a[id].variable # x /\ a[id].parent \notin ids \cap Expression
        BY <1>2, <4>1
      <4>3. /\ a[id].premise \in Premise
            /\ a[id].parent # None => a[id].parent \in Expression
            /\ a[id].variable # None => a[id].variable \in Variable
        BY <1>1, <4>1, ReferencesOfExpression DEF expressionsIn
      <4>4. references(a[id]) = {a[id].premise, a[id].parent, a[id].variable} \ {None}
        BY <3>1, <3>2, RowOfExpression
      <4>5. references(a[id]) \cap ids = {}
        BY <1>1, <1>2, <4>2, <4>3, <4>4, Disjoint DEF expressionsIn
      <4> QED
        BY <2>1, <3>1, <4>5
    <3>3. CASE id \notin Expression
      <4>1. references(a[id]) \subseteq Premise
        BY <3>1, <3>3, KindOfRow, RowOfPremise, RowOfVariable, RowOfRoles DEF Ids
      <4> QED
        BY <1>1, <1>2, <2>1, <3>1, <4>1, Disjoint DEF expressionsIn
    <3> QED
      BY <3>2, <3>3
  <2> QED
    BY <1>1, <2>1, <2>2, <2>3, <2>4, FewerRows
<1> QED
  BY <1>3, <1>4, <1>5 DEF isGood

LEMMA RemovePremiseGood ==
    ASSUME NEW a, NEW d, isGood(d, a), d.rows = a, NEW p \in ofKind(d.rows, "premises")
    PROVE  isGood(removePremise(d, p), a)
<1> DEFINE es == expressionsOf(a, p)
           d1 == dropAll(d, es)
           bare == drop(d1, p)
           left == ofKind(bare.rows, "premises")
           kept == IF conclusionOf(a) # p THEN bare
                   ELSE setRoles(bare, IF left = {} THEN None ELSE CHOOSE q \in left : TRUE)
           xs == {x \in ofKind(a, "variables") : a[x].bound = p}
           ids == goesWith(kept.rows, xs)
           r == Without(kept.rows, ids)
<1>1. /\ sound(a) /\ rowsOfTheirKind(a) /\ closed(a) /\ Roles \in DOMAIN a
      /\ p \in DOMAIN a \cap Premise
      /\ es = {e \in expressionsIn(a) : a[e].premise = p}
      /\ xs = {x \in DOMAIN a \cap Variable : a[x].bound = p}
  BY InSoundRows DEF isGood, expressionsOf
<1>2. removePremise(d, p) = dropAll(kept, ids)
  BY DEF removePremise, removeVariables, goesWith
<1>3. /\ isDraft(d1, a) /\ DOMAIN d1.rows = DOMAIN a \ es
      /\ \A id \in DOMAIN d1.rows : d1.rows[id] = a[id]
  <2>1. es \subseteq DOMAIN a
    BY <1>1 DEF expressionsIn
  <2> HIDE DEF es
  <2>2. isDraft(d1, a) /\ d1.rows = Without(a, es)
    BY <2>1, DropDraft DEF isGood
  <2> QED
    BY <2>2 DEF Without
<1> HIDE DEF es, d1
<1>4. /\ isDraft(bare, a) /\ DOMAIN bare.rows = DOMAIN a \ (es \cup {p})
      /\ \A id \in DOMAIN bare.rows : bare.rows[id] = a[id]
  <2>1. p \in DOMAIN d1.rows
    BY <1>1, <1>3, Disjoint DEF expressionsIn
  <2>2. isDraft(dropAll(d1, {p}), a) /\ dropAll(d1, {p}).rows = Without(d1.rows, {p})
    BY <1>1, <1>3, <2>1, DropDraft
  <2> QED
    BY <1>3, <2>2 DEF Without, drop
<1> HIDE DEF bare
<1>5. Roles \in DOMAIN bare.rows
  BY <1>1, <1>4, Disjoint DEF expressionsIn
<1>6. /\ isDraft(kept, a) /\ DOMAIN kept.rows = DOMAIN bare.rows
      /\ \A id \in DOMAIN kept.rows \ {Roles} : kept.rows[id] = a[id]
  <2>1. CASE conclusionOf(a) # p
    BY <1>4, <2>1
  <2>2. CASE conclusionOf(a) = p
    <3>1. PICK c \in Premise \cup {None} :
              c = IF left = {} THEN None ELSE CHOOSE q \in left : TRUE
      <4>1. left \subseteq Premise
        BY <1>4, KindsOfRows DEF isDraft
      <4> QED
        BY <4>1
    <3>2. kept = put(bare, Roles, rolesRow(c))
      BY <2>2, <3>1 DEF setRoles
    <3>3. isRowOf(Roles, rolesRow(c))
      BY Rows
    <3> HIDE DEF kept
    <3>4. isDraft(kept, a) /\ kept.rows = With(bare.rows, Roles, rolesRow(c))
      BY <1>4, <3>2, <3>3, PutDraft
    <3> QED
      BY <1>4, <1>5, <3>4 DEF With
  <2> QED
    BY <2>1, <2>2
<1> HIDE DEF kept
<1>7. DOMAIN kept.rows = DOMAIN a \ (es \cup {p}) /\ rowsOfTheirKind(kept.rows)
  BY <1>4, <1>6 DEF isDraft
<1>8. xs \subseteq DOMAIN kept.rows \cap Variable /\ xs \subseteq DOMAIN a
  BY <1>1, <1>7, Disjoint DEF expressionsIn
<1> HIDE DEF xs
<1>9. /\ ids \subseteq xs \cup expressionsIn(kept.rows) /\ xs \subseteq ids
      /\ \A c \in expressionsIn(kept.rows) :
            kept.rows[c].parent \in ids \cap Expression \/ kept.rows[c].variable \in xs
               => c \in ids
  BY <1>7, <1>8, GoesWith
<1> HIDE DEF ids
<1>10. isDraft(dropAll(kept, ids), a) /\ dropAll(kept, ids).rows = r
  <2>1. ids \subseteq DOMAIN kept.rows /\ Roles \notin ids
    BY <1>8, <1>9, Disjoint DEF expressionsIn
  <2>2. \A id \in ids : id \in DOMAIN a /\ kept.rows[id] = a[id]
    BY <1>6, <1>7, <2>1
  <2> QED
    BY <1>6, <2>1, <2>2, DropDraft
<1>11. sound(r)
  <2>1. /\ DOMAIN r = DOMAIN a \ (es \cup {p} \cup ids)
        /\ \A id \in DOMAIN r \ {Roles} : r[id] = a[id]
    BY <1>6, <1>7 DEF Without
  <2>2. rowsOfTheirKind(r)
    BY <1>10 DEF isDraft
  <2>3. Roles \in DOMAIN r
    BY <1>1, <1>8, <1>9, <2>1, Disjoint DEF expressionsIn
  <2> HIDE DEF r
  <2>4. ASSUME NEW id \in DOMAIN r \ {Roles}
        PROVE  references(a[id]) \subseteq DOMAIN r
    <3>1. isRowOf(id, a[id]) /\ references(a[id]) \subseteq DOMAIN a /\ id \in DOMAIN a
      BY <1>1, <2>1 DEF rowsOfTheirKind, closed
    <3>2. ids \subseteq Variable \cup Expression /\ es \subseteq Expression /\ ids \cap Variable = xs
      BY <1>1, <1>8, <1>9, Disjoint DEF expressionsIn
    <3>3. CASE id \in Expression
      <4>1. id \in expressionsIn(a) /\ id \notin es /\ id \notin ids
        BY <2>1, <3>3 DEF expressionsIn
      <4>2. id \in expressionsIn(kept.rows) /\ kept.rows[id] = a[id]
        BY <1>6, <1>7, <2>1, <3>3, <4>1 DEF expressionsIn
      <4>3. a[id].variable \notin xs /\ a[id].parent \notin ids \cap Expression
        BY <1>9, <4>1, <4>2
      <4>4. /\ a[id].premise \in Premise /\ a[id].premise # p
            /\ a[id].parent # None => a[id].parent \in expressionsIn(a)
            /\ a[id].variable # None => a[id].variable \in Variable
        BY <1>1, <4>1, ReferencesOfExpression DEF expressionsIn
      <4>5. a[id].parent # None => a[id].parent \notin es
        BY <1>1, <4>1, <4>4, InSoundRows DEF parentsInPremise
      <4>6. references(a[id]) = {a[id].premise, a[id].parent, a[id].variable} \ {None}
        BY <3>1, <3>3, RowOfExpression
      <4>7. a[id].premise \notin es \cup {p} \cup ids
        BY <3>2, <4>4, Disjoint
      <4>8. a[id].parent # None => a[id].parent \notin es \cup {p} \cup ids
        BY <1>1, <4>3, <4>4, <4>5, Disjoint DEF expressionsIn
      <4>9. a[id].variable # None => a[id].variable \notin es \cup {p} \cup ids
        BY <1>1, <3>2, <4>3, <4>4, Disjoint
      <4> QED
        BY <2>1, <3>1, <4>6, <4>7, <4>8, <4>9
    <3>4. CASE id \in Variable
      <4>1. id \notin xs
        BY <1>9, <2>1
      <4>2. a[id].bound # p
        BY <1>1, <3>1, <3>4, <4>1 DEF xs
      <4>3. references(a[id]) \subseteq Premise \ {p}
        BY <3>1, <3>4, <4>2, RowOfVariable
      <4> QED
        BY <2>1, <3>1, <3>2, <4>3, Disjoint
    <3>5. CASE id \in Premise
      BY <3>1, <3>5, RowOfPremise
    <3> QED
      BY <3>1, <3>3, <3>4, <3>5, KindOfRow DEF Ids
  <2> QED
    BY <1>1, <2>1, <2>2, <2>3, <2>4, FewerRows
<1> QED
  BY <1>2, <1>10, <1>11 DEF isGood

LEMMA PromoteGood ==
    ASSUME NEW a, NEW d, isGood(d, a), d.rows = a, NEW e \in ofKind(d.rows, "expressions"),
           NEW c, childrenOf(d.rows, e) = {c}
    PROVE  isGood(promote(d, e, c), a)
<1> DEFINE row == [a[c] EXCEPT !.parent = a[e].parent]
           d1 == put(d, c, row)
           r == Without(With(a, c, row), {e})
<1>1. /\ sound(a) /\ rowsOfTheirKind(a) /\ closed(a) /\ Roles \in DOMAIN a
      /\ parentsInPremise(a) /\ isForest(a, expressionsIn(a)) /\ e \in expressionsIn(a)
      /\ ofKind(a, "expressions") = expressionsIn(a)
  BY InSoundRows DEF isGood
<1>2. /\ c \in expressionsIn(a) /\ a[c].parent = e
      /\ \A b \in expressionsIn(a) : a[b].parent = e => b = c
  BY <1>1 DEF childrenOf
<1>3. /\ c \in Expression /\ e \in Expression /\ isRowOf(c, a[c]) /\ isRowOf(e, a[e])
      /\ a[c] \in ExpressionRow /\ a[e].parent \in Expression \cup {None}
  BY <1>1, <1>2, ReferencesOfExpression, RowOfExpression DEF expressionsIn
<1>4. /\ isRowOf(c, row) /\ row.parent = a[e].parent /\ row.premise = a[c].premise
      /\ row.variable = a[c].variable
  <2>1. /\ row \in ExpressionRow /\ row.parent = a[e].parent /\ row.premise = a[c].premise
        /\ row.variable = a[c].variable /\ row.type = a[c].type
    BY <1>3 DEF ExpressionRow
  <2>2. a[c].type = "variable" <=> a[c].variable # None
    BY <1>3, RowOfExpression
  <2> HIDE DEF row
  <2> QED
    BY <1>3, <2>1, <2>2 DEF isRowOf
<1> HIDE DEF row
<1>5. c # e /\ isForest(r, expressionsIn(r))
  BY <1>1, <1>2, <1>4, PromotedForest
<1>6. isDraft(d1, a) /\ d1.rows = With(a, c, row)
  BY <1>4, PutDraft DEF isGood
<1> HIDE DEF d1
<1>7. isDraft(drop(d1, e), a) /\ drop(d1, e).rows = r
  <2>1. {e} \subseteq DOMAIN d1.rows /\ d1.rows[e] = a[e] /\ e \in DOMAIN a
    BY <1>1, <1>5, <1>6 DEF With, expressionsIn
  <2> QED
    BY <1>6, <2>1, DropDraft DEF drop
<1>8. /\ DOMAIN r = DOMAIN a \ {e} /\ r[c] = row
      /\ \A id \in DOMAIN r \ {c} : r[id] = a[id]
      /\ expressionsIn(r) = expressionsIn(a) \ {e}
  BY <1>1, <1>2, <1>5 DEF With, Without, expressionsIn
<1> HIDE DEF r
<1>9. rowsOfTheirKind(r)
  BY <1>7 DEF isDraft
<1>10. a[e].parent # e /\ (a[e].parent # None => a[e].parent \in expressionsIn(r))
  <2>1. a[e].parent # e
    <3>1. {e} \in SUBSET expressionsIn(a)
      BY <1>1
    <3> QED
      BY <1>1, <3>1 DEF isForest
  <2> QED
    BY <1>1, <1>8, <2>1, ReferencesOfExpression
<1>11. \A b \in expressionsIn(r) : r[b].premise = a[b].premise
  BY <1>4, <1>8 DEF expressionsIn
<1>12. closed(r)
  <2> SUFFICES ASSUME NEW id \in DOMAIN r PROVE references(r[id]) \subseteq DOMAIN r
    BY DEF closed
  <2>1. isRowOf(id, r[id]) /\ id \in DOMAIN a
    BY <1>8, <1>9 DEF rowsOfTheirKind
  <2>2. CASE id \in Expression
    <3>1. id \in expressionsIn(a)
      BY <1>8, <2>2 DEF expressionsIn
    <3>2. /\ r[id].premise = a[id].premise /\ r[id].variable = a[id].variable
          /\ r[id].parent # None => r[id].parent \in expressionsIn(r)
      <4>1. CASE id = c
        BY <1>4, <1>8, <1>10, <4>1
      <4>2. CASE id # c
        BY <1>1, <1>2, <1>8, <3>1, <4>2, ReferencesOfExpression DEF expressionsIn
      <4> QED
        BY <4>1, <4>2
    <3>3. /\ a[id].premise \in DOMAIN a \cap Premise
          /\ a[id].variable # None => a[id].variable \in DOMAIN a \cap Variable
      BY <1>1, <3>1, ReferencesOfExpression
    <3>4. references(r[id]) = {r[id].premise, r[id].parent, r[id].variable} \ {None}
      BY <2>1, <2>2, RowOfExpression
    <3>5. a[id].premise \in DOMAIN r /\ (a[id].variable # None => a[id].variable \in DOMAIN r)
      BY <1>3, <1>8, <3>3, Disjoint
    <3> QED
      BY <3>2, <3>4, <3>5 DEF expressionsIn
  <2>3. CASE id \notin Expression
    <3>1. r[id] = a[id]
      BY <1>3, <1>8, <2>3
    <3>2. references(a[id]) \subseteq Premise
      BY <2>1, <2>3, <3>1, KindOfRow, RowOfPremise, RowOfVariable, RowOfRoles DEF Ids
    <3> QED
      BY <1>1, <1>3, <1>8, <2>1, <3>1, <3>2, Disjoint DEF closed
  <2> QED
    BY <2>2, <2>3
<1>13. parentsInPremise(r)
  <2> SUFFICES ASSUME NEW b \in expressionsIn(r), r[b].parent # None
               PROVE  r[r[b].parent].premise = r[b].premise
    BY DEF parentsInPremise
  <2>1. r[b].parent \in expressionsIn(r) /\ b \in expressionsIn(a)
    BY <1>8, <1>9, <1>12, ReferencesOfExpression
  <2>2. a[r[b].parent].premise = a[b].premise
    <3>1. CASE b = c
      BY <1>1, <1>2, <1>3, <1>4, <1>8, <2>1, <3>1, Disjoint DEF parentsInPremise, Ids
    <3>2. CASE b # c
      BY <1>1, <1>8, <2>1, <3>2 DEF parentsInPremise, expressionsIn
    <3> QED
      BY <3>1, <3>2
  <2> QED
    BY <1>11, <2>1, <2>2
<1>14. Roles \in DOMAIN r
  BY <1>1, <1>3, <1>8, Disjoint
<1>15. sound(r)
  BY <1>5, <1>9, <1>12, <1>13, <1>14, SoundRows DEF r
<1>16. promote(d, e, c) = drop(d1, e)
  BY DEF promote, row, d1
<1> QED
  BY <1>7, <1>15, <1>16 DEF isGood

\* Every call the engine can make is good.
LEMMA EditedGood ==
    ASSUME NEW d, sound(d.rows), d = [rows |-> d.rows, changes |-> noChanges], NEW t \in edited(d)
    PROVE  isGood(t, d.rows)
<1> DEFINE a == d.rows
           freeIn(p) ==
        {e \in expressionsOf(a, p) : a[e].type # "variable" /\ ~childLimitReached(a, e)}
            \cup (IF rootsOf(a, p) = {} THEN {None} ELSE {})
<1>1. d.rows = a /\ isGood(d, a)
  <2>1. isDraft(d, a)
    BY InSoundRows, DraftToBegin
  <2> QED
    BY <2>1 DEF isGood
<1>2. /\ ofKind(a, "premises") = DOMAIN a \cap Premise
      /\ ofKind(a, "variables") = DOMAIN a \cap Variable
      /\ ofKind(a, "expressions") = DOMAIN a \cap Expression
  BY InSoundRows DEF expressionsIn
<1>3. \A x : freeSymbols(a, x) \subseteq Symbol
  BY DEF freeSymbols
<1>4. CASE \E p \in Premise \ ofKind(a, "premises"), x \in Variable \ ofKind(a, "variables"),
              s \in freeSymbols(a, None) : t = createPremise(d, p, x, s)
  BY <1>1, <1>3, <1>4, CreatePremiseGood
<1>5. CASE \E p \in ofKind(a, "premises") : t = removePremise(d, p)
  BY <1>1, <1>5, RemovePremiseGood
<1>6. CASE \E p \in ofKind(a, "premises") : t = setConclusionPremise(d, p)
  BY <1>1, <1>2, <1>6, SetRolesGood DEF setConclusionPremise
<1>7. CASE t = clearConclusionPremise(d)
  <2>1. None \in Premise \cup {None}
    OBVIOUS
  <2>2. t = d \/ t = setRoles(d, None)
    BY <1>7 DEF clearConclusionPremise
  <2> QED
    BY <1>1, <2>1, <2>2, SetRolesGood
<1>8. CASE t \in addVariable(d)
  <2>1. PICK x \in Variable, s \in Symbol, b \in (DOMAIN a \cap Premise) \cup {None} :
            t = put(d, x, variableRow(s, b))
    BY <1>1, <1>2, <1>3, <1>8 DEF addVariable
  <2> QED
    BY <1>1, <2>1, PutVariableGood
<1>9. CASE \E x \in ofKind(a, "variables") : t = removeVariables(d, {x})
  BY <1>1, <1>9, RemoveVariablesGood
<1>10. CASE \E x \in ofKind(a, "variables") : t \in updateVariable(d, x)
  BY <1>1, <1>10, UpdateVariableGood
<1>11. CASE \E p \in ofKind(a, "premises"), e \in Expression \ ofKind(a, "expressions"),
               x \in ofKind(a, "variables") : \E parent \in freeIn(p) :
                 t = put(d, e, expressionRow(p, parent, "variable", x))
  <2>1. PICK p \in ofKind(a, "premises"), e \in Expression \ ofKind(a, "expressions"),
             x \in ofKind(a, "variables") :
               \E parent \in freeIn(p) :
                 t = put(d, e, expressionRow(p, parent, "variable", x))
    BY <1>11
  <2>2. PICK parent \in freeIn(p) : t = put(d, e, expressionRow(p, parent, "variable", x))
    BY <2>1
  <2>4. PICK type \in ExpressionType : type = "variable"
    BY DEF ExpressionType
  <2>3. /\ e \in Expression /\ e \notin DOMAIN d.rows /\ p \in DOMAIN d.rows \cap Premise
        /\ parent = None \/ parent \in expressionsOf(d.rows, p)
        /\ x \in (DOMAIN d.rows \cap Variable) \cup {None}
        /\ type = "variable" <=> x # None
        /\ t = put(d, e, expressionRow(p, parent, type, x))
    BY <1>1, <1>2, <2>1, <2>2, <2>4, Disjoint DEF Ids
  <2> QED
    BY <1>1, <2>3, AddExpressionGood
<1>12. CASE \E p \in ofKind(a, "premises"), e \in Expression \ ofKind(a, "expressions"),
               type \in {"and", "not"} : \E parent \in freeIn(p) :
                 t = put(d, e, expressionRow(p, parent, type, None))
  <2>1. PICK p \in ofKind(a, "premises"), e \in Expression \ ofKind(a, "expressions"),
             type \in {"and", "not"} : \E parent \in freeIn(p) :
                 t = put(d, e, expressionRow(p, parent, type, None))
    BY <1>12
  <2>4. PICK parent \in freeIn(p) : t = put(d, e, expressionRow(p, parent, type, None))
    BY <2>1
  <2>2. PICK x \in (DOMAIN d.rows \cap Variable) \cup {None} : x = None
    OBVIOUS
  <2>3. /\ e \in Expression /\ e \notin DOMAIN d.rows /\ p \in DOMAIN d.rows \cap Premise
        /\ parent = None \/ parent \in expressionsOf(d.rows, p)
        /\ type \in ExpressionType
        /\ type = "variable" <=> x # None
        /\ t = put(d, e, expressionRow(p, parent, type, x))
    BY <1>1, <1>2, <2>1, <2>2, <2>4 DEF ExpressionType
  <2> QED
    BY <1>1, <2>2, <2>3, AddExpressionGood
<1>13. CASE \E e \in ofKind(a, "expressions") : t = removeExpression(d, e)
  BY <1>1, <1>13, RemoveExpressionGood
<1>14. CASE \E new \in Expression \ ofKind(a, "expressions"), e \in ofKind(a, "expressions") :
               t = insertExpression(d, new, "not", e)
  BY <1>1, <1>2, <1>14, InsertExpressionGood
<1>15. CASE \E e \in ofKind(a, "expressions") :
               /\ Cardinality(childrenOf(a, e)) = 1
               /\ t = promote(d, e, CHOOSE c \in childrenOf(a, e) : TRUE)
  <2>1. PICK e \in ofKind(a, "expressions") :
            /\ Cardinality(childrenOf(a, e)) = 1
            /\ t = promote(d, e, CHOOSE c \in childrenOf(a, e) : TRUE)
    BY <1>15
  <2>2. IsFiniteSet(childrenOf(a, e))
    <3>1. childrenOf(a, e) \in SUBSET Expression
      BY <1>2 DEF childrenOf
    <3> QED
      BY <3>1, PersistenceAssumption, FS_Subset
  <2>3. PICK c : childrenOf(a, e) = {c}
    BY <2>1, <2>2, FS_Singleton
  <2> QED
    BY <1>1, <2>1, <2>3, PromoteGood
<1> HIDE DEF freeIn
<1> DEFINE variables == ofKind(a, "variables")
           premises == ofKind(a, "premises")
           expressions == ofKind(a, "expressions")
           fresh == Expression \ expressions
           creating == {createPremise(d, p, x, s) : p \in Premise \ premises,
                            x \in Variable \ variables, s \in freeSymbols(a, None)}
           usingVariable(p) == {put(d, e, expressionRow(p, parent, "variable", x)) :
                                   e \in fresh, x \in variables, parent \in freeIn(p)}
           withOperator(p) == {put(d, e, expressionRow(p, parent, type, None)) :
                                  e \in fresh, type \in {"and", "not"}, parent \in freeIn(p)}
           otherVariable == {put(d, e, [a[e] EXCEPT !.variable = x]) :
                                e \in {f \in expressions : a[f].type = "variable"}, x \in variables}
           promoting == {promote(d, e, CHOOSE c \in childrenOf(a, e) : TRUE) :
                            e \in {f \in expressions : Cardinality(childrenOf(a, f)) = 1}}
<1>16. \/ t \in creating
       \/ t \in {removePremise(d, p) : p \in premises}
       \/ t \in {setConclusionPremise(d, p) : p \in premises}
       \/ t = clearConclusionPremise(d)
       \/ t \in addVariable(d)
       \/ t \in {removeVariables(d, {x}) : x \in variables}
       \/ t \in UNION {updateVariable(d, x) : x \in variables}
       \/ t \in UNION {usingVariable(p) : p \in premises}
       \/ t \in UNION {withOperator(p) : p \in premises}
       \/ t \in otherVariable
       \/ t \in {removeExpression(d, e) : e \in expressions}
       \/ t \in {insertExpression(d, new, "not", e) : new \in fresh, e \in expressions}
       \/ t \in promoting
  BY <1>1, SMTT(30) DEF edited, freeIn
<1>17. CASE t \in creating
  BY <1>4, <1>17
<1>18. CASE t \in UNION {usingVariable(p) : p \in premises}
  <2>1. PICK p \in premises : t \in usingVariable(p)
    BY <1>18
  <2> QED
    BY <1>11, <2>1
<1>19. CASE t \in UNION {withOperator(p) : p \in premises}
  <2>1. PICK p \in premises : t \in withOperator(p)
    BY <1>19
  <2> QED
    BY <1>12, <2>1
<1>20. CASE t \in otherVariable
  <2>1. PICK e \in expressions, x \in variables :
            a[e].type = "variable" /\ t = put(d, e, [a[e] EXCEPT !.variable = x])
    BY <1>20
  <2> QED
    BY <2>1, <1>1, UpdateExpressionGood
<1>21. CASE t \in promoting
  BY <1>15, <1>21
<1>22. CASE t \in {insertExpression(d, new, "not", e) : new \in fresh, e \in expressions}
  BY <1>14, <1>22
<1>23. CASE t \in UNION {updateVariable(d, x) : x \in variables}
  BY <1>10, <1>23
<1> HIDE DEF creating, usingVariable, withOperator, otherVariable, promoting
<1> QED
  BY <1>5, <1>6, <1>7, <1>8, <1>9, <1>13, <1>16, <1>17, <1>18, <1>19, <1>20, <1>21, <1>22, <1>23

\* The rows removed since the last commit, as they were when they were removed,
\* are a forest.
RemovedForest(changes) ==
    \A T \in SUBSET listed(changes, "expressions", "removed") :
        T # {} => \E e \in T : changes[e].row.parent \notin T

LEMMA RemovedForestGrows ==
    ASSUME NEW f, NEW g, NEW a, NEW b, NEW c, Tells(f, a, b), Tells(g, b, c),
           RemovedForest(f), RemovesAsWas(g, b), sound(b)
    PROVE  RemovedForest(composeChangesets(f, g))
<1> DEFINE undone == {id \in DOMAIN f \cap DOMAIN g :
                         f[id].bucket = "added" /\ g[id].bucket = "removed"}
           h == composeChangesets(f, g)
<1>1. h = [id \in (DOMAIN f \cup DOMAIN g) \ undone |->
              IF id \notin DOMAIN g THEN f[id]
              ELSE IF id \notin DOMAIN f THEN g[id]
              ELSE recordEntityChange(f[id], g[id])]
  BY DEF composeChangesets
<1> HIDE DEF h
<1>2. Tells(h, a, c)
  BY ComposedTell DEF h
<1>3. /\ rowsOfTheirKind(b) /\ closed(b) /\ isForest(b, expressionsIn(b))
  BY InSoundRows
<1>4. ASSUME NEW id \in listed(h, "expressions", "removed"), id \in DOMAIN g
      PROVE  id \in expressionsIn(b) /\ h[id].row = b[id]
  <2>1. /\ id \in DOMAIN h /\ h[id].bucket = "removed" /\ h[id].row.kind = "expressions"
        /\ isRowOf(id, h[id].row)
    BY <1>2 DEF listed, Tells, isEntry
  <2>2. id \in Expression
    BY <2>1, KindOfRow
  <2>3. g[id].bucket = "removed" /\ h[id].row = g[id].row
    <3>1. CASE id \notin DOMAIN f
      BY <1>1, <1>4, <2>1, <3>1
    <3>2. CASE id \in DOMAIN f
      <4>1. PICK e : e = f[id] /\ isEntry(id, e)
        BY <3>2 DEF Tells
      <4>2. PICK k : k = g[id] /\ isEntry(id, k)
        BY <1>4 DEF Tells
      <4>3. h[id] = recordEntityChange(e, k)
        BY <1>1, <1>4, <2>1, <3>2, <4>1, <4>2
      <4>4. isEntry(id, e) /\ isEntry(id, k)
        BY <4>1, <4>2
      <4>5. h[id].row = k.row /\ h[id].bucket = nextBucket(e.bucket, k.bucket)
        BY <4>3, <4>4, EntryOnTop
      <4>6. k.bucket = "removed"
        BY <2>1, <4>2, <4>5 DEF nextBucket, isEntry
      <4> QED
        BY <4>2, <4>5, <4>6
    <3> QED
      BY <3>1, <3>2
  <2>4. id \in DOMAIN b /\ g[id].row = b[id]
    BY <1>4, <2>3 DEF Tells, RemovesAsWas
  <2> QED
    BY <2>2, <2>3, <2>4 DEF expressionsIn
<1>5. ASSUME NEW id \in listed(h, "expressions", "removed"), id \notin DOMAIN g
      PROVE  /\ id \in listed(f, "expressions", "removed") /\ h[id].row = f[id].row
             /\ id \notin DOMAIN b /\ id # None
  <2>1. /\ id \in DOMAIN h /\ h[id].bucket = "removed" /\ h[id].row.kind = "expressions"
        /\ isRowOf(id, h[id].row)
    BY <1>2 DEF listed, Tells, isEntry
  <2>2. id \in DOMAIN f /\ h[id] = f[id]
    BY <1>1, <1>5, <2>1
  <2>3. id # None
    BY <2>1, KindOfRow, Disjoint
  <2>4. id \notin DOMAIN b
    BY <2>1, <2>2 DEF Tells
  <2> QED
    BY <2>1, <2>2, <2>3, <2>4 DEF listed
<1>6. SUFFICES ASSUME NEW T \in SUBSET listed(h, "expressions", "removed"), T # {}
               PROVE  \E e \in T : h[e].row.parent \notin T
  BY DEF RemovedForest, h
<1>7. CASE T \cap DOMAIN g = {}
  <2>1. T \in SUBSET listed(f, "expressions", "removed")
    BY <1>5, <1>6, <1>7
  <2>2. PICK e \in T : f[e].row.parent \notin T
    BY <1>6, <2>1 DEF RemovedForest
  <2> QED
    BY <1>5, <1>6, <1>7, <2>2
<1>8. CASE T \cap DOMAIN g # {}
  <2>1. T \cap DOMAIN g \in SUBSET expressionsIn(b)
    BY <1>4, <1>6
  <2>2. PICK e \in T \cap DOMAIN g : b[e].parent \notin T \cap DOMAIN g
    BY <1>3, <1>8, <2>1 DEF isForest
  <2>3. b[e].parent = None \/ b[e].parent \in DOMAIN b
    BY <1>3, <2>1, <2>2, ReferencesOfExpression DEF expressionsIn
  <2>4. b[e].parent \notin T
    <3>1. ASSUME b[e].parent \in T
          PROVE  FALSE
      <4>1. b[e].parent \notin DOMAIN g
        BY <2>2, <3>1
      <4>2. b[e].parent \notin DOMAIN b /\ b[e].parent # None
        BY <1>5, <1>6, <3>1, <4>1
      <4> QED
        BY <2>3, <4>2
    <3> QED
      BY <3>1
  <2> QED
    BY <1>4, <1>6, <2>2, <2>4
<1> QED
  BY <1>7, <1>8

(***************************************************************************)
(* A changeset and the states before and after it.                         *)
(***************************************************************************)
isChange(changes, a, b) ==
    sound(a) /\ sound(b) /\ Tells(changes, a, b) /\ RemovedForest(changes)

premisesAdded(changes) == listed(changes, "premises", "added")
premisesRemoved(changes) == listed(changes, "premises", "removed")
premisesModified(changes) == listed(changes, "premises", "modified")
variablesAdded(changes) == listed(changes, "variables", "added")
variablesRemoved(changes) == listed(changes, "variables", "removed")
variablesModified(changes) == listed(changes, "variables", "modified")
expressionsAdded(changes) == listed(changes, "expressions", "added")
expressionsRemoved(changes) == listed(changes, "expressions", "removed")
expressionsModified(changes) == listed(changes, "expressions", "modified")
rolesModified(changes) == listed(changes, "roles", "modified")

\* The rows of a kind are those of the ids in I.
kindOfIds(kind, I) == \A id, row : isRowOf(id, row) => (id \in I <=> row.kind = kind)

LEMMA ListedOfKind ==
    ASSUME NEW changes, NEW a, NEW b, isChange(changes, a, b),
           NEW kind, NEW I, kindOfIds(kind, I)
    PROVE  /\ listed(changes, kind, "added") = I \cap (DOMAIN b \ DOMAIN a)
           /\ listed(changes, kind, "removed") = I \cap (DOMAIN a \ DOMAIN b)
           /\ listed(changes, kind, "modified") \subseteq I \cap DOMAIN a \cap DOMAIN b
           /\ \A id \in I \cap DOMAIN a \cap DOMAIN b :
                 a[id] # b[id] => id \in listed(changes, kind, "modified")
<1>1. /\ \A id \in DOMAIN changes :
            /\ id \in I <=> changes[id].row.kind = kind
            /\ changes[id].bucket \in {"added", "modified", "removed"}
      /\ \A id : id \notin DOMAIN changes => (id \in DOMAIN a <=> id \in DOMAIN b)
      /\ \A id \in DOMAIN a : id \notin DOMAIN changes => a[id] = b[id]
  BY DEF isChange, Tells, SameBut, isEntry, kindOfIds
<1>2. \A id \in DOMAIN changes :
          /\ changes[id].bucket = "added" => id \in DOMAIN b \ DOMAIN a
          /\ changes[id].bucket = "modified" => id \in DOMAIN a \cap DOMAIN b
          /\ changes[id].bucket = "removed" => id \in DOMAIN a \ DOMAIN b
  BY DEF isChange, Tells
<1> QED
  BY <1>1, <1>2 DEF listed

LEMMA Parts ==
    ASSUME NEW changes, NEW a, NEW b, isChange(changes, a, b)
    PROVE  /\ DOMAIN a \subseteq Ids /\ DOMAIN b \subseteq Ids /\ DOMAIN changes \subseteq Ids
           /\ Roles \in DOMAIN a /\ Roles \in DOMAIN b
           /\ premisesAdded(changes) = Premise \cap (DOMAIN b \ DOMAIN a)
           /\ premisesRemoved(changes) = Premise \cap (DOMAIN a \ DOMAIN b)
           /\ premisesModified(changes) \subseteq Premise \cap DOMAIN a \cap DOMAIN b
           /\ variablesAdded(changes) = Variable \cap (DOMAIN b \ DOMAIN a)
           /\ variablesRemoved(changes) = Variable \cap (DOMAIN a \ DOMAIN b)
           /\ variablesModified(changes) \subseteq Variable \cap DOMAIN a \cap DOMAIN b
           /\ expressionsAdded(changes) = Expression \cap (DOMAIN b \ DOMAIN a)
           /\ expressionsRemoved(changes) = Expression \cap (DOMAIN a \ DOMAIN b)
           /\ expressionsModified(changes) \subseteq Expression \cap DOMAIN a \cap DOMAIN b
           /\ rolesModified(changes) \subseteq {Roles}
           /\ \A id \in DOMAIN a \cap DOMAIN b :
                 a[id] # b[id] => id \in variablesModified(changes) \cup expressionsModified(changes)
                                             \cup rolesModified(changes)
<1>1. rowsOfTheirKind(a) /\ rowsOfTheirKind(b) /\ Roles \in DOMAIN a /\ Roles \in DOMAIN b
  BY InSoundRows DEF isChange
<1>2. DOMAIN a \subseteq Ids /\ DOMAIN b \subseteq Ids
  BY <1>1, KindOfRow DEF rowsOfTheirKind
<1>3. DOMAIN changes \subseteq Ids
  BY KindOfRow DEF isChange, Tells, isEntry
<1>4. /\ premisesAdded(changes) = Premise \cap (DOMAIN b \ DOMAIN a)
      /\ premisesRemoved(changes) = Premise \cap (DOMAIN a \ DOMAIN b)
      /\ premisesModified(changes) \subseteq Premise \cap DOMAIN a \cap DOMAIN b
  <2>1. kindOfIds("premises", Premise)
    BY KindOfRow DEF kindOfIds
  <2>2. /\ listed(changes, "premises", "added") = Premise \cap (DOMAIN b \ DOMAIN a)
        /\ listed(changes, "premises", "removed") = Premise \cap (DOMAIN a \ DOMAIN b)
        /\ listed(changes, "premises", "modified") \subseteq Premise \cap DOMAIN a \cap DOMAIN b
        /\ \A id \in Premise \cap DOMAIN a \cap DOMAIN b :
              a[id] # b[id] => id \in listed(changes, "premises", "modified")
    BY <2>1, ListedOfKind
  <2> QED
    BY <2>2 DEF premisesAdded, premisesRemoved, premisesModified
<1>5. /\ variablesAdded(changes) = Variable \cap (DOMAIN b \ DOMAIN a)
      /\ variablesRemoved(changes) = Variable \cap (DOMAIN a \ DOMAIN b)
      /\ variablesModified(changes) \subseteq Variable \cap DOMAIN a \cap DOMAIN b
      /\ \A id \in Variable \cap DOMAIN a \cap DOMAIN b :
            a[id] # b[id] => id \in variablesModified(changes)
  <2>1. kindOfIds("variables", Variable)
    BY KindOfRow DEF kindOfIds
  <2>2. /\ listed(changes, "variables", "added") = Variable \cap (DOMAIN b \ DOMAIN a)
        /\ listed(changes, "variables", "removed") = Variable \cap (DOMAIN a \ DOMAIN b)
        /\ listed(changes, "variables", "modified") \subseteq Variable \cap DOMAIN a \cap DOMAIN b
        /\ \A id \in Variable \cap DOMAIN a \cap DOMAIN b :
              a[id] # b[id] => id \in listed(changes, "variables", "modified")
    BY <2>1, ListedOfKind
  <2> QED
    BY <2>2 DEF variablesAdded, variablesRemoved, variablesModified
<1>6. /\ expressionsAdded(changes) = Expression \cap (DOMAIN b \ DOMAIN a)
      /\ expressionsRemoved(changes) = Expression \cap (DOMAIN a \ DOMAIN b)
      /\ expressionsModified(changes) \subseteq Expression \cap DOMAIN a \cap DOMAIN b
      /\ \A id \in Expression \cap DOMAIN a \cap DOMAIN b :
            a[id] # b[id] => id \in expressionsModified(changes)
  <2>1. kindOfIds("expressions", Expression)
    BY KindOfRow DEF kindOfIds
  <2>2. /\ listed(changes, "expressions", "added") = Expression \cap (DOMAIN b \ DOMAIN a)
        /\ listed(changes, "expressions", "removed") = Expression \cap (DOMAIN a \ DOMAIN b)
        /\ listed(changes, "expressions", "modified") \subseteq Expression \cap DOMAIN a \cap DOMAIN b
        /\ \A id \in Expression \cap DOMAIN a \cap DOMAIN b :
              a[id] # b[id] => id \in listed(changes, "expressions", "modified")
    BY <2>1, ListedOfKind
  <2> QED
    BY <2>2 DEF expressionsAdded, expressionsRemoved, expressionsModified
<1>7. /\ rolesModified(changes) \subseteq {Roles}
      /\ a[Roles] # b[Roles] => Roles \in rolesModified(changes)
  <2>1. kindOfIds("roles", {Roles})
    BY KindOfRow DEF kindOfIds
  <2> QED
    BY <1>1, <2>1, ListedOfKind DEF rolesModified
<1>8. \A id \in Premise \cap DOMAIN a \cap DOMAIN b : a[id] = b[id]
  BY <1>1, RowOfPremise DEF rowsOfTheirKind
<1> QED
  BY <1>1, <1>2, <1>3, <1>4, <1>5, <1>6, <1>7, <1>8 DEF Ids

LEMMA PartsFinite ==
    ASSUME NEW changes, NEW a, NEW b, isChange(changes, a, b), NEW S, S \subseteq DOMAIN changes
    PROVE  IsFiniteSet(S)
<1>1. IsFiniteSet(Ids)
  <2>1. IsFiniteSet(Premise \cup Variable)
    BY PersistenceAssumption, FS_Union
  <2>2. IsFiniteSet((Premise \cup Variable) \cup Expression)
    BY <2>1, PersistenceAssumption, FS_Union
  <2>3. IsFiniteSet(((Premise \cup Variable) \cup Expression) \cup {Roles})
    BY <2>2, FS_AddElement
  <2> QED
    BY <2>3 DEF Ids
<1>2. S \in SUBSET Ids
  BY Parts
<1> QED
  BY <1>1, <1>2, FS_Subset

(***************************************************************************)
(* The store between two phases.                                           *)
(***************************************************************************)
\* Expressions that come to name a row that is new.
naming(changes) == {id \in late(changes) : namesNewRow(changes, changes[id].row)}

\* The row a modified expression has after its early update.
earlyRow(changes, a, id) ==
    IF id \notin late(changes) THEN changes[id].row
    ELSE IF id \in naming(changes) THEN detached(a[id])
    ELSE detached(changes[id].row)

midRow(changes, a, b, id) ==
    IF id \in expressionsModified(changes) THEN earlyRow(changes, a, id)
    ELSE IF id \in DOMAIN a THEN a[id] ELSE b[id]

\* The ids there are, and those whose row is already the one to come.
stage(changes, a, b, dom, new) ==
    [id \in dom |-> IF id \in new THEN b[id] ELSE midRow(changes, a, b, id)]

LEMMA ModifiedRow ==
    ASSUME NEW changes, NEW a, NEW b, isChange(changes, a, b),
           NEW id \in DOMAIN changes, changes[id].bucket # "removed"
    PROVE  id \in DOMAIN b /\ changes[id].row = b[id] /\ isRowOf(id, b[id])
           /\ references(b[id]) \subseteq DOMAIN b
<1>1. /\ changes[id].row = b[id] /\ isRowOf(id, changes[id].row) /\ id \in DOMAIN b
  BY DEF isChange, Tells, isEntry
<1>2. closed(b)
  BY InSoundRows DEF isChange
<1> QED
  BY <1>1, <1>2 DEF closed

LEMMA LateRows ==
    ASSUME NEW changes, NEW a, NEW b, isChange(changes, a, b),
           NEW id \in expressionsModified(changes)
    PROVE  /\ id \in Expression /\ id \in DOMAIN a /\ id \in DOMAIN b
           /\ changes[id].row = b[id] /\ isRowOf(id, b[id]) /\ isRowOf(id, a[id])
           /\ ~namesNewRow(changes, b[id]) =>
                 {b[id].premise, b[id].variable} \ {None} \subseteq DOMAIN a \cap DOMAIN b
           /\ id \notin late(changes) =>
                 references(b[id]) \subseteq DOMAIN a \cap DOMAIN b
<1>1. /\ id \in Expression /\ id \in DOMAIN a /\ id \in DOMAIN b
      /\ id \in DOMAIN changes /\ changes[id].bucket = "modified"
  BY Parts DEF expressionsModified, listed
<1>2. changes[id].row = b[id] /\ isRowOf(id, b[id]) /\ references(b[id]) \subseteq DOMAIN b
  BY <1>1, ModifiedRow
<1>3. isRowOf(id, a[id])
  BY <1>1, InSoundRows DEF isChange, rowsOfTheirKind
<1>4. PICK row : row = b[id]
  OBVIOUS
<1>5. /\ row.premise \in Premise /\ row.parent \in Expression \cup {None}
      /\ row.variable \in Variable \cup {None}
      /\ references(row) = {row.premise, row.parent, row.variable} \ {None}
  BY <1>1, <1>2, <1>4, RowOfExpression
<1>6. /\ premisesAdded(changes) = Premise \cap (DOMAIN b \ DOMAIN a)
      /\ variablesAdded(changes) = Variable \cap (DOMAIN b \ DOMAIN a)
      /\ expressionsAdded(changes) = Expression \cap (DOMAIN b \ DOMAIN a)
  BY Parts
<1>7. ~namesNewRow(changes, row) => {row.premise, row.variable} \ {None} \subseteq DOMAIN a \cap DOMAIN b
  BY <1>2, <1>4, <1>5, <1>6 DEF namesNewRow, premisesAdded, variablesAdded
<1>8. id \notin late(changes) => ~namesNewRow(changes, row) /\ row.parent \notin expressionsAdded(changes)
  BY <1>2, <1>4 DEF late, expressionsAdded, expressionsModified
<1>9. id \notin late(changes) => references(row) \subseteq DOMAIN a \cap DOMAIN b
  BY <1>2, <1>4, <1>5, <1>6, <1>7, <1>8
<1> QED
  BY <1>1, <1>2, <1>3, <1>4, <1>7, <1>9

LEMMA MidRows ==
    ASSUME NEW changes, NEW a, NEW b, isChange(changes, a, b)
    PROVE  /\ naming(changes) \subseteq late(changes)
           /\ late(changes) \subseteq expressionsModified(changes)
           /\ \A id \in DOMAIN a \cup DOMAIN b : isRowOf(id, midRow(changes, a, b, id))
           /\ \A id \in DOMAIN a \ expressionsModified(changes) : midRow(changes, a, b, id) = a[id]
           /\ \A id \in expressionsModified(changes) \ late(changes) :
                 midRow(changes, a, b, id) = b[id]
           /\ \A id \in expressionsModified(changes) \ naming(changes) :
                 references(midRow(changes, a, b, id)) \subseteq DOMAIN a \cap DOMAIN b
           /\ \A id \in naming(changes) :
                 references(midRow(changes, a, b, id)) \subseteq DOMAIN a \cap (Premise \cup Variable)
<1>1. naming(changes) \subseteq late(changes) /\ late(changes) \subseteq expressionsModified(changes)
  BY DEF naming, late, expressionsModified
<1>2. \A id \in DOMAIN a \ expressionsModified(changes) : midRow(changes, a, b, id) = a[id]
  BY DEF midRow
<1>3. ASSUME NEW id \in expressionsModified(changes)
      PROVE  /\ isRowOf(id, midRow(changes, a, b, id))
             /\ id \notin late(changes) => midRow(changes, a, b, id) = b[id]
             /\ id \notin naming(changes) =>
                   references(midRow(changes, a, b, id)) \subseteq DOMAIN a \cap DOMAIN b
             /\ id \in naming(changes) =>
                   references(midRow(changes, a, b, id)) \subseteq DOMAIN a \cap (Premise \cup Variable)
  <2>1. /\ id \in Expression /\ id \in DOMAIN a /\ id \in DOMAIN b
        /\ changes[id].row = b[id] /\ isRowOf(id, b[id]) /\ isRowOf(id, a[id])
        /\ ~namesNewRow(changes, b[id]) =>
              {b[id].premise, b[id].variable} \ {None} \subseteq DOMAIN a \cap DOMAIN b
        /\ id \notin late(changes) => references(b[id]) \subseteq DOMAIN a \cap DOMAIN b
    BY LateRows
  <2>2. CASE id \notin late(changes)
    BY <1>1, <2>1, <2>2 DEF midRow, earlyRow
  <2>3. CASE id \in late(changes) /\ id \notin naming(changes)
    <3>1. midRow(changes, a, b, id) = detached(b[id])
      BY <2>1, <2>3 DEF midRow, earlyRow
    <3>2. isRowOf(id, detached(b[id]))
          /\ references(detached(b[id])) = {b[id].premise, b[id].variable} \ {None}
      BY <2>1, DetachedIsRow
    <3>3. ~namesNewRow(changes, b[id])
      BY <2>1, <2>3 DEF naming
    <3> QED
      BY <2>1, <2>3, <3>1, <3>2, <3>3
  <2>4. CASE id \in naming(changes)
    <3>1. midRow(changes, a, b, id) = detached(a[id])
      BY <1>1, <2>1, <2>4 DEF midRow, earlyRow
    <3>2. isRowOf(id, detached(a[id]))
          /\ references(detached(a[id])) = {a[id].premise, a[id].variable} \ {None}
      BY <2>1, DetachedIsRow
    <3>3. /\ a[id].premise \in Premise /\ a[id].variable \in Variable \cup {None}
          /\ references(a[id]) = {a[id].premise, a[id].parent, a[id].variable} \ {None}
      BY <2>1, RowOfExpression
    <3>4. references(a[id]) \subseteq DOMAIN a
      BY <2>1, InSoundRows DEF isChange, closed
    <3> QED
      BY <1>1, <2>4, <3>1, <3>2, <3>3, <3>4
  <2> QED
    BY <2>2, <2>3, <2>4
<1>4. ASSUME NEW id \in DOMAIN a \cup DOMAIN b, id \notin expressionsModified(changes)
      PROVE  isRowOf(id, midRow(changes, a, b, id))
  <2>1. rowsOfTheirKind(a) /\ rowsOfTheirKind(b)
    BY InSoundRows DEF isChange
  <2> QED
    BY <1>4, <2>1 DEF midRow, rowsOfTheirKind
<1> QED
  BY <1>1, <1>2, <1>3, <1>4

\* The rows that stay, and what a stage needs so that no reference dangles.
staying(a, b) == DOMAIN a \cap DOMAIN b

isStage(changes, a, b, dom, new) ==
    /\ staying(a, b) \subseteq dom /\ dom \subseteq DOMAIN a \cup DOMAIN b
    /\ dom \cap expressionsRemoved(changes) = {}
    /\ dom \ DOMAIN a \subseteq new /\ new \subseteq DOMAIN b
    /\ new \cap Variable \subseteq earlyVariables(changes) \/ premisesAdded(changes) \subseteq dom
    /\ \/ premisesRemoved(changes) \subseteq dom
       \/ variablesModified(changes) \subseteq new /\ dom \cap variablesRemoved(changes) = {}
    /\ new \cap Expression = {} \/ DOMAIN b \subseteq dom
    /\ \/ naming(changes) \subseteq new
       \/ premisesRemoved(changes) \cup variablesRemoved(changes) \subseteq dom

LEMMA VariableRows ==
    ASSUME NEW changes, NEW a, NEW b, isChange(changes, a, b), NEW x \in Variable
    PROVE  /\ x \in DOMAIN a => references(a[x]) \subseteq DOMAIN a \cap Premise
           /\ x \in DOMAIN b => references(b[x]) \subseteq DOMAIN b \cap Premise
           /\ x \in earlyVariables(changes) => references(b[x]) \subseteq staying(a, b)
<1>1. /\ closed(a) /\ closed(b) /\ rowsOfTheirKind(a) /\ rowsOfTheirKind(b)
  BY InSoundRows DEF isChange
<1>2. x \in DOMAIN a => references(a[x]) \subseteq DOMAIN a \cap Premise
  <2>1. SUFFICES ASSUME x \in DOMAIN a  PROVE references(a[x]) \subseteq DOMAIN a \cap Premise
    OBVIOUS
  <2>2. isRowOf(x, a[x]) /\ references(a[x]) \subseteq DOMAIN a
    BY <1>1, <2>1 DEF rowsOfTheirKind, closed
  <2> QED
    BY <2>2, RowOfVariable
<1>3. x \in DOMAIN b => /\ references(b[x]) \subseteq DOMAIN b \cap Premise
                        /\ references(b[x]) = {b[x].bound} \ {None}
  <2>1. SUFFICES ASSUME x \in DOMAIN b
                 PROVE  /\ references(b[x]) \subseteq DOMAIN b \cap Premise
                        /\ references(b[x]) = {b[x].bound} \ {None}
    OBVIOUS
  <2>2. isRowOf(x, b[x]) /\ references(b[x]) \subseteq DOMAIN b
    BY <1>1, <2>1 DEF rowsOfTheirKind, closed
  <2> QED
    BY <2>2, RowOfVariable
<1>4. ASSUME x \in earlyVariables(changes)
      PROVE  references(b[x]) \subseteq staying(a, b)
  <2>1. x \in DOMAIN changes /\ changes[x].bucket = "modified" /\ ~boundToNewPremise(changes, x)
    BY <1>4 DEF earlyVariables, listed
  <2>2. x \in DOMAIN b /\ changes[x].row = b[x]
    BY <2>1, ModifiedRow
  <2>3. b[x].bound \notin premisesAdded(changes)
    BY <2>1, <2>2 DEF boundToNewPremise, premisesAdded
  <2>4. premisesAdded(changes) = Premise \cap (DOMAIN b \ DOMAIN a)
    BY Parts
  <2> QED
    BY <1>3, <2>2, <2>3, <2>4 DEF staying
<1> QED
  BY <1>2, <1>3, <1>4

LEMMA StageClosed ==
    ASSUME NEW changes, NEW a, NEW b, isChange(changes, a, b),
           NEW dom, NEW new, isStage(changes, a, b, dom, new)
    PROVE  closed(stage(changes, a, b, dom, new))
<1> DEFINE st == stage(changes, a, b, dom, new)
<1>1. /\ closed(a) /\ closed(b) /\ rowsOfTheirKind(a) /\ rowsOfTheirKind(b)
  BY InSoundRows DEF isChange
<1>2. /\ DOMAIN a \subseteq Ids /\ DOMAIN b \subseteq Ids
      /\ premisesAdded(changes) = Premise \cap (DOMAIN b \ DOMAIN a)
      /\ premisesRemoved(changes) = Premise \cap (DOMAIN a \ DOMAIN b)
      /\ variablesRemoved(changes) = Variable \cap (DOMAIN a \ DOMAIN b)
      /\ expressionsRemoved(changes) = Expression \cap (DOMAIN a \ DOMAIN b)
      /\ expressionsModified(changes) \subseteq Expression \cap DOMAIN a \cap DOMAIN b
      /\ \A id \in DOMAIN a \cap DOMAIN b :
            a[id] # b[id] => id \in variablesModified(changes) \cup expressionsModified(changes)
                                        \cup rolesModified(changes)
      /\ rolesModified(changes) \subseteq {Roles}
  BY Parts
<1>3. SUFFICES ASSUME NEW id \in dom  PROVE references(st[id]) \subseteq dom
  BY DEF closed, stage
<1>4. st[id] = IF id \in new THEN b[id] ELSE midRow(changes, a, b, id)
  BY DEF stage
<1>5. /\ staying(a, b) \subseteq dom /\ dom \subseteq DOMAIN a \cup DOMAIN b
      /\ dom \cap expressionsRemoved(changes) = {}
      /\ dom \ DOMAIN a \subseteq new /\ new \subseteq DOMAIN b
      /\ new \cap Variable \subseteq earlyVariables(changes) \/ premisesAdded(changes) \subseteq dom
      /\ \/ premisesRemoved(changes) \subseteq dom
         \/ variablesModified(changes) \subseteq new /\ dom \cap variablesRemoved(changes) = {}
      /\ new \cap Expression = {} \/ DOMAIN b \subseteq dom
      /\ \/ naming(changes) \subseteq new
         \/ premisesRemoved(changes) \cup variablesRemoved(changes) \subseteq dom
  BY DEF isStage
<1>6. DOMAIN a \cap DOMAIN b \subseteq dom
  BY <1>5 DEF staying
<1>7. CASE id \in Premise \cup {Roles}
  <2>1. isRowOf(id, st[id])
    BY <1>1, <1>4, <1>5, MidRows DEF rowsOfTheirKind
  <2> QED
    BY <1>7, <2>1, RowOfPremise, RowOfRoles
<1>8. CASE id \in Variable
  <2>1. CASE id \in new
    BY <1>2, <1>4, <1>5, <1>6, <1>8, <2>1, VariableRows DEF staying
  <2>2. CASE id \notin new
    <3>1. id \in DOMAIN a /\ id \notin expressionsModified(changes)
      BY <1>2, <1>5, <1>8, <2>2, Disjoint
    <3>2. st[id] = a[id]
      BY <1>4, <2>2, <3>1, MidRows
    <3>3. references(a[id]) \subseteq DOMAIN a \cap Premise
      BY <1>8, <3>1, VariableRows
    <3>4. CASE premisesRemoved(changes) \subseteq dom
      BY <1>2, <1>6, <3>2, <3>3, <3>4
    <3>5. CASE variablesModified(changes) \subseteq new /\ dom \cap variablesRemoved(changes) = {}
      <4>1. id \in DOMAIN b
        BY <1>2, <1>3, <1>8, <3>1, <3>5
      <4>2. a[id] = b[id]
        BY <1>2, <1>8, <2>2, <3>1, <3>5, <4>1, Disjoint
      <4> QED
        BY <1>1, <1>6, <3>1, <3>2, <4>1, <4>2 DEF closed
    <3> QED
      BY <1>5, <3>4, <3>5
  <2> QED
    BY <2>1, <2>2
<1>9. CASE id \in Expression
  <2>1. CASE id \in new
    BY <1>1, <1>4, <1>5, <1>9, <2>1 DEF closed
  <2>2. CASE id \notin new
    <3>1. id \in DOMAIN a /\ id \in DOMAIN b
      BY <1>2, <1>3, <1>5, <1>9, <2>2
    <3>2. CASE id \notin expressionsModified(changes)
      <4>1. st[id] = a[id]
        BY <1>4, <2>2, <3>1, <3>2, MidRows
      <4>2. a[id] = b[id]
        <5>1. variablesModified(changes) \subseteq Variable
          BY Parts
        <5> QED
          BY <1>2, <1>9, <3>1, <3>2, <5>1, Disjoint
      <4> QED
        BY <1>1, <1>6, <3>1, <4>1, <4>2 DEF closed
    <3>3. CASE id \in expressionsModified(changes) \ naming(changes)
      BY <1>4, <1>6, <2>2, <3>3, MidRows
    <3>4. CASE id \in naming(changes)
      <4>1. references(st[id]) \subseteq DOMAIN a \cap (Premise \cup Variable)
        BY <1>4, <2>2, <3>4, MidRows
      <4>2. premisesRemoved(changes) \cup variablesRemoved(changes) \subseteq dom
        BY <1>5, <2>2, <3>4
      <4> QED
        BY <1>2, <1>6, <4>1, <4>2
    <3> QED
      BY <3>2, <3>3, <3>4
  <2> QED
    BY <2>1, <2>2
<1> QED
  BY <1>2, <1>3, <1>5, <1>7, <1>8, <1>9 DEF Ids

LEMMA BringsClosed ==
    ASSUME NEW a, NEW w, NEW b, Brings(a, w, b)
    PROVE  closed(a) /\ closed(b)
<1>1. Len(w) \in Nat
  <2>1. PICK S : w \in Seq(S)
    BY DEF Brings
  <2> QED
    BY <2>1, LenProperties
<1>2. 0 \in 0 .. Len(w) /\ Len(w) \in 0 .. Len(w)
  BY <1>1
<1> QED
  BY <1>2 DEF Brings

(***************************************************************************)
(* The statements of a phase, from one stage to the next.                  *)
(***************************************************************************)
LEMMA StatementsShape ==
    ASSUME NEW type, NEW changes, NEW D, NEW ids, Enumerates(ids, D),
           NEW w, w = statements(type, changes, ids)
    PROVE  /\ w = [k \in 1 .. Cardinality(D) |-> w[k]]
           /\ \A k \in 1 .. Cardinality(D) :
                 /\ ids[k] \in D /\ w[k].id = ids[k] /\ w[k].type = type
                 /\ w[k].data = changes[ids[k]].row
<1>1. DOMAIN ids = 1 .. Cardinality(D) /\ \A k \in 1 .. Cardinality(D) : ids[k] \in D
  BY DEF Enumerates
<1> QED
  BY <1>1 DEF statements

LEMMA StageSame ==
    ASSUME NEW changes, NEW a, NEW b, NEW dom, NEW new, NEW dom2, NEW new2, NEW D,
           dom \ D = dom2 \ D, new \ D = new2 \ D
    PROVE  SameBut(stage(changes, a, b, dom, new), stage(changes, a, b, dom2, new2), D)
BY DEF SameBut, stage, isMap

LEMMA StoreUpdates ==
    ASSUME NEW changes, NEW a, NEW b, isChange(changes, a, b),
           NEW D, D \subseteq DOMAIN changes, \A id \in D : changes[id].bucket = "modified",
           NEW ids, Enumerates(ids, D), NEW dom, NEW new,
           isStage(changes, a, b, dom, new), isStage(changes, a, b, dom, new \cup D)
    PROVE  Brings(stage(changes, a, b, dom, new), statements("update", changes, ids),
                  stage(changes, a, b, dom, new \cup D))
<1> DEFINE s == stage(changes, a, b, dom, new)
           t == stage(changes, a, b, dom, new \cup D)
           w == statements("update", changes, ids)
<1>1. IsFiniteSet(D)
  BY PartsFinite
<1>2. SameBut(s, t, D) /\ closed(s) /\ closed(t) /\ DOMAIN s = DOMAIN t /\ DOMAIN s = dom
  <2>1. dom \ D = dom \ D /\ new \ D = (new \cup D) \ D
    OBVIOUS
  <2>2. SameBut(s, t, D)
    BY <2>1, StageSame
  <2>3. closed(s) /\ closed(t)
    BY StageClosed
  <2>4. DOMAIN s = DOMAIN t /\ DOMAIN s = dom
    BY DEF stage
  <2> QED
    BY <2>2, <2>3, <2>4
<1>3. /\ w = [k \in 1 .. Cardinality(D) |-> w[k]]
      /\ \A k \in 1 .. Cardinality(D) :
            /\ ids[k] \in D /\ w[k].id = ids[k] /\ w[k].type = "update"
            /\ w[k].data = changes[ids[k]].row
  BY StatementsShape
<1>4. ASSUME NEW id \in D
      PROVE  /\ id \in dom /\ t[id] = written(changes[id].row, s[id])
  <2>1. id \in DOMAIN a /\ id \in DOMAIN b /\ changes[id].row = b[id] /\ isRowOf(id, b[id])
    BY ModifiedRow DEF isChange, Tells
  <2>2. id \in dom
    BY <2>1 DEF isStage, staying
  <2>3. isRowOf(id, s[id]) /\ t[id] = b[id]
    BY <2>1, <2>2, MidRows DEF stage
  <2> QED
    BY <2>1, <2>2, <2>3, WrittenWhole
<1>5. \A k \in 1 .. Cardinality(D) : w[k].id = ids[k] /\ Makes(s, t, w[k])
  <2>1. SUFFICES ASSUME NEW k \in 1 .. Cardinality(D)
                 PROVE  w[k].id = ids[k] /\ Makes(s, t, w[k])
    OBVIOUS
  <2>2. PICK u : u = w[k]
    OBVIOUS
  <2>3. PICK id \in D : id = ids[k] /\ u.id = id /\ u.type = "update" /\ u.data = changes[id].row
    BY <1>3, <2>2
  <2>4. id \in DOMAIN s \cap DOMAIN t /\ t[id] = written(u.data, s[id])
    BY <1>2, <1>4, <2>3
  <2>5. Makes(s, t, u)
    BY <2>3, <2>4 DEF Makes
  <2> QED
    BY <2>2, <2>3, <2>5
<1> HIDE DEF s, t, w
<1>6. Brings(s, w, t)
  BY <1>1, <1>2, <1>3, <1>5, UpdatesBring
<1> QED
  BY <1>6 DEF s, t, w

LEMMA StoreDeletes ==
    ASSUME NEW changes, NEW a, NEW b, isChange(changes, a, b),
           NEW D, D \subseteq DOMAIN changes, \A id \in D : changes[id].bucket = "removed",
           NEW ids, Enumerates(ids, D), NEW dom, NEW new, D \subseteq dom,
           isStage(changes, a, b, dom \ D, new),
           \A id \in D : references(a[id]) \subseteq dom \ D
    PROVE  Brings(stage(changes, a, b, dom, new), statements("delete", changes, ids),
                  stage(changes, a, b, dom \ D, new))
<1> DEFINE s == stage(changes, a, b, dom, new)
           t == stage(changes, a, b, dom \ D, new)
           w == statements("delete", changes, ids)
<1>1. IsFiniteSet(D)
  BY PartsFinite
<1>2. SameBut(s, t, D) /\ closed(t) /\ DOMAIN t = dom \ D /\ DOMAIN s = dom
  <2>1. dom \ D = (dom \ D) \ D /\ new \ D = new \ D
    OBVIOUS
  <2>2. SameBut(s, t, D)
    BY <2>1, StageSame
  <2>3. closed(t)
    BY StageClosed
  <2>4. DOMAIN t = dom \ D /\ DOMAIN s = dom
    BY DEF stage
  <2> QED
    BY <2>2, <2>3, <2>4
<1>3. /\ w = [k \in 1 .. Cardinality(D) |-> w[k]]
      /\ \A k \in 1 .. Cardinality(D) : w[k].id = ids[k] /\ w[k].type = "delete"
  BY StatementsShape
<1>4. ASSUME NEW id \in D
      PROVE  references(s[id]) \subseteq DOMAIN t
  <2>1. id \in DOMAIN a /\ id \notin DOMAIN b
    BY DEF isChange, Tells
  <2>2. id \notin new /\ id \notin expressionsModified(changes)
    BY <2>1, Parts DEF isStage
  <2>3. s[id] = a[id]
    BY <2>1, <2>2, MidRows DEF stage
  <2> QED
    BY <1>2, <2>3
<1>5. D \subseteq DOMAIN s /\ D \cap DOMAIN t = {}
  BY <1>2
<1> HIDE DEF s, t, w
<1>6. Brings(s, w, t)
  BY <1>1, <1>2, <1>3, <1>4, <1>5, DeletesBring
<1> QED
  BY <1>6 DEF s, t, w

LEMMA StoreInserts ==
    ASSUME NEW changes, NEW a, NEW b, isChange(changes, a, b),
           NEW D, D \subseteq DOMAIN changes, \A id \in D : changes[id].bucket = "added",
           NEW ids, Enumerates(ids, D), NEW dom, NEW new,
           isStage(changes, a, b, dom, new), D \cap dom = {},
           \A k \in 1 .. Cardinality(D) : references(b[ids[k]]) \subseteq dom \cup FirstOf(ids, k)
    PROVE  Brings(stage(changes, a, b, dom, new), statements("insert", changes, ids),
                  stage(changes, a, b, dom \cup D, new \cup D))
<1> DEFINE s == stage(changes, a, b, dom, new)
           t == stage(changes, a, b, dom \cup D, new \cup D)
           w == statements("insert", changes, ids)
<1>1. IsFiniteSet(D)
  BY PartsFinite
<1>2. SameBut(s, t, D) /\ closed(s) /\ DOMAIN t = dom \cup D /\ DOMAIN s = dom
  <2>1. dom \ D = (dom \cup D) \ D /\ new \ D = (new \cup D) \ D
    OBVIOUS
  <2>2. SameBut(s, t, D)
    BY <2>1, StageSame
  <2>3. closed(s)
    BY StageClosed
  <2>4. DOMAIN t = dom \cup D /\ DOMAIN s = dom
    BY DEF stage
  <2> QED
    BY <2>2, <2>3, <2>4
<1>3. /\ w = [k \in 1 .. Cardinality(D) |-> w[k]]
      /\ \A k \in 1 .. Cardinality(D) :
            /\ ids[k] \in D /\ w[k].id = ids[k] /\ w[k].type = "insert"
            /\ w[k].data = changes[ids[k]].row
  BY StatementsShape
<1>4. \A id \in D : t[id] = b[id] /\ changes[id].row = b[id]
  <2>1. \A id \in D : t[id] = b[id]
    BY DEF stage
  <2>2. \A id \in D : changes[id].row = b[id]
    BY ModifiedRow
  <2> QED
    BY <2>1, <2>2
<1>5. D \cap DOMAIN s = {} /\ D \subseteq DOMAIN t
  BY <1>2
<1>6. \A k \in 1 .. Cardinality(D) :
         w[k].id = ids[k] /\ w[k].type = "insert" /\ w[k].data = t[ids[k]]
  BY <1>3, <1>4
<1>7. \A k \in 1 .. Cardinality(D) :
         references(t[ids[k]]) \subseteq DOMAIN s \cup FirstOf(ids, k)
  BY <1>2, <1>3, <1>4
<1> HIDE DEF s, t, w
<1>8. refersBack(D, ids, s, t) /\ insertEach(D, ids, t, w)
  BY <1>3, <1>6, <1>7 DEF refersBack, insertEach
<1>9. Brings(s, w, t)
  BY <1>1, <1>2, <1>5, <1>8, InsertsBring
<1> QED
  BY <1>9 DEF s, t, w

(***************************************************************************)
(* The first phases.                                                       *)
(***************************************************************************)
LEMMA InSomeOrder ==
    ASSUME NEW changes, NEW a, NEW b, isChange(changes, a, b),
           NEW kind, NEW bucket
    PROVE  /\ listed(changes, kind, bucket) \subseteq DOMAIN changes
           /\ \A id \in listed(changes, kind, bucket) : changes[id].bucket = bucket
           /\ IsFiniteSet(listed(changes, kind, bucket))
           /\ Enumerates(SetToSeq(listed(changes, kind, bucket)), listed(changes, kind, bucket))
<1>1. /\ listed(changes, kind, bucket) \subseteq DOMAIN changes
      /\ \A id \in listed(changes, kind, bucket) : changes[id].bucket = bucket
  BY DEF listed
<1> QED
  BY <1>1, PartsFinite, SomeOrder

\* A premise has no fields: an update of one changes nothing.
LEMMA PremisesUpdated ==
    ASSUME NEW changes, NEW a, NEW b, isChange(changes, a, b)
    PROVE  Brings(a, inSomeOrder("update", changes, premisesModified(changes)), a)
<1> DEFINE D == premisesModified(changes)
           ids == SetToSeq(D)
           w == statements("update", changes, ids)
<1>1. IsFiniteSet(D) /\ Enumerates(ids, D)
  BY InSomeOrder DEF premisesModified
<1>2. SameBut(a, a, D) /\ closed(a)
  BY InSoundRows DEF isChange, SameBut
<1>3. ASSUME NEW id \in D  PROVE id \in DOMAIN a /\ a[id] = written(changes[id].row, a[id])
  <2>1. id \in DOMAIN changes /\ changes[id].bucket = "modified"
        /\ id \in Premise /\ id \in DOMAIN a /\ id \in DOMAIN b
    BY Parts DEF premisesModified, listed
  <2>2. isRowOf(id, a[id]) /\ isRowOf(id, changes[id].row)
    BY <2>1, InSoundRows, ModifiedRow DEF isChange, rowsOfTheirKind
  <2>3. a[id] = changes[id].row
    BY <2>1, <2>2, RowOfPremise
  <2>4. written(changes[id].row, a[id]) = changes[id].row
    BY <2>2, WrittenWhole
  <2> QED
    BY <2>1, <2>3, <2>4
<1>4. /\ w = [k \in 1 .. Cardinality(D) |-> w[k]]
      /\ \A k \in 1 .. Cardinality(D) :
            /\ ids[k] \in D /\ w[k].id = ids[k] /\ w[k].type = "update"
            /\ w[k].data = changes[ids[k]].row
  BY <1>1, StatementsShape
<1>5. \A k \in 1 .. Cardinality(D) : w[k].id = ids[k] /\ Makes(a, a, w[k])
  BY <1>3, <1>4 DEF Makes
<1> HIDE DEF w, ids, D
<1>6. Brings(a, w, a)
  BY <1>1, <1>2, <1>4, <1>5, UpdatesBring, ZenonT(40)
<1> QED
  BY <1>6 DEF w, ids, D, inSomeOrder

\* Modified expressions, and what of their new row no insert is needed for.
LEMMA ExpressionsUpdatedEarly ==
    ASSUME NEW changes, NEW a, NEW b, isChange(changes, a, b),
           NEW ids, Enumerates(ids, expressionsModified(changes))
    PROVE  Brings(a, [k \in DOMAIN ids |-> earlyStatement(changes, ids[k])],
                  stage(changes, a, b, DOMAIN a, {}))
<1> DEFINE D == expressionsModified(changes)
           t == stage(changes, a, b, DOMAIN a, {})
           w == [k \in DOMAIN ids |-> earlyStatement(changes, ids[k])]
<1>1. IsFiniteSet(D)
  BY InSomeOrder DEF expressionsModified
<1>2. DOMAIN ids = 1 .. Cardinality(D) /\ \A k \in 1 .. Cardinality(D) : ids[k] \in D
  BY DEF Enumerates
<1>3. DOMAIN t = DOMAIN a /\ isMap(a) /\ isMap(t) /\ closed(a) /\ rowsOfTheirKind(a)
  BY InSoundRows DEF isChange, stage, isMap
<1>4. \A id \in DOMAIN a : t[id] = midRow(changes, a, b, id)
  BY DEF stage
<1>5. SameBut(a, t, D)
  BY <1>3, <1>4, MidRows DEF SameBut
<1>6. closed(t)
  <2>1. SUFFICES ASSUME NEW id \in DOMAIN a  PROVE references(t[id]) \subseteq DOMAIN a
    BY <1>3 DEF closed
  <2>2. CASE id \notin D
    BY <1>3, <1>4, <2>2, MidRows DEF closed
  <2>3. CASE id \in D
    BY <1>4, <2>3, MidRows
  <2> QED
    BY <2>2, <2>3
<1>7. ASSUME NEW id \in D
      PROVE  /\ earlyStatement(changes, id).id = id
             /\ Makes(a, t, earlyStatement(changes, id))
  <2>1. /\ id \in Expression /\ id \in DOMAIN a /\ changes[id].row = b[id]
        /\ isRowOf(id, b[id]) /\ isRowOf(id, a[id])
    BY LateRows
  <2>2. t[id] = earlyRow(changes, a, id)
    BY <1>4, <2>1 DEF midRow
  <2>3. CASE id \notin late(changes)
    <3>1. earlyStatement(changes, id) = update(id, b[id])
      BY <2>1, <2>3 DEF earlyStatement
    <3>2. t[id] = b[id]
      BY <2>1, <2>2, <2>3 DEF earlyRow
    <3>3. written(b[id], a[id]) = b[id]
      BY <2>1, WrittenWhole
    <3> QED
      BY <1>3, <2>1, <3>1, <3>2, <3>3 DEF Makes, update
  <2>4. CASE id \in late(changes) /\ id \notin naming(changes)
    <3>1. earlyStatement(changes, id) = update(id, detached(b[id]))
      BY <2>1, <2>4 DEF earlyStatement, naming, detached
    <3>2. t[id] = detached(b[id])
      BY <2>1, <2>2, <2>4 DEF earlyRow
    <3>3. isRowOf(id, detached(b[id]))
      BY <2>1, DetachedIsRow
    <3>4. written(detached(b[id]), a[id]) = detached(b[id])
      BY <2>1, <3>3, WrittenWhole
    <3> QED
      BY <1>3, <2>1, <3>1, <3>2, <3>4 DEF Makes, update
  <2>5. CASE id \in naming(changes)
    <3>1. earlyStatement(changes, id) = update(id, [parent |-> None])
      BY <2>1, <2>5 DEF earlyStatement, naming, detach
    <3>2. t[id] = detached(a[id])
      BY <2>2, <2>5 DEF earlyRow, naming
    <3>3. written([parent |-> None], a[id]) = detached(a[id])
      BY <2>1, RowOfExpression, WrittenDetached
    <3> QED
      BY <1>3, <2>1, <3>1, <3>2, <3>3 DEF Makes, update
  <2> QED
    BY <2>3, <2>4, <2>5
<1>8. /\ w = [k \in 1 .. Cardinality(D) |-> w[k]]
      /\ \A k \in 1 .. Cardinality(D) : w[k].id = ids[k] /\ Makes(a, t, w[k])
  BY <1>2, <1>7
<1> HIDE DEF w, t, D
<1>9. Brings(a, w, t)
  BY <1>1, <1>3, <1>5, <1>6, <1>8, UpdatesBring DEF D
<1> QED
  BY <1>9 DEF w, t

\* The rows once what is to be removed has no parent.
loosened(changes, a, b) ==
    [id \in DOMAIN a |-> IF id \in expressionsRemoved(changes) THEN detached(a[id])
                         ELSE midRow(changes, a, b, id)]

LEMMA Loosened ==
    ASSUME NEW changes, NEW a, NEW b, isChange(changes, a, b)
    PROVE  /\ closed(loosened(changes, a, b))
           /\ \A id \in expressionsRemoved(changes) :
                 /\ id \in DOMAIN a /\ isRowOf(id, a[id])
                 /\ references(detached(a[id])) \subseteq DOMAIN a \ Expression
                 /\ midRow(changes, a, b, id) = a[id]
<1>1. closed(a) /\ rowsOfTheirKind(a)
  BY InSoundRows DEF isChange
<1>2. ASSUME NEW id \in expressionsRemoved(changes)
      PROVE  /\ id \in DOMAIN a /\ isRowOf(id, a[id])
             /\ references(detached(a[id])) \subseteq DOMAIN a \ Expression
             /\ midRow(changes, a, b, id) = a[id]
  <2>1. id \in Expression /\ id \in DOMAIN a /\ id \notin DOMAIN b
    BY Parts
  <2>2. isRowOf(id, a[id]) /\ references(a[id]) \subseteq DOMAIN a
    BY <1>1, <2>1 DEF rowsOfTheirKind, closed
  <2>3. references(detached(a[id])) = {a[id].premise, a[id].variable} \ {None}
    BY <2>1, <2>2, DetachedIsRow
  <2>4. /\ a[id].premise \in Premise /\ a[id].variable \in Variable \cup {None}
        /\ references(a[id]) = {a[id].premise, a[id].parent, a[id].variable} \ {None}
    BY <2>1, <2>2, RowOfExpression
  <2>5. id \notin expressionsModified(changes)
    BY <2>1, Parts
  <2> QED
    BY <2>1, <2>2, <2>3, <2>4, <2>5, Disjoint, MidRows
<1>3. ASSUME NEW id \in DOMAIN a, id \notin expressionsRemoved(changes)
      PROVE  references(midRow(changes, a, b, id)) \subseteq DOMAIN a
  <2>1. CASE id \in expressionsModified(changes)
    BY <2>1, MidRows
  <2>2. CASE id \notin expressionsModified(changes)
    BY <1>1, <1>3, <2>2, MidRows DEF closed
  <2> QED
    BY <2>1, <2>2
<1>4. closed(loosened(changes, a, b))
  BY <1>2, <1>3 DEF closed, loosened
<1> QED
  BY <1>2, <1>4

LEMMA RemovedAreLoosened ==
    ASSUME NEW changes, NEW a, NEW b, isChange(changes, a, b),
           NEW ids, Enumerates(ids, expressionsRemoved(changes)),
           closed(stage(changes, a, b, DOMAIN a, {}))
    PROVE  Brings(stage(changes, a, b, DOMAIN a, {}), [k \in DOMAIN ids |-> detach(ids[k])],
                  loosened(changes, a, b))
<1> DEFINE D == expressionsRemoved(changes)
           s == stage(changes, a, b, DOMAIN a, {})
           t == loosened(changes, a, b)
           w == [k \in DOMAIN ids |-> detach(ids[k])]
<1>1. IsFiniteSet(D)
  BY InSomeOrder DEF expressionsRemoved
<1>2. DOMAIN ids = 1 .. Cardinality(D) /\ \A k \in 1 .. Cardinality(D) : ids[k] \in D
  BY DEF Enumerates
<1>3. /\ DOMAIN s = DOMAIN a /\ DOMAIN t = DOMAIN a /\ SameBut(s, t, D)
  BY DEF stage, loosened, SameBut, isMap
<1>4. closed(t)
  BY Loosened
<1>5. ASSUME NEW id \in D
      PROVE  detach(id).id = id /\ Makes(s, t, detach(id))
  <2>1. id \in DOMAIN a /\ isRowOf(id, a[id]) /\ midRow(changes, a, b, id) = a[id]
        /\ id \in Expression
    BY Loosened, Parts
  <2>2. s[id] = a[id] /\ t[id] = detached(a[id])
    BY <2>1 DEF stage, loosened
  <2>3. written([parent |-> None], a[id]) = detached(a[id])
    BY <2>1, RowOfExpression, WrittenDetached
  <2> QED
    BY <1>3, <2>1, <2>2, <2>3 DEF Makes, detach, update
<1>6. /\ w = [k \in 1 .. Cardinality(D) |-> w[k]]
      /\ \A k \in 1 .. Cardinality(D) : w[k].id = ids[k] /\ Makes(s, t, w[k])
  BY <1>2, <1>5
<1> HIDE DEF w, s, t, D
<1>7. Brings(s, w, t)
  BY <1>1, <1>3, <1>4, <1>6, UpdatesBring DEF D, s
<1> QED
  BY <1>7 DEF w, s, t

\* The ids left once expressions have been removed.
firstLeft(changes, a) == DOMAIN a \ expressionsRemoved(changes)

LEMMA FirstLeft ==
    ASSUME NEW changes, NEW a, NEW b, isChange(changes, a, b)
    PROVE  /\ isStage(changes, a, b, firstLeft(changes, a), {})
           /\ firstLeft(changes, a) = staying(a, b) \cup premisesRemoved(changes)
                                         \cup variablesRemoved(changes)
<1>1. /\ DOMAIN a \subseteq Ids /\ Roles \in DOMAIN b
      /\ premisesRemoved(changes) = Premise \cap (DOMAIN a \ DOMAIN b)
      /\ variablesRemoved(changes) = Variable \cap (DOMAIN a \ DOMAIN b)
      /\ expressionsRemoved(changes) = Expression \cap (DOMAIN a \ DOMAIN b)
  BY Parts
<1>2. firstLeft(changes, a) = staying(a, b) \cup premisesRemoved(changes)
                                 \cup variablesRemoved(changes)
  BY <1>1, Disjoint DEF firstLeft, staying, Ids
<1>3. isStage(changes, a, b, firstLeft(changes, a), {})
  BY <1>1, <1>2 DEF isStage, firstLeft, staying
<1> QED
  BY <1>2, <1>3

LEMMA RemovedAreDeleted ==
    ASSUME NEW changes, NEW a, NEW b, isChange(changes, a, b),
           NEW ids, Enumerates(ids, expressionsRemoved(changes))
    PROVE  Brings(loosened(changes, a, b), statements("delete", changes, ids),
                  stage(changes, a, b, firstLeft(changes, a), {}))
<1> DEFINE D == expressionsRemoved(changes)
           s == loosened(changes, a, b)
           t == stage(changes, a, b, firstLeft(changes, a), {})
           w == statements("delete", changes, ids)
<1>1. IsFiniteSet(D)
  BY InSomeOrder DEF expressionsRemoved
<1>2. /\ DOMAIN s = DOMAIN a /\ DOMAIN t = DOMAIN a \ D /\ SameBut(s, t, D)
  BY DEF stage, loosened, SameBut, isMap, firstLeft
<1>3. closed(t)
  BY FirstLeft, StageClosed
<1>4. D \subseteq Expression /\ D \subseteq DOMAIN a
  BY Parts
<1>5. ASSUME NEW id \in D  PROVE references(s[id]) \subseteq DOMAIN t
  <2>1. s[id] = detached(a[id])
    BY <1>4 DEF loosened
  <2>2. references(detached(a[id])) \subseteq DOMAIN a \ Expression
    BY Loosened
  <2> QED
    BY <1>2, <1>4, <2>1, <2>2
<1>6. /\ w = [k \in 1 .. Cardinality(D) |-> w[k]]
      /\ \A k \in 1 .. Cardinality(D) : w[k].id = ids[k] /\ w[k].type = "delete"
  BY StatementsShape
<1>7. D \subseteq DOMAIN s /\ D \cap DOMAIN t = {} /\ Enumerates(ids, D)
  BY <1>2, <1>4
<1> HIDE DEF w, s, t, D
<1>8. Brings(s, w, t)
  BY <1>1, <1>2, <1>3, <1>5, <1>6, <1>7, DeletesBring
<1> QED
  BY <1>8 DEF w, s, t

LEMMA FirstPhasesBring ==
    ASSUME NEW changes, NEW a, NEW b, isChange(changes, a, b)
    PROVE  Brings(a, firstPhases(changes), stage(changes, a, b, firstLeft(changes, a), {}))
<1> DEFINE modified == SetToSeq(expressionsModified(changes))
           removed == expressionsRemoved(changes)
           first == SetToSeq(removed)
           sorted == topologicalSortExpressions(changes, removed)
           w1 == inSomeOrder("update", changes, premisesModified(changes))
           w2 == [k \in DOMAIN modified |-> earlyStatement(changes, modified[k])]
           w3 == [k \in DOMAIN first |-> detach(first[k])]
           w4 == statements("delete", changes, Reverse(sorted))
           s == stage(changes, a, b, DOMAIN a, {})
           t == loosened(changes, a, b)
           u == stage(changes, a, b, firstLeft(changes, a), {})
<1>1. /\ Enumerates(modified, expressionsModified(changes)) /\ Enumerates(first, removed)
      /\ IsFiniteSet(removed)
  BY InSomeOrder DEF expressionsModified, expressionsRemoved
<1>2. Enumerates(Reverse(sorted), removed)
  <2>1. \A T \in SUBSET removed : T # {} => \E e \in T : changes[e].row.parent \notin T
    BY DEF isChange, RemovedForest, expressionsRemoved
  <2>2. Enumerates(sorted, removed)
    BY <1>1, <2>1, ParentsFirst
  <2> QED
    BY <1>1, <2>2, Reversed
<1>3. Brings(a, w1, a)
  BY PremisesUpdated
<1>4. Brings(a, w2, s)
  BY <1>1, ExpressionsUpdatedEarly
<1>5. Brings(s, w3, t)
  BY <1>1, <1>4, BringsClosed, RemovedAreLoosened
<1>6. Brings(t, w4, u)
  BY <1>2, RemovedAreDeleted
<1>7. firstPhases(changes) = w1 \o w2 \o w3 \o w4
  BY DEF firstPhases, premisesModified, expressionsModified, expressionsRemoved
<1> HIDE DEF w1, w2, w3, w4, s, t, u
<1>8. Brings(a, w1 \o w2, s)
  BY <1>3, <1>4, BringsOn
<1>9. Brings(a, w1 \o w2 \o w3, t)
  BY <1>5, <1>8, BringsOn
<1>10. Brings(a, w1 \o w2 \o w3 \o w4, u)
  BY <1>6, <1>9, BringsOn
<1> QED
  BY <1>7, <1>10 DEF u

(***************************************************************************)
(* The phases that insert, and those that wait for them.                   *)
(***************************************************************************)
LEMMA DeletesHeld ==
    ASSUME NEW changes
    PROVE  holdDeletes(changes) <=> naming(changes) # {}
BY DEF naming, holdDeletes

LEMMA MoreParts ==
    ASSUME NEW changes, NEW a, NEW b, isChange(changes, a, b)
    PROVE  /\ earlyVariables(changes) \cup lateVariables(changes) = variablesModified(changes)
           /\ earlyVariables(changes) \subseteq variablesModified(changes)
           /\ staying(a, b) \cup premisesAdded(changes) \cup variablesAdded(changes)
                 \cup expressionsAdded(changes) = DOMAIN b
           /\ naming(changes) \subseteq late(changes)
           /\ late(changes) \subseteq expressionsModified(changes)
<1>1. /\ earlyVariables(changes) \cup lateVariables(changes) = variablesModified(changes)
      /\ earlyVariables(changes) \subseteq variablesModified(changes)
  BY DEF earlyVariables, lateVariables, variablesModified
<1>2. /\ DOMAIN b \subseteq Ids /\ Roles \in DOMAIN a /\ Roles \in DOMAIN b
      /\ premisesAdded(changes) = Premise \cap (DOMAIN b \ DOMAIN a)
      /\ variablesAdded(changes) = Variable \cap (DOMAIN b \ DOMAIN a)
      /\ expressionsAdded(changes) = Expression \cap (DOMAIN b \ DOMAIN a)
  BY Parts
<1>3. staying(a, b) \cup premisesAdded(changes) \cup variablesAdded(changes)
         \cup expressionsAdded(changes) = DOMAIN b
  BY <1>2 DEF staying, Ids
<1> QED
  BY <1>1, <1>3, MidRows

LEMMA PremisesInserted ==
    ASSUME NEW changes, NEW a, NEW b, isChange(changes, a, b), NEW dom, NEW new,
           isStage(changes, a, b, dom, new), premisesAdded(changes) \cap dom = {}
    PROVE  Brings(stage(changes, a, b, dom, new),
                  inSomeOrder("insert", changes, premisesAdded(changes)),
                  stage(changes, a, b, dom \cup premisesAdded(changes),
                        new \cup premisesAdded(changes)))
<1> DEFINE D == premisesAdded(changes)
           ids == SetToSeq(D)
<1>1. /\ D \subseteq DOMAIN changes /\ \A id \in D : changes[id].bucket = "added"
      /\ IsFiniteSet(D) /\ Enumerates(ids, D)
  BY InSomeOrder DEF premisesAdded
<1>2. \A id \in D : references(b[id]) = {}
  BY <1>1, Parts, ModifiedRow, RowOfPremise
<1>3. \A k \in 1 .. Cardinality(D) : references(b[ids[k]]) \subseteq dom \cup FirstOf(ids, k)
  BY <1>1, <1>2 DEF Enumerates
<1> HIDE DEF ids, D
<1>4. D \cap dom = {}
  BY DEF D
<1>5. Brings(stage(changes, a, b, dom, new), statements("insert", changes, ids),
             stage(changes, a, b, dom \cup D, new \cup D))
  BY <1>1, <1>3, <1>4, StoreInserts
<1> QED
  BY <1>5 DEF inSomeOrder, ids, D

LEMMA VariablesInserted ==
    ASSUME NEW changes, NEW a, NEW b, isChange(changes, a, b), NEW dom, NEW new,
           isStage(changes, a, b, dom, new), variablesAdded(changes) \cap dom = {},
           premisesAdded(changes) \subseteq dom
    PROVE  Brings(stage(changes, a, b, dom, new),
                  inSomeOrder("insert", changes, variablesAdded(changes)),
                  stage(changes, a, b, dom \cup variablesAdded(changes),
                        new \cup variablesAdded(changes)))
<1> DEFINE D == variablesAdded(changes)
           ids == SetToSeq(D)
<1>1. /\ D \subseteq DOMAIN changes /\ \A id \in D : changes[id].bucket = "added"
      /\ IsFiniteSet(D) /\ Enumerates(ids, D)
  BY InSomeOrder DEF variablesAdded
<1>2. \A id \in D : references(b[id]) \subseteq dom
  <2>1. D = Variable \cap (DOMAIN b \ DOMAIN a)
        /\ premisesAdded(changes) = Premise \cap (DOMAIN b \ DOMAIN a)
    BY Parts
  <2>2. \A id \in D : references(b[id]) \subseteq DOMAIN b \cap Premise
    BY <2>1, VariableRows
  <2>3. DOMAIN b \cap Premise \subseteq dom
    BY <2>1 DEF isStage, staying
  <2> QED
    BY <2>2, <2>3
<1>3. \A k \in 1 .. Cardinality(D) : references(b[ids[k]]) \subseteq dom \cup FirstOf(ids, k)
  BY <1>1, <1>2 DEF Enumerates
<1> HIDE DEF ids, D
<1>4. D \cap dom = {}
  BY DEF D
<1>5. Brings(stage(changes, a, b, dom, new), statements("insert", changes, ids),
             stage(changes, a, b, dom \cup D, new \cup D))
  BY <1>1, <1>3, <1>4, StoreInserts
<1> QED
  BY <1>5 DEF inSomeOrder, ids, D

LEMMA ExpressionsInserted ==
    ASSUME NEW changes, NEW a, NEW b, isChange(changes, a, b), NEW dom, NEW new,
           isStage(changes, a, b, dom, new), expressionsAdded(changes) \cap dom = {},
           DOMAIN b \subseteq dom \cup expressionsAdded(changes)
    PROVE  Brings(stage(changes, a, b, dom, new),
                  statements("insert", changes,
                             topologicalSortExpressions(changes, expressionsAdded(changes))),
                  stage(changes, a, b, dom \cup expressionsAdded(changes),
                        new \cup expressionsAdded(changes)))
<1> DEFINE D == expressionsAdded(changes)
           ids == topologicalSortExpressions(changes, D)
<1>1. /\ D \subseteq DOMAIN changes /\ \A id \in D : changes[id].bucket = "added"
      /\ IsFiniteSet(D)
  BY InSomeOrder DEF expressionsAdded
<1>2. D = Expression \cap (DOMAIN b \ DOMAIN a)
  BY Parts
<1>3. \A id \in D : /\ changes[id].row = b[id] /\ isRowOf(id, b[id])
                    /\ references(b[id]) \subseteq DOMAIN b
  BY <1>1, ModifiedRow
<1>4. \A T \in SUBSET D : T # {} => \E e \in T : changes[e].row.parent \notin T
  <2>1. isForest(b, expressionsIn(b))
    BY InSoundRows DEF isChange
  <2>2. SUFFICES ASSUME NEW T \in SUBSET D, T # {}
                 PROVE  \E e \in T : changes[e].row.parent \notin T
    OBVIOUS
  <2>3. T \in SUBSET expressionsIn(b)
    BY <1>2 DEF expressionsIn
  <2>4. PICK e \in T : b[e].parent \notin T
    BY <2>1, <2>2, <2>3 DEF isForest
  <2> QED
    BY <1>3, <2>2, <2>4
<1>5. /\ Enumerates(ids, D)
      /\ \A j, k \in 1 .. Cardinality(D) : changes[ids[k]].row.parent = ids[j] => j < k
  BY <1>1, <1>4, ParentsFirst
<1>6. \A k \in 1 .. Cardinality(D) : references(b[ids[k]]) \subseteq dom \cup FirstOf(ids, k)
  <2>1. SUFFICES ASSUME NEW k \in 1 .. Cardinality(D), NEW r \in references(b[ids[k]]), r \notin dom
                 PROVE  r \in FirstOf(ids, k)
    OBVIOUS
  <2>2. PICK id \in D : id = ids[k]
    BY <1>5 DEF Enumerates
  <2>3. r \in D
    BY <1>3, <2>1, <2>2
  <2>4. PICK row : row = b[id]
    OBVIOUS
  <2>5. isRowOf(id, row) /\ id \in Expression /\ r \in references(row)
    BY <1>2, <1>3, <2>1, <2>2, <2>4
  <2>6. /\ row.premise \in Premise /\ row.variable \in Variable \cup {None}
        /\ references(row) = {row.premise, row.parent, row.variable} \ {None}
    BY <2>5, RowOfExpression
  <2>7. r = row.parent
    BY <1>2, <2>3, <2>5, <2>6, Disjoint
  <2>8. Cardinality(D) \in Nat
    BY <1>1, FS_CardinalityType
  <2>9. PICK j \in 1 .. Cardinality(D) : ids[j] = r
    BY <1>5, <2>3 DEF Enumerates
  <2>10. changes[ids[k]].row.parent = ids[j]
    BY <1>3, <2>2, <2>4, <2>7, <2>9
  <2>11. j < k
    BY <1>5, <2>10
  <2>12. j \in 1 .. k
    BY <2>8, <2>11
  <2> QED
    BY <2>9, <2>12 DEF FirstOf
<1> HIDE DEF ids, D
<1>7. D \cap dom = {}
  BY DEF D
<1>8. Brings(stage(changes, a, b, dom, new), statements("insert", changes, ids),
             stage(changes, a, b, dom \cup D, new \cup D))
  BY <1>1, <1>5, <1>6, <1>7, StoreInserts
<1> QED
  BY <1>8 DEF ids, D

LEMMA VariablesDeleted ==
    ASSUME NEW changes, NEW a, NEW b, isChange(changes, a, b), NEW dom, NEW new,
           NEW rest, rest \cap variablesRemoved(changes) = {},
           dom = rest \cup variablesRemoved(changes), premisesRemoved(changes) \subseteq rest,
           isStage(changes, a, b, rest, new)
    PROVE  Brings(stage(changes, a, b, dom, new), deleteVariables(changes),
                  stage(changes, a, b, rest, new))
<1> DEFINE D == variablesRemoved(changes)
           ids == SetToSeq(D)
<1>1. /\ D \subseteq DOMAIN changes /\ \A id \in D : changes[id].bucket = "removed"
      /\ IsFiniteSet(D) /\ Enumerates(ids, D)
  BY InSomeOrder DEF variablesRemoved
<1>2. \A id \in D : references(a[id]) \subseteq rest
  <2>1. D = Variable \cap (DOMAIN a \ DOMAIN b)
        /\ premisesRemoved(changes) = Premise \cap (DOMAIN a \ DOMAIN b)
    BY Parts
  <2>2. \A id \in D : references(a[id]) \subseteq DOMAIN a \cap Premise
    BY <2>1, VariableRows
  <2>3. DOMAIN a \cap Premise \subseteq rest
    BY <2>1 DEF isStage, staying
  <2> QED
    BY <2>2, <2>3
<1> HIDE DEF ids, D
<1>3. dom \ D = rest /\ D \subseteq dom
  BY DEF D
<1>4. /\ isStage(changes, a, b, dom \ D, new)
      /\ \A id \in D : references(a[id]) \subseteq dom \ D
  BY <1>2, <1>3
<1>5. Brings(stage(changes, a, b, dom, new), statements("delete", changes, ids),
             stage(changes, a, b, dom \ D, new))
  BY <1>1, <1>3, <1>4, StoreDeletes
<1> QED
  BY <1>3, <1>5 DEF deleteVariables, variablesRemoved, inSomeOrder, ids, D

LEMMA PremisesDeleted ==
    ASSUME NEW changes, NEW a, NEW b, isChange(changes, a, b), NEW dom, NEW new,
           NEW rest, rest \cap premisesRemoved(changes) = {},
           dom = rest \cup premisesRemoved(changes), isStage(changes, a, b, rest, new)
    PROVE  Brings(stage(changes, a, b, dom, new), deletePremises(changes),
                  stage(changes, a, b, rest, new))
<1> DEFINE D == premisesRemoved(changes)
           ids == SetToSeq(D)
<1>1. /\ D \subseteq DOMAIN changes /\ \A id \in D : changes[id].bucket = "removed"
      /\ IsFiniteSet(D) /\ Enumerates(ids, D)
  BY InSomeOrder DEF premisesRemoved
<1>2. \A id \in D : references(a[id]) \subseteq rest
  <2>1. \A id \in D : id \in Premise /\ id \in DOMAIN a
    BY Parts
  <2>2. rowsOfTheirKind(a)
    BY InSoundRows DEF isChange
  <2> QED
    BY <2>1, <2>2, RowOfPremise DEF rowsOfTheirKind
<1> HIDE DEF ids, D
<1>3. dom \ D = rest /\ D \subseteq dom
  BY DEF D
<1>4. /\ isStage(changes, a, b, dom \ D, new)
      /\ \A id \in D : references(a[id]) \subseteq dom \ D
  BY <1>2, <1>3
<1>5. Brings(stage(changes, a, b, dom, new), statements("delete", changes, ids),
             stage(changes, a, b, dom \ D, new))
  BY <1>1, <1>3, <1>4, StoreDeletes
<1> QED
  BY <1>3, <1>5 DEF deletePremises, premisesRemoved, inSomeOrder, ids, D

\* Updates of modified rows of one kind.
LEMMA UpdatedInSomeOrder ==
    ASSUME NEW changes, NEW a, NEW b, isChange(changes, a, b), NEW kind,
           NEW D, D \subseteq listed(changes, kind, "modified"), NEW dom, NEW new,
           isStage(changes, a, b, dom, new), isStage(changes, a, b, dom, new \cup D)
    PROVE  Brings(stage(changes, a, b, dom, new), inSomeOrder("update", changes, D),
                  stage(changes, a, b, dom, new \cup D))
<1>1. D \subseteq DOMAIN changes /\ \A id \in D : changes[id].bucket = "modified"
  BY DEF listed
<1>2. Enumerates(SetToSeq(D), D)
  BY <1>1, PartsFinite, SomeOrder
<1> QED
  BY <1>1, <1>2, StoreUpdates DEF inSomeOrder

\* What is left to delete, and the variables updated, when inserts come: all
\* and none if the deletes are held; none and all if not.
isLeft(changes, left, done) ==
    \/ left = premisesRemoved(changes) \cup variablesRemoved(changes) /\ done = {}
    \/ left = {} /\ done = variablesModified(changes) /\ naming(changes) = {}

LEMMA MiddleStages ==
    ASSUME NEW changes, NEW a, NEW b, isChange(changes, a, b),
           NEW left, NEW done, isLeft(changes, left, done),
           NEW pA, pA = premisesAdded(changes), NEW vA, vA = variablesAdded(changes),
           NEW eA, eA = expressionsAdded(changes), NEW stay, stay = staying(a, b)
    PROVE  /\ isStage(changes, a, b, stay \cup left \cup pA, done \cup pA)
           /\ isStage(changes, a, b, stay \cup left \cup pA \cup vA, done \cup pA \cup vA)
           /\ isStage(changes, a, b, stay \cup left \cup pA \cup vA \cup eA,
                      done \cup pA \cup vA \cup eA)
           /\ isStage(changes, a, b, stay \cup left \cup pA \cup vA \cup eA,
                      done \cup pA \cup vA \cup eA \cup late(changes))
<1>1. /\ DOMAIN a \subseteq Ids /\ DOMAIN b \subseteq Ids
      /\ pA = Premise \cap (DOMAIN b \ DOMAIN a)
      /\ vA = Variable \cap (DOMAIN b \ DOMAIN a)
      /\ eA = Expression \cap (DOMAIN b \ DOMAIN a)
      /\ premisesRemoved(changes) = Premise \cap (DOMAIN a \ DOMAIN b)
      /\ variablesRemoved(changes) = Variable \cap (DOMAIN a \ DOMAIN b)
      /\ expressionsRemoved(changes) = Expression \cap (DOMAIN a \ DOMAIN b)
      /\ variablesModified(changes) \subseteq Variable \cap DOMAIN a \cap DOMAIN b
      /\ expressionsModified(changes) \subseteq Expression \cap DOMAIN a \cap DOMAIN b
  BY Parts
<1>2. /\ stay = DOMAIN a \cap DOMAIN b /\ stay \cup pA \cup vA \cup eA = DOMAIN b
      /\ late(changes) \subseteq expressionsModified(changes)
      /\ naming(changes) \subseteq late(changes)
  BY MoreParts DEF staying
<1>3. /\ done \subseteq Variable \cap stay /\ left \subseteq DOMAIN a \ DOMAIN b
      /\ left \cap Expression = {}
      /\ \/ premisesRemoved(changes) \cup variablesRemoved(changes) \subseteq left
         \/ variablesModified(changes) \subseteq done /\ left = {} /\ naming(changes) = {}
  BY <1>1, <1>2, Disjoint DEF isLeft
<1>4. /\ pA \subseteq DOMAIN b /\ vA \subseteq DOMAIN b /\ eA \subseteq DOMAIN b
      /\ pA \cap Variable = {} /\ pA \cap Expression = {} /\ vA \cap Expression = {}
      /\ done \cap Expression = {} /\ stay \cap variablesRemoved(changes) = {}
      /\ pA \cap variablesRemoved(changes) = {} /\ vA \cap variablesRemoved(changes) = {}
      /\ eA \cap variablesRemoved(changes) = {}
      /\ pA \cap expressionsRemoved(changes) = {} /\ vA \cap expressionsRemoved(changes) = {}
      /\ eA \cap expressionsRemoved(changes) = {} /\ stay \cap expressionsRemoved(changes) = {}
      /\ left \cap expressionsRemoved(changes) = {}
  BY <1>1, <1>2, <1>3, Disjoint
<1>5. isStage(changes, a, b, stay \cup left \cup pA, done \cup pA)
  BY <1>2, <1>3, <1>4 DEF isStage, staying
<1>6. isStage(changes, a, b, stay \cup left \cup pA \cup vA, done \cup pA \cup vA)
  BY <1>2, <1>3, <1>4 DEF isStage, staying
<1>7. isStage(changes, a, b, stay \cup left \cup pA \cup vA \cup eA, done \cup pA \cup vA \cup eA)
  BY <1>2, <1>3, <1>4 DEF isStage, staying
<1>8. isStage(changes, a, b, stay \cup left \cup pA \cup vA \cup eA,
              done \cup pA \cup vA \cup eA \cup late(changes))
  BY <1>1, <1>2, <1>3, <1>4 DEF isStage, staying
<1> QED
  BY <1>5, <1>6, <1>7, <1>8

\* New variables, new expressions, then the updates that name new rows, after what
\* has been run before.
LEMMA MiddlePhasesBring ==
    ASSUME NEW changes, NEW a, NEW b, isChange(changes, a, b),
           NEW left, NEW done, isLeft(changes, left, done),
           NEW pA, pA = premisesAdded(changes), NEW vA, vA = variablesAdded(changes),
           NEW eA, eA = expressionsAdded(changes), NEW stay, stay = staying(a, b),
           NEW start, NEW w, Brings(start, w, stage(changes, a, b, stay \cup left \cup pA, done \cup pA))
    PROVE  Brings(start, w \o inSomeOrder("insert", changes, vA)
                       \o statements("insert", changes, topologicalSortExpressions(changes, eA))
                       \o inSomeOrder("update", changes, late(changes)),
                  stage(changes, a, b, stay \cup left \cup pA \cup vA \cup eA,
                        done \cup pA \cup vA \cup eA \cup late(changes)))
<1> DEFINE w1 == inSomeOrder("insert", changes, vA)
           w2 == statements("insert", changes, topologicalSortExpressions(changes, eA))
           w3 == inSomeOrder("update", changes, late(changes))
           s == stage(changes, a, b, stay \cup left \cup pA, done \cup pA)
           t == stage(changes, a, b, stay \cup left \cup pA \cup vA, done \cup pA \cup vA)
           u == stage(changes, a, b, stay \cup left \cup pA \cup vA \cup eA,
                      done \cup pA \cup vA \cup eA)
           v == stage(changes, a, b, stay \cup left \cup pA \cup vA \cup eA,
                      done \cup pA \cup vA \cup eA \cup late(changes))
<1>1. /\ pA = Premise \cap (DOMAIN b \ DOMAIN a)
      /\ vA = Variable \cap (DOMAIN b \ DOMAIN a)
      /\ eA = Expression \cap (DOMAIN b \ DOMAIN a)
      /\ premisesRemoved(changes) = Premise \cap (DOMAIN a \ DOMAIN b)
      /\ variablesRemoved(changes) = Variable \cap (DOMAIN a \ DOMAIN b)
      /\ stay = DOMAIN a \cap DOMAIN b /\ stay \cup pA \cup vA \cup eA = DOMAIN b
  <2>1. stay \cup pA \cup vA \cup eA = DOMAIN b
    BY MoreParts, Zenon
  <2> QED
    BY <2>1, Parts DEF staying
<1>2. vA \cap (stay \cup left \cup pA) = {} /\ eA \cap (stay \cup left \cup pA \cup vA) = {}
  BY <1>1, Disjoint DEF isLeft
<1>3. Brings(s, w1, t)
  <2>1. isStage(changes, a, b, stay \cup left \cup pA, done \cup pA)
    BY MiddleStages
  <2> QED
    BY <1>2, <2>1, VariablesInserted
<1>4. Brings(t, w2, u)
  <2>1. isStage(changes, a, b, stay \cup left \cup pA \cup vA, done \cup pA \cup vA)
    BY MiddleStages
  <2>2. DOMAIN b \subseteq (stay \cup left \cup pA \cup vA) \cup eA
    BY <1>1
  <2> QED
    BY <1>2, <2>1, <2>2, ExpressionsInserted
<1>5. Brings(u, w3, v)
  <2>1. /\ isStage(changes, a, b, stay \cup left \cup pA \cup vA \cup eA,
                   done \cup pA \cup vA \cup eA)
        /\ isStage(changes, a, b, stay \cup left \cup pA \cup vA \cup eA,
                   done \cup pA \cup vA \cup eA \cup late(changes))
    BY MiddleStages
  <2>2. late(changes) \subseteq listed(changes, "expressions", "modified")
    BY DEF late
  <2> QED
    BY <2>1, <2>2, UpdatedInSomeOrder
<1>6. Brings(start, w, s)
  OBVIOUS
<1> HIDE DEF w1, w2, w3, s, t, u, v
<1>7. Brings(start, w \o w1, t)
  BY <1>3, <1>6, BringsOn
<1>8. Brings(start, w \o w1 \o w2, u)
  BY <1>4, <1>7, BringsOn
<1>9. Brings(start, w \o w1 \o w2 \o w3, v)
  BY <1>5, <1>8, BringsOn
<1> QED
  BY <1>9 DEF w1, w2, w3, v

(***************************************************************************)
(* The whole changeset.                                                    *)
(***************************************************************************)
\* The stage after the middle phases with the deletes and variables done.
settled(changes, a, b) ==
    stage(changes, a, b, DOMAIN b,
          variablesModified(changes) \cup premisesAdded(changes) \cup variablesAdded(changes)
             \cup expressionsAdded(changes) \cup late(changes))

LEMMA HeldPhases ==
    ASSUME NEW changes, NEW a, NEW b, isChange(changes, a, b), NEW new,
           new = premisesAdded(changes) \cup variablesAdded(changes)
                    \cup expressionsAdded(changes) \cup late(changes)
    PROVE  Brings(stage(changes, a, b,
                        DOMAIN b \cup premisesRemoved(changes) \cup variablesRemoved(changes), new),
                  deleteVariables(changes)
                     \o updateVariables(changes, listed(changes, "variables", "modified"))
                     \o deletePremises(changes),
                  settled(changes, a, b))
<1> DEFINE pR == premisesRemoved(changes)
           vR == variablesRemoved(changes)
           vM == variablesModified(changes)
           w1 == deleteVariables(changes)
           w2 == updateVariables(changes, listed(changes, "variables", "modified"))
           w3 == deletePremises(changes)
           s == stage(changes, a, b, DOMAIN b \cup pR \cup vR, new)
           t == stage(changes, a, b, DOMAIN b \cup pR, new)
           u == stage(changes, a, b, DOMAIN b \cup pR, new \cup vM)
           v == stage(changes, a, b, DOMAIN b, new \cup vM)
<1>1. /\ premisesAdded(changes) = Premise \cap (DOMAIN b \ DOMAIN a)
      /\ variablesAdded(changes) = Variable \cap (DOMAIN b \ DOMAIN a)
      /\ expressionsAdded(changes) = Expression \cap (DOMAIN b \ DOMAIN a)
      /\ pR = Premise \cap (DOMAIN a \ DOMAIN b) /\ vR = Variable \cap (DOMAIN a \ DOMAIN b)
      /\ expressionsRemoved(changes) = Expression \cap (DOMAIN a \ DOMAIN b)
      /\ vM \subseteq Variable \cap DOMAIN a \cap DOMAIN b
      /\ expressionsModified(changes) \subseteq Expression \cap DOMAIN a \cap DOMAIN b
      /\ DOMAIN b \subseteq Ids
  BY Parts
<1>2. /\ staying(a, b) = DOMAIN a \cap DOMAIN b
      /\ staying(a, b) \cup premisesAdded(changes) \cup variablesAdded(changes)
            \cup expressionsAdded(changes) = DOMAIN b
      /\ late(changes) \subseteq expressionsModified(changes)
      /\ naming(changes) \subseteq late(changes)
  <2>1. staying(a, b) = DOMAIN a \cap DOMAIN b
    BY DEF staying
  <2> QED
    BY <2>1, MoreParts, Zenon
<1>3. /\ new \subseteq DOMAIN b /\ DOMAIN b \ DOMAIN a \subseteq new /\ naming(changes) \subseteq new
      /\ premisesAdded(changes) \subseteq DOMAIN b /\ pR \cap vR = {} /\ pR \subseteq DOMAIN a
      /\ pR \cap expressionsRemoved(changes) = {} /\ pR \cap DOMAIN b = {}
      /\ vR \cap DOMAIN b = {} /\ vM \subseteq DOMAIN b
      /\ DOMAIN b \cap expressionsRemoved(changes) = {}
  BY <1>1, <1>2, Disjoint
<1> HIDE DEF pR, vR, vM
<1>4. isStage(changes, a, b, DOMAIN b \cup pR, new)
  BY <1>2, <1>3 DEF isStage, pR, vR
<1>5. isStage(changes, a, b, DOMAIN b \cup pR, new \cup vM)
  BY <1>2, <1>3 DEF isStage, pR, vR, vM
<1>6. isStage(changes, a, b, DOMAIN b, new \cup vM)
  BY <1>2, <1>3 DEF isStage, pR, vR, vM
<1>7. Brings(s, w1, t)
  <2>1. (DOMAIN b \cup pR) \cap vR = {} /\ pR \subseteq DOMAIN b \cup pR
    BY <1>3
  <2> QED
    BY <1>4, <2>1, VariablesDeleted DEF pR, vR
<1>8. Brings(t, w2, u)
  BY <1>4, <1>5, UpdatedInSomeOrder DEF vM, updateVariables, variablesModified
<1>9. Brings(u, w3, v)
  BY <1>3, <1>6, PremisesDeleted DEF pR
<1>10. v = settled(changes, a, b)
  <2>1. new \cup vM = vM \cup premisesAdded(changes) \cup variablesAdded(changes)
                        \cup expressionsAdded(changes) \cup late(changes)
    OBVIOUS
  <2> QED
    BY <2>1 DEF settled, vM
<1> HIDE DEF w1, w2, w3, s, t, u, v
<1>11. Brings(s, w1 \o w2, u)
  BY <1>7, <1>8, BringsOn
<1>12. Brings(s, w1 \o w2 \o w3, v)
  BY <1>9, <1>11, BringsOn
<1> QED
  BY <1>10, <1>12 DEF w1, w2, w3, s, pR, vR

\* The roles come last.
LEMMA RolesBring ==
    ASSUME NEW changes, NEW a, NEW b, isChange(changes, a, b), closed(settled(changes, a, b))
    PROVE  Brings(settled(changes, a, b),
                  inSomeOrder("update", changes, listed(changes, "roles", "modified")), b)
<1> DEFINE new == variablesModified(changes) \cup premisesAdded(changes)
                     \cup variablesAdded(changes) \cup expressionsAdded(changes) \cup late(changes)
           D == rolesModified(changes)
           t == stage(changes, a, b, DOMAIN b, new \cup D)
<1>1. /\ premisesAdded(changes) = Premise \cap (DOMAIN b \ DOMAIN a)
      /\ variablesAdded(changes) = Variable \cap (DOMAIN b \ DOMAIN a)
      /\ expressionsAdded(changes) = Expression \cap (DOMAIN b \ DOMAIN a)
      /\ expressionsRemoved(changes) = Expression \cap (DOMAIN a \ DOMAIN b)
      /\ variablesRemoved(changes) = Variable \cap (DOMAIN a \ DOMAIN b)
      /\ variablesModified(changes) \subseteq Variable \cap DOMAIN a \cap DOMAIN b
      /\ expressionsModified(changes) \subseteq Expression \cap DOMAIN a \cap DOMAIN b
      /\ D \subseteq {Roles} /\ Roles \in DOMAIN b
      /\ \A id \in DOMAIN a \cap DOMAIN b :
            a[id] # b[id] => id \in variablesModified(changes) \cup expressionsModified(changes)
                                        \cup D
  BY Parts
<1>2. /\ staying(a, b) = DOMAIN a \cap DOMAIN b
      /\ staying(a, b) \cup premisesAdded(changes) \cup variablesAdded(changes)
            \cup expressionsAdded(changes) = DOMAIN b
      /\ late(changes) \subseteq expressionsModified(changes)
      /\ naming(changes) \subseteq late(changes)
  <2>1. staying(a, b) = DOMAIN a \cap DOMAIN b
    BY DEF staying
  <2> QED
    BY <2>1, MoreParts, Zenon
<1>3. /\ new \subseteq DOMAIN b /\ DOMAIN b \ DOMAIN a \subseteq new /\ naming(changes) \subseteq new
      /\ premisesAdded(changes) \subseteq DOMAIN b /\ DOMAIN b \cap expressionsRemoved(changes) = {}
      /\ DOMAIN b \cap variablesRemoved(changes) = {} /\ D \subseteq DOMAIN b
      /\ variablesModified(changes) \subseteq new
  BY <1>1, <1>2
<1>4. t = b
  <2>1. isMap(b)
    BY InSoundRows DEF isChange
  <2>2. ASSUME NEW id \in DOMAIN b, id \notin new \cup D
        PROVE  midRow(changes, a, b, id) = b[id]
    <3>1. id \in DOMAIN a /\ id \notin late(changes)
      BY <1>3, <2>2
    <3>2. CASE id \in expressionsModified(changes)
      BY <3>1, <3>2, MidRows
    <3>3. CASE id \notin expressionsModified(changes)
      <4>1. a[id] = b[id]
        BY <1>1, <1>3, <2>2, <3>1, <3>3
      <4> QED
        BY <3>1, <3>3, <4>1, MidRows
    <3> QED
      BY <3>2, <3>3
  <2> QED
    BY <2>1, <2>2 DEF stage, isMap
<1> HIDE DEF new, D
<1>5. isStage(changes, a, b, DOMAIN b, new)
  BY <1>2, <1>3 DEF isStage
<1>6. isStage(changes, a, b, DOMAIN b, new \cup D)
  BY <1>2, <1>3 DEF isStage
<1>7. Brings(stage(changes, a, b, DOMAIN b, new), inSomeOrder("update", changes, D), t)
  BY <1>5, <1>6, UpdatedInSomeOrder DEF D, rolesModified
<1>8. stage(changes, a, b, DOMAIN b, new) = settled(changes, a, b)
  BY DEF settled, new
<1> HIDE DEF t
<1> QED
  BY <1>4, <1>7, <1>8 DEF D, rolesModified

\* Nothing is run when the condition does not hold.
LEMMA WhenBrings ==
    ASSUME NEW x, NEW y, NEW w, NEW condition \in BOOLEAN, closed(x),
           condition => Brings(x, w, y), ~condition => x = y
    PROVE  Brings(x, when(condition, w), y)
<1>1. CASE condition
  BY <1>1 DEF when
<1>2. CASE ~condition
  BY <1>2, NothingBrings DEF when
<1> QED
  BY <1>1, <1>2

\* If an expression comes to name a new row, deletes wait for its update.
LEMMA HeldBrings ==
    ASSUME NEW changes, NEW a, NEW b, isChange(changes, a, b), holdDeletes(changes)
    PROVE  Brings(a, orderChangeset(changes), b)
<1> DEFINE pA == premisesAdded(changes)
           vA == variablesAdded(changes)
           eA == expressionsAdded(changes)
           stay == staying(a, b)
           left == premisesRemoved(changes) \cup variablesRemoved(changes)
           s0 == stage(changes, a, b, stay \cup left, {})
           s1 == stage(changes, a, b, stay \cup left \cup pA, {} \cup pA)
           s2 == stage(changes, a, b, stay \cup left \cup pA \cup vA \cup eA,
                       {} \cup pA \cup vA \cup eA \cup late(changes))
           s3 == settled(changes, a, b)
           w0 == firstPhases(changes)
           w1 == inSomeOrder("insert", changes, pA)
           w2 == inSomeOrder("insert", changes, vA)
           w3 == statements("insert", changes, topologicalSortExpressions(changes, eA))
           w4 == inSomeOrder("update", changes, late(changes))
           w5 == deleteVariables(changes)
                    \o updateVariables(changes, listed(changes, "variables", "modified"))
                    \o deletePremises(changes)
           w6 == inSomeOrder("update", changes, listed(changes, "roles", "modified"))
           x1 == when(~holdDeletes(changes),
                      deleteVariables(changes) \o updateVariables(changes, earlyVariables(changes))
                         \o when(lateVariables(changes) = {}, deletePremises(changes)))
           x2 == when(~holdDeletes(changes) /\ lateVariables(changes) # {},
                      updateVariables(changes, lateVariables(changes)) \o deletePremises(changes))
           x3 == when(holdDeletes(changes), w5)
<1>1. isLeft(changes, left, {})
  BY DEF isLeft
<1>2. /\ isStage(changes, a, b, stay \cup left, {})
      /\ Brings(a, w0, s0)
  <2>1. firstLeft(changes, a) = stay \cup left
    BY FirstLeft
  <2> QED
    BY <2>1, FirstLeft, FirstPhasesBring
<1>3. pA \cap (stay \cup left) = {}
  BY Parts, Disjoint DEF staying
<1>4. Brings(s0, w1, s1)
  BY <1>2, <1>3, PremisesInserted
<1>5. stay \cup pA \cup vA \cup eA = DOMAIN b
  BY MoreParts
<1>6. Brings(s2, w5, s3)
  <2>1. /\ stay \cup left \cup pA \cup vA \cup eA
              = DOMAIN b \cup premisesRemoved(changes) \cup variablesRemoved(changes)
        /\ {} \cup pA \cup vA \cup eA \cup late(changes) = pA \cup vA \cup eA \cup late(changes)
    BY <1>5
  <2> QED
    BY <2>1, HeldPhases
<1>7. Brings(s3, w6, b)
  BY <1>6, BringsClosed, RolesBring
<1>8. ASSUME NEW start, NEW w, Brings(start, w, s1)
      PROVE  Brings(start, w \o w2 \o w3 \o w4, s2)
  BY <1>1, <1>8, MiddlePhasesBring
<1>9. orderChangeset(changes) = w0 \o x1 \o (w1 \o x2 \o w2 \o w3 \o w4 \o x3 \o w6)
  BY DEF orderChangeset, lastPhases, premisesAdded, variablesAdded, expressionsAdded
<1>10. x1 = << >> /\ x2 = << >> /\ x3 = w5
  BY DEF when
<1> HIDE DEF s0, s1, s2, s3, w0, w1, w2, w3, w4, w5, w6, x1, x2, x3
<1>11. Brings(a, w0 \o x1, s0)
  BY <1>2, <1>10, BringsClosed, NothingBrings, BringsOn
<1>12. Brings(s0, w1 \o x2, s1)
  BY <1>4, <1>10, BringsClosed, NothingBrings, BringsOn
<1>13. Brings(s0, w1 \o x2 \o w2 \o w3 \o w4, s2)
  BY <1>8, <1>12
<1>14. Brings(s0, w1 \o x2 \o w2 \o w3 \o w4 \o x3, s3)
  BY <1>6, <1>10, <1>13, BringsOn
<1>15. Brings(s0, w1 \o x2 \o w2 \o w3 \o w4 \o x3 \o w6, b)
  BY <1>7, <1>14, BringsOn
<1> QED
  BY <1>9, <1>11, <1>15, BringsOn

\* The stages when no delete is held.
LEMMA FreeStages ==
    ASSUME NEW changes, NEW a, NEW b, isChange(changes, a, b), naming(changes) = {},
           NEW pA, pA = premisesAdded(changes), NEW pR, pR = premisesRemoved(changes),
           NEW early, early = earlyVariables(changes), NEW stay, stay = staying(a, b)
    PROVE  /\ isStage(changes, a, b, stay \cup pR, {})
           /\ isStage(changes, a, b, stay \cup pR, {} \cup early)
           /\ lateVariables(changes) = {} => isStage(changes, a, b, stay, {} \cup early)
           /\ isStage(changes, a, b, stay \cup pR \cup pA, {} \cup early \cup pA)
           /\ isStage(changes, a, b, stay \cup pR \cup pA,
                      ({} \cup early \cup pA) \cup lateVariables(changes))
           /\ isStage(changes, a, b, stay \cup pA,
                      ({} \cup early \cup pA) \cup lateVariables(changes))
<1>1. /\ pA = Premise \cap (DOMAIN b \ DOMAIN a)
      /\ pR = Premise \cap (DOMAIN a \ DOMAIN b)
      /\ variablesRemoved(changes) = Variable \cap (DOMAIN a \ DOMAIN b)
      /\ expressionsRemoved(changes) = Expression \cap (DOMAIN a \ DOMAIN b)
      /\ variablesModified(changes) \subseteq Variable \cap DOMAIN a \cap DOMAIN b
      /\ early \cup lateVariables(changes) = variablesModified(changes)
  <2>1. early \cup lateVariables(changes) = variablesModified(changes)
    BY MoreParts, Zenon
  <2> QED
    BY <2>1, Parts
<1>2. /\ stay = DOMAIN a \cap DOMAIN b /\ early \subseteq stay \cap Variable
      /\ lateVariables(changes) \subseteq stay \cap Variable
      /\ pA \cap Variable = {} /\ pA \cap Expression = {} /\ pR \cap Variable = {}
      /\ pR \cap Expression = {} /\ stay \cap variablesRemoved(changes) = {}
      /\ stay \cap expressionsRemoved(changes) = {} /\ pA \cap expressionsRemoved(changes) = {}
      /\ pR \cap expressionsRemoved(changes) = {} /\ pA \cap variablesRemoved(changes) = {}
      /\ early \cap Expression = {} /\ lateVariables(changes) \cap Expression = {}
  BY <1>1, Disjoint DEF staying
<1>3. isStage(changes, a, b, stay \cup pR, {})
  BY <1>1, <1>2 DEF isStage, staying
<1>4. isStage(changes, a, b, stay \cup pR, {} \cup early)
  BY <1>1, <1>2 DEF isStage, staying
<1>5. lateVariables(changes) = {} => isStage(changes, a, b, stay, {} \cup early)
  BY <1>1, <1>2 DEF isStage, staying
<1>6. isStage(changes, a, b, stay \cup pR \cup pA, {} \cup early \cup pA)
  BY <1>1, <1>2 DEF isStage, staying
<1>7. isStage(changes, a, b, stay \cup pR \cup pA,
              ({} \cup early \cup pA) \cup lateVariables(changes))
  BY <1>1, <1>2 DEF isStage, staying
<1>8. isStage(changes, a, b, stay \cup pA, ({} \cup early \cup pA) \cup lateVariables(changes))
  BY <1>1, <1>2 DEF isStage, staying
<1> QED
  BY <1>3, <1>4, <1>5, <1>6, <1>7, <1>8

\* What comes before and with the new premises when no delete is held: a
\* variable that moves to a new premise waits for it, and keeps the premise it
\* moves from until then.
LEMMA FreeStart ==
    ASSUME NEW changes, NEW a, NEW b, isChange(changes, a, b), ~holdDeletes(changes),
           NEW pA, pA = premisesAdded(changes), NEW stay, stay = staying(a, b),
           NEW w, Brings(a, w, stage(changes, a, b, firstLeft(changes, a), {}))
    PROVE  \E t :
              /\ Brings(a, w \o when(~holdDeletes(changes),
                                     deleteVariables(changes)
                                     \o updateVariables(changes, earlyVariables(changes))
                                     \o when(lateVariables(changes) = {}, deletePremises(changes))), t)
              /\ Brings(t, inSomeOrder("insert", changes, pA)
                           \o when(~holdDeletes(changes) /\ lateVariables(changes) # {},
                                   updateVariables(changes, lateVariables(changes))
                                   \o deletePremises(changes)),
                        stage(changes, a, b, stay \cup {} \cup pA,
                              variablesModified(changes) \cup pA))
<1> DEFINE early == earlyVariables(changes)
           pR == premisesRemoved(changes)
           vR == variablesRemoved(changes)
           before == {} \cup early \cup pA
           after == before \cup lateVariables(changes)
           s0 == stage(changes, a, b, stay \cup pR \cup vR, {})
           s1 == stage(changes, a, b, stay \cup pR, {})
           s2 == stage(changes, a, b, stay \cup pR, {} \cup early)
           s3 == stage(changes, a, b, stay, {} \cup early)
           t2 == stage(changes, a, b, stay \cup pR \cup pA, before)
           t3 == stage(changes, a, b, stay \cup pA, before)
           t4 == stage(changes, a, b, stay \cup pR \cup pA, after)
           t5 == stage(changes, a, b, stay \cup pA, after)
           w1 == deleteVariables(changes)
           w2 == updateVariables(changes, early)
           w3 == deletePremises(changes)
           w4 == inSomeOrder("insert", changes, pA)
           w5 == updateVariables(changes, lateVariables(changes))
<1>1. /\ naming(changes) = {} /\ Brings(a, w, s0)
      /\ early \cup lateVariables(changes) = variablesModified(changes)
  <2>1. naming(changes) = {}
    BY DeletesHeld
  <2>2. firstLeft(changes, a) = stay \cup pR \cup vR
    BY FirstLeft
  <2>3. early \cup lateVariables(changes) = variablesModified(changes)
    BY MoreParts, Zenon
  <2> QED
    BY <2>1, <2>2, <2>3
<1>2. /\ pR \cap vR = {} /\ stay \cap vR = {} /\ stay \cap pR = {} /\ pA \cap stay = {}
      /\ pA \cap pR = {}
  BY Parts, Disjoint DEF staying
<1>3. t5 = stage(changes, a, b, stay \cup {} \cup pA, variablesModified(changes) \cup pA)
  <2>1. after = variablesModified(changes) \cup pA /\ stay \cup {} \cup pA = stay \cup pA
    BY <1>1
  <2> QED
    BY <2>1
<1>4. Brings(s0, w1, s1)
  <2>1. isStage(changes, a, b, stay \cup pR, {})
    BY <1>1, FreeStages
  <2>2. (stay \cup pR) \cap vR = {} /\ pR \subseteq stay \cup pR
    BY <1>2
  <2> QED
    BY <2>1, <2>2, VariablesDeleted
<1>5. Brings(s1, w2, s2)
  <2>1. /\ isStage(changes, a, b, stay \cup pR, {})
        /\ isStage(changes, a, b, stay \cup pR, {} \cup early)
    BY <1>1, FreeStages
  <2>2. early \subseteq listed(changes, "variables", "modified")
    BY DEF earlyVariables
  <2> QED
    BY <2>1, <2>2, UpdatedInSomeOrder DEF updateVariables
<1>6. ASSUME lateVariables(changes) = {}
      PROVE  Brings(s2, w3, s3) /\ Brings(s3, w4, t3) /\ t3 = t5
  <2>1. isStage(changes, a, b, stay, {} \cup early)
    BY <1>1, <1>6, FreeStages
  <2>2. Brings(s2, w3, s3)
    BY <1>2, <2>1, PremisesDeleted
  <2>3. Brings(s3, w4, t3)
    BY <1>2, <2>1, PremisesInserted
  <2>4. before = after
    BY <1>6
  <2> QED
    BY <2>2, <2>3, <2>4
<1>7. /\ Brings(s2, w4, t2) /\ Brings(t2, w5, t4) /\ Brings(t4, w3, t5)
  <2>1. /\ isStage(changes, a, b, stay \cup pR, {} \cup early)
        /\ isStage(changes, a, b, stay \cup pR \cup pA, before)
        /\ isStage(changes, a, b, stay \cup pR \cup pA, after)
        /\ isStage(changes, a, b, stay \cup pA, after)
    BY <1>1, FreeStages
  <2>2. Brings(s2, w4, t2)
    <3>1. pA \cap (stay \cup pR) = {}
      BY <1>2
    <3> QED
      BY <2>1, <3>1, PremisesInserted
  <2>3. Brings(t2, w5, t4)
    <3>1. lateVariables(changes) \subseteq listed(changes, "variables", "modified")
      BY DEF lateVariables
    <3> QED
      BY <2>1, <3>1, UpdatedInSomeOrder DEF updateVariables
  <2>4. Brings(t4, w3, t5)
    <3>1. (stay \cup pA) \cap pR = {} /\ stay \cup pR \cup pA = (stay \cup pA) \cup pR
      BY <1>2
    <3> QED
      BY <2>1, <3>1, PremisesDeleted
  <2> QED
    BY <2>2, <2>3, <2>4
<1> DEFINE x1 == when(~holdDeletes(changes), w1 \o w2 \o when(lateVariables(changes) = {}, w3))
           x2 == when(~holdDeletes(changes) /\ lateVariables(changes) # {}, w5 \o w3)
<1>8. CASE lateVariables(changes) = {}
  <2>1. x1 = w1 \o w2 \o w3 /\ x2 = << >>
    BY <1>8 DEF when
  <2> HIDE DEF w1, w2, w3, w4, w5, s0, s1, s2, s3, t3, t5, x1, x2
  <2>2. Brings(s0, w1 \o w2, s2)
    BY <1>4, <1>5, BringsOn
  <2>3. Brings(s0, w1 \o w2 \o w3, s3)
    BY <1>6, <1>8, <2>2, BringsOn
  <2>4. Brings(a, w \o x1, s3)
    BY <1>1, <2>1, <2>3, BringsOn
  <2>5. Brings(s3, w4 \o x2, t5)
    BY <1>6, <1>8, <2>1, BringsClosed, NothingBrings, BringsOn
  <2> QED
    BY <1>3, <2>4, <2>5 DEF w1, w2, w3, w4, w5, x1, x2
<1>9. CASE lateVariables(changes) # {}
  <2>1. x1 = w1 \o w2 \o << >> /\ x2 = w5 \o w3
    BY <1>9 DEF when
  <2> HIDE DEF w1, w2, w3, w4, w5, s0, s1, s2, t2, t4, t5, x1, x2
  <2>2. Brings(s0, w1 \o w2, s2)
    BY <1>4, <1>5, BringsOn
  <2>3. Brings(s0, w1 \o w2 \o << >>, s2)
    BY <2>2, BringsClosed, NothingBrings, BringsOn
  <2>4. Brings(a, w \o x1, s2)
    BY <1>1, <2>1, <2>3, BringsOn
  <2>5. Brings(t2, w5 \o w3, t5)
    BY <1>7, BringsOn
  <2>6. Brings(s2, w4 \o x2, t5)
    BY <1>7, <2>1, <2>5, BringsOn
  <2> QED
    BY <1>3, <2>4, <2>6 DEF w1, w2, w3, w4, w5, x1, x2
<1> QED
  BY <1>8, <1>9

LEMMA FreeBrings ==
    ASSUME NEW changes, NEW a, NEW b, isChange(changes, a, b), ~holdDeletes(changes)
    PROVE  Brings(a, orderChangeset(changes), b)
<1> DEFINE pA == premisesAdded(changes)
           vA == variablesAdded(changes)
           eA == expressionsAdded(changes)
           vM == variablesModified(changes)
           stay == staying(a, b)
           s2 == stage(changes, a, b, stay \cup {} \cup pA, vM \cup pA)
           s3 == stage(changes, a, b, stay \cup {} \cup pA \cup vA \cup eA,
                       vM \cup pA \cup vA \cup eA \cup late(changes))
           w0 == firstPhases(changes)
           w1 == inSomeOrder("insert", changes, pA)
           w2 == inSomeOrder("insert", changes, vA)
           w3 == statements("insert", changes, topologicalSortExpressions(changes, eA))
           w4 == inSomeOrder("update", changes, late(changes))
           w6 == inSomeOrder("update", changes, listed(changes, "roles", "modified"))
           x1 == when(~holdDeletes(changes),
                      deleteVariables(changes) \o updateVariables(changes, earlyVariables(changes))
                         \o when(lateVariables(changes) = {}, deletePremises(changes)))
           x2 == when(~holdDeletes(changes) /\ lateVariables(changes) # {},
                      updateVariables(changes, lateVariables(changes)) \o deletePremises(changes))
           x3 == when(holdDeletes(changes),
                      deleteVariables(changes)
                         \o updateVariables(changes, listed(changes, "variables", "modified"))
                         \o deletePremises(changes))
<1>1. isLeft(changes, {}, vM)
  BY DeletesHeld DEF isLeft
<1>2. Brings(a, w0, stage(changes, a, b, firstLeft(changes, a), {}))
  BY FirstPhasesBring
<1>3. PICK t : Brings(a, w0 \o x1, t) /\ Brings(t, w1 \o x2, s2)
  BY <1>2, FreeStart
<1>4. Brings(t, (w1 \o x2) \o w2 \o w3 \o w4, s3)
  BY <1>1, <1>3, MiddlePhasesBring
<1>5. s3 = settled(changes, a, b)
  <2>1. stay \cup {} \cup pA \cup vA \cup eA = DOMAIN b
    <3>1. stay \cup pA \cup vA \cup eA = DOMAIN b
      BY MoreParts, Zenon
    <3>2. stay \cup {} = stay
      OBVIOUS
    <3> QED
      BY <3>1, <3>2
  <2> QED
    BY <2>1 DEF settled
<1>6. Brings(s3, w6, b)
  BY <1>4, <1>5, BringsClosed, RolesBring
<1>7. orderChangeset(changes) = w0 \o x1 \o (w1 \o x2 \o w2 \o w3 \o w4 \o x3 \o w6)
  BY DEF orderChangeset, lastPhases, premisesAdded, variablesAdded, expressionsAdded
<1>8. x3 = << >>
  BY DEF when
<1> HIDE DEF s2, s3, w0, w1, w2, w3, w4, w6, x1, x2, x3
<1>9. Brings(t, w1 \o x2 \o w2 \o w3 \o w4 \o x3, s3)
  BY <1>4, <1>8, BringsClosed, NothingBrings, BringsOn
<1>10. Brings(t, w1 \o x2 \o w2 \o w3 \o w4 \o x3 \o w6, b)
  BY <1>6, <1>9, BringsOn
<1> QED
  BY <1>3, <1>7, <1>10, BringsOn

\* The ordered statements of a changeset bring a store from the state before
\* to the state after, each accepted by a store that checks foreign keys.
LEMMA OrderBrings ==
    ASSUME NEW changes, NEW a, NEW b, isChange(changes, a, b)
    PROVE  Brings(a, orderChangeset(changes), b)
BY HeldBrings, FreeBrings

(***************************************************************************)
(* The caller.                                                             *)
(***************************************************************************)
\* The changes put off tell how the engine's rows differ from those of the last
\* commit, and the statements still to run bring the store to that commit.
PersistenceInvariant ==
    /\ sound(engine) /\ sound(committed)
    /\ Tells(pending, committed, engine) /\ RemovedForest(pending)
    /\ Brings(store, todo, committed)

LEMMA PersistenceInvariantInit == Init => PersistenceInvariant
<1> SUFFICES ASSUME Init  PROVE PersistenceInvariant
  OBVIOUS
<1>1. sound(engine) /\ committed = engine /\ store = engine /\ pending = noChanges /\ todo = << >>
  BY PersistenceAssumption DEF Init
<1>2. isMap(engine) /\ closed(engine)
  BY <1>1, InSoundRows
<1>3. Tells(pending, committed, engine)
  BY <1>1, <1>2, NoChangesTell
<1>4. RemovedForest(pending)
  BY <1>1 DEF RemovedForest, listed, noChanges
<1>5. Brings(store, todo, committed)
  BY <1>1, <1>2, NothingBrings
<1> QED
  BY <1>1, <1>3, <1>4, <1>5 DEF PersistenceInvariant

LEMMA CallKeeps == PersistenceInvariant /\ Call => PersistenceInvariant'
<1> SUFFICES ASSUME PersistenceInvariant, Call  PROVE PersistenceInvariant'
  OBVIOUS
<1> DEFINE begun == [rows |-> engine, changes |-> noChanges]
<1>1. PICK d \in edited(begun) :
         /\ engine' = d.rows
         /\ pending' = composeChangesets(pending, withCurrentEntries(d.changes, d.rows))
  BY DEF Call
<1>2. committed' = committed /\ store' = store /\ todo' = todo
  BY DEF Call
<1>3. isGood(d, engine)
  <2>1. /\ begun.rows = engine /\ begun.changes = noChanges
        /\ begun = [rows |-> begun.rows, changes |-> noChanges] /\ sound(begun.rows)
    BY DEF PersistenceInvariant
  <2> HIDE DEF begun
  <2>2. isGood(d, begun.rows)
    BY <2>1, EditedGood
  <2> QED
    BY <2>1, <2>2
<1>4. Tells(d.changes, engine, d.rows) /\ RemovesAsWas(d.changes, engine) /\ sound(d.rows)
  BY <1>3 DEF isGood, isDraft
<1>5. pending' = composeChangesets(pending, d.changes)
  BY <1>1, <1>4, EntriesAreCurrent
<1>6. Tells(pending', committed, d.rows)
  BY <1>4, <1>5, ComposedTell DEF PersistenceInvariant
<1>7. RemovedForest(pending')
  BY <1>4, <1>5, RemovedForestGrows DEF PersistenceInvariant
<1> QED
  BY <1>1, <1>2, <1>4, <1>6, <1>7 DEF PersistenceInvariant

LEMMA CommitKeeps == PersistenceInvariant /\ Commit => PersistenceInvariant'
<1> SUFFICES ASSUME PersistenceInvariant, Commit  PROVE PersistenceInvariant'
  OBVIOUS
<1>1. /\ todo = << >> /\ todo' = orderChangeset(pending) /\ pending' = noChanges
      /\ committed' = engine /\ engine' = engine /\ store' = store
  BY DEF Commit
<1>2. store = committed
  BY <1>1, BroughtByNothing DEF PersistenceInvariant
<1>3. isChange(pending, committed, engine)
  BY DEF PersistenceInvariant, isChange
<1>4. Brings(store', todo', committed')
  BY <1>1, <1>2, <1>3, OrderBrings
<1>5. Tells(pending', committed', engine')
  <2>1. isMap(engine)
    BY InSoundRows DEF PersistenceInvariant
  <2> QED
    BY <1>1, <2>1, NoChangesTell
<1>6. RemovedForest(pending')
  BY <1>1 DEF RemovedForest, listed, noChanges
<1> QED
  BY <1>1, <1>4, <1>5, <1>6 DEF PersistenceInvariant

LEMMA RunKeeps == PersistenceInvariant /\ Run => PersistenceInvariant'
<1> SUFFICES ASSUME PersistenceInvariant, Run  PROVE PersistenceInvariant'
  OBVIOUS
<1>1. /\ todo # << >> /\ store' = execute(store, Head(todo)) /\ todo' = Tail(todo)
      /\ engine' = engine /\ pending' = pending /\ committed' = committed
  BY DEF Run
<1>2. Brings(store', todo', committed')
  BY <1>1, FirstStatement DEF PersistenceInvariant
<1> QED
  BY <1>1, <1>2 DEF PersistenceInvariant

\* Whatever calls were composed, the changes put off are the whole difference
\* from the last commit and the statements to run lead to it.
THEOREM ChangesTellTheDifference == Spec => []PersistenceInvariant
<1>1. PersistenceInvariant /\ UNCHANGED pvars => PersistenceInvariant'
  BY DEF PersistenceInvariant, pvars
<1>2. PersistenceInvariant /\ [Next]_pvars => PersistenceInvariant'
  BY <1>1, CallKeeps, CommitKeeps, RunKeeps DEF Next
<1> QED
  BY <1>2, PersistenceInvariantInit, PTL DEF Spec

\* A store that checks foreign keys on every statement and cascades nothing
\* accepts every statement of every ordered changeset (orderChangeset).
THEOREM StoreAcceptsAlways == Spec => []StoreAccepts
<1>1. PersistenceInvariant => StoreAccepts
  BY FirstStatement DEF PersistenceInvariant, StoreAccepts, accepts
<1> QED
  BY <1>1, ChangesTellTheDifference, PTL

\* When the statements of a commit have run, the store holds the rows the engine
\* held at the commit: composing and ordering lose no change and replay none
\* (composeChangesets, orderChangeset).
THEOREM StoreCatchesUpAlways == Spec => []StoreCatchesUp
<1>1. PersistenceInvariant => StoreCatchesUp
  BY BroughtByNothing DEF PersistenceInvariant, StoreCatchesUp
<1> QED
  BY <1>1, ChangesTellTheDifference, PTL

(***************************************************************************)
(* The difference of two states.                                           *)
(***************************************************************************)
viewOf(rows, p) ==
    {<<e, rows[e], rows[e].variable,
       IF rows[e].type = "variable" THEN rows[rows[e].variable] ELSE None>> :
         e \in expressionsOf(rows, p)}

bothPremises(a, b) == ofKind(a, "premises") \cap ofKind(b, "premises")

\* What an expression that uses a variable refers to is there.
LEMMA UsedVariable ==
    ASSUME NEW rows, sound(rows), NEW p, NEW e \in expressionsOf(rows, p)
    PROVE  /\ e \in Expression /\ isRowOf(e, rows[e]) /\ rows[e].premise = p
           /\ rows[e] \in ExpressionRow
           /\ rows[e].type # "variable" => rows[e].variable = None
           /\ rows[e].type = "variable" =>
                 /\ rows[e].variable \in ofKind(rows, "variables")
                 /\ rows[e].variable \in Variable
                 /\ isRowOf(rows[e].variable, rows[rows[e].variable])
<1>1. e \in expressionsIn(rows) /\ rows[e].premise = p
  BY InSoundRows DEF expressionsOf
<1>2. e \in Expression /\ isRowOf(e, rows[e]) /\ references(rows[e]) \subseteq DOMAIN rows
      /\ rowsOfTheirKind(rows)
  BY <1>1, InSoundRows DEF expressionsIn, rowsOfTheirKind, closed
<1>3. PICK row : row = rows[e]
  OBVIOUS
<1>4. /\ row \in ExpressionRow /\ row.variable \in Variable \cup {None}
      /\ row.type = "variable" <=> row.variable # None
      /\ references(row) = {row.premise, row.parent, row.variable} \ {None}
  BY <1>2, <1>3, RowOfExpression
<1>5. row.type = "variable" => row.variable \in Variable \cap DOMAIN rows
  BY <1>2, <1>3, <1>4
<1>6. ofKind(rows, "variables") = DOMAIN rows \cap Variable
  BY InSoundRows
<1> QED
  BY <1>1, <1>2, <1>3, <1>4, <1>5, <1>6 DEF rowsOfTheirKind

\* Rows whose compared fields agree are the same.
LEMMA SameExpression ==
    ASSUME NEW p, NEW r \in ExpressionRow, NEW s \in ExpressionRow, r.premise = p, s.premise = p,
           r.type # "variable" => r.variable = None, s.type # "variable" => s.variable = None,
           defaultCompareExpression(r, s) = {}
    PROVE  r = s
<1>1. r.type = s.type /\ r.parent = s.parent
  BY DEF defaultCompareExpression
<1>2. r.variable = s.variable
  BY <1>1 DEF defaultCompareExpression
<1> QED
  BY <1>1, <1>2 DEF ExpressionRow

LEMMA SameVariable ==
    ASSUME NEW r \in VariableRow, NEW s \in VariableRow, defaultCompareVariable(r, s) = {}
    PROVE  r = s
<1>1. r.symbol = s.symbol /\ r.bound = s.bound
  BY DEF defaultCompareVariable
<1> QED
  BY <1>1 DEF VariableRow

LEMMA WhatIsModified ==
    ASSUME NEW a, NEW b, NEW p \in bothPremises(a, b)
    PROVE  p \in diffArguments(a, b).premises.modified
              <=> \/ ~isEmptyDiff(diffExpressions(a, b, p))
                  \/ p \in propagateReferenceWithin(a, b)
BY DEF diffArguments, diffPremiseSet, diffEntitySet, defaultComparePremise, bothPremises

LEMMA VariablesModified ==
    ASSUME NEW a, NEW b, sound(a), sound(b), NEW p \in bothPremises(a, b), NEW x
    PROVE  x \in diffVariables(a, b).modified
              <=> /\ x \in ofKind(a, "variables") \cap ofKind(b, "variables")
                  /\ defaultCompareVariable(a[x], b[x]) # {}
<1>1. ofKind(a, "premises") # {} /\ ofKind(b, "premises") # {}
  BY DEF bothPremises
<1> QED
  BY <1>1 DEF diffVariables, collectVariables, diffEntitySet

LEMMA NoDiffOfExpressions ==
    ASSUME NEW a, NEW b, NEW p
    PROVE  isEmptyDiff(diffExpressions(a, b, p))
              <=> /\ expressionsOf(a, p) = expressionsOf(b, p)
                  /\ \A e \in expressionsOf(a, p) : defaultCompareExpression(a[e], b[e]) = {}
BY DEF isEmptyDiff, diffExpressions, diffEntitySet

LEMMA UnlistedLooksTheSame ==
    ASSUME NEW a, NEW b, sound(a), sound(b), NEW p \in bothPremises(a, b),
           p \notin diffArguments(a, b).premises.modified
    PROVE  viewOf(a, p) = viewOf(b, p)
<1>1. /\ expressionsOf(a, p) = expressionsOf(b, p)
      /\ \A e \in expressionsOf(a, p) : defaultCompareExpression(a[e], b[e]) = {}
      /\ p \notin propagateReferenceWithin(a, b)
  BY WhatIsModified, NoDiffOfExpressions
<1>2. ASSUME NEW e \in expressionsOf(b, p)
      PROVE  a[e] = b[e]
  <2>1. /\ a[e] \in ExpressionRow /\ a[e].premise = p
        /\ a[e].type # "variable" => a[e].variable = None
        /\ b[e] \in ExpressionRow /\ b[e].premise = p
        /\ b[e].type # "variable" => b[e].variable = None
    BY <1>1, UsedVariable
  <2> QED
    BY <1>1, <2>1, SameExpression
<1>3. ASSUME NEW e \in expressionsOf(b, p), b[e].type = "variable"
      PROVE  a[b[e].variable] = b[b[e].variable]
  <2>1. PICK x : x = b[e].variable
    OBVIOUS
  <2>2. /\ x \in ofKind(a, "variables") /\ x \in ofKind(b, "variables") /\ x \in Variable
        /\ isRowOf(x, a[x]) /\ isRowOf(x, b[x])
    BY <1>1, <1>2, <1>3, <2>1, UsedVariable
  <2>3. x \notin diffVariables(a, b).modified
    BY <1>1, <1>3, <2>1 DEF propagateReferenceWithin, bothPremises
  <2>4. defaultCompareVariable(a[x], b[x]) = {}
    BY <2>2, <2>3, VariablesModified
  <2>5. a[x] \in VariableRow /\ b[x] \in VariableRow
    BY <2>2, RowOfVariable
  <2> QED
    BY <2>1, <2>4, <2>5, SameVariable
<1> QED
  BY <1>1, <1>2, <1>3 DEF viewOf

LEMMA ListedLooksDifferent ==
    ASSUME NEW a, NEW b, sound(a), sound(b), NEW p \in bothPremises(a, b),
           viewOf(a, p) = viewOf(b, p)
    PROVE  p \notin diffArguments(a, b).premises.modified
<1> DEFINE seen(rows, e) ==
             <<e, rows[e], rows[e].variable,
               IF rows[e].type = "variable" THEN rows[rows[e].variable] ELSE None>>
<1>1. \A e \in expressionsOf(a, p) : \E f \in expressionsOf(b, p) : seen(a, e) = seen(b, f)
  BY DEF viewOf
<1>2. \A e \in expressionsOf(b, p) : \E f \in expressionsOf(a, p) : seen(b, e) = seen(a, f)
  BY DEF viewOf
<1>3. \A e \in expressionsOf(a, p) :
         e \in expressionsOf(b, p) /\ seen(a, e) = seen(b, e)
  BY <1>1
<1>4. expressionsOf(a, p) = expressionsOf(b, p)
  BY <1>2, <1>3
<1>5. ASSUME NEW e \in expressionsOf(b, p)
      PROVE  /\ a[e] = b[e]
             /\ b[e].type = "variable" => a[b[e].variable] = b[b[e].variable]
  <2>1. seen(a, e) = seen(b, e)
    BY <1>3, <1>4
  <2>2. a[e] = b[e]
    BY <2>1
  <2>3. (IF a[e].type = "variable" THEN a[a[e].variable] ELSE None)
           = (IF b[e].type = "variable" THEN b[b[e].variable] ELSE None)
    BY <2>1
  <2> QED
    BY <2>2, <2>3
<1>6. isEmptyDiff(diffExpressions(a, b, p))
  BY <1>4, <1>5, NoDiffOfExpressions DEF defaultCompareExpression
<1>7. p \notin propagateReferenceWithin(a, b)
  <2>1. SUFFICES ASSUME NEW e \in expressionsOf(b, p), b[e].type = "variable",
                        b[e].variable \in diffVariables(a, b).modified
                 PROVE  FALSE
    BY DEF propagateReferenceWithin
  <2>2. defaultCompareVariable(a[b[e].variable], b[b[e].variable]) # {}
    BY <2>1, VariablesModified
  <2> QED
    BY <1>5, <2>1, <2>2 DEF defaultCompareVariable
<1> QED
  BY <1>6, <1>7, WhatIsModified

\* The diff lists exactly the premises that read differently in the committed
\* argument and the current one (core/diff.ts).
THEOREM DiffTellsAllAlways == Spec => []DiffTellsAll
<1>1. PersistenceInvariant => DiffTellsAll
  <2>1. SUFFICES ASSUME PersistenceInvariant, NEW p \in bothPremises(committed, engine)
                 PROVE  p \notin diffArguments(committed, engine).premises.modified
                           <=> viewOf(committed, p) = viewOf(engine, p)
    BY DEF DiffTellsAll, bothPremises, viewOf
  <2> QED
    BY <2>1, UnlistedLooksTheSame, ListedLooksDifferent DEF PersistenceInvariant
<1> QED
  BY <1>1, ChangesTellTheDifference, PTL
===============================================================================
