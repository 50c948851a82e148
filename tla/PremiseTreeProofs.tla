-------------------------- MODULE PremiseTreeProofs -------------------------
(***************************************************************************)
(* Theorems about a premise under edits (PremiseTree,                      *)
(* AutoNormalization, ExpressionManager).                                  *)
(***************************************************************************)
EXTENDS PremiseTree, WellFoundedInduction, FiniteSetTheorems, TLAPS

(***************************************************************************)
(* Numbers and small sets.                                                 *)
(***************************************************************************)
Lower == {ss \in Nat \X Nat : ss[1] < ss[2]}

\* A nonempty set of numbers has a least one.
LEMMA LeastNumber ==
    ASSUME NEW S \in SUBSET Nat, S # {}
    PROVE  \E n \in S : \A m \in S : n <= m
<1>1. IsWellFoundedOn(Lower, Nat)
  BY NatLessThanWellFounded DEF OpToRel, Lower
<1>2. PICK x \in S : \A y \in S : ~(<<y, x>> \in Lower)
  BY <1>1, WFMin
<1>3. \A y \in S : y < x => <<y, x>> \in Lower
  BY DEF Lower
<1>4. \A y \in S : ~(y < x)
  BY <1>2, <1>3
<1> QED
  BY <1>4

LEMMA LeastUpTo ==
    ASSUME NEW N \in Nat, NEW S, S \subseteq 0..N, S # {}
    PROVE  \E n \in S : n \in 0..N /\ \A m \in S : n <= m
BY LeastNumber

\* What does not begin and does not go on never holds.
LEMMA Upward ==
    ASSUME NEW N \in Nat, NEW S, S \subseteq 0..N, 0 \notin S,
           \A n \in 1..N : n - 1 \notin S => n \notin S
    PROVE  S = {}
<1> SUFFICES ASSUME S # {} PROVE FALSE
  OBVIOUS
<1>1. PICK n \in S : n \in 0..N /\ \A k \in S : n <= k
  BY LeastUpTo
<1>2. n \in 1..N /\ n - 1 \in 0..N /\ ~(n <= n - 1)
  BY <1>1
<1> QED
  BY <1>1, <1>2

\* Min of a nonempty set of numbers is in it.
LEMMA MinIsIn ==
    ASSUME NEW S \in SUBSET Nat, S # {}
    PROVE  Min(S) \in S /\ \A m \in S : Min(S) <= m
BY LeastNumber DEF Min

LEMMA SmallNumbers ==
    /\ \A n \in Nat : ~(n <= 2) => n > 2
    /\ \A n \in Nat : \A z \in 1..n : z - 1 \in 0..n /\ z \in 0..n
OBVIOUS

AtMostOne(S) == \A x, y \in S : x = y
AtMostTwo(S) == \A x, y, z \in S : x = y \/ y = z \/ x = z

\* Counting a few ids.
LEMMA Counted ==
    ASSUME NEW S \in SUBSET Id
    PROVE  /\ IsFiniteSet(S) /\ Cardinality(S) \in Nat
           /\ Cardinality(S) = 0 <=> S = {}
           /\ Cardinality(S) = 1 <=> \E x : S = {x}
           /\ Cardinality(S) <= 1 <=> AtMostOne(S)
           /\ Cardinality(S) <= 2 <=> AtMostTwo(S)
           /\ Cardinality(S) <= MaxNodes
<1>1. IsFiniteSet(Id) /\ Cardinality(Id) = MaxNodes
  BY FS_Interval, StoreAssumption DEF Id
<1>2. IsFiniteSet(S) /\ Cardinality(S) \in Nat /\ Cardinality(S) <= MaxNodes
  BY <1>1, FS_Subset, FS_CardinalityType
<1>3. Cardinality(S) = 0 <=> S = {}
  BY <1>2, FS_EmptySet
<1>4. Cardinality(S) = 1 <=> \E x : S = {x}
  BY <1>2, FS_Singleton
<1>5. Cardinality(S) <= 1 <=> AtMostOne(S)
  BY <1>2, <1>3, <1>4 DEF AtMostOne
<1>6. ASSUME AtMostTwo(S) PROVE Cardinality(S) <= 2
  <2>1. CASE S = {}
    BY <2>1, <1>3
  <2>2. CASE S # {}
    <3>1. PICK x \in S : TRUE
      BY <2>2
    <3>2. IsFiniteSet(S \ {x}) /\ Cardinality(S \ {x}) = Cardinality(S) - 1
      BY <1>2, <3>1, FS_RemoveElement
    <3>3. S \ {x} = {} \/ \E y : S \ {x} = {y}
      BY <1>6, <3>1 DEF AtMostTwo
    <3>4. Cardinality(S \ {x}) = 0 \/ Cardinality(S \ {x}) = 1
      BY <3>2, <3>3, FS_EmptySet, FS_Singleton
    <3> QED
      BY <1>2, <3>2, <3>4
  <2> QED
    BY <2>1, <2>2
<1>7. ASSUME Cardinality(S) <= 2 PROVE AtMostTwo(S)
  <2> SUFFICES ASSUME NEW x \in S, NEW y \in S, NEW z \in S, x # y, y # z, x # z
               PROVE  FALSE
    BY DEF AtMostTwo
  <2>1. IsFiniteSet({x}) /\ Cardinality({x}) = 1
    BY FS_Singleton
  <2>a. y \notin {x} /\ z \notin {x} \cup {y}
    OBVIOUS
  <2>b. \A T, e : IsFiniteSet(T) /\ e \notin T =>
            IsFiniteSet(T \cup {e}) /\ Cardinality(T \cup {e}) = Cardinality(T) + 1
    BY FS_AddElement
  <2>2. IsFiniteSet({x} \cup {y}) /\ Cardinality({x} \cup {y}) = 2
    BY <2>1, <2>a, <2>b
  <2>3. Cardinality(({x} \cup {y}) \cup {z}) = 3
    BY <2>2, <2>a, <2>b
  <2>4. ({x} \cup {y}) \cup {z} \in SUBSET S
    OBVIOUS
  <2> QED
    BY <1>2, <1>7, <2>3, <2>4, FS_Subset
<1> QED
  BY <1>2, <1>3, <1>4, <1>5, <1>6, <1>7

(***************************************************************************)
(* Trees.                                                                  *)
(***************************************************************************)
Spot == {None} \cup Id
Founded(t) == \A S \in SUBSET DOMAIN t : S # {} => \E i \in S : t[i].parent \notin S

\* Nodes, and no cycle among them.
Forest(t) ==
    /\ DOMAIN t \subseteq Id
    /\ t \in [DOMAIN t -> [kind : Kind, parent : Spot, pos : PosMin..PosMax]]
    /\ Founded(t)

LEMMA NoneIsNoId == None \notin Id /\ MaxNodes \in Nat
BY StoreAssumption DEF None, Id

LEMMA ClimbIs ==
    ASSUME NEW t, NEW i
    PROVE  /\ climb(t, i)[0] = i
           /\ \A n \in 1..MaxNodes : climb(t, i)[n] = parentOf(t, climb(t, i)[n - 1])
<1> DEFINE Goes(n, g) == g = [k \in 0..n |-> IF k = 0 THEN i ELSE parentOf(t, g[k - 1])]
           S == {n \in 0..MaxNodes : ~ \E g : Goes(n, g)}
<1>0. MaxNodes \in Nat
  BY NoneIsNoId
<1>1. S = {}
  <2> SUFFICES ASSUME S # {} PROVE FALSE
    OBVIOUS
  <2>1. PICK n \in S : \A m \in S : n <= m
    <3> HIDE DEF Goes
    <3> QED
      BY LeastUpTo, <1>0
  <2>2. CASE n = 0
    <3>1. Goes(0, [k \in 0..0 |-> i])
      OBVIOUS
    <3> QED
      BY <2>2, <3>1
  <2>3. CASE n # 0
    <3>0. n \in Nat /\ n - 1 \in 0..MaxNodes /\ n - 1 \notin S
      <4> HIDE DEF Goes
      <4> QED
        BY <1>0, <2>1, <2>3
    <3>1. PICK g : Goes(n - 1, g)
      BY <3>0
    <3> DEFINE h == [k \in 0..n |-> IF k < n THEN g[k] ELSE parentOf(t, g[n - 1])]
    <3>2. Goes(n, h)
      <4>1. \A k \in 0..(n - 1) : g[k] = IF k = 0 THEN i ELSE parentOf(t, g[k - 1])
        BY <3>1
      <4>2. \A k \in 0..n : h[k] = IF k = 0 THEN i ELSE parentOf(t, h[k - 1])
        <5> TAKE k \in 0..n
        <5>1. CASE k = 0
          BY <3>0, <4>1, <5>1
        <5>2. CASE k # 0 /\ k < n
          BY <3>0, <4>1, <5>2
        <5>3. CASE k = n
          BY <2>3, <3>0, <5>3
        <5> QED
          BY <3>0, <5>1, <5>2, <5>3
      <4> QED
        BY <4>2
    <3> QED
      BY <3>2
  <2> QED
    BY <2>2, <2>3
<1>2. \E g : Goes(MaxNodes, g)
  <2> HIDE DEF Goes
  <2> QED
    BY <1>0, <1>1
<1>3. Goes(MaxNodes, climb(t, i))
  BY <1>2 DEF climb
<1> QED
  BY <1>0, <1>3

\* Whatever is said of the ids above i holds of all of them when it holds of i
\* and goes up.
LEMMA ClimbStaysIn ==
    ASSUME NEW t, NEW i, NEW P, i \in P,
           \A x \in P : parentOf(t, x) \in P
    PROVE  \A n \in 0..MaxNodes : climb(t, i)[n] \in P
<1> DEFINE up == climb(t, i)
           S == {n \in 0..MaxNodes : up[n] \notin P}
<1>0. MaxNodes \in Nat /\ up[0] = i /\ \A n \in 1..MaxNodes : up[n] = parentOf(t, up[n - 1])
  BY NoneIsNoId, ClimbIs
<1> SUFFICES ASSUME S # {} PROVE FALSE
  BY <1>0
<1> HIDE DEF up
<1>1. PICK n \in S : \A m \in S : n <= m
  BY LeastUpTo, <1>0
<1>2. n # 0
  BY <1>0, <1>1
<1>3. n - 1 \in 0..MaxNodes /\ up[n - 1] \in P
  BY <1>0, <1>1, <1>2
<1> QED
  BY <1>0, <1>1, <1>2, <1>3

LEMMA AboveIs ==
    ASSUME NEW t, NEW i
    PROVE  selfAndAbove(t, i) = {climb(t, i)[k] : k \in 0..MaxNodes} \ {None}
<1> DEFINE up == climb(t, i)
           upTo(n) == {up[k] : k \in 0..n}
           F == [n \in 0..MaxNodes |-> upTo(n)]
           Above(f) == f = [n \in 0..MaxNodes |->
                               IF n = 0 THEN {i} ELSE {i} \cup {parentOf(t, j) : j \in f[n - 1]}]
<1>0. MaxNodes \in Nat /\ up[0] = i /\ \A n \in 1..MaxNodes : up[n] = parentOf(t, up[n - 1])
  BY NoneIsNoId, ClimbIs
<1> HIDE DEF up
<1>1. \A n \in 0..MaxNodes : upTo(n) = IF n = 0 THEN {i}
                                       ELSE {i} \cup {parentOf(t, j) : j \in upTo(n - 1)}
  <2> TAKE n \in 0..MaxNodes
  <2>1. CASE n = 0
    BY <1>0, <2>1
  <2>2. CASE n # 0
    <3>1. n - 1 \in 0..MaxNodes /\ \A k \in 1..n : up[k] = parentOf(t, up[k - 1])
      BY <1>0, <2>2
    <3>2. ASSUME NEW x \in upTo(n) PROVE x \in {i} \cup {parentOf(t, j) : j \in upTo(n - 1)}
      <4>1. PICK k \in 0..n : x = up[k]
        OBVIOUS
      <4>2. CASE k = 0
        BY <1>0, <4>1, <4>2
      <4>3. CASE k # 0
        <5>1. x = parentOf(t, up[k - 1]) /\ k - 1 \in 0..(n - 1)
          BY <1>0, <3>1, <4>1, <4>3
        <5> QED
          BY <5>1
      <4> QED
        BY <4>2, <4>3
    <3>3. ASSUME NEW x \in {i} \cup {parentOf(t, j) : j \in upTo(n - 1)} PROVE x \in upTo(n)
      <4>1. CASE x = i
        BY <1>0, <4>1
      <4>2. CASE x # i
        <5>1. PICK k \in 0..(n - 1) : x = parentOf(t, up[k])
          BY <4>2
        <5>2. k + 1 \in 0..n /\ x = up[k + 1]
          <6>1. k + 1 \in 1..n /\ (k + 1) - 1 = k
            BY <1>0, <5>1
          <6> QED
            BY <3>1, <5>1, <6>1
        <5> QED
          BY <5>2
      <4> QED
        BY <4>1, <4>2
    <3> HIDE DEF upTo
    <3> QED
      BY <2>2, <3>2, <3>3
  <2> QED
    BY <2>1, <2>2
<1>2. Above(F)
  <2>1. \A n \in 0..MaxNodes : F[n] = IF n = 0 THEN {i}
                                      ELSE {i} \cup {parentOf(t, j) : j \in F[n - 1]}
    <3> HIDE DEF upTo
    <3> TAKE n \in 0..MaxNodes
    <3>1. n # 0 => n - 1 \in 0..MaxNodes
      BY <1>0
    <3> QED
      BY <1>1, <3>1
  <2> HIDE DEF upTo
  <2> QED
    BY <2>1
<1>3. ASSUME NEW f, Above(f) PROVE f[MaxNodes] = upTo(MaxNodes)
  <2> DEFINE S == {n \in 0..MaxNodes : f[n] # upTo(n)}
  <2> SUFFICES ASSUME S # {} PROVE FALSE
    BY <1>0
  <2> HIDE DEF upTo
  <2>0. \A n \in 0..MaxNodes : f[n] = IF n = 0 THEN {i}
                                      ELSE {i} \cup {parentOf(t, j) : j \in f[n - 1]}
    BY <1>3
  <2> HIDE DEF Above
  <2>1. PICK n \in S : \A m \in S : n <= m
    BY LeastUpTo, <1>0
  <2>2. n # 0 => n - 1 \in 0..MaxNodes /\ f[n - 1] = upTo(n - 1)
    BY <1>0, <2>1
  <2> QED
    BY <1>1, <2>0, <2>1, <2>2
<1> DEFINE above == CHOOSE f : Above(f)
<1>4. Above(above)
  <2> HIDE DEF Above, F
  <2> QED
    BY <1>2
<1>5. above[MaxNodes] = upTo(MaxNodes)
  <2> HIDE DEF above, Above, upTo
  <2> QED
    BY <1>3, <1>4
<1>6. selfAndAbove(t, i) = above[MaxNodes] \ {None}
  BY DEF selfAndAbove
<1> QED
  BY <1>5, <1>6 DEF up

LEMMA ParentIn ==
    ASSUME NEW t, Forest(t), NEW x
    PROVE  /\ parentOf(t, x) \in Spot
           /\ parentOf(t, None) = None
           /\ parentOf(t, x) # None => x \in DOMAIN t /\ x \in Id /\ parentOf(t, x) = t[x].parent
BY NoneIsNoId DEF Forest, parentOf, Spot

\* Without cycles MaxNodes steps up end above the root.
LEMMA ClimbEnds ==
    ASSUME NEW t, Forest(t), NEW i \in Spot
    PROVE  /\ climb(t, i)[MaxNodes] = None
           /\ \A n \in 0..MaxNodes : climb(t, i)[n] \in Spot
<1> DEFINE up == climb(t, i)
<1>0. MaxNodes \in Nat /\ up[0] = i /\ \A n \in 1..MaxNodes : up[n] = parentOf(t, up[n - 1])
  BY NoneIsNoId, ClimbIs
<1>1. \A n \in 0..MaxNodes : up[n] \in Spot
  BY ClimbStaysIn, ParentIn
<1> HIDE DEF up
<1> SUFFICES ASSUME up[MaxNodes] # None PROVE FALSE
  BY <1>1 DEF up
<1>2. \A n \in 0..MaxNodes : up[n] # None
  <2> DEFINE S == {n \in 0..MaxNodes : up[MaxNodes - n] = None}
  <2> SUFFICES ASSUME S # {} PROVE FALSE
    <3> SUFFICES ASSUME NEW n \in 0..MaxNodes, up[n] = None PROVE FALSE
      OBVIOUS
    <3>1. MaxNodes - n \in 0..MaxNodes /\ MaxNodes - (MaxNodes - n) = n
      BY <1>0
    <3>2. MaxNodes - n \in S
      BY <3>1
    <3> QED
      BY <3>2
  <2>1. PICK n \in S : n \in 0..MaxNodes /\ \A m \in S : n <= m
    BY LeastUpTo, <1>0
  <2>2. n # 0
    BY <1>0, <2>1
  <2>3. /\ MaxNodes - n + 1 \in 1..MaxNodes
        /\ (MaxNodes - n + 1) - 1 = MaxNodes - n
        /\ MaxNodes - (n - 1) = MaxNodes - n + 1
        /\ n - 1 \in 0..MaxNodes
        /\ ~(n <= n - 1)
    BY <1>0, <2>1, <2>2
  <2>4. up[MaxNodes - n + 1] = parentOf(t, up[MaxNodes - n])
    BY <1>0, <2>3
  <2>5. up[MaxNodes - n + 1] = None
    BY <2>1, <2>4, ParentIn
  <2>6. n - 1 \in S
    BY <2>3, <2>5
  <2> QED
    BY <2>1, <2>3, <2>6
<1>3. \A n \in 0..(MaxNodes - 1) : up[n] \in DOMAIN t /\ t[up[n]].parent = up[n + 1]
  <2> TAKE n \in 0..(MaxNodes - 1)
  <2>1. n + 1 \in 1..MaxNodes /\ n + 1 \in 0..MaxNodes /\ (n + 1) - 1 = n
    BY <1>0
  <2>2. up[n + 1] = parentOf(t, up[n]) /\ up[n + 1] # None
    BY <1>0, <1>2, <2>1
  <2> QED
    BY <2>2, ParentIn
<1>4. \A a, b \in 0..MaxNodes : a < b => up[a] # up[b]
  <2> SUFFICES ASSUME NEW a \in 0..MaxNodes, NEW b \in 0..MaxNodes, a < b, up[a] = up[b]
               PROVE  FALSE
    OBVIOUS
  <2> DEFINE S == {up[n] : n \in a..(b - 1)}
  <2>1. S \subseteq DOMAIN t
    BY <1>0, <1>3
  <2>2. up[a] \in S
    BY <1>0
  <2>3. ASSUME NEW x \in S PROVE t[x].parent \in S
    <3>1. PICK n \in a..(b - 1) : x = up[n]
      OBVIOUS
    <3>2. t[x].parent = up[n + 1]
      BY <1>0, <1>3, <3>1
    <3>3. CASE n = b - 1
      <4>1. n + 1 = b
        BY <1>0, <3>3
      <4> QED
        BY <2>2, <3>2, <4>1
    <3>4. CASE n # b - 1
      <4>1. n + 1 \in a..(b - 1)
        BY <1>0, <3>1, <3>4
      <4> QED
        BY <3>2, <4>1
    <3> QED
      BY <3>3, <3>4
  <2> HIDE DEF S
  <2> QED
    BY <2>1, <2>2, <2>3 DEF Forest, Founded
<1>5. IsFiniteSet(Id) /\ Cardinality(Id) = MaxNodes
  BY FS_Interval, <1>0 DEF Id
<1>6. IsFiniteSet(0..MaxNodes) /\ Cardinality(0..MaxNodes) = MaxNodes + 1
  BY FS_Interval, <1>0
<1> DEFINE f == [n \in 0..MaxNodes |-> up[n]]
<1>7. f \in [0..MaxNodes -> Id]
  BY <1>1, <1>2 DEF Spot
<1>8. \E x, y \in 0..MaxNodes : x # y /\ f[x] = f[y]
  <2> HIDE DEF f
  <2>1. MaxNodes < MaxNodes + 1
    BY <1>0
  <2> DEFINE D == 0..MaxNodes
  <2>2. IsFiniteSet(D) /\ Cardinality(Id) < Cardinality(D) /\ f \in [D -> Id]
    BY <1>5, <1>6, <1>7, <2>1
  <2> HIDE DEF D
  <2>3. \E x, y \in D : x # y /\ f[x] = f[y]
    BY <1>5, <2>2, FS_PigeonHole
  <2> QED
    BY <2>3 DEF D
<1>9. PICK x \in 0..MaxNodes, y \in 0..MaxNodes : x # y /\ up[x] = up[y]
  BY <1>8
<1> QED
  BY <1>0, <1>4, <1>9

\* What lies above an expression: itself, and with each its parent, and no more.
LEMMA AboveFacts ==
    ASSUME NEW t, Forest(t), NEW i \in Id
    PROVE  /\ i \in selfAndAbove(t, i)
           /\ selfAndAbove(t, i) \subseteq Id
           /\ \A x \in selfAndAbove(t, i) :
                 parentOf(t, x) # None => parentOf(t, x) \in selfAndAbove(t, i)
           /\ \A P : (i \in P /\ \A x \in P : parentOf(t, x) \in P \cup {None})
                        => selfAndAbove(t, i) \subseteq P
<1> DEFINE up == climb(t, i)
<1>0. MaxNodes \in Nat /\ up[0] = i /\ \A n \in 1..MaxNodes : up[n] = parentOf(t, up[n - 1])
  BY NoneIsNoId, ClimbIs
<1>1. selfAndAbove(t, i) = {up[k] : k \in 0..MaxNodes} \ {None}
  BY AboveIs
<1>2. up[MaxNodes] = None /\ \A n \in 0..MaxNodes : up[n] \in Spot
  BY ClimbEnds DEF Spot
<1>3. ASSUME NEW P, i \in P, \A x \in P : parentOf(t, x) \in P \cup {None}
      PROVE  \A n \in 0..MaxNodes : up[n] \in P \cup {None}
  <2>1. \A x \in P \cup {None} : parentOf(t, x) \in P \cup {None}
    BY <1>3, ParentIn
  <2> HIDE DEF up
  <2> QED
    BY <1>3, <2>1, ClimbStaysIn DEF up
<1> HIDE DEF up
<1>4. i \in selfAndAbove(t, i)
  BY <1>0, <1>1, NoneIsNoId
<1>5. ASSUME NEW x \in selfAndAbove(t, i), parentOf(t, x) # None
      PROVE  parentOf(t, x) \in selfAndAbove(t, i)
  <2>1. PICK k \in 0..MaxNodes : x = up[k] /\ x # None
    BY <1>1
  <2>2. k # MaxNodes
    BY <1>2, <2>1
  <2>3. k + 1 \in 1..MaxNodes /\ k + 1 \in 0..MaxNodes /\ (k + 1) - 1 = k
    BY <1>0, <2>2
  <2>4. up[k + 1] = parentOf(t, x)
    BY <1>0, <2>1, <2>3
  <2> QED
    BY <1>1, <1>5, <2>3, <2>4
<1>6. selfAndAbove(t, i) \subseteq Id
  BY <1>1, <1>2 DEF Spot
<1>7. ASSUME NEW P, i \in P, \A x \in P : parentOf(t, x) \in P \cup {None}
      PROVE  selfAndAbove(t, i) \subseteq P
  BY <1>1, <1>3, <1>7
<1> QED
  BY <1>4, <1>5, <1>6, <1>7

(***************************************************************************)
(* Stores, and their checksums.                                            *)
(***************************************************************************)
IsStore(m) == DOMAIN m = {"tree", "slots", "dirty", "stale"}

\* With an expression everything above it is dirty.
Closed(t, D) == \A x \in D : parentOf(t, x) \in D \cup {None}

LEMMA MarkKeeps ==
    ASSUME NEW m, IsStore(m), NEW i
    PROVE  LET x == markExpressionDirty(m, i)
           IN  IsStore(x) /\ x.tree = m.tree /\ x.slots = m.slots /\ x.stale = m.stale
BY DEF IsStore, markExpressionDirty

\* Marking stops early and still marks all there is above.
LEMMA MarkMarks ==
    ASSUME NEW m, IsStore(m), Forest(m.tree), NEW i \in Id
    PROVE  LET x == markExpressionDirty(m, i)
           IN  /\ i \in x.dirty /\ m.dirty \subseteq x.dirty
               /\ x.dirty \subseteq m.dirty \cup Id
               /\ Closed(m.tree, m.dirty) => Closed(m.tree, x.dirty)
<1> DEFINE t == m.tree
           up == climb(t, i)
           new == {up[n] : n \in {k \in 0..MaxNodes :
                                    up[k] # None /\ \A j \in 0..k : up[j] \notin m.dirty}}
           x == markExpressionDirty(m, i)
<1>0. MaxNodes \in Nat /\ up[0] = i /\ \A n \in 1..MaxNodes : up[n] = parentOf(t, up[n - 1])
  BY NoneIsNoId, ClimbIs
<1>1. up[MaxNodes] = None /\ \A n \in 0..MaxNodes : up[n] \in Spot
  BY ClimbEnds DEF Spot
<1>2. x.dirty = m.dirty \cup new
  BY DEF IsStore, markExpressionDirty
<1> HIDE DEF up, x
<1>3. i \in x.dirty
  <2>1. CASE i \in m.dirty
    BY <1>2, <2>1
  <2>2. CASE i \notin m.dirty
    <3>1. 0 \in 0..MaxNodes /\ up[0] # None /\ \A j \in 0..0 : up[j] \notin m.dirty
      BY <1>0, <2>2, NoneIsNoId
    <3> QED
      BY <1>0, <1>2, <3>1
  <2> QED
    BY <2>1, <2>2
<1>4. new \subseteq Id
  BY <1>1 DEF Spot
<1>5. ASSUME Closed(t, m.dirty), NEW y \in x.dirty PROVE parentOf(t, y) \in x.dirty \cup {None}
  <2>1. CASE y \in m.dirty
    BY <1>2, <1>5, <2>1 DEF Closed
  <2>2. CASE y \notin m.dirty
    <3>1. PICK k \in 0..MaxNodes : /\ y = up[k] /\ y # None
                                   /\ \A j \in 0..k : up[j] \notin m.dirty
      BY <1>2, <2>2
    <3>2. k # MaxNodes
      BY <1>1, <3>1
    <3>3. /\ k + 1 \in 1..MaxNodes /\ k + 1 \in 0..MaxNodes /\ (k + 1) - 1 = k
          /\ \A j \in 0..(k + 1) : j \in 0..k \/ j = k + 1
      BY <1>0, <3>2
    <3>4. up[k + 1] = parentOf(t, y)
      BY <1>0, <3>1, <3>3
    <3>5. CASE up[k + 1] = None \/ up[k + 1] \in m.dirty
      BY <1>2, <3>4, <3>5
    <3>6. CASE up[k + 1] # None /\ up[k + 1] \notin m.dirty
      <4>1. \A j \in 0..(k + 1) : up[j] \notin m.dirty
        BY <3>1, <3>3, <3>6
      <4> QED
        BY <1>2, <3>3, <3>4, <3>6, <4>1
    <3> QED
      BY <3>5, <3>6
  <2> QED
    BY <2>1, <2>2
<1> QED
  BY <1>2, <1>3, <1>4, <1>5 DEF Closed, x

\* What an operation made different: kinds, parents, positions, children.
Changed(t, u) ==
    {i \in DOMAIN u : \/ kindOf(t, i) # u[i].kind
                      \/ u[i] # t[i]
                      \/ Children(u, i) # Children(t, i)}

LEMMA FlushSettles ==
    ASSUME NEW m, m.stale = {}, NEW x, IsStore(x), Forest(x.tree),
           Closed(x.tree, x.dirty), Changed(m.tree, x.tree) \subseteq x.dirty
    PROVE  LET y == flushExpressionChecksums(m, x)
           IN  /\ IsStore(y) /\ y.tree = x.tree /\ y.slots = x.slots
               /\ y.dirty = {} /\ y.stale = {}
<1> DEFINE u == x.tree
           outdated == UNION {selfAndAbove(u, i) : i \in Changed(m.tree, u)}
<1>1. outdated \subseteq x.dirty
  <2> SUFFICES ASSUME NEW i \in Changed(m.tree, u) PROVE selfAndAbove(u, i) \subseteq x.dirty
    OBVIOUS
  <2>1. i \in x.dirty /\ i \in Id
    BY DEF Changed, Forest
  <2> QED
    BY <2>1, AboveFacts DEF Closed
<1>2. flushExpressionChecksums(m, x) =
        [x EXCEPT !.stale = ((m.stale \cup outdated) \ x.dirty) \cap DOMAIN x.tree,
                  !.dirty = {}]
  BY DEF flushExpressionChecksums, Changed
<1>3. ((m.stale \cup outdated) \ x.dirty) \cap DOMAIN x.tree = {}
  BY <1>1
<1> HIDE DEF outdated
<1> QED
  BY <1>2, <1>3 DEF IsStore

(***************************************************************************)
(* One node put somewhere, or taken away.                                  *)
(***************************************************************************)
put(t, i, k, p, pos) ==
    [j \in DOMAIN t \cup {i} |-> IF j = i THEN [kind |-> k, parent |-> p, pos |-> pos] ELSE t[j]]

LEMMA AboveOfAbove ==
    ASSUME NEW t, Forest(t), NEW i \in Id, NEW y \in selfAndAbove(t, i)
    PROVE  selfAndAbove(t, y) \subseteq selfAndAbove(t, i)
<1>1. y \in Id
  BY AboveFacts
<1>2. \A x \in selfAndAbove(t, i) : parentOf(t, x) \in selfAndAbove(t, i) \cup {None}
  BY AboveFacts
<1> QED
  BY <1>1, <1>2, AboveFacts

LEMMA AboveByStep ==
    ASSUME NEW t, Forest(t), NEW i \in Id, parentOf(t, i) # None
    PROVE  /\ parentOf(t, i) \in Id
           /\ selfAndAbove(t, i) = {i} \cup selfAndAbove(t, parentOf(t, i))
<1>1. parentOf(t, i) \in Id
  BY ParentIn DEF Spot
<1>2. i \in selfAndAbove(t, i) /\ parentOf(t, i) \in selfAndAbove(t, i)
  BY AboveFacts
<1>3. selfAndAbove(t, parentOf(t, i)) \subseteq selfAndAbove(t, i)
  BY <1>2, AboveOfAbove
<1>4. \A x \in selfAndAbove(t, parentOf(t, i)) :
          parentOf(t, x) \in selfAndAbove(t, parentOf(t, i)) \cup {None}
  BY <1>1, AboveFacts
<1> DEFINE P == {i} \cup selfAndAbove(t, parentOf(t, i))
<1>5. i \in P /\ \A x \in P : parentOf(t, x) \in P \cup {None}
  BY <1>1, <1>4, AboveFacts
<1>6. selfAndAbove(t, i) \subseteq P
  <2> HIDE DEF P
  <2> QED
    BY <1>5, AboveFacts
<1> QED
  BY <1>1, <1>2, <1>3, <1>6

\* Nothing lies above its own parent.
LEMMA NotAboveParent ==
    ASSUME NEW t, Forest(t), NEW i \in DOMAIN t, t[i].parent # None
    PROVE  t[i].parent \in Id /\ i \notin selfAndAbove(t, t[i].parent)
<1> DEFINE p == t[i].parent
           C == {y \in selfAndAbove(t, p) : i \in selfAndAbove(t, y)}
<1>0. i \in Id /\ parentOf(t, i) = p /\ p \in Id
  BY DEF parentOf, Forest, Spot
<1> SUFFICES ASSUME i \in selfAndAbove(t, p) PROVE FALSE
  BY <1>0
<1>1. p \in C
  BY <1>0, AboveFacts
<1>2. ASSUME NEW y \in C PROVE y \in DOMAIN t /\ t[y].parent \in C
  <2>0. y \in Id /\ y \in selfAndAbove(t, p) /\ i \in selfAndAbove(t, y)
    BY <1>0, AboveFacts
  <2>1. CASE y = i
    BY <1>0, <1>1, <2>1
  <2>2. CASE y # i
    <3>1. parentOf(t, y) # None
      <4> SUFFICES ASSUME parentOf(t, y) = None PROVE FALSE
        OBVIOUS
      <4>1. y \in {y} /\ \A x \in {y} : parentOf(t, x) \in {y} \cup {None}
        OBVIOUS
      <4>2. selfAndAbove(t, y) \subseteq {y}
        BY <2>0, <4>1, AboveFacts
      <4> QED
        BY <2>0, <2>2, <4>2
    <3>2. i \in selfAndAbove(t, parentOf(t, y))
      BY <2>0, <2>2, <3>1, AboveByStep
    <3>3. parentOf(t, y) \in selfAndAbove(t, p)
      BY <1>0, <2>0, <3>1, AboveFacts
    <3> QED
      BY <3>1, <3>2, <3>3, ParentIn
  <2> QED
    BY <2>1, <2>2
<1>3. C \subseteq DOMAIN t /\ C # {} /\ \A y \in C : t[y].parent \in C
  BY <1>1, <1>2
<1> HIDE DEF C
<1> QED
  BY <1>3 DEF Forest, Founded

\* A node put under what does not lie below it closes no cycle.
LEMMA PutForest ==
    ASSUME NEW t, Forest(t), NEW i \in Id, NEW k \in Kind, NEW p \in Spot,
           NEW pos \in PosMin..PosMax, p = None \/ i \notin selfAndAbove(t, p)
    PROVE  Forest(put(t, i, k, p, pos))
<1> DEFINE u == put(t, i, k, p, pos)
<1>1. /\ DOMAIN u = DOMAIN t \cup {i}
      /\ u[i] = [kind |-> k, parent |-> p, pos |-> pos]
      /\ \A j \in DOMAIN t \ {i} : u[j] = t[j]
  BY DEF put
<1>2. u \in [DOMAIN u -> [kind : Kind, parent : Spot, pos : PosMin..PosMax]]
  BY DEF put, Forest
<1>3. DOMAIN u \subseteq Id
  BY <1>1 DEF Forest
<1> HIDE DEF u
<1>4. ASSUME NEW S \in SUBSET DOMAIN u, S # {}, \A j \in S : u[j].parent \in S
      PROVE  FALSE
  <2>1. CASE i \notin S
    <3>1. S \in SUBSET DOMAIN t /\ \A j \in S : t[j].parent \in S
      BY <1>1, <1>4, <2>1
    <3> QED
      BY <1>4, <3>1 DEF Forest, Founded
  <2>2. CASE i \in S
    <3>1. p \in S /\ p \in Id /\ p # None
      <4>1. p \in S
        BY <1>1, <1>4, <2>2
      <4> QED
        BY <1>3, <4>1, NoneIsNoId
    <3> DEFINE T == S \cap selfAndAbove(t, p)
    <3>2. p \in T
      BY <3>1, AboveFacts
    <3>3. i \notin T
      BY <3>1
    <3>4. ASSUME NEW x \in T PROVE x \in DOMAIN t /\ t[x].parent \in T
      <4>1. x \in DOMAIN t /\ u[x] = t[x]
        BY <1>1, <3>3, <3>4
      <4>2. t[x].parent \in S
        BY <1>4, <4>1
      <4>3. t[x].parent # None /\ parentOf(t, x) = t[x].parent
        BY <1>3, <4>1, <4>2, NoneIsNoId DEF parentOf
      <4>4. parentOf(t, x) \in selfAndAbove(t, p)
        BY <3>1, <4>3, AboveFacts
      <4> QED
        BY <4>1, <4>2, <4>3, <4>4
    <3>5. T \in SUBSET DOMAIN t /\ T # {} /\ \A x \in T : t[x].parent \in T
      BY <3>2, <3>4
    <3> HIDE DEF T
    <3> QED
      BY <3>5 DEF Forest, Founded
  <2> QED
    BY <2>1, <2>2
<1>5. Founded(u)
  BY <1>4 DEF Founded
<1> QED
  BY <1>2, <1>3, <1>5 DEF Forest, u

\* Neither does a new kind or position, nor taking nodes away.
LEMMA SameParentsForest ==
    ASSUME NEW t, Forest(t), NEW u, DOMAIN u \subseteq DOMAIN t,
           u \in [DOMAIN u -> [kind : Kind, parent : Spot, pos : PosMin..PosMax]],
           \A j \in DOMAIN u : u[j].parent = t[j].parent
    PROVE  Forest(u)
BY DEF Forest, Founded

(***************************************************************************)
(* A call under way: nodes may be missing their place, dirty ones are      *)
(* marked up to the root.                                                  *)
(***************************************************************************)
Mid(m) == IsStore(m) /\ Forest(m.tree) /\ m.dirty \subseteq Id /\ Closed(m.tree, m.dirty)

LEMMA MarkStep ==
    ASSUME NEW m, Mid(m), NEW i \in Id
    PROVE  LET x == markExpressionDirty(m, i)
           IN  Mid(x) /\ x.tree = m.tree /\ i \in x.dirty /\ m.dirty \subseteq x.dirty
BY MarkKeeps, MarkMarks DEF Mid

LEMMA StoreStep ==
    ASSUME NEW m, Mid(m), NEW i \in Id, NEW k \in Kind, NEW p \in Spot, NEW pos \in PosMin..PosMax,
           p = None \/ i \notin selfAndAbove(m.tree, p),
           i \notin m.dirty \/ p \in m.dirty \cup {None}
    PROVE  LET x == storeExpression(m, i, k, p, pos)
           IN  Mid(x) /\ x.tree = put(m.tree, i, k, p, pos) /\ x.dirty = m.dirty
<1> DEFINE x == storeExpression(m, i, k, p, pos)
<1>1. IsStore(x) /\ x.tree = put(m.tree, i, k, p, pos) /\ x.dirty = m.dirty
  BY DEF Mid, IsStore, storeExpression, put
<1>2. Forest(put(m.tree, i, k, p, pos))
  BY PutForest DEF Mid
<1>3. Closed(put(m.tree, i, k, p, pos), m.dirty)
  BY DEF Mid, Closed, put, parentOf
<1> HIDE DEF x
<1> QED
  BY <1>1, <1>2, <1>3 DEF Mid, x

LEMMA ReparentStep ==
    ASSUME NEW m, Mid(m), NEW i \in DOMAIN m.tree, NEW p \in Spot, NEW pos \in PosMin..PosMax,
           p = None \/ i \notin selfAndAbove(m.tree, p),
           i \notin m.dirty \/ p \in m.dirty \cup {None}
    PROVE  LET x == reparent(m, i, p, pos)
           IN  /\ Mid(x) /\ x.tree = put(m.tree, i, m.tree[i].kind, p, pos)
               /\ m.dirty \subseteq x.dirty
               /\ i \in x.dirty /\ p \in x.dirty \cup {None}
               /\ m.tree[i].parent \in x.dirty \cup {None}
<1> DEFINE old == m.tree[i]
           u == put(m.tree, i, old.kind, p, pos)
           moved == [m EXCEPT !.tree[i].parent = p, !.tree[i].pos = pos,
                              !.slots[old.parent] = @ \ {old.pos},
                              !.slots[p] = @ \cup {pos}]
           once == markExpressionDirty(moved, i)
           x == reparent(m, i, p, pos)
<1>0. old \in [kind : Kind, parent : Spot, pos : PosMin..PosMax] /\ i \in Id
  BY DEF Mid, Forest
<1>1. IsStore(moved) /\ moved.dirty = m.dirty
  BY DEF Mid, IsStore
<1>2. moved.tree = u
  <2>1. moved.tree = [m.tree EXCEPT ![i].parent = p, ![i].pos = pos]
    BY DEF Mid, IsStore
  <2>2. [m.tree EXCEPT ![i].parent = p, ![i].pos = pos] = u
    BY <1>0 DEF Mid, Forest, put
  <2> QED
    BY <2>1, <2>2
<1>3. Forest(u)
  BY <1>0, PutForest DEF Mid
<1>4. Closed(u, m.dirty)
  BY DEF Mid, Closed, put, parentOf
<1>5. Mid(moved)
  BY <1>1, <1>2, <1>3, <1>4 DEF Mid
<1>6. Mid(once) /\ once.tree = u /\ i \in once.dirty /\ m.dirty \subseteq once.dirty
  <2> HIDE DEF moved, u
  <2> QED
    BY <1>0, <1>1, <1>2, <1>5, MarkStep
<1>7. x = IF old.parent \in {None, p} THEN once ELSE markExpressionDirty(once, old.parent)
  BY DEF reparent
<1>p. parentOf(u, i) = p
  BY DEF put, parentOf
<1> HIDE DEF once, moved, x, u
<1>8. CASE old.parent \in {None, p}
  BY <1>6, <1>7, <1>8, <1>p DEF Mid, Closed, u, x
<1>9. CASE old.parent \notin {None, p}
  <2>1. old.parent \in Id
    BY <1>0, <1>9 DEF Spot
  <2>2. Mid(x) /\ x.tree = u /\ old.parent \in x.dirty /\ once.dirty \subseteq x.dirty
    BY <1>6, <1>7, <1>9, <2>1, MarkStep
  <2> QED
    BY <1>6, <1>p, <2>2 DEF Mid, Closed, u, x
<1> QED
  BY <1>8, <1>9

\* A leaf goes.
LEMMA DetachStep ==
    ASSUME NEW m, Mid(m), NEW i \in DOMAIN m.tree, Children(m.tree, i) = {}
    PROVE  LET x == detachExpression(m, i)
           IN  Mid(x) /\ x.tree = [j \in DOMAIN m.tree \ {i} |-> m.tree[j]] /\ x.dirty = m.dirty \ {i}
<1> DEFINE x == detachExpression(m, i)
           u == [j \in DOMAIN m.tree \ {i} |-> m.tree[j]]
<1>1. IsStore(x) /\ x.tree = u /\ x.dirty = m.dirty \ {i}
  BY DEF Mid, IsStore, detachExpression
<1>2. Forest(u)
  <2>1. u \in [DOMAIN u -> [kind : Kind, parent : Spot, pos : PosMin..PosMax]]
    BY DEF Mid, Forest
  <2> QED
    BY <2>1, SameParentsForest DEF Mid
<1>3. Closed(u, m.dirty \ {i})
  BY DEF Mid, Closed, parentOf, Children
<1> HIDE DEF x, u
<1> QED
  BY <1>1, <1>2, <1>3 DEF Mid, x, u

LEMMA DeleteStep ==
    ASSUME NEW m, Mid(m), NEW i \in DOMAIN m.tree, Children(m.tree, i) = {}
    PROVE  LET x == deleteExpression(m, i)
           IN  /\ Mid(x) /\ x.tree = [j \in DOMAIN m.tree \ {i} |-> m.tree[j]]
               /\ m.dirty \ {i} \subseteq x.dirty
               /\ m.tree[i].parent \in x.dirty \cup {None}
<1> DEFINE y == detachExpression(m, i)
<1>1. Mid(y) /\ y.tree = [j \in DOMAIN m.tree \ {i} |-> m.tree[j]] /\ y.dirty = m.dirty \ {i}
  BY DetachStep
<1>2. m.tree[i].parent \in Spot
  BY DEF Mid, Forest
<1> HIDE DEF y
<1> QED
  BY <1>1, <1>2, MarkStep DEF deleteExpression, markParent, y, Spot

(***************************************************************************)
(* Between calls.                                                          *)
(***************************************************************************)
\* Kinds that stay at the root, and kinds that take one child, once the calls L
\* that break more have been made.
Rooted(L) == IF "second root" \in L THEN {} ELSE RootOnly
Single(L) == IF "two under not" \in L THEN {"formula"} ELSE {"not", "formula"}

Sound(L, t) ==
    /\ Forest(t)
    /\ \A i \in DOMAIN t : t[i].parent # None =>
            t[i].parent \in DOMAIN t /\ t[t[i].parent].kind \in Container
    /\ \A i \in DOMAIN t : t[i].kind \in Rooted(L) => t[i].parent = None
    /\ \A i \in DOMAIN t : t[i].kind \in Single(L) => AtMostOne(Children(t, i))
    /\ \A i \in DOMAIN t : t[i].kind \in RootOnly => AtMostTwo(Children(t, i))
    /\ "second root" \in L \/ AtMostOne(Children(t, None))

LEMMA RestrictedKinds ==
    ASSUME NEW L
    PROVE  /\ Rooted(L) \subseteq RootOnly /\ "formula" \in Single(L)
           /\ Single(L) \subseteq {"not", "formula"}
           /\ "not" \in Single(L) \/ "two under not" \in L
           /\ Rooted(L) = RootOnly \/ (Rooted(L) = {} /\ "second root" \in L)
BY DEF Rooted, Single

\* What a call needs to have been counted as such a call.
rootAllowed(L, t, p) == p = None => Children(t, None) = {} \/ "second root" \in L
splitAllowed(L, k, a, b) == k = "not" /\ a # b => "two under not" \in L

Good(L, m) == IsStore(m) /\ Sound(L, m.tree) /\ m.dirty = {} /\ m.stale = {}

\* What an operation may hand to the flush.
Ready(L, m, x) == Mid(x) /\ Sound(L, x.tree) /\ Changed(m.tree, x.tree) \subseteq x.dirty

LEMMA FinalizedGood ==
    ASSUME NEW L, NEW m, Good(L, m), NEW results, \A x \in results : Ready(L, m, x)
    PROVE  \A y \in finalized(m, results) : Good(L, y)
BY FlushSettles DEF finalized, Good, Ready, Mid

LEMMA GoodIsMid ==
    ASSUME NEW L, NEW m, Good(L, m)
    PROVE  Mid(m)
BY DEF Good, Mid, Sound, Closed

LEMMA ChildrenAreIds ==
    ASSUME NEW t, Forest(t), NEW p
    PROVE  Children(t, p) \in SUBSET Id
BY DEF Forest, Children

\* In a sound tree everything above a node is a node.
LEMMA AboveAreNodes ==
    ASSUME NEW L, NEW t, Sound(L, t), NEW i \in DOMAIN t
    PROVE  selfAndAbove(t, i) \subseteq DOMAIN t
<1>1. i \in Id /\ \A x \in DOMAIN t : parentOf(t, x) \in DOMAIN t \cup {None}
  BY DEF Sound, Forest, parentOf
<1> QED
  BY <1>1, AboveFacts DEF Sound

(***************************************************************************)
(* Positions.                                                              *)
(***************************************************************************)
Range0 == PosMin..PosMax

LEMMA Cancel ==
    ASSUME NEW a \in Int, NEW b \in Int, NEW d \in Int, d > 0, a * d < b * d
    PROVE  a < b
<1> SUFFICES ASSUME a >= b PROVE FALSE
  OBVIOUS
<1>1. PICK c \in Nat : a = b + c
  <2>1. a - b \in Nat /\ a = b + (a - b)
    OBVIOUS
  <2> QED
    BY <2>1
<1>2. a * d = b * d + c * d
  BY <1>1
<1>3. c * d >= 0
  OBVIOUS
<1> QED
  BY <1>2, <1>3

LEMMA TruncBetween ==
    ASSUME NEW n \in Int, NEW d \in Int, d > 0, NEW lo \in Int, NEW hi \in Int,
           lo * d <= n, n <= hi * d
    PROVE  trunc(n, d) \in lo..hi
<1>1. ASSUME NEW k \in Int
      PROVE  k \div d \in Int /\ (k \div d) * d <= k /\ k < (k \div d + 1) * d
  <2>1. k \div d \in Int /\ d * (k \div d) <= k /\ k < d * (k \div d) + d
    OBVIOUS
  <2> DEFINE q == k \div d
  <2> HIDE DEF q
  <2>2. q \in Int /\ d * q <= k /\ k < d * q + d
    BY <2>1 DEF q
  <2>3. q * d = d * q /\ (q + 1) * d = d * q + d
    BY <2>2
  <2>4. q * d <= k /\ k < (q + 1) * d
    BY <2>2, <2>3
  <2> QED
    BY <2>2, <2>4 DEF q
<1>2. CASE n >= 0
  <2> DEFINE q == n \div d
  <2>1. q \in Int /\ q * d <= n /\ n < (q + 1) * d
    BY <1>1
  <2>2. trunc(n, d) = q
    BY <1>2 DEF trunc
  <2> HIDE DEF q
  <2>a. q + 1 \in Int /\ hi + 1 \in Int /\ (hi + 1) * d = hi * d + d
    BY <2>1
  <2>3. lo * d < (q + 1) * d
    BY <2>1, <2>a
  <2>4. q * d < (hi + 1) * d
    BY <2>1, <2>a
  <2>5. lo < q + 1
    BY <2>3, <2>a, Cancel
  <2>6. q < hi + 1
    BY <2>1, <2>4, <2>a, Cancel
  <2> QED
    BY <2>1, <2>2, <2>5, <2>6
<1>3. CASE n < 0
  <2> DEFINE q == (-n) \div d
  <2>1. q \in Int /\ q * d <= -n /\ -n < (q + 1) * d
    BY <1>1
  <2>2. trunc(n, d) = -q
    BY <1>3 DEF trunc
  <2> HIDE DEF q
  <2>a. q + 1 \in Int /\ -lo + 1 \in Int /\ -hi \in Int
        /\ (-lo + 1) * d = -(lo * d) + d /\ (-hi) * d = -(hi * d)
    BY <2>1
  <2>3. q * d < (-lo + 1) * d
    BY <2>1, <2>a
  <2>4. (-hi) * d < (q + 1) * d
    BY <2>1, <2>a
  <2>5. q < -lo + 1
    BY <2>1, <2>3, <2>a, Cancel
  <2>6. -hi < q + 1
    BY <2>4, <2>a, Cancel
  <2> QED
    BY <2>1, <2>2, <2>5, <2>6
<1> QED
  BY <1>2, <1>3

LEMMA MidpointBetween ==
    ASSUME NEW a \in Range0, NEW b \in Range0
    PROVE  midpoint(a, b) \in Range0
<1>1. PosMin \in Int /\ PosMax \in Int /\ a \in Int /\ b \in Int
  BY PositionAssumption DEF Range0
<1>2. PosMin * 2 <= a + b /\ a + b <= PosMax * 2 /\ a + b \in Int
  BY <1>1 DEF Range0
<1>3. 2 \in Int /\ 2 > 0
  OBVIOUS
<1>4. trunc(a + b, 2) \in PosMin..PosMax
  BY <1>1, <1>2, <1>3, TruncBetween
<1> QED
  BY <1>4 DEF midpoint, Range0

\* Between its end points, whichever is the greater.
LEMMA SpacedInRange ==
    ASSUME NEW lo \in Range0, NEW hi \in Range0, NEW count \in Nat, NEW i \in 1..count
    PROVE  spaced(lo, hi, count, i) \in Range0
<1>1. PosMin \in Int /\ PosMax \in Int /\ lo \in Int /\ hi \in Int
  BY PositionAssumption DEF Range0
<1>2. PICK r \in Nat : count + 1 = i + r
  <2>1. count + 1 - i \in Nat /\ count + 1 = i + (count + 1 - i)
    OBVIOUS
  <2> QED
    BY <2>1
<1>3. PICK a \in Nat, b \in Nat : lo = PosMin + a /\ hi = PosMin + b
  <2>1. lo - PosMin \in Nat /\ hi - PosMin \in Nat
    BY <1>1 DEF Range0
  <2> QED
    BY <1>1, <2>1
<1>4. PICK c \in Nat, d \in Nat : PosMax = lo + c /\ PosMax = hi + d
  <2>1. PosMax - lo \in Nat /\ PosMax - hi \in Nat
    BY <1>1 DEF Range0
  <2> QED
    BY <1>1, <2>1
<1> DEFINE n == lo * (count + 1) + (hi - lo) * i
<1>5. n = lo * r + hi * i /\ n \in Int
  <2>1. lo * (count + 1) = lo * i + lo * r /\ (hi - lo) * i = hi * i - lo * i
    BY <1>1, <1>2
  <2> QED
    BY <1>1, <2>1
<1>6. PosMin * (count + 1) <= n
  <2>1. lo * r = PosMin * r + a * r /\ hi * i = PosMin * i + b * i
    BY <1>1, <1>3
  <2>2. PosMin * (count + 1) = PosMin * i + PosMin * r
    BY <1>1, <1>2
  <2>3. a * r >= 0 /\ b * i >= 0 /\ a * r \in Int /\ b * i \in Int
        /\ PosMin * r \in Int /\ PosMin * i \in Int
    BY <1>1
  <2> HIDE DEF n
  <2> QED
    BY <1>5, <2>1, <2>2, <2>3
<1>7. n <= PosMax * (count + 1)
  <2>1. PosMax * r = lo * r + c * r /\ PosMax * i = hi * i + d * i
    BY <1>1, <1>4
  <2>2. PosMax * (count + 1) = PosMax * i + PosMax * r
    BY <1>1, <1>2
  <2>3. c * r >= 0 /\ d * i >= 0 /\ c * r \in Int /\ d * i \in Int
        /\ lo * r \in Int /\ hi * i \in Int
    BY <1>1
  <2> HIDE DEF n
  <2> QED
    BY <1>5, <2>1, <2>2, <2>3
<1>8. count + 1 \in Int /\ count + 1 > 0
  OBVIOUS
<1>9. trunc(n, count + 1) \in PosMin..PosMax
  <2> HIDE DEF n
  <2> QED
    BY <1>1, <1>5, <1>6, <1>7, <1>8, TruncBetween
<1> QED
  BY <1>9 DEF spaced, Range0

LEMMA RangeFacts ==
    /\ PosMin \in Range0 /\ PosMax \in Range0 /\ PosInitial \in Range0 /\ 0 \in Range0
    /\ SecondPosition \in Range0 /\ Range0 \subseteq Int
BY PositionAssumption, MidpointBetween DEF Range0, SecondPosition

(***************************************************************************)
(* Children in their order.                                                *)
(***************************************************************************)
rankIn(t, S, i) == Cardinality({j \in S : sortsBefore(t, j, i)})

LEMMA Ranks ==
    ASSUME NEW t, Forest(t), NEW S, S \subseteq DOMAIN t
    PROVE  /\ \A i, j \in S : rankIn(t, S, i) = rankIn(t, S, j) => i = j
           /\ \A i \in S : rankIn(t, S, i) + 1 \in 1..Cardinality(S)
           /\ \A n \in 1..Cardinality(S) : \E i \in S : rankIn(t, S, i) = n - 1
<1> DEFINE lower(i) == {j \in S : sortsBefore(t, j, i)}
           N == Cardinality(S)
<1>0. S \in SUBSET Id /\ IsFiniteSet(S) /\ N \in Nat
  BY Counted DEF Forest
<1>1. \A i \in S : t[i].pos \in Int /\ i \in Int
  BY <1>0, RangeFacts DEF Forest, Range0, Id
<1>2. ASSUME NEW i \in S
      PROVE  /\ IsFiniteSet(lower(i)) /\ rankIn(t, S, i) \in Nat
             /\ rankIn(t, S, i) = Cardinality(lower(i)) /\ rankIn(t, S, i) < N
  <2>1. lower(i) \in SUBSET S /\ i \notin lower(i)
    BY <1>1 DEF sortsBefore
  <2>2. IsFiniteSet(lower(i)) /\ Cardinality(lower(i)) <= N
        /\ (N = Cardinality(lower(i)) => S = lower(i))
    <3> HIDE DEF lower
    <3> QED
      BY <1>0, <2>1, FS_Subset
  <2>3. Cardinality(lower(i)) \in Nat
    <3> HIDE DEF lower
    <3> QED
      BY <2>2, FS_CardinalityType
  <2>4. rankIn(t, S, i) = Cardinality(lower(i))
    BY DEF rankIn
  <2> HIDE DEF lower
  <2> QED
    BY <1>0, <2>1, <2>2, <2>3, <2>4
<1>3. ASSUME NEW i \in S, NEW j \in S, sortsBefore(t, i, j) PROVE rankIn(t, S, i) < rankIn(t, S, j)
  <2>1. lower(i) \in SUBSET lower(j) /\ i \in lower(j) /\ i \notin lower(i)
    BY <1>1, <1>3 DEF sortsBefore
  <2>2. IsFiniteSet(lower(j)) /\ rankIn(t, S, i) = Cardinality(lower(i))
        /\ rankIn(t, S, j) = Cardinality(lower(j))
        /\ rankIn(t, S, i) \in Nat /\ rankIn(t, S, j) \in Nat
    BY <1>2
  <2> HIDE DEF lower
  <2>3. Cardinality(lower(i)) <= Cardinality(lower(j))
        /\ (Cardinality(lower(j)) = Cardinality(lower(i)) => lower(j) = lower(i))
    BY <2>1, <2>2, FS_Subset
  <2> QED
    BY <2>1, <2>2, <2>3
<1>4. \A i, j \in S : i = j \/ sortsBefore(t, i, j) \/ sortsBefore(t, j, i)
  BY <1>1 DEF sortsBefore
<1>5. ASSUME NEW i \in S, NEW j \in S, rankIn(t, S, i) = rankIn(t, S, j) PROVE i = j
  <2>1. rankIn(t, S, i) \in Nat /\ rankIn(t, S, j) \in Nat
    BY <1>2
  <2>2. ~(rankIn(t, S, i) < rankIn(t, S, j)) /\ ~(rankIn(t, S, j) < rankIn(t, S, i))
    BY <1>5, <2>1
  <2>3. ~sortsBefore(t, i, j) /\ ~sortsBefore(t, j, i)
    BY <1>3, <2>2
  <2> QED
    BY <1>4, <2>3
<1>a. \A i \in S : rankIn(t, S, i) \in Nat /\ rankIn(t, S, i) < N
  BY <1>2
<1> HIDE DEF lower
<1> DEFINE T == 0..(N - 1)
           f == [i \in S |-> rankIn(t, S, i)]
<1>6. IsFiniteSet(T) /\ Cardinality(T) = N
  BY <1>0, FS_Interval
<1>7. f \in Injection(S, T)
  <2>1. f \in [S -> T]
    BY <1>0, <1>a
  <2>2. \A i, j \in S : f[i] = f[j] => i = j
    BY <1>5
  <2> HIDE DEF f
  <2> QED
    BY <2>1, <2>2 DEF Injection, IsInjective
<1>8. f \in Surjection(S, T)
  <2> HIDE DEF f, T
  <2> QED
    BY <1>0, <1>6, <1>7, FS_Injection
<1>9. \A n \in 1..N : \E i \in S : rankIn(t, S, i) = n - 1
  <2> TAKE n \in 1..N
  <2>1. n - 1 \in T
    BY <1>0
  <2>2. \E i \in S : f[i] = n - 1
    BY <1>8, <2>1 DEF Surjection
  <2> QED
    BY <2>2
<1>b. \A i \in S : rankIn(t, S, i) + 1 \in 1..N
  BY <1>0, <1>a
<1> QED
  BY <1>5, <1>9, <1>b

LEMMA ChildrenInOrder ==
    ASSUME NEW t, Forest(t), NEW p
    PROVE  LET ids == getChildExpressions(t, p)
               n == Cardinality(Children(t, p))
           IN  /\ n \in Nat /\ Len(ids) = n /\ ids \in [1..n -> Children(t, p)]
               /\ \A i \in Children(t, p) : \E k \in 1..n : ids[k] = i
               /\ (n = 0 <=> Children(t, p) = {})
<1> DEFINE S == Children(t, p)
           n == Cardinality(S)
           ids == getChildExpressions(t, p)
<1>0. S \subseteq DOMAIN t /\ S \in SUBSET Id
  BY ChildrenAreIds DEF Children
<1>1. n \in Nat /\ (n = 0 <=> S = {})
  BY <1>0, Counted
<1>2. ids = [k \in 1..n |-> CHOOSE i \in S : rankIn(t, S, i) = k - 1]
  BY DEF getChildExpressions, rankIn
<1> HIDE DEF S, ids
<1>3. ASSUME NEW k \in 1..n PROVE ids[k] \in S /\ rankIn(t, S, ids[k]) = k - 1
  <2>1. \E i \in S : rankIn(t, S, i) = k - 1
    BY <1>0, Ranks
  <2> QED
    BY <1>2, <2>1
<1>4. Len(ids) = n /\ ids \in [1..n -> S]
  BY <1>1, <1>2, <1>3
<1>5. ASSUME NEW i \in S PROVE \E k \in 1..n : ids[k] = i
  <2>1. rankIn(t, S, i) + 1 \in 1..n
    BY <1>0, Ranks
  <2> DEFINE k == rankIn(t, S, i) + 1
  <2>2. k \in 1..n /\ ids[k] \in S /\ rankIn(t, S, ids[k]) = k - 1
    BY <1>3, <2>1
  <2>3. rankIn(t, S, i) \in Int
    BY <1>0, Counted DEF rankIn
  <2>4. rankIn(t, S, ids[k]) = rankIn(t, S, i)
    BY <2>2, <2>3
  <2>5. ids[k] = i
    BY <1>0, <2>2, <2>4, Ranks
  <2> QED
    BY <2>2, <2>5
<1> QED
  BY <1>1, <1>4, <1>5 DEF S, ids

(***************************************************************************)
(* What changed on the way.                                                *)
(***************************************************************************)
LEMMA KindFacts ==
    /\ Variable \cap Container = {} /\ "none" \notin Kind
    /\ Variadic \subseteq Operator /\ RootOnly \subseteq Operator
    /\ Operator \subseteq Container /\ Container \subseteq Kind
    /\ Variadic \cap RootOnly = {} /\ {"not", "formula"} \subseteq Container
    /\ {"not", "formula"} \cap (Variadic \cup RootOnly) = {}
    /\ "formula" \notin Operator /\ Kind = Variable \cup Container
    /\ Operator = Variadic \cup RootOnly \cup {"not"}
BY StoreAssumption DEF Kind, Container, Operator, Variadic, RootOnly

LEMMA ChangedOnTheWay ==
    ASSUME NEW t, NEW u, NEW v, Forest(v)
    PROVE  Changed(t, v) \subseteq (Changed(t, u) \cap DOMAIN v) \cup Changed(u, v)
<1> SUFFICES ASSUME NEW i \in Changed(t, v), i \notin Changed(u, v)
             PROVE  i \in Changed(t, u)
  BY DEF Changed
<1>1. i \in DOMAIN v /\ v[i].kind # "none"
  BY KindFacts DEF Changed, Forest
<1>2. kindOf(u, i) = v[i].kind /\ u[i] = v[i] /\ Children(u, i) = Children(v, i)
  BY <1>1 DEF Changed
<1>3. i \in DOMAIN u
  BY <1>1, <1>2 DEF kindOf
<1> QED
  BY <1>2, <1>3 DEF Changed

LEMMA PutChanges ==
    ASSUME NEW t, NEW i, NEW k, NEW p, NEW pos
    PROVE  Changed(t, put(t, i, k, p, pos)) \subseteq {i, p, parentOf(t, i)}
BY DEF Changed, put, parentOf, kindOf, Children

LEMMA CutChanges ==
    ASSUME NEW t, NEW i \in DOMAIN t
    PROVE  Changed(t, [j \in DOMAIN t \ {i} |-> t[j]]) \subseteq {t[i].parent}
BY DEF Changed, kindOf, Children

\* New positions and kinds change what they are given to.
LEMMA SameChildrenChanges ==
    ASSUME NEW t, NEW u, DOMAIN u = DOMAIN t, \A i \in DOMAIN t : u[i].parent = t[i].parent,
           NEW S, \A i \in DOMAIN t \ S : u[i] = t[i]
    PROVE  Changed(t, u) \subseteq S /\ \A p : Children(u, p) = Children(t, p)
BY DEF Changed, kindOf, Children

(***************************************************************************)
(* Adding.                                                                 *)
(***************************************************************************)
LEMMA ParentInSound ==
    ASSUME NEW L, NEW t, Sound(L, t), NEW p \in DOMAIN t \cup {None}
    PROVE  /\ p \in Spot
           /\ \A i \in Id \ DOMAIN t : /\ Children(t, i) = {} /\ i # p
                                       /\ p = None \/ i \notin selfAndAbove(t, p)
                                       /\ parentOf(t, i) = None
                                       /\ selfAndAbove(t, i) = {i}
<1>1. p \in Spot /\ Forest(t)
  BY DEF Sound, Forest, Spot
<1> SUFFICES ASSUME NEW i \in Id \ DOMAIN t
             PROVE  /\ Children(t, i) = {} /\ i # p
                    /\ p = None \/ i \notin selfAndAbove(t, p)
                    /\ parentOf(t, i) = None
                    /\ selfAndAbove(t, i) = {i}
  BY <1>1
<1>0. \A j \in DOMAIN t : t[j].parent # None => t[j].parent \in DOMAIN t
  BY DEF Sound
<1>2. Children(t, i) = {} /\ i # p /\ parentOf(t, i) = None
  BY <1>0, NoneIsNoId DEF Children, parentOf
<1>3. p = None \/ i \notin selfAndAbove(t, p)
  BY AboveAreNodes
<1>4. selfAndAbove(t, i) \subseteq {i}
  <2>1. i \in {i} /\ \A x \in {i} : parentOf(t, x) \in {i} \cup {None}
    BY <1>2
  <2> QED
    BY <1>1, <2>1, AboveFacts
<1>5. i \in selfAndAbove(t, i)
  BY <1>1, AboveFacts
<1> QED
  BY <1>2, <1>3, <1>4, <1>5

LEMMA AddReady ==
    ASSUME NEW L, NEW m, NEW x, Ready(L, m, x), NEW i \in Id \ DOMAIN x.tree, NEW k \in Kind,
           NEW p \in DOMAIN x.tree \cup {None}, NEW pos \in Range0,
           rootAllowed(L, x.tree, p),
           i \notin x.dirty \/ p \in x.dirty \cup {None},
           NEW y \in addExpression(x, i, k, p, pos)
    PROVE  /\ Ready(L, m, y) /\ y.tree = put(x.tree, i, k, p, pos)
           /\ x.dirty \cup {i} \subseteq y.dirty
<1> DEFINE t == x.tree
           u == put(t, i, k, p, pos)
           z == storeExpression(x, i, k, p, pos)
<1>1. Mid(x) /\ Sound(L, t) /\ Changed(m.tree, t) \subseteq x.dirty /\ Forest(t)
  BY DEF Ready, Mid
<1>2. /\ p \in Spot /\ Children(t, i) = {} /\ i # p
      /\ (p = None \/ i \notin selfAndAbove(t, p)) /\ parentOf(t, i) = None
  BY <1>1, ParentInSound
<1>3. Mid(z) /\ z.tree = u /\ z.dirty = x.dirty
  <2>1. pos \in PosMin..PosMax
    BY DEF Range0
  <2> QED
    BY <1>1, <1>2, <2>1, StoreStep
<1>4. y = markExpressionDirty(z, i) /\ ~(k \in RootOnly /\ p # None)
      /\ ~(p # None /\ kindOf(t, p) \notin Container)
      /\ ~(p # None /\ childLimitReached(t, p))
  BY DEF addExpression
<1> HIDE DEF z
<1>5. Mid(y) /\ y.tree = u /\ i \in y.dirty /\ x.dirty \subseteq y.dirty
  BY <1>3, <1>4, MarkStep
<1>6. p \in y.dirty \cup {None}
  <2>1. parentOf(u, i) = p
    BY DEF put, parentOf
  <2> QED
    BY <1>5, <2>1 DEF Mid, Closed
<1>7. Changed(m.tree, u) \subseteq y.dirty
  <2>1. Changed(t, u) \subseteq {i, p, None}
    BY <1>2, PutChanges
  <2>2. Forest(u) /\ None \notin DOMAIN u
    BY <1>5, NoneIsNoId DEF Mid, Forest
  <2>3. Changed(t, u) \subseteq DOMAIN u
    BY DEF Changed
  <2>4. Changed(m.tree, u) \subseteq Changed(m.tree, t) \cup Changed(t, u)
    BY <2>2, ChangedOnTheWay
  <2> HIDE DEF u
  <2> QED
    BY <1>1, <1>5, <1>6, <2>1, <2>2, <2>3, <2>4
<1>8. /\ DOMAIN u = DOMAIN t \cup {i} /\ u[i].kind = k /\ u[i].parent = p
      /\ \A j \in DOMAIN t : u[j] = t[j]
  BY DEF put
<1>9. \A q : Children(u, q) = IF q = p THEN Children(t, q) \cup {i} ELSE Children(t, q)
  BY <1>8 DEF Children
<1>10. Children(t, p) \in SUBSET Id
  BY <1>1, ChildrenAreIds
<1>11. Sound(L, u)
  <2>1. Forest(u)
    BY <1>5 DEF Mid
  <2>2. \A j \in DOMAIN u : u[j].parent # None =>
            u[j].parent \in DOMAIN u /\ u[u[j].parent].kind \in Container
    BY <1>1, <1>4, <1>8 DEF Sound, kindOf
  <2>3. \A j \in DOMAIN u : u[j].kind \in Rooted(L) => u[j].parent = None
    BY <1>1, <1>4, <1>8, RestrictedKinds DEF Sound
  <2>4. ASSUME NEW j \in DOMAIN u, u[j].kind \in Single(L)
        PROVE  AtMostOne(Children(u, j))
    <3>1. CASE j = i
      BY <1>2, <1>9, <3>1 DEF AtMostOne
    <3>2. CASE j # i /\ j # p
      BY <1>1, <1>8, <1>9, <2>4, <3>2 DEF Sound
    <3>3. CASE j = p
      <4>0. p # None /\ p \in DOMAIN t
        BY <1>2, <1>8, <2>1, <3>3, NoneIsNoId DEF Forest
      <4>1. t[p].kind \in {"not", "formula"} /\ ~(Cardinality(Children(t, p)) >= 1)
        BY <1>4, <1>8, <2>4, <3>3, <4>0, RestrictedKinds DEF childLimitReached
      <4>2. Children(t, p) = {}
        <5> HIDE DEF t
        <5> QED
          BY <1>10, <4>1, Counted
      <4> QED
        BY <1>9, <3>3, <4>2 DEF AtMostOne
    <3> QED
      BY <3>1, <3>2, <3>3
  <2>5. ASSUME NEW j \in DOMAIN u, u[j].kind \in RootOnly
        PROVE  AtMostTwo(Children(u, j))
    <3>1. CASE j = i
      BY <1>2, <1>9, <3>1 DEF AtMostTwo
    <3>2. CASE j # i /\ j # p
      BY <1>1, <1>8, <1>9, <2>5, <3>2 DEF Sound
    <3>3. CASE j = p
      <4>1. p # None /\ t[p].kind \in RootOnly /\ ~(Cardinality(Children(t, p)) >= 2)
        BY <1>2, <1>4, <1>8, <2>1, <2>5, <3>3, NoneIsNoId DEF childLimitReached, Forest
      <4>2. Cardinality(Children(t, p)) <= 1
        <5> HIDE DEF t
        <5> QED
          BY <1>10, <4>1, Counted
      <4>3. AtMostOne(Children(t, p))
        BY <1>10, <4>2, Counted
      <4>4. AtMostTwo(Children(t, p) \cup {i})
        BY <4>3 DEF AtMostOne, AtMostTwo
      <4>5. Children(u, j) = Children(t, p) \cup {i}
        BY <1>9, <3>3
      <4> QED
        BY <4>4, <4>5
    <3> QED
      BY <3>1, <3>2, <3>3
  <2>6. "second root" \in L \/ AtMostOne(Children(u, None))
    BY <1>1, <1>9 DEF Sound, AtMostOne, rootAllowed
  <2> HIDE DEF u
  <2> QED
    BY <2>1, <2>2, <2>3, <2>4, <2>5, <2>6 DEF Sound
<1> QED
  BY <1>5, <1>7, <1>11 DEF Ready

LEMMA GoodIsReady ==
    ASSUME NEW L, NEW m, Good(L, m)
    PROVE  Ready(L, m, m)
BY GoodIsMid DEF Good, Ready, Changed, kindOf

(***************************************************************************)
(* Spreading siblings.                                                     *)
(***************************************************************************)
LEMMA MaxUpTo ==
    ASSUME NEW N \in Nat, NEW S, S \subseteq 1..N, S # {}
    PROVE  Max(S) \in S
<1> DEFINE T == {N - i : i \in S}
<1>1. T \subseteq 0..N /\ T # {}
  <2>1. \A i \in S : N - i \in 0..N
    OBVIOUS
  <2>2. PICK i \in S : TRUE
    OBVIOUS
  <2>3. N - i \in T
    BY <2>2
  <2>4. T \subseteq 0..N
    BY <2>1
  <2> QED
    BY <2>3, <2>4
<1>2. PICK k \in T : \A j \in T : k <= j
  <2> HIDE DEF T
  <2> QED
    BY <1>1, LeastUpTo
<1>3. PICK x \in S : k = N - x
  BY <1>2
<1>4. \A y \in S : x >= y
  <2> TAKE y \in S
  <2>1. N - x <= N - y
    BY <1>2, <1>3
  <2> QED
    BY <2>1
<1> QED
  BY <1>4 DEF Max

\* Positions of siblings.
Positions(ps, n) == n \in Nat /\ Len(ps) = n /\ ps \in [1..n -> Range0]

LEMMA IndexIs ==
    ASSUME NEW n \in Nat, NEW ps, DOMAIN ps = 1..n, NEW x
    PROVE  IF \E i \in 1..n : ps[i] = x
           THEN indexOf(ps, x) \in 1..n /\ ps[indexOf(ps, x)] = x
           ELSE indexOf(ps, x) = 0
<1>1. DOMAIN ps = 1..n /\ n \in Nat
  OBVIOUS
<1>2. CASE \E i \in 1..n : ps[i] = x
  <2> DEFINE S == {i \in 1..n : ps[i] = x}
  <2>1. S \subseteq 0..n /\ S # {}
    BY <1>2
  <2>2. PICK i \in S : i \in 0..n /\ \A j \in S : i <= j
    <3> HIDE DEF S
    <3> QED
      BY <1>1, <2>1, LeastUpTo
  <2>3. \A j \in 1..(i - 1) : ps[j] # x
    BY <1>1, <2>2
  <2> QED
    BY <1>1, <1>2, <2>2, <2>3 DEF indexOf
<1>3. CASE ~ \E i \in 1..n : ps[i] = x
  BY <1>1, <1>3 DEF indexOf
<1> QED
  BY <1>2, <1>3

LEMMA GapEnds ==
    ASSUME NEW ps, NEW n, Positions(ps, n), NEW g \in 0..n
    PROVE  /\ gapLeft(ps, g) \in Range0 /\ gapRight(ps, g) \in Range0
           /\ midOfGap(ps, g) \in Range0
<1>1. n \in Nat /\ Len(ps) = n /\ \A k \in 1..n : ps[k] \in Range0
  BY DEF Positions
<1>2. gapLeft(ps, g) \in Range0
  BY <1>1, RangeFacts DEF gapLeft
<1>3. gapRight(ps, g) \in Range0
  BY <1>1, RangeFacts DEF gapRight
<1> QED
  BY <1>2, <1>3, MidpointBetween DEF midOfGap

\* The run beside a gap consists of siblings, and the space for it is in range.
LEMMA RunIsIn ==
    ASSUME NEW ps, NEW n, Positions(ps, n), n # 0, NEW g \in 0..n
    PROVE  LET run == validateRepositionSiblings(ps, gapLeft(ps, g), gapRight(ps, g))
           IN  /\ run.first \in 1..n /\ run.last \in 1..n /\ run.first <= run.last
               /\ run.lo \in Range0 /\ run.hi \in Range0
<1> DEFINE leftPos == gapLeft(ps, g)
           rightPos == gapRight(ps, g)
           left == indexOf(ps, leftPos)
           right == indexOf(ps, rightPos)
           leftCount == IF left = 0 THEN 0 ELSE left - leftScan(ps, left) + 1
           rightCount == IF right = 0 THEN 0 ELSE rightScan(ps, right) - right + 1
           run == validateRepositionSiblings(ps, leftPos, rightPos)
<1>0. n \in Nat /\ Len(ps) = n /\ DOMAIN ps = 1..n /\ \A k \in 1..n : ps[k] \in Range0
  BY DEF Positions
<1>1. leftPos \in Range0 /\ rightPos \in Range0
  BY GapEnds
<1>2. left \in 0..n /\ right \in 0..n
  <2> HIDE DEF leftPos, rightPos
  <2> QED
    BY <1>0, IndexIs
<1>3. right = 0 => left # 0
  <2>1. CASE g = n
    <3>1. g \in 1..n /\ leftPos = ps[g]
      BY <1>0, <2>1 DEF gapLeft
    <3> HIDE DEF leftPos
    <3> QED
      BY <1>0, <3>1, IndexIs
  <2>2. CASE g # n
    <3>1. g + 1 \in 1..n /\ rightPos = ps[g + 1]
      BY <1>0, <2>2 DEF gapRight
    <3> HIDE DEF rightPos
    <3> QED
      BY <1>0, <3>1, IndexIs
  <2> QED
    BY <2>1, <2>2
<1>4. run = IF leftCount > 0 /\ (leftCount < rightCount \/ rightCount = 0)
            THEN [first |-> leftScan(ps, left), last |-> left,
                  lo |-> gapLeft(ps, leftScan(ps, left) - 1), hi |-> rightPos]
            ELSE [first |-> right, last |-> rightScan(ps, right),
                  lo |-> leftPos, hi |-> gapRight(ps, rightScan(ps, right))]
  BY DEF validateRepositionSiblings
<1> HIDE DEF left, right, leftPos, rightPos, run
<1>5. left # 0 => leftScan(ps, left) \in 1..left
  <2> SUFFICES ASSUME left # 0 PROVE leftScan(ps, left) \in 1..left
    OBVIOUS
  <2> DEFINE S == {i \in 1..left : crowded(ps, i, left)}
  <2>1. left \in S /\ S \in SUBSET Nat
    BY <1>0, <1>2 DEF crowded
  <2>2. Min(S) \in S
    <3> HIDE DEF S
    <3> QED
      BY <2>1, MinIsIn
  <2> QED
    BY <2>2 DEF leftScan
<1>6. right # 0 => rightScan(ps, right) \in right..n
  <2> SUFFICES ASSUME right # 0 PROVE rightScan(ps, right) \in right..n
    OBVIOUS
  <2> DEFINE S == {i \in right..n : crowded(ps, right, i)}
  <2>1. right \in S /\ S \subseteq 1..n
    BY <1>0, <1>2 DEF crowded
  <2>2. Max(S) \in S
    <3> HIDE DEF S
    <3> QED
      BY <1>0, <2>1, MaxUpTo
  <2>3. rightScan(ps, right) = Max(S)
    BY <1>0 DEF rightScan
  <2> QED
    BY <2>2, <2>3
<1>7. CASE leftCount > 0 /\ (leftCount < rightCount \/ rightCount = 0)
  <2>1. left # 0
    BY <1>7
  <2> DEFINE first == leftScan(ps, left)
  <2>2. first \in 1..left /\ first - 1 \in 0..n
    BY <1>0, <1>2, <1>5, <2>1
  <2>3. gapLeft(ps, first - 1) \in Range0
    <3> HIDE DEF first
    <3> QED
      BY <2>2, GapEnds
  <2>4. run = [first |-> first, last |-> left, lo |-> gapLeft(ps, first - 1), hi |-> rightPos]
    BY <1>4, <1>7
  <2> HIDE DEF first, leftCount, rightCount
  <2> QED
    BY <1>0, <1>1, <1>2, <2>2, <2>3, <2>4 DEF run, leftPos, rightPos
<1>8. CASE ~(leftCount > 0 /\ (leftCount < rightCount \/ rightCount = 0))
  <2>1. right # 0
    <3> SUFFICES ASSUME right = 0 PROVE FALSE
      OBVIOUS
    <3>1. left # 0 /\ rightCount = 0 /\ left \in Nat /\ leftScan(ps, left) \in 1..left
      BY <1>0, <1>2, <1>3, <1>5
    <3>2. leftCount > 0
      BY <3>1
    <3> QED
      BY <1>8, <3>1, <3>2
  <2> DEFINE last == rightScan(ps, right)
  <2>2. last \in right..n /\ last \in 0..n
    BY <1>0, <1>2, <1>6, <2>1
  <2>3. gapRight(ps, last) \in Range0
    <3> HIDE DEF last
    <3> QED
      BY <2>2, GapEnds
  <2>4. run = [first |-> right, last |-> last, lo |-> leftPos, hi |-> gapRight(ps, last)]
    BY <1>4, <1>8
  <2> HIDE DEF last, leftCount, rightCount
  <2> QED
    BY <1>0, <1>1, <1>2, <2>1, <2>2, <2>3, <2>4 DEF run, leftPos, rightPos
<1> QED
  BY <1>7, <1>8

LEMMA ChildPositions ==
    ASSUME NEW m, Forest(m.tree), NEW p
    PROVE  Positions(childPositions(m, p), Cardinality(Children(m.tree, p)))
<1> DEFINE t == m.tree
           n == Cardinality(Children(t, p))
           ids == getChildExpressions(t, p)
           ps == childPositions(m, p)
<1>1. n \in Nat /\ Len(ids) = n /\ ids \in [1..n -> Children(t, p)]
  BY ChildrenInOrder
<1>2. ps = [k \in 1..n |-> t[ids[k]].pos]
  BY <1>1 DEF childPositions, positionsOf
<1>3. \A i \in Children(t, p) : t[i].pos \in Range0
  BY DEF Children, Forest, Range0
<1> HIDE DEF ids, ps, n
<1> QED
  BY <1>1, <1>2, <1>3 DEF Positions, ps, n

\* New positions keep the premise in order.
LEMMA RepositionedTree ==
    ASSUME NEW L, NEW t, Sound(L, t), NEW u, DOMAIN u = DOMAIN t,
           u \in [DOMAIN u -> [kind : Kind, parent : Spot, pos : PosMin..PosMax]],
           \A i \in DOMAIN t : u[i].parent = t[i].parent /\ u[i].kind = t[i].kind
    PROVE  Sound(L, u) /\ \A p : Children(u, p) = Children(t, p)
<1>1. Forest(u)
  BY SameParentsForest DEF Sound
<1>2. \A p : Children(u, p) = Children(t, p)
  BY DEF Children
<1> QED
  BY <1>1, <1>2 DEF Sound

\* Siblings that get new positions, all marked.
LEMMA RepositionedReady ==
    ASSUME NEW L, NEW m, Good(L, m), NEW p \in Spot, Children(m.tree, p) # {},
           NEW g \in 0..Cardinality(Children(m.tree, p)),
           NEW x \in repositioned(m, p, gapLeft(childPositions(m, p), g),
                                        gapRight(childPositions(m, p), g))
    PROVE  /\ Ready(L, m, x) /\ p \in x.dirty \cup {None}
           /\ DOMAIN x.tree = DOMAIN m.tree
           /\ \A q : Children(x.tree, q) = Children(m.tree, q)
           /\ \A i \in DOMAIN m.tree : /\ x.tree[i].parent = m.tree[i].parent
                                       /\ x.tree[i].kind = m.tree[i].kind
<1> DEFINE t == m.tree
           n == Cardinality(Children(t, p))
           ids == getChildExpressions(t, p)
           ps == childPositions(m, p)
           R == validateRepositionSiblings(ps, gapLeft(ps, g), gapRight(ps, g))
           run(r) == {ids[k] : k \in r.run}
           new(r) == [i \in run(r) |-> r.ps[CHOOSE k \in r.run : ids[k] = i]]
           tree(r) == [i \in DOMAIN t |-> IF i \in run(r) THEN [t[i] EXCEPT !.pos = new(r)[i]]
                                                          ELSE t[i]]
           moved(r) == [m EXCEPT !.tree = tree(r),
                                 !.slots[p] = (@ \ {t[i].pos : i \in run(r)})
                                                 \cup {new(r)[i] : i \in run(r)}]
<1>0. Mid(m) /\ Sound(L, t) /\ Forest(t) /\ m.dirty = {}
  BY GoodIsMid DEF Good, Sound
<1>1. n \in Nat /\ n # 0 /\ Len(ids) = n /\ ids \in [1..n -> Children(t, p)]
  BY <1>0, ChildrenInOrder
<1>2. Positions(ps, n) /\ DOMAIN ps = 1..n
  <2>1. Positions(ps, n)
    BY <1>0, ChildPositions
  <2> QED
    BY <2>1 DEF Positions
<1>3. /\ R.first \in 1..n /\ R.last \in 1..n /\ R.first <= R.last
      /\ R.lo \in Range0 /\ R.hi \in Range0
  <2> HIDE DEF ps, n
  <2> QED
    BY <1>1, <1>2, RunIsIn DEF n
<1>4. PICK r \in repositionSiblings(ps, gapLeft(ps, g), gapRight(ps, g)) :
          x = [moved(r) EXCEPT !.dirty =
                 @ \cup UNION {markExpressionDirty(moved(r), i).dirty : i \in run(r)}]
  BY DEF repositioned, childPositions
<1>5. r.run = R.first..R.last /\ \A k \in r.run : k \in 1..n /\ r.ps[k] \in Range0
  <2> DEFINE count == R.last - R.first + 1
  <2>0. count \in Nat /\ R.first..R.last \subseteq 1..n
    <3> HIDE DEF R, n
    <3> QED
      BY <1>1, <1>3
  <2>1. r \in spread(ps, R, count)
    BY <1>4 DEF repositionSiblings, repositionRun
  <2> HIDE DEF R, count, ps
  <2>2. r = [run |-> R.first..R.last,
             ps  |-> [i \in DOMAIN ps |->
                        IF i \in R.first..R.last
                        THEN spaced(R.lo, R.hi, count, i - R.first + 1)
                        ELSE ps[i]]]
    BY <2>1 DEF spread
  <2>3. ASSUME NEW k \in R.first..R.last PROVE r.ps[k] \in Range0
    <3>1. k - R.first + 1 \in 1..count /\ k \in DOMAIN ps
      BY <1>2, <1>3, <2>0 DEF count
    <3>2. r.ps[k] = spaced(R.lo, R.hi, count, k - R.first + 1)
      BY <2>2, <3>1
    <3> QED
      BY <1>3, <2>0, <3>1, <3>2, SpacedInRange
  <2> QED
    BY <2>0, <2>2, <2>3
<1> DEFINE S == run(r)
           u == tree(r)
           y == moved(r)
<1>6. S \subseteq Children(t, p) /\ S \subseteq DOMAIN t /\ S # {}
  <2>1. R.first \in r.run
    BY <1>3, <1>5
  <2> HIDE DEF R, ids
  <2>2. S \subseteq Children(t, p) /\ S # {}
    BY <1>1, <1>5, <2>1
  <2> QED
    BY <2>2 DEF Children
<1>7. \A i \in S : new(r)[i] \in Range0
  <2> HIDE DEF R, ids
  <2> TAKE i \in S
  <2>1. \E k \in r.run : ids[k] = i
    OBVIOUS
  <2>2. new(r)[i] = r.ps[CHOOSE k \in r.run : ids[k] = i]
    OBVIOUS
  <2> QED
    BY <1>5, <2>1, <2>2
<1> HIDE DEF S, new, run
<1>8. DOMAIN u = DOMAIN t /\ \A i \in DOMAIN t \ S : u[i] = t[i]
  BY DEF S
<1>a. \A i \in DOMAIN t : t[i] \in [kind : Kind, parent : Spot, pos : PosMin..PosMax]
  BY <1>0 DEF Forest
<1>9. /\ u \in [DOMAIN u -> [kind : Kind, parent : Spot, pos : PosMin..PosMax]]
      /\ \A i \in DOMAIN t : u[i].parent = t[i].parent /\ u[i].kind = t[i].kind
  BY <1>7, <1>a DEF S, Range0
<1>10. IsStore(y) /\ y.tree = u /\ y.dirty = {} /\ y.stale = {}
  BY <1>0 DEF Mid, IsStore, Good
<1> HIDE DEF u, y, tree, moved
<1>11. Sound(L, u) /\ \A q : Children(u, q) = Children(t, q)
  BY <1>0, <1>8, <1>9, RepositionedTree
<1>12. Mid(y)
  BY <1>10, <1>11 DEF Mid, Sound, Closed
<1>13. \A i \in S : /\ i \in markExpressionDirty(y, i).dirty
                    /\ markExpressionDirty(y, i).dirty \subseteq Id
                    /\ Closed(u, markExpressionDirty(y, i).dirty)
  <2> TAKE i \in S
  <2>1. i \in Id
    BY <1>0, <1>6 DEF Forest
  <2> QED
    BY <1>10, <1>12, <2>1, MarkStep DEF Mid
<1> DEFINE D == UNION {markExpressionDirty(y, i).dirty : i \in S}
<1>14. x = [y EXCEPT !.dirty = @ \cup D]
  BY <1>4 DEF y, S
<1>15. S \subseteq D /\ D \subseteq Id /\ Closed(u, D)
  <2>1. S \subseteq D /\ D \subseteq Id
    BY <1>13
  <2>2. ASSUME NEW a \in D PROVE parentOf(u, a) \in D \cup {None}
    <3>1. PICK i \in S : a \in markExpressionDirty(y, i).dirty
      BY <2>2
    <3>2. parentOf(u, a) \in markExpressionDirty(y, i).dirty \cup {None}
      BY <1>13, <3>1 DEF Closed
    <3> QED
      BY <3>2
  <2> QED
    BY <2>1, <2>2 DEF Closed
<1> HIDE DEF D
<1>16. IsStore(x) /\ x.tree = u /\ x.dirty = D
  BY <1>10, <1>14 DEF IsStore
<1>17. Changed(t, u) \subseteq S
  BY <1>8, <1>9, SameChildrenChanges
<1>18. Ready(L, m, x)
  BY <1>11, <1>15, <1>16, <1>17 DEF Ready, Mid, Sound
<1>19. p \in D \cup {None}
  <2>1. PICK i \in S : TRUE
    BY <1>6
  <2>2. i \in D /\ i \in DOMAIN t /\ t[i].parent = p
    BY <1>6, <1>15, <2>1 DEF Children
  <2>3. parentOf(u, i) = p
    BY <1>8, <1>9, <2>2 DEF parentOf
  <2> QED
    BY <1>15, <2>2, <2>3 DEF Closed
<1> QED
  BY <1>8, <1>9, <1>11, <1>16, <1>18, <1>19

LEMMA AddInGapReady ==
    ASSUME NEW L, NEW m, Good(L, m), NEW i \in Id \ DOMAIN m.tree, NEW k \in Kind,
           NEW p \in DOMAIN m.tree \cup {None}, Children(m.tree, p) # {},
           rootAllowed(L, m.tree, p),
           NEW g \in 0..Cardinality(Children(m.tree, p)), NEW y \in addInGap(m, i, k, p, g)
    PROVE  Ready(L, m, y)
<1> DEFINE t == m.tree
           n == Cardinality(Children(t, p))
<1>0. p \in Spot /\ m.dirty = {}
  BY DEF Good, Sound, Forest, Spot
<1>1. PICK x \in roomier(m, p, childPositions(m, p), g) :
          y \in addExpression(x, i, k, p, midOfGap(childPositions(x, p), g))
  BY DEF addInGap
<1>2. /\ Ready(L, m, x) /\ DOMAIN x.tree = DOMAIN t
      /\ Children(x.tree, p) = Children(t, p)
      /\ i \notin x.dirty \/ p \in x.dirty \cup {None}
  <2>1. CASE x = m
    BY <1>0, <2>1, GoodIsReady
  <2>2. CASE x # m
    <3>1. x \in repositioned(m, p, gapLeft(childPositions(m, p), g),
                                   gapRight(childPositions(m, p), g))
      BY <1>1, <2>2 DEF roomier
    <3> HIDE DEF t, n
    <3>2. /\ Ready(L, m, x) /\ p \in x.dirty \cup {None} /\ DOMAIN x.tree = DOMAIN m.tree
          /\ \A q : Children(x.tree, q) = Children(m.tree, q)
      BY <1>0, <3>1, RepositionedReady
    <3> QED
      BY <3>2 DEF t
  <2> QED
    BY <2>1, <2>2
<1>3. midOfGap(childPositions(x, p), g) \in Range0
  <2>1. Positions(childPositions(x, p), n)
    BY <1>2, ChildPositions DEF Ready, Mid
  <2> QED
    BY <2>1, GapEnds
<1>4. rootAllowed(L, x.tree, p)
  BY <1>2 DEF rootAllowed
<1> QED
  BY <1>0, <1>1, <1>2, <1>3, <1>4, AddReady

LEMMA RootIs ==
    ASSUME NEW t, Forest(t)
    PROVE  rootExpressionId(t) = None <=> Children(t, None) = {}
<1>1. CASE Children(t, None) = {}
  BY <1>1 DEF rootExpressionId
<1>2. CASE Children(t, None) # {}
  <2> DEFINE ids == getChildExpressions(t, None)
             n == Cardinality(Children(t, None))
  <2>1. n \in Nat /\ n # 0 /\ ids \in [1..n -> Children(t, None)]
    BY <1>2, ChildrenInOrder
  <2>2. ids[1] \in Children(t, None)
    <3> HIDE DEF ids, n
    <3> QED
      BY <2>1
  <2>3. ids[1] # None
    BY <2>2, ChildrenAreIds, NoneIsNoId
  <2> QED
    BY <1>2, <2>3 DEF rootExpressionId
<1> QED
  BY <1>1, <1>2

\* The three ways a caller adds an expression.
LEMMA AddGood ==
    ASSUME NEW L, NEW m, Good(L, m), NEW i \in Id \ DOMAIN m.tree, NEW k \in Kind,
           NEW p \in DOMAIN m.tree \cup {None}
    PROVE  /\ \A pos \in Range0 : \A y \in pe_addExpression(m, i, k, p, pos) : Good(L, y)
           /\ \A y \in pe_appendExpression(m, i, k, p) : Good(L, y)
<1>0. Ready(L, m, m) /\ m.dirty = {} /\ Forest(m.tree)
  BY GoodIsReady DEF Good, Sound
<1>1. rootExpressionId(m.tree) # None \/ (p = None => Children(m.tree, None) = {})
  BY <1>0, RootIs
<1>2. ASSUME p = None => Children(m.tree, None) = {}, NEW pos \in Range0
      PROVE  \A y \in addExpression(m, i, k, p, pos) : Ready(L, m, y)
  <2>1. rootAllowed(L, m.tree, p)
    BY <1>2 DEF rootAllowed
  <2> QED
    BY <1>0, <2>1, AddReady
<1>3. ASSUME NEW pos \in Range0
      PROVE  \A y \in pe_addExpression(m, i, k, p, pos) : Good(L, y)
  BY <1>1, <1>2, FinalizedGood DEF pe_addExpression
<1>4. ASSUME p = None => Children(m.tree, None) = {}
      PROVE  \A y \in appendExpression(m, i, k, p) : Ready(L, m, y)
  <2> DEFINE n == Cardinality(Children(m.tree, p))
  <2>1. n \in Nat /\ (n = 0 <=> Children(m.tree, p) = {})
    BY <1>0, ChildrenAreIds, Counted
  <2>2. CASE n = 0
    BY <1>2, <1>4, <2>2, RangeFacts DEF appendExpression
  <2>3. CASE n # 0
    <3>1. rootAllowed(L, m.tree, p) /\ Children(m.tree, p) # {} /\ n \in 0..n
      <4>1. rootAllowed(L, m.tree, p)
        BY <1>4 DEF rootAllowed
      <4> HIDE DEF n
      <4> QED
        BY <2>1, <2>3, <4>1
    <3>2. appendExpression(m, i, k, p) = addInGap(m, i, k, p, n)
      BY <2>3 DEF appendExpression
    <3> HIDE DEF n
    <3> QED
      BY <3>1, <3>2, AddInGapReady DEF n
  <2> QED
    BY <2>2, <2>3
<1>5. \A y \in pe_appendExpression(m, i, k, p) : Good(L, y)
  BY <1>1, <1>4, FinalizedGood DEF pe_appendExpression
<1> QED
  BY <1>3, <1>5

LEMMA AddRelativeGood ==
    ASSUME NEW L, NEW m, Good(L, m), NEW i \in Id \ DOMAIN m.tree, NEW k \in Kind,
           NEW s \in DOMAIN m.tree, m.tree[s].parent # None \/ "second root" \in L, NEW where
    PROVE  \A y \in pe_addExpressionRelative(m, i, k, s, where) : Good(L, y)
<1> DEFINE t == m.tree
           p == t[s].parent
           n == Cardinality(Children(t, p))
           ids == getChildExpressions(t, p)
           at == CHOOSE j \in DOMAIN ids : ids[j] = s
           g == IF where = "before" THEN at - 1 ELSE at
<1>0. p \in DOMAIN t \cup {None} /\ s \in Children(t, p) /\ Forest(t) /\ rootAllowed(L, t, p)
  BY DEF Good, Sound, Children, rootAllowed
<1>1. /\ n \in Nat /\ ids \in [1..n -> Children(t, p)]
      /\ \E j \in 1..n : ids[j] = s
  <2> HIDE DEF p
  <2> QED
    BY <1>0, ChildrenInOrder
<1>2. at \in 1..n
  <2> HIDE DEF n, ids
  <2> QED
    BY <1>1
<1>3. g \in 0..n
  <2>1. \A z \in 1..n : z - 1 \in 0..n /\ z \in 0..n
    BY <1>1, SmallNumbers
  <2> HIDE DEF at, n, ids
  <2> QED
    BY <1>2, <2>1
<1>4. addExpressionRelative(m, i, k, s, where) = addInGap(m, i, k, p, g)
  BY DEF addExpressionRelative
<1>5. \A y \in addInGap(m, i, k, p, g) : Ready(L, m, y)
  <2> HIDE DEF g
  <2> QED
    BY <1>0, <1>3, AddInGapReady
<1> QED
  BY <1>4, <1>5, FinalizedGood DEF pe_addExpressionRelative

(***************************************************************************)
(* Updating in place.                                                      *)
(***************************************************************************)
LEMMA UpdatePositionGood ==
    ASSUME NEW L, NEW m, Good(L, m), NEW i \in DOMAIN m.tree, NEW pos \in Range0
    PROVE  \A y \in pe_updatePosition(m, i, pos) : Good(L, y)
<1> SUFFICES ASSUME NEW x \in updatePosition(m, i, pos) PROVE Ready(L, m, x)
  BY FinalizedGood DEF pe_updatePosition
<1> DEFINE t == m.tree
           u == [t EXCEPT ![i].pos = pos]
           p == t[i].parent
           moved == [m EXCEPT !.tree[i].pos = pos,
                              !.slots[p] = (m.slots[p] \ {t[i].pos}) \cup {pos}]
<1>0. Mid(m) /\ Sound(L, t) /\ Forest(t) /\ i \in Id
  BY GoodIsMid DEF Good, Sound, Forest
<1>1. x = markExpressionDirty(moved, i)
  BY DEF updatePosition
<1>2. IsStore(moved) /\ moved.tree = u /\ moved.dirty = {}
  BY DEF Good, IsStore
<1>a. \A j \in DOMAIN t : t[j] \in [kind : Kind, parent : Spot, pos : PosMin..PosMax]
  BY <1>0 DEF Forest
<1>3. /\ DOMAIN u = DOMAIN t /\ (\A j \in DOMAIN t \ {i} : u[j] = t[j])
      /\ u \in [DOMAIN u -> [kind : Kind, parent : Spot, pos : PosMin..PosMax]]
      /\ \A j \in DOMAIN t : u[j].parent = t[j].parent /\ u[j].kind = t[j].kind
  BY <1>a DEF Range0
<1> HIDE DEF u, moved
<1>4. Sound(L, u)
  BY <1>0, <1>3, RepositionedTree
<1>5. Mid(moved)
  BY <1>2, <1>4 DEF Mid, Sound, Closed
<1>6. Mid(x) /\ x.tree = u /\ i \in x.dirty
  BY <1>0, <1>1, <1>2, <1>5, MarkStep
<1>7. Changed(t, u) \subseteq {i}
  BY <1>3, SameChildrenChanges
<1> QED
  BY <1>4, <1>6, <1>7 DEF Ready

\* A kind for another, of an expression whose children it allows.
LEMMA RewriteReady ==
    ASSUME NEW L, NEW m, Good(L, m), NEW i \in DOMAIN m.tree, NEW k \in Kind,
           k \in Rooted(L) => m.tree[i].parent = None,
           k \in RootOnly => AtMostTwo(Children(m.tree, i)),
           k \notin {"not", "formula"},
           k \notin Container => Children(m.tree, i) = {}
    PROVE  Ready(L, m, rewrite(m, i, k))
<1> DEFINE t == m.tree
           u == [t EXCEPT ![i].kind = k]
           y == [m EXCEPT !.tree[i].kind = k]
           x == rewrite(m, i, k)
<1>0. Mid(m) /\ Sound(L, t) /\ Forest(t) /\ i \in Id
  BY GoodIsMid DEF Good, Sound, Forest
<1>1. x = markExpressionDirty(y, i)
  BY DEF rewrite
<1>2. IsStore(y) /\ y.tree = u /\ y.dirty = {}
  BY DEF Good, IsStore
<1>a. \A j \in DOMAIN t : t[j] \in [kind : Kind, parent : Spot, pos : PosMin..PosMax]
  BY <1>0 DEF Forest
<1>3. /\ DOMAIN u = DOMAIN t /\ (\A j \in DOMAIN t \ {i} : u[j] = t[j])
      /\ u \in [DOMAIN u -> [kind : Kind, parent : Spot, pos : PosMin..PosMax]]
      /\ \A j \in DOMAIN t : u[j].parent = t[j].parent
      /\ u[i].kind = k
  BY <1>a
<1> HIDE DEF u, y, x
<1>4. Changed(t, u) \subseteq {i} /\ \A p : Children(u, p) = Children(t, p)
  BY <1>3, SameChildrenChanges
<1>5. Forest(u)
  BY <1>0, <1>3, SameParentsForest
<1>6. Sound(L, u)
  <2>1. \A j \in DOMAIN u : u[j].parent # None =>
            u[j].parent \in DOMAIN u /\ u[u[j].parent].kind \in Container
    <3> SUFFICES ASSUME NEW j \in DOMAIN u, u[j].parent # None
                 PROVE  u[j].parent \in DOMAIN u /\ u[u[j].parent].kind \in Container
      OBVIOUS
    <3>1. t[j].parent \in DOMAIN t /\ t[t[j].parent].kind \in Container /\ j \in DOMAIN t
      BY <1>0, <1>3 DEF Sound
    <3>2. CASE t[j].parent = i
      <4>1. j \in Children(t, i)
        BY <3>1, <3>2 DEF Children
      <4> QED
        BY <1>3, <3>1, <3>2, <4>1
    <3>3. CASE t[j].parent # i
      BY <1>3, <3>1, <3>3
    <3> QED
      BY <3>2, <3>3
  <2>2. \A j \in DOMAIN u : u[j].kind \in Rooted(L) => u[j].parent = None
    BY <1>0, <1>3 DEF Sound
  <2>3. \A j \in DOMAIN u : u[j].kind \in Single(L) => AtMostOne(Children(u, j))
    <3>1. k \notin Single(L)
      BY RestrictedKinds
    <3> QED
      BY <1>0, <1>3, <1>4, <3>1 DEF Sound
  <2>4. \A j \in DOMAIN u : u[j].kind \in RootOnly => AtMostTwo(Children(u, j))
    BY <1>0, <1>3, <1>4 DEF Sound
  <2>5. "second root" \in L \/ AtMostOne(Children(u, None))
    BY <1>0, <1>4 DEF Sound
  <2> QED
    BY <1>5, <2>1, <2>2, <2>3, <2>4, <2>5 DEF Sound
<1>7. Mid(y)
  BY <1>2, <1>5 DEF Mid, Closed
<1>8. Mid(x) /\ x.tree = u /\ i \in x.dirty
  BY <1>0, <1>1, <1>2, <1>7, MarkStep
<1> QED
  BY <1>4, <1>6, <1>8 DEF Ready, x

LEMMA UpdateKindGood ==
    ASSUME NEW L, NEW m, Good(L, m), NEW i \in DOMAIN m.tree, NEW k \in Kind
    PROVE  \A y \in pe_updateKind(m, i, k) : Good(L, y)
<1> SUFFICES ASSUME NEW x \in updateKind(m, i, k) PROVE Ready(L, m, x)
  BY FinalizedGood DEF pe_updateKind
<1>0. x = rewrite(m, i, k) /\ Sound(L, m.tree)
  BY DEF updateKind, Good
<1>1. CASE {m.tree[i].kind, k} \subseteq Variable
  <2>1. Children(m.tree, i) = {}
    <3> SUFFICES ASSUME NEW j \in Children(m.tree, i) PROVE FALSE
      OBVIOUS
    <3>1. i # None
      BY <1>0, NoneIsNoId DEF Sound, Forest
    <3>2. m.tree[i].kind \in Container
      BY <1>0, <3>1 DEF Sound, Children
    <3> QED
      BY <1>1, <3>2, KindFacts
  <2>2. k \notin Rooted(L) /\ k \notin RootOnly /\ k \notin {"not", "formula"}
    <3>1. k \notin RootOnly /\ k \notin {"not", "formula"}
      BY <1>1, KindFacts
    <3> QED
      BY <3>1, RestrictedKinds
  <2> QED
    BY <1>0, <2>1, <2>2, RewriteReady
<1>2. CASE isPermittedOperatorSwap(m.tree[i].kind, k)
  <2>1. k \in Container /\ k \notin {"not", "formula"}
    BY <1>2, KindFacts DEF isPermittedOperatorSwap
  <2>2. k \in RootOnly => m.tree[i].kind \in RootOnly
    BY <1>2, KindFacts DEF isPermittedOperatorSwap
  <2>3. /\ k \in Rooted(L) => m.tree[i].parent = None
        /\ k \in RootOnly => AtMostTwo(Children(m.tree, i))
    BY <1>0, <2>2, RestrictedKinds DEF Sound
  <2> QED
    BY <1>0, <2>1, <2>3, RewriteReady
<1> QED
  BY <1>1, <1>2 DEF updateKind

LEMMA ChangeTypeReady ==
    ASSUME NEW L, NEW m, Good(L, m), NEW i \in DOMAIN m.tree, NEW k \in Operator,
           Cardinality(Children(m.tree, i)) <= 2 \/ k \in Variadic
    PROVE  \A x \in changeOperatorType(m, i, k) : Ready(L, m, x)
<1> SUFFICES ASSUME NEW x \in changeOperatorType(m, i, k) PROVE Ready(L, m, x)
  OBVIOUS
<1>1. x = rewrite(m, i, k) /\ k # "not" /\ (k \in RootOnly => m.tree[i].parent = None)
  BY DEF changeOperatorType
<1>2. k \in Kind /\ k \in Container /\ k \notin {"not", "formula"}
      /\ (k \in RootOnly => k \notin Variadic)
  BY <1>1, KindFacts
<1>3. k \in RootOnly => AtMostTwo(Children(m.tree, i))
  BY <1>2, ChildrenAreIds, Counted DEF Good, Sound
<1>4. k \in Rooted(L) => m.tree[i].parent = None
  BY <1>1, RestrictedKinds
<1> QED
  BY <1>1, <1>2, <1>3, <1>4, RewriteReady

(***************************************************************************)
(* Removing.                                                               *)
(***************************************************************************)
Without(t, S) == [j \in DOMAIN t \ S |-> t[j]]

\* Taking away nodes with all that lies below them leaves a tree in order.
LEMMA WithoutSound ==
    ASSUME NEW L, NEW t, Sound(L, t), NEW S, \A j \in DOMAIN t \ S : t[j].parent \notin S
    PROVE  Sound(L, Without(t, S))
<1> DEFINE u == Without(t, S)
<1>1. DOMAIN u = DOMAIN t \ S /\ \A j \in DOMAIN u : u[j] = t[j]
  BY DEF Without
<1>2. Forest(u)
  <2>1. u \in [DOMAIN u -> [kind : Kind, parent : Spot, pos : PosMin..PosMax]]
    BY DEF Without, Sound, Forest
  <2> QED
    BY <1>1, <2>1, SameParentsForest DEF Sound
<1>3. \A p : Children(u, p) \subseteq Children(t, p)
  BY <1>1 DEF Children
<1> HIDE DEF u
<1>4. \A j \in DOMAIN u : u[j].parent # None =>
          u[j].parent \in DOMAIN u /\ u[u[j].parent].kind \in Container
  BY <1>1 DEF Sound
<1>5. \A j \in DOMAIN u : u[j].kind \in Rooted(L) => u[j].parent = None
  BY <1>1 DEF Sound
<1>6. \A j \in DOMAIN u : u[j].kind \in Single(L) => AtMostOne(Children(u, j))
  BY <1>1, <1>3 DEF Sound, AtMostOne
<1>7. \A j \in DOMAIN u : u[j].kind \in RootOnly => AtMostTwo(Children(u, j))
  BY <1>1, <1>3 DEF Sound, AtMostTwo
<1>8. "second root" \in L \/ AtMostOne(Children(u, None))
  BY <1>3 DEF Sound, AtMostOne
<1> QED
  BY <1>2, <1>4, <1>5, <1>6, <1>7, <1>8 DEF Sound, u

\* A store whose tree is given, with nothing dirty, then marked at one node.
LEMMA MarkParentStep ==
    ASSUME NEW m, Mid(m), NEW p \in Spot
    PROVE  LET x == markParent(m, p)
           IN  Mid(x) /\ x.tree = m.tree /\ m.dirty \subseteq x.dirty /\ p \in x.dirty \cup {None}
BY MarkStep DEF markParent, Spot

LEMMA RemoveSubtreeReady ==
    ASSUME NEW L, NEW m, Good(L, m), NEW i \in DOMAIN m.tree
    PROVE  /\ Ready(L, m, removeSubtree(m, i))
           /\ removeSubtree(m, i).tree = Without(m.tree, subtree(m.tree, i))
<1> DEFINE t == m.tree
           gone == subtree(t, i)
           p == t[i].parent
           cut == detachExpression(m, i)
           u == Without(t, gone)
           y == [cut EXCEPT !.tree = [j \in DOMAIN m.tree \ gone |-> m.tree[j]],
                            !.slots = [j \in DOMAIN @ |-> IF j \in gone THEN {} ELSE @[j]],
                            !.dirty = @ \ gone]
           x == removeSubtree(m, i)
<1>0. Mid(m) /\ Sound(L, t) /\ Forest(t) /\ i \in Id /\ p \in Spot
  BY GoodIsMid DEF Good, Sound, Forest
<1>1. x = markParent(y, p)
  BY DEF removeSubtree
<1>2. IsStore(y) /\ y.tree = u /\ y.dirty = {}
  BY DEF Good, IsStore, detachExpression, Without
<1>3. ASSUME NEW j \in DOMAIN t, t[j].parent \in gone PROVE j \in gone
  <2>1. parentOf(t, j) = t[j].parent /\ parentOf(t, j) # None /\ j \in Id
    BY <1>0, <1>3, NoneIsNoId DEF parentOf, subtree, Forest
  <2> QED
    BY <1>0, <1>3, <2>1, AboveByStep DEF subtree
<1>4. Sound(L, u)
  BY <1>0, <1>3, WithoutSound
<1>5. Changed(t, u) \subseteq {p}
  <2> SUFFICES ASSUME NEW j \in Changed(t, u), j # p PROVE FALSE
    OBVIOUS
  <2>1. j \in DOMAIN t /\ j \notin gone /\ u[j] = t[j] /\ Children(u, j) # Children(t, j)
    BY DEF Changed, Without, kindOf
  <2>2. PICK c \in Children(t, j) : c \in gone
    BY <2>1 DEF Without, Children
  <2>3. c \in DOMAIN t /\ t[c].parent = j /\ c # i /\ c \in Id /\ j \in Id
    BY <1>0, <2>1, <2>2 DEF Children, Forest
  <2>4. parentOf(t, c) = j /\ j # None
    BY <2>3, NoneIsNoId DEF parentOf
  <2>5. i \in selfAndAbove(t, j)
    BY <1>0, <2>2, <2>3, <2>4, AboveByStep DEF subtree
  <2> QED
    BY <2>1, <2>5 DEF subtree
<1> HIDE DEF y, u, x
<1>6. Mid(y)
  BY <1>2, <1>4 DEF Mid, Closed, Sound
<1>7. Mid(x) /\ x.tree = u /\ p \in x.dirty \cup {None}
  BY <1>0, <1>1, <1>2, <1>6, MarkParentStep
<1>8. Changed(t, u) \subseteq x.dirty
  <2>1. None \notin DOMAIN u
    BY <1>4, NoneIsNoId DEF Sound, Forest
  <2> QED
    BY <1>5, <1>7, <2>1 DEF Changed
<1> QED
  BY <1>4, <1>7, <1>8 DEF Ready, x, u

LEMMA OnlyChildIs ==
    ASSUME NEW t, Forest(t), NEW i
    PROVE  /\ onlyChild(t, i) # None => Children(t, i) = {onlyChild(t, i)}
           /\ onlyChild(t, i) = None /\ AtMostOne(Children(t, i)) => Children(t, i) = {}
<1>1. Children(t, i) \in SUBSET Id
  BY ChildrenAreIds
<1>2. CASE \E x : Children(t, i) = {x}
  <2>1. PICK x : Children(t, i) = {x}
    BY <1>2
  <2>2. onlyChild(t, i) = x
    BY <1>1, <2>1, Counted DEF onlyChild
  <2> QED
    BY <1>1, <2>1, <2>2, NoneIsNoId
<1>3. CASE ~ \E x : Children(t, i) = {x}
  <2>1. onlyChild(t, i) = None
    BY <1>1, <1>3, Counted DEF onlyChild
  <2>2. AtMostOne(Children(t, i)) => Children(t, i) = {}
    BY <1>3 DEF AtMostOne
  <2> QED
    BY <2>1, <2>2
<1> QED
  BY <1>2, <1>3

LEMMA PromoteReady ==
    ASSUME NEW L, NEW m, Good(L, m), NEW i \in DOMAIN m.tree, NEW x \in removeAndPromote(m, i)
    PROVE  Ready(L, m, x) /\ DOMAIN x.tree = DOMAIN m.tree \ {i}
<1> DEFINE t == m.tree
           old == t[i]
           p == old.parent
           c == onlyChild(t, i)
<1>0. Mid(m) /\ Sound(L, t) /\ Forest(t) /\ i \in Id /\ p \in Spot /\ m.dirty = {}
      /\ old \in [kind : Kind, parent : Spot, pos : PosMin..PosMax]
  BY GoodIsMid DEF Good, Sound, Forest
<1>1. /\ AtMostOne(Children(t, i))
      /\ \A d \in Children(t, i) : t[d].kind \in RootOnly => p = None
  <2>1. validateRemoveAndPromote(m, i)
    BY DEF removeAndPromote
  <2> QED
    BY <1>0, <2>1, ChildrenAreIds, Counted DEF validateRemoveAndPromote
<1>2. CASE c = None
  <2>1. Children(t, i) = {}
    BY <1>0, <1>1, <1>2, OnlyChildIs
  <2>2. x = deleteExpression(m, i)
    BY <1>2 DEF removeAndPromote, deleteExpression
  <2>3. /\ Mid(x) /\ x.tree = [j \in DOMAIN t \ {i} |-> t[j]]
        /\ p \in x.dirty \cup {None}
    BY <1>0, <2>1, <2>2, DeleteStep
  <2>4. Sound(L, x.tree)
    <3>1. \A j \in DOMAIN t \ {i} : t[j].parent \notin {i}
      BY <2>1 DEF Children
    <3>2. Sound(L, Without(t, {i}))
      BY <1>0, <3>1, WithoutSound
    <3> QED
      BY <2>3, <3>2 DEF Without
  <2>5. Changed(t, x.tree) \subseteq {p} \cap DOMAIN x.tree
    BY <2>3, CutChanges DEF Changed
  <2>6. None \notin DOMAIN x.tree
    BY <2>4, NoneIsNoId DEF Sound, Forest
  <2> QED
    BY <2>3, <2>4, <2>5, <2>6 DEF Ready
<1>3. CASE c # None
  <2> DEFINE w == put(t, c, t[c].kind, p, old.pos)
             u == Without(w, {i})
             y == [m EXCEPT !.tree = [j \in DOMAIN @ \ {i} |->
                                       IF j = c THEN [old EXCEPT !.kind = t[c].kind]
                                                ELSE @[j]],
                            !.slots[i] = {},
                            !.dirty = @ \ {i}]
  <2>1. Children(t, i) = {c} /\ c \in DOMAIN t /\ t[c].parent = i /\ c \in Id
    <3>1. Children(t, i) = {c}
      BY <1>0, <1>3, OnlyChildIs
    <3> QED
      BY <1>0, <3>1 DEF Children, Forest
  <2>2. c # i /\ i # None /\ t[c].kind \in Kind /\ c # p
        /\ (p = None \/ c \notin selfAndAbove(t, p))
    <3>1. i # None /\ t[c].kind \in Kind
      BY <1>0, <2>1, NoneIsNoId DEF Forest
    <3>2. c \notin selfAndAbove(t, i) /\ i \in selfAndAbove(t, i)
      BY <1>0, <2>1, <3>1, NotAboveParent, AboveFacts
    <3>3. p # None => selfAndAbove(t, p) \subseteq selfAndAbove(t, i) /\ p \in selfAndAbove(t, p)
      <4>1. parentOf(t, i) = p
        BY DEF parentOf
      <4>2. p # None => p \in Id
        BY <1>0 DEF Spot
      <4> QED
        BY <1>0, <4>1, <4>2, AboveByStep, AboveFacts
    <3> QED
      BY <1>3, <3>1, <3>2, <3>3
  <2>3. Forest(w)
    BY <1>0, <2>1, <2>2, PutForest
  <2>4. x = markExpressionDirty(y, c)
    BY <1>3 DEF removeAndPromote
  <2>5. IsStore(y) /\ y.tree = u /\ y.dirty = {}
    <3>1. [old EXCEPT !.kind = t[c].kind] = [kind |-> t[c].kind, parent |-> p, pos |-> old.pos]
      BY <1>0
    <3>2. y.tree = [j \in DOMAIN t \ {i} |->
                       IF j = c THEN [old EXCEPT !.kind = t[c].kind] ELSE t[j]]
      BY DEF Good, IsStore
    <3>3. u = [j \in DOMAIN t \ {i} |->
                  IF j = c THEN [kind |-> t[c].kind, parent |-> p, pos |-> old.pos] ELSE t[j]]
      BY <2>1 DEF put, Without
    <3> QED
      BY <1>0, <3>1, <3>2, <3>3 DEF Good, IsStore
  <2>6. /\ DOMAIN u = DOMAIN t \ {i}
        /\ u[c] = [kind |-> t[c].kind, parent |-> p, pos |-> old.pos]
        /\ \A j \in DOMAIN u \ {c} : u[j] = t[j] /\ t[j].parent # i
        /\ c \in DOMAIN u
    BY <2>1, <2>2 DEF put, Without, Children
  <2>7. Forest(u)
    <3>1. u \in [DOMAIN u -> [kind : Kind, parent : Spot, pos : PosMin..PosMax]]
      BY <2>3 DEF Without, Forest
    <3>2. DOMAIN u \subseteq DOMAIN w /\ \A j \in DOMAIN u : u[j].parent = w[j].parent
      BY DEF Without
    <3> QED
      BY <2>3, <3>1, <3>2, SameParentsForest
  <2> HIDE DEF w, u, y
  <2>8. \A q : /\ q # p => Children(u, q) \subseteq Children(t, q)
               /\ q \notin {p, i} => Children(u, q) = Children(t, q)
               /\ q = p => Children(u, q) = (Children(t, p) \ {i}) \cup {c}
    BY <2>1, <2>2, <2>6 DEF Children
  <2>9. i \in Children(t, p) /\ c \notin Children(t, p)
    BY <2>1, <2>2 DEF Children
  <2>10. Sound(L, u)
    <3>1. \A j \in DOMAIN u : u[j].parent # None =>
              u[j].parent \in DOMAIN u /\ u[u[j].parent].kind \in Container
      <4> SUFFICES ASSUME NEW j \in DOMAIN u, u[j].parent # None
                   PROVE  u[j].parent \in DOMAIN u /\ u[u[j].parent].kind \in Container
        OBVIOUS
      <4>1. \A q \in DOMAIN u : u[q].kind = t[q].kind
        BY <2>6
      <4>2. CASE j = c
        <5>1. p \in DOMAIN t /\ t[p].kind \in Container /\ p # i
          <6>1. p # None
            BY <2>6, <4>2
          <6>2. p \in DOMAIN t /\ t[p].kind \in Container
            BY <1>0, <6>1 DEF Sound
          <6>3. p # i
            BY <1>0, <6>1, NotAboveParent, AboveFacts
          <6> QED
            BY <6>2, <6>3
        <5> QED
          BY <2>6, <4>1, <4>2, <5>1
      <4>3. CASE j # c
        BY <1>0, <2>6, <4>1, <4>3 DEF Sound
      <4> QED
        BY <4>2, <4>3
    <3>2. \A j \in DOMAIN u : u[j].kind \in Rooted(L) => u[j].parent = None
      <4>1. \A j \in DOMAIN u : u[j].kind = t[j].kind
        BY <2>6
      <4>2. \A j \in DOMAIN u \ {c} : u[j] = t[j]
        BY <2>6
      <4>3. u[c].kind \in Rooted(L) => u[c].parent = None
        <5>1. u[c].kind = t[c].kind /\ u[c].parent = p
          BY <2>6
        <5>2. t[c].kind \in RootOnly => p = None
          BY <1>1, <2>1
        <5> QED
          BY <5>1, <5>2, RestrictedKinds
      <4>4. \A j \in DOMAIN t : t[j].kind \in Rooted(L) => t[j].parent = None
        BY <1>0 DEF Sound
      <4>5. DOMAIN u \subseteq DOMAIN t
        BY <2>6
      <4> HIDE DEF u
      <4> QED
        BY <4>1, <4>2, <4>3, <4>4, <4>5
    <3>3. \A q : AtMostOne(Children(t, q)) /\ (q # i) => AtMostOne(Children(u, q))
      BY <2>8, <2>9 DEF AtMostOne
    <3>4. \A q : AtMostTwo(Children(t, q)) /\ (q # i) => AtMostTwo(Children(u, q))
      BY <2>8, <2>9 DEF AtMostTwo
    <3>a. \A j \in DOMAIN u : j \in DOMAIN t /\ j # i /\ u[j].kind = t[j].kind
      BY <2>6
    <3>5. \A j \in DOMAIN u : u[j].kind \in Single(L) => AtMostOne(Children(u, j))
      <4>1. \A j \in DOMAIN t : t[j].kind \in Single(L) => AtMostOne(Children(t, j))
        BY <1>0 DEF Sound
      <4> HIDE DEF u
      <4> QED
        BY <3>3, <3>a, <4>1
    <3>6. \A j \in DOMAIN u : u[j].kind \in RootOnly => AtMostTwo(Children(u, j))
      <4>1. \A j \in DOMAIN t : t[j].kind \in RootOnly => AtMostTwo(Children(t, j))
        BY <1>0 DEF Sound
      <4> HIDE DEF u
      <4> QED
        BY <3>4, <3>a, <4>1
    <3>7. "second root" \in L \/ AtMostOne(Children(u, None))
      BY <1>0, <2>2, <3>3 DEF Sound
    <3> QED
      BY <2>7, <3>1, <3>2, <3>5, <3>6, <3>7 DEF Sound
  <2>11. Mid(y)
    BY <2>5, <2>7 DEF Mid, Closed
  <2>12. Mid(x) /\ x.tree = u /\ c \in x.dirty
    BY <2>1, <2>4, <2>5, <2>11, MarkStep
  <2>13. p \in x.dirty \cup {None}
    <3>1. parentOf(u, c) = p
      BY <2>6 DEF parentOf
    <3> QED
      BY <2>12, <3>1 DEF Mid, Closed
  <2>14. Changed(t, u) \subseteq {c, p} /\ None \notin DOMAIN u
    <3>1. None \notin DOMAIN u
      BY <2>7, NoneIsNoId DEF Forest
    <3>2. \A j \in DOMAIN u \ {c, p} : j \notin Changed(t, u)
      BY <2>6, <2>8 DEF Changed, kindOf
    <3> QED
      BY <3>1, <3>2 DEF Changed
  <2>15. Changed(t, u) \subseteq x.dirty
    BY <2>12, <2>13, <2>14 DEF Changed
  <2> QED
    BY <2>6, <2>10, <2>12, <2>15 DEF Ready
<1> QED
  BY <1>2, <1>3

LEMMA RemoveGood ==
    ASSUME NEW L, NEW m, Good(L, m), NEW i \in DOMAIN m.tree, NEW deleteSubtree \in BOOLEAN
    PROVE  \A y \in pe_removeExpression(m, i, deleteSubtree) : Good(L, y)
BY RemoveSubtreeReady, PromoteReady, FinalizedGood DEF pe_removeExpression

(***************************************************************************)
(* Inserting above existing expressions.                                   *)
(***************************************************************************)
LEMMA SameAbove ==
    ASSUME NEW t, Forest(t), NEW u, Forest(u), NEW q \in Id,
           \A x \in selfAndAbove(t, q) : parentOf(u, x) = parentOf(t, x)
    PROVE  selfAndAbove(u, q) \subseteq selfAndAbove(t, q)
<1>1. q \in selfAndAbove(t, q)
      /\ \A x \in selfAndAbove(t, q) : parentOf(u, x) \in selfAndAbove(t, q) \cup {None}
  BY AboveFacts
<1> QED
  BY <1>1, AboveFacts

\* The nodes S of the tree come under the new node e, which takes the place of
\* one of them; new nodes N may join them.
Inserted(t, u, e, k, S, a, N) ==
    /\ e \in Id \ DOMAIN t /\ S \subseteq DOMAIN t /\ a \in S
    /\ N \cap (DOMAIN t \cup {e}) = {}
    /\ DOMAIN u = DOMAIN t \cup {e} \cup N
    /\ \A j \in DOMAIN t \ S : u[j] = t[j]
    /\ \A j \in S : u[j].kind = t[j].kind /\ u[j].parent = e
    /\ \A j \in N : u[j].kind \notin RootOnly /\ u[j].parent = e
    /\ u[e].kind = k /\ u[e].parent = t[a].parent

LEMMA InsertedSound ==
    ASSUME NEW L, NEW t, Sound(L, t), NEW u, Forest(u), NEW e, NEW k \in Container, NEW S, NEW a, NEW N,
           Inserted(t, u, e, k, S, a, N),
           k \in RootOnly => t[a].parent = None,
           \A j \in S : t[j].kind \notin Rooted(L),
           AtMostTwo(S \cup N), k \in {"not", "formula"} => AtMostOne(S \cup N)
    PROVE  /\ Sound(L, u)
           /\ Changed(t, u) \subseteq ({e} \cup S \cup N \cup {t[j].parent : j \in S}) \ {None}
<1>0. /\ e \in Id \ DOMAIN t /\ S \subseteq DOMAIN t /\ a \in S /\ e # None
      /\ N \cap (DOMAIN t \cup {e}) = {} /\ DOMAIN u = DOMAIN t \cup {e} \cup N
      /\ \A j \in DOMAIN t : u[j].kind = t[j].kind
      /\ \A j \in DOMAIN t \ S : u[j] = t[j]
      /\ \A j \in S \cup N : u[j].parent = e
      /\ \A j \in N : u[j].kind \notin RootOnly
      /\ u[e].kind = k /\ u[e].parent = t[a].parent
  BY NoneIsNoId DEF Inserted
<1>a. \A j \in DOMAIN t : t[j].parent # None => t[j].parent \in DOMAIN t
  BY DEF Sound
<1>1. \A j \in DOMAIN t : t[j].parent # e
  BY <1>0, <1>a
<1>2. /\ t[a].parent # e /\ Children(u, e) = S \cup N
      /\ \A q : q # e => Children(u, q) = IF q = t[a].parent
                                          THEN (Children(t, q) \ S) \cup {e}
                                          ELSE Children(t, q) \ S
  BY <1>0, <1>1 DEF Children
<1>3. \A q \in N : Children(t, q) = {} /\ q # t[a].parent
  <2>1. t[a].parent \in DOMAIN t \cup {None} /\ None \notin N
    BY <1>0, <1>a, NoneIsNoId DEF Forest
  <2> QED
    BY <1>0, <1>a, <2>1 DEF Children
<1>4. \A q : q # e /\ AtMostOne(Children(t, q)) => AtMostOne(Children(u, q))
  <2> TAKE q
  <2> HAVE q # e /\ AtMostOne(Children(t, q))
  <2>1. CASE q = t[a].parent
    <3>1. a \in Children(t, q) /\ a \in S
      BY <1>0, <2>1 DEF Children
    <3>2. Children(u, q) = {e}
      BY <1>2, <2>1, <3>1 DEF AtMostOne
    <3> QED
      BY <3>2 DEF AtMostOne
  <2>2. CASE q # t[a].parent
    BY <1>2, <2>2 DEF AtMostOne
  <2> QED
    BY <2>1, <2>2
<1>5. \A q : q # e /\ AtMostTwo(Children(t, q)) => AtMostTwo(Children(u, q))
  <2> TAKE q
  <2> HAVE q # e /\ AtMostTwo(Children(t, q))
  <2>1. CASE q = t[a].parent
    <3>1. a \in Children(t, q) /\ a \in S
      BY <1>0, <2>1 DEF Children
    <3>2. AtMostOne(Children(t, q) \ S)
      BY <3>1 DEF AtMostOne, AtMostTwo
    <3>3. Children(u, q) = (Children(t, q) \ S) \cup {e}
      BY <1>2, <2>1
    <3> QED
      BY <3>2, <3>3 DEF AtMostOne, AtMostTwo
  <2>2. CASE q # t[a].parent
    BY <1>2, <2>2 DEF AtMostTwo
  <2> QED
    BY <2>1, <2>2
<1>6. Sound(L, u)
  <2>1. \A j \in DOMAIN u : u[j].parent # None =>
            u[j].parent \in DOMAIN u /\ u[u[j].parent].kind \in Container
    <3>1. ASSUME NEW j \in DOMAIN t, t[j].parent # None
          PROVE  t[j].parent \in DOMAIN u /\ u[t[j].parent].kind \in Container
      BY <1>0, <3>1 DEF Sound
    <3>2. e \in DOMAIN u /\ u[e].kind \in Container
      BY <1>0
    <3> QED
      BY <1>0, <3>1, <3>2
  <2>2. \A j \in DOMAIN u : u[j].kind \in Rooted(L) => u[j].parent = None
    <3>1. \A j \in DOMAIN t : t[j].kind \in Rooted(L) => t[j].parent = None
      BY DEF Sound
    <3>2. \A j \in N : u[j].kind \notin Rooted(L)
      BY <1>0, RestrictedKinds
    <3>3. u[e].kind \in Rooted(L) => u[e].parent = None
      BY <1>0, RestrictedKinds
    <3>4. \A j \in DOMAIN t : u[j].kind \in Rooted(L) => u[j].parent = None
      BY <1>0, <3>1
    <3> QED
      BY <1>0, <3>2, <3>3, <3>4
  <2>3. ASSUME NEW j \in DOMAIN u, u[j].kind \in Single(L)
        PROVE  AtMostOne(Children(u, j))
    <3>1. CASE j = e
      BY <1>0, <1>2, <2>3, <3>1, RestrictedKinds
    <3>2. CASE j \in N
      BY <1>0, <1>2, <1>3, <3>2 DEF AtMostOne
    <3>3. CASE j \in DOMAIN t
      BY <1>0, <1>4, <2>3, <3>3 DEF Sound
    <3> QED
      BY <1>0, <3>1, <3>2, <3>3
  <2>4. ASSUME NEW j \in DOMAIN u, u[j].kind \in RootOnly
        PROVE  AtMostTwo(Children(u, j))
    <3>1. CASE j = e
      BY <1>0, <1>2, <2>4, <3>1
    <3>2. CASE j \in N
      BY <1>0, <2>4, <3>2
    <3>3. CASE j \in DOMAIN t
      BY <1>0, <1>5, <2>4, <3>3 DEF Sound
    <3> QED
      BY <1>0, <3>1, <3>2, <3>3
  <2>5. "second root" \in L \/ AtMostOne(Children(u, None))
    BY <1>0, <1>4 DEF Sound
  <2> QED
    BY <2>1, <2>2, <2>3, <2>4, <2>5 DEF Sound
<1>7. ASSUME NEW j \in Changed(t, u)
      PROVE  j \in ({e} \cup S \cup N \cup {t[c].parent : c \in S}) \ {None}
  <2>1. j \in DOMAIN u /\ j # None
    BY NoneIsNoId DEF Changed, Forest
  <2> SUFFICES ASSUME j \in DOMAIN t, j \notin S, j # e, \A c \in S : t[c].parent # j
               PROVE  FALSE
    BY <1>0, <2>1
  <2>2. u[j] = t[j] /\ kindOf(t, j) = u[j].kind
    BY <1>0 DEF kindOf
  <2>3. Children(t, j) \cap S = {} /\ j # t[a].parent
    BY <1>0 DEF Children
  <2>4. Children(u, j) = Children(t, j)
    BY <1>2, <2>3
  <2> QED
    BY <2>2, <2>4 DEF Changed
<1> QED
  BY <1>6, <1>7

\* Nodes S of m already moved under e, which is not in the tree yet.
Under(m, S, e, x) ==
    /\ Mid(x) /\ DOMAIN x.tree = DOMAIN m.tree
    /\ \A j \in DOMAIN m.tree \ S : x.tree[j] = m.tree[j]
    /\ \A j \in S : x.tree[j].kind = m.tree[j].kind /\ x.tree[j].parent = e
    /\ \A j \in S : j \in x.dirty /\ m.tree[j].parent \in x.dirty \cup {None}
    /\ IF S = {} THEN x.dirty = {} ELSE e \in x.dirty

LEMMA UnderStart ==
    ASSUME NEW L, NEW m, Good(L, m), NEW e
    PROVE  Under(m, {}, e, m)
BY GoodIsMid DEF Good, Under

LEMMA UnderStep ==
    ASSUME NEW L, NEW m, Good(L, m), NEW e \in Id \ DOMAIN m.tree, NEW S, S \subseteq DOMAIN m.tree,
           NEW x, Under(m, S, e, x), NEW i \in DOMAIN m.tree \ S, NEW pos \in Range0
    PROVE  Under(m, S \cup {i}, e, reparent(x, i, e, pos))
<1> DEFINE y == reparent(x, i, e, pos)
<1>1. Mid(x) /\ i \in DOMAIN x.tree /\ e \in Spot /\ pos \in PosMin..PosMax /\ Forest(x.tree)
  BY DEF Under, Spot, Range0, Mid
<1>2. i \notin selfAndAbove(x.tree, e)
  <2>1. e \notin DOMAIN x.tree /\ i # e
    BY DEF Under
  <2>2. e \in {e} /\ \A z \in {e} : parentOf(x.tree, z) \in {e} \cup {None}
    BY <2>1 DEF parentOf
  <2>3. selfAndAbove(x.tree, e) \subseteq {e}
    BY <1>1, <2>2, AboveFacts
  <2> QED
    BY <2>1, <2>3
<1>3. i \notin x.dirty \/ e \in x.dirty \cup {None}
  BY DEF Under
<1>4. /\ Mid(y) /\ y.tree = put(x.tree, i, x.tree[i].kind, e, pos)
      /\ x.dirty \subseteq y.dirty /\ i \in y.dirty /\ e \in y.dirty \cup {None}
      /\ x.tree[i].parent \in y.dirty \cup {None}
  BY <1>1, <1>2, <1>3, ReparentStep
<1>5. x.tree[i] = m.tree[i] /\ e # None
  BY NoneIsNoId DEF Under
<1>6. /\ DOMAIN y.tree = DOMAIN x.tree
      /\ y.tree[i].kind = x.tree[i].kind /\ y.tree[i].parent = e
      /\ \A j \in DOMAIN x.tree \ {i} : y.tree[j] = x.tree[j]
  BY <1>1, <1>4 DEF put
<1> HIDE DEF y
<1> QED
  BY <1>4, <1>5, <1>6 DEF Under, y

\* Above what stayed, nothing moved.
LEMMA UnderAbove ==
    ASSUME NEW L, NEW m, Good(L, m), NEW e \in Id \ DOMAIN m.tree, NEW S, S \subseteq DOMAIN m.tree,
           NEW x, Under(m, S, e, x), NEW q \in DOMAIN m.tree,
           S \cap selfAndAbove(m.tree, q) = {}
    PROVE  selfAndAbove(x.tree, q) \subseteq DOMAIN m.tree
<1>1. Sound(L, m.tree) /\ Forest(m.tree) /\ Forest(x.tree) /\ q \in Id
  BY DEF Good, Sound, Under, Mid, Forest
<1>2. \A z \in selfAndAbove(m.tree, q) : parentOf(x.tree, z) = parentOf(m.tree, z)
  BY DEF Under, parentOf
<1> QED
  BY <1>1, <1>2, SameAbove, AboveAreNodes

LEMMA AboveTheirParent ==
    ASSUME NEW L, NEW t, Sound(L, t), NEW a \in DOMAIN t, t[a].parent # None
    PROVE  /\ t[a].parent \in DOMAIN t /\ a \notin selfAndAbove(t, t[a].parent)
           /\ selfAndAbove(t, t[a].parent) \subseteq selfAndAbove(t, a)
<1>1. parentOf(t, a) = t[a].parent /\ a \in Id /\ Forest(t) /\ t[a].parent \in DOMAIN t
  BY DEF Sound, Forest, parentOf
<1> QED
  BY <1>1, NotAboveParent, AboveByStep

LEMMA InsertGood ==
    ASSUME NEW L, NEW m, Good(L, m), NEW e \in Id \ DOMAIN m.tree, NEW k,
           NEW left \in DOMAIN m.tree \cup {None}, NEW right \in DOMAIN m.tree \cup {None}
    PROVE  \A x \in insertExpression(m, e, k, left, right) : Ready(L, m, x)
<1> SUFFICES ASSUME NEW x \in insertExpression(m, e, k, left, right) PROVE Ready(L, m, x)
  OBVIOUS
<1> DEFINE t == m.tree
           S == {left, right} \ {None}
           a == IF left # None THEN left ELSE right
           q == t[a].parent
           m1 == IF right = None THEN m
                 ELSE reparent(m, right, e, IF left = None THEN PosInitial ELSE SecondPosition)
           m2 == IF left = None THEN m1 ELSE reparent(m1, left, e, PosInitial)
           y == storeExpression(m2, e, k, q, t[a].pos)
           u == put(m2.tree, e, k, q, t[a].pos)
<1>0. Sound(L, t) /\ Forest(t)
  BY DEF Good, Sound
<1>1. /\ left # right /\ k \in Container
      /\ k \in {"not", "formula"} => None \in {left, right}
      /\ \A i \in S : t[i].kind \notin RootOnly
      /\ k \in RootOnly => q = None
      /\ None \in {left, right} \/ right \notin selfAndAbove(t, left)
  BY DEF insertExpression, validateInsertExpression, anchorOf
<1>2. x = markExpressionDirty(y, e)
  BY DEF insertExpression, anchorOf
<1>3. S \subseteq DOMAIN t /\ a \in S
  BY <1>1
<1>4. Under(m, S, e, m2)
  <2>1. Under(m, {right} \ {None}, e, m1)
    <3>1. CASE right = None
      <4>1. {right} \ {None} = {} /\ m1 = m
        BY <3>1
      <4> QED
        BY <4>1, UnderStart
    <3>2. CASE right # None
      <4>1. {right} \ {None} = {} \cup {right} /\ right \in DOMAIN t \ {}
        BY <3>2
      <4>2. Under(m, {} \cup {right}, e,
                  reparent(m, right, e, IF left = None THEN PosInitial ELSE SecondPosition))
        BY <4>1, UnderStart, UnderStep, RangeFacts
      <4> QED
        BY <3>2, <4>1, <4>2
    <3> QED
      BY <3>1, <3>2
  <2> HIDE DEF m1
  <2>2. CASE left = None
    <3>1. S = {right} \ {None} /\ m2 = m1
      BY <2>2
    <3> QED
      BY <2>1, <3>1
  <2>3. CASE left # None
    <3> DEFINE R == {right} \ {None}
    <3>1. S = R \cup {left} /\ m2 = reparent(m1, left, e, PosInitial) /\ left \in DOMAIN t \ R
          /\ R \subseteq DOMAIN t
      BY <1>1, <2>3
    <3> HIDE DEF R, S, m2
    <3>2. Under(m, R \cup {left}, e, reparent(m1, left, e, PosInitial))
      BY <2>1, <3>1, UnderStep, RangeFacts DEF R
    <3> QED
      BY <3>1, <3>2
  <2> QED
    BY <2>2, <2>3
<1> HIDE DEF m1, m2
<1>5. q # None => q \in DOMAIN t /\ S \cap selfAndAbove(t, q) = {}
  <2> SUFFICES ASSUME q # None PROVE q \in DOMAIN t /\ S \cap selfAndAbove(t, q) = {}
    OBVIOUS
  <2>1. q \in DOMAIN t /\ a \notin selfAndAbove(t, q) /\ selfAndAbove(t, q) \subseteq selfAndAbove(t, a)
    BY <1>0, <1>3, AboveTheirParent
  <2>2. \A b \in S : b = a \/ b \notin selfAndAbove(t, a)
    BY <1>1
  <2> QED
    BY <2>1, <2>2
<1>6. q = None \/ e \notin selfAndAbove(m2.tree, q)
  <2> HIDE DEF S, q
  <2> QED
    BY <1>3, <1>4, <1>5, UnderAbove
<1>7. q \in m2.dirty \cup {None} /\ q \in Spot /\ t[a].pos \in PosMin..PosMax /\ k \in Kind
  BY <1>0, <1>1, <1>3, <1>4, KindFacts DEF Under, Forest
<1>8. Mid(y) /\ y.tree = u /\ y.dirty = m2.dirty
  <2> HIDE DEF q, a, S
  <2> QED
    BY <1>4, <1>6, <1>7, StoreStep DEF Under, q, a
<1> HIDE DEF y
<1>9. Mid(x) /\ x.tree = u /\ e \in x.dirty /\ m2.dirty \subseteq x.dirty
  BY <1>2, <1>8, MarkStep
<1>10. Inserted(t, u, e, k, S, a, {})
  BY <1>3, <1>4 DEF Inserted, Under, put
<1>11. AtMostTwo(S \cup {}) /\ (k \in {"not", "formula"} => AtMostOne(S \cup {}))
  BY <1>1 DEF AtMostTwo, AtMostOne
<1>12. /\ Sound(L, u)
       /\ Changed(t, u) \subseteq ({e} \cup S \cup {} \cup {t[j].parent : j \in S}) \ {None}
  <2>1. Forest(u)
    BY <1>9 DEF Mid
  <2>2. (\A j \in S : t[j].kind \notin Rooted(L)) /\ (k \in RootOnly => t[a].parent = None)
        /\ k \in Container
    BY <1>1, RestrictedKinds
  <2> HIDE DEF u, S, a
  <2> QED
    BY <1>0, <1>10, <1>11, <2>1, <2>2, InsertedSound
<1>13. \A j \in S : j \in m2.dirty /\ t[j].parent \in m2.dirty \cup {None}
  BY <1>4 DEF Under
<1> HIDE DEF u, S
<1> QED
  BY <1>9, <1>12, <1>13 DEF Ready

LEMMA WrapReady ==
    ASSUME NEW L, NEW m, Good(L, m), NEW op \in Id \ DOMAIN m.tree, NEW sib \in Id \ DOMAIN m.tree, op # sib,
           NEW k, NEW sk \in Kind, NEW node \in DOMAIN m.tree, NEW side
    PROVE  \A x \in wrapExpression(m, op, k, sib, sk, node, side) : Ready(L, m, x)
<1> SUFFICES ASSUME NEW x \in wrapExpression(m, op, k, sib, sk, node, side) PROVE Ready(L, m, x)
  OBVIOUS
<1> DEFINE t == m.tree
           q == t[node].parent
           first(b) == IF b THEN PosInitial ELSE SecondPosition
           m1 == reparent(m, node, op, first(side = "left"))
           m2 == storeExpression(m1, sib, sk, op, first(side = "right"))
           m3 == storeExpression(m2, op, k, q, t[node].pos)
           m4 == markExpressionDirty(m3, sib)
           v == put(m1.tree, sib, sk, op, first(side = "right"))
           u == put(v, op, k, q, t[node].pos)
<1>0. Sound(L, t) /\ Forest(t)
  BY DEF Good, Sound
<1>1. /\ k \in Operator \ {"not"} /\ (k \in RootOnly => q = None)
      /\ t[node].kind \notin RootOnly /\ sk \notin RootOnly
  BY DEF wrapExpression, validateWrapExpression
<1>2. x = markExpressionDirty(m4, op)
  BY DEF wrapExpression
<1>3. Under(m, {node}, op, m1)
  <2>1. first(side = "left") \in Range0
    BY RangeFacts
  <2>2. {} \cup {node} = {node} /\ node \in DOMAIN t \ {}
    OBVIOUS
  <2> HIDE DEF first
  <2>3. Under(m, {} \cup {node}, op, m1)
    BY <2>1, <2>2, UnderStart, UnderStep
  <2> QED
    BY <2>2, <2>3
<1> HIDE DEF m1
<1>4. /\ Mid(m1) /\ Forest(m1.tree) /\ DOMAIN m1.tree = DOMAIN t /\ op \in m1.dirty
      /\ node \in m1.dirty /\ q \in m1.dirty \cup {None}
      /\ m1.tree[node].kind = t[node].kind /\ m1.tree[node].parent = op
      /\ \A j \in DOMAIN t \ {node} : m1.tree[j] = t[j]
  BY <1>3 DEF Under, Mid
<1>5. sib \notin selfAndAbove(m1.tree, op)
  <2>1. op \in {op} /\ \A z \in {op} : parentOf(m1.tree, z) \in {op} \cup {None}
    BY <1>4 DEF parentOf
  <2>a. Forest(m1.tree) /\ op \in Id
    BY <1>4
  <2>2. selfAndAbove(m1.tree, op) \subseteq {op}
    BY <2>1, <2>a, AboveFacts
  <2> QED
    BY <2>2
<1>6. Mid(m2) /\ m2.tree = v /\ m2.dirty = m1.dirty
  <2>1. first(side = "right") \in PosMin..PosMax /\ op \in Spot
    BY RangeFacts DEF Range0, Spot
  <2> HIDE DEF first
  <2> QED
    BY <1>4, <1>5, <2>1, StoreStep
<1> HIDE DEF m2
<1>7. q # None => q \in DOMAIN t /\ op \notin selfAndAbove(v, q)
  <2> SUFFICES ASSUME q # None PROVE q \in DOMAIN t /\ op \notin selfAndAbove(v, q)
    OBVIOUS
  <2>1. q \in DOMAIN t /\ node \notin selfAndAbove(t, q)
    BY <1>0, AboveTheirParent
  <2>2. {node} \cap selfAndAbove(t, q) = {} /\ {node} \subseteq DOMAIN t
    BY <2>1
  <2>3. selfAndAbove(m1.tree, q) \subseteq DOMAIN t
    <3> HIDE DEF q
    <3> QED
      BY <1>3, <2>1, <2>2, UnderAbove
  <2>4. \A z \in selfAndAbove(m1.tree, q) : parentOf(v, z) = parentOf(m1.tree, z)
    BY <1>4, <2>3 DEF put, parentOf
  <2>5. Forest(v) /\ q \in Id
    BY <1>0, <1>6, <2>1 DEF Mid, Forest
  <2> HIDE DEF v, q
  <2>6. selfAndAbove(v, q) \subseteq DOMAIN t
    BY <1>4, <2>3, <2>4, <2>5, SameAbove
  <2> QED
    BY <2>1, <2>6
<1>8. q \in Spot /\ t[node].pos \in PosMin..PosMax /\ k \in Kind /\ k \in Container
      /\ k \notin {"not", "formula"}
  BY <1>0, <1>1, KindFacts DEF Forest
<1>9. Mid(m3) /\ m3.tree = u /\ m3.dirty = m1.dirty
  <2> HIDE DEF q, v
  <2> QED
    BY <1>4, <1>6, <1>7, <1>8, StoreStep
<1> HIDE DEF m3
<1>10. Mid(m4) /\ m4.tree = u /\ sib \in m4.dirty /\ m1.dirty \subseteq m4.dirty
  BY <1>9, MarkStep
<1> HIDE DEF m4
<1>11. Mid(x) /\ x.tree = u /\ {op, sib} \cup m1.dirty \subseteq x.dirty
  BY <1>2, <1>10, MarkStep
<1>12. Inserted(t, u, op, k, {node}, node, {sib})
  <2>1. DOMAIN v = DOMAIN t \cup {sib} /\ v[sib].kind = sk /\ v[sib].parent = op
        /\ \A j \in DOMAIN t : v[j] = m1.tree[j]
    BY <1>4 DEF put
  <2>2. DOMAIN u = DOMAIN v \cup {op} /\ u[op].kind = k /\ u[op].parent = q
        /\ \A j \in DOMAIN v \ {op} : u[j] = v[j]
    BY DEF put
  <2> HIDE DEF u, v
  <2> QED
    BY <1>1, <1>4, <2>1, <2>2 DEF Inserted
<1>13. AtMostTwo({node} \cup {sib})
  BY DEF AtMostTwo
<1>14. /\ Sound(L, u)
       /\ Changed(t, u) \subseteq ({op} \cup {node} \cup {sib} \cup {t[j].parent : j \in {node}})
                                    \ {None}
  <2> DEFINE S == {node}
             N == {sib}
  <2>1. Forest(u) /\ \A j \in S : t[j].kind \notin Rooted(L)
    BY <1>1, <1>11, RestrictedKinds DEF Mid
  <2>2. Inserted(t, u, op, k, S, node, N) /\ AtMostTwo(S \cup N)
    BY <1>12, <1>13
  <2>3. (k \in RootOnly => t[node].parent = None) /\ k \in Container /\ k \notin {"not", "formula"}
    BY <1>1, <1>8
  <2> HIDE DEF u, S, N, t
  <2>4. /\ Sound(L, u)
        /\ Changed(t, u) \subseteq ({op} \cup S \cup N \cup {t[j].parent : j \in S}) \ {None}
    BY <1>0, <2>1, <2>2, <2>3, InsertedSound
  <2> QED
    BY <2>4 DEF S, N
<1>15. Changed(t, u) \subseteq x.dirty
  <2> HIDE DEF u
  <2> QED
    BY <1>4, <1>11, <1>14
<1> QED
  BY <1>11, <1>14, <1>15 DEF Ready

LEMMA WrapInFormulaReady ==
    ASSUME NEW L, NEW m, Good(L, m), NEW f \in Id \ DOMAIN m.tree, NEW child \in DOMAIN m.tree
    PROVE  \A x \in wrapInFormula(m, child, f) : Ready(L, m, x)
<1> SUFFICES ASSUME NEW x \in wrapInFormula(m, child, f) PROVE Ready(L, m, x)
  OBVIOUS
<1> DEFINE t == m.tree
           p == t[child].parent
           y == storeExpression(m, f, "formula", p, t[child].pos)
           v == put(t, f, "formula", p, t[child].pos)
           z == reparent(y, child, f, 0)
           u == put(v, child, t[child].kind, f, 0)
<1>0. Sound(L, t) /\ Forest(t) /\ Mid(m) /\ m.dirty = {}
  BY GoodIsMid DEF Good, Sound
<1>1. x = markExpressionDirty(z, f) /\ p # None
  BY DEF wrapInFormula
<1>2. p \in DOMAIN t /\ child \notin selfAndAbove(t, p) /\ p \in Spot /\ p \in Id
      /\ t[child].pos \in PosMin..PosMax
      /\ "formula" \in Kind /\ "formula" \in Container /\ "formula" \notin RootOnly
  BY <1>0, <1>1, AboveTheirParent, KindFacts DEF Forest, Spot
<1>3. Mid(y) /\ y.tree = v /\ y.dirty = {}
  <2>1. f \notin selfAndAbove(t, p)
    BY <1>0, <1>2, AboveAreNodes
  <2> HIDE DEF p
  <2> QED
    BY <1>0, <1>2, <2>1, StoreStep
<1> HIDE DEF y
<1>4. child \notin selfAndAbove(v, f)
  <2>1. Forest(v) /\ parentOf(v, f) = p
    BY <1>3 DEF Mid, put, parentOf
  <2>2. selfAndAbove(v, f) = {f} \cup selfAndAbove(v, p)
    BY <1>1, <2>1, AboveByStep
  <2>3. \A j \in selfAndAbove(t, p) : parentOf(v, j) = parentOf(t, j)
    <3>1. selfAndAbove(t, p) \subseteq DOMAIN t
      BY <1>0, <1>2, AboveAreNodes
    <3> QED
      BY <3>1 DEF put, parentOf
  <2>4. selfAndAbove(v, p) \subseteq selfAndAbove(t, p)
    <3> HIDE DEF v, p
    <3> QED
      BY <1>0, <1>2, <2>1, <2>3, SameAbove
  <2> QED
    BY <1>2, <2>2, <2>4
<1>5. /\ Mid(z) /\ z.tree = u /\ y.dirty \subseteq z.dirty
      /\ child \in z.dirty /\ p \in z.dirty \cup {None}
  <2>1. child \in DOMAIN y.tree /\ y.tree[child].kind = t[child].kind
        /\ y.tree[child].parent = p
    BY <1>3 DEF put
  <2>2. 0 \in PosMin..PosMax /\ f \in Spot
    BY PositionAssumption DEF Spot
  <2>3. child \notin selfAndAbove(y.tree, f) /\ child \notin y.dirty
    BY <1>3, <1>4
  <2> HIDE DEF p, v
  <2> QED
    BY <1>3, <2>1, <2>2, <2>3, ReparentStep
<1> HIDE DEF z
<1>6. Mid(x) /\ x.tree = u /\ f \in x.dirty /\ z.dirty \subseteq x.dirty
  BY <1>1, <1>5, MarkStep
<1>7. Inserted(t, u, f, "formula", {child}, child, {})
  BY DEF Inserted, put
<1>8. /\ Sound(L, u)
      /\ Changed(t, u) \subseteq ({f} \cup {child} \cup {} \cup {t[j].parent : j \in {child}})
                                   \ {None}
  <2> DEFINE S == {child}
             N == {}
  <2>1. Forest(u) /\ \A j \in S : t[j].kind \notin Rooted(L)
    BY <1>0, <1>1, <1>6 DEF Mid, Sound
  <2>2. AtMostTwo(S \cup N) /\ AtMostOne(S \cup N)
    BY DEF AtMostTwo, AtMostOne
  <2>3. Inserted(t, u, f, "formula", S, child, N)
    BY <1>7
  <2> HIDE DEF u, S, N, t
  <2>4. /\ Sound(L, u)
        /\ Changed(t, u) \subseteq ({f} \cup S \cup N \cup {t[j].parent : j \in S}) \ {None}
    BY <1>0, <1>2, <2>1, <2>2, <2>3, InsertedSound
  <2> QED
    BY <2>4 DEF S, N
<1> HIDE DEF u
<1> QED
  BY <1>5, <1>6, <1>8 DEF Ready

(***************************************************************************)
(* Moving.                                                                 *)
(***************************************************************************)
LEMMA RootAbove ==
    ASSUME NEW L, NEW t, Sound(L, t), "second root" \notin L,
           NEW p \in DOMAIN t, NEW i \in DOMAIN t, t[i].parent = None
    PROVE  i \in selfAndAbove(t, p)
<1> DEFINE P == selfAndAbove(t, p)
<1>1. P \subseteq DOMAIN t /\ p \in P /\ Forest(t) /\ p \in Id
      /\ \A x \in P : parentOf(t, x) # None => parentOf(t, x) \in P
  <2>1. Forest(t) /\ p \in Id
    BY DEF Sound, Forest
  <2> QED
    BY <2>1, AboveAreNodes, AboveFacts
<1> HIDE DEF P
<1>2. PICK x \in P : t[x].parent \notin P
  BY <1>1 DEF Forest, Founded
<1>3. x \in DOMAIN t /\ t[x].parent = None
  BY <1>1, <1>2 DEF parentOf
<1>4. x \in Children(t, None) /\ i \in Children(t, None)
  BY <1>3 DEF Children
<1>5. x = i
  BY <1>4 DEF Sound, AtMostOne
<1> QED
  BY <1>2, <1>5 DEF P

LEMMA ReparentReady ==
    ASSUME NEW L, NEW m, Good(L, m), NEW i \in DOMAIN m.tree, NEW p \in DOMAIN m.tree, NEW pos \in Range0,
           i \notin selfAndAbove(m.tree, p), m.tree[p].kind \in Container,
           m.tree[i].parent = p \/ ~childLimitReached(m.tree, p)
    PROVE  LET x == reparent(m, i, p, pos)
           IN  /\ Ready(L, m, x) /\ DOMAIN x.tree = DOMAIN m.tree
               /\ \A j \in DOMAIN m.tree \ {i} : x.tree[j] = m.tree[j]
<1> DEFINE t == m.tree
           x == reparent(m, i, p, pos)
           u == put(t, i, t[i].kind, p, pos)
<1>0. Mid(m) /\ Sound(L, t) /\ Forest(t) /\ m.dirty = {} /\ p \in Id /\ p \in Spot /\ p # None
      /\ pos \in PosMin..PosMax
  BY GoodIsMid, NoneIsNoId DEF Good, Sound, Forest, Spot, Range0
<1>1. /\ Mid(x) /\ x.tree = u /\ i \in x.dirty /\ p \in x.dirty
      /\ t[i].parent \in x.dirty \cup {None}
  BY <1>0, ReparentStep
<1>2. /\ DOMAIN u = DOMAIN t /\ u[i].kind = t[i].kind /\ u[i].parent = p
      /\ \A j \in DOMAIN t \ {i} : u[j] = t[j]
  BY DEF put
<1> HIDE DEF x, u
<1>3. t[i].kind \notin Rooted(L)
  <2>1. CASE "second root" \in L
    BY <2>1 DEF Rooted
  <2>2. CASE "second root" \notin L
    <3>1. t[i].parent # None
      BY <1>0, <2>2, RootAbove
    <3> QED
      BY <1>0, <3>1 DEF Sound
  <2> QED
    BY <2>1, <2>2
<1>4. \A q : Children(u, q) = IF q = p THEN Children(t, p) \cup {i} ELSE Children(t, q) \ {i}
  BY <1>2 DEF Children
<1>5. \/ Children(u, p) = Children(t, p)
      \/ Children(u, p) = Children(t, p) \cup {i} /\ ~childLimitReached(t, p)
  BY <1>4 DEF Children
<1>6. Children(t, p) \in SUBSET Id
  BY <1>0, ChildrenAreIds
<1>7. Sound(L, u)
  <2>1. \A j \in DOMAIN u : u[j].parent # None =>
            u[j].parent \in DOMAIN u /\ u[u[j].parent].kind \in Container
    <3>1. \A j \in DOMAIN u : u[j].kind = t[j].kind
      BY <1>2
    <3>2. \A j \in DOMAIN t : t[j].parent # None =>
            t[j].parent \in DOMAIN t /\ t[t[j].parent].kind \in Container
      BY <1>0 DEF Sound
    <3> QED
      BY <1>2, <3>1, <3>2
  <2>2. \A j \in DOMAIN u : u[j].kind \in Rooted(L) => u[j].parent = None
    <3>1. \A j \in DOMAIN t : t[j].kind \in Rooted(L) => t[j].parent = None
      BY <1>0 DEF Sound
    <3> QED
      BY <1>2, <1>3, <3>1
  <2>3. ASSUME NEW j \in DOMAIN u, u[j].kind \in Single(L)
        PROVE  AtMostOne(Children(u, j))
    <3>1. t[j].kind \in {"not", "formula"} /\ AtMostOne(Children(t, j))
      BY <1>0, <1>2, <2>3, RestrictedKinds DEF Sound
    <3>2. CASE j # p
      BY <1>4, <3>1, <3>2 DEF AtMostOne
    <3>3. CASE j = p /\ Children(u, p) = Children(t, p)
      BY <3>1, <3>3
    <3>4. CASE j = p /\ Children(u, p) = Children(t, p) \cup {i} /\ ~childLimitReached(t, p)
      <4>1. ~(Cardinality(Children(t, p)) >= 1)
        BY <3>1, <3>4 DEF childLimitReached
      <4>2. Children(t, p) = {}
        BY <1>6, <4>1, Counted
      <4> QED
        BY <3>4, <4>2 DEF AtMostOne
    <3> QED
      BY <1>5, <3>2, <3>3, <3>4
  <2>4. ASSUME NEW j \in DOMAIN u, u[j].kind \in RootOnly
        PROVE  AtMostTwo(Children(u, j))
    <3>1. t[j].kind \in RootOnly /\ AtMostTwo(Children(t, j))
      BY <1>0, <1>2, <2>4 DEF Sound
    <3>2. CASE j # p
      BY <1>4, <3>1, <3>2 DEF AtMostTwo
    <3>3. CASE j = p /\ Children(u, p) = Children(t, p)
      BY <3>1, <3>3
    <3>4. CASE j = p /\ Children(u, p) = Children(t, p) \cup {i} /\ ~childLimitReached(t, p)
      <4>1. ~(Cardinality(Children(t, p)) >= 2)
        BY <3>1, <3>4 DEF childLimitReached
      <4>2. Cardinality(Children(t, p)) <= 1
        BY <1>6, <4>1, Counted
      <4>3. AtMostOne(Children(t, p))
        BY <1>6, <4>2, Counted
      <4>4. AtMostTwo(Children(t, p) \cup {i})
        BY <4>3 DEF AtMostOne, AtMostTwo
      <4> QED
        BY <3>4, <4>4
    <3> QED
      BY <1>5, <3>2, <3>3, <3>4
  <2>5. "second root" \in L \/ AtMostOne(Children(u, None))
    <3>1. "second root" \in L \/ AtMostOne(Children(t, None))
      BY <1>0 DEF Sound
    <3>2. Children(u, None) = Children(t, None) \ {i}
      BY <1>0, <1>4
    <3> QED
      BY <3>1, <3>2 DEF AtMostOne
  <2>6. Forest(u)
    BY <1>1 DEF Mid
  <2> QED
    BY <2>1, <2>2, <2>3, <2>4, <2>5, <2>6 DEF Sound
<1>8. Changed(t, u) \subseteq x.dirty
  <2>1. Changed(t, u) \subseteq {i, p, t[i].parent}
    BY PutChanges DEF parentOf, u
  <2>2. None \notin DOMAIN u
    BY <1>7, NoneIsNoId DEF Sound, Forest
  <2> QED
    BY <1>1, <2>1, <2>2 DEF Changed
<1> QED
  BY <1>1, <1>2, <1>7, <1>8 DEF Ready, x

LEMMA ReparentGood ==
    ASSUME NEW L, NEW m, Good(L, m), NEW i \in DOMAIN m.tree, NEW p, NEW pos \in Range0
    PROVE  \A y \in pe_reparentExpression(m, i, p, pos) :
              /\ Good(L, y) /\ DOMAIN y.tree = DOMAIN m.tree
              /\ \A j \in DOMAIN m.tree \ {i} : y.tree[j] = m.tree[j]
<1> SUFFICES ASSUME NEW y \in pe_reparentExpression(m, i, p, pos)
             PROVE  /\ Good(L, y) /\ DOMAIN y.tree = DOMAIN m.tree
                    /\ \A j \in DOMAIN m.tree \ {i} : y.tree[j] = m.tree[j]
  OBVIOUS
<1> DEFINE x == reparent(m, i, p, pos)
<1>1. /\ kindOf(m.tree, p) \in Container /\ i \notin selfAndAbove(m.tree, p)
      /\ m.tree[i].parent = p \/ ~childLimitReached(m.tree, p)
      /\ y \in finalized(m, {x})
  BY DEF pe_reparentExpression
<1>2. p \in DOMAIN m.tree /\ m.tree[p].kind \in Container
  BY <1>1, KindFacts DEF kindOf
<1>3. /\ Ready(L, m, x) /\ DOMAIN x.tree = DOMAIN m.tree
      /\ \A j \in DOMAIN m.tree \ {i} : x.tree[j] = m.tree[j]
  BY <1>1, <1>2, ReparentReady
<1> HIDE DEF x
<1>4. Good(L, y)
  <2>1. \A z \in {x} : Ready(L, m, z)
    BY <1>3
  <2> QED
    BY <1>1, <2>1, FinalizedGood
<1>5. y.tree = x.tree
  <2>1. y = flushExpressionChecksums(m, x)
    BY <1>1 DEF finalized
  <2> QED
    BY <1>3, <2>1, FlushSettles DEF Ready, Mid, Good
<1> QED
  BY <1>3, <1>4, <1>5

LEMMA ToggleGood ==
    ASSUME NEW L, NEW m, Good(L, m), NEW i \in DOMAIN m.tree, NEW e \in Id \ DOMAIN m.tree
    PROVE  \A y \in pe_toggleNegation(m, i, e) : Good(L, y)
<1> DEFINE n == notAbove(m.tree, i)
<1>1. n # None => n \in DOMAIN m.tree
  BY DEF notAbove, kindOf
<1>2. CASE n # None
  <2>1. \A x \in removeAndPromote(m, n) : Ready(L, m, x)
    BY <1>1, <1>2, PromoteReady
  <2> QED
    BY <1>2, <2>1, FinalizedGood DEF pe_toggleNegation
<1>3. CASE n = None
  <2>1. \A x \in insertExpression(m, e, "not", i, None) : Ready(L, m, x)
    BY InsertGood
  <2> QED
    BY <1>3, <2>1, FinalizedGood DEF pe_toggleNegation
<1> QED
  BY <1>2, <1>3

(***************************************************************************)
(* changeOperator.                                                         *)
(***************************************************************************)
LEMMA MergeReady ==
    ASSUME NEW L, NEW m, Good(L, m), NEW i \in DOMAIN m.tree, NEW k \in Operator, NEW target,
           target = mergeTarget(m.tree, i, k), target # None
    PROVE  Ready(L, m, mergeDissolvingOperator(m, i, target))
<1> DEFINE t == m.tree
           p == t[i].parent
           C == Children(t, i)
           c == onlyChild(t, i)
           slot == IF p = target THEN t[i].pos ELSE t[p].pos
           m1 == IF c = None THEN m ELSE reparent(m, c, target, slot)
           m2 == deleteExpression(m1, i)
           x == mergeDissolvingOperator(m, i, target)
           G == IF p = target THEN {i} ELSE {i, p}
<1>0. Mid(m) /\ Sound(L, t) /\ Forest(t) /\ m.dirty = {} /\ i \in Id
  BY GoodIsMid DEF Good, Sound, Forest
<1>a. /\ ~(Cardinality(C) >= 2)
      /\ \/ target = p /\ kindOf(t, p) = k
         \/ target = parentOf(t, p) /\ kindOf(t, p) = "formula" /\ kindOf(t, target) = k
  BY DEF mergeTarget, parentOf
<1>1. /\ AtMostOne(C) /\ target \in DOMAIN t /\ t[target].kind = k /\ p \in DOMAIN t /\ p # None
      /\ p # target => t[p].parent = target /\ t[p].kind = "formula"
  <2>1. AtMostOne(C)
    BY <1>0, <1>a, ChildrenAreIds, Counted
  <2>2. k # "none" /\ "formula" # "none"
    BY KindFacts
  <2>3. target \in DOMAIN t /\ t[target].kind = k /\ p \in DOMAIN t
        /\ (p # target => t[p].parent = target /\ t[p].kind = "formula")
    BY <1>a, <2>2 DEF kindOf, parentOf
  <2> QED
    BY <1>0, <2>1, <2>3, NoneIsNoId DEF Forest
<1>2. /\ i \notin selfAndAbove(t, p) /\ selfAndAbove(t, p) \subseteq selfAndAbove(t, i)
      /\ target \in selfAndAbove(t, p) /\ p \in selfAndAbove(t, p)
      /\ selfAndAbove(t, target) \subseteq selfAndAbove(t, p)
      /\ p \in Id /\ target \in Id
  <2>1. p \in Id /\ target \in Id
    BY <1>0, <1>1 DEF Forest
  <2>2. i \notin selfAndAbove(t, p) /\ selfAndAbove(t, p) \subseteq selfAndAbove(t, i)
    BY <1>0, <1>1, AboveTheirParent
  <2>3. p \in selfAndAbove(t, p)
    BY <1>0, <2>1, AboveFacts
  <2>4. p # target => parentOf(t, p) = target /\ target # None
    BY <1>1 DEF parentOf
  <2>5. target \in selfAndAbove(t, p)
    BY <1>0, <2>1, <2>3, <2>4, AboveFacts
  <2>6. selfAndAbove(t, target) \subseteq selfAndAbove(t, p)
    BY <1>0, <2>1, <2>5, AboveOfAbove
  <2> QED
    BY <2>1, <2>2, <2>3, <2>5, <2>6
<1>3. i # p /\ i # target
  BY <1>2
<1>4. \A d \in C : /\ d \in DOMAIN t /\ t[d].parent = i /\ d \notin selfAndAbove(t, i)
                   /\ d # i /\ d # p /\ d # target /\ d \notin selfAndAbove(t, target)
  <2> TAKE d \in C
  <2>1. d \in DOMAIN t /\ t[d].parent = i /\ t[d].parent # None
    BY <1>0, NoneIsNoId DEF Children
  <2>2. d \notin selfAndAbove(t, i)
    BY <1>0, <2>1, AboveTheirParent
  <2>3. i \in selfAndAbove(t, i)
    BY <1>0, AboveFacts
  <2> QED
    BY <1>2, <2>1, <2>2, <2>3
<1>5. /\ Mid(m1) /\ DOMAIN m1.tree = DOMAIN t
      /\ \A j \in DOMAIN t \ C : m1.tree[j] = t[j]
      /\ \A j \in C : /\ m1.tree[j].kind = t[j].kind /\ m1.tree[j].parent = target
                      /\ {j, target} \subseteq m1.dirty
  <2>1. CASE c = None
    <3>1. C = {} /\ m1 = m
      BY <1>0, <1>1, <2>1, OnlyChildIs
    <3> HIDE DEF m1, C
    <3> QED
      BY <1>0, <3>1
  <2>2. CASE c # None
    <3>1. C = {c} /\ m1 = reparent(m, c, target, slot)
      BY <1>0, <2>2, OnlyChildIs
    <3>2. c \in DOMAIN t /\ c \notin selfAndAbove(t, target) /\ target \in Spot
          /\ slot \in PosMin..PosMax /\ target # None
      BY <1>0, <1>1, <1>2, <1>4, <3>1 DEF Forest, Spot
    <3> HIDE DEF m1, C, c, slot
    <3>3. /\ Mid(m1) /\ m1.tree = put(t, c, t[c].kind, target, slot)
          /\ c \in m1.dirty /\ target \in m1.dirty
      BY <1>0, <3>1, <3>2, ReparentStep
    <3> QED
      BY <3>1, <3>2, <3>3 DEF put
  <2> QED
    BY <2>1, <2>2
<1> HIDE DEF m1
<1>6. /\ Mid(m2) /\ m2.tree = [j \in DOMAIN t \ {i} |-> m1.tree[j]]
      /\ m1.dirty \ {i} \subseteq m2.dirty /\ p \in m2.dirty
  <2>1. Children(m1.tree, i) = {} /\ i \in DOMAIN m1.tree /\ m1.tree[i] = t[i]
    BY <1>3, <1>4, <1>5 DEF Children
  <2> QED
    BY <1>1, <1>5, <2>1, DeleteStep
<1> HIDE DEF m2
<1>7. /\ Mid(x) /\ DOMAIN x.tree = DOMAIN t \ G /\ \A j \in DOMAIN x.tree : x.tree[j] = m1.tree[j]
      /\ m1.dirty \ G \subseteq x.dirty /\ target \in x.dirty
  <2>1. CASE p = target
    <3>1. x = m2
      BY <2>1 DEF mergeDissolvingOperator, m1, m2
    <3> HIDE DEF x
    <3> QED
      BY <1>6, <2>1, <3>1
  <2>2. CASE p # target
    <3>1. x = deleteExpression(m2, p)
      BY <2>2 DEF mergeDissolvingOperator, m1, m2
    <3>2. Children(m2.tree, p) = {}
      <4> SUFFICES ASSUME NEW j \in Children(m2.tree, p) PROVE FALSE
        OBVIOUS
      <4>1. j \in DOMAIN t /\ j # i /\ m1.tree[j].parent = p
        BY <1>6 DEF Children
      <4>2. j \notin C
        BY <1>5, <2>2, <4>1
      <4>3. j \in Children(t, p) /\ i \in Children(t, p)
        BY <1>5, <4>1, <4>2 DEF Children
      <4>4. AtMostOne(Children(t, p))
        <5>1. \A e \in DOMAIN t : t[e].kind \in Single(L) => AtMostOne(Children(t, e))
          BY <1>0 DEF Sound
        <5> HIDE DEF t
        <5> QED
          BY <1>1, <2>2, <5>1, RestrictedKinds
      <4> QED
        BY <4>1, <4>3, <4>4 DEF AtMostOne
    <3>3. p \in DOMAIN m2.tree /\ m2.tree[p].parent = target
      BY <1>1, <1>3, <1>4, <1>5, <1>6, <2>2
    <3> HIDE DEF x
    <3>4. /\ Mid(x) /\ x.tree = [j \in DOMAIN m2.tree \ {p} |-> m2.tree[j]]
          /\ m2.dirty \ {p} \subseteq x.dirty /\ m2.tree[p].parent \in x.dirty \cup {None}
      <4>1. Mid(m2)
        BY <1>6
      <4> HIDE DEF p
      <4> QED
        BY <3>1, <3>2, <3>3, <4>1, DeleteStep
    <3> QED
      BY <1>1, <1>2, <1>6, <2>2, <3>3, <3>4, NoneIsNoId
  <2> QED
    BY <2>1, <2>2
<1> DEFINE u == x.tree
<1> HIDE DEF x, G
<1>g. /\ i \in G /\ target \notin G /\ C \cap G = {} /\ G \subseteq {i, p}
      /\ G \cap Children(t, target) # {}
      /\ \A q \in DOMAIN t \ (G \cup {target}) : G \cap Children(t, q) = {}
  BY <1>1, <1>3, <1>4 DEF G, Children
<1>8. /\ \A j \in DOMAIN u : u[j].kind = t[j].kind
      /\ \A j \in C : j \in DOMAIN u /\ u[j].parent = target
      /\ \A j \in DOMAIN u \ C : u[j] = t[j]
      /\ target \in DOMAIN u /\ DOMAIN u \subseteq DOMAIN t
  BY <1>1, <1>4, <1>5, <1>7, <1>g
<1>9. /\ Children(u, target) = (Children(t, target) \ G) \cup C
      /\ \A q \in DOMAIN u \ {target} : Children(u, q) = Children(t, q)
      /\ Children(u, None) = Children(t, None) \ G
  BY <1>0, <1>3, <1>4, <1>7, <1>8, <1>g, NoneIsNoId DEF Children, Forest
<1>10. /\ AtMostOne(Children(t, target)) => AtMostOne(Children(u, target))
       /\ AtMostTwo(Children(t, target)) => AtMostTwo(Children(u, target))
  <2>1. PICK d \in Children(t, target) : d \in G
    BY <1>g
  <2>2. AtMostOne(Children(t, target)) => Children(t, target) \ G = {}
    BY <2>1 DEF AtMostOne
  <2>3. AtMostTwo(Children(t, target)) => AtMostOne(Children(t, target) \ G)
    BY <2>1 DEF AtMostOne, AtMostTwo
  <2> QED
    BY <1>1, <1>9, <2>2, <2>3 DEF AtMostOne, AtMostTwo
<1>11. Sound(L, u)
  <2>1. \A j \in DOMAIN u : u[j].parent # None =>
            u[j].parent \in DOMAIN u /\ u[u[j].parent].kind \in Container
    <3> SUFFICES ASSUME NEW j \in DOMAIN u, u[j].parent # None
                 PROVE  u[j].parent \in DOMAIN u /\ u[u[j].parent].kind \in Container
      OBVIOUS
    <3>1. CASE j \in C
      BY <1>1, <1>8, <3>1, KindFacts
    <3>2. CASE j \notin C
      <4>1. u[j] = t[j] /\ t[j].parent \in DOMAIN t /\ t[t[j].parent].kind \in Container
        BY <1>0, <1>8, <3>2 DEF Sound
      <4>2. t[j].parent \notin G
        <5> SUFFICES ASSUME t[j].parent \in G PROVE FALSE
          OBVIOUS
        <5>1. CASE t[j].parent = i
          BY <1>8, <3>2, <5>1 DEF Children
        <5>2. CASE t[j].parent # i
          <6>1. t[j].parent = p /\ p # target /\ p \in G
            BY <1>g, <5>2
          <6>2. j \in Children(t, p) /\ i \in Children(t, p) /\ AtMostOne(Children(t, p))
            <7>1. \A e \in DOMAIN t : t[e].kind \in Single(L) => AtMostOne(Children(t, e))
              BY <1>0 DEF Sound
            <7>2. AtMostOne(Children(t, p))
              BY <1>1, <6>1, <7>1, RestrictedKinds
            <7> QED
              BY <1>0, <1>8, <6>1, <7>2 DEF Children
          <6>3. j = i
            BY <6>2 DEF AtMostOne
          <6> QED
            BY <1>7, <1>g, <6>3
        <5> QED
          BY <5>1, <5>2
      <4> QED
        BY <1>7, <1>8, <4>1, <4>2
    <3> QED
      BY <3>1, <3>2
  <2>2. \A j \in DOMAIN u : u[j].kind \in Rooted(L) => u[j].parent = None
    <3>1. \A j \in C : t[j].kind \notin Rooted(L)
      BY <1>0, <1>4, NoneIsNoId DEF Sound
    <3> QED
      BY <1>0, <1>8, <3>1 DEF Sound
  <2>3. \A j \in DOMAIN u : u[j].kind \in Single(L) => AtMostOne(Children(u, j))
    BY <1>0, <1>8, <1>9, <1>10 DEF Sound
  <2>4. \A j \in DOMAIN u : u[j].kind \in RootOnly => AtMostTwo(Children(u, j))
    BY <1>0, <1>8, <1>9, <1>10 DEF Sound
  <2>5. "second root" \in L \/ AtMostOne(Children(u, None))
    BY <1>0, <1>9 DEF Sound, AtMostOne
  <2>6. Forest(u)
    BY <1>7 DEF Mid
  <2> QED
    BY <2>1, <2>2, <2>3, <2>4, <2>5, <2>6 DEF Sound
<1>12. Changed(t, u) \subseteq x.dirty
  <2> SUFFICES ASSUME NEW j \in Changed(t, u), j # target PROVE j \in x.dirty
    BY <1>7
  <2>1. j \in C
    BY <1>8, <1>9 DEF Changed, kindOf
  <2> QED
    BY <1>5, <1>7, <1>g, <2>1
<1> QED
  BY <1>7, <1>11, <1>12 DEF Ready, x

LEMMA SplitReady ==
    ASSUME NEW L, NEW m, Good(L, m), NEW i \in DOMAIN m.tree, m.tree[i].kind \in Variadic,
           NEW k \in Operator, NEW a \in Children(m.tree, i), NEW b \in Children(m.tree, i),
           splitAllowed(L, k, a, b),
           NEW f \in Id \ DOMAIN m.tree, NEW op \in Id \ DOMAIN m.tree, f # op
    PROVE  \A x \in splitOperatorChildren(m, i, k, a, b, f, op) : Ready(L, m, x)
<1> SUFFICES ASSUME NEW x \in splitOperatorChildren(m, i, k, a, b, f, op) PROVE Ready(L, m, x)
  OBVIOUS
<1> DEFINE t == m.tree
           one == IF t[a].pos <= t[b].pos THEN a ELSE b
           two == IF one = a THEN b ELSE a
           m1 == reparent(m, one, None, t[one].pos)
           m2 == reparent(m1, two, None, t[two].pos)
           A == selfAndAbove(t, i)
           same(v) == \A z \in A : parentOf(v, z) = parentOf(t, z)
           others(v) == \A j \in DOMAIN t \ {one, two} : v[j] = t[j]
           kinds(v) == \A j \in {one, two} : v[j].kind = t[j].kind
<1>0. Mid(m) /\ Sound(L, t) /\ Forest(t) /\ m.dirty = {} /\ i \in Id /\ i # None /\ i \in Spot
  BY GoodIsMid, NoneIsNoId DEF Good, Sound, Forest, Spot
<1>1. /\ A \subseteq DOMAIN t /\ i \in A
      /\ \A d \in Children(t, i) : d \in DOMAIN t /\ t[d].parent = i /\ d \notin A
                                    /\ t[d].pos \in Range0 /\ t[d].kind \in Kind
  <2>1. A \subseteq DOMAIN t /\ i \in A
    BY <1>0, AboveAreNodes, AboveFacts
  <2> QED
    BY <1>0, <2>1, NotAboveParent DEF Children, Forest, Range0
<1>2. one \in Children(t, i) /\ two \in Children(t, i) /\ {one, two} = {a, b}
  OBVIOUS
<1>3. PICK y \in addExpression(m2, f, "formula", i, t[one].pos) :
      \E z \in addExpression(y, op, k, f, PosInitial) :
          x = reparent(reparent(z, one, op, PosInitial), two, op, SecondPosition)
  BY DEF splitOperatorChildren
<1>4. PICK z \in addExpression(y, op, k, f, PosInitial) :
          x = reparent(reparent(z, one, op, PosInitial), two, op, SecondPosition)
  BY <1>3
<1> HIDE DEF one, two
<1>5. /\ one \in DOMAIN t /\ two \in DOMAIN t /\ one \notin A /\ two \notin A
      /\ t[one].parent = i /\ t[two].parent = i
      /\ t[one].pos \in PosMin..PosMax /\ t[two].pos \in PosMin..PosMax
      /\ None \in Spot /\ one # i /\ two # i
  BY <1>1, <1>2 DEF Range0, Spot
<1>6. /\ Mid(m1) /\ m1.tree = put(t, one, t[one].kind, None, t[one].pos) /\ {one, i} \subseteq m1.dirty
  BY <1>0, <1>5, ReparentStep
<1> HIDE DEF m1
<1>7. /\ Mid(m2) /\ m2.tree = put(m1.tree, two, m1.tree[two].kind, None, t[two].pos)
      /\ {one, two, i} \subseteq m2.dirty
  <2>1. two \in DOMAIN m1.tree
    BY <1>5, <1>6 DEF put
  <2> QED
    BY <1>5, <1>6, <2>1, ReparentStep
<1> HIDE DEF m2
<1>8. /\ DOMAIN m2.tree = DOMAIN t /\ others(m2.tree) /\ kinds(m2.tree)
      /\ \A j \in {one, two} : m2.tree[j].parent = None
  <2>1. /\ DOMAIN m1.tree = DOMAIN t /\ \A j \in DOMAIN t \ {one} : m1.tree[j] = t[j]
        /\ m1.tree[one].kind = t[one].kind /\ m1.tree[one].parent = None
    BY <1>5, <1>6 DEF put
  <2>2. /\ DOMAIN m2.tree = DOMAIN m1.tree
        /\ \A j \in DOMAIN m1.tree \ {two} : m2.tree[j] = m1.tree[j]
        /\ m2.tree[two].kind = m1.tree[two].kind /\ m2.tree[two].parent = None
    BY <1>5, <1>7, <2>1 DEF put
  <2> HIDE DEF t
  <2>3. DOMAIN m2.tree = DOMAIN t /\ others(m2.tree)
    BY <2>1, <2>2
  <2>4. kinds(m2.tree)
    BY <1>5, <2>1, <2>2
  <2>5. m2.tree[one].parent = None /\ m2.tree[two].parent = None
    BY <1>5, <2>1, <2>2
  <2> QED
    BY <2>3, <2>4, <2>5
<1>9. same(m2.tree)
  BY <1>1, <1>5, <1>8 DEF parentOf
<1>10. selfAndAbove(m2.tree, i) \subseteq A
  BY <1>0, <1>7, <1>9, SameAbove DEF Mid
<1> DEFINE y0 == storeExpression(m2, f, "formula", i, t[one].pos)
<1>11. Mid(y0) /\ y0.tree = put(m2.tree, f, "formula", i, t[one].pos) /\ y0.dirty = m2.dirty
  <2>1. "formula" \in Kind /\ f \notin selfAndAbove(m2.tree, i)
    BY <1>1, <1>10, KindFacts
  <2> QED
    BY <1>0, <1>5, <1>7, <2>1, StoreStep
<1>12. y = markExpressionDirty(y0, f)
  BY <1>3 DEF addExpression
<1> HIDE DEF y0
<1>13. /\ Mid(y) /\ y.tree = put(m2.tree, f, "formula", i, t[one].pos)
       /\ {one, two, i, f} \subseteq y.dirty
  <2>1. Mid(y) /\ y.tree = y0.tree /\ f \in y.dirty /\ y0.dirty \subseteq y.dirty
    BY <1>11, <1>12, MarkStep
  <2> QED
    BY <1>7, <1>11, <2>1
<1>14. /\ DOMAIN y.tree = DOMAIN t \cup {f} /\ others(y.tree) /\ kinds(y.tree) /\ same(y.tree)
       /\ y.tree[f].kind = "formula" /\ y.tree[f].parent = i
  <2>1. /\ DOMAIN y.tree = DOMAIN t \cup {f} /\ others(y.tree) /\ kinds(y.tree)
        /\ y.tree[f].kind = "formula" /\ y.tree[f].parent = i
    BY <1>5, <1>8, <1>13 DEF put
  <2>2. same(y.tree)
    BY <1>1, <1>5, <2>1 DEF parentOf
  <2> QED
    BY <2>1, <2>2
<1>15. ASSUME NEW v, Forest(v), same(v), parentOf(v, f) = i
       PROVE  selfAndAbove(v, f) \subseteq {f} \cup A
  <2>1. \A e \in {f} \cup A : parentOf(v, e) \in {f} \cup A \cup {None}
    BY <1>0, <1>1, <1>15, AboveFacts
  <2>2. f \in Id /\ f \in {f} \cup A
    OBVIOUS
  <2> HIDE DEF A
  <2> QED
    BY <1>15, <2>1, <2>2, AboveFacts
<1>16. ASSUME NEW v, Forest(v), same(v), parentOf(v, f) = i, parentOf(v, op) = f
       PROVE  selfAndAbove(v, op) \subseteq {op, f} \cup A
  <2> DEFINE B == {op, f} \cup A
  <2>1. \A e \in B : parentOf(v, e) \in B \cup {None}
    BY <1>0, <1>1, <1>16, AboveFacts
  <2>2. op \in Id /\ op \in B
    OBVIOUS
  <2> HIDE DEF B
  <2>3. selfAndAbove(v, op) \subseteq B
    BY <1>16, <2>1, <2>2, AboveFacts
  <2> QED
    BY <2>3 DEF B
<1> DEFINE z0 == storeExpression(y, op, k, f, PosInitial)
<1>17. /\ z = markExpressionDirty(z0, op) /\ k \notin RootOnly /\ k \in Kind
       /\ k \in Container /\ k # "formula" /\ f # None /\ f \in Spot
       /\ PosInitial \in PosMin..PosMax /\ SecondPosition \in PosMin..PosMax
  BY <1>4, NoneIsNoId, KindFacts, RangeFacts DEF addExpression, Spot, Range0
<1>18. Mid(z0) /\ z0.tree = put(y.tree, op, k, f, PosInitial) /\ z0.dirty = y.dirty
  <2>1. parentOf(y.tree, f) = i /\ Forest(y.tree)
    BY <1>13, <1>14 DEF parentOf, Mid
  <2>2. op \notin selfAndAbove(y.tree, f)
    BY <1>1, <1>14, <1>15, <2>1
  <2> QED
    BY <1>13, <1>17, <2>2, StoreStep
<1> HIDE DEF z0
<1>19. /\ Mid(z) /\ z.tree = put(y.tree, op, k, f, PosInitial)
       /\ {one, two, i, f, op} \subseteq z.dirty
  <2>1. Mid(z) /\ z.tree = z0.tree /\ op \in z.dirty /\ z0.dirty \subseteq z.dirty
    BY <1>17, <1>18, MarkStep
  <2> QED
    BY <1>13, <1>18, <2>1
<1> DEFINE extended(v) == /\ DOMAIN v = DOMAIN t \cup {f, op} /\ others(v) /\ kinds(v) /\ same(v)
                          /\ v[f].kind = "formula" /\ v[f].parent = i
                          /\ v[op].kind = k /\ v[op].parent = f
<1>20. extended(z.tree)
  <2>1. /\ DOMAIN z.tree = DOMAIN t \cup {f, op} /\ others(z.tree) /\ kinds(z.tree)
        /\ z.tree[f].kind = "formula" /\ z.tree[f].parent = i
        /\ z.tree[op].kind = k /\ z.tree[op].parent = f
    BY <1>5, <1>14, <1>19 DEF put
  <2>2. same(z.tree)
    BY <1>1, <1>5, <2>1 DEF parentOf
  <2> QED
    BY <2>1, <2>2
<1>21. ASSUME NEW r, Mid(r), extended(r.tree), {one, two, i, f, op} \subseteq r.dirty,
              NEW d \in {one, two}, NEW pos \in PosMin..PosMax
       PROVE  LET s == reparent(r, d, op, pos)
              IN  /\ Mid(s) /\ extended(s.tree) /\ {one, two, i, f, op} \subseteq s.dirty
                  /\ s.tree[d].parent = op
                  /\ \A j \in {one, two} \ {d} : s.tree[j] = r.tree[j]
  <2> DEFINE s == reparent(r, d, op, pos)
  <2>1. parentOf(r.tree, f) = i /\ parentOf(r.tree, op) = f /\ Forest(r.tree)
    BY <1>21 DEF parentOf, Mid
  <2>2. d \notin selfAndAbove(r.tree, op)
    <3>1. same(r.tree)
      BY <1>21
    <3>2. selfAndAbove(r.tree, op) \subseteq {op, f} \cup A
      BY <1>16, <2>1, <3>1
    <3> QED
      BY <1>5, <3>2
  <2>3. op \in Spot /\ d \in DOMAIN r.tree /\ d \notin {f, op} /\ d \in DOMAIN t
    BY <1>5, <1>21 DEF Spot
  <2>4. Mid(s) /\ s.tree = put(r.tree, d, r.tree[d].kind, op, pos) /\ r.dirty \subseteq s.dirty
    BY <1>21, <2>2, <2>3, ReparentStep
  <2> HIDE DEF s
  <2>5. /\ DOMAIN s.tree = DOMAIN t \cup {f, op} /\ others(s.tree) /\ kinds(s.tree)
        /\ s.tree[f].kind = "formula" /\ s.tree[f].parent = i
        /\ s.tree[op].kind = k /\ s.tree[op].parent = f
        /\ s.tree[d].parent = op /\ \A j \in {one, two} \ {d} : s.tree[j] = r.tree[j]
    BY <1>5, <1>21, <2>3, <2>4 DEF put
  <2>6. same(s.tree)
    BY <1>1, <1>5, <2>5 DEF parentOf
  <2> QED
    BY <1>21, <2>4, <2>5, <2>6 DEF s
<1> DEFINE w == reparent(z, one, op, PosInitial)
<1> HIDE DEF same, others, kinds, extended
<1>22. /\ Mid(w) /\ extended(w.tree) /\ {one, two, i, f, op} \subseteq w.dirty
       /\ w.tree[one].parent = op
  <2>1. one \in {one, two} /\ PosInitial \in PosMin..PosMax
    BY <1>17
  <2> QED
    BY <1>19, <1>20, <1>21, <2>1
<1>23. x = reparent(w, two, op, SecondPosition)
  BY <1>4
<1> HIDE DEF w
<1>24. /\ Mid(x) /\ extended(x.tree) /\ {one, two, i, f, op} \subseteq x.dirty
       /\ x.tree[two].parent = op /\ \A j \in {one, two} \ {two} : x.tree[j] = w.tree[j]
  <2>1. two \in {one, two} /\ SecondPosition \in PosMin..PosMax
    BY <1>17
  <2> QED
    BY <1>21, <1>22, <1>23, <2>1
<1> DEFINE u == x.tree
<1>25. /\ DOMAIN u = DOMAIN t \cup {f, op}
       /\ \A j \in DOMAIN t \ {one, two} : u[j] = t[j]
       /\ \A j \in {one, two} : u[j].kind = t[j].kind /\ u[j].parent = op
       /\ u[f].kind = "formula" /\ u[f].parent = i /\ u[op].kind = k /\ u[op].parent = f
  BY <1>22, <1>24 DEF extended, others, kinds
<1> HIDE DEF u
<1>26. \A j \in DOMAIN t : t[j].parent \notin {f, op} /\ f # i /\ op # i
  BY <1>0, NoneIsNoId DEF Sound
<1>27. /\ Children(u, f) = {op} /\ Children(u, op) = {one, two}
       /\ Children(u, i) = (Children(t, i) \ {one, two}) \cup {f}
       /\ \A q : q \notin {f, op, i} => Children(u, q) = Children(t, q)
  BY <1>5, <1>25, <1>26 DEF Children
<1>28. Sound(L, u)
  <2>1. \A j \in DOMAIN u : u[j].parent # None =>
            u[j].parent \in DOMAIN u /\ u[u[j].parent].kind \in Container
    <3>1. "formula" \in Container /\ t[i].kind \in Container /\ u[i] = t[i]
      BY <1>5, <1>25, KindFacts
    <3>2. \A j \in DOMAIN t : u[j].kind = t[j].kind
      BY <1>25
    <3>3. \A j \in DOMAIN t \ {one, two} : u[j].parent # None =>
            u[j].parent \in DOMAIN u /\ u[u[j].parent].kind \in Container
      <4>1. \A j \in DOMAIN t : t[j].parent # None =>
              t[j].parent \in DOMAIN t /\ t[t[j].parent].kind \in Container
        BY <1>0 DEF Sound
      <4> HIDE DEF t
      <4> QED
        BY <1>25, <3>2, <4>1
    <3> QED
      BY <1>17, <1>25, <3>1, <3>3
  <2>2. \A j \in DOMAIN u : u[j].kind \in Rooted(L) => u[j].parent = None
    <3>1. t[one].kind \notin Rooted(L) /\ t[two].kind \notin Rooted(L)
      BY <1>0, <1>5 DEF Sound
    <3>2. k \notin Rooted(L) /\ "formula" \notin Rooted(L)
      BY <1>17, KindFacts, RestrictedKinds
    <3> QED
      <4>1. \A j \in DOMAIN t : t[j].kind \in Rooted(L) => t[j].parent = None
        BY <1>0 DEF Sound
      <4> HIDE DEF t
      <4> QED
        BY <1>25, <3>1, <3>2, <4>1
  <2>3. \A j \in DOMAIN u : u[j].kind \in Single(L) => AtMostOne(Children(u, j))
    <3>1. u[i].kind \notin {"not", "formula"}
      BY <1>5, <1>25, KindFacts
    <3>2. \A j \in DOMAIN t \ {i} : u[j].kind \in Single(L) => AtMostOne(Children(u, j))
      BY <1>0, <1>25, <1>27 DEF Sound
    <3> QED
      <4>1. k \in Single(L) => one = two
        <5>1. k \in Single(L) => k = "not" /\ "two under not" \notin L
          BY <1>17 DEF Single
        <5>2. k \in Single(L) => a = b
          BY <5>1 DEF splitAllowed
        <5> QED
          BY <1>2, <5>2
      <4>2. u[i].kind \notin Single(L)
        BY <3>1, RestrictedKinds
      <4>3. AtMostOne(Children(u, f)) /\ (k \in Single(L) => AtMostOne(Children(u, op)))
        BY <1>27, <4>1 DEF AtMostOne
      <4> QED
        BY <1>25, <3>2, <4>2, <4>3
  <2>4. \A j \in DOMAIN u : u[j].kind \in RootOnly => AtMostTwo(Children(u, j))
    <3>1. u[i].kind \notin RootOnly
      BY <1>5, <1>25, KindFacts
    <3>2. \A j \in DOMAIN t \ {i} : u[j].kind \in RootOnly => AtMostTwo(Children(u, j))
      BY <1>0, <1>25, <1>27 DEF Sound
    <3> QED
      BY <1>17, <1>25, <3>1, <3>2, KindFacts
  <2>5. "second root" \in L \/ AtMostOne(Children(u, None))
    BY <1>0, <1>27, NoneIsNoId DEF Sound
  <2>6. Forest(u)
    BY <1>24 DEF Mid, u
  <2> QED
    BY <2>1, <2>2, <2>3, <2>4, <2>5, <2>6 DEF Sound
<1>29. Changed(t, u) \subseteq {one, two, i, f, op}
  BY <1>25, <1>27 DEF Changed, kindOf
<1> QED
  BY <1>24, <1>28, <1>29 DEF Ready, u

LEMMA ChangeOperatorGood ==
    ASSUME NEW L, NEW m, Good(L, m), NEW i \in DOMAIN m.tree, NEW k \in Operator, NEW a, NEW b,
           NEW f \in Id \ DOMAIN m.tree, NEW op \in Id \ DOMAIN m.tree, f # op,
           k = "not" /\ a # b /\ Cardinality(Children(m.tree, i)) > 2
             => "two under not" \in L
    PROVE  \A y \in pe_changeOperator(m, i, k, a, b, f, op) : Good(L, y)
<1> DEFINE t == m.tree
           kids == Children(t, i)
           inPlace == Cardinality(kids) <= 2 \/ (a = None /\ b = None /\ k \in Variadic)
           target == mergeTarget(t, i, k)
<1> SUFFICES ASSUME NEW y \in pe_changeOperator(m, i, k, a, b, f, op) PROVE Good(L, y)
  OBVIOUS
<1>0. Sound(L, t) /\ kids \in SUBSET Id
  BY ChildrenAreIds DEF Good, Sound
<1>1. t[i].kind \in Operator \ {"not", k}
  BY DEF pe_changeOperator
<1>2. CASE inPlace /\ target = None
  <2>1. \A x \in changeOperatorType(m, i, k) : Ready(L, m, x)
    BY <1>2, ChangeTypeReady
  <2>2. y \in finalized(m, changeOperatorType(m, i, k))
    BY <1>1, <1>2 DEF pe_changeOperator
  <2> QED
    BY <2>1, <2>2, FinalizedGood
<1>3. CASE inPlace /\ target # None
  <2>1. \A x \in {mergeDissolvingOperator(m, i, target)} : Ready(L, m, x)
    BY <1>3, MergeReady
  <2>2. y \in finalized(m, {mergeDissolvingOperator(m, i, target)})
    BY <1>1, <1>3 DEF pe_changeOperator
  <2> HIDE DEF target
  <2> QED
    BY <2>1, <2>2, FinalizedGood
<1>4. CASE ~inPlace /\ {a, b} \subseteq kids
  <2>1. y \in finalized(m, splitOperatorChildren(m, i, k, a, b, f, op))
    BY <1>1, <1>4 DEF pe_changeOperator
  <2>2. t[i].kind \in Variadic
    <3>1. t[i].kind \notin RootOnly
      <4> SUFFICES ASSUME t[i].kind \in RootOnly PROVE FALSE
        OBVIOUS
      <4>1. AtMostTwo(kids)
        BY <1>0 DEF Sound
      <4>2. Cardinality(kids) <= 2
        BY <1>0, <4>1, Counted
      <4> QED
        BY <1>4, <4>2
    <3> QED
      BY <1>1, <3>1, KindFacts
  <2>3. a \in kids /\ b \in kids /\ splitAllowed(L, k, a, b)
    <3>1. Cardinality(kids) \in Nat /\ ~(Cardinality(kids) <= 2)
      BY <1>0, <1>4, Counted
    <3>2. Cardinality(kids) > 2
      <4> HIDE DEF kids
      <4> QED
        BY <3>1, SmallNumbers
    <3> QED
      BY <1>4, <3>2 DEF splitAllowed
  <2>4. \A x \in splitOperatorChildren(m, i, k, a, b, f, op) : Ready(L, m, x)
    BY <2>2, <2>3, SplitReady
  <2> QED
    BY <2>1, <2>4, FinalizedGood
<1>5. CASE ~inPlace /\ ~({a, b} \subseteq kids)
  <2>1. y \in finalized(m, {})
    BY <1>1, <1>5 DEF pe_changeOperator
  <2> QED
    BY <2>1 DEF finalized
<1> QED
  BY <1>2, <1>3, <1>4, <1>5

(***************************************************************************)
(* Deleting the expressions of a variable.                                 *)
(***************************************************************************)
usersOf(m, v) == {i \in DOMAIN m.tree : m.tree[i].kind = v}

withoutUser(m, v, n, stores) ==
    IF n \in usersOf(m, v)
    THEN UNION {pe_removeExpression(x, n, TRUE) : x \in stores}
    ELSE stores

deletions(m, v) ==
    LET g[n \in 0..MaxNodes] == IF n = 0 THEN {m} ELSE withoutUser(m, v, n, g[n - 1]) IN g

LEMMA DeletedIs ==
    ASSUME NEW m, NEW v, usersOf(m, v) # {}
    PROVE  LET g == deletions(m, v)
           IN  /\ g[0] = {m}
               /\ \A n \in 1..MaxNodes : g[n] = withoutUser(m, v, n, g[n - 1])
               /\ pe_deleteExpressionsUsingVariable(m, v) = g[MaxNodes]
<1> DEFINE Goes(n, g) == g = [k \in 0..n |-> IF k = 0 THEN {m} ELSE withoutUser(m, v, k, g[k - 1])]
           S == {n \in 0..MaxNodes : ~ \E g : Goes(n, g)}
<1>0. MaxNodes \in Nat
  BY NoneIsNoId
<1>1. 0 \notin S
  <2>1. Goes(0, [k \in 0..0 |-> {m}])
    OBVIOUS
  <2> QED
    BY <2>1
<1>2. ASSUME NEW n \in 1..MaxNodes, n - 1 \notin S PROVE n \notin S
  <2>1. n - 1 \in 0..MaxNodes /\ n \in Nat /\ n # 0
    BY <1>0
  <2>2. PICK g : Goes(n - 1, g)
    BY <1>2, <2>1
  <2> DEFINE h == [k \in 0..n |-> IF k < n THEN g[k] ELSE withoutUser(m, v, n, g[n - 1])]
  <2>3. \A k \in 0..(n - 1) : g[k] = IF k = 0 THEN {m} ELSE withoutUser(m, v, k, g[k - 1])
    BY <2>2
  <2>4. \A k \in 0..n : h[k] = IF k = 0 THEN {m} ELSE withoutUser(m, v, k, h[k - 1])
    <3> TAKE k \in 0..n
    <3>1. CASE k = 0
      BY <2>1, <2>3, <3>1
    <3>2. CASE k # 0 /\ k < n
      BY <2>1, <2>3, <3>2
    <3>3. CASE k = n
      BY <2>1, <3>3
    <3> QED
      BY <2>1, <3>1, <3>2, <3>3
  <2>5. Goes(n, h)
    BY <2>4
  <2> QED
    BY <2>5
<1>3. S = {}
  <2>1. S \subseteq 0..MaxNodes
    OBVIOUS
  <2> HIDE DEF Goes, S
  <2> QED
    BY <1>0, <1>1, <1>2, <2>1, Upward
<1> DEFINE f == deletions(m, v)
<1>4. Goes(MaxNodes, f)
  <2>1. \E h : Goes(MaxNodes, h)
    <3> HIDE DEF Goes
    <3> QED
      BY <1>0, <1>3
  <2> QED
    BY <2>1 DEF deletions
<1>5. pe_deleteExpressionsUsingVariable(m, v) = f[MaxNodes]
  BY DEF deletions, pe_deleteExpressionsUsingVariable, withoutUser, usersOf
<1> HIDE DEF f
<1>6. \A k \in 0..MaxNodes : f[k] = IF k = 0 THEN {m} ELSE withoutUser(m, v, k, f[k - 1])
  BY <1>4
<1>7. f[0] = {m} /\ \A n \in 1..MaxNodes : f[n] = withoutUser(m, v, n, f[n - 1])
  <2>1. \A n \in 1..MaxNodes : n \in 0..MaxNodes /\ n # 0
    BY <1>0
  <2> QED
    BY <1>0, <1>6, <2>1
<1> QED
  BY <1>5, <1>7 DEF f

\* Only what can have children lies above another expression.
LEMMA AboveAreContainers ==
    ASSUME NEW L, NEW t, Sound(L, t), NEW j \in DOMAIN t, NEW i \in selfAndAbove(t, j), i # j
    PROVE  t[i].kind \in Container
<1> DEFINE P == {j} \cup {x \in DOMAIN t : t[x].kind \in Container}
<1>1. j \in P /\ j \in Id /\ Forest(t) /\ \A x \in P : parentOf(t, x) \in P \cup {None}
  BY DEF Sound, Forest, parentOf
<1>2. selfAndAbove(t, j) \subseteq P
  <2> HIDE DEF P
  <2> QED
    BY <1>1, AboveFacts
<1> QED
  BY <1>2

LEMMA FinalizedTree ==
    ASSUME NEW L, NEW m, Good(L, m), NEW x, Ready(L, m, x), NEW y \in finalized(m, {x})
    PROVE  Good(L, y) /\ y.tree = x.tree
<1>1. y = flushExpressionChecksums(m, x)
  BY DEF finalized
<1>2. \A z \in {x} : Ready(L, m, z)
  OBVIOUS
<1> QED
  BY <1>1, <1>2, FinalizedGood, FlushSettles DEF Good, Ready, Mid

LEMMA RemovedSubtree ==
    ASSUME NEW L, NEW m, Good(L, m), NEW i \in DOMAIN m.tree, NEW y \in pe_removeExpression(m, i, TRUE)
    PROVE  Good(L, y) /\ y.tree = Without(m.tree, subtree(m.tree, i))
BY RemoveSubtreeReady, FinalizedTree DEF pe_removeExpression

LEMMA DeleteUsingGood ==
    ASSUME NEW L, NEW m, Good(L, m), NEW v \in Variable
    PROVE  \A y \in pe_deleteExpressionsUsingVariable(m, v) : Good(L, y)
<1> DEFINE users == usersOf(m, v)
           done(x, n) == /\ Good(L, x)
                         /\ \A j \in users : n < j => j \in DOMAIN x.tree /\ x.tree[j].kind = v
<1>1. CASE users = {}
  BY <1>1 DEF pe_deleteExpressionsUsingVariable, usersOf
<1>2. CASE users # {}
  <2> DEFINE g == deletions(m, v)
  <2>1. /\ g[0] = {m}
        /\ \A n \in 1..MaxNodes : g[n] = withoutUser(m, v, n, g[n - 1])
        /\ pe_deleteExpressionsUsingVariable(m, v) = g[MaxNodes]
    BY <1>2, DeletedIs
  <2> HIDE DEF g
  <2>2. MaxNodes \in Nat /\ users \subseteq Id
    BY NoneIsNoId DEF Good, Sound, Forest, usersOf
  <2> DEFINE S == {n \in 0..MaxNodes : ~ \A x \in g[n] : done(x, n)}
  <2>3. 0 \notin S
    BY <2>1 DEF usersOf
  <2>4. ASSUME NEW n \in 1..MaxNodes, n - 1 \notin S PROVE n \notin S
    <3>1. \A x \in g[n - 1] : done(x, n - 1)
      BY <2>2, <2>4
    <3>2. CASE n \notin users
      <4>1. g[n] = g[n - 1]
        BY <2>1, <3>2 DEF withoutUser
      <4>2. \A j \in users : n < j => n - 1 < j
        BY <2>2 DEF Id
      <4> QED
        BY <3>1, <4>1, <4>2
    <3>3. CASE n \in users
      <4> SUFFICES ASSUME NEW y \in g[n] PROVE done(y, n)
        OBVIOUS
      <4>a. g[n] = UNION {pe_removeExpression(x, n, TRUE) : x \in g[n - 1]}
        BY <2>1, <3>3 DEF withoutUser
      <4>1. PICK x \in g[n - 1] : y \in pe_removeExpression(x, n, TRUE)
        BY <4>a
      <4>2. Good(L, x) /\ n \in DOMAIN x.tree /\ x.tree[n].kind = v
            /\ \A j \in users : n < j => j \in DOMAIN x.tree /\ x.tree[j].kind = v
        <5>1. done(x, n - 1) /\ n - 1 < n /\ \A j \in users : n < j => n - 1 < j
          BY <2>2, <3>1 DEF Id
        <5> QED
          BY <3>3, <5>1
      <4>3. Good(L, y) /\ y.tree = Without(x.tree, subtree(x.tree, n))
        BY <4>1, <4>2, RemovedSubtree
      <4>4. v \notin Container
        BY KindFacts
      <4>5. ASSUME NEW j \in users, n < j PROVE j \in DOMAIN y.tree /\ y.tree[j].kind = v
        <5>1. j \in DOMAIN x.tree /\ x.tree[j].kind = v /\ n # j
          BY <2>2, <4>2, <4>5 DEF Id
        <5>2. n \notin selfAndAbove(x.tree, j)
          BY <4>2, <4>4, <5>1, AboveAreContainers DEF Good
        <5> QED
          BY <4>3, <5>1, <5>2 DEF Without, subtree
      <4> HIDE DEF users
      <4> QED
        BY <4>3, <4>5
    <3> QED
      BY <3>2, <3>3
  <2>5. S = {}
    <3> HIDE DEF done
    <3>1. S \subseteq 0..MaxNodes
      OBVIOUS
    <3> HIDE DEF S
    <3> QED
      BY <2>2, <2>3, <2>4, <3>1, Upward
  <2>6. \A x \in g[MaxNodes] : done(x, MaxNodes)
    BY <2>2, <2>5
  <2> QED
    BY <2>1, <2>6
<1> QED
  BY <1>1, <1>2

(***************************************************************************)
(* The rules of normalization.                                             *)
(***************************************************************************)
LEMMA RedistributeGood ==
    ASSUME NEW L, NEW m, Good(L, m), NEW p \in Spot, NEW x \in redistributeChildrenEvenly(m, p)
    PROVE  /\ Good(L, x) /\ DOMAIN x.tree = DOMAIN m.tree
           /\ \A i \in DOMAIN m.tree : /\ x.tree[i].parent = m.tree[i].parent
                                       /\ x.tree[i].kind = m.tree[i].kind
<1> DEFINE t == m.tree
           S == Children(t, p)
           n == Cardinality(S)
           ids == getChildExpressions(t, p)
           targets == redistributed(Len(ids))
           new == [i \in S |-> targets[CHOOSE k \in DOMAIN ids : ids[k] = i]]
           u == [i \in DOMAIN t |-> IF i \in S THEN [t[i] EXCEPT !.pos = new[i]] ELSE t[i]]
<1>0. Sound(L, t) /\ Forest(t)
  BY DEF Good, Sound
<1>1. /\ n \in Nat /\ Len(ids) = n /\ DOMAIN ids = 1..n
      /\ \A i \in S : \E k \in 1..n : ids[k] = i
  BY <1>0, ChildrenInOrder
<1>2. \A k \in 1..n : targets[k] \in Range0
  <2> TAKE k \in 1..n
  <2>1. targets[k] = spaced(PosMin, PosMax, n, k)
    BY <1>1 DEF redistributed
  <2> HIDE DEF n, targets
  <2> QED
    BY <1>1, <2>1, RangeFacts, SpacedInRange
<1>3. \A i \in S : new[i] \in Range0
  <2> HIDE DEF targets, ids, n, S
  <2> QED
    BY <1>1, <1>2
<1>4. IsStore(x) /\ x.tree = u /\ x.dirty = {} /\ x.stale = {}
  <2> DEFINE moving == {k \in DOMAIN ids : t[ids[k]].pos # targets[k]}
             held == {t[i].pos : i \in S} \cup {targets[k] : k \in DOMAIN ids}
             sl(old) == (old \ {t[ids[k]].pos : k \in moving}) \cup {targets[k] : k \in moving}
             moved == [m EXCEPT !.tree = [i \in DOMAIN @ |-> IF i \in DOMAIN new
                                             THEN [@[i] EXCEPT !.pos = new[i]] ELSE @[i]],
                                !.slots[p] = sl(@)]
  <2>1. redistributeChildrenEvenly(m, p) =
          IF Cardinality((PosMin..PosMax) \ held) < Cardinality(moving) THEN {} ELSE {moved}
    BY DEF redistributeChildrenEvenly
  <2>2. DOMAIN new = S
    OBVIOUS
  <2> HIDE DEF moving, held, sl, new, S
  <2>3. x = moved
    <3> HIDE DEF moved
    <3> QED
      BY <2>1
  <2> QED
    BY <2>2, <2>3 DEF Good, IsStore
<1> HIDE DEF new, S
<1>5. /\ DOMAIN u = DOMAIN t
      /\ \A i \in DOMAIN t : u[i].parent = t[i].parent /\ u[i].kind = t[i].kind
      /\ u \in [DOMAIN u -> [kind : Kind, parent : Spot, pos : PosMin..PosMax]]
  <2>1. \A i \in DOMAIN t : t[i] \in [kind : Kind, parent : Spot, pos : PosMin..PosMax]
    BY <1>0 DEF Forest
  <2> QED
    BY <1>3, <2>1 DEF Range0
<1> HIDE DEF u
<1>6. Sound(L, u)
  BY <1>0, <1>5, RepositionedTree
<1> QED
  BY <1>4, <1>5, <1>6 DEF Good

LEMMA FreeNearInRange ==
    ASSUME NEW target \in Range0, NEW lo \in Range0, NEW hi \in Range0, NEW forbidden
    PROVE  freeNear(target, lo, hi, forbidden) \subseteq Range0
<1> DEFINE down(k) == target - k > lo /\ target - k \notin forbidden
           up(k) == target + k < hi /\ target + k \notin forbidden
           rings == {k \in 1..(hi - lo - 1) : down(k) \/ up(k)}
           r == Min(rings)
<1>0. target \in Int /\ lo \in Int /\ hi \in Int /\ PosMin \in Int /\ PosMax \in Int
      /\ \A a : a \in Range0 <=> a \in Int /\ PosMin <= a /\ a <= PosMax
  BY PositionAssumption, RangeFacts DEF Range0
<1>1. CASE rings = {} \/ target \notin forbidden
  BY <1>1 DEF freeNear
<1>2. CASE rings # {} /\ target \in forbidden
  <2>1. r \in rings
    <3>1. rings \in SUBSET Nat /\ rings # {}
      BY <1>0, <1>2
    <3> HIDE DEF rings
    <3> QED
      BY <3>1, MinIsIn
  <2>2. freeNear(target, lo, hi, forbidden) = {IF down(r) THEN target - r ELSE target + r}
    BY <1>2 DEF freeNear
  <2>3. r \in Nat /\ (down(r) \/ up(r))
    BY <1>0, <2>1
  <2> HIDE DEF r
  <2>4. down(r) => target - r \in Range0
    BY <1>0, <2>3
  <2>5. ~down(r) => target + r \in Range0
    BY <1>0, <2>3
  <2> QED
    BY <2>2, <2>4, <2>5
<1> QED
  BY <1>1, <1>2

nothingYet == {<<>>}

nextSpots(lo, hi, count, formulaPos, i, seqs) ==
    UNION {{Append(qs, q) : q \in freeNear(spaced(lo, hi, count, i), lo, hi,
                                            {formulaPos} \cup {qs[j] : j \in DOMAIN qs})}
           : qs \in seqs}

spots(lo, hi, count, formulaPos) ==
    LET g[n \in 0..count] == IF n = 0 THEN nothingYet ELSE nextSpots(lo, hi, count, formulaPos, n, g[n - 1]) IN g

LEMMA SpotsAre ==
    ASSUME NEW lo, NEW hi, NEW count \in Nat, NEW formulaPos
    PROVE  LET g == spots(lo, hi, count, formulaPos)
           IN  /\ g[0] = nothingYet
               /\ \A n \in 1..count : g[n] = nextSpots(lo, hi, count, formulaPos, n, g[n - 1])
               /\ absorbedPositions(lo, hi, count, formulaPos) = g[count]
<1> DEFINE Goes(n, g) == g = [k \in 0..n |-> IF k = 0 THEN nothingYet ELSE nextSpots(lo, hi, count, formulaPos, k, g[k - 1])]
           S == {n \in 0..count : ~ \E g : Goes(n, g)}
<1>0. count \in Nat
  OBVIOUS
<1>1. 0 \notin S
  <2>1. Goes(0, [k \in 0..0 |-> nothingYet])
    OBVIOUS
  <2> QED
    BY <2>1
<1>2. ASSUME NEW n \in 1..count, n - 1 \notin S PROVE n \notin S
  <2>1. n - 1 \in 0..count /\ n \in Nat /\ n # 0
    BY <1>0
  <2>2. PICK g : Goes(n - 1, g)
    BY <1>2, <2>1
  <2> DEFINE h == [k \in 0..n |-> IF k < n THEN g[k] ELSE nextSpots(lo, hi, count, formulaPos, n, g[n - 1])]
  <2>3. \A k \in 0..(n - 1) : g[k] = IF k = 0 THEN nothingYet ELSE nextSpots(lo, hi, count, formulaPos, k, g[k - 1])
    BY <2>2
  <2>4. \A k \in 0..n : h[k] = IF k = 0 THEN nothingYet ELSE nextSpots(lo, hi, count, formulaPos, k, h[k - 1])
    <3> TAKE k \in 0..n
    <3>1. CASE k = 0
      BY <2>1, <2>3, <3>1
    <3>2. CASE k # 0 /\ k < n
      BY <2>1, <2>3, <3>2
    <3>3. CASE k = n
      BY <2>1, <3>3
    <3> QED
      BY <2>1, <3>1, <3>2, <3>3
  <2>5. Goes(n, h)
    BY <2>4
  <2> QED
    BY <2>5
<1>3. S = {}
  <2>1. S \subseteq 0..count
    OBVIOUS
  <2> HIDE DEF Goes, S
  <2> QED
    BY <1>0, <1>1, <1>2, <2>1, Upward
<1> DEFINE f == spots(lo, hi, count, formulaPos)
<1>4. Goes(count, f)
  <2>1. \E h : Goes(count, h)
    <3> HIDE DEF Goes
    <3> QED
      BY <1>0, <1>3
  <2> QED
    BY <2>1 DEF spots
<1>5. absorbedPositions(lo, hi, count, formulaPos) = f[count]
  BY DEF spots, absorbedPositions, nextSpots, nothingYet
<1> HIDE DEF f
<1>6. \A k \in 0..count : f[k] = IF k = 0 THEN nothingYet ELSE nextSpots(lo, hi, count, formulaPos, k, f[k - 1])
  BY <1>4
<1>7. f[0] = nothingYet /\ \A n \in 1..count : f[n] = nextSpots(lo, hi, count, formulaPos, n, f[n - 1])
  <2>1. \A n \in 1..count : n \in 0..count /\ n # 0
    BY <1>0
  <2> QED
    BY <1>0, <1>6, <2>1
<1> QED
  BY <1>5, <1>7 DEF f

LEMMA AbsorbedInRange ==
    ASSUME NEW lo \in Range0, NEW hi \in Range0, NEW count \in Nat, NEW formulaPos
    PROVE  \A qs \in absorbedPositions(lo, hi, count, formulaPos) :
              qs \in Seq(Range0) /\ Len(qs) = count
<1> DEFINE g == spots(lo, hi, count, formulaPos)
           placed(qs, n) == qs \in Seq(Range0) /\ Len(qs) = n
           S == {n \in 0..count : ~ \A qs \in g[n] : placed(qs, n)}
<1>1. /\ g[0] = nothingYet
      /\ \A n \in 1..count : g[n] = nextSpots(lo, hi, count, formulaPos, n, g[n - 1])
      /\ absorbedPositions(lo, hi, count, formulaPos) = g[count]
  BY SpotsAre
<1> HIDE DEF g
<1>2. 0 \notin S
  <2>1. <<>> \in Seq(Range0) /\ Len(<<>>) = 0
    OBVIOUS
  <2>2. \A qs \in g[0] : qs = <<>>
    BY <1>1 DEF nothingYet
  <2> QED
    BY <2>1, <2>2
<1>3. ASSUME NEW n \in 1..count, n - 1 \notin S PROVE n \notin S
  <2>0. n \in Nat /\ n - 1 \in Nat /\ n - 1 \in 0..count /\ (n - 1) + 1 = n
    OBVIOUS
  <2>1. \A qs \in g[n - 1] : placed(qs, n - 1)
    BY <1>3, <2>0
  <2> SUFFICES ASSUME NEW rs \in g[n] PROVE placed(rs, n)
    OBVIOUS
  <2>a. g[n] = nextSpots(lo, hi, count, formulaPos, n, g[n - 1])
    BY <1>1
  <2>b. rs \in nextSpots(lo, hi, count, formulaPos, n, g[n - 1])
    BY <2>a
  <2>2. PICK qs \in g[n - 1] :
          rs \in {Append(qs, q) : q \in freeNear(spaced(lo, hi, count, n), lo, hi,
                                            {formulaPos} \cup {qs[j] : j \in DOMAIN qs})}
    BY <2>b DEF nextSpots
  <2>3. PICK q \in freeNear(spaced(lo, hi, count, n), lo, hi,
                            {formulaPos} \cup {qs[j] : j \in DOMAIN qs}) : rs = Append(qs, q)
    BY <2>2
  <2>4. q \in Range0
    <3>1. spaced(lo, hi, count, n) \in Range0
      BY SpacedInRange
    <3> QED
      BY <2>3, <3>1, FreeNearInRange
  <2>5. qs \in Seq(Range0) /\ Len(qs) = n - 1
    BY <2>1
  <2> QED
    BY <2>0, <2>3, <2>4, <2>5
<1>4. S = {}
  <2>1. S \subseteq 0..count
    OBVIOUS
  <2> HIDE DEF S
  <2> QED
    BY <1>2, <1>3, <2>1, Upward
<1>5. \A qs \in g[count] : placed(qs, count)
  BY <1>4
<1> QED
  BY <1>1, <1>5

nextPlaced(kids, outer, qs, n, stores) ==
    UNION {pe_reparentExpression(x, kids[n], outer, qs[n]) : x \in stores}

placements(m, kids, outer, qs, N) ==
    LET g[n \in 0..N] == IF n = 0 THEN {m} ELSE nextPlaced(kids, outer, qs, n, g[n - 1]) IN g

LEMMA PlacementsAre ==
    ASSUME NEW m, NEW kids, NEW outer, NEW qs, NEW N \in Nat, N = Len(kids)
    PROVE  LET g == placements(m, kids, outer, qs, N)
           IN  /\ g[0] = {m}
               /\ \A n \in 1..N : g[n] = nextPlaced(kids, outer, qs, n, g[n - 1])
               /\ placeAbsorbed(m, kids, outer, qs) = g[N]
<1> DEFINE Goes(n, g) == g = [k \in 0..n |-> IF k = 0 THEN {m} ELSE nextPlaced(kids, outer, qs, k, g[k - 1])]
           S == {n \in 0..N : ~ \E g : Goes(n, g)}
<1>0. N \in Nat /\ N = Len(kids)
  OBVIOUS
<1>1. 0 \notin S
  <2>1. Goes(0, [k \in 0..0 |-> {m}])
    OBVIOUS
  <2> QED
    BY <2>1
<1>2. ASSUME NEW n \in 1..N, n - 1 \notin S PROVE n \notin S
  <2>1. n - 1 \in 0..N /\ n \in Nat /\ n # 0
    BY <1>0
  <2>2. PICK g : Goes(n - 1, g)
    BY <1>2, <2>1
  <2> DEFINE h == [k \in 0..n |-> IF k < n THEN g[k] ELSE nextPlaced(kids, outer, qs, n, g[n - 1])]
  <2>3. \A k \in 0..(n - 1) : g[k] = IF k = 0 THEN {m} ELSE nextPlaced(kids, outer, qs, k, g[k - 1])
    BY <2>2
  <2>4. \A k \in 0..n : h[k] = IF k = 0 THEN {m} ELSE nextPlaced(kids, outer, qs, k, h[k - 1])
    <3> TAKE k \in 0..n
    <3>1. CASE k = 0
      BY <2>1, <2>3, <3>1
    <3>2. CASE k # 0 /\ k < n
      BY <2>1, <2>3, <3>2
    <3>3. CASE k = n
      BY <2>1, <3>3
    <3> QED
      BY <2>1, <3>1, <3>2, <3>3
  <2>5. Goes(n, h)
    BY <2>4
  <2> QED
    BY <2>5
<1>3. S = {}
  <2>1. S \subseteq 0..N
    OBVIOUS
  <2> HIDE DEF Goes, S
  <2> QED
    BY <1>0, <1>1, <1>2, <2>1, Upward
<1> DEFINE f == placements(m, kids, outer, qs, N)
<1>4. Goes(N, f)
  <2>1. \E h : Goes(N, h)
    <3> HIDE DEF Goes
    <3> QED
      BY <1>0, <1>3
  <2> QED
    BY <2>1 DEF placements
<1>5. placeAbsorbed(m, kids, outer, qs) = f[N]
  BY <1>0 DEF placements, placeAbsorbed, nextPlaced
<1> HIDE DEF f
<1>6. \A k \in 0..N : f[k] = IF k = 0 THEN {m} ELSE nextPlaced(kids, outer, qs, k, f[k - 1])
  BY <1>4
<1>7. f[0] = {m} /\ \A n \in 1..N : f[n] = nextPlaced(kids, outer, qs, n, f[n - 1])
  <2>1. \A n \in 1..N : n \in 0..N /\ n # 0
    BY <1>0
  <2> QED
    BY <1>0, <1>6, <2>1
<1> QED
  BY <1>5, <1>7 DEF f

LEMMA PlacedGood ==
    ASSUME NEW L, NEW m, Good(L, m), NEW inner \in DOMAIN m.tree, NEW n \in Nat, NEW kids,
           kids \in [1..n -> Children(m.tree, inner)], Len(kids) = n, NEW outer,
           NEW qs \in Seq(Range0), Len(qs) = n
    PROVE  \A x \in placeAbsorbed(m, kids, outer, qs) :
              /\ Good(L, x) /\ DOMAIN x.tree = DOMAIN m.tree
              /\ \A j \in DOMAIN m.tree \ Children(m.tree, inner) : x.tree[j] = m.tree[j]
<1> DEFINE g == placements(m, kids, outer, qs, n)
           kept(x) == /\ Good(L, x) /\ DOMAIN x.tree = DOMAIN m.tree
                      /\ \A j \in DOMAIN m.tree \ Children(m.tree, inner) : x.tree[j] = m.tree[j]
           S == {k \in 0..n : ~ \A x \in g[k] : kept(x)}
<1>1. /\ g[0] = {m} /\ \A k \in 1..n : g[k] = nextPlaced(kids, outer, qs, k, g[k - 1])
      /\ placeAbsorbed(m, kids, outer, qs) = g[n]
  BY PlacementsAre
<1> HIDE DEF g
<1>2. 0 \notin S
  BY <1>1
<1>3. ASSUME NEW k \in 1..n, k - 1 \notin S PROVE k \notin S
  <2>0. \A x \in g[k - 1] : kept(x)
    BY <1>3
  <2> SUFFICES ASSUME NEW y \in g[k] PROVE kept(y)
    OBVIOUS
  <2>1. PICK x \in g[k - 1] : y \in pe_reparentExpression(x, kids[k], outer, qs[k])
    BY <1>1 DEF nextPlaced
  <2>2. kept(x)
    BY <2>0, <2>1
  <2>3. kids[k] \in Children(m.tree, inner) /\ kids[k] \in DOMAIN x.tree /\ qs[k] \in Range0
    BY <2>2 DEF Children
  <2>4. /\ Good(L, y) /\ DOMAIN y.tree = DOMAIN x.tree
        /\ \A j \in DOMAIN x.tree \ {kids[k]} : y.tree[j] = x.tree[j]
    BY <2>1, <2>2, <2>3, ReparentGood
  <2> QED
    BY <2>2, <2>3, <2>4
<1>4. S = {}
  <2>1. S \subseteq 0..n
    OBVIOUS
  <2> HIDE DEF S
  <2> QED
    BY <1>2, <1>3, <2>1, Upward
<1>5. \A x \in g[n] : kept(x)
  <2> HIDE DEF kept
  <2> QED
    BY <1>4
<1> QED
  BY <1>1, <1>5

LEMMA AbsorbableIs ==
    ASSUME NEW L, NEW t, Sound(L, t), NEW inner \in absorbable(t)
    PROVE  LET f == parentOf(t, inner)
               outer == outerOf(t, inner)
           IN  /\ inner \in DOMAIN t /\ f \in DOMAIN t /\ outer \in DOMAIN t
               /\ t[inner].parent = f /\ t[f].parent = outer /\ t[f].kind = "formula"
               /\ inner \notin Children(t, inner) /\ f \notin Children(t, inner)
<1> DEFINE f == parentOf(t, inner)
           outer == outerOf(t, inner)
<1>1. inner \in DOMAIN t /\ t[inner].kind \in Variadic /\ kindOf(t, outer) = t[inner].kind
  BY DEF absorbable
<1>2. t[inner].kind # "none" /\ "none" # "formula" /\ t[inner].kind # "formula"
  BY <1>1, KindFacts
<1>3. kindOf(t, f) = "formula" /\ outer = parentOf(t, f)
  <2>1. f # None
    BY <1>1, <1>2, NoneIsNoId DEF outerOf, kindOf, Sound, Forest
  <2>2. outer # None
    BY <1>1, <1>2, NoneIsNoId DEF kindOf, Sound, Forest
  <2> QED
    BY <2>2 DEF outerOf
<1>4. f \in DOMAIN t /\ t[f].kind = "formula" /\ outer \in DOMAIN t
  BY <1>1, <1>2, <1>3 DEF kindOf
<1>5. t[inner].parent = f /\ t[f].parent = outer
  BY <1>1, <1>3, <1>4 DEF parentOf
<1>6. f # None /\ outer # None
  BY <1>4, NoneIsNoId DEF Sound, Forest
<1>7. /\ inner \notin selfAndAbove(t, f) /\ inner \in Id
      /\ f \in selfAndAbove(t, f) /\ outer \in selfAndAbove(t, f)
  BY <1>1, <1>4, <1>5, <1>6, AboveTheirParent, AboveFacts DEF Sound, Forest, parentOf
<1>8. inner # f /\ inner # outer
  BY <1>7
<1> QED
  BY <1>1, <1>4, <1>5, <1>8 DEF Children

LEMMA MadeRoomyGood ==
    ASSUME NEW L, NEW m, Good(L, m), NEW n, NEW outer \in Spot, NEW gap, NEW x \in madeRoomy(m, n, outer, gap)
    PROVE  /\ Good(L, x) /\ DOMAIN x.tree = DOMAIN m.tree
           /\ \A i \in DOMAIN m.tree : x.tree[i].parent = m.tree[i].parent
<1>1. CASE gap.hi - gap.lo <= n
  <2>1. x \in redistributeChildrenEvenly(m, outer)
    BY <1>1 DEF madeRoomy
  <2>2. /\ Good(L, x) /\ DOMAIN x.tree = DOMAIN m.tree
        /\ \A i \in DOMAIN m.tree : x.tree[i].parent = m.tree[i].parent
    BY <2>1, RedistributeGood
  <2> QED
    BY <2>2
<1>2. CASE ~(gap.hi - gap.lo <= n)
  <2>1. x = m
    BY <1>2 DEF madeRoomy
  <2> QED
    BY <2>1
<1> QED
  BY <1>1, <1>2

LEMMA AbsorbedGood ==
    ASSUME NEW L, NEW m, Good(L, m), NEW inner \in absorbable(m.tree)
    PROVE  \A y \in absorbed(m, inner) : Good(L, y)
<1> DEFINE t == m.tree
           f == parentOf(t, inner)
           outer == outerOf(t, inner)
           ids == getChildExpressions(t, outer)
           kids == getChildExpressions(t, inner)
           n == Cardinality(Children(t, outer))
           k == Cardinality(Children(t, inner))
           at == indexOf(ids, f)
<1>0. Sound(L, t) /\ Forest(t)
  BY DEF Good, Sound
<1>1. /\ inner \in DOMAIN t /\ f \in DOMAIN t /\ outer \in DOMAIN t
      /\ t[inner].parent = f /\ t[f].parent = outer /\ t[f].kind = "formula"
      /\ inner \notin Children(t, inner) /\ f \notin Children(t, inner)
  BY <1>0, AbsorbableIs
<1>2. k \in Nat /\ Len(kids) = k /\ kids \in [1..k -> Children(t, inner)]
  BY <1>0, ChildrenInOrder
<1>3. n \in Nat /\ at \in 1..n
  <2>1. n \in Nat /\ DOMAIN ids = 1..n /\ \A i \in Children(t, outer) : \E j \in 1..n : ids[j] = i
    BY <1>0, ChildrenInOrder
  <2>2. f \in Children(t, outer)
    BY <1>1 DEF Children
  <2> HIDE DEF ids, n, f, outer
  <2> QED
    BY <2>1, <2>2, IndexIs
<1>4. absorbed(m, inner) =
        UNION {UNION {pe_removeExpression(y, f, FALSE) : y \in pe_removeExpression(x, inner, TRUE)} :
                  x \in emptied(m, kids, f, outer, at)}
  BY DEF absorbed
<1>5. f # None /\ outer \in Spot
  BY <1>0, <1>1, NoneIsNoId DEF Forest, Spot
<1> HIDE DEF f, outer, ids, kids, n, k, at
<1>6. ASSUME NEW x \in emptied(m, kids, f, outer, at)
      PROVE  Good(L, x) /\ DOMAIN x.tree = DOMAIN t /\ x.tree[inner].parent = f
  <2> DEFINE old == gapAround(childPositions(m, outer), at)
             into(z) == absorbIntoGap(z, kids, f, outer, gapAround(childPositions(z, outer), at))
  <2>1. x \in UNION {into(z) : z \in madeRoomy(m, Len(kids), outer, old)}
    BY <1>6 DEF emptied
  <2> HIDE DEF into
  <2>2. PICK z \in madeRoomy(m, Len(kids), outer, old) : x \in into(z)
    BY <2>1
  <2> USE DEF into
  <2> HIDE DEF old
  <2>3. /\ Good(L, z) /\ DOMAIN z.tree = DOMAIN t /\ z.tree[inner].parent = f
        /\ Children(z.tree, outer) = Children(t, outer)
        /\ Children(z.tree, inner) = Children(t, inner)
    <3> DEFINE j == Len(kids)
    <3>1. z \in madeRoomy(m, j, outer, old)
      BY <2>2
    <3> HIDE DEF j
    <3>2. /\ Good(L, z) /\ DOMAIN z.tree = DOMAIN m.tree
          /\ \A i \in DOMAIN m.tree : z.tree[i].parent = m.tree[i].parent
      BY <1>5, <3>1, MadeRoomyGood
    <3>3. \A p : Children(z.tree, p) = Children(m.tree, p)
      BY <3>2 DEF Children
    <3> QED
      BY <1>1, <3>2, <3>3
  <2> DEFINE gap == gapAround(childPositions(z, outer), at)
             lo == gapLeft(childPositions(z, outer), at - 1)
             hi == gapRight(childPositions(z, outer), at)
  <2>4. lo \in Range0 /\ hi \in Range0
    <3>1. Positions(childPositions(z, outer), n)
      BY <2>3, ChildPositions DEF Good, Sound, n
    <3>2. at - 1 \in 0..n /\ at \in 0..n
      BY <1>3
    <3> QED
      BY <3>1, <3>2, GapEnds
  <2>5. gap.lo = lo /\ gap.hi = hi
    BY DEF gapAround
  <2>6. x \in UNION {placeAbsorbed(z, kids, outer, qs) :
                       qs \in absorbedPositions(lo, hi, Len(kids), z.tree[f].pos)}
    BY <2>2, <2>5 DEF absorbIntoGap
  <2> HIDE DEF lo, hi, gap
  <2>7. PICK qs \in absorbedPositions(lo, hi, Len(kids), z.tree[f].pos) :
          x \in placeAbsorbed(z, kids, outer, qs)
    BY <2>6
  <2>8. qs \in Seq(Range0) /\ Len(qs) = k
    BY <1>2, <2>4, <2>7, AbsorbedInRange
  <2>9. inner \in DOMAIN z.tree /\ kids \in [1..k -> Children(z.tree, inner)]
    BY <1>1, <1>2, <2>3
  <2>10. /\ Good(L, x) /\ DOMAIN x.tree = DOMAIN z.tree
         /\ \A j \in DOMAIN z.tree \ Children(z.tree, inner) : x.tree[j] = z.tree[j]
    BY <1>2, <2>3, <2>7, <2>8, <2>9, PlacedGood
  <2> QED
    BY <1>1, <2>3, <2>9, <2>10
<1>7. ASSUME NEW x \in emptied(m, kids, f, outer, at), NEW y \in pe_removeExpression(x, inner, TRUE)
      PROVE  \A z \in pe_removeExpression(y, f, FALSE) : Good(L, z)
  <2>1. Good(L, x) /\ Sound(L, x.tree) /\ inner \in DOMAIN x.tree /\ f \in DOMAIN x.tree
        /\ x.tree[inner].parent = f
    BY <1>1, <1>6 DEF Good
  <2>2. Good(L, y) /\ y.tree = Without(x.tree, subtree(x.tree, inner))
    BY <2>1, <1>7, RemovedSubtree
  <2>3. inner \notin selfAndAbove(x.tree, f)
    BY <1>5, <2>1, AboveTheirParent
  <2>4. f \in DOMAIN y.tree
    BY <2>1, <2>2, <2>3 DEF Without, subtree
  <2> QED
    BY <2>2, <2>4, RemoveGood
<1> SUFFICES ASSUME NEW z \in absorbed(m, inner) PROVE Good(L, z)
  OBVIOUS
<1> DEFINE after(x) == UNION {pe_removeExpression(y, f, FALSE) : y \in pe_removeExpression(x, inner, TRUE)}
<1>8. z \in UNION {after(x) : x \in emptied(m, kids, f, outer, at)}
  BY <1>4
<1> HIDE DEF after
<1>9. PICK x \in emptied(m, kids, f, outer, at) : z \in after(x)
  BY <1>8
<1>10. PICK y \in pe_removeExpression(x, inner, TRUE) : z \in pe_removeExpression(y, f, FALSE)
  BY <1>9 DEF after
<1> QED
  BY <1>7, <1>10

LEMMA InnerNotIs ==
    ASSUME NEW L, NEW t, Sound(L, t), NEW n, innerNot(t, n) # None
    PROVE  /\ n \in DOMAIN t /\ t[n].kind = "not" /\ innerNot(t, n) \in DOMAIN t
           /\ innerNot(t, n) # n
<1> DEFINE c == onlyChild(t, n)
           g == onlyChild(t, c)
<1>0. Forest(t) /\ DOMAIN t \subseteq Id /\ None \notin DOMAIN t
  BY NoneIsNoId DEF Sound, Forest
<1>1. kindOf(t, n) = "not" /\ \/ innerNot(t, n) = c /\ kindOf(t, c) = "not"
                              \/ innerNot(t, n) = g /\ kindOf(t, c) = "formula" /\ kindOf(t, g) = "not"
  BY DEF innerNot
<1>2. n \in DOMAIN t /\ t[n].kind = "not" /\ n # None /\ n \in Id
  BY <1>0, <1>1 DEF kindOf
<1>3. c \in DOMAIN t /\ c # None /\ c \in Id
  BY <1>0, <1>1 DEF kindOf
<1>4. c \in Children(t, n)
  BY <1>0, <1>3, OnlyChildIs
<1>5. t[c].parent = n /\ c # n
  <2>1. t[c].parent = n
    BY <1>4 DEF Children
  <2>2. c \notin selfAndAbove(t, n) /\ n \in selfAndAbove(t, n)
    BY <1>0, <1>2, <1>3, <2>1, AboveTheirParent, AboveFacts
  <2> QED
    BY <2>1, <2>2
<1>6. CASE innerNot(t, n) = c
  BY <1>2, <1>3, <1>5, <1>6
<1>7. CASE innerNot(t, n) = g /\ kindOf(t, g) = "not"
  <2>1. g \in DOMAIN t /\ g # None /\ g \in Children(t, c)
    BY <1>0, <1>7, OnlyChildIs DEF kindOf
  <2>2. t[g].parent = c
    BY <2>1 DEF Children
  <2>3. g \notin selfAndAbove(t, c) /\ c \in selfAndAbove(t, c)
    BY <1>0, <1>3, <2>1, <2>2, AboveTheirParent, AboveFacts
  <2>4. n \in selfAndAbove(t, c)
    BY <1>0, <1>2, <1>3, <1>5, <2>3, AboveFacts DEF parentOf
  <2> QED
    BY <1>2, <1>7, <2>1, <2>3, <2>4
<1> QED
  BY <1>1, <1>6, <1>7

LEMMA DoubleNegationGood ==
    ASSUME NEW L, NEW m, Good(L, m), NEW n \in doubleNegations(m.tree)
    PROVE  \A y \in collapseDoubleNegation(m, n) : Good(L, y)
<1> DEFINE inner == innerNot(m.tree, n)
<1>1. n \in DOMAIN m.tree /\ inner \in DOMAIN m.tree /\ inner # n
  BY InnerNotIs DEF doubleNegations, Good
<1> SUFFICES ASSUME NEW y \in collapseDoubleNegation(m, n) PROVE Good(L, y)
  OBVIOUS
<1>2. y \in UNION {pe_removeExpression(x, n, FALSE) : x \in pe_removeExpression(m, inner, FALSE)}
  BY DEF collapseDoubleNegation
<1> HIDE DEF inner
<1>3. PICK x \in pe_removeExpression(m, inner, FALSE) : y \in pe_removeExpression(x, n, FALSE)
  BY <1>2
<1>4. PICK z \in removeAndPromote(m, inner) : x \in finalized(m, {z})
  BY <1>3 DEF pe_removeExpression, finalized
<1>5. Ready(L, m, z) /\ DOMAIN z.tree = DOMAIN m.tree \ {inner}
  BY <1>1, <1>4, PromoteReady
<1>6. Good(L, x) /\ x.tree = z.tree
  BY <1>4, <1>5, FinalizedTree
<1>7. n \in DOMAIN x.tree
  BY <1>1, <1>5, <1>6
<1> QED
  BY <1>3, <1>6, <1>7, RemoveGood

LEMMA BufferGood ==
    ASSUME NEW L, NEW m, Good(L, m), NEW i \in DOMAIN m.tree
    PROVE  \A y \in buffer(m, i) : Good(L, y)
<1>1. CASE freshIds(m) = {}
  BY <1>1 DEF buffer
<1>2. CASE freshIds(m) # {}
  <2>1. freshIds(m) \in SUBSET Nat
    BY NoneIsNoId DEF freshIds, Id
  <2>2. Min(freshIds(m)) \in Id \ DOMAIN m.tree
    BY <1>2, <2>1, MinIsIn DEF freshIds
  <2>3. \A x \in wrapInFormula(m, i, Min(freshIds(m))) : Ready(L, m, x)
    BY <2>2, WrapInFormulaReady
  <2>4. buffer(m, i) = finalized(m, wrapInFormula(m, i, Min(freshIds(m))))
    BY <1>2 DEF buffer, pe_wrapInFormula
  <2> QED
    BY <2>3, <2>4, FinalizedGood
<1> QED
  BY <1>1, <1>2

Rules == {"AN-1", "AN-2", "AN-3", "AN-4"}

LEMMA RewritingGood ==
    ASSUME NEW L, NEW m, Good(L, m), NEW rule \in Rules, NEW i \in matches(rule, m.tree)
    PROVE  \A y \in rewriting(rule, m, i) : Good(L, y)
<1>1. CASE rule = "AN-1"
  <2>1. i \in DOMAIN m.tree
    BY <1>1 DEF matches, unbuffered
  <2> QED
    BY <1>1, <2>1, BufferGood DEF rewriting
<1>2. CASE rule = "AN-2"
  <2>1. i \in doubleNegations(m.tree)
    BY <1>2 DEF matches
  <2> QED
    BY <1>2, <2>1, DoubleNegationGood DEF rewriting
<1>3. CASE rule = "AN-3"
  <2>1. i \in DOMAIN m.tree
    BY <1>3 DEF matches, collapsible
  <2> QED
    BY <1>3, <2>1, RemoveGood DEF rewriting, collapse
<1>4. CASE rule = "AN-4"
  <2>1. i \in absorbable(m.tree)
    BY <1>4 DEF matches
  <2> QED
    BY <1>4, <2>1, AbsorbedGood DEF rewriting
<1> QED
  BY <1>1, <1>2, <1>3, <1>4 DEF Rules

AllGood(L, stores) == \A x \in stores : Good(L, x)

nextRewritten(rule, stores) ==
    UNION {IF matches(rule, x.tree) = {} THEN {x}
           ELSE UNION {rewriting(rule, x, i) : i \in matches(rule, x.tree)}
           : x \in stores}

rewritings(rule, stores) ==
    LET g[n \in 0..MaxNodes] == IF n = 0 THEN stores ELSE nextRewritten(rule, g[n - 1]) IN g

LEMMA RewritingsAre ==
    ASSUME NEW rule, NEW stores
    PROVE  LET g == rewritings(rule, stores)
           IN  /\ g[0] = stores
               /\ \A n \in 1..MaxNodes : g[n] = nextRewritten(rule, g[n - 1])
               /\ exhausted(rule, stores) = g[MaxNodes]
<1> DEFINE Goes(n, g) == g = [k \in 0..n |-> IF k = 0 THEN stores ELSE nextRewritten(rule, g[k - 1])]
           S == {n \in 0..MaxNodes : ~ \E g : Goes(n, g)}
<1>0. MaxNodes \in Nat
  BY NoneIsNoId
<1>1. 0 \notin S
  <2>1. Goes(0, [k \in 0..0 |-> stores])
    OBVIOUS
  <2> QED
    BY <2>1
<1>2. ASSUME NEW n \in 1..MaxNodes, n - 1 \notin S PROVE n \notin S
  <2>1. n - 1 \in 0..MaxNodes /\ n \in Nat /\ n # 0
    BY <1>0
  <2>2. PICK g : Goes(n - 1, g)
    BY <1>2, <2>1
  <2> DEFINE h == [k \in 0..n |-> IF k < n THEN g[k] ELSE nextRewritten(rule, g[n - 1])]
  <2>3. \A k \in 0..(n - 1) : g[k] = IF k = 0 THEN stores ELSE nextRewritten(rule, g[k - 1])
    BY <2>2
  <2>4. \A k \in 0..n : h[k] = IF k = 0 THEN stores ELSE nextRewritten(rule, h[k - 1])
    <3> TAKE k \in 0..n
    <3>1. CASE k = 0
      BY <2>1, <2>3, <3>1
    <3>2. CASE k # 0 /\ k < n
      BY <2>1, <2>3, <3>2
    <3>3. CASE k = n
      BY <2>1, <3>3
    <3> QED
      BY <2>1, <3>1, <3>2, <3>3
  <2>5. Goes(n, h)
    BY <2>4
  <2> QED
    BY <2>5
<1>3. S = {}
  <2>1. S \subseteq 0..MaxNodes
    OBVIOUS
  <2> HIDE DEF Goes, S
  <2> QED
    BY <1>0, <1>1, <1>2, <2>1, Upward
<1> DEFINE f == rewritings(rule, stores)
<1>4. Goes(MaxNodes, f)
  <2>1. \E h : Goes(MaxNodes, h)
    <3> HIDE DEF Goes
    <3> QED
      BY <1>0, <1>3
  <2> QED
    BY <2>1 DEF rewritings
<1>5. exhausted(rule, stores) = f[MaxNodes]
  BY DEF rewritings, exhausted, nextRewritten
<1> HIDE DEF f
<1>6. \A k \in 0..MaxNodes : f[k] = IF k = 0 THEN stores ELSE nextRewritten(rule, f[k - 1])
  BY <1>4
<1>7. f[0] = stores /\ \A n \in 1..MaxNodes : f[n] = nextRewritten(rule, f[n - 1])
  <2>1. \A n \in 1..MaxNodes : n \in 0..MaxNodes /\ n # 0
    BY <1>0
  <2> QED
    BY <1>0, <1>6, <2>1
<1> QED
  BY <1>5, <1>7 DEF f

LEMMA ExhaustedGood ==
    ASSUME NEW L, NEW rule \in Rules, NEW stores, AllGood(L, stores)
    PROVE  AllGood(L, exhausted(rule, stores))
<1> DEFINE g == rewritings(rule, stores)
           S == {n \in 0..MaxNodes : ~ AllGood(L, g[n])}
<1>1. /\ g[0] = stores /\ \A n \in 1..MaxNodes : g[n] = nextRewritten(rule, g[n - 1])
      /\ exhausted(rule, stores) = g[MaxNodes]
  BY RewritingsAre
<1> HIDE DEF g
<1>2. 0 \notin S
  BY <1>1
<1>3. ASSUME NEW n \in 1..MaxNodes, n - 1 \notin S PROVE n \notin S
  <2>0. n - 1 \in 0..MaxNodes
    BY NoneIsNoId
  <2>1. AllGood(L, g[n - 1])
    BY <1>3, <2>0
  <2> SUFFICES ASSUME NEW y \in g[n] PROVE Good(L, y)
    BY DEF AllGood
  <2> DEFINE next(x) == IF matches(rule, x.tree) = {} THEN {x}
                        ELSE UNION {rewriting(rule, x, i) : i \in matches(rule, x.tree)}
  <2>2. y \in nextRewritten(rule, g[n - 1])
    BY <1>1
  <2>3. y \in UNION {next(x) : x \in g[n - 1]}
    BY <2>2 DEF nextRewritten
  <2> HIDE DEF next
  <2>4. PICK x \in g[n - 1] : y \in next(x)
    BY <2>3
  <2>5. Good(L, x)
    BY <2>1, <2>4 DEF AllGood
  <2>6. CASE matches(rule, x.tree) = {}
    BY <2>4, <2>5, <2>6 DEF next
  <2>7. CASE matches(rule, x.tree) # {}
    <3>1. PICK i \in matches(rule, x.tree) : y \in rewriting(rule, x, i)
      BY <2>4, <2>7 DEF next
    <3> QED
      BY <2>5, <3>1, RewritingGood
  <2> QED
    BY <2>6, <2>7
<1>4. S = {}
  <2>1. S \subseteq 0..MaxNodes /\ MaxNodes \in Nat
    BY NoneIsNoId
  <2> HIDE DEF S
  <2> QED
    BY <1>2, <1>3, <2>1, Upward
<1>5. AllGood(L, g[MaxNodes])
  <2>1. MaxNodes \in 0..MaxNodes
    BY NoneIsNoId
  <2> QED
    BY <1>4, <2>1
<1> QED
  BY <1>1, <1>5

LEMMA OnePassGood ==
    ASSUME NEW L, NEW stores, AllGood(L, stores)
    PROVE  AllGood(L, onePass(stores))
<1> DEFINE Goes(g) == g = [k \in 0..4 |->
                IF k = 0 THEN stores ELSE exhausted(RuleOrder[k], g[k - 1])]
           s1 == exhausted(RuleOrder[1], stores)
           s2 == exhausted(RuleOrder[2], s1)
           s3 == exhausted(RuleOrder[3], s2)
           s4 == exhausted(RuleOrder[4], s3)
           w  == [k \in 0..4 |-> CASE k = 0 -> stores [] k = 1 -> s1 [] k = 2 -> s2
                                   [] k = 3 -> s3 [] k = 4 -> s4]
           f  == CHOOSE g : Goes(g)
<1>1. \A k \in 1..4 : RuleOrder[k] \in Rules
  BY DEF RuleOrder, Rules
<1>2. w[0] = stores /\ w[1] = s1 /\ w[2] = s2 /\ w[3] = s3 /\ w[4] = s4
  <2> HIDE DEF s1, s2, s3, s4
  <2> QED
    OBVIOUS
<1>3. \A k \in 0..4 : w[k] = IF k = 0 THEN stores ELSE exhausted(RuleOrder[k], w[k - 1])
  <2> TAKE k \in 0..4
  <2>1. k = 0 \/ k = 1 \/ k = 2 \/ k = 3 \/ k = 4
    OBVIOUS
  <2>2. 1 - 1 = 0 /\ 2 - 1 = 1 /\ 3 - 1 = 2 /\ 4 - 1 = 3
    OBVIOUS
  <2> HIDE DEF w
  <2> QED
    BY <1>2, <2>1, <2>2
<1>4. Goes(w)
  <2>1. w = [k \in 0..4 |-> w[k]]
    OBVIOUS
  <2> HIDE DEF w
  <2> QED
    BY <1>3, <2>1
<1>5. Goes(f)
  <2> HIDE DEF Goes, w
  <2> QED
    BY <1>4
<1>6. onePass(stores) = f[4]
  BY DEF onePass
<1> HIDE DEF f, w, s1, s2, s3, s4
<1>7. \A k \in 0..4 : f[k] = IF k = 0 THEN stores ELSE exhausted(RuleOrder[k], f[k - 1])
  BY <1>5
<1> HIDE DEF Goes
<1>8. AllGood(L, f[0])
  BY <1>7
<1>9. AllGood(L, f[1])
  BY <1>1, <1>7, <1>8, ExhaustedGood
<1>10. AllGood(L, f[2])
  BY <1>1, <1>7, <1>9, ExhaustedGood
<1>11. AllGood(L, f[3])
  BY <1>1, <1>7, <1>10, ExhaustedGood
<1>12. AllGood(L, f[4])
  BY <1>1, <1>7, <1>11, ExhaustedGood
<1> QED
  BY <1>6, <1>12

nextPass(stores) ==
    UNION {IF settled(x.tree) THEN {x} ELSE onePass({x})
           : x \in stores}

passesOf(m, passes) ==
    LET g[n \in 0..passes] == IF n = 0 THEN {m} ELSE nextPass(g[n - 1]) IN g

LEMMA PassesAre ==
    ASSUME NEW m, NEW passes \in Nat
    PROVE  LET g == passesOf(m, passes)
           IN  /\ g[0] = {m}
               /\ \A n \in 1..passes : g[n] = nextPass(g[n - 1])
               /\ afterPasses(m, passes) = g[passes]
<1> DEFINE Goes(n, g) == g = [k \in 0..n |-> IF k = 0 THEN {m} ELSE nextPass(g[k - 1])]
           S == {n \in 0..passes : ~ \E g : Goes(n, g)}
<1>0. passes \in Nat
  OBVIOUS
<1>1. 0 \notin S
  <2>1. Goes(0, [k \in 0..0 |-> {m}])
    OBVIOUS
  <2> QED
    BY <2>1
<1>2. ASSUME NEW n \in 1..passes, n - 1 \notin S PROVE n \notin S
  <2>1. n - 1 \in 0..passes /\ n \in Nat /\ n # 0
    BY <1>0
  <2>2. PICK g : Goes(n - 1, g)
    BY <1>2, <2>1
  <2> DEFINE h == [k \in 0..n |-> IF k < n THEN g[k] ELSE nextPass(g[n - 1])]
  <2>3. \A k \in 0..(n - 1) : g[k] = IF k = 0 THEN {m} ELSE nextPass(g[k - 1])
    BY <2>2
  <2>4. \A k \in 0..n : h[k] = IF k = 0 THEN {m} ELSE nextPass(h[k - 1])
    <3> TAKE k \in 0..n
    <3>1. CASE k = 0
      BY <2>1, <2>3, <3>1
    <3>2. CASE k # 0 /\ k < n
      BY <2>1, <2>3, <3>2
    <3>3. CASE k = n
      BY <2>1, <3>3
    <3> QED
      BY <2>1, <3>1, <3>2, <3>3
  <2>5. Goes(n, h)
    BY <2>4
  <2> QED
    BY <2>5
<1>3. S = {}
  <2>1. S \subseteq 0..passes
    OBVIOUS
  <2> HIDE DEF Goes, S
  <2> QED
    BY <1>0, <1>1, <1>2, <2>1, Upward
<1> DEFINE f == passesOf(m, passes)
<1>4. Goes(passes, f)
  <2>1. \E h : Goes(passes, h)
    <3> HIDE DEF Goes
    <3> QED
      BY <1>0, <1>3
  <2> QED
    BY <2>1 DEF passesOf
<1>5. afterPasses(m, passes) = f[passes]
  BY DEF passesOf, afterPasses, nextPass
<1> HIDE DEF f
<1>6. \A k \in 0..passes : f[k] = IF k = 0 THEN {m} ELSE nextPass(f[k - 1])
  BY <1>4
<1>7. f[0] = {m} /\ \A n \in 1..passes : f[n] = nextPass(f[n - 1])
  <2>1. \A n \in 1..passes : n \in 0..passes /\ n # 0
    BY <1>0
  <2> QED
    BY <1>0, <1>6, <2>1
<1> QED
  BY <1>5, <1>7 DEF f

LEMMA PassesGood ==
    ASSUME NEW L, NEW m, Good(L, m), NEW passes \in Nat
    PROVE  AllGood(L, afterPasses(m, passes))
<1> DEFINE g == passesOf(m, passes)
           S == {n \in 0..passes : ~ AllGood(L, g[n])}
<1>1. /\ g[0] = {m} /\ \A n \in 1..passes : g[n] = nextPass(g[n - 1])
      /\ afterPasses(m, passes) = g[passes]
  BY PassesAre
<1> HIDE DEF g
<1>2. 0 \notin S
  BY <1>1 DEF AllGood
<1>3. ASSUME NEW n \in 1..passes, n - 1 \notin S PROVE n \notin S
  <2>1. AllGood(L, g[n - 1])
    BY <1>3
  <2> SUFFICES ASSUME NEW y \in g[n] PROVE Good(L, y)
    BY DEF AllGood
  <2> DEFINE next(x) == IF settled(x.tree) THEN {x}
                        ELSE onePass({x})
  <2>2. y \in nextPass(g[n - 1])
    BY <1>1
  <2>3. y \in UNION {next(x) : x \in g[n - 1]}
    BY <2>2 DEF nextPass
  <2> HIDE DEF next
  <2>4. PICK x \in g[n - 1] : y \in next(x)
    BY <2>3
  <2>5. AllGood(L, {x})
    BY <2>1, <2>4 DEF AllGood
  <2>6. AllGood(L, onePass({x}))
    BY <2>5, OnePassGood
  <2> QED
    BY <2>4, <2>5, <2>6 DEF next, AllGood
<1>4. S = {}
  <2>1. S \subseteq 0..passes
    OBVIOUS
  <2> HIDE DEF S
  <2> QED
    BY <1>2, <1>3, <2>1, Upward
<1>5. AllGood(L, g[passes])
  BY <1>4
<1> QED
  BY <1>1, <1>5

LEMMA NormalizedGood ==
    ASSUME NEW L, NEW m, Good(L, m), NEW y \in applyANToFixedPoint(m)
    PROVE  Good(L, y) /\ settled(y.tree)
<1>1. y \in afterPasses(m, MAX_AN_ITERATIONS - 1) /\ settled(y.tree)
  BY DEF applyANToFixedPoint
<1>2. MAX_AN_ITERATIONS - 1 \in Nat
  BY DEF MAX_AN_ITERATIONS
<1> QED
  BY <1>1, <1>2, PassesGood DEF AllGood

(***************************************************************************)
(* A premise stays in order.                                               *)
(***************************************************************************)
Typed(t) == t \in [DOMAIN t -> [kind : Kind, parent : {None} \cup Id, pos : PosMin..PosMax]]

LEMMA StructuralIsSound ==
    ASSUME NEW t, Typed(t), Structural(t)
    PROVE  Sound({}, t)
<1>0. /\ DOMAIN t \subseteq Id
      /\ t \in [DOMAIN t -> [kind : Kind, parent : Spot, pos : PosMin..PosMax]]
  BY DEF Structural, StructuralBut, Typed, Spot
<1>1. ASSUME NEW S \in SUBSET DOMAIN t, S # {}, \A i \in S : t[i].parent \in S PROVE FALSE
  <2>1. PICK i \in S : TRUE
    BY <1>1
  <2>2. \A x \in S : parentOf(t, x) \in S
    BY <1>1 DEF parentOf
  <2>3. MaxNodes \in 0..MaxNodes
    BY NoneIsNoId
  <2>4. climb(t, i)[MaxNodes] \in S
    BY <2>2, <2>3, ClimbStaysIn
  <2>5. climb(t, i)[MaxNodes] = None
    BY DEF Structural, StructuralBut
  <2> QED
    BY <1>0, <2>4, <2>5, NoneIsNoId
<1>2. Forest(t)
  BY <1>0, <1>1 DEF Forest, Founded
<1>3. \A p : Children(t, p) \in SUBSET Id
  BY <1>2, ChildrenAreIds
<1>4. \A i \in DOMAIN t : t[i].parent # None => t[i].parent \in DOMAIN t /\ t[t[i].parent].kind \in Container
  <2>1. "none" \notin Container
    BY KindFacts
  <2> QED
    BY <2>1 DEF Structural, StructuralBut, soundExpression, kindOf
<1>5. \A i \in DOMAIN t : t[i].kind \in Rooted({}) => t[i].parent = None
  BY RestrictedKinds DEF Structural, StructuralBut, soundExpression
<1>6. \A i \in DOMAIN t : t[i].kind \in Single({}) => AtMostOne(Children(t, i))
  BY <1>3, Counted, RestrictedKinds DEF Structural, StructuralBut, soundChildren
<1>7. \A i \in DOMAIN t : t[i].kind \in RootOnly => AtMostTwo(Children(t, i))
  BY <1>3, Counted DEF Structural, StructuralBut
<1>8. "second root" \in {} \/ AtMostOne(Children(t, None))
  BY <1>3, Counted DEF Structural, StructuralBut
<1> QED
  BY <1>2, <1>4, <1>5, <1>6, <1>7, <1>8 DEF Sound

LEMMA SoundIsStructural ==
    ASSUME NEW L, NEW t, Sound(L, t)
    PROVE  StructuralBut(t, L)
<1>0. /\ Forest(t) /\ DOMAIN t \subseteq Id
      /\ \A i \in DOMAIN t : t[i].kind \in Kind /\ t[i].pos \in PosMin..PosMax
  BY DEF Sound, Forest
<1>1. \A p : Children(t, p) \in SUBSET Id
  BY <1>0, ChildrenAreIds
<1>2. ASSUME NEW i \in DOMAIN t
      PROVE  /\ t[i].parent # None => kindOf(t, t[i].parent) \in Container
             /\ "second root" \notin L => soundExpression(t, i)
  <2>1. t[i].parent # i
    <3>1. CASE t[i].parent = None
      BY <1>0, <3>1, NoneIsNoId
    <3>2. CASE t[i].parent # None
      BY <1>0, <3>2, AboveTheirParent, AboveFacts
    <3> QED
      BY <3>1, <3>2
  <2> QED
    BY <1>0, <2>1, RestrictedKinds DEF soundExpression, Sound, kindOf
<1>3. ASSUME NEW i \in DOMAIN t
      PROVE  /\ t[i].kind = "formula" => soundChildren(t, i)
             /\ "two under not" \notin L => soundChildren(t, i)
  <2>1. t[i].kind \in Single(L) => Cardinality(Children(t, i)) <= 1
    BY <1>1, Counted DEF Sound
  <2> QED
    BY <2>1, RestrictedKinds DEF soundChildren
<1>4. ASSUME NEW i \in DOMAIN t PROVE climb(t, i)[MaxNodes] = None
  BY <1>0, ClimbEnds DEF Spot
<1>5. ASSUME NEW i \in DOMAIN t, t[i].kind \in RootOnly PROVE Cardinality(Children(t, i)) <= 2
  BY <1>1, <1>5, Counted DEF Sound
<1>6. "second root" \notin L => Cardinality(Children(t, None)) <= 1
  BY <1>1, Counted DEF Sound
<1> QED
  BY <1>0, <1>2, <1>3, <1>4, <1>5, <1>6 DEF StructuralBut

\* With room there are ids nothing has yet.
LEMMA FreshIds ==
    ASSUME NEW m, DOMAIN m.tree \subseteq Id
    PROVE  /\ Cardinality(DOMAIN m.tree) + 1 <= MaxEdited =>
                 Min(freshIds(m)) \in Id \ DOMAIN m.tree
           /\ Cardinality(DOMAIN m.tree) + 2 <= MaxEdited =>
                 /\ Min(freshIds(m)) \in Id \ DOMAIN m.tree
                 /\ Min(freshIds(m) \ {Min(freshIds(m))}) \in Id \ DOMAIN m.tree
                 /\ Min(freshIds(m) \ {Min(freshIds(m))}) # Min(freshIds(m))
<1> DEFINE D == DOMAIN m.tree
           F == freshIds(m)
           a == Min(F)
<1>1. /\ IsFiniteSet(D) /\ Cardinality(D) \in Nat /\ MaxEdited \in Int /\ MaxEdited <= MaxNodes
      /\ MaxNodes \in Nat /\ F = Id \ D /\ F \in SUBSET Nat
  <2>1. IsFiniteSet(D) /\ Cardinality(D) \in Nat
    BY Counted
  <2>2. MaxEdited \in Int /\ MaxEdited <= MaxNodes /\ MaxNodes \in Nat
    <3>1. MaxNodes \in Nat
      BY NoneIsNoId
    <3>2. MaxEdited \in 0..MaxNodes
      BY TreeAssumption
    <3> QED
      BY <3>1, <3>2
  <2>3. F = Id \ D /\ Id \in SUBSET Nat
    BY DEF freshIds, Id
  <2> QED
    BY <2>1, <2>2, <2>3
<1>2. Cardinality(Id) = MaxNodes
  BY <1>1, FS_Interval DEF Id
<1>3. ASSUME Cardinality(D) + 1 <= MaxEdited PROVE F # {}
  <2>1. CASE F = {}
    <3>1. D = Id
      BY <1>1, <2>1
    <3> QED
      BY <1>1, <1>2, <1>3, <3>1
  <2> QED
    BY <2>1
<1>4. ASSUME Cardinality(D) + 1 <= MaxEdited PROVE a \in Id \ D
  BY <1>1, <1>3, <1>4, MinIsIn
<1>5. ASSUME Cardinality(D) + 2 <= MaxEdited
      PROVE  a \in Id \ D /\ Min(F \ {a}) \in Id \ D /\ Min(F \ {a}) # a
  <2>1. a \in Id \ D
    BY <1>1, <1>4, <1>5
  <2>2. F \ {a} # {}
    <3>1. CASE F \ {a} = {}
      <4>1. Id = D \cup {a} /\ a \notin D
        BY <1>1, <2>1, <3>1
      <4>2. Cardinality(D \cup {a}) = Cardinality(D) + 1
        BY <1>1, <4>1, FS_AddElement
      <4> HIDE DEF a, D, F
      <4> QED
        BY <1>1, <1>2, <1>5, <4>1, <4>2
    <3> QED
      BY <3>1
  <2>3. F \ {a} \in SUBSET Nat
    BY <1>1
  <2> QED
    BY <1>1, <2>1, <2>2, <2>3, MinIsIn
<1> QED
  BY <1>1, <1>4, <1>5

\* What a step leaves.
Kept == /\ Good(breaches', store')
        /\ edits \in Nat => edits' \in Nat /\ (Tidied => settled(store'.tree))

\* What is in order is so whatever more is allowed to break.
LEMMA GoodWeakens ==
    ASSUME NEW m, NEW L, Good(L, m), NEW M, L \subseteq M
    PROVE  Good(M, m)
BY DEF Good, Sound, Rooted, Single

\* A call that may happen has results in order, and in assistive behavior
\* normalizes them.
LEMMA MutatedGood ==
    ASSUME NEW results, NEW breach, \A m \in results : Good(breaches \cup breach, m),
           MutatedBreaching(results, breach)
    PROVE  Kept
<1>1. PICK m \in results : store' \in followUpWithNormalization(m)
  BY DEF MutatedBreaching
<1>2. edits' = edits + 1 /\ behavior' = behavior /\ breaches' = breaches \cup breach
  BY DEF MutatedBreaching
<1>3. edits \in Nat => edits' \in Nat
  BY <1>2
<1>4. CASE behavior = "assistive"
  <2>1. store' \in applyANToFixedPoint(m)
    BY <1>1, <1>4 DEF followUpWithNormalization
  <2>2. Good(breaches \cup breach, store') /\ settled(store'.tree)
    BY <2>1, NormalizedGood
  <2> QED
    BY <1>2, <1>3, <2>2 DEF Kept
<1>5. CASE behavior # "assistive"
  <2>1. store' = m
    BY <1>1, <1>5 DEF followUpWithNormalization
  <2>2. edits \in Nat => ~Tidied
    BY <1>2, <1>5 DEF Tidied
  <2> QED
    BY <1>2, <1>3, <2>1, <2>2 DEF Kept
<1> QED
  BY <1>4, <1>5

LEMMA MutatedKeeps ==
    ASSUME NEW results, \A m \in results : Good(breaches, m), Mutated(results)
    PROVE  Kept
<1>1. MutatedBreaching(results, {}) /\ breaches \cup {} = breaches
  BY DEF Mutated
<1> QED
  BY <1>1, MutatedGood

LEMMA InitIsGood ==
    ASSUME \A t \in Loaded : Structural(t), Init
    PROVE  Good(breaches, store)
<1>1. PICK t \in Loaded : store = loadExpressions(t)
  BY DEF Init
<1>2. Sound({}, t) /\ breaches = {}
  BY LoadedAssumption, StructuralIsSound DEF Typed, Init
<1> QED
  BY <1>1, <1>2 DEF Good, IsStore, loadExpressions

LEMMA NextKeepsGood ==
    ASSUME Good(breaches, store), Next
    PROVE  Kept
<1>0. /\ AskedKinds \subseteq Kind /\ AskedPositions \subseteq Range0
      /\ Node = DOMAIN store.tree /\ Node \subseteq Id
  BY TreeAssumption DEF Range0, Node, Good, Sound, Forest
<1>1. hasRoom(1) => fresh \in Id \ DOMAIN store.tree
  BY <1>0, FreshIds DEF hasRoom, fresh
<1>2. hasRoom(2) => /\ fresh \in Id \ DOMAIN store.tree /\ fresh2 \in Id \ DOMAIN store.tree
                    /\ fresh2 # fresh
  BY <1>0, FreshIds DEF hasRoom, fresh, fresh2
<1>3. CASE AddExpression
  <2>1. PICK k \in AskedKinds, p \in Node \cup {None}, pos \in AskedPositions :
          Mutated(pe_addExpression(store, fresh, k, p, pos))
    BY <1>3 DEF AddExpression
  <2>2. \A y \in pe_addExpression(store, fresh, k, p, pos) : Good(breaches, y)
    BY <1>0, <1>1, <1>3, AddGood DEF AddExpression
  <2> QED
    BY <2>1, <2>2, MutatedKeeps
<1>4. CASE AppendExpression
  <2>1. PICK k \in AskedKinds, p \in Node \cup {None} :
          Mutated(pe_appendExpression(store, fresh, k, p))
    BY <1>4 DEF AppendExpression
  <2>2. \A y \in pe_appendExpression(store, fresh, k, p) : Good(breaches, y)
    BY <1>0, <1>1, <1>4, AddGood DEF AppendExpression
  <2> QED
    BY <2>1, <2>2, MutatedKeeps
<1>5. CASE AddExpressionRelative
  <2>1. PICK k \in AskedKinds, s \in Node, where \in {"before", "after"} :
          MutatedBreaching(pe_addExpressionRelative(store, fresh, k, s, where),
                           IF parentOf(store.tree, s) = None THEN {"second root"} ELSE {})
    BY <1>5 DEF AddExpressionRelative
  <2> DEFINE breach == IF parentOf(store.tree, s) = None THEN {"second root"} ELSE {}
             L == breaches \cup breach
  <2>2. store.tree[s].parent # None \/ "second root" \in L
    BY <1>0, <2>1 DEF parentOf
  <2>3. Good(L, store)
    BY GoodWeakens
  <2> HIDE DEF L
  <2>4. \A y \in pe_addExpressionRelative(store, fresh, k, s, where) : Good(L, y)
    BY <1>0, <1>1, <1>5, <2>2, <2>3, AddRelativeGood DEF AddExpressionRelative
  <2> HIDE DEF breach
  <2> QED
    BY <2>1, <2>4, MutatedGood DEF L, breach
<1>6. CASE UpdateExpression
  <2>1. PICK i \in Node : \/ \E k \in AskedKinds : Mutated(pe_updateKind(store, i, k))
                          \/ \E pos \in AskedPositions : Mutated(pe_updatePosition(store, i, pos))
    BY <1>6 DEF UpdateExpression
  <2>2. ASSUME NEW k \in AskedKinds, Mutated(pe_updateKind(store, i, k)) PROVE Kept
    BY <1>0, <2>2, UpdateKindGood, MutatedKeeps
  <2>3. ASSUME NEW pos \in AskedPositions, Mutated(pe_updatePosition(store, i, pos)) PROVE Kept
    BY <1>0, <2>3, UpdatePositionGood, MutatedKeeps
  <2> QED
    BY <2>1, <2>2, <2>3
<1>7. CASE RemoveExpression
  <2>1. PICK i \in Node, deleteSubtree \in BOOLEAN :
          Mutated(pe_removeExpression(store, i, deleteSubtree))
    BY <1>7 DEF RemoveExpression
  <2> QED
    BY <1>0, <2>1, RemoveGood, MutatedKeeps
<1>8. CASE InsertExpression
  <2>1. PICK k \in AskedKinds, left \in Node \cup {None}, right \in Node \cup {None} :
          Mutated(pe_insertExpression(store, fresh, k, left, right))
    BY <1>8 DEF InsertExpression
  <2>2. \A x \in insertExpression(store, fresh, k, left, right) : Ready(breaches, store, x)
    BY <1>0, <1>1, <1>8, InsertGood DEF InsertExpression
  <2>3. \A y \in pe_insertExpression(store, fresh, k, left, right) : Good(breaches, y)
    BY <2>2, FinalizedGood DEF pe_insertExpression
  <2> QED
    BY <2>1, <2>3, MutatedKeeps
<1>9. CASE WrapExpression
  <2>1. PICK k \in AskedKinds, sk \in AskedKinds, i \in Node, side \in {"left", "right"} :
          Mutated(pe_wrapExpression(store, fresh, k, fresh2, sk, i, side))
    BY <1>9 DEF WrapExpression
  <2>2. \A x \in wrapExpression(store, fresh, k, fresh2, sk, i, side) : Ready(breaches, store, x)
    BY <1>0, <1>2, <1>9, WrapReady DEF WrapExpression
  <2>3. \A y \in pe_wrapExpression(store, fresh, k, fresh2, sk, i, side) : Good(breaches, y)
    BY <2>2, FinalizedGood DEF pe_wrapExpression
  <2> QED
    BY <2>1, <2>3, MutatedKeeps
<1>10. CASE ReparentExpression
  <2>1. PICK i \in Node, p \in Node, pos \in AskedPositions :
          Mutated(pe_reparentExpression(store, i, p, pos))
    BY <1>10 DEF ReparentExpression
  <2>2. \A y \in pe_reparentExpression(store, i, p, pos) : Good(breaches, y)
    BY <1>0, ReparentGood
  <2> QED
    BY <2>1, <2>2, MutatedKeeps
<1>11. CASE WrapInFormula
  <2>1. PICK i \in Node : Mutated(pe_wrapInFormula(store, i, fresh))
    BY <1>11 DEF WrapInFormula
  <2>2. \A x \in wrapInFormula(store, i, fresh) : Ready(breaches, store, x)
    BY <1>0, <1>1, <1>11, WrapInFormulaReady DEF WrapInFormula
  <2>3. \A y \in pe_wrapInFormula(store, i, fresh) : Good(breaches, y)
    BY <2>2, FinalizedGood DEF pe_wrapInFormula
  <2> QED
    BY <2>1, <2>3, MutatedKeeps
<1>12. CASE ToggleNegation
  <2>1. PICK i \in Node : Mutated(pe_toggleNegation(store, i, fresh))
    BY <1>12 DEF ToggleNegation
  <2>2. \A y \in pe_toggleNegation(store, i, fresh) : Good(breaches, y)
    BY <1>0, <1>1, <1>12, ToggleGood DEF ToggleNegation
  <2> QED
    BY <2>1, <2>2, MutatedKeeps
<1>13. CASE ChangeOperator
  <2>1. PICK i \in Node, k \in AskedKinds \cap Operator, a \in Node \cup {None}, b \in Node \cup {None} :
          MutatedBreaching(pe_changeOperator(store, i, k, a, b, fresh, fresh2),
                           IF splitsIntoNot(i, k, a, b) THEN {"two under not"} ELSE {})
    BY <1>13 DEF ChangeOperator
  <2> DEFINE breach == IF splitsIntoNot(i, k, a, b) THEN {"two under not"} ELSE {}
             L == breaches \cup breach
  <2>2. /\ fresh \in Id \ DOMAIN store.tree /\ fresh2 \in Id \ DOMAIN store.tree
        /\ fresh # fresh2 /\ i \in DOMAIN store.tree /\ k \in Operator
    BY <1>0, <1>2, <1>13 DEF ChangeOperator
  <2>3. k = "not" /\ a # b /\ Cardinality(Children(store.tree, i)) > 2 => "two under not" \in L
    BY DEF splitsIntoNot
  <2>4. Good(L, store)
    BY GoodWeakens
  <2> HIDE DEF L
  <2>5. \A y \in pe_changeOperator(store, i, k, a, b, fresh, fresh2) : Good(L, y)
    BY <2>2, <2>3, <2>4, ChangeOperatorGood
  <2> HIDE DEF breach
  <2> QED
    BY <2>1, <2>5, MutatedGood DEF L, breach
<1>14. CASE DeleteExpressionsUsingVariable
  <2>1. PICK v \in Variable : Mutated(pe_deleteExpressionsUsingVariable(store, v))
    BY <1>14 DEF DeleteExpressionsUsingVariable
  <2> QED
    BY <2>1, DeleteUsingGood, MutatedKeeps
<1>15. CASE SetBehavior
  BY <1>15 DEF SetBehavior, Kept, Tidied
<1>16. CASE Normalize
  BY <1>16, NormalizedGood DEF Normalize, Kept
<1> QED
  BY <1>3, <1>4, <1>5, <1>6, <1>7, <1>8, <1>9, <1>10, <1>11, <1>12, <1>13, <1>14, <1>15, <1>16
     DEF Next

(***************************************************************************)
(* What normalization leaves is tidy.                                      *)
(***************************************************************************)
\* Of two expressions above a third, one is above the other.
LEMMA Chain ==
    ASSUME NEW t, Forest(t), NEW j \in Id, NEW a \in selfAndAbove(t, j), NEW c \in selfAndAbove(t, j)
    PROVE  a \in selfAndAbove(t, c) \/ c \in selfAndAbove(t, a)
<1> DEFINE P == {x \in Id : c \in selfAndAbove(t, x)} \cup selfAndAbove(t, c)
<1>0. a \in Id /\ c \in Id
  BY AboveFacts
<1>1. j \in P
  OBVIOUS
<1>2. ASSUME NEW x \in P PROVE parentOf(t, x) \in P \cup {None}
  <2>1. CASE x \in selfAndAbove(t, c)
    BY <1>0, <2>1, AboveFacts
  <2>2. CASE x \notin selfAndAbove(t, c)
    <3>1. x \in Id /\ c \in selfAndAbove(t, x) /\ c # x
      BY <1>0, <2>2, AboveFacts
    <3>2. CASE parentOf(t, x) # None
      BY <3>1, <3>2, AboveByStep
    <3> QED
      BY <3>2
  <2> QED
    BY <2>1, <2>2
<1> HIDE DEF P
<1>3. selfAndAbove(t, j) \subseteq P
  BY <1>1, <1>2, AboveFacts
<1> QED
  BY <1>3 DEF P

LEMMA Antisymmetric ==
    ASSUME NEW t, Forest(t), NEW a \in DOMAIN t, NEW b \in selfAndAbove(t, a),
           a \in selfAndAbove(t, b)
    PROVE  a = b
<1>0. a \in Id
  BY DEF Forest
<1>1. b \in Id
  BY <1>0, AboveFacts
<1> SUFFICES ASSUME a # b PROVE FALSE
  OBVIOUS
<1>2. parentOf(t, a) # None
  <2>1. CASE parentOf(t, a) = None
    <3>1. \A x \in {a} : parentOf(t, x) \in {a} \cup {None}
      BY <2>1
    <3>2. selfAndAbove(t, a) \subseteq {a}
      BY <1>0, <3>1, AboveFacts
    <3> QED
      BY <3>2
  <2> QED
    BY <2>1
<1>3. parentOf(t, a) \in Id /\ selfAndAbove(t, a) = {a} \cup selfAndAbove(t, parentOf(t, a))
  BY <1>0, <1>2, AboveByStep
<1>4. b \in selfAndAbove(t, parentOf(t, a))
  BY <1>3
<1>5. a \in selfAndAbove(t, parentOf(t, a))
  BY <1>3, <1>4, AboveOfAbove
<1>6. parentOf(t, a) = t[a].parent
  BY DEF parentOf
<1> QED
  BY <1>2, <1>5, <1>6, NotAboveParent

LEMMA OnlyChildOf ==
    ASSUME NEW L, NEW t, Sound(L, t), NEW i \in DOMAIN t, AtMostOne(Children(t, i)), ~(Children(t, i) = {})
    PROVE  /\ onlyChild(t, i) # None /\ onlyChild(t, i) \in DOMAIN t
           /\ t[onlyChild(t, i)].parent = i /\ parentOf(t, onlyChild(t, i)) = i
<1>1. Forest(t) /\ onlyChild(t, i) # None
  BY OnlyChildIs DEF Sound
<1>2. onlyChild(t, i) \in Children(t, i)
  BY <1>1, OnlyChildIs
<1> QED
  BY <1>1, <1>2 DEF Children, parentOf

\* A formula above another expression has what the other has.
LEMMA BinaryBelow ==
    ASSUME NEW L, NEW t, Sound(L, t), NEW c \in DOMAIN t, NEW f, t[c].parent = f, f \in DOMAIN t,
           t[c].kind # "formula", hasBinaryOperatorInBoundedSubtree(t, c)
    PROVE  hasBinaryOperatorInBoundedSubtree(t, f)
<1>0. Forest(t) /\ DOMAIN t \subseteq Id /\ f # None /\ c \in Id /\ f \in Id
  BY NoneIsNoId DEF Sound, Forest
<1>1. PICK j \in subtree(t, c) :
        /\ t[j].kind \in Variadic
        /\ \A a \in (selfAndAbove(t, j) \cap subtree(t, c)) \ {c} : t[a].kind # "formula"
  BY DEF hasBinaryOperatorInBoundedSubtree
<1>2. j \in DOMAIN t /\ j \in Id /\ c \in selfAndAbove(t, j) /\ parentOf(t, c) = f
  BY <1>0, <1>1 DEF subtree, parentOf
<1>3. f \in selfAndAbove(t, j)
  BY <1>0, <1>2, AboveFacts
<1>4. j \in subtree(t, f)
  BY <1>2, <1>3 DEF subtree
<1>5. ASSUME NEW a \in (selfAndAbove(t, j) \cap subtree(t, f)) \ {f} PROVE t[a].kind # "formula"
  <2>1. a \in DOMAIN t /\ a \in Id /\ f \in selfAndAbove(t, a) /\ a # f /\ a \in selfAndAbove(t, j)
    BY <1>0, <1>5 DEF subtree
  <2>2. CASE c \in selfAndAbove(t, a)
    BY <1>1, <2>1, <2>2 DEF subtree
  <2>3. CASE c \notin selfAndAbove(t, a)
    <3>1. a \in selfAndAbove(t, c) /\ a # c
      BY <1>0, <1>2, <2>1, <2>3, Chain, AboveFacts
    <3>2. a \in selfAndAbove(t, f)
      BY <1>0, <1>2, <3>1, AboveByStep
    <3> QED
      BY <1>0, <2>1, <3>2, Antisymmetric
  <2> QED
    BY <2>2, <2>3
<1> QED
  BY <1>1, <1>4, <1>5 DEF hasBinaryOperatorInBoundedSubtree

LEMMA SettledIsTidy ==
    ASSUME NEW L, NEW t, Sound(L, t), settled(t), "two under not" \notin L
    PROVE  Tidy(t)
<1>0. /\ doubleNegations(t) = {} /\ collapsible(t) = {} /\ absorbable(t) = {} /\ unbuffered(t) = {}
      /\ Forest(t) /\ None \notin DOMAIN t
  BY NoneIsNoId DEF settled, Sound, Forest
<1>1. P1(t)
  BY <1>0 DEF P1
<1>2. P2(t)
  <2> SUFFICES ASSUME NEW n \in DOMAIN t, t[n].kind = "not", kindOf(t, onlyChild(t, n)) = "not"
               PROVE  FALSE
    BY DEF P2
  <2> DEFINE c == onlyChild(t, n)
  <2>1. c \in DOMAIN t /\ t[c].kind = "not" /\ c # None
    BY <1>0 DEF kindOf
  <2>2. innerNot(t, n) = c
    BY DEF innerNot, kindOf
  <2> HIDE DEF c
  <2>3. onlyChild(t, c) = None
    BY <1>0, <2>1, <2>2 DEF doubleNegations
  <2>4. AtMostOne(Children(t, c))
    BY <2>1, RestrictedKinds DEF Sound
  <2>5. Children(t, c) = {}
    BY <1>0, <2>3, <2>4, OnlyChildIs
  <2>6. c \in collapsible(t)
    BY <2>1, <2>5, KindFacts DEF collapsible
  <2> QED
    BY <1>0, <2>6
<1>3. P4(t)
  <2> SUFFICES ASSUME NEW i \in DOMAIN t, t[i].kind \in Variadic, onlyChild(t, i) # None
               PROVE  FALSE
    BY DEF P4
  <2>1. t[i].kind \in Operator \ {"not"} /\ t[i].kind \in Container
    BY KindFacts
  <2>2. i \in collapsible(t)
    BY <2>1 DEF collapsible
  <2> QED
    BY <1>0, <2>2
<1>4. P5(t)
  <2> SUFFICES ASSUME NEW f \in DOMAIN t, t[f].kind = "formula",
                      kindOf(t, parentOf(t, f)) \in Variadic,
                      kindOf(t, onlyChild(t, f)) = t[parentOf(t, f)].kind
               PROVE  FALSE
    BY DEF P5
  <2> DEFINE c == onlyChild(t, f)
             p == parentOf(t, f)
  <2>1. "none" \notin Variadic
    BY KindFacts
  <2>2. p \in DOMAIN t /\ kindOf(t, p) = t[p].kind /\ t[p].kind \in Variadic
    BY <2>1 DEF kindOf
  <2>3. c \in DOMAIN t /\ t[c].kind = t[p].kind /\ c # None
    BY <1>0, <2>1, <2>2 DEF kindOf
  <2>4. parentOf(t, c) = f
    <3>1. c \in Children(t, f)
      BY <1>0, <2>3, OnlyChildIs
    <3> QED
      BY <3>1 DEF parentOf, Children
  <2>5. outerOf(t, c) = p
    BY <2>4 DEF outerOf, kindOf
  <2> HIDE DEF c, p
  <2>6. c \in absorbable(t)
    BY <2>2, <2>3, <2>5 DEF absorbable
  <2> QED
    BY <1>0, <2>6
<1>5. ASSUME NEW f \in DOMAIN t, t[f].kind = "formula",
             kindOf(t, onlyChild(t, f)) # "formula"
      PROVE  hasBinaryOperatorInBoundedSubtree(t, f)
  <2> DEFINE c == onlyChild(t, f)
  <2>1. f \notin collapsible(t) /\ t[f].kind \in Container /\ AtMostOne(Children(t, f))
    <3>1. "formula" \in Single(L) /\ "formula" \in Container
      BY KindFacts, RestrictedKinds
    <3>2. AtMostOne(Children(t, f))
      BY <1>5, <3>1 DEF Sound
    <3> QED
      BY <1>0, <1>5, <3>1, <3>2
  <2>2. ~(Children(t, f) = {})
    BY <2>1 DEF collapsible
  <2>3. c # None /\ c \in DOMAIN t /\ t[c].parent = f
    BY <2>1, <2>2, OnlyChildOf
  <2>4. hasBinaryOperatorInBoundedSubtree(t, c)
    BY <1>5, <2>1, <2>3 DEF collapsible
  <2>5. t[c].kind # "formula"
    BY <1>5, <2>3 DEF kindOf
  <2> HIDE DEF c
  <2> QED
    BY <2>3, <2>4, <2>5, BinaryBelow
<1> QED
  BY <1>1, <1>2, <1>3, <1>4, <1>5 DEF Tidy

\* A premise loaded in order stays in order under every sequence of edits and
\* normalizations, however large.  No edit of premise-engine.ts leaves an
\* expression under a missing parent or one that has no children, a formula
\* around two, a third operand of implies or iff, a cycle, or a checksum that is
\* not that of what the expression contains.  Only once changeOperator has split
\* two operands off into a not can a not have two children, and only once an
\* expression was added beside the root can there be a second one, or implies or
\* iff below another.
THEOREM AlwaysStructural ==
    ASSUME \A t \in Loaded : Structural(t)
    PROVE  Spec => []StaysStructural
<1> DEFINE Inv == Good(breaches, store)
<1>1. Init => Inv
  BY InitIsGood
<1>2. Inv /\ [Next]_vars => Inv'
  <2>1. ASSUME Inv, Next PROVE Inv'
    BY <2>1, NextKeepsGood DEF Kept
  <2>2. ASSUME Inv, UNCHANGED vars PROVE Inv'
    BY <2>2 DEF vars
  <2> QED
    BY <2>1, <2>2
<1>3. Inv => StaysStructural
  BY SoundIsStructural DEF StaysStructural, Good, soundChecksums
<1> QED
  BY <1>1, <1>2, <1>3, PTL DEF Spec

\* Every edit in assistive behavior and every normalize() that changes anything
\* leaves a premise without a bare operator below an operator, a double
\* negation, a connective of one operand, a like connective behind a formula, or
\* a formula around nothing it is for, unless changeOperator split two operands
\* off into a not: what the driver of the rules stops at.
THEOREM NormalizeAlwaysTidies ==
    ASSUME \A t \in Loaded : Structural(t)
    PROVE  Spec => NormalizeTidies
<1> DEFINE Inv == Good(breaches, store) /\ edits \in Nat
<1>1. Init => Inv
  BY InitIsGood DEF Init
<1>2. Inv /\ [Next]_vars => Inv'
  <2>1. ASSUME Inv, Next PROVE Good(breaches', store')
    BY <2>1, NextKeepsGood DEF Kept
  <2>2. ASSUME Inv, Next PROVE edits' \in Nat
    BY <2>2, NextKeepsGood DEF Kept
  <2>3. ASSUME Inv, UNCHANGED vars PROVE Inv'
    BY <2>3 DEF vars
  <2> QED
    BY <2>1, <2>2, <2>3
<1>3. Inv /\ [Next]_vars
        => [Tidied /\ "two under not" \notin breaches' => Tidy(store'.tree)]_vars
  <2>1. ASSUME Inv, Next, Tidied, "two under not" \notin breaches' PROVE Tidy(store'.tree)
    <3>1. Good(breaches', store') /\ settled(store'.tree)
      BY <2>1, NextKeepsGood DEF Kept
    <3> QED
      BY <2>1, <3>1, SettledIsTidy DEF Good
  <2> QED
    BY <2>1
<1> QED
  BY <1>1, <1>2, <1>3, PTL DEF Spec, NormalizeTidies
=============================================================================
