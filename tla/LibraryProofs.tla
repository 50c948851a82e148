---------------------------- MODULE LibraryProofs ----------------------------
(***************************************************************************)
(* Proofs about the claim libraries (ClaimGraph) and about forkArgument    *)
(* over them (ForkArgument), for any claims, contents, arguments, restored *)
(* snapshots and bounds; and about the origin library (OriginLibrary).     *)
(***************************************************************************)
EXTENDS ForkArgument, OriginLibrary, FiniteSetTheorems, TLAPS

(***************************************************************************)
(* Reachability and acyclicity                                             *)
(***************************************************************************)
\* The search from seed finds seed itself and the supporting side of every
\* connection it walks.
LEMMA ReachableIsClosed ==
    ASSUME NEW seed, NEW edges
    PROVE  /\ seed \subseteq ReachableFrom(seed, edges)
           /\ ClosedUnder(ReachableFrom(seed, edges), edges)
<1>1. seed \subseteq ReachableFrom(seed, edges)
  BY DEF ReachableFrom
<1>2. ASSUME NEW e \in edges, e.claim \in ReachableFrom(seed, edges)
      PROVE  e.supporting \in ReachableFrom(seed, edges)
  <2>1. e.supporting \in seed \cup supporters(edges)
    BY DEF supporters
  <2>2. ASSUME NEW T \in SUBSET (seed \cup supporters(edges)),
               seed \subseteq T, ClosedUnder(T, edges)
        PROVE  e.supporting \in T
    <3>1. e.claim \in T
      BY <1>2, <2>2 DEF ReachableFrom
    <3> QED
      BY <3>1, <2>2 DEF ClosedUnder
  <2> QED
    BY <2>1, <2>2 DEF ReachableFrom
<1> QED
  BY <1>1, <1>2 DEF ClosedUnder

\* It finds nothing outside a closed set that contains seed.
LEMMA ReachableIsLeast ==
    ASSUME NEW seed, NEW edges, NEW T, seed \subseteq T, ClosedUnder(T, edges)
    PROVE  ReachableFrom(seed, edges) \subseteq T
<1> DEFINE ends == seed \cup supporters(edges)
           U == T \cap ends
<1>1. U \in SUBSET ends /\ seed \subseteq U
  OBVIOUS
<1>2. ClosedUnder(U, edges)
  BY DEF ClosedUnder, supporters
<1> QED
  BY <1>1, <1>2 DEF ReachableFrom

\* A claim found from d, other than d, is found from a direct support of d.
LEMMA FirstStep ==
    ASSUME NEW edges, NEW d, NEW c \in ReachableFrom({d}, edges), c # d
    PROVE  \E e \in edges : e.claim = d /\ c \in ReachableFrom({e.supporting}, edges)
<1> DEFINE direct == {e \in edges : e.claim = d}
           T == {d} \cup UNION {ReachableFrom({e.supporting}, edges) : e \in direct}
<1>1. ASSUME NEW e \in edges, e.claim \in T
      PROVE  e.supporting \in T
  <2>1. CASE e.claim = d
    <3>1. e.supporting \in ReachableFrom({e.supporting}, edges)
      BY ReachableIsClosed
    <3> QED
      BY <2>1, <3>1
  <2>2. CASE e.claim # d
    <3>1. PICK f \in direct : e.claim \in ReachableFrom({f.supporting}, edges)
      BY <1>1, <2>2
    <3>2. e.supporting \in ReachableFrom({f.supporting}, edges)
      BY <3>1, ReachableIsClosed DEF ClosedUnder
    <3> QED
      BY <3>1, <3>2
  <2> QED
    BY <2>1, <2>2
<1>2. ClosedUnder(T, edges)
  BY <1>1 DEF ClosedUnder
<1>3. c \in T
  BY <1>2, ReachableIsLeast
<1> QED
  BY <1>3

\* Acyclicity over the dependent claims is acyclicity over any claims.
LEMMA AcyclicEverywhere ==
    ASSUME NEW edges, AcyclicGraph(edges), NEW T, T # {}
    PROVE  \E x \in T : \A e \in edges : e.claim = x => e.supporting \notin T
<1>1. CASE T \subseteq dependents(edges)
  BY <1>1 DEF AcyclicGraph
<1>2. CASE ~(T \subseteq dependents(edges))
  <2>1. PICK x \in T : x \notin dependents(edges)
    BY <1>2
  <2> QED
    BY <2>1 DEF dependents
<1> QED
  BY <1>1, <1>2

\* Without connections nothing is cyclic, and dropping one closes no cycle.
LEMMA AcyclicSubset ==
    ASSUME NEW edges, AcyclicGraph(edges), NEW fewer \in SUBSET edges
    PROVE  AcyclicGraph(fewer)
<1> SUFFICES ASSUME NEW T \in (SUBSET dependents(fewer)) \ {{}}
             PROVE  \E x \in T : \A e \in fewer : e.claim = x => e.supporting \notin T
  BY DEF AcyclicGraph
<1> QED
  BY AcyclicEverywhere

\* A connection from c to s closes a cycle exactly if c is found from s, or is s.
LEMMA CycleIffReachable ==
    ASSUME NEW edges, AcyclicGraph(edges), NEW new
    PROVE  new.claim \in ReachableFrom({new.supporting}, edges)
               <=> ~AcyclicGraph(edges \cup {new})
<1> DEFINE c == new.claim
           s == new.supporting
           more == edges \cup {new}
           R == ReachableFrom({s}, edges)
<1>1. ASSUME c \in R
      PROVE  ~AcyclicGraph(more)
  <2> DEFINE T == {d \in R : c \in ReachableFrom({d}, edges)}
  <2>1. c \in T /\ s \in T
    BY <1>1, ReachableIsClosed
  <2>2. ASSUME NEW d \in T
        PROVE  \E e \in more : e.claim = d /\ e.supporting \in T
    <3>1. CASE d = c
      BY <2>1, <3>1
    <3>2. CASE d # c
      <4>1. PICK e \in edges :
              e.claim = d /\ c \in ReachableFrom({e.supporting}, edges)
        BY <2>2, <3>2, FirstStep
      <4>2. e.supporting \in R
        BY <2>2, <4>1, ReachableIsClosed DEF ClosedUnder
      <4> QED
        BY <4>1, <4>2
    <3> QED
      BY <3>1, <3>2
  <2>3. T \in (SUBSET dependents(more)) \ {{}}
    BY <2>1, <2>2 DEF dependents
  <2>4. {x \in T : \A e \in more : e.claim = x => e.supporting \notin T} = {}
    BY <2>2
  <2> QED
    BY <2>3, <2>4 DEF AcyclicGraph
<1>2. ASSUME c \notin R, NEW T \in (SUBSET dependents(more)) \ {{}}
      PROVE  \E x \in T : \A e \in more : e.claim = x => e.supporting \notin T
  <2>1. s \in R /\ ClosedUnder(R, edges)
    BY ReachableIsClosed
  <2>2. CASE T \cap R # {}
    <3>1. PICK x \in T \cap R :
            \A e \in edges : e.claim = x => e.supporting \notin T \cap R
      BY <2>2, AcyclicEverywhere
    <3>2. \A e \in edges : e.claim = x => e.supporting \notin T
      BY <2>1, <3>1 DEF ClosedUnder
    <3>3. x # c
      BY <1>2, <3>1
    <3> QED
      BY <3>1, <3>2, <3>3
  <2>3. CASE T \cap R = {}
    <3>1. PICK x \in T : \A e \in edges : e.claim = x => e.supporting \notin T
      BY <1>2, AcyclicEverywhere
    <3>2. s \notin T
      BY <2>1, <2>3
    <3> QED
      BY <3>1, <3>2
  <2> QED
    BY <2>2, <2>3
<1>3. ASSUME c \notin R
      PROVE  AcyclicGraph(more)
  BY <1>2, <1>3 DEF AcyclicGraph
<1> QED
  BY <1>1, <1>3

(***************************************************************************)
(* Types                                                                   *)
(***************************************************************************)
\* A claim has a latest version, which is one of its versions.
LEMMA HasCurrent ==
    ASSUME GraphTypeOK, NEW c \in DOMAIN claims
    PROVE  /\ claims[c] \in Claim
           /\ claims[c].type \in ClaimType
           /\ claims[c].versions \in Seq(Version)
           /\ Len(claims[c].versions) \in Nat \ {0}
           /\ getCurrent(c) \in Version
<1>1. claims[c] \in Claim
  BY DEF GraphTypeOK
<1>2. /\ claims[c].versions \in Seq(Version)
      /\ claims[c].versions # <<>>
      /\ claims[c].type \in ClaimType
  BY <1>1 DEF Claim
<1>3. Len(claims[c].versions) \in Nat \ {0}
  BY <1>2
<1> QED
  BY <1>1, <1>2, <1>3 DEF getCurrent

\* An update replaces the content of the current version of one claim.
LEMMA UpdateStep ==
    ASSUME GraphTypeOK, NEW c, NEW t \in ClaimType, NEW b \in Content,
           updateClaim(c, t, b)
    PROVE  /\ c \in DOMAIN claims
           /\ DOMAIN claims' = DOMAIN claims
           /\ \A d \in DOMAIN claims \ {c} : claims'[d] = claims[d]
           /\ claims'[c] =
                [type |-> claims[c].type,
                 versions |-> [claims[c].versions EXCEPT
                   ![Len(claims[c].versions)] = [getCurrent(c) EXCEPT !.content = b]]]
<1> DEFINE n == Len(claims[c].versions)
<1>1. c \in DOMAIN claims
  BY DEF updateClaim
<1>2. claims' = [claims EXCEPT ![c].versions[n].content = b]
  BY DEF updateClaim
<1>3. claims[c] = [type |-> claims[c].type, versions |-> claims[c].versions]
  BY <1>1, HasCurrent DEF Claim
<1> QED
  BY <1>1, <1>2, <1>3 DEF getCurrent

\* A freeze marks the current version and appends a copy that is not frozen.
LEMMA FreezeStep ==
    ASSUME GraphTypeOK, NEW c, freezeClaim(c)
    PROVE  /\ c \in DOMAIN claims
           /\ DOMAIN claims' = DOMAIN claims
           /\ \A d \in DOMAIN claims \ {c} : claims'[d] = claims[d]
           /\ claims'[c] =
                [type |-> claims[c].type,
                 versions |-> Append(
                   [claims[c].versions EXCEPT
                     ![Len(claims[c].versions)] = [getCurrent(c) EXCEPT !.frozen = TRUE]],
                   [getCurrent(c) EXCEPT !.frozen = FALSE])]
<1>1. c \in DOMAIN claims
  BY DEF freezeClaim
<1>2. claims' = [claims EXCEPT
          ![c].versions = Append([@ EXCEPT ![Len(@)].frozen = TRUE],
                                 [getCurrent(c) EXCEPT !.frozen = FALSE])]
  BY DEF freezeClaim
<1>3. claims[c] = [type |-> claims[c].type, versions |-> claims[c].versions]
  BY <1>1, HasCurrent DEF Claim
<1> QED
  BY <1>1, <1>2, <1>3 DEF getCurrent

\* A claim before and after a step: what FrozenIsForever asks of each claim.
Kept(old, new) ==
    /\ new.type = old.type
    /\ \A v \in DOMAIN old.versions :
          /\ v \in DOMAIN new.versions
          /\ old.versions[v].frozen => new.versions[v] = old.versions[v]

\* A claim is kept when its versions are and the frozen ones are unchanged.
LEMMA KeptWhen ==
    ASSUME NEW old, NEW us, DOMAIN old.versions \subseteq DOMAIN us,
           \A v \in DOMAIN old.versions :
              old.versions[v].frozen => us[v] = old.versions[v]
    PROVE  Kept(old, [type |-> old.type, versions |-> us])
BY DEF Kept

\* An update keeps the claim: it changes the current version, which is not frozen.
LEMMA UpdateKeeps ==
    ASSUME GraphTypeOK, NEW c, NEW t \in ClaimType, NEW b \in Content,
           updateClaim(c, t, b)
    PROVE  claims'[c] \in Claim /\ Kept(claims[c], claims'[c])
<1> DEFINE vs == claims[c].versions
           n == Len(vs)
           last == [getCurrent(c) EXCEPT !.content = b]
           ws == [vs EXCEPT ![n] = last]
<1>1. /\ c \in DOMAIN claims
      /\ claims'[c] = [type |-> claims[c].type, versions |-> ws]
  BY UpdateStep
<1>2. /\ vs \in Seq(Version) /\ n \in Nat \ {0}
      /\ claims[c].type \in ClaimType /\ getCurrent(c) \in Version
  BY <1>1, HasCurrent
<1>3. last \in Version
  BY <1>2 DEF Version
<1>4. ws \in Seq(Version) /\ Len(ws) = n
  BY <1>2, <1>3
<1>5. ws # <<>>
  BY <1>2, <1>4
<1>6. claims'[c] \in Claim
  BY <1>1, <1>2, <1>4, <1>5 DEF Claim
<1>7. ~vs[n].frozen
  BY <1>1 DEF updateClaim, getCurrent
<1>8. DOMAIN vs = 1 .. n /\ DOMAIN ws = 1 .. n
  BY <1>2, <1>4
<1>9. \A v \in 1 .. n : vs[v].frozen => ws[v] = vs[v]
  BY <1>2, <1>7
<1>10. Kept(claims[c], claims'[c])
  BY <1>1, <1>8, <1>9, KeptWhen
<1> QED
  BY <1>6, <1>10

\* A freeze keeps the claim.
LEMMA FreezeKeeps ==
    ASSUME GraphTypeOK, NEW c, freezeClaim(c)
    PROVE  claims'[c] \in Claim /\ Kept(claims[c], claims'[c])
<1> DEFINE vs == claims[c].versions
           n == Len(vs)
           last == [getCurrent(c) EXCEPT !.frozen = TRUE]
           next == [getCurrent(c) EXCEPT !.frozen = FALSE]
           ws == [vs EXCEPT ![n] = last]
           us == Append(ws, next)
<1>1. /\ c \in DOMAIN claims
      /\ claims'[c] = [type |-> claims[c].type, versions |-> us]
  BY FreezeStep
<1>2. /\ vs \in Seq(Version) /\ n \in Nat \ {0}
      /\ claims[c].type \in ClaimType /\ getCurrent(c) \in Version
  BY <1>1, HasCurrent
<1>3. last \in Version /\ next \in Version
  BY <1>2 DEF Version
<1>4. ws \in Seq(Version) /\ Len(ws) = n
  BY <1>2, <1>3
<1>5. /\ us \in Seq(Version) /\ Len(us) = n + 1
      /\ \A v \in 1 .. n : us[v] = ws[v]
  BY <1>2, <1>3, <1>4
<1>6. us # <<>>
  BY <1>2, <1>5
<1>7. claims'[c] \in Claim
  BY <1>1, <1>2, <1>5, <1>6 DEF Claim
<1>8. ~vs[n].frozen
  BY <1>1 DEF freezeClaim, getCurrent
<1>9. DOMAIN vs = 1 .. n /\ DOMAIN us = 1 .. n + 1
  BY <1>2, <1>5
<1>10. \A v \in 1 .. n : v \in 1 .. n + 1 /\ (vs[v].frozen => us[v] = vs[v])
  BY <1>2, <1>5, <1>8
<1>11. Kept(claims[c], claims'[c])
  BY <1>1, <1>9, <1>10, KeptWhen
<1> QED
  BY <1>7, <1>11

\* Any step keeps every claim, and keeps the types.
LEMMA ClaimsStep ==
    ASSUME GraphTypeOK, [GraphNext]_graphVars
    PROVE  /\ GraphTypeOK'
           /\ \A c \in DOMAIN claims :
                 c \in DOMAIN claims' /\ Kept(claims[c], claims'[c])
<1> USE DEF GraphTypeOK
<1>1. ASSUME NEW c \in DOMAIN claims
      PROVE  Kept(claims[c], claims[c])
  BY DEF Kept
<1>2. ASSUME UNCHANGED claims, citations' \subseteq Connection,
             axioms' \subseteq Connection
      PROVE  /\ GraphTypeOK'
             /\ \A c \in DOMAIN claims :
                   c \in DOMAIN claims' /\ Kept(claims[c], claims'[c])
  BY <1>1, <1>2
<1>3. ASSUME NEW in \in ClaimInput, NEW b \in Content,
             createClaim(in.id, in.type, b)
      PROVE  /\ GraphTypeOK'
             /\ \A c \in DOMAIN claims :
                   c \in DOMAIN claims' /\ Kept(claims[c], claims'[c])
  <2> DEFINE first == FirstVersion(in.type, b)
  <2>1. in.id \in ClaimId /\ in.type \in ClaimType
    BY ClaimAssumption
  <2>2. <<[content |-> b, frozen |-> FALSE]>> \in Seq(Version) \ {<<>>}
    BY DEF Version
  <2>3. first \in Claim
    BY <2>1, <2>2 DEF FirstVersion, Claim
  <2>4. /\ DOMAIN claims' = DOMAIN claims \cup {in.id}
        /\ claims'[in.id] = first
        /\ \A c \in DOMAIN claims : claims'[c] = claims[c]
    BY <1>3 DEF createClaim, WithClaims
  <2>5. GraphTypeOK'
    BY <1>3, <2>1, <2>3, <2>4 DEF createClaim
  <2> QED
    BY <1>1, <2>4, <2>5
<1>4. ASSUME NEW c \in Editable, NEW t \in ClaimType, NEW b \in Content,
             updateClaim(c, t, b)
      PROVE  /\ GraphTypeOK'
             /\ \A d \in DOMAIN claims :
                   d \in DOMAIN claims' /\ Kept(claims[d], claims'[d])
  <2>1. claims'[c] \in Claim /\ Kept(claims[c], claims'[c])
    BY <1>4, UpdateKeeps
  <2>2. /\ c \in DOMAIN claims /\ DOMAIN claims' = DOMAIN claims
        /\ \A d \in DOMAIN claims \ {c} : claims'[d] = claims[d]
    BY <1>4, UpdateStep
  <2>3. UNCHANGED <<citations, axioms>>
    BY <1>4 DEF updateClaim
  <2> QED
    BY <1>1, <2>1, <2>2, <2>3
<1>5. ASSUME NEW c \in Editable, freezeClaim(c)
      PROVE  /\ GraphTypeOK'
             /\ \A d \in DOMAIN claims :
                   d \in DOMAIN claims' /\ Kept(claims[d], claims'[d])
  <2>1. claims'[c] \in Claim /\ Kept(claims[c], claims'[c])
    BY <1>5, FreezeKeeps
  <2>2. /\ c \in DOMAIN claims /\ DOMAIN claims' = DOMAIN claims
        /\ \A d \in DOMAIN claims \ {c} : claims'[d] = claims[d]
    BY <1>5, FreezeStep
  <2>3. UNCHANGED <<citations, axioms>>
    BY <1>5 DEF freezeClaim
  <2> QED
    BY <1>1, <2>1, <2>2, <2>3
<1>6. CASE \E e \in Linkable : addCitation(e) \/ addAxiom(e)
  BY <1>2, <1>6, ClaimAssumption DEF addCitation, addAxiom
<1>7. CASE (\E e \in citations : removeCitation(e)) \/ (\E e \in axioms : removeAxiom(e))
  BY <1>2, <1>7 DEF removeCitation, removeAxiom
<1>8. CASE UNCHANGED graphVars
  BY <1>2, <1>8 DEF graphVars
<1> QED
  BY <1>3, <1>4, <1>5, <1>6, <1>7, <1>8 DEF GraphNext

\* The libraries hold what their types say.
THEOREM GraphTypes == GraphSpec => []GraphTypeOK
<1>1. GraphInit => GraphTypeOK
  BY ClaimAssumption DEF GraphInit, GraphTypeOK
<1>2. GraphTypeOK /\ [GraphNext]_graphVars => GraphTypeOK'
  BY ClaimsStep
<1> QED
  BY <1>1, <1>2, PTL DEF GraphSpec

\* What freezing pins down stays: no step of any library changes the content of
\* a frozen version, drops a version or changes the type of a claim.
THEOREM FrozenStays == GraphSpec => FrozenIsForever
<1>1. GraphTypeOK /\ [GraphNext]_graphVars =>
        \A c \in DOMAIN claims :
          /\ c \in DOMAIN claims'
          /\ claims'[c].type = claims[c].type
          /\ \A v \in DOMAIN claims[c].versions :
                /\ v \in DOMAIN claims'[c].versions
                /\ claims[c].versions[v].frozen =>
                      claims'[c].versions[v] = claims[c].versions[v]
  BY ClaimsStep DEF Kept
<1> QED
  BY <1>1, GraphTypes, PTL DEF GraphSpec, FrozenIsForever

(***************************************************************************)
(* The three libraries agree                                               *)
(***************************************************************************)
\* Every claim is there after the step, with what it had.
AllKept == \A c \in DOMAIN claims : c \in DOMAIN claims' /\ Kept(claims[c], claims'[c])

\* A version that is there stays, of a claim of the same type.
LEMMA VersionsStay ==
    ASSUME GraphTypeOK, GraphTypeOK', AllKept, NEW c, NEW v \in Nat, HasVersion(c, v)
    PROVE  HasVersion(c, v)' /\ claims'[c].type = claims[c].type
<1>1. c \in DOMAIN claims /\ v + 1 \in 1 .. Len(claims[c].versions)
  BY DEF HasVersion
<1>2. c \in DOMAIN claims' /\ Kept(claims[c], claims'[c])
  BY <1>1 DEF AllKept
<1>3. /\ claims[c].versions \in Seq(Version)
      /\ claims'[c].versions \in Seq(Version)
  BY <1>1, <1>2 DEF GraphTypeOK, Claim
<1>4. v + 1 \in DOMAIN claims'[c].versions
  BY <1>1, <1>2, <1>3 DEF Kept
<1>5. v + 1 \in 1 .. Len(claims'[c].versions)
  BY <1>3, <1>4
<1> QED
  BY <1>2, <1>5 DEF HasVersion, Kept

\* A reference that resolves goes on resolving, at the same type.
LEMMA RefsStayResolved ==
    ASSUME GraphTypeOK, [GraphNext]_graphVars, NEW e \in Connection, RefsResolve(e)
    PROVE  /\ RefsResolve(e)'
           /\ claims'[e.claim].type = claims[e.claim].type
           /\ claims'[e.supporting].type = claims[e.supporting].type
<1>1. e.claimVersion \in Nat /\ e.supportingVersion \in Nat
  BY DEF Connection
<1>2. GraphTypeOK' /\ AllKept
  BY ClaimsStep DEF AllKept
<1> QED
  BY <1>1, <1>2, VersionsStay DEF RefsResolve

\* Any step of the three libraries keeps them in agreement.
LEMMA SoundStep ==
    ASSUME GraphTypeOK, GraphSound, [GraphNext]_graphVars
    PROVE  GraphSound'
<1>1. ASSUME NEW edges \in SUBSET Connection, CitationsValid(edges)
      PROVE  /\ \A e \in edges : RefsResolve(e)' /\ claims'[e.supporting].type = "citation"
             /\ AcyclicGraph(edges)
  BY <1>1, RefsStayResolved DEF CitationsValid
<1>2. ASSUME NEW edges \in SUBSET Connection, AxiomsValid(edges)
      PROVE  \A e \in edges : /\ RefsResolve(e)'
                              /\ claims'[e.claim].type = "normal"
                              /\ claims'[e.supporting].type = "axiomatic"
  BY <1>2, RefsStayResolved DEF AxiomsValid
<1>3. ASSUME UNCHANGED <<citations, axioms>>
      PROVE  GraphSound'
  BY <1>1, <1>2, <1>3 DEF GraphSound, CitationsValid, AxiomsValid, GraphTypeOK
<1>4. CASE \E in \in ClaimInput, b \in Content : createClaim(in.id, in.type, b)
  BY <1>3, <1>4 DEF createClaim
<1>5. CASE \E c \in Editable : \/ \E t \in ClaimType, b \in Content : updateClaim(c, t, b)
                               \/ freezeClaim(c)
  BY <1>3, <1>5 DEF updateClaim, freezeClaim
<1>6. ASSUME UNCHANGED claims,
             CitationsValid(citations'), AxiomsValid(axioms')
      PROVE  GraphSound'
  BY <1>6 DEF GraphSound, CitationsValid, AxiomsValid, RefsResolve, HasVersion
<1>7. CASE \E e \in Linkable : addCitation(e) \/ addAxiom(e)
  BY <1>6, <1>7 DEF GraphSound, addCitation, addAxiom
<1>8. ASSUME NEW e \in citations, removeCitation(e)
      PROVE  GraphSound'
  <2>1. AcyclicGraph(citations \ {e})
    BY AcyclicSubset DEF GraphSound, CitationsValid
  <2> QED
    BY <1>6, <1>8, <2>1 DEF GraphSound, CitationsValid, removeCitation
<1>9. CASE \E e \in axioms : removeAxiom(e)
  BY <1>6, <1>9 DEF GraphSound, AxiomsValid, removeAxiom
<1>10. CASE UNCHANGED graphVars
  BY <1>3, <1>10 DEF graphVars
<1> QED
  BY <1>4, <1>5, <1>7, <1>8, <1>9, <1>10 DEF GraphNext

\* Every connection resolves at both ends and joins claims of the types its kind
\* allows, and citations never form a cycle, though no library validates another.
THEOREM StaysSound == GraphSpec => []GraphSound
<1>1. GraphInit => GraphSound
  BY DEF GraphInit, GraphSound, CitationsValid, AxiomsValid, AcyclicGraph, dependents
<1>2. GraphTypeOK /\ GraphSound /\ [GraphNext]_graphVars => GraphSound'
  BY SoundStep
<1> QED
  BY <1>1, <1>2, GraphTypes, PTL DEF GraphSpec

\* A claim of type normal is found from no other: nothing cites it.
LEMMA NormalIsNotReached ==
    ASSUME GraphSound, NEW c, claims[c].type = "normal",
           NEW s, claims[s].type = "citation"
    PROVE  c \notin ReachableFrom({s}, citations)
<1> DEFINE T == {s} \cup supporters(citations)
<1>1. ClosedUnder(T, citations) /\ {s} \subseteq T
  BY DEF ClosedUnder, supporters
<1>2. c \notin T
  BY DEF GraphSound, CitationsValid, supporters
<1> QED
  BY <1>1, <1>2, ReachableIsLeast

\* The check before the write refuses a citation exactly when it would close a
\* cycle, the shortcut that waves normal claims through included: the validation
\* after the write never has a cycle left to find.
THEOREM CheckIsExact == GraphSpec => []CycleCheckExact
<1>1. GraphSound => CycleCheckExact
  <2> SUFFICES ASSUME GraphSound, NEW c \in DOMAIN claims, NEW s \in DOMAIN claims,
                      claims[s].type = "citation"
               PROVE  wouldCreateCycle(c, s) <=>
                        ~AcyclicGraph(citations \cup
                            {[claim |-> c, claimVersion |-> 0,
                              supporting |-> s, supportingVersion |-> 0]})
    BY DEF CycleCheckExact
  <2> DEFINE new == [claim |-> c, claimVersion |-> 0,
                     supporting |-> s, supportingVersion |-> 0]
  <2>1. AcyclicGraph(citations)
    BY DEF GraphSound, CitationsValid
  <2>2. new.claim = c /\ new.supporting = s
    OBVIOUS
  <2>3. c \in ReachableFrom({s}, citations) <=> ~AcyclicGraph(citations \cup {new})
    BY <2>1, <2>2, CycleIffReachable
  <2>4. wouldCreateCycle(c, s) <=> c \in ReachableFrom({s}, citations)
    BY NormalIsNotReached DEF wouldCreateCycle
  <2> QED
    BY <2>3, <2>4
<1> QED
  BY <1>1, StaysSound, PTL

(***************************************************************************)
(* Fresh ids                                                               *)
(***************************************************************************)
\* Where there are ids enough, generateId gives each claim of a closure one of
\* its own that no claim has.
LEMMA FreshIdsExist ==
    ASSUME NEW closure \in SUBSET ClaimId,
           Cardinality(closure) <= Cardinality(ClaimId \ DOMAIN claims)
    PROVE  /\ FreshIds(closure) \in [closure -> ClaimId \ DOMAIN claims]
           /\ \A c, d \in closure :
                 FreshIds(closure)[c] = FreshIds(closure)[d] => c = d
<1> DEFINE free == ClaimId \ DOMAIN claims
           m == Cardinality(closure)
           n == Cardinality(free)
<1>1. IsFiniteSet(closure) /\ IsFiniteSet(free)
  BY ClaimAssumption, FS_Subset
<1>2. m \in Nat /\ n \in Nat
  BY <1>1, FS_CardinalityType
<1>3. PICK f \in Bijection(1 .. m, closure) : TRUE
  BY <1>1, FS_CardinalityType DEF ExistsBijection
<1>4. PICK g \in Bijection(1 .. n, free) : TRUE
  BY <1>1, FS_CardinalityType DEF ExistsBijection
<1>5. /\ f \in [1 .. m -> closure] /\ \A x \in closure : \E i \in 1 .. m : f[i] = x
      /\ g \in [1 .. n -> free]
      /\ \A i, j \in 1 .. n : g[i] = g[j] => i = j
  BY <1>3, <1>4 DEF Bijection, Injection, Surjection, IsInjective
<1> DEFINE at(x) == CHOOSE i \in 1 .. m : f[i] = x
           h == [x \in closure |-> g[at(x)]]
<1>6. \A x \in closure : at(x) \in 1 .. n /\ f[at(x)] = x
  <2>1. \A x \in closure : at(x) \in 1 .. m /\ f[at(x)] = x
    BY <1>5
  <2> HIDE DEF at
  <2> QED
    BY <1>2, <2>1
<1> HIDE DEF at
<1>7. h \in [closure -> free]
  BY <1>5, <1>6
<1>8. ASSUME NEW x \in closure, NEW y \in closure, h[x] = h[y]
      PROVE  x = y
  <2>1. g[at(x)] = g[at(y)]
    BY <1>8
  <2>2. at(x) = at(y)
    BY <1>5, <1>6, <2>1
  <2> QED
    BY <1>6, <2>2
<1>9. h \in Injection(closure, free)
  BY <1>7, <1>8 DEF Injection, IsInjective
<1>10. FreshIds(closure) \in Injection(closure, free)
  BY <1>9 DEF FreshIds
<1> QED
  BY <1>10 DEF Injection, IsInjective

(***************************************************************************)
(* Clones                                                                  *)
(***************************************************************************)
\* Each claim cloned is there, and its clone has an id of its own that was free.
Renames(remap) ==
    /\ \A c \in DOMAIN remap : c \in DOMAIN claims /\ remap[c] \in ClaimId \ DOMAIN claims
    /\ \A c, d \in DOMAIN remap : remap[c] = remap[d] => c = d

\* What a fork writes to the claims: one clone for each claim, at version 0 with
\* the current content, and nothing else changes.
LEMMA ClonesWritten ==
    ASSUME GraphTypeOK, NEW remap, Renames(remap), claims' = WithClaims(Clones(remap))
    PROVE  /\ DOMAIN claims' = DOMAIN claims \cup Range(remap)
           /\ \A c \in DOMAIN claims : claims'[c] = claims[c]
           /\ \A c \in DOMAIN remap :
                 /\ claims'[remap[c]] = FirstVersion(claims[c].type, getCurrent(c).content)
                 /\ claims'[remap[c]] \in Claim
<1> DEFINE clones == Clones(remap)
           original(d) == CHOOSE x \in DOMAIN remap : remap[x] = d
<1>1. DOMAIN clones = Range(remap)
  BY DEF Clones
<1>2. Range(remap) \cap DOMAIN claims = {}
  BY DEF Renames, Range
<1>3. DOMAIN claims' = DOMAIN claims \cup Range(remap)
  BY <1>1 DEF WithClaims
<1>4. \A c \in DOMAIN claims : claims'[c] = claims[c]
  BY <1>1, <1>2 DEF WithClaims
<1>5. ASSUME NEW c \in DOMAIN remap
      PROVE  /\ claims'[remap[c]] = FirstVersion(claims[c].type, getCurrent(c).content)
             /\ claims'[remap[c]] \in Claim
  <2>1. remap[c] \in Range(remap)
    BY DEF Range
  <2>2. original(remap[c]) = c
    <3>1. /\ original(remap[c]) \in DOMAIN remap
          /\ remap[original(remap[c])] = remap[c]
      OBVIOUS
    <3> HIDE DEF original
    <3> QED
      BY <3>1 DEF Renames
  <2>3. clones[remap[c]] = FirstVersion(claims[c].type, getCurrent(c).content)
    <3>1. clones[remap[c]] = FirstVersion(claims[original(remap[c])].type,
                                          getCurrent(original(remap[c])).content)
      BY <2>1 DEF Clones
    <3> QED
      BY <3>1, <2>2
  <2>4. claims'[remap[c]] = clones[remap[c]]
    BY <1>1, <2>1 DEF WithClaims
  <2>5. claims[c].type \in ClaimType /\ getCurrent(c) \in Version
    BY HasCurrent DEF Renames
  <2>6. <<[content |-> getCurrent(c).content, frozen |-> FALSE]>> \in Seq(Version) \ {<<>>}
    BY <2>5 DEF Version
  <2> QED
    BY <2>3, <2>4, <2>5, <2>6 DEF FirstVersion, Claim
<1> QED
  BY <1>3, <1>4, <1>5

\* The clone of a claim has version 0, and a fork keeps every claim.
LEMMA ClonesTyped ==
    ASSUME GraphTypeOK, NEW remap, Renames(remap), claims' = WithClaims(Clones(remap))
    PROVE  /\ DOMAIN claims' \subseteq ClaimId
           /\ \A c \in DOMAIN claims' : claims'[c] \in Claim
           /\ AllKept
           /\ \A c \in DOMAIN remap :
                 /\ remap[c] \in DOMAIN claims'
                 /\ 0 + 1 \in 1 .. Len(claims'[remap[c]].versions)
                 /\ claims'[remap[c]].type = claims[c].type
<1>0. /\ DOMAIN claims' = DOMAIN claims \cup Range(remap)
      /\ \A c \in DOMAIN claims : claims'[c] = claims[c]
      /\ \A c \in DOMAIN remap :
            /\ claims'[remap[c]] = FirstVersion(claims[c].type, getCurrent(c).content)
            /\ claims'[remap[c]] \in Claim
  BY ClonesWritten
<1>1. \A d \in Range(remap) : \E c \in DOMAIN remap : d = remap[c] /\ d \in ClaimId
  BY DEF Renames, Range
<1>2. \A c \in DOMAIN claims : claims[c] \in Claim /\ c \in ClaimId
  BY DEF GraphTypeOK
<1>3. \A c \in DOMAIN claims' : c \in ClaimId /\ claims'[c] \in Claim
  BY <1>0, <1>1, <1>2
<1>4. AllKept
  BY <1>0 DEF AllKept, Kept
<1>5. ASSUME NEW c \in DOMAIN remap
      PROVE  /\ remap[c] \in DOMAIN claims'
             /\ 0 + 1 \in 1 .. Len(claims'[remap[c]].versions)
             /\ claims'[remap[c]].type = claims[c].type
  <2>1. remap[c] \in DOMAIN claims'
    BY <1>0 DEF Range
  <2> DEFINE vs == <<[content |-> getCurrent(c).content, frozen |-> FALSE]>>
  <2>2. claims'[remap[c]] = [type |-> claims[c].type, versions |-> vs]
    BY <1>0 DEF FirstVersion
  <2>3. Len(vs) = 1
    OBVIOUS
  <2> HIDE DEF vs
  <2>4. claims'[remap[c]].type = claims[c].type /\ claims'[remap[c]].versions = vs
    BY <2>2
  <2>5. Len(claims'[remap[c]].versions) = 1
    BY <2>3, <2>4
  <2>6. 0 + 1 \in 1 .. Len(claims'[remap[c]].versions)
    BY <2>5
  <2> QED
    BY <2>1, <2>4, <2>6
<1> QED
  BY <1>3, <1>4, <1>5

\* Where a connection a fork adds comes from: its dependent end is the clone of
\* the end of an original, its supporting end a clone or a claim that was kept.
LEMMA CloneOf ==
    ASSUME NEW edges \in SUBSET Connection, NEW remap, Renames(remap), NEW kept,
           NEW f \in cloneConnections(edges, remap, kept)
    PROVE  /\ f \in Connection
           /\ \E e \in edges :
                 /\ e.claim \in DOMAIN remap
                 /\ f.claim = remap[e.claim] /\ f.claimVersion = 0
                 /\ \/ /\ e.supporting \in DOMAIN remap
                       /\ f.supporting = remap[e.supporting]
                       /\ f.supportingVersion = 0
                    \/ /\ e.supporting \in kept
                       /\ e.supporting \notin DOMAIN remap
                       /\ f.supporting = e.supporting
                       /\ f.supportingVersion = e.supportingVersion
<1>1. CASE \E e \in edges :
              /\ e.claim \in DOMAIN remap /\ e.supporting \in DOMAIN remap
              /\ f = [claim |-> remap[e.claim], claimVersion |-> 0,
                      supporting |-> remap[e.supporting], supportingVersion |-> 0]
  BY <1>1 DEF Renames, Connection
<1>2. CASE \E e \in edges :
              /\ e.claim \in DOMAIN remap /\ e.supporting \notin DOMAIN remap
              /\ e.supporting \in kept
              /\ f = [e EXCEPT !.claim = remap[e.claim], !.claimVersion = 0]
  <2>1. PICK e \in edges :
              /\ e.claim \in DOMAIN remap /\ e.supporting \notin DOMAIN remap
              /\ e.supporting \in kept
              /\ f = [e EXCEPT !.claim = remap[e.claim], !.claimVersion = 0]
    BY <1>2
  <2>2. e \in Connection /\ remap[e.claim] \in ClaimId
    BY <2>1 DEF Renames
  <2>3. /\ f.claim = remap[e.claim] /\ f.claimVersion = 0
        /\ f.supporting = e.supporting /\ f.supportingVersion = e.supportingVersion
        /\ f \in Connection
    BY <2>1, <2>2 DEF Connection
  <2> QED
    BY <2>1, <2>3
<1> QED
  BY <1>1, <1>2 DEF cloneConnections

\* And every connection of a cloned claim to one that is cloned or kept has one.
LEMMA CloneFor ==
    ASSUME NEW edges \in SUBSET Connection, NEW remap, NEW kept,
           NEW e \in edges, e.claim \in DOMAIN remap,
           e.supporting \in DOMAIN remap \/ e.supporting \in kept
    PROVE  \E f \in cloneConnections(edges, remap, kept) :
              /\ f.claim = remap[e.claim]
              /\ f.supporting = IF e.supporting \in DOMAIN remap
                                THEN remap[e.supporting] ELSE e.supporting
<1>1. CASE e.supporting \in DOMAIN remap
  <2> DEFINE f == [claim |-> remap[e.claim], claimVersion |-> 0,
                   supporting |-> remap[e.supporting], supportingVersion |-> 0]
  <2>1. f \in cloneConnections(edges, remap, kept)
    BY <1>1 DEF cloneConnections
  <2> QED
    BY <1>1, <2>1
<1>2. CASE e.supporting \notin DOMAIN remap
  <2> DEFINE f == [e EXCEPT !.claim = remap[e.claim], !.claimVersion = 0]
  <2>1. f \in cloneConnections(edges, remap, kept)
    BY <1>2 DEF cloneConnections
  <2>2. f.claim = remap[e.claim] /\ f.supporting = e.supporting
    BY DEF Connection
  <2> QED
    BY <1>2, <2>1, <2>2
<1> QED
  BY <1>1, <1>2

\* Clones close no cycle: they rest on clones as the originals on originals, or
\* on claims there were, which never rest on a clone.
LEMMA AcyclicClones ==
    ASSUME NEW edges \in SUBSET Connection, AcyclicGraph(edges),
           \A e \in edges : e.claim \in DOMAIN claims /\ e.supporting \in DOMAIN claims,
           NEW remap, Renames(remap), NEW kept
    PROVE  AcyclicGraph(edges \cup cloneConnections(edges, remap, kept))
<1> DEFINE new == cloneConnections(edges, remap, kept)
<1> SUFFICES ASSUME NEW T \in (SUBSET dependents(edges \cup new)) \ {{}}
             PROVE  \E x \in T : \A e \in edges \cup new :
                        e.claim = x => e.supporting \notin T
  BY DEF AcyclicGraph
<1>1. ASSUME NEW f \in new
      PROVE  \E e \in edges :
                /\ e.claim \in DOMAIN remap
                /\ f.claim = remap[e.claim]
                /\ \/ f.supporting \in DOMAIN claims
                   \/ e.supporting \in DOMAIN remap /\ f.supporting = remap[e.supporting]
  BY <1>1, CloneOf
<1>2. \A f \in new : f.claim \notin DOMAIN claims
  BY <1>1 DEF Renames
<1> HIDE DEF new
<1>3. CASE T \cap DOMAIN claims # {}
  <2> DEFINE old == T \cap DOMAIN claims
  <2>1. PICK x \in old : \A e \in edges : e.claim = x => e.supporting \notin old
    BY <1>3, AcyclicEverywhere
  <2> QED
    BY <1>2, <2>1
<1>4. CASE T \cap DOMAIN claims = {}
  <2> DEFINE S == {c \in DOMAIN remap : remap[c] \in T}
  <2>1. PICK y \in T : TRUE
    OBVIOUS
  <2>2. PICK f \in edges \cup new : f.claim = y
    BY <2>1 DEF dependents
  <2>3. f \in new
    BY <1>4, <2>1, <2>2
  <2>4. S # {}
    BY <1>1, <2>1, <2>2, <2>3
  <2>5. PICK c \in S : \A e \in edges : e.claim = c => e.supporting \notin S
    BY <2>4, AcyclicEverywhere
  <2>6. ASSUME NEW g \in edges \cup new, g.claim = remap[c]
        PROVE  g.supporting \notin T
    <3>1. g \in new
      BY <1>4, <2>5, <2>6
    <3>2. PICK e \in edges :
                /\ e.claim \in DOMAIN remap
                /\ g.claim = remap[e.claim]
                /\ \/ g.supporting \in DOMAIN claims
                   \/ e.supporting \in DOMAIN remap /\ g.supporting = remap[e.supporting]
      BY <1>1, <3>1
    <3>3. e.claim = c
      BY <2>5, <2>6, <3>2 DEF Renames
    <3>4. e.supporting \notin S
      BY <2>5, <3>3
    <3> QED
      BY <1>4, <3>2, <3>4
  <2> QED
    BY <2>5, <2>6
<1> QED
  BY <1>3, <1>4

\* The libraries of claims agree after a fork as before it.
LEMMA ForkStaysSound ==
    ASSUME GraphTypeOK, GraphSound, NEW remap, Renames(remap), NEW kept,
           claims' = WithClaims(Clones(remap)),
           citations' = citations \cup cloneConnections(citations, remap, kept),
           axioms' = axioms \cup cloneConnections(axioms, remap, kept)
    PROVE  GraphTypeOK' /\ AllKept /\ GraphSound'
<1> DEFINE Resolved(e) ==
              /\ e.claim \in DOMAIN claims'
              /\ e.claimVersion + 1 \in 1 .. Len(claims'[e.claim].versions)
              /\ e.supporting \in DOMAIN claims'
              /\ e.supportingVersion + 1 \in 1 .. Len(claims'[e.supporting].versions)
<1>1. citations \subseteq Connection /\ axioms \subseteq Connection
  BY DEF GraphTypeOK
<1>2. /\ \A c \in DOMAIN remap :
            /\ remap[c] \in DOMAIN claims'
            /\ 0 + 1 \in 1 .. Len(claims'[remap[c]].versions)
            /\ claims'[remap[c]].type = claims[c].type
      /\ AllKept
  BY ClonesTyped
<1>3. GraphTypeOK'
  <2>1. \A f \in cloneConnections(citations, remap, kept) : f \in Connection
    BY <1>1, CloneOf
  <2>2. \A f \in cloneConnections(axioms, remap, kept) : f \in Connection
    BY <1>1, CloneOf
  <2>3. DOMAIN claims' \subseteq ClaimId /\ \A c \in DOMAIN claims' : claims'[c] \in Claim
    BY ClonesTyped
  <2> QED
    BY <1>1, <2>1, <2>2, <2>3 DEF GraphTypeOK
<1>4. ASSUME NEW e \in Connection, RefsResolve(e)
      PROVE  /\ Resolved(e)
             /\ e.claim \in DOMAIN claims /\ e.supporting \in DOMAIN claims
             /\ claims'[e.claim].type = claims[e.claim].type
             /\ claims'[e.supporting].type = claims[e.supporting].type
  <2>1. e.claimVersion \in Nat /\ e.supportingVersion \in Nat
    BY DEF Connection
  <2>2. HasVersion(e.claim, e.claimVersion) /\ HasVersion(e.supporting, e.supportingVersion)
    BY <1>4 DEF RefsResolve
  <2>3. /\ HasVersion(e.claim, e.claimVersion)'
        /\ claims'[e.claim].type = claims[e.claim].type
    BY <1>2, <1>3, <2>1, <2>2, VersionsStay
  <2>4. /\ HasVersion(e.supporting, e.supportingVersion)'
        /\ claims'[e.supporting].type = claims[e.supporting].type
    BY <1>2, <1>3, <2>1, <2>2, VersionsStay
  <2> QED
    BY <2>2, <2>3, <2>4 DEF HasVersion
<1>5. ASSUME NEW edges \in SUBSET Connection, \A e \in edges : RefsResolve(e),
             NEW f \in cloneConnections(edges, remap, kept)
      PROVE  /\ Resolved(f)
             /\ \E e \in edges :
                   /\ claims'[f.claim].type = claims[e.claim].type
                   /\ claims'[f.supporting].type = claims[e.supporting].type
  <2>1. PICK e \in edges :
                 /\ e.claim \in DOMAIN remap
                 /\ f.claim = remap[e.claim] /\ f.claimVersion = 0
                 /\ \/ /\ e.supporting \in DOMAIN remap
                       /\ f.supporting = remap[e.supporting]
                       /\ f.supportingVersion = 0
                    \/ /\ e.supporting \in kept
                       /\ e.supporting \notin DOMAIN remap
                       /\ f.supporting = e.supporting
                       /\ f.supportingVersion = e.supportingVersion
    BY CloneOf
  <2>2. Resolved(e) /\ claims'[e.supporting].type = claims[e.supporting].type
    BY <1>4, <1>5
  <2>3. /\ f.claim \in DOMAIN claims'
        /\ f.claimVersion + 1 \in 1 .. Len(claims'[f.claim].versions)
        /\ claims'[f.claim].type = claims[e.claim].type
    BY <1>2, <2>1
  <2>4. /\ f.supporting \in DOMAIN claims'
        /\ f.supportingVersion + 1 \in 1 .. Len(claims'[f.supporting].versions)
        /\ claims'[f.supporting].type = claims[e.supporting].type
    BY <1>2, <2>1, <2>2
  <2> QED
    BY <2>3, <2>4
<1>6. ASSUME NEW e \in citations'
      PROVE  Resolved(e) /\ claims'[e.supporting].type = "citation"
  <2>1. \A g \in citations : RefsResolve(g) /\ claims[g.supporting].type = "citation"
    BY DEF GraphSound, CitationsValid
  <2> HIDE DEF Resolved
  <2>2. CASE e \in citations
    BY <1>1, <1>4, <2>1, <2>2
  <2>3. CASE e \in cloneConnections(citations, remap, kept)
    BY <1>1, <1>5, <2>1, <2>3
  <2> QED
    BY <1>6, <2>2, <2>3
<1>7. ASSUME NEW e \in axioms'
      PROVE  /\ Resolved(e)
             /\ claims'[e.claim].type = "normal" /\ claims'[e.supporting].type = "axiomatic"
  <2>1. \A g \in axioms : /\ RefsResolve(g)
                          /\ claims[g.claim].type = "normal"
                          /\ claims[g.supporting].type = "axiomatic"
    BY DEF GraphSound, AxiomsValid
  <2> HIDE DEF Resolved
  <2>2. CASE e \in axioms
    BY <1>1, <1>4, <2>1, <2>2
  <2>3. CASE e \in cloneConnections(axioms, remap, kept)
    BY <1>1, <1>5, <2>1, <2>3
  <2> QED
    BY <1>7, <2>2, <2>3
<1>8. AcyclicGraph(citations')
  <2>1. \A e \in citations : e.claim \in DOMAIN claims /\ e.supporting \in DOMAIN claims
    BY DEF GraphSound, CitationsValid, RefsResolve, HasVersion
  <2>2. AcyclicGraph(citations)
    BY DEF GraphSound, CitationsValid
  <2> QED
    BY <1>1, <2>1, <2>2, AcyclicClones
<1> QED
  BY <1>2, <1>3, <1>6, <1>7, <1>8
     DEF GraphSound, CitationsValid, AxiomsValid, RefsResolve, HasVersion

(***************************************************************************)
(* What a fork does                                                        *)
(***************************************************************************)
\* The inductive invariant.  A fork clones what its pins bind and what supports
\* it, so it needs to know that both are there; and a record stays a record of
\* this fork alone because no claim it names was free.
ForkInv ==
    /\ TypeOK
    /\ GraphSound
    /\ RefsSound
    /\ \A r \in claimForks : r.entity \in DOMAIN claims

\* The version an argument is at is one of its versions, and its pins are pins.
LEMMA PinsTyped ==
    ASSUME TypeOK, NEW a \in DOMAIN arguments
    PROVE  /\ arguments[a] = [answers |-> arguments[a].answers,
                              versions |-> arguments[a].versions]
           /\ arguments[a].answers \in Range(Answers)
           /\ arguments[a].versions \in Seq(SUBSET Pin)
           /\ Len(arguments[a].versions) \in Nat \ {0}
           /\ pinsOf(a) \in Range(arguments[a].versions)
           /\ pinsOf(a) \in SUBSET Pin
<1>1. arguments[a] \in [answers : Range(Answers), versions : Seq(SUBSET Pin) \ {<<>>}]
  BY DEF TypeOK
<1>2. /\ arguments[a] = [answers |-> arguments[a].answers,
                         versions |-> arguments[a].versions]
      /\ arguments[a].answers \in Range(Answers)
      /\ arguments[a].versions \in Seq(SUBSET Pin)
      /\ arguments[a].versions # <<>>
  BY <1>1
<1>3. Len(arguments[a].versions) \in Nat \ {0}
  BY <1>2
<1>4. /\ Len(arguments[a].versions) \in DOMAIN arguments[a].versions
      /\ pinsOf(a) \in SUBSET Pin
  BY <1>2, <1>3 DEF pinsOf
<1>5. pinsOf(a) \in Range(arguments[a].versions)
  BY <1>4 DEF pinsOf, Range
<1> QED
  BY <1>2, <1>3, <1>4, <1>5

\* What is cloned: claims there are, none of those kept, every other claim the
\* variables bind, and with a claim what supports it unless that is kept.
LEMMA ClosureClones ==
    ASSUME ForkInv, NEW a \in DOMAIN arguments, NEW kept
    PROVE  /\ collectClaimClosure(a, kept) \subseteq DOMAIN claims
           /\ collectClaimClosure(a, kept) \cap kept = {}
           /\ claimsIn(pinsOf(a)) \subseteq DOMAIN claims
           /\ claimsIn(pinsOf(a)) \subseteq collectClaimClosure(a, kept) \cup kept
           /\ \A e \in citations \cup axioms :
                 e.claim \in collectClaimClosure(a, kept) =>
                     e.supporting \in collectClaimClosure(a, kept) \cup kept
<1> DEFINE seed == claimsIn(pinsOf(a)) \ kept
           edges == {e \in citations \cup axioms : e.supporting \notin kept}
           closure == ReachableFrom(seed, edges)
<1>1. collectClaimClosure(a, kept) = closure
  BY DEF collectClaimClosure
<1>2. pinsOf(a) \in Range(arguments[a].versions)
  BY PinsTyped DEF ForkInv
<1>3. claimsIn(pinsOf(a)) \subseteq DOMAIN claims
  BY <1>2 DEF ForkInv, RefsSound, HasVersion, claimsIn
<1>4. \A e \in citations \cup axioms : e.supporting \in DOMAIN claims
  BY DEF ForkInv, GraphSound, CitationsValid, AxiomsValid, RefsResolve, HasVersion
<1>5. closure \subseteq DOMAIN claims
  <2>1. seed \subseteq DOMAIN claims /\ ClosedUnder(DOMAIN claims, edges)
    BY <1>3, <1>4 DEF ClosedUnder
  <2> HIDE DEF seed, edges
  <2> QED
    BY <2>1, ReachableIsLeast
<1>6. closure \cap kept = {}
  BY DEF ReachableFrom, supporters
<1>7. seed \subseteq closure /\ ClosedUnder(closure, edges)
  <2> HIDE DEF seed, edges
  <2> QED
    BY ReachableIsClosed
<1>8. \A e \in citations \cup axioms :
         e.claim \in closure => e.supporting \in closure \cup kept
  BY <1>7 DEF ClosedUnder
<1>9. claimsIn(pinsOf(a)) \subseteq closure \cup kept
  BY <1>7
<1> HIDE DEF closure
<1> QED
  BY <1>1, <1>3, <1>5, <1>6, <1>8, <1>9

\* A fork step with the renaming it chooses: a renaming of the closure to ids
\* that were free, and the whole of what is written.
ForkWrites(a, n, remap, kept) ==
    /\ Renames(remap)
    /\ DOMAIN remap = collectClaimClosure(a, kept)
    /\ claims' = WithClaims(Clones(remap))
    /\ citations' = citations \cup cloneConnections(citations, remap, kept)
    /\ axioms' = axioms \cup cloneConnections(axioms, remap, kept)
    /\ n \in DOMAIN arguments => UNCHANGED <<arguments, claimForks, argumentForks>>
    /\ n \notin DOMAIN arguments =>
          /\ DOMAIN arguments' = DOMAIN arguments \cup {n}
          /\ arguments'[n] = [answers |-> arguments[a].answers,
                versions |-> <<rebuildWithRemappedClaims(pinsOf(a), remap)>>]
          /\ \A x \in DOMAIN arguments : arguments'[x] = arguments[x]
          /\ createForkRecords(a, n, remap)

LEMMA ForkStep ==
    ASSUME ForkInv, NEW a, NEW n \in ArgumentId, NEW passed, forkArgument(a, n, passed)
    PROVE  /\ a \in DOMAIN arguments /\ forks' = forks + 1 /\ UNCHANGED released
           /\ \E kept, remap : kept = claimsSharedWithAnswered(a)
                               /\ ForkWrites(a, n, remap, kept)
<1>1. a \in DOMAIN arguments /\ forks' = forks + 1 /\ UNCHANGED released
  BY DEF forkArgument
<1>2. PICK kept : kept = claimsSharedWithAnswered(a)
  OBVIOUS
<1>3. PICK closure : closure = collectClaimClosure(a, kept)
  OBVIOUS
<1>4. PICK remap : remap = FreshIds(closure)
  OBVIOUS
<1>5. /\ Cardinality(closure) <= Cardinality(ClaimId \ DOMAIN claims)
      /\ claims' = WithClaims(Clones(remap))
      /\ citations' = citations \cup cloneConnections(citations, remap, kept)
      /\ axioms' = axioms \cup cloneConnections(axioms, remap, kept)
      /\ IF n \in DOMAIN arguments
         THEN UNCHANGED <<arguments, claimForks, argumentForks>>
         ELSE /\ arguments' = [x \in DOMAIN arguments \cup {n} |->
                    IF x = n
                    THEN [answers |-> arguments[a].answers,
                          versions |-> <<rebuildWithRemappedClaims(pinsOf(a), remap)>>]
                    ELSE arguments[x]]
              /\ createForkRecords(a, n, remap)
  BY <1>2, <1>3, <1>4 DEF forkArgument
<1>6. closure \subseteq DOMAIN claims
  BY <1>1, <1>3, ClosureClones
<1>7. closure \in SUBSET ClaimId
  BY <1>6 DEF ForkInv, TypeOK, GraphTypeOK
<1>8. /\ remap \in [closure -> ClaimId \ DOMAIN claims]
      /\ \A c, d \in closure : remap[c] = remap[d] => c = d
  BY <1>4, <1>5, <1>7, FreshIdsExist
<1>9. Renames(remap) /\ DOMAIN remap = closure
  BY <1>6, <1>8 DEF Renames
<1>10. ForkWrites(a, n, remap, kept)
  BY <1>3, <1>5, <1>9 DEF ForkWrites
<1> QED
  BY <1>1, <1>2, <1>10

\* Pins that are there stay there, when the claims keep their versions.
LEMMA PinsStay ==
    ASSUME ForkInv, GraphTypeOK', AllKept, NEW a \in DOMAIN arguments,
           NEW pins \in Range(arguments[a].versions), NEW p \in pins
    PROVE  p \in Pin /\ HasVersion(p.claim, p.version) /\ HasVersion(p.claim, p.version)'
<1>1. HasVersion(p.claim, p.version)
  BY DEF ForkInv, RefsSound
<1>2. p \in Pin
  <2>1. arguments[a].versions \in Seq(SUBSET Pin)
    BY PinsTyped DEF ForkInv
  <2>2. PICK i \in DOMAIN arguments[a].versions : pins = arguments[a].versions[i]
    BY DEF Range
  <2> QED
    BY <2>1, <2>2
<1>3. p.version \in Nat
  BY <1>2 DEF Pin
<1>4. GraphTypeOK
  BY DEF ForkInv, TypeOK
<1> QED
  BY <1>1, <1>2, <1>3, <1>4, VersionsStay

\* When the arguments stay as they are and the claims keep their versions, every
\* pin stays resolved.
LEMMA RefsStay ==
    ASSUME ForkInv, GraphTypeOK', AllKept, UNCHANGED arguments
    PROVE  RefsSound'
<1>1. ASSUME NEW a \in DOMAIN arguments, NEW pins \in Range(arguments[a].versions),
             NEW p \in pins
      PROVE  HasVersion(p.claim, p.version)'
  BY PinsStay
<1> QED
  BY <1>1 DEF RefsSound

\* The pins of a fork: those of the original, a clone at version 0 for a claim.
LEMMA RebuiltPins ==
    ASSUME ForkInv, NEW a \in DOMAIN arguments, NEW remap, Renames(remap),
           claims' = WithClaims(Clones(remap)), GraphTypeOK', AllKept,
           NEW q \in rebuildWithRemappedClaims(pinsOf(a), remap)
    PROVE  q \in Pin /\ HasVersion(q.claim, q.version)'
<1>1. pinsOf(a) \in Range(arguments[a].versions)
  BY PinsTyped DEF ForkInv
<1>2. PICK p \in pinsOf(a) :
        q = IF p.claim \in DOMAIN remap THEN [claim |-> remap[p.claim], version |-> 0] ELSE p
  BY DEF rebuildWithRemappedClaims
<1>3. CASE p.claim \in DOMAIN remap
  <2>1. /\ remap[p.claim] \in DOMAIN claims'
        /\ 0 + 1 \in 1 .. Len(claims'[remap[p.claim]].versions)
    BY <1>3, ClonesTyped DEF ForkInv, TypeOK
  <2>2. remap[p.claim] \in ClaimId
    BY <1>3 DEF Renames
  <2>3. q.claim = remap[p.claim] /\ q.version = 0 /\ q \in Pin
    BY <1>2, <1>3, <2>2 DEF Pin
  <2> QED
    BY <2>1, <2>3 DEF HasVersion
<1>4. CASE p.claim \notin DOMAIN remap
  BY <1>1, <1>2, <1>4, PinsStay
<1> QED
  BY <1>3, <1>4

\* A fork keeps the invariant, and every claim with its versions.
LEMMA ForkKeeps ==
    ASSUME ForkInv, NEW a, NEW n \in ArgumentId, NEW passed, forkArgument(a, n, passed)
    PROVE  ForkInv' /\ AllKept
<1>1. a \in DOMAIN arguments /\ forks' = forks + 1 /\ UNCHANGED released
  BY ForkStep
<1>0. ReleasedOK'
  BY <1>1 DEF ForkInv, TypeOK, ReleasedOK
<1>2. PICK kept, remap : ForkWrites(a, n, remap, kept)
  BY ForkStep
<1>3. /\ Renames(remap) /\ claims' = WithClaims(Clones(remap))
      /\ GraphTypeOK' /\ AllKept /\ GraphSound'
  BY <1>2, ForkStaysSound DEF ForkWrites, ForkInv, TypeOK
<1>4. \A c \in DOMAIN claims : c \in DOMAIN claims'
  BY <1>3 DEF AllKept
<1>5. \A c \in DOMAIN remap : remap[c] \in DOMAIN claims'
  BY <1>3, ClonesTyped DEF ForkInv, TypeOK
<1>6. CASE n \in DOMAIN arguments
  <2>1. UNCHANGED <<arguments, claimForks, argumentForks>>
    BY <1>2, <1>6 DEF ForkWrites
  <2>2. RefsSound'
    BY <1>3, <2>1, RefsStay
  <2>3. TypeOK'
    BY <1>0, <1>1, <1>3, <2>1 DEF ForkInv, TypeOK
  <2> QED
    BY <1>3, <1>4, <2>1, <2>2, <2>3 DEF ForkInv
<1>7. CASE n \notin DOMAIN arguments
  <2> DEFINE pins == rebuildWithRemappedClaims(pinsOf(a), remap)
  <2>1. /\ DOMAIN arguments' = DOMAIN arguments \cup {n}
        /\ arguments'[n] = [answers |-> arguments[a].answers, versions |-> <<pins>>]
        /\ \A x \in DOMAIN arguments : arguments'[x] = arguments[x]
        /\ createForkRecords(a, n, remap)
    BY <1>2, <1>7 DEF ForkWrites
  <2>2. \A q \in pins : q \in Pin /\ HasVersion(q.claim, q.version)'
    BY <1>1, <1>3, RebuiltPins
  <2> HIDE DEF pins
  <2>3. arguments'[n] \in [answers : Range(Answers), versions : Seq(SUBSET Pin) \ {<<>>}]
    <3>1. <<pins>> \in Seq(SUBSET Pin) \ {<<>>}
      BY <2>2
    <3>2. arguments[a].answers \in Range(Answers)
      BY <1>1, PinsTyped DEF ForkInv
    <3> QED
      BY <2>1, <3>1, <3>2
  <2>4. \A v \in Range(arguments'[n].versions) : v = pins
    BY <2>1 DEF Range
  <2>5. RefsSound'
    <3> SUFFICES ASSUME NEW x \in DOMAIN arguments',
                        NEW v \in Range(arguments'[x].versions), NEW p \in v
                 PROVE  HasVersion(p.claim, p.version)'
      BY DEF RefsSound
    <3>1. CASE x = n
      BY <2>2, <2>4, <3>1
    <3>2. CASE x # n
      <4>1. x \in DOMAIN arguments /\ arguments'[x] = arguments[x]
        BY <2>1, <3>2
      <4> QED
        BY <1>3, <4>1, PinsStay
    <3> QED
      BY <3>1, <3>2
  <2>6. /\ claimForks' \subseteq [entity : ClaimId, from : ClaimId, fromVersion : Nat,
                                  argument : ArgumentId]
        /\ DOMAIN argumentForks' \subseteq ArgumentId
        /\ Range(argumentForks') \subseteq ArgumentId
        /\ \A r \in claimForks' : r.entity \in DOMAIN claims'
    <3>0. /\ a \in ArgumentId
          /\ claimForks \subseteq [entity : ClaimId, from : ClaimId, fromVersion : Nat,
                                   argument : ArgumentId]
          /\ DOMAIN argumentForks \subseteq ArgumentId
          /\ Range(argumentForks) \subseteq ArgumentId
          /\ \A r \in claimForks : r.entity \in DOMAIN claims
      BY <1>1 DEF ForkInv, TypeOK
    <3>1. CASE n \in DOMAIN argumentForks
      BY <1>4, <2>1, <3>0, <3>1 DEF createForkRecords
    <3>2. CASE n \notin DOMAIN argumentForks
      <4>1. /\ argumentForks' = WithRecord(argumentForks, n, a)
            /\ claimForks' = claimForks \cup
                 {[entity |-> remap[c], from |-> c, fromVersion |-> maxVersion(c),
                   argument |-> a] : c \in DOMAIN remap}
        BY <2>1, <3>2 DEF createForkRecords
      <4>2. \A c \in DOMAIN remap : /\ c \in ClaimId /\ remap[c] \in ClaimId
                                    /\ maxVersion(c) \in Nat
        <5>1. \A c \in DOMAIN remap : c \in DOMAIN claims /\ remap[c] \in ClaimId
          BY <1>3 DEF Renames
        <5>2. \A c \in DOMAIN claims : c \in ClaimId /\ Len(claims[c].versions) \in Nat \ {0}
          BY HasCurrent DEF ForkInv, TypeOK, GraphTypeOK
        <5> QED
          BY <5>1, <5>2 DEF maxVersion
      <4>3. /\ DOMAIN argumentForks' \subseteq ArgumentId
            /\ Range(argumentForks') \subseteq ArgumentId
        BY <3>0, <4>1 DEF WithRecord, Range
      <4>4. \A r \in claimForks' :
              /\ r \in [entity : ClaimId, from : ClaimId, fromVersion : Nat,
                        argument : ArgumentId]
              /\ r.entity \in DOMAIN claims'
        <5> SUFFICES ASSUME NEW r \in claimForks', r \notin claimForks
                     PROVE  /\ r \in [entity : ClaimId, from : ClaimId, fromVersion : Nat,
                                      argument : ArgumentId]
                            /\ r.entity \in DOMAIN claims'
          BY <1>4, <3>0
        <5>1. PICK c \in DOMAIN remap :
                r = [entity |-> remap[c], from |-> c, fromVersion |-> maxVersion(c),
                     argument |-> a]
          BY <4>1
        <5> QED
          BY <1>5, <3>0, <4>2, <5>1
      <4> QED
        BY <4>3, <4>4
    <3> QED
      BY <3>1, <3>2
  <2>7. TypeOK'
    <3>1. DOMAIN arguments' \subseteq ArgumentId
      BY <2>1 DEF ForkInv, TypeOK
    <3>2. \A x \in DOMAIN arguments' :
            arguments'[x] \in [answers : Range(Answers), versions : Seq(SUBSET Pin) \ {<<>>}]
      BY <2>1, <2>3 DEF ForkInv, TypeOK
    <3>3. forks' \in Nat
      BY <1>1 DEF ForkInv, TypeOK
    <3> QED
      BY <1>0, <1>3, <2>6, <3>1, <3>2, <3>3 DEF TypeOK
  <2> QED
    BY <1>3, <2>5, <2>6, <2>7 DEF ForkInv
<1> QED
  BY <1>3, <1>6, <1>7

(***************************************************************************)
(* The other operations on arguments, and the theorems                     *)
(***************************************************************************)
\* A step that moves arguments alone keeps the invariant when what it leaves in
\* each argument is typed and pinned.
LEMMA ArgumentsMove ==
    ASSUME ForkInv, UNCHANGED <<graphVars, claimForks, argumentForks, forks>>,
           ReleasedOK',
           DOMAIN arguments' \subseteq ArgumentId,
           \A x \in DOMAIN arguments' :
              /\ arguments'[x] \in [answers : Range(Answers),
                                    versions : Seq(SUBSET Pin) \ {<<>>}]
              /\ \A pins \in Range(arguments'[x].versions) :
                    \A p \in pins : HasVersion(p.claim, p.version)
    PROVE  ForkInv' /\ AllKept
<1>1. UNCHANGED claims
  BY DEF graphVars
<1>2. AllKept
  BY <1>1 DEF AllKept, Kept
<1>3. TypeOK'
  BY DEF ForkInv, TypeOK, GraphTypeOK, graphVars
<1>4. GraphSound'
  BY DEF ForkInv, GraphSound, CitationsValid, AxiomsValid, RefsResolve, HasVersion, graphVars
<1>5. RefsSound'
  BY <1>1 DEF RefsSound, HasVersion
<1> QED
  BY <1>1, <1>2, <1>3, <1>4, <1>5 DEF ForkInv

\* An argument's versions are typed and pinned.
Pinned(vs) ==
    /\ vs \in Seq(SUBSET Pin) \ {<<>>}
    /\ \A i \in DOMAIN vs : \A p \in vs[i] : HasVersion(p.claim, p.version)

\* Replacing the versions of one argument by such keeps the invariant.
LEMMA VersionsMove ==
    ASSUME ForkInv, NEW a \in DOMAIN arguments, NEW vs, Pinned(vs),
           arguments' = [arguments EXCEPT ![a].versions = vs],
           UNCHANGED <<graphVars, released, claimForks, argumentForks, forks>>
    PROVE  ForkInv' /\ AllKept
<1>1. \A x \in DOMAIN arguments :
         arguments[x] \in [answers : Range(Answers), versions : Seq(SUBSET Pin) \ {<<>>}]
  BY DEF ForkInv, TypeOK
<1>2. DOMAIN arguments' = DOMAIN arguments /\ DOMAIN arguments \subseteq ArgumentId
  BY DEF ForkInv, TypeOK
<1>3. arguments'[a] = [answers |-> arguments[a].answers, versions |-> vs]
  BY <1>1
<1>4. \A x \in DOMAIN arguments \ {a} : arguments'[x] = arguments[x]
  OBVIOUS
<1>5. ASSUME NEW x \in DOMAIN arguments'
      PROVE  /\ arguments'[x] \in [answers : Range(Answers),
                                   versions : Seq(SUBSET Pin) \ {<<>>}]
             /\ \A pins \in Range(arguments'[x].versions) :
                   \A p \in pins : HasVersion(p.claim, p.version)
  <2>1. CASE x = a
    <3>1. arguments[a].answers \in Range(Answers)
      BY <1>1
    <3>2. arguments'[x].versions = vs
      BY <1>3, <2>1
    <3> QED
      BY <1>3, <2>1, <3>1, <3>2 DEF Pinned, Range
  <2>2. CASE x # a
    BY <1>1, <1>2, <1>4, <2>2 DEF ForkInv, RefsSound
  <2> QED
    BY <2>1, <2>2
<1>6. ReleasedOK'
  BY DEF ForkInv, TypeOK, ReleasedOK
<1> QED
  BY <1>2, <1>5, <1>6, ArgumentsMove

\* The versions of an argument are pinned, and they stay so with the last one
\* replaced by pins that are, or repeated.
LEMMA LastPinned ==
    ASSUME ForkInv, NEW a \in DOMAIN arguments, NEW pins \in SUBSET Pin,
           \A p \in pins : HasVersion(p.claim, p.version)
    PROVE  /\ Pinned([arguments[a].versions EXCEPT ![Len(arguments[a].versions)] = pins])
           /\ Pinned(Append(arguments[a].versions, pins))
<1> DEFINE vs == arguments[a].versions
           n == Len(vs)
           replaced == [vs EXCEPT ![n] = pins]
           appended == Append(vs, pins)
<1>1. vs \in Seq(SUBSET Pin) /\ n \in Nat \ {0}
  BY PinsTyped DEF ForkInv
<1>2. ASSUME NEW i \in DOMAIN vs, NEW p \in vs[i]
      PROVE  HasVersion(p.claim, p.version)
  BY DEF ForkInv, RefsSound, Range
<1> HIDE DEF vs
<1>3. /\ replaced \in Seq(SUBSET Pin) /\ Len(replaced) = n
      /\ \A i \in DOMAIN replaced : i \in DOMAIN vs /\ (replaced[i] = pins \/ replaced[i] = vs[i])
  <2>1. replaced \in Seq(SUBSET Pin) /\ Len(replaced) = n
    BY <1>1
  <2>2. DOMAIN vs = 1 .. n /\ DOMAIN replaced = 1 .. n
    BY <1>1, <2>1
  <2>3. \A i \in 1 .. n : replaced[i] = pins \/ replaced[i] = vs[i]
    BY <1>1, <2>2
  <2> QED
    BY <2>1, <2>2, <2>3
<1>4. /\ appended \in Seq(SUBSET Pin) /\ Len(appended) = n + 1
      /\ \A i \in DOMAIN appended :
            appended[i] = pins \/ (i \in DOMAIN vs /\ appended[i] = vs[i])
  <2>1. appended \in Seq(SUBSET Pin) /\ Len(appended) = n + 1
    BY <1>1
  <2>2. DOMAIN vs = 1 .. n /\ DOMAIN appended = 1 .. n + 1
    BY <1>1, <2>1
  <2>3. \A i \in 1 .. n : appended[i] = vs[i]
    BY <1>1
  <2>4. appended[n + 1] = pins
    BY <1>1
  <2>5. \A i \in 1 .. n + 1 : i \in 1 .. n \/ i = n + 1
    BY <1>1
  <2> QED
    BY <2>1, <2>2, <2>3, <2>4, <2>5
<1>5. replaced # <<>> /\ appended # <<>>
  BY <1>1, <1>3, <1>4
<1> HIDE DEF replaced, appended
<1>6. Pinned(replaced)
  BY <1>2, <1>3, <1>5 DEF Pinned
<1>7. Pinned(appended)
  BY <1>2, <1>4, <1>5 DEF Pinned
<1> QED
  BY <1>6, <1>7 DEF replaced, appended, vs

\* Setting the pins of the current version to some that are there.
LEMMA SetPinsKeeps ==
    ASSUME ForkInv, NEW a \in DOMAIN arguments, NEW pins \in SUBSET Pin,
           \A p \in pins : HasVersion(p.claim, p.version), SetPins(a, pins)
    PROVE  ForkInv' /\ AllKept
<1> DEFINE vs == [arguments[a].versions EXCEPT ![Len(arguments[a].versions)] = pins]
<1>1. arguments' = [arguments EXCEPT ![a].versions = vs]
  BY DEF SetPins
<1>2. Pinned(vs)
  BY LastPinned
<1> HIDE DEF vs
<1> QED
  BY <1>1, <1>2, VersionsMove DEF SetPins

\* Dropping snapshots keeps those that are left typed.
LEMMA ReleasedLess ==
    ASSUME ReleasedOK, NEW S, released' = Restrict(released, DOMAIN released \ S)
    PROVE  ReleasedOK'
BY DEF ReleasedOK, Restrict

\* The snapshots of an argument that is removed hold pins of its versions.
LEMMA ReleasedMore ==
    ASSUME ForkInv, NEW a \in ArgumentId, remove(a)
    PROVE  ReleasedOK'
<1>1. /\ a \in DOMAIN arguments
      /\ released' =
            [r \in DOMAIN released \cup {q \in answeredOf(a) : q.version <= versionOf(a)} |->
               IF r.argument = a /\ r.version <= versionOf(a)
               THEN arguments[a].versions[r.version + 1] ELSE released[r]]
  BY DEF remove
<1>2. arguments[a].versions \in Seq(SUBSET Pin) /\ Len(arguments[a].versions) \in Nat \ {0}
  BY <1>1, PinsTyped DEF ForkInv
<1>3. /\ DOMAIN released \subseteq Answered
      /\ \A r \in DOMAIN released : released[r] \in SUBSET Pin
  BY DEF ForkInv, TypeOK, ReleasedOK
<1>4. \A r \in Answered : r.version \in Nat
  BY ForkAssumption DEF Answered
<1>5. DOMAIN released' \subseteq Answered
  BY <1>1, <1>3 DEF answeredOf
<1>6. ASSUME NEW r \in DOMAIN released'
      PROVE  released'[r] \in SUBSET Pin
  <2>1. CASE r.argument = a /\ r.version <= versionOf(a)
    <3>1. r.version + 1 \in 1 .. Len(arguments[a].versions)
      BY <1>2, <1>4, <1>5, <2>1 DEF versionOf
    <3>2. released'[r] = arguments[a].versions[r.version + 1]
      BY <1>1, <2>1
    <3> QED
      BY <1>2, <3>1, <3>2
  <2>2. CASE ~(r.argument = a /\ r.version <= versionOf(a))
    BY <1>1, <1>3, <2>2 DEF answeredOf
  <2> QED
    BY <2>1, <2>2
<1> QED
  BY <1>5, <1>6 DEF ReleasedOK

\* Every operation on one argument keeps the invariant.
LEMMA ArgumentStepKeeps ==
    ASSUME ForkInv, NEW a \in ArgumentId, ArgumentStep(a)
    PROVE  ForkInv' /\ AllKept
<1>1. ASSUME a \in DOMAIN arguments
      PROVE  pinsOf(a) \in SUBSET Pin /\ \A p \in pinsOf(a) : HasVersion(p.claim, p.version)
  BY <1>1, PinsTyped DEF ForkInv, RefsSound
<1>2. ASSUME NEW x \in DOMAIN arguments
      PROVE  /\ arguments[x] \in [answers : Range(Answers),
                                  versions : Seq(SUBSET Pin) \ {<<>>}]
             /\ \A pins \in Range(arguments[x].versions) :
                   \A p \in pins : HasVersion(p.claim, p.version)
  BY DEF ForkInv, TypeOK, RefsSound
<1>3. DOMAIN arguments \subseteq ArgumentId
  BY DEF ForkInv, TypeOK
<1>4. CASE create(a)
  <2>1. /\ DOMAIN arguments' = DOMAIN arguments \cup {a}
        /\ arguments'[a] = [answers |-> Answers[a], versions |-> <<{}>>]
        /\ \A x \in DOMAIN arguments : arguments'[x] = arguments[x]
        /\ UNCHANGED <<graphVars, claimForks, argumentForks, forks>>
    BY <1>4 DEF create
  <2>6. ReleasedOK'
    BY <1>4, ReleasedLess DEF create, ForkInv, TypeOK
  <2>2. Answers[a] \in Range(Answers)
    BY <1>4 DEF create, Range
  <2>3. <<{}>> \in Seq(SUBSET Pin) \ {<<>>}
    OBVIOUS
  <2>4. arguments'[a] \in [answers : Range(Answers), versions : Seq(SUBSET Pin) \ {<<>>}]
    BY <2>1, <2>2, <2>3
  <2>5. \A pins \in Range(arguments'[a].versions) : pins = {}
    BY <2>1 DEF Range
  <2> QED
    BY <1>2, <1>3, <2>1, <2>4, <2>5, <2>6, ArgumentsMove
<1>5. CASE remove(a)
  <2>1. /\ DOMAIN arguments' \subseteq DOMAIN arguments
        /\ \A x \in DOMAIN arguments' : arguments'[x] = arguments[x]
        /\ UNCHANGED <<graphVars, claimForks, argumentForks, forks>>
    BY <1>5 DEF remove, Restrict
  <2>2. ReleasedOK'
    BY <1>5, ReleasedMore
  <2> QED
    BY <1>2, <1>3, <2>1, <2>2, ArgumentsMove
<1>6. ASSUME a \in DOMAIN arguments, NEW p \in Bindable[a], addVariable(a, p)
      PROVE  ForkInv' /\ AllKept
  <2>1. p \in Pin /\ HasVersion(p.claim, p.version)
    BY <1>6, ForkAssumption DEF addVariable
  <2>2. SetPins(a, pinsOf(a) \cup {p})
    BY <1>6 DEF addVariable
  <2> QED
    BY <1>1, <1>6, <2>1, <2>2, SetPinsKeeps
<1>7. ASSUME a \in DOMAIN arguments, NEW p \in pinsOf(a), removeVariable(a, p)
      PROVE  ForkInv' /\ AllKept
  BY <1>1, <1>7, SetPinsKeeps DEF removeVariable
<1>8. CASE nextVersion(a)
  <2>1. /\ a \in DOMAIN arguments
        /\ arguments' = [arguments EXCEPT ![a].versions =
                            Append(arguments[a].versions, pinsOf(a))]
        /\ UNCHANGED <<graphVars, released, claimForks, argumentForks, forks>>
    BY <1>8 DEF nextVersion
  <2>2. Pinned(Append(arguments[a].versions, pinsOf(a)))
    BY <1>1, <2>1, LastPinned
  <2> QED
    BY <2>1, <2>2, VersionsMove
<1> QED
  BY <1>4, <1>5, <1>6, <1>7, <1>8 DEF ArgumentStep

\* Every step keeps the invariant, and every claim with its versions.
LEMMA ForkInvStep ==
    ASSUME ForkInv, [Next]_forkVars
    PROVE  ForkInv' /\ AllKept
<1>1. CASE Libraries
  <2>1. GraphTypeOK' /\ AllKept /\ GraphSound'
    BY <1>1, ClaimsStep, SoundStep DEF Libraries, ForkInv, TypeOK, AllKept
  <2>2. UNCHANGED argumentVars
    BY <1>1 DEF Libraries
  <2>3. TypeOK' /\ \A r \in claimForks' : r.entity \in DOMAIN claims'
    BY <2>1, <2>2 DEF ForkInv, TypeOK, ReleasedOK, argumentVars, AllKept
  <2>4. RefsSound'
    BY <2>1, <2>2, RefsStay DEF argumentVars
  <2> QED
    BY <2>1, <2>3, <2>4 DEF ForkInv
<1>2. CASE \E a \in ArgumentId : ArgumentStep(a)
  BY <1>2, ArgumentStepKeeps
<1>3. CASE Fork
  BY <1>3, ForkKeeps DEF Fork
<1>4. CASE UNCHANGED forkVars
  BY <1>4, ArgumentsMove DEF forkVars, graphVars, ForkInv, TypeOK, ReleasedOK, RefsSound
<1> QED
  BY <1>1, <1>2, <1>3, <1>4 DEF Next

\* The inductive invariant holds of every behaviour.
THEOREM ForkInvariant == Spec => []ForkInv
<1>1. Init => ForkInv
  <2> SUFFICES ASSUME Init PROVE ForkInv
    OBVIOUS
  <2> USE DEF Init, GraphInit
  <2>1. GraphTypeOK
    BY ClaimAssumption DEF GraphTypeOK
  <2>2. GraphSound
    BY DEF GraphSound, CitationsValid, AxiomsValid, AcyclicGraph, dependents
  <2>3. TypeOK
    BY <2>1, ForkAssumption DEF TypeOK, ReleasedOK, Range
  <2>4. RefsSound
    BY DEF RefsSound
  <2> QED
    BY <2>2, <2>3, <2>4 DEF ForkInv
<1>2. ForkInv /\ [Next]_forkVars => ForkInv'
  BY ForkInvStep
<1> QED
  BY <1>1, <1>2, PTL DEF Spec

\* Every pin resolves: what a variable binds exists at the version it is bound
\* at, in every version of every argument and in every fork.
THEOREM PinsResolve == Spec => []RefsSound
<1>1. ForkInv => RefsSound
  BY DEF ForkInv
<1> QED
  BY <1>1, ForkInvariant, PTL

\* The connections of a fork's clones are as sound as those they were taken from,
\* and close no cycle.
THEOREM SoundUnderForks == Spec => []GraphSound
<1>1. ForkInv => GraphSound
  BY DEF ForkInv
<1> QED
  BY <1>1, ForkInvariant, PTL

\* Forking, too, leaves what is frozen as it is.
THEOREM FrozenUnderForks == Spec => FrozenIsForever
<1>1. ForkInv /\ [Next]_forkVars =>
        \A c \in DOMAIN claims :
          /\ c \in DOMAIN claims'
          /\ claims'[c].type = claims[c].type
          /\ \A v \in DOMAIN claims[c].versions :
                /\ v \in DOMAIN claims'[c].versions
                /\ claims[c].versions[v].frozen =>
                      claims'[c].versions[v] = claims[c].versions[v]
  BY ForkInvStep DEF AllKept, Kept
<1> QED
  BY <1>1, ForkInvariant, PTL DEF Spec, FrozenIsForever

(***************************************************************************)
(* What a fork shares and what it copies                                   *)
(***************************************************************************)
\* A step that writes records is a fork that went through.
FullFork(a, n, remap, kept) ==
    /\ a \in DOMAIN arguments
    /\ n \in ArgumentId /\ n \notin DOMAIN arguments /\ n \notin DOMAIN argumentForks
    /\ kept = claimsSharedWithAnswered(a)
    /\ ForkWrites(a, n, remap, kept)

\* Only a fork writes records of either kind.
LEMMA OnlyForksRecord ==
    ASSUME ForkInv, [Next]_forkVars,
           claimForks' # claimForks \/ argumentForks' # argumentForks
    PROVE  \E a, n, remap, kept : FullFork(a, n, remap, kept)
<1>1. ~UNCHANGED argumentVars
  BY DEF argumentVars
<1>2. ASSUME NEW a \in ArgumentId, ArgumentStep(a)
      PROVE  UNCHANGED <<claimForks, argumentForks>>
  BY <1>2 DEF ArgumentStep, create, remove, addVariable, removeVariable, nextVersion, SetPins
<1>3. Fork
  BY <1>1, <1>2 DEF Next, Libraries, forkVars, argumentVars
<1>4. PICK a \in ArgumentId, n \in ArgumentId, passed \in BOOLEAN : forkArgument(a, n, passed)
  BY <1>3 DEF Fork
<1>5. PICK kept, remap : kept = claimsSharedWithAnswered(a) /\ ForkWrites(a, n, remap, kept)
  BY <1>4, ForkStep
<1>6. a \in DOMAIN arguments
  BY <1>4, ForkStep
<1>7. n \notin DOMAIN arguments
  BY <1>5 DEF ForkWrites
<1>8. n \notin DOMAIN argumentForks
  BY <1>5, <1>7 DEF ForkWrites, createForkRecords
<1>9. FullFork(a, n, remap, kept)
  BY <1>5, <1>6, <1>7, <1>8 DEF FullFork
<1> QED
  BY <1>9

\* The records written are one for each claim cloned.
LEMMA RecordsWritten ==
    ASSUME ForkInv, NEW a, NEW n, NEW remap, NEW kept, FullFork(a, n, remap, kept)
    PROVE  /\ \A c \in DOMAIN remap : Counterpart(remap[c], c)
           /\ \A r \in NewRecords : \E c \in DOMAIN remap :
                 r.entity = remap[c] /\ r.from = c /\ r.fromVersion = maxVersion(c)
           /\ argumentForks' = WithRecord(argumentForks, n, a)
<1> DEFINE record(c) == [entity |-> remap[c], from |-> c, fromVersion |-> maxVersion(c),
                         argument |-> a]
<1>1. createForkRecords(a, n, remap) /\ n \notin DOMAIN argumentForks /\ Renames(remap)
  BY DEF FullFork, ForkWrites
<1>2. /\ argumentForks' = WithRecord(argumentForks, n, a)
      /\ claimForks' = claimForks \cup {record(c) : c \in DOMAIN remap}
  BY <1>1 DEF createForkRecords
<1>3. ASSUME NEW c \in DOMAIN remap
      PROVE  Counterpart(remap[c], c)
  <2>1. record(c).entity = remap[c] /\ record(c).from = c
    OBVIOUS
  <2>2. remap[c] \notin DOMAIN claims
    BY <1>1 DEF Renames
  <2>3. record(c) \notin claimForks
    BY <2>1, <2>2 DEF ForkInv
  <2>4. record(c) \in claimForks'
    BY <1>2
  <2> HIDE DEF record
  <2> QED
    BY <2>1, <2>3, <2>4 DEF Counterpart, NewRecords
<1>4. ASSUME NEW r \in NewRecords
      PROVE  \E c \in DOMAIN remap :
                r.entity = remap[c] /\ r.from = c /\ r.fromVersion = maxVersion(c)
  BY <1>2 DEF NewRecords
<1> QED
  BY <1>2, <1>3, <1>4

\* A clone has the support of its original, clone for claim.
LEMMA SupportCopied ==
    ASSUME ForkInv, NEW a, NEW n, NEW remap, NEW kept, FullFork(a, n, remap, kept),
           NEW edges \in SUBSET (citations \cup axioms), NEW c \in DOMAIN remap
    PROVE  SameSupport(remap[c], c, edges, edges \cup cloneConnections(edges, remap, kept))
<1>1. /\ Renames(remap) /\ a \in DOMAIN arguments
      /\ DOMAIN remap = collectClaimClosure(a, kept)
  BY DEF FullFork, ForkWrites
<1>2. edges \in SUBSET Connection
  BY DEF ForkInv, TypeOK, GraphTypeOK
<1>3. \A e \in edges : e.claim \in DOMAIN claims
  BY DEF ForkInv, GraphSound, CitationsValid, AxiomsValid, RefsResolve, HasVersion
<1>4. \A e \in edges : e.claim \in DOMAIN remap =>
                          e.supporting \in DOMAIN remap \/ e.supporting \in kept
  BY <1>1, ClosureClones
<1>5. \A d \in DOMAIN remap : Counterpart(remap[d], d)
  BY RecordsWritten
<1>6. \A d : Counterpart(d, d)
  BY DEF Counterpart
<1> DEFINE new == cloneConnections(edges, remap, kept)
<1>7. ASSUME NEW e \in edges, e.claim = c
      PROVE  \E f \in edges \cup new :
                f.claim = remap[c] /\ Counterpart(f.supporting, e.supporting)
  <2>1. PICK f \in new : /\ f.claim = remap[e.claim]
                         /\ f.supporting = IF e.supporting \in DOMAIN remap
                                           THEN remap[e.supporting] ELSE e.supporting
    BY <1>2, <1>4, <1>7, CloneFor
  <2> QED
    BY <1>5, <1>6, <1>7, <2>1
<1>8. ASSUME NEW f \in edges \cup new, f.claim = remap[c]
      PROVE  \E e \in edges : e.claim = c /\ Counterpart(f.supporting, e.supporting)
  <2>1. f \in new
    BY <1>1, <1>3, <1>8 DEF Renames
  <2>2. PICK e \in edges :
                 /\ e.claim \in DOMAIN remap
                 /\ f.claim = remap[e.claim]
                 /\ \/ e.supporting \in DOMAIN remap /\ f.supporting = remap[e.supporting]
                    \/ f.supporting = e.supporting
    BY <1>1, <1>2, <2>1, CloneOf
  <2>3. e.claim = c
    BY <1>1, <1>8, <2>2 DEF Renames
  <2> QED
    BY <1>5, <1>6, <2>2, <2>3
<1> QED
  BY <1>7, <1>8 DEF SameSupport

\* A clone stands for its original as the record of it says: type, content of the
\* version named, and support.
THEOREM ClonesStandForOriginals == Spec => ForkCopiesSupport
<1>1. ASSUME ForkInv, [Next]_forkVars, NEW r \in NewRecords
      PROVE  /\ claims'[r.entity].type = claims[r.from].type
             /\ claims'[r.entity].versions[1].content =
                  claims[r.from].versions[r.fromVersion + 1].content
             /\ SameSupport(r.entity, r.from, citations, citations')
             /\ SameSupport(r.entity, r.from, axioms, axioms')
  <2>1. PICK a, n, remap, kept : FullFork(a, n, remap, kept)
    BY <1>1, OnlyForksRecord DEF NewRecords
  <2>2. PICK c \in DOMAIN remap :
              r.entity = remap[c] /\ r.from = c /\ r.fromVersion = maxVersion(c)
    BY <1>1, <2>1, RecordsWritten
  <2>3. /\ Renames(remap) /\ claims' = WithClaims(Clones(remap))
        /\ citations' = citations \cup cloneConnections(citations, remap, kept)
        /\ axioms' = axioms \cup cloneConnections(axioms, remap, kept)
    BY <2>1 DEF FullFork, ForkWrites
  <2>4. GraphTypeOK
    BY <1>1 DEF ForkInv, TypeOK
  <2> DEFINE vs == <<[content |-> getCurrent(c).content, frozen |-> FALSE]>>
  <2>5. claims'[remap[c]] = [type |-> claims[c].type, versions |-> vs]
    BY <2>3, <2>4, ClonesWritten DEF FirstVersion
  <2>6. vs[1].content = getCurrent(c).content
    OBVIOUS
  <2> HIDE DEF vs
  <2>7. /\ claims'[remap[c]].type = claims[c].type
        /\ claims'[remap[c]].versions[1].content = getCurrent(c).content
    BY <2>5, <2>6
  <2>8. getCurrent(c) = claims[c].versions[r.fromVersion + 1]
    <3>1. Len(claims[c].versions) \in Nat
      BY <2>3, <2>4, HasCurrent DEF Renames
    <3>2. r.fromVersion + 1 = Len(claims[c].versions)
      BY <2>2, <3>1 DEF maxVersion
    <3> QED
      BY <3>2 DEF getCurrent
  <2>9. /\ SameSupport(remap[c], c, citations, citations')
        /\ SameSupport(remap[c], c, axioms, axioms')
    BY <1>1, <2>1, <2>3, SupportCopied
  <2> QED
    BY <2>2, <2>7, <2>8, <2>9
<1>2. ForkInv /\ [Next]_forkVars =>
        \A r \in NewRecords :
          /\ claims'[r.entity].type = claims[r.from].type
          /\ claims'[r.entity].versions[1].content =
                claims[r.from].versions[r.fromVersion + 1].content
          /\ SameSupport(r.entity, r.from, citations, citations')
          /\ SameSupport(r.entity, r.from, axioms, axioms')
  BY <1>1
<1> QED
  BY <1>2, ForkInvariant, PTL DEF Spec, ForkCopiesSupport

\* A fork is independent of its source except that a response goes on binding,
\* and its clones go on resting on, what it shares with the argument it answers.
THEOREM ForksShareOnlyAnswered == Spec => ForkSharesOnlyAnswered
<1>1. ASSUME ForkInv, [Next]_forkVars,
             NEW n \in DOMAIN argumentForks' \ DOMAIN argumentForks
      PROVE  LET a      == argumentForks'[n]
                 bound  == claimsIn(arguments'[n].versions[1])
                 shared == claimsIn(pinsOf(a)) \cap AnsweredClaims(a)
             IN  /\ bound \cap DOMAIN claims = shared
                 /\ \A c \in claimsIn(pinsOf(a)) : \E d \in bound : Counterpart(d, c)
                 /\ \A r \in NewRecords, e \in citations' \cup axioms' :
                       e.claim = r.entity /\ e.supporting \in DOMAIN claims =>
                           e.supporting \in AnsweredClaims(a)
  <2>1. PICK a, m, remap, kept : FullFork(a, m, remap, kept)
    BY <1>1, OnlyForksRecord
  <2>2. m = n /\ argumentForks'[n] = a
    <3>1. argumentForks' = WithRecord(argumentForks, m, a)
      BY <1>1, <2>1, RecordsWritten
    <3> QED
      BY <1>1, <3>1 DEF WithRecord
  <2> DEFINE pins == rebuildWithRemappedClaims(pinsOf(a), remap)
             bound == claimsIn(arguments'[n].versions[1])
  <2>3. arguments'[n].versions[1] = pins
    <3>1. arguments'[n] = [answers |-> arguments[a].answers, versions |-> <<pins>>]
      BY <2>1, <2>2 DEF FullFork, ForkWrites
    <3>2. <<pins>>[1] = pins
      OBVIOUS
    <3> QED
      BY <3>1, <3>2
  <2>4. kept = AnsweredClaims(a)
    BY <2>1 DEF FullFork, claimsSharedWithAnswered, AnsweredClaims
  <2>5. /\ Renames(remap) /\ a \in DOMAIN arguments
        /\ DOMAIN remap \cap kept = {}
        /\ claimsIn(pinsOf(a)) \subseteq DOMAIN claims
        /\ claimsIn(pinsOf(a)) \subseteq DOMAIN remap \cup kept
    BY <1>1, <2>1, ClosureClones DEF FullFork, ForkWrites
  <2>6. \A d : d \in bound <=>
           \E c \in claimsIn(pinsOf(a)) : d = IF c \in DOMAIN remap THEN remap[c] ELSE c
    <3> DEFINE image(p) == IF p.claim \in DOMAIN remap
                           THEN [claim |-> remap[p.claim], version |-> 0] ELSE p
    <3>1. bound = {q.claim : q \in pins}
      BY <2>3 DEF claimsIn
    <3>2. pins = {image(p) : p \in pinsOf(a)}
      BY DEF rebuildWithRemappedClaims
    <3>3. \A p : image(p).claim = IF p.claim \in DOMAIN remap THEN remap[p.claim] ELSE p.claim
      OBVIOUS
    <3> HIDE DEF image, pins, bound
    <3>4. \A d : d \in bound <=> \E p \in pinsOf(a) : d = image(p).claim
      BY <3>1, <3>2
    <3> QED
      BY <3>3, <3>4 DEF claimsIn
  <2> HIDE DEF bound, pins
  <2>7. bound \cap DOMAIN claims = claimsIn(pinsOf(a)) \cap kept
    BY <2>5, <2>6 DEF Renames
  <2>8. \A c \in claimsIn(pinsOf(a)) : \E d \in bound : Counterpart(d, c)
    <3>1. /\ \A c \in DOMAIN remap : Counterpart(remap[c], c)
          /\ \A c : Counterpart(c, c)
      BY <1>1, <2>1, RecordsWritten DEF Counterpart
    <3> QED
      BY <2>6, <3>1
  <2>9. ASSUME NEW r \in NewRecords, NEW e \in citations' \cup axioms',
               e.claim = r.entity, e.supporting \in DOMAIN claims
        PROVE  e.supporting \in kept
    <3>1. r.entity \in Range(remap)
      BY <1>1, <2>1, RecordsWritten DEF Range
    <3>2. e.claim \notin DOMAIN claims
      BY <2>5, <2>9, <3>1 DEF Renames, Range
    <3>3. e \notin citations /\ e \notin axioms
      BY <1>1, <3>2
         DEF ForkInv, GraphSound, CitationsValid, AxiomsValid, RefsResolve, HasVersion
    <3>4. \/ e \in cloneConnections(citations, remap, kept)
          \/ e \in cloneConnections(axioms, remap, kept)
      BY <2>1, <3>3 DEF FullFork, ForkWrites
    <3>5. citations \in SUBSET Connection /\ axioms \in SUBSET Connection
      BY <1>1 DEF ForkInv, TypeOK, GraphTypeOK
    <3>6. \/ \E c \in DOMAIN remap : e.supporting = remap[c]
          \/ e.supporting \in kept
      BY <2>5, <3>4, <3>5, CloneOf
    <3> QED
      BY <2>5, <2>9, <3>6 DEF Renames
  <2> QED
    BY <2>2, <2>4, <2>7, <2>8, <2>9 DEF bound
<1>2. ForkInv /\ [Next]_forkVars =>
        \A n \in DOMAIN argumentForks' \ DOMAIN argumentForks :
          LET a      == argumentForks'[n]
              bound  == claimsIn(arguments'[n].versions[1])
              shared == claimsIn(pinsOf(a)) \cap AnsweredClaims(a)
          IN  /\ bound \cap DOMAIN claims = shared
              /\ \A c \in claimsIn(pinsOf(a)) : \E d \in bound : Counterpart(d, c)
              /\ \A r \in NewRecords, e \in citations' \cup axioms' :
                    e.claim = r.entity /\ e.supporting \in DOMAIN claims =>
                        e.supporting \in AnsweredClaims(a)
  BY <1>1
<1> QED
  BY <1>2, ForkInvariant, PTL DEF Spec, ForkSharesOnlyAnswered

(***************************************************************************)
(* The origin library, for any ids, texts, inputs and snapshots, damaged   *)
(* ones included.  What normalizing and slicing do to a text plays no      *)
(* part: the proofs hold for any such functions.                           *)
(***************************************************************************)
(***************************************************************************)
(* The inductive invariant                                                 *)
(***************************************************************************)
IsLibrary(lib) ==
    lib = [documents |-> lib.documents, links |-> lib.links, anchors |-> lib.anchors,
           verifiedDocumentBodies |-> lib.verifiedDocumentBodies,
           documentIndexes |-> lib.documentIndexes,
           linksByArgument |-> lib.linksByArgument,
           anchorsByArgument |-> lib.anchorsByArgument,
           anchorsByTarget |-> lib.anchorsByTarget,
           knownViolationKeys |-> lib.knownViolationKeys]

\* A text remembered as found in order, and still that of its document, is in
\* order; and none is remembered of a document that is gone, for another may
\* come under its id.
CacheTrue(lib) ==
    \A i \in DOMAIN lib.verifiedDocumentBodies :
        /\ i \in DOMAIN lib.documents
        /\ lib.verifiedDocumentBodies[i] = lib.documents[i].text =>
              /\ isNormalized(lib.documents[i].text)
              /\ lib.documents[i].digest = lib.documents[i].text

\* An index as it would be built from what it indexes.
ByArgument(f) == {<<f[i].argument, i>> : i \in DOMAIN f}
ByTarget(f) == {<<f[i].target, i>> : i \in DOMAIN f}

IndexesTrue(lib) ==
    /\ lib.linksByArgument = ByArgument(lib.links)
    /\ lib.anchorsByArgument = ByArgument(lib.anchors)
    /\ lib.anchorsByTarget = ByTarget(lib.anchors)

Consistent(lib) == IsLibrary(lib) /\ CacheTrue(lib) /\ IndexesTrue(lib)

Sound(lib) == Consistent(lib) /\ lib.knownViolationKeys = violations(lib)

(***************************************************************************)
(* What a verdict depends on                                               *)
(***************************************************************************)
\* With a true cache, a document is judged by what it is alone.
DocumentVerdict(d) ==
    IF ~d.wellFormed THEN {"SCHEMA_INVALID"}
    ELSE {code \in {"TEXT_NOT_NORMALIZED"} : ~isNormalized(d.text)}
         \cup {code \in {"DIGEST_MISMATCH"} : d.digest # d.text}

LEMMA CacheHidesNothing ==
    ASSUME NEW lib, CacheTrue(lib), NEW i \in DOMAIN lib.documents
    PROVE  DocumentFaults(lib, i) = DocumentVerdict(lib.documents[i])
<1>1. CASE Holds(lib.verifiedDocumentBodies, i, lib.documents[i].text)
  <2>1. /\ isNormalized(lib.documents[i].text)
        /\ lib.documents[i].digest = lib.documents[i].text
    BY <1>1 DEF Holds, CacheTrue
  <2> QED
    BY <1>1, <2>1 DEF DocumentFaults, DocumentVerdict
<1>2. CASE ~Holds(lib.verifiedDocumentBodies, i, lib.documents[i].text)
  BY <1>2 DEF DocumentFaults, DocumentVerdict
<1> QED
  BY <1>1, <1>2

\* Libraries with true caches and the same content and link index find the same.
LEMMA SameViolations ==
    ASSUME NEW lib, NEW other, CacheTrue(lib), CacheTrue(other),
           lib.documents = other.documents, lib.links = other.links,
           lib.anchors = other.anchors, lib.linksByArgument = other.linksByArgument
    PROVE  violations(lib) = violations(other)
<1>1. \A i \in DOMAIN lib.documents : DocumentFaults(lib, i) = DocumentFaults(other, i)
  BY CacheHidesNothing
<1>2. \A i : LinkFaults(lib, i) = LinkFaults(other, i)
  BY DEF LinkFaults
<1>3. \A i : AnchorFaults(lib, i) = AnchorFaults(other, i)
  BY DEF AnchorFaults, getLinksForArgument
<1> QED
  BY <1>1, <1>2, <1>3 DEF violations

\* A library in which nothing is worse off finds nothing new.
LEMMA FewerViolations ==
    ASSUME NEW lib, NEW less,
           \A i \in DOMAIN less.documents :
              i \in DOMAIN lib.documents /\ DocumentFaults(less, i) \subseteq DocumentFaults(lib, i),
           \A i \in DOMAIN less.links :
              i \in DOMAIN lib.links /\ LinkFaults(less, i) \subseteq LinkFaults(lib, i),
           \A i \in DOMAIN less.anchors :
              i \in DOMAIN lib.anchors /\ AnchorFaults(less, i) \subseteq AnchorFaults(lib, i)
    PROVE  violations(less) \subseteq violations(lib)
BY DEF violations

(***************************************************************************)
(* validate() and the rollback                                             *)
(***************************************************************************)
\* validate() remembers only what is in order, and changes nothing else.
LEMMA ValidatedConsistent ==
    ASSUME NEW lib, Consistent(lib)
    PROVE  /\ Consistent(validated(lib))
           /\ validated(lib).documents = lib.documents
           /\ validated(lib).links = lib.links
           /\ validated(lib).anchors = lib.anchors
           /\ validated(lib).linksByArgument = lib.linksByArgument
           /\ validated(lib).knownViolationKeys = lib.knownViolationKeys
           /\ violations(validated(lib)) = violations(lib)
<1> DEFINE inOrder == {i \in DOMAIN lib.documents : DocumentFaults(lib, i) = {}}
           sliced == {lib.anchors[i].document :
                         i \in {x \in DOMAIN lib.anchors : lib.anchors[x].wellFormed}}
                      \cap DOMAIN lib.documents
           bodies == [i \in DOMAIN lib.verifiedDocumentBodies \cup inOrder |->
                        IF i \in inOrder THEN lib.documents[i].text
                        ELSE lib.verifiedDocumentBodies[i]]
           indexes == [i \in DOMAIN lib.documentIndexes \cup sliced |->
                         IF i \in sliced THEN lib.documents[i].text
                         ELSE lib.documentIndexes[i]]
           after == validated(lib)
<1>1. after = [lib EXCEPT !.verifiedDocumentBodies = bodies, !.documentIndexes = indexes]
  BY DEF validated, Consistent, IsLibrary
<1>2. ASSUME NEW i \in DOMAIN bodies
      PROVE  /\ i \in DOMAIN lib.documents
             /\ bodies[i] = lib.documents[i].text =>
                   /\ isNormalized(lib.documents[i].text)
                   /\ lib.documents[i].digest = lib.documents[i].text
  <2>1. CASE i \in inOrder
    <3>1. DocumentVerdict(lib.documents[i]) = {}
      BY <2>1, CacheHidesNothing DEF Consistent
    <3> QED
      BY <2>1, <3>1 DEF DocumentVerdict
  <2>2. CASE i \notin inOrder
    BY <1>2, <2>2 DEF Consistent, CacheTrue
  <2> QED
    BY <2>1, <2>2
<1> HIDE DEF bodies, indexes, after
<1>3. after = [documents |-> lib.documents, links |-> lib.links, anchors |-> lib.anchors,
               verifiedDocumentBodies |-> bodies, documentIndexes |-> indexes,
               linksByArgument |-> lib.linksByArgument,
               anchorsByArgument |-> lib.anchorsByArgument,
               anchorsByTarget |-> lib.anchorsByTarget,
               knownViolationKeys |-> lib.knownViolationKeys]
  BY <1>1 DEF Consistent, IsLibrary
<1>4. /\ after.documents = lib.documents /\ after.links = lib.links
      /\ after.anchors = lib.anchors
      /\ after.verifiedDocumentBodies = bodies /\ after.documentIndexes = indexes
      /\ after.linksByArgument = lib.linksByArgument
      /\ after.anchorsByArgument = lib.anchorsByArgument
      /\ after.anchorsByTarget = lib.anchorsByTarget
      /\ after.knownViolationKeys = lib.knownViolationKeys
  BY <1>3
<1>5. IsLibrary(after)
  BY <1>3, <1>4 DEF IsLibrary
<1>6. CacheTrue(after)
  BY <1>2, <1>4 DEF CacheTrue
<1>7. IndexesTrue(after)
  BY <1>4 DEF Consistent, IndexesTrue
<1>8. violations(after) = violations(lib)
  BY <1>4, <1>6, SameViolations DEF Consistent
<1> QED
  BY <1>4, <1>5, <1>6, <1>7, <1>8 DEF after, Consistent

\* A library restored from a snapshot is consistent if what its cache says is
\* true of the documents of the snapshot.
LEMMA RestoredConsistent ==
    ASSUME NEW lib, IsLibrary(lib), NEW snap,
           \A i \in DOMAIN lib.verifiedDocumentBodies \cap DOMAIN snap.documents :
              lib.verifiedDocumentBodies[i] = snap.documents[i].text =>
                 /\ isNormalized(snap.documents[i].text)
                 /\ snap.documents[i].digest = snap.documents[i].text
    PROVE  /\ Consistent(restoreFromSnapshot(lib, snap))
           /\ restoreFromSnapshot(lib, snap).documents = snap.documents
           /\ restoreFromSnapshot(lib, snap).links = snap.links
           /\ restoreFromSnapshot(lib, snap).anchors = snap.anchors
           /\ restoreFromSnapshot(lib, snap).knownViolationKeys = lib.knownViolationKeys
<1> DEFINE bodies == StillOf(lib.verifiedDocumentBodies, snap.documents)
           indexes == StillOf(lib.documentIndexes, snap.documents)
           byArgument == ByArgument(snap.links)
           anchorsBy == ByArgument(snap.anchors)
           byTarget == ByTarget(snap.anchors)
           after == restoreFromSnapshot(lib, snap)
<1>1. after = [lib EXCEPT !.documents = snap.documents, !.links = snap.links,
                          !.anchors = snap.anchors, !.verifiedDocumentBodies = bodies,
                          !.documentIndexes = indexes, !.linksByArgument = byArgument,
                          !.anchorsByArgument = anchorsBy, !.anchorsByTarget = byTarget]
  BY DEF restoreFromSnapshot, IsLibrary, ByArgument, ByTarget
<1>2. \A i \in DOMAIN bodies :
         /\ i \in DOMAIN snap.documents
         /\ isNormalized(snap.documents[i].text)
         /\ snap.documents[i].digest = snap.documents[i].text
  BY DEF StillOf, Restrict
<1> HIDE DEF bodies, indexes, byArgument, anchorsBy, byTarget, after
<1>3. after = [documents |-> snap.documents, links |-> snap.links, anchors |-> snap.anchors,
               verifiedDocumentBodies |-> bodies, documentIndexes |-> indexes,
               linksByArgument |-> byArgument, anchorsByArgument |-> anchorsBy,
               anchorsByTarget |-> byTarget,
               knownViolationKeys |-> lib.knownViolationKeys]
  BY <1>1 DEF IsLibrary
<1>4. /\ after.documents = snap.documents /\ after.links = snap.links
      /\ after.anchors = snap.anchors
      /\ after.verifiedDocumentBodies = bodies /\ after.documentIndexes = indexes
      /\ after.linksByArgument = byArgument /\ after.anchorsByArgument = anchorsBy
      /\ after.anchorsByTarget = byTarget
      /\ after.knownViolationKeys = lib.knownViolationKeys
  BY <1>3
<1>5. IsLibrary(after)
  BY <1>3, <1>4 DEF IsLibrary
<1>6. CacheTrue(after)
  BY <1>2, <1>4 DEF CacheTrue
<1>7. IndexesTrue(after)
  BY <1>4 DEF IndexesTrue, byArgument, anchorsBy, byTarget
<1> QED
  BY <1>4, <1>5, <1>6, <1>7 DEF after, Consistent

\* Remembering the violations found makes a consistent library sound.
LEMMA RememberedSound ==
    ASSUME NEW lib, Consistent(lib), NEW keys, keys = violations(lib)
    PROVE  LET after == [lib EXCEPT !.knownViolationKeys = keys]
           IN  /\ Sound(after)
               /\ after.documents = lib.documents /\ after.links = lib.links
               /\ after.anchors = lib.anchors
<1> DEFINE after == [lib EXCEPT !.knownViolationKeys = keys]
<1>1. /\ IsLibrary(after)
      /\ after.documents = lib.documents /\ after.links = lib.links
      /\ after.anchors = lib.anchors
      /\ after.verifiedDocumentBodies = lib.verifiedDocumentBodies
      /\ after.linksByArgument = lib.linksByArgument
      /\ after.anchorsByArgument = lib.anchorsByArgument
      /\ after.anchorsByTarget = lib.anchorsByTarget
      /\ after.knownViolationKeys = keys
  BY DEF Consistent, IsLibrary
<1> HIDE DEF after
<1>2. CacheTrue(after) /\ IndexesTrue(after)
  BY <1>1 DEF Consistent, CacheTrue, IndexesTrue
<1>3. violations(after) = violations(lib)
  BY <1>1, <1>2, SameViolations DEF Consistent
<1> QED
  BY <1>1, <1>2, <1>3 DEF Sound, Consistent, after

\* A library is sound from the start, whatever the snapshot holds.
LEMMA FromSnapshotSound ==
    ASSUME NEW snap
    PROVE  /\ Sound(fromSnapshot(snap))
           /\ fromSnapshot(snap).documents = snap.documents
           /\ fromSnapshot(snap).links = snap.links
           /\ fromSnapshot(snap).anchors = snap.anchors
<1> DEFINE none == [documents |-> Empty, links |-> Empty, anchors |-> Empty,
                    verifiedDocumentBodies |-> Empty, documentIndexes |-> Empty,
                    linksByArgument |-> {}, anchorsByArgument |-> {},
                    anchorsByTarget |-> {}, knownViolationKeys |-> {}]
           lib == restoreFromSnapshot(none, snap)
           after == fromSnapshot(snap)
<1>1. IsLibrary(none) /\ DOMAIN none.verifiedDocumentBodies = {}
  BY DEF IsLibrary, Empty
<1>2. after = [validated(lib) EXCEPT !.knownViolationKeys = violations(lib)]
  BY DEF fromSnapshot
<1> HIDE DEF none
<1>3. /\ Consistent(lib) /\ lib.documents = snap.documents /\ lib.links = snap.links
      /\ lib.anchors = snap.anchors
  BY <1>1, RestoredConsistent
<1> HIDE DEF lib, after
<1> DEFINE valid == validated(lib)
<1>4. /\ Consistent(valid) /\ valid.documents = snap.documents /\ valid.links = snap.links
      /\ valid.anchors = snap.anchors /\ violations(valid) = violations(lib)
  BY <1>3, ValidatedConsistent
<1> HIDE DEF valid
<1>5. after = [valid EXCEPT !.knownViolationKeys = violations(lib)]
  BY <1>2 DEF valid
<1>6. /\ Sound(after) /\ after.documents = valid.documents
      /\ after.links = valid.links /\ after.anchors = valid.anchors
  BY <1>4, <1>5, RememberedSound
<1> QED
  BY <1>4, <1>6 DEF after

(***************************************************************************)
(* The operations                                                          *)
(***************************************************************************)
\* What an operation hands to withValidation: a consistent library that knows
\* the violations there were and has not changed a document in place.
Changed(lib, changed) ==
    /\ Consistent(changed)
    /\ changed.knownViolationKeys = lib.knownViolationKeys
    /\ \A i \in DOMAIN lib.documents \cap DOMAIN changed.documents :
          changed.documents[i] = lib.documents[i]

\* Taken or rolled back, the library is sound.
LEMMA ValidationKeepsSound ==
    ASSUME NEW lib, Sound(lib), NEW changed, Changed(lib, changed)
    PROVE  Sound(withValidation(lib, changed).library)
<1> DEFINE valid == validated(changed)
           keys == violations(changed)
           undone == restoreFromSnapshot(valid, snapshot(lib))
           taken == [valid EXCEPT !.knownViolationKeys = keys]
<1>1. /\ Consistent(valid) /\ valid.documents = changed.documents
      /\ valid.knownViolationKeys = changed.knownViolationKeys
      /\ violations(valid) = keys
  BY ValidatedConsistent DEF Changed
<1>2. Sound(taken)
  <2> HIDE DEF valid, keys
  <2> QED
    BY <1>1, RememberedSound
<1>3. Sound(undone)
  <2> DEFINE snap == snapshot(lib)
  <2>1. /\ snap.documents = lib.documents /\ snap.links = lib.links
        /\ snap.anchors = lib.anchors
    BY DEF snapshot
  <2> HIDE DEF valid, snap
  <2>2. \A i \in DOMAIN valid.verifiedDocumentBodies \cap DOMAIN snap.documents :
           valid.verifiedDocumentBodies[i] = snap.documents[i].text =>
              /\ isNormalized(snap.documents[i].text)
              /\ snap.documents[i].digest = snap.documents[i].text
    BY <1>1, <2>1 DEF Consistent, CacheTrue, Changed
  <2> DEFINE after == restoreFromSnapshot(valid, snap)
  <2>3. /\ Consistent(after) /\ after.documents = lib.documents
        /\ after.links = lib.links /\ after.anchors = lib.anchors
        /\ after.knownViolationKeys = lib.knownViolationKeys
    BY <1>1, <2>1, <2>2, RestoredConsistent DEF Consistent, Changed
  <2> HIDE DEF after
  <2>4. after.linksByArgument = lib.linksByArgument
    BY <2>3 DEF Sound, Consistent, IndexesTrue
  <2>5. violations(after) = violations(lib)
    BY <2>3, <2>4, SameViolations DEF Sound, Consistent
  <2> QED
    BY <2>3, <2>5 DEF Sound, after, snap
<1>4. \/ withValidation(lib, changed).library = undone
      \/ withValidation(lib, changed).library = taken
  BY DEF withValidation, Refused
<1> HIDE DEF undone, taken
<1> QED
  BY <1>2, <1>3, <1>4

\* It is refused only for a violation that was not there.
LEMMA NoneNewIsTaken ==
    ASSUME NEW lib, Sound(lib), NEW changed, violations(changed) \subseteq violations(lib)
    PROVE  ~withValidation(lib, changed).refused
BY DEF withValidation, Sound

LEMMA RefusedStays ==
    ASSUME NEW lib
    PROVE  Refused(lib).library = lib
BY DEF Refused

\* A library by its fields.
LibraryOf(documents, links, anchors, bodies, indexes, byArgument, anchorsBy, byTarget, keys) ==
    [documents |-> documents, links |-> links, anchors |-> anchors,
     verifiedDocumentBodies |-> bodies, documentIndexes |-> indexes,
     linksByArgument |-> byArgument, anchorsByArgument |-> anchorsBy,
     anchorsByTarget |-> byTarget, knownViolationKeys |-> keys]

LEMMA FieldsOf ==
    ASSUME NEW d, NEW l, NEW a, NEW v, NEW x, NEW ba, NEW ab, NEW bt, NEW k, NEW lib,
           lib = LibraryOf(d, l, a, v, x, ba, ab, bt, k)
    PROVE  /\ IsLibrary(lib)
           /\ lib.documents = d /\ lib.links = l /\ lib.anchors = a
           /\ lib.verifiedDocumentBodies = v /\ lib.linksByArgument = ba
           /\ lib.anchorsByArgument = ab /\ lib.anchorsByTarget = bt
           /\ lib.knownViolationKeys = k
<1>1. /\ lib.documents = d /\ lib.links = l /\ lib.anchors = a
      /\ lib.verifiedDocumentBodies = v /\ lib.documentIndexes = x
      /\ lib.linksByArgument = ba /\ lib.anchorsByArgument = ab
      /\ lib.anchorsByTarget = bt /\ lib.knownViolationKeys = k
  BY DEF LibraryOf
<1>2. IsLibrary(lib)
  BY <1>1 DEF LibraryOf, IsLibrary
<1> QED
  BY <1>1, <1>2

\* An index as an entry comes and goes.
LEMMA IndexWith ==
    ASSUME NEW f, NEW id, id \notin DOMAIN f, NEW x
    PROVE  /\ ByArgument(With(f, id, x)) = ByArgument(f) \cup {<<x.argument, id>>}
           /\ ByTarget(With(f, id, x)) = ByTarget(f) \cup {<<x.target, id>>}
BY DEF ByArgument, ByTarget, With

LEMMA IndexWithout ==
    ASSUME NEW f, NEW id \in DOMAIN f
    PROVE  /\ ByArgument(Without(f, id)) = ByArgument(f) \ {<<f[id].argument, id>>}
           /\ ByTarget(Without(f, id)) = ByTarget(f) \ {<<f[id].target, id>>}
BY DEF ByArgument, ByTarget, Without, Restrict

\* A library with another documents map and caches, links or anchors.
LEMMA WithDocuments ==
    ASSUME NEW lib, IsLibrary(lib), NEW d, NEW v, NEW changed,
           changed = [lib EXCEPT !.documents = d, !.verifiedDocumentBodies = v]
    PROVE  changed = LibraryOf(d, lib.links, lib.anchors, v, lib.documentIndexes,
                               lib.linksByArgument, lib.anchorsByArgument,
                               lib.anchorsByTarget, lib.knownViolationKeys)
BY DEF IsLibrary, LibraryOf

LEMMA WithoutDocuments ==
    ASSUME NEW lib, IsLibrary(lib), NEW d, NEW v, NEW x, NEW changed,
           changed = [lib EXCEPT !.documents = d, !.verifiedDocumentBodies = v,
                                 !.documentIndexes = x]
    PROVE  changed = LibraryOf(d, lib.links, lib.anchors, v, x, lib.linksByArgument,
                               lib.anchorsByArgument, lib.anchorsByTarget,
                               lib.knownViolationKeys)
BY DEF IsLibrary, LibraryOf

LEMMA WithLinks ==
    ASSUME NEW lib, IsLibrary(lib), NEW l, NEW ba, NEW changed,
           changed = [lib EXCEPT !.links = l, !.linksByArgument = ba]
    PROVE  changed = LibraryOf(lib.documents, l, lib.anchors, lib.verifiedDocumentBodies,
                               lib.documentIndexes, ba, lib.anchorsByArgument,
                               lib.anchorsByTarget, lib.knownViolationKeys)
BY DEF IsLibrary, LibraryOf

LEMMA WithAnchors ==
    ASSUME NEW lib, IsLibrary(lib), NEW a, NEW ab, NEW bt, NEW changed,
           changed = [lib EXCEPT !.anchors = a, !.anchorsByArgument = ab,
                                 !.anchorsByTarget = bt]
    PROVE  changed = LibraryOf(lib.documents, lib.links, a, lib.verifiedDocumentBodies,
                               lib.documentIndexes, lib.linksByArgument, ab, bt,
                               lib.knownViolationKeys)
BY DEF IsLibrary, LibraryOf

\* Documents that change only by ones coming and going, with a cache that is
\* true of them, are a change as withValidation expects it.
LEMMA DocumentsChanged ==
    ASSUME NEW lib, Sound(lib), NEW d, NEW v, NEW x, NEW changed,
           changed = LibraryOf(d, lib.links, lib.anchors, v, x, lib.linksByArgument,
                               lib.anchorsByArgument, lib.anchorsByTarget,
                               lib.knownViolationKeys),
           \A i \in DOMAIN lib.documents \cap DOMAIN d : d[i] = lib.documents[i],
           \A i \in DOMAIN v :
              /\ i \in DOMAIN d
              /\ v[i] = d[i].text => isNormalized(d[i].text) /\ d[i].digest = d[i].text
    PROVE  Changed(lib, changed)
<1>1. /\ IsLibrary(changed)
      /\ changed.documents = d /\ changed.links = lib.links
      /\ changed.anchors = lib.anchors
      /\ changed.verifiedDocumentBodies = v
      /\ changed.linksByArgument = lib.linksByArgument
      /\ changed.anchorsByArgument = lib.anchorsByArgument
      /\ changed.anchorsByTarget = lib.anchorsByTarget
      /\ changed.knownViolationKeys = lib.knownViolationKeys
  BY FieldsOf
<1>2. CacheTrue(changed)
  BY <1>1 DEF CacheTrue
<1>3. IndexesTrue(changed)
  BY <1>1 DEF Sound, Consistent, IndexesTrue
<1> QED
  BY <1>1, <1>2, <1>3 DEF Changed, Consistent

\* And so are links and anchors that change with their indexes.
LEMMA LinksChanged ==
    ASSUME NEW lib, Sound(lib), NEW l, NEW ba, NEW changed,
           changed = LibraryOf(lib.documents, l, lib.anchors, lib.verifiedDocumentBodies,
                               lib.documentIndexes, ba, lib.anchorsByArgument,
                               lib.anchorsByTarget, lib.knownViolationKeys),
           ba = ByArgument(l)
    PROVE  Changed(lib, changed)
<1>1. /\ IsLibrary(changed)
      /\ changed.documents = lib.documents /\ changed.links = l
      /\ changed.anchors = lib.anchors
      /\ changed.verifiedDocumentBodies = lib.verifiedDocumentBodies
      /\ changed.linksByArgument = ba
      /\ changed.anchorsByArgument = lib.anchorsByArgument
      /\ changed.anchorsByTarget = lib.anchorsByTarget
      /\ changed.knownViolationKeys = lib.knownViolationKeys
  BY FieldsOf
<1>2. CacheTrue(changed) /\ IndexesTrue(changed)
  BY <1>1 DEF Sound, Consistent, CacheTrue, IndexesTrue
<1> QED
  BY <1>1, <1>2 DEF Changed, Consistent

LEMMA AnchorsChanged ==
    ASSUME NEW lib, Sound(lib), NEW a, NEW ab, NEW bt, NEW changed,
           changed = LibraryOf(lib.documents, lib.links, a, lib.verifiedDocumentBodies,
                               lib.documentIndexes, lib.linksByArgument, ab, bt,
                               lib.knownViolationKeys),
           ab = ByArgument(a),
           bt = ByTarget(a)
    PROVE  Changed(lib, changed)
<1>1. /\ IsLibrary(changed)
      /\ changed.documents = lib.documents /\ changed.links = lib.links
      /\ changed.anchors = a
      /\ changed.verifiedDocumentBodies = lib.verifiedDocumentBodies
      /\ changed.linksByArgument = lib.linksByArgument
      /\ changed.anchorsByArgument = ab
      /\ changed.anchorsByTarget = bt
      /\ changed.knownViolationKeys = lib.knownViolationKeys
  BY FieldsOf
<1>2. CacheTrue(changed) /\ IndexesTrue(changed)
  BY <1>1 DEF Sound, Consistent, CacheTrue, IndexesTrue
<1> QED
  BY <1>1, <1>2 DEF Changed, Consistent

\* Adding a document: its cache entry is there only if its text is in order.
LEMMA AddDocumentSound ==
    ASSUME NEW lib, Sound(lib), NEW id, NEW raw
    PROVE  Sound(addDocument(lib, id, raw).library)
<1>1. CASE id \in DOMAIN lib.documents
  BY <1>1, RefusedStays DEF addDocument
<1>2. CASE id \notin DOMAIN lib.documents
  <2> DEFINE text == normalizeOriginText(raw)
  <2>1. PICK d : d = With(lib.documents, id, [text |-> text, digest |-> text,
                                              wellFormed |-> TRUE])
    OBVIOUS
  <2>2. PICK v : v = IF isNormalized(text) THEN With(lib.verifiedDocumentBodies, id, text)
                     ELSE lib.verifiedDocumentBodies
    OBVIOUS
  <2>3. PICK changed : changed = [lib EXCEPT !.documents = d, !.verifiedDocumentBodies = v]
    OBVIOUS
  <2>4. addDocument(lib, id, raw) = withValidation(lib, changed)
    BY <1>2, <2>1, <2>2, <2>3 DEF addDocument, Sound, Consistent, IsLibrary
  <2>5. /\ DOMAIN d = DOMAIN lib.documents \cup {id}
        /\ d[id].text = text /\ d[id].digest = text
        /\ \A i \in DOMAIN lib.documents : d[i] = lib.documents[i]
    BY <1>2, <2>1 DEF With
  <2>6. \A i \in DOMAIN v :
           \/ /\ i \in DOMAIN lib.verifiedDocumentBodies \ {id}
              /\ v[i] = lib.verifiedDocumentBodies[i]
           \/ i = id /\ isNormalized(text)
    BY <1>2, <2>2 DEF With, Sound, Consistent, CacheTrue
  <2> HIDE DEF text
  <2>7. \A i \in DOMAIN v :
           /\ i \in DOMAIN d
           /\ v[i] = d[i].text => isNormalized(d[i].text) /\ d[i].digest = d[i].text
    BY <2>5, <2>6 DEF Sound, Consistent, CacheTrue
  <2>8. changed = LibraryOf(d, lib.links, lib.anchors, v, lib.documentIndexes,
                            lib.linksByArgument, lib.anchorsByArgument,
                            lib.anchorsByTarget, lib.knownViolationKeys)
    BY <2>3, WithDocuments DEF Sound, Consistent
  <2>9. Changed(lib, changed)
    BY <2>5, <2>7, <2>8, DocumentsChanged
  <2> QED
    BY <2>4, <2>9, ValidationKeepsSound
<1> QED
  BY <1>1, <1>2

\* Removing one: its cache entries go with it.
LEMMA RemoveDocumentSound ==
    ASSUME NEW lib, Sound(lib), NEW id
    PROVE  Sound(removeDocument(lib, id).library)
<1>1. CASE id \notin DOMAIN lib.documents \/ Referenced(lib, id)
  BY <1>1, RefusedStays DEF removeDocument
<1>2. CASE ~(id \notin DOMAIN lib.documents \/ Referenced(lib, id))
  <2>1. PICK d, v, x : /\ d = Without(lib.documents, id)
                       /\ v = Without(lib.verifiedDocumentBodies, id)
                       /\ x = Without(lib.documentIndexes, id)
    OBVIOUS
  <2>2. PICK changed : changed = [lib EXCEPT !.documents = d, !.verifiedDocumentBodies = v,
                                             !.documentIndexes = x]
    OBVIOUS
  <2>3. removeDocument(lib, id) = withValidation(lib, changed)
    BY <1>2, <2>1, <2>2 DEF removeDocument, Sound, Consistent, IsLibrary
  <2>4. /\ DOMAIN d = DOMAIN lib.documents \ {id}
        /\ DOMAIN v = DOMAIN lib.verifiedDocumentBodies \ {id}
        /\ \A i \in DOMAIN d : d[i] = lib.documents[i]
        /\ \A i \in DOMAIN v : v[i] = lib.verifiedDocumentBodies[i]
    BY <2>1 DEF Without, Restrict
  <2>5. \A i \in DOMAIN v :
           /\ i \in DOMAIN d
           /\ v[i] = d[i].text => isNormalized(d[i].text) /\ d[i].digest = d[i].text
    BY <2>4 DEF Sound, Consistent, CacheTrue
  <2>6. changed = LibraryOf(d, lib.links, lib.anchors, v, x, lib.linksByArgument,
                            lib.anchorsByArgument, lib.anchorsByTarget,
                            lib.knownViolationKeys)
    BY <2>2, WithoutDocuments DEF Sound, Consistent
  <2>7. Changed(lib, changed)
    BY <2>4, <2>5, <2>6, DocumentsChanged
  <2> QED
    BY <2>3, <2>7, ValidationKeepsSound
<1> QED
  BY <1>1, <1>2

\* Links and anchors: the indexes move with them.
LEMMA AddLinkSound ==
    ASSUME NEW lib, Sound(lib), NEW id, NEW link
    PROVE  Sound(addLink(lib, id, link).library)
<1>1. CASE id \in DOMAIN lib.links
  BY <1>1, RefusedStays DEF addLink
<1>2. CASE id \notin DOMAIN lib.links
  <2>1. PICK l, ba : /\ l = With(lib.links, id, link)
                     /\ ba = lib.linksByArgument \cup {<<link.argument, id>>}
    OBVIOUS
  <2>2. PICK changed : changed = [lib EXCEPT !.links = l, !.linksByArgument = ba]
    OBVIOUS
  <2>3. addLink(lib, id, link) = withValidation(lib, changed)
    BY <1>2, <2>1, <2>2 DEF addLink, Sound, Consistent, IsLibrary
  <2>4. ba = ByArgument(l)
    BY <1>2, <2>1, IndexWith DEF Sound, Consistent, IndexesTrue
  <2>5. changed = LibraryOf(lib.documents, l, lib.anchors, lib.verifiedDocumentBodies,
                            lib.documentIndexes, ba, lib.anchorsByArgument,
                            lib.anchorsByTarget, lib.knownViolationKeys)
    BY <2>2, WithLinks DEF Sound, Consistent
  <2>6. Changed(lib, changed)
    BY <2>4, <2>5, LinksChanged
  <2> QED
    BY <2>3, <2>6, ValidationKeepsSound
<1> QED
  BY <1>1, <1>2

LEMMA RemoveLinkSound ==
    ASSUME NEW lib, Sound(lib), NEW id
    PROVE  Sound(removeLink(lib, id).library)
<1>1. CASE id \notin DOMAIN lib.links
  BY <1>1, RefusedStays DEF removeLink
<1>2. CASE id \in DOMAIN lib.links
  <2>1. PICK l, ba : /\ l = Without(lib.links, id)
                     /\ ba = lib.linksByArgument \ {<<lib.links[id].argument, id>>}
    OBVIOUS
  <2>2. PICK changed : changed = [lib EXCEPT !.links = l, !.linksByArgument = ba]
    OBVIOUS
  <2>3. removeLink(lib, id) = withValidation(lib, changed)
    BY <1>2, <2>1, <2>2 DEF removeLink, Sound, Consistent, IsLibrary
  <2>4. ba = ByArgument(l)
    BY <1>2, <2>1, IndexWithout DEF Sound, Consistent, IndexesTrue
  <2>5. changed = LibraryOf(lib.documents, l, lib.anchors, lib.verifiedDocumentBodies,
                            lib.documentIndexes, ba, lib.anchorsByArgument,
                            lib.anchorsByTarget, lib.knownViolationKeys)
    BY <2>2, WithLinks DEF Sound, Consistent
  <2>6. Changed(lib, changed)
    BY <2>4, <2>5, LinksChanged
  <2> QED
    BY <2>3, <2>6, ValidationKeepsSound
<1> QED
  BY <1>1, <1>2

LEMMA AddAnchorSound ==
    ASSUME NEW lib, Sound(lib), NEW id, NEW anchor
    PROVE  Sound(addAnchor(lib, id, anchor).library)
<1>1. CASE id \in DOMAIN lib.anchors
  BY <1>1, RefusedStays DEF addAnchor
<1>2. CASE id \notin DOMAIN lib.anchors
  <2>1. PICK a, ab, bt : /\ a = With(lib.anchors, id, anchor)
                         /\ ab = lib.anchorsByArgument \cup {<<anchor.argument, id>>}
                         /\ bt = lib.anchorsByTarget \cup {<<anchor.target, id>>}
    OBVIOUS
  <2>2. PICK changed : changed = [lib EXCEPT !.anchors = a, !.anchorsByArgument = ab,
                                             !.anchorsByTarget = bt]
    OBVIOUS
  <2>3. addAnchor(lib, id, anchor) = withValidation(lib, changed)
    BY <1>2, <2>1, <2>2 DEF addAnchor, Sound, Consistent, IsLibrary
  <2>4. ab = ByArgument(a)
    BY <1>2, <2>1, IndexWith DEF Sound, Consistent, IndexesTrue
  <2>5. bt = ByTarget(a)
    BY <1>2, <2>1, IndexWith DEF Sound, Consistent, IndexesTrue
  <2>6. changed = LibraryOf(lib.documents, lib.links, a, lib.verifiedDocumentBodies,
                            lib.documentIndexes, lib.linksByArgument, ab, bt,
                            lib.knownViolationKeys)
    BY <2>2, WithAnchors DEF Sound, Consistent
  <2>7. Changed(lib, changed)
    BY <2>4, <2>5, <2>6, AnchorsChanged
  <2> QED
    BY <2>3, <2>7, ValidationKeepsSound
<1> QED
  BY <1>1, <1>2

LEMMA RemoveAnchorSound ==
    ASSUME NEW lib, Sound(lib), NEW id
    PROVE  Sound(removeAnchor(lib, id).library)
<1>1. CASE id \notin DOMAIN lib.anchors
  BY <1>1, RefusedStays DEF removeAnchor
<1>2. CASE id \in DOMAIN lib.anchors
  <2>1. PICK a, ab, bt :
           /\ a = Without(lib.anchors, id)
           /\ ab = lib.anchorsByArgument \ {<<lib.anchors[id].argument, id>>}
           /\ bt = lib.anchorsByTarget \ {<<lib.anchors[id].target, id>>}
    OBVIOUS
  <2>2. PICK changed : changed = [lib EXCEPT !.anchors = a, !.anchorsByArgument = ab,
                                             !.anchorsByTarget = bt]
    OBVIOUS
  <2>3. removeAnchor(lib, id) = withValidation(lib, changed)
    BY <1>2, <2>1, <2>2 DEF removeAnchor, Sound, Consistent, IsLibrary
  <2>4. ab = ByArgument(a)
    BY <1>2, <2>1, IndexWithout DEF Sound, Consistent, IndexesTrue
  <2>5. bt = ByTarget(a)
    BY <1>2, <2>1, IndexWithout DEF Sound, Consistent, IndexesTrue
  <2>6. changed = LibraryOf(lib.documents, lib.links, a, lib.verifiedDocumentBodies,
                            lib.documentIndexes, lib.linksByArgument, ab, bt,
                            lib.knownViolationKeys)
    BY <2>2, WithAnchors DEF Sound, Consistent
  <2>7. Changed(lib, changed)
    BY <2>4, <2>5, <2>6, AnchorsChanged
  <2> QED
    BY <2>3, <2>7, ValidationKeepsSound
<1> QED
  BY <1>1, <1>2

(***************************************************************************)
(* The theorems                                                            *)
(***************************************************************************)
\* Whatever is added, removed, refused and rolled back, from whatever snapshot:
\* the caches are true, the indexes agree with what they index, and the
\* violations known are those there are.
THEOREM OriginsStaySound == OriginSpec => []Sound(library)
<1>1. OriginInit => Sound(library)
  BY FromSnapshotSound DEF OriginInit
<1>2. Sound(library) /\ [OriginNext]_library => Sound(library)'
  <2> SUFFICES ASSUME Sound(library), [OriginNext]_library
               PROVE  Sound(library')
    OBVIOUS
  <2>1. CASE UNCHANGED library
    BY <2>1
  <2>2. ASSUME NEW i, NEW raw, Becomes(addDocument(library, i, raw))
        PROVE  Sound(library')
    BY <2>2, AddDocumentSound DEF Becomes
  <2>3. ASSUME NEW i, Becomes(removeDocument(library, i))
        PROVE  Sound(library')
    BY <2>3, RemoveDocumentSound DEF Becomes
  <2>4. ASSUME NEW i, NEW l, Becomes(addLink(library, i, l))
        PROVE  Sound(library')
    BY <2>4, AddLinkSound DEF Becomes
  <2>5. ASSUME NEW i, Becomes(removeLink(library, i))
        PROVE  Sound(library')
    BY <2>5, RemoveLinkSound DEF Becomes
  <2>6. ASSUME NEW i, NEW a, Becomes(addAnchor(library, i, a))
        PROVE  Sound(library')
    BY <2>6, AddAnchorSound DEF Becomes
  <2>7. ASSUME NEW i, Becomes(removeAnchor(library, i))
        PROVE  Sound(library')
    BY <2>7, RemoveAnchorSound DEF Becomes
  <2> QED
    BY <2>1, <2>2, <2>3, <2>4, <2>5, <2>6, <2>7 DEF OriginNext
<1> QED
  BY <1>1, <1>2, PTL DEF OriginSpec

\* The library judges itself, and finds its links and anchors, as one restored
\* from its snapshot does.
THEOREM JudgesAsAfresh == OriginSpec => []SameVerdictAfresh
<1>1. Sound(library) => SameVerdictAfresh
  <2> SUFFICES ASSUME Sound(library)
               PROVE  SameVerdictAfresh
    OBVIOUS
  <2> DEFINE snap == snapshot(library)
             afresh == fromSnapshot(snap)
  <2>1. snap.documents = library.documents /\ snap.links = library.links
        /\ snap.anchors = library.anchors
    BY DEF snapshot
  <2> HIDE DEF snap
  <2>2. /\ Sound(afresh) /\ afresh.documents = library.documents
        /\ afresh.links = library.links /\ afresh.anchors = library.anchors
    BY <2>1, FromSnapshotSound
  <2> HIDE DEF afresh
  <2>3. /\ library.linksByArgument = afresh.linksByArgument
        /\ library.anchorsByArgument = afresh.anchorsByArgument
        /\ library.anchorsByTarget = afresh.anchorsByTarget
    BY <2>2 DEF Sound, Consistent, IndexesTrue
  <2>4. violations(library) = violations(afresh)
    BY <2>2, <2>3, SameViolations DEF Sound, Consistent
  <2>5. library.knownViolationKeys = violations(library)
    BY DEF Sound
  <2> QED
    BY <2>3, <2>4, <2>5 DEF SameVerdictAfresh, afresh, snap
<1> QED
  BY <1>1, OriginsStaySound, PTL

\* An argument version is linked to a document if some link says so.
LEMMA LinkedTo ==
    ASSUME NEW lib, IndexesTrue(lib), NEW argument, NEW document
    PROVE  (\E l \in getLinksForArgument(lib, argument) : l.document = document)
              <=> \E j \in DOMAIN lib.links : /\ lib.links[j].argument = argument
                                              /\ lib.links[j].document = document
<1>1. ASSUME NEW l \in getLinksForArgument(lib, argument), l.document = document
      PROVE  \E j \in DOMAIN lib.links : /\ lib.links[j].argument = argument
                                         /\ lib.links[j].document = document
  <2>1. PICK p \in lib.linksByArgument : p[1] = argument /\ l = lib.links[p[2]]
    BY <1>1 DEF getLinksForArgument
  <2>2. PICK j \in DOMAIN lib.links : p = <<lib.links[j].argument, j>>
    BY <2>1 DEF IndexesTrue, ByArgument
  <2> QED
    BY <1>1, <2>1, <2>2
<1>2. ASSUME NEW j \in DOMAIN lib.links, lib.links[j].argument = argument,
             lib.links[j].document = document
      PROVE  \E l \in getLinksForArgument(lib, argument) : l.document = document
  <2>1. PICK p : p = <<argument, j>>
    OBVIOUS
  <2>2. p \in lib.linksByArgument /\ p[1] = argument /\ p[2] = j
    BY <1>2, <2>1 DEF IndexesTrue, ByArgument
  <2>3. lib.links[p[2]] \in getLinksForArgument(lib, argument)
    BY <2>2 DEF getLinksForArgument
  <2> QED
    BY <1>2, <2>2, <2>3
<1> QED
  BY <1>1, <1>2

\* An anchor is judged by itself, its document and whether a link joins the two.
LEMMA SameAnchorFaults ==
    ASSUME NEW lib, NEW other, NEW i, NEW a, a = lib.anchors[i], a = other.anchors[i],
           a.document \in DOMAIN lib.documents <=> a.document \in DOMAIN other.documents,
           a.document \in DOMAIN lib.documents =>
              lib.documents[a.document] = other.documents[a.document],
           (\E l \in getLinksForArgument(lib, a.argument) : l.document = a.document)
              <=> (\E l \in getLinksForArgument(other, a.argument) : l.document = a.document)
    PROVE  AnchorFaults(other, i) = AnchorFaults(lib, i)
<1>1. CASE a.document \notin DOMAIN lib.documents
  BY <1>1 DEF AnchorFaults
<1>2. CASE a.document \in DOMAIN lib.documents
  BY <1>2 DEF AnchorFaults
<1> QED
  BY <1>1, <1>2

\* Taking out an anchor makes no other one, and no link or document, worse.
LEMMA AnchorCanGo ==
    ASSUME NEW lib, Sound(lib), NEW id \in DOMAIN lib.anchors
    PROVE  ~removeAnchor(lib, id).refused
<1>1. PICK a, ab, bt :
         /\ a = Without(lib.anchors, id)
         /\ ab = lib.anchorsByArgument \ {<<lib.anchors[id].argument, id>>}
         /\ bt = lib.anchorsByTarget \ {<<lib.anchors[id].target, id>>}
  OBVIOUS
<1>2. PICK changed : changed = [lib EXCEPT !.anchors = a, !.anchorsByArgument = ab,
                                           !.anchorsByTarget = bt]
  OBVIOUS
<1>3. removeAnchor(lib, id) = withValidation(lib, changed)
  BY <1>1, <1>2 DEF removeAnchor, Sound, Consistent, IsLibrary
<1>4. changed = LibraryOf(lib.documents, lib.links, a, lib.verifiedDocumentBodies,
                          lib.documentIndexes, lib.linksByArgument, ab, bt,
                          lib.knownViolationKeys)
  BY <1>2, WithAnchors DEF Sound, Consistent
<1>5. /\ changed.documents = lib.documents /\ changed.links = lib.links
      /\ changed.anchors = a
      /\ changed.verifiedDocumentBodies = lib.verifiedDocumentBodies
      /\ changed.linksByArgument = lib.linksByArgument
  BY <1>4, FieldsOf
<1>6. \A i \in DOMAIN a : i \in DOMAIN lib.anchors /\ a[i] = lib.anchors[i]
  BY <1>1 DEF Without, Restrict
<1>7. \A i : DocumentFaults(changed, i) = DocumentFaults(lib, i)
  BY <1>5 DEF DocumentFaults
<1>8. \A i : LinkFaults(changed, i) = LinkFaults(lib, i)
  BY <1>5 DEF LinkFaults
<1>9. \A i \in DOMAIN a : AnchorFaults(changed, i) = AnchorFaults(lib, i)
  <2>1. \A x : getLinksForArgument(changed, x) = getLinksForArgument(lib, x)
    BY <1>5 DEF getLinksForArgument
  <2> QED
    BY <1>5, <1>6, <2>1, SameAnchorFaults
<1>10. violations(changed) \subseteq violations(lib)
  BY <1>5, <1>6, <1>7, <1>8, <1>9, FewerViolations
<1> QED
  BY <1>3, <1>10, NoneNewIsTaken

\* Nor does taking out a link that no anchor needs: what else links an argument
\* version to a document goes on doing so.
LEMMA LinkCanGo ==
    ASSUME NEW lib, Sound(lib), NEW id \in DOMAIN lib.links,
           \A x \in DOMAIN lib.anchors :
              \/ lib.anchors[x].argument # lib.links[id].argument
              \/ lib.anchors[x].document # lib.links[id].document
    PROVE  ~removeLink(lib, id).refused
<1>1. PICK l, ba : /\ l = Without(lib.links, id)
                   /\ ba = lib.linksByArgument \ {<<lib.links[id].argument, id>>}
  OBVIOUS
<1>2. PICK changed : changed = [lib EXCEPT !.links = l, !.linksByArgument = ba]
  OBVIOUS
<1>3. removeLink(lib, id) = withValidation(lib, changed)
  BY <1>1, <1>2 DEF removeLink, Sound, Consistent, IsLibrary
<1>4. changed = LibraryOf(lib.documents, l, lib.anchors, lib.verifiedDocumentBodies,
                          lib.documentIndexes, ba, lib.anchorsByArgument,
                          lib.anchorsByTarget, lib.knownViolationKeys)
  BY <1>2, WithLinks DEF Sound, Consistent
<1>5. /\ changed.documents = lib.documents /\ changed.links = l
      /\ changed.anchors = lib.anchors
      /\ changed.verifiedDocumentBodies = lib.verifiedDocumentBodies
  BY <1>4, FieldsOf
<1>6. IndexesTrue(lib) /\ IndexesTrue(changed)
  <2>1. ba = ByArgument(l)
    BY <1>1, IndexWithout DEF Sound, Consistent, IndexesTrue
  <2> QED
    BY <1>4, <2>1, LinksChanged DEF Sound, Consistent, Changed
<1>7. /\ DOMAIN l = DOMAIN lib.links \ {id}
      /\ \A i \in DOMAIN l : l[i] = lib.links[i]
  BY <1>1 DEF Without, Restrict
<1>8. \A i : DocumentFaults(changed, i) = DocumentFaults(lib, i)
  BY <1>5 DEF DocumentFaults
<1>9. \A i \in DOMAIN l : LinkFaults(changed, i) = LinkFaults(lib, i)
  BY <1>5, <1>7 DEF LinkFaults
<1>10. ASSUME NEW x \in DOMAIN lib.anchors
       PROVE  AnchorFaults(changed, x) = AnchorFaults(lib, x)
  <2> DEFINE a == lib.anchors[x]
             links(y) == getLinksForArgument(y, a.argument)
  <2>1. (\E k \in links(lib) : k.document = a.document) <=>
           \E j \in DOMAIN lib.links : /\ lib.links[j].argument = a.argument
                                       /\ lib.links[j].document = a.document
    BY <1>6, LinkedTo
  <2>2. (\E k \in links(changed) : k.document = a.document) <=>
           \E j \in DOMAIN l : l[j].argument = a.argument /\ l[j].document = a.document
    BY <1>5, <1>6, LinkedTo
  <2>3. (\E k \in links(changed) : k.document = a.document) <=>
           (\E k \in links(lib) : k.document = a.document)
    BY <1>7, <2>1, <2>2
  <2> QED
    BY <1>5, <2>3, SameAnchorFaults
<1>11. violations(changed) \subseteq violations(lib)
  BY <1>5, <1>7, <1>8, <1>9, <1>10, FewerViolations
<1> QED
  BY <1>3, <1>11, NoneNewIsTaken

\* Nor taking out a document that nothing refers to.
LEMMA DocumentCanGo ==
    ASSUME NEW lib, Sound(lib), NEW id \in DOMAIN lib.documents, ~Referenced(lib, id)
    PROVE  ~removeDocument(lib, id).refused
<1>1. PICK d, v, x : /\ d = Without(lib.documents, id)
                     /\ v = Without(lib.verifiedDocumentBodies, id)
                     /\ x = Without(lib.documentIndexes, id)
  OBVIOUS
<1>2. PICK changed : changed = [lib EXCEPT !.documents = d, !.verifiedDocumentBodies = v,
                                           !.documentIndexes = x]
  OBVIOUS
<1>3. removeDocument(lib, id) = withValidation(lib, changed)
  BY <1>1, <1>2 DEF removeDocument, Sound, Consistent, IsLibrary
<1>4. changed = LibraryOf(d, lib.links, lib.anchors, v, x, lib.linksByArgument,
                          lib.anchorsByArgument, lib.anchorsByTarget,
                          lib.knownViolationKeys)
  BY <1>2, WithoutDocuments DEF Sound, Consistent
<1>5. /\ changed.documents = d /\ changed.links = lib.links
      /\ changed.anchors = lib.anchors
      /\ changed.verifiedDocumentBodies = v
      /\ changed.linksByArgument = lib.linksByArgument
  BY <1>4, FieldsOf
<1>6. /\ DOMAIN d = DOMAIN lib.documents \ {id}
      /\ \A i \in DOMAIN d : d[i] = lib.documents[i]
      /\ DOMAIN v = DOMAIN lib.verifiedDocumentBodies \ {id}
      /\ \A i \in DOMAIN v : v[i] = lib.verifiedDocumentBodies[i]
  BY <1>1 DEF Without, Restrict
<1>7. \A i \in DOMAIN d : DocumentFaults(changed, i) = DocumentFaults(lib, i)
  <2>1. \A i \in DOMAIN d : \A t : Holds(v, i, t) <=> Holds(lib.verifiedDocumentBodies, i, t)
    BY <1>6 DEF Holds
  <2> QED
    BY <1>5, <1>6, <2>1 DEF DocumentFaults
<1>8. \A i \in DOMAIN lib.links : LinkFaults(changed, i) = LinkFaults(lib, i)
  <2>1. \A i \in DOMAIN lib.links : lib.links[i].document # id
    BY DEF Referenced
  <2> QED
    BY <1>5, <1>6, <2>1 DEF LinkFaults
<1>9. \A i \in DOMAIN lib.anchors : AnchorFaults(changed, i) = AnchorFaults(lib, i)
  <2>1. \A i \in DOMAIN lib.anchors : lib.anchors[i].document # id
    BY DEF Referenced
  <2>2. \A y : getLinksForArgument(changed, y) = getLinksForArgument(lib, y)
    BY <1>5 DEF getLinksForArgument
  <2> QED
    BY <1>5, <1>6, <2>1, <2>2, SameAnchorFaults
<1>10. violations(changed) \subseteq violations(lib)
  BY <1>5, <1>6, <1>7, <1>8, <1>9, FewerViolations
<1> QED
  BY <1>3, <1>10, NoneNewIsTaken

\* However damaged the snapshot was and whatever happened since, the library can
\* be repaired: anchors first, then links no anchor needs, then documents nothing
\* refers to.
THEOREM OriginsStayRepairable == OriginSpec => []StaysRepairable
<1>1. Sound(library) => StaysRepairable
  BY AnchorCanGo, LinkCanGo, DocumentCanGo DEF StaysRepairable
<1> QED
  BY <1>1, OriginsStaySound, PTL
==============================================================================
