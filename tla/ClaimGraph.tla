----------------------------- MODULE ClaimGraph -----------------------------
(***************************************************************************)
(* The claim libraries of lib/core: versioned, freezable claims            *)
(* (versioned-library.ts, claim-library.ts) and the two kinds of           *)
(* connection between them, citations (claim-citation-library.ts) and      *)
(* axioms (claim-axiom-library.ts).                                        *)
(*                                                                         *)
(* Each library validates only itself after a mutation, so what relates    *)
(* the three (a connection to the type and versions of its claims) is kept *)
(* by the rules of each operation alone.  A refused operation throws and   *)
(* changes nothing.  Connections carry no id here: two that agree on both  *)
(* ends are one.  Claim bodies are abstracted to a content.                *)
(***************************************************************************)
EXTENDS Integers, Sequences, FiniteSets

ClaimType == {"normal", "citation", "axiomatic"}

CONSTANTS ClaimId,          \* the ids claims can have
          Content,          \* the bodies a claim can have
          Restored,         \* the claims of the snapshot the run starts from
          ClaimInput,       \* bound: the ids and types a caller creates
          Editable,         \* bound: the claims a caller updates and freezes
          Linkable,         \* bound: the connections a caller adds
          MaxVersions,      \* bound: versions of one claim
          MaxConnections    \* bound: connections a caller adds to a library

Version == [content : Content, frozen : BOOLEAN]
Claim == [type : ClaimType, versions : Seq(Version) \ {<<>>}]
Connection == [claim : ClaimId, claimVersion : Nat,
               supporting : ClaimId, supportingVersion : Nat]

\* fromSnapshot validates nothing: the snapshot is one the library wrote.
ASSUME ClaimAssumption ==
    /\ IsFiniteSet(ClaimId)
    /\ DOMAIN Restored \subseteq ClaimId
    /\ \A c \in DOMAIN Restored :
          /\ Restored[c] \in Claim
          /\ \A v \in DOMAIN Restored[c].versions :
                Restored[c].versions[v].frozen <=> v < Len(Restored[c].versions)
    /\ ClaimInput \subseteq [id : ClaimId, type : ClaimType]
    /\ Linkable \subseteq Connection
    /\ MaxVersions \in Nat \ {0}
    /\ MaxConnections \in Nat

VARIABLES claims,      \* id -> its type and its versions, version 0 first
          citations,   \* the connections of the citation library
          axioms       \* the connections of the axiom library

graphVars == <<claims, citations, axioms>>

GraphTypeOK ==
    /\ DOMAIN claims \subseteq ClaimId
    /\ \A c \in DOMAIN claims : claims[c] \in Claim
    /\ citations \subseteq Connection
    /\ axioms \subseteq Connection

GraphInit == /\ claims = Restored
             /\ citations = {}
             /\ axioms = {}

\* The lookup of a claim at a version, and its latest version.
HasVersion(c, v) == c \in DOMAIN claims /\ v + 1 \in 1 .. Len(claims[c].versions)
maxVersion(c) == Len(claims[c].versions) - 1
getCurrent(c) == claims[c].versions[Len(claims[c].versions)]

(***************************************************************************)
(* Claims                                                                  *)
(***************************************************************************)
\* claims extended with the claims of new, all of them at fresh ids.
WithClaims(new) ==
    [c \in DOMAIN claims \cup DOMAIN new |->
        IF c \in DOMAIN new THEN new[c] ELSE claims[c]]

\* A claim as create() stores it: version 0, not frozen.
FirstVersion(type, content) ==
    [type |-> type, versions |-> <<[content |-> content, frozen |-> FALSE]>>]

createClaim(c, type, content) ==
    /\ c \notin DOMAIN claims
    /\ claims' = WithClaims([x \in {c} |-> FirstVersion(type, content)])
    /\ UNCHANGED <<citations, axioms>>

\* Faulty variants: the type may change while nothing is frozen; the update
\* goes to version 0.
updateClaim_TypeMutable(c, type, content) ==
    /\ c \in DOMAIN claims
    /\ ~getCurrent(c).frozen
    /\ claims' = [claims EXCEPT
          ![c].versions[Len(claims[c].versions)].content = content,
          ![c].type = type]
    /\ UNCHANGED <<citations, axioms>>
updateClaim_FirstVersion(c, type, content) ==
    /\ c \in DOMAIN claims
    /\ type = claims[c].type
    /\ ~getCurrent(c).frozen
    /\ claims' = [claims EXCEPT ![c].versions[1].content = content]
    /\ UNCHANGED <<citations, axioms>>

\* An update edits the latest version and may not change the type.
updateClaim(c, type, content) ==
    /\ c \in DOMAIN claims
    /\ type = claims[c].type
    /\ ~getCurrent(c).frozen
    /\ claims' = [claims EXCEPT
          ![c].versions[Len(claims[c].versions)].content = content]
    /\ UNCHANGED <<citations, axioms>>

\* Freezing the latest version appends its mutable successor.
freezeClaim(c) ==
    /\ c \in DOMAIN claims
    /\ ~getCurrent(c).frozen
    /\ maxVersion(c) + 1 < MaxVersions
    /\ claims' = [claims EXCEPT
          ![c].versions = Append([@ EXCEPT ![Len(@)].frozen = TRUE],
                                 [getCurrent(c) EXCEPT !.frozen = FALSE])]
    /\ UNCHANGED <<citations, axioms>>

(***************************************************************************)
(* Connections                                                             *)
(***************************************************************************)
\* T contains every claim that supports one of its claims.
ClosedUnder(T, edges) ==
    \A e \in edges : e.claim \in T => e.supporting \in T

dependents(edges) == {e.claim : e \in edges}
supporters(edges) == {e.supporting : e \in edges}

\* What a depth-first search along supporting sides visits from the claims of
\* seed: the smallest set that contains seed and is closed.
ReachableFrom(seed, edges) ==
    LET ends == seed \cup supporters(edges)
    IN  {d \in ends : \A T \in SUBSET ends :
            seed \subseteq T /\ ClosedUnder(T, edges) => d \in T}

\* Among any dependent claims, one is supported by none of them.
AcyclicGraph(edges) ==
    \A T \in (SUBSET dependents(edges)) \ {{}} :
        {c \in T : \A e \in edges : e.claim = c => e.supporting \notin T} # {}

RefsResolve(e) == /\ HasVersion(e.claim, e.claimVersion)
                  /\ HasVersion(e.supporting, e.supportingVersion)

\* What citations.validate() and axioms.validate() ask of a library.
CitationsValid(edges) ==
    /\ \A e \in edges : /\ RefsResolve(e)
                        /\ claims[e.supporting].type = "citation"
    /\ AcyclicGraph(edges)

AxiomsValid(edges) ==
    \A e \in edges : /\ RefsResolve(e)
                     /\ claims[e.claim].type = "normal"
                     /\ claims[e.supporting].type = "axiomatic"

\* The check add() makes first.  A dependent claim of type normal is waved
\* through: nothing can ever cite it.
wouldCreateCycle(c, supporting) ==
    /\ claims[c].type # "normal"
    /\ c \in ReachableFrom({supporting}, citations)

addCitation(e) ==
    /\ RefsResolve(e)
    /\ claims[e.supporting].type = "citation"
    /\ ~wouldCreateCycle(e.claim, e.supporting)
    /\ CitationsValid(citations \cup {e})
    /\ citations' = citations \cup {e}
    /\ UNCHANGED <<claims, axioms>>

addAxiom(e) ==
    /\ RefsResolve(e)
    /\ claims[e.claim].type = "normal"
    /\ claims[e.supporting].type = "axiomatic"
    /\ AxiomsValid(axioms \cup {e})
    /\ axioms' = axioms \cup {e}
    /\ UNCHANGED <<claims, citations>>

removeCitation(e) ==
    /\ e \in citations
    /\ citations' = citations \ {e}
    /\ UNCHANGED <<claims, axioms>>

removeAxiom(e) ==
    /\ e \in axioms
    /\ axioms' = axioms \ {e}
    /\ UNCHANGED <<claims, citations>>

GraphNext ==
    \/ \E in \in ClaimInput, b \in Content : createClaim(in.id, in.type, b)
    \/ \E c \in Editable : \/ \E t \in ClaimType, b \in Content : updateClaim(c, t, b)
                          \/ freezeClaim(c)
    \/ \E e \in Linkable : \/ /\ Cardinality(citations) < MaxConnections
                              /\ addCitation(e)
                           \/ /\ Cardinality(axioms) < MaxConnections
                              /\ addAxiom(e)
    \/ \E e \in citations : removeCitation(e)
    \/ \E e \in axioms : removeAxiom(e)

GraphSpec == GraphInit /\ [][GraphNext]_graphVars

(***************************************************************************)
(* Properties                                                              *)
(***************************************************************************)
\* The three libraries agree although none of them validates the others: each
\* connection resolves at both ends and joins claims of the types its kind
\* allows, and no claim supports itself through citations.
GraphSound == CitationsValid(citations) /\ AxiomsValid(axioms)

\* The check before the write is exact, the shortcut for normal claims
\* included: what it lets through, the validation after the write accepts.
CycleCheckExact ==
    \A c, s \in DOMAIN claims :
        claims[s].type = "citation" =>
            (wouldCreateCycle(c, s) <=>
                ~AcyclicGraph(citations \cup
                    {[claim |-> c, claimVersion |-> 0,
                      supporting |-> s, supportingVersion |-> 0]}))

\* What a connection or a variable pins down by freezing stays put: a frozen
\* version keeps its content, no version disappears, no type changes.
FrozenIsForever ==
    [][\A c \in DOMAIN claims :
          /\ c \in DOMAIN claims'
          /\ claims'[c].type = claims[c].type
          /\ \A v \in DOMAIN claims[c].versions :
                /\ v \in DOMAIN claims'[c].versions
                /\ claims[c].versions[v].frozen =>
                      claims'[c].versions[v] = claims[c].versions[v]]_claims
=============================================================================
