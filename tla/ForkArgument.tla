---------------------------- MODULE ForkArgument ----------------------------
(***************************************************************************)
(* PropositCore.forkArgument (lib/core/proposit-core.ts) over the claim    *)
(* libraries of ClaimGraph and the argument library.                       *)
(*                                                                         *)
(* A fork copies the argument and clones the claims its variables bind,    *)
(* with everything that supports them.  A response keeps the claims it     *)
(* shares with the argument it answers.  The orchestration is several      *)
(* mutations of separate libraries without a rollback: it clones, adds the *)
(* connections, registers the engine and only then writes fork records.    *)
(*                                                                         *)
(* An argument is abstracted to what its variables pin (a claim at a       *)
(* version); the copy of premises and expressions (fork.ts) only renames.  *)
(***************************************************************************)
EXTENDS ClaimGraph, FiniteSetsExt, Functions

CONSTANTS ArgumentId,
          Answers,              \* bound: the arguments a caller creates, and what
                                \* each answers (an argument version, or Nothing)
          Nothing,
          RestoredForks,        \* argument fork records of the snapshot
          Bindable,             \* bound: what a caller binds in each argument
          MaxArgumentVersions,  \* bound: versions of each argument
          MaxForks              \* bound: calls of forkArgument

Pin == [claim : ClaimId, version : Nat]

ASSUME ForkAssumption == /\ IsFiniteSet(ArgumentId)
                         /\ Nothing \notin ArgumentId
                         /\ DOMAIN RestoredForks \cup Range(RestoredForks)
                               \subseteq ArgumentId
                         /\ DOMAIN Answers \subseteq ArgumentId
                         /\ \A r \in Range(Answers) \ {Nothing} :
                               r.argument \in ArgumentId /\ r.version \in Nat
                         /\ \A a \in ArgumentId :
                               Bindable[a] \subseteq Pin

VARIABLES
    arguments,     \* id -> what it answers and the pins of each version so far
    released,      \* the answered argument versions that were removed and that
                   \* callers still have snapshots of -> their pins
    claimForks,    \* the claim fork records
    argumentForks, \* the argument fork records, id -> id of the source
    forks          \* calls of forkArgument that got past the lookups

forkVars == <<claims, citations, axioms, arguments, released, claimForks,
              argumentForks, forks>>
argumentVars == <<arguments, released, claimForks, argumentForks, forks>>

\* The argument versions that are answered.
Answered == Range(Answers) \ {Nothing}

ReleasedOK ==
    /\ DOMAIN released \subseteq Answered
    /\ \A r \in DOMAIN released : released[r] \in SUBSET Pin

TypeOK ==
    /\ GraphTypeOK
    /\ ReleasedOK
    /\ DOMAIN arguments \subseteq ArgumentId
    /\ \A a \in DOMAIN arguments :
          arguments[a] \in [answers : Range(Answers),
                            versions : Seq(SUBSET Pin) \ {<<>>}]
    /\ claimForks \subseteq [entity : ClaimId, from : ClaimId, fromVersion : Nat,
                             argument : ArgumentId]
    /\ DOMAIN argumentForks \subseteq ArgumentId
    /\ Range(argumentForks) \subseteq ArgumentId
    /\ forks \in Nat

Init == /\ GraphInit
        /\ arguments = [a \in {} |-> {}]
        /\ released = [a \in {} |-> {}]
        /\ claimForks = {}
        /\ argumentForks = RestoredForks
        /\ forks = 0

\* The variables of the version the library holds.
pinsOf(a) == arguments[a].versions[Len(arguments[a].versions)]
versionOf(a) == Len(arguments[a].versions) - 1
claimsIn(pins) == {p.claim : p \in pins}

(***************************************************************************)
(* The argument library and the engine operations that move pins           *)
(***************************************************************************)
answeredOf(a) == {r \in Answered : r.argument = a}

\* A bound: of an argument created anew no older snapshot is passed.
create(a) ==
    /\ a \in DOMAIN Answers \ DOMAIN arguments
    /\ arguments' = [x \in DOMAIN arguments \cup {a} |->
          IF x = a THEN [answers |-> Answers[a], versions |-> <<{}>>]
                   ELSE arguments[x]]
    /\ released' = Restrict(released, DOMAIN released \ answeredOf(a))
    /\ UNCHANGED <<graphVars, claimForks, argumentForks, forks>>

remove(a) ==
    /\ a \in DOMAIN arguments
    /\ arguments' = Restrict(arguments, DOMAIN arguments \ {a})
    /\ released' =
          [r \in DOMAIN released \cup {q \in answeredOf(a) : q.version <= versionOf(a)} |->
             IF r.argument = a /\ r.version <= versionOf(a)
             THEN arguments[a].versions[r.version + 1] ELSE released[r]]
    /\ UNCHANGED <<graphVars, claimForks, argumentForks, forks>>

SetPins(a, pins) ==
    /\ arguments' = [arguments EXCEPT ![a].versions[Len(arguments[a].versions)] = pins]
    /\ UNCHANGED <<graphVars, released, claimForks, argumentForks, forks>>

addVariable(a, p) ==
    /\ a \in DOMAIN arguments
    /\ HasVersion(p.claim, p.version)
    /\ SetPins(a, pinsOf(a) \cup {p})

removeVariable(a, p) ==
    /\ a \in DOMAIN arguments
    /\ p \in pinsOf(a)
    /\ SetPins(a, pinsOf(a) \ {p})

\* The consumer replaces the engine by one at the next version.
nextVersion(a) ==
    /\ a \in DOMAIN arguments
    /\ arguments' = [arguments EXCEPT ![a].versions = Append(@, pinsOf(a))]
    /\ UNCHANGED <<graphVars, released, claimForks, argumentForks, forks>>

(***************************************************************************)
(* forkArgument                                                            *)
(***************************************************************************)
\* What the answered argument binds at the version answered.
answeredPins(r) ==
    IF r.argument \in DOMAIN arguments THEN arguments[r.argument].versions[r.version + 1]
                                       ELSE released[r]

\* Can the answered argument be had at that version: from the library, or from
\* the respondsToSnapshot the caller passes.
AnsweredAvailable(a, passed) ==
    LET r == arguments[a].answers
    IN  r # Nothing =>
          IF r.argument \in DOMAIN arguments
          THEN r.version = versionOf(r.argument) \/ (passed /\ r.version < versionOf(r.argument))
          ELSE passed /\ r \in DOMAIN released

\* Faulty variant: the claims of the response itself are kept.
claimsSharedWithAnswered_Own(a) ==
    IF arguments[a].answers = Nothing THEN {} ELSE claimsIn(pinsOf(a))

claimsSharedWithAnswered(a) ==
    LET r == arguments[a].answers
    IN  IF r = Nothing THEN {}
        ELSE claimsIn(answeredPins(r))

\* The claims bound and not kept, and what supports them; a kept claim is not
\* walked through.
collectClaimClosure(a, kept) ==
    ReachableFrom(claimsIn(pinsOf(a)) \ kept,
                  {e \in citations \cup axioms : e.supporting \notin kept})

\* generateId: fresh ids for the clones.  Which ones does not matter.
FreshIds(closure) ==
    CHOOSE f \in Injection(closure, ClaimId \ DOMAIN claims) : TRUE

\* The clone of a claim takes the content of its current version.
Clones(remap) ==
    [d \in Range(remap) |->
        LET c == CHOOSE x \in DOMAIN remap : remap[x] = d
        IN  FirstVersion(claims[c].type, getCurrent(c).content)]

\* Faulty variant: a connection to a kept claim is skipped like any other whose
\* ends were not both cloned.
cloneConnections_KeptSkipped(edges, remap, kept) ==
    {[claim |-> remap[e.claim], claimVersion |-> 0,
      supporting |-> remap[e.supporting], supportingVersion |-> 0] :
        e \in {x \in edges : /\ x.claim \in DOMAIN remap
                             /\ x.supporting \in DOMAIN remap}}

cloneConnections(edges, remap, kept) ==
    LET walked == {e \in edges : e.claim \in DOMAIN remap}
    IN  {[claim |-> remap[e.claim], claimVersion |-> 0,
          supporting |-> remap[e.supporting], supportingVersion |-> 0] :
            e \in {x \in walked : x.supporting \in DOMAIN remap}}
        \cup
        {[e EXCEPT !.claim = remap[e.claim], !.claimVersion = 0] :
            e \in {x \in walked : /\ x.supporting \notin DOMAIN remap
                                  /\ x.supporting \in kept}}

\* Faulty variant: the clone is bound at the version the original was.
rebuildWithRemappedClaims_SameVersion(pins, remap) ==
    {IF p.claim \in DOMAIN remap THEN [p EXCEPT !.claim = remap[p.claim]] ELSE p :
        p \in pins}

rebuildWithRemappedClaims(pins, remap) ==
    {IF p.claim \in DOMAIN remap THEN [claim |-> remap[p.claim], version |-> 0]
                                 ELSE p : p \in pins}

\* ForkNamespace.create: the record of an entity, which has none yet.
WithRecord(records, id, from) ==
    [x \in DOMAIN records \cup {id} |-> IF x = id THEN from ELSE records[x]]

\* The argument's record comes first, and create() throws when an argument of
\* that id was forked before: then no record is written.
createForkRecords(a, newId, remap) ==
    IF newId \in DOMAIN argumentForks
    THEN UNCHANGED <<claimForks, argumentForks>>
    ELSE /\ argumentForks' = WithRecord(argumentForks, newId, a)
         /\ claimForks' = claimForks \cup
              {[entity |-> remap[c], from |-> c, fromVersion |-> maxVersion(c),
                argument |-> a] : c \in DOMAIN remap}

\* register() throws when the id is taken: what was written until then stays.
forkArgument(a, newId, passed) ==
    /\ a \in DOMAIN arguments
    /\ AnsweredAvailable(a, passed)
    /\ LET kept    == claimsSharedWithAnswered(a)
           closure == collectClaimClosure(a, kept)
           remap   == FreshIds(closure)
       IN  /\ Cardinality(closure) <= Cardinality(ClaimId \ DOMAIN claims)
           /\ claims' = WithClaims(Clones(remap))
           /\ citations' = citations \cup cloneConnections(citations, remap, kept)
           /\ axioms' = axioms \cup cloneConnections(axioms, remap, kept)
           /\ IF newId \in DOMAIN arguments
              THEN UNCHANGED <<arguments, claimForks, argumentForks>>
              ELSE /\ arguments' = [x \in DOMAIN arguments \cup {newId} |->
                         IF x = newId
                         THEN [answers |-> arguments[a].answers,
                               versions |->
                                 <<rebuildWithRemappedClaims(pinsOf(a), remap)>>]
                         ELSE arguments[x]]
                   /\ createForkRecords(a, newId, remap)
    /\ forks' = forks + 1
    /\ UNCHANGED released

Libraries == GraphNext /\ UNCHANGED argumentVars

ArgumentStep(a) ==
    \/ create(a)
    \/ remove(a)
    \/ /\ a \in DOMAIN arguments
       /\ \/ \E p \in Bindable[a] : addVariable(a, p)
          \/ \E p \in pinsOf(a) : removeVariable(a, p)
          \/ versionOf(a) + 1 < MaxArgumentVersions[a] /\ nextVersion(a)

Fork == /\ forks < MaxForks
        /\ \E a, n \in ArgumentId, passed \in BOOLEAN : forkArgument(a, n, passed)

Next == Libraries \/ (\E a \in ArgumentId : ArgumentStep(a)) \/ Fork

Spec == Init /\ [][Next]_forkVars

(***************************************************************************)
(* Properties                                                              *)
(***************************************************************************)
\* Every claim a variable binds exists at the version it is bound at: in the
\* argument it was added to, in its earlier versions, and in every fork, where
\* the clones start again at version 0.
RefsSound ==
    \A a \in DOMAIN arguments : \A pins \in Range(arguments[a].versions) :
        \A p \in pins : HasVersion(p.claim, p.version)

\* The claims a fork step recorded as clones, and whether d is e's counterpart
\* among them (or e itself).
NewRecords == claimForks' \ claimForks
Counterpart(d, e) ==
    d = e \/ \E r \in NewRecords : r.entity = d /\ r.from = e

\* Each connection of from has its counterpart at entity, and no other is there.
SameSupport(entity, from, before, after) ==
    /\ \A e \in before : e.claim = from =>
          \E f \in after : f.claim = entity /\ Counterpart(f.supporting, e.supporting)
    /\ \A f \in after : f.claim = entity =>
          \E e \in before : e.claim = from /\ Counterpart(f.supporting, e.supporting)

\* A clone stands for its original as the record says: the content of the
\* version named, the same type, and the same support as far as it goes, the
\* support a response shares with the argument it answers included.
ForkCopiesSupport ==
    [][\A r \in NewRecords :
          /\ claims'[r.entity].type = claims[r.from].type
          /\ claims'[r.entity].versions[1].content =
                claims[r.from].versions[r.fromVersion + 1].content
          /\ SameSupport(r.entity, r.from, citations, citations')
          /\ SameSupport(r.entity, r.from, axioms, axioms')]_forkVars

\* What the argument answered by a binds, at the version answered.
AnsweredClaims(a) ==
    LET r == arguments[a].answers
    IN  IF r = Nothing THEN {}
        ELSE claimsIn(answeredPins(r))

\* "The forked argument is fully independent", except that a response goes on
\* binding the very claims it shares with the argument it answers: of the
\* claims there were, the fork binds exactly those, and its clones rest on no
\* others.
ForkSharesOnlyAnswered ==
    [][\A n \in DOMAIN argumentForks' \ DOMAIN argumentForks :
          LET a      == argumentForks'[n]
              bound  == claimsIn(arguments'[n].versions[1])
              shared == claimsIn(pinsOf(a)) \cap AnsweredClaims(a)
          IN  /\ bound \cap DOMAIN claims = shared
              /\ \A c \in claimsIn(pinsOf(a)) : \E d \in bound : Counterpart(d, c)
              /\ \A r \in NewRecords, e \in citations' \cup axioms' :
                    e.claim = r.entity /\ e.supporting \in DOMAIN claims =>
                        e.supporting \in AnsweredClaims(a)]_forkVars
=============================================================================
