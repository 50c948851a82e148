------------------------------- MODULE Response ------------------------------
(***************************************************************************)
(* A response through the versions of the argument it answers: its         *)
(* bindings are classified, it is moved to another version, its links are  *)
(* checked, and a reader's agreement with them is carried into the         *)
(* argument (the response operations of core/argument-engine.ts).          *)
(***************************************************************************)
EXTENDS CarriedAnswers, Rebase

CONSTANT Scenarios  \* [response, versions, outside, bindable, decisions, readers,
                    \*  claimTypes]: see MCResponse

\* The trees of an argument: its parts resolve, and no expression is below
\* itself.
Trees(r) ==
    /\ None \notin DOMAIN r.expr
    /\ \A p \in premisesOf(r) : r.root[p] # None => r.root[p] \in expressionsIn(r, p)
    /\ \A e \in DOMAIN r.expr :
        /\ r.expr[e] = [premise |-> premiseOf(r, e), kind |-> kindOf(r, e),
                        kids |-> kids(r, e), variable |-> r.expr[e].variable]
        /\ premiseOf(r, e) \in premisesOf(r)
        /\ kids(r, e) \in Seq(expressionsIn(r, premiseOf(r, e)))
    /\ \A p \in premisesOf(r) : \A below \in (SUBSET expressionsIn(r, p)) \ {{}} :
          \E e \in below : Range(kids(r, e)) \cap below = {}

IsArgument(r) ==
    r = [id |-> r.id, version |-> r.version, expr |-> r.expr, root |-> r.root,
         conclusion |-> r.conclusion, derivations |-> r.derivations,
         binding |-> r.binding, respondsTo |-> r.respondsTo, order |-> r.order]

\* A response an engine holds: every leaf has a variable that is bound.
Loaded(r) ==
    /\ IsArgument(r)
    /\ IsFiniteSet(premisesOf(r))
    /\ r.order \in Seq(Range(r.order)) /\ premisesOf(r) \subseteq Range(r.order)
    /\ Trees(r)
    /\ \A e \in DOMAIN r.expr : kindOf(r, e) = "variable" => r.expr[e].variable \in DOMAIN r.binding
    /\ \A x \in expressionBound(r) :
          LET b == r.binding[x]
          IN  b = [to |-> "expression", argument |-> b.argument, version |-> b.version,
                   expression |-> b.expression, aspect |-> b.aspect]

\* The premises of an argument that p reads through its variables.
readThrough(t, p) ==
    {t.binding[x].premise : x \in {y \in variablesOf(t, p) : isInternal(t, y)}}

\* An argument that can be answered: evaluation accepts its premises, and none
\* is read through itself.
Answerable(t) ==
    /\ IsArgument(t)
    /\ IsFiniteSet(DOMAIN t.expr) /\ IsFiniteSet(DOMAIN t.binding)
    /\ Trees(t)
    /\ \A e \in DOMAIN t.expr :
        /\ kindOf(t, e) \in OperatorKind \cup {"formula", "variable"}
        /\ validatePremiseEvaluability(t, premiseOf(t, e))
    /\ \A P \in (SUBSET premisesOf(t)) \ {{}} : \E p \in P : readThrough(t, p) \cap P = {}

\* A version number stands for one version of the argument answered, and no
\* expression of a response has the id of one of its target.
ASSUME ResponseAssumption ==
    /\ Ceiling \in Nat
    /\ \A s \in Scenarios :
        /\ Loaded(s.response)
        /\ \A t \in s.versions : Answerable(t) /\ DOMAIN s.response.expr \cap DOMAIN t.expr = {}
        /\ \A t, u \in s.versions : t.version = u.version => t = u

VARIABLES
    scenario,   \* the argument answered, in its versions, and what callers do
    response,   \* the response as it stands
    last        \* the last call and what it returned

rvars == <<scenario, response, last>>

answered == {t \in scenario.versions : reference(t) = response.respondsTo}

Init ==
    /\ scenario \in Scenarios
    /\ response = scenario.response
    /\ last = [call |-> "none"]

classify ==
    \E from, to \in scenario.versions :
        /\ from # to /\ classifiable(response, from, to)
        /\ last' = [call |-> "classify", from |-> from.version, to |-> to.version,
                    entries |-> classifyBindings(response, from, to, scenario.outside)]
        /\ UNCHANGED <<scenario, response>>

\* The call is refused before anything changes, or undone.
refuse == response' = response /\ last' = [call |-> "rebase", done |-> FALSE]

rebaseResponse ==
    \E from, to \in scenario.versions, decisions \in scenario.decisions :
        LET entries == classifyBindings(response, from, to, scenario.outside)
            before == IF response.respondsTo[2] = from.version THEN from ELSE to
            after == moved(response, to, entries, decisions)
            resolved == /\ to.version \in scenario.bindable
                        /\ classifiable(response, from, to)
                        /\ resolvable(response, to, entries, decisions)
        IN  /\ from # to
            /\ UNCHANGED scenario
            /\ IF resolved
               THEN IF assertRebased(after, before, to, linkFaultKeys(response, before))
                    THEN /\ response' = after
                         /\ last' = [call |-> "rebase", done |-> TRUE, before |-> response,
                                     from |-> from.version, to |-> to.version,
                                     entries |-> entries, decisions |-> decisions]
                    ELSE refuse
               ELSE refuse

\* The problems that make checking and carrying answer "invalid".
problems(t) == IF t \in answered THEN linkFaultKeys(response, t)
               ELSE {<<"LINK_TARGET_MISMATCH", "none", 0>>}

check ==
    \E t \in scenario.versions :
        /\ last' = IF problems(t) # {} THEN [call |-> "check", invalid |-> TRUE]
                   ELSE [call |-> "check", invalid |-> FALSE, against |-> t.version,
                         links |-> checkLinks(response, t),
                         coherence |-> checkResponseCoherent(response, t)]
        /\ UNCHANGED <<scenario, response>>

carryReport(t, reader, result) ==
    [call |-> "carry", invalid |-> FALSE, against |-> t.version, reader |-> reader,
     result |-> result, merge |-> mergeCarriedInput(reader.entered, result)]

\* The reader agrees with some links, of which some answers are carried into
\* this response themselves, and has entered some values for the argument.
carry ==
    \E t \in scenario.versions, reader \in scenario.readers :
        /\ last' = IF problems(t) # {} THEN [call |-> "carry", invalid |-> TRUE]
                   ELSE carryReport(t, reader,
                            carryAnswers(response, t, reader.agreed, reader.own,
                                         scenario.claimTypes))
        /\ UNCHANGED <<scenario, response>>

Next == classify \/ rebaseResponse \/ check \/ carry

Spec == Init /\ [][Next]_rvars

(***************************************************************************)
(* Properties.                                                             *)
(***************************************************************************)
versionNamed(v) == CHOOSE t \in scenario.versions : t.version = v

\* A key with the version of an external premise left out.
unversioned(column) ==
    IF column[1] = "premise" THEN <<"premise", column[2], column[4]>> ELSE column
fixedBy(t, link) ==
    LET set == expander(t)
        e == link.expression
    IN  {<<unversioned(c), valueOf(set, e, saysTrue(link), c)>> :
            c \in fixedColumns(set, e, saysTrue(link))}
meaningOf(t, link) ==
    IF link.aspect = "statement"
    THEN <<decomposeStatement(expander(t), link.expression, saysTrue(link)),
           fixedBy(t, link)>>
    ELSE <<carryInference(t, link).reason, carryInference(t, link).values>>

\* What an expression says, with what it refers to in the other arguments read
\* from the snapshots at hand, n arguments deep.
saying(outside, t, e, n) ==
    LET all == outside \cup {t}
        named(ref) == UNION {{<<s, x>> : x \in rootsNamed(s, ref)} : s \in find(outside, ref)}
        depth[m \in 0..n] ==
            [at \in UNION {{<<s, x>> : x \in DOMAIN s.expr \cup {None}} : s \in all} |->
                IF at[2] = None THEN <<<<"empty">>, << >>>>
                ELSE LET refs == outsideReferences(at[1], at[2])
                     IN  <<shapeOf(at[1], at[2]),
                           [k \in DOMAIN refs |->
                               IF m = 0 THEN {} ELSE {depth[m - 1][x] : x \in named(refs[k])}]>>]
    IN  depth[n][<<t, e>>]

\* A binding classified unchanged, and so moved without asking, means the same
\* to every link on it: agreeing with the link fixes the same things in the
\* version left and in the version moved to, a step can be granted or struck in
\* the one exactly when it can in the other, and whatever the expression refers
\* to in other arguments says the same, however far that goes.
UnchangedMeansSame ==
    last.call = "classify" =>
        LET from == versionNamed(last.from)
            to == versionNamed(last.to)
            n == Cardinality(scenario.outside)
            says(t, e) == saying(scenario.outside, t, e, n)
        IN  \A link \in listLinks(response) :
                statusIn(last.entries, link.variable) = "unchanged" =>
                    /\ meaningOf(from, link) = meaningOf(to, link)
                    /\ says(from, link.expression) = says(to, link.expression)

\* What the caller agreed to is what happens.  A rebase that returns leaves
\* every binding resolved at the new version with no fault it did not have,
\* brings no two variables onto one expression and aspect, removes exactly the
\* premises listed for what was dropped and touches no expression of any other.
RebaseDoesWhatWasListed ==
    (last.call = "rebase" /\ last.done) =>
        LET to == versionNamed(last.to)
            old == last.before
            listed == UNION {b.premises : b \in
                {c \in last.entries : c.variable \in dropped(last.decisions)}}
            bindsOf(r, x) == <<r.binding[x].expression, r.binding[x].aspect>>
        IN  /\ response.respondsTo = reference(to)
            /\ \A x \in expressionBound(response) :
                /\ response.binding[x].version = to.version
                /\ snapshotHasExpression(to, response.binding[x].expression)
                /\ \A y \in expressionBound(response) :
                    bindsOf(response, x) = bindsOf(response, y)
                        => bindsOf(old, x) = bindsOf(old, y)
            /\ expressionBound(response) = expressionBound(old) \ dropped(last.decisions)
            /\ premisesOf(response) = premisesOf(old) \ listed
            /\ response.root = Restrict(old.root, premisesOf(response))
            /\ response.expr = Restrict(old.expr, {e \in DOMAIN old.expr :
                                                      premiseOf(old, e) \notin listed})

(***************************************************************************)
(* A reading of the world gives every atom a truth value: the claims, and  *)
(* the steps and outside premises nothing here decides.  It is a set of    *)
(* true columns, and each argument is evaluated on its own under it.       *)
(***************************************************************************)
statementBound(r) ==
    {x \in DOMAIN r.binding :
        r.binding[x].to = "expression" /\ r.binding[x].aspect = "statement"}
atoms(a, xs, premises) ==
    {columnOf(a, a.binding[x]) : x \in {y \in xs : ownRoot(a, premises, a.binding[y]) = None}}
worldOf(r, t) ==
    atoms(t, DOMAIN t.binding, premisesOf(t))
        \cup atoms(r, DOMAIN r.binding \ statementBound(r), sourcePremises(r))

valueIn(b) == IF b THEN True ELSE False

\* An argument whose variables give way to the premises they stand for.
inPlace(a, premises) ==
    LET stands(e) == ownRoot(a, premises, a.binding[a.expr[e].variable])
    IN  [a EXCEPT !.expr = [e \in DOMAIN @ |->
            IF kindOf(a, e) = "variable" /\ stands(e) # None
            THEN [@[e] EXCEPT !.kind = "formula", !.kids = <<stands(e)>>] ELSE @[e]]]

targetValues(t, world) ==
    evaluateSubtree(inPlace(t, premisesOf(t)),
        [x \in DOMAIN t.binding |-> valueIn(columnOf(t, t.binding[x]) \in world)])

\* The response's premises, its statement bindings read off the target.
responseValues(r, t, world) ==
    LET target == targetValues(t, world)
    IN  evaluateSubtree(inPlace(r, sourcePremises(r)),
            [x \in DOMAIN r.binding |->
                IF x \in statementBound(r) THEN target[r.binding[x].expression]
                ELSE valueIn(columnOf(r, r.binding[x]) \in world)])

worlds(r, t) == {w \cup forcedTrueColumns(r) : w \in SUBSET worldOf(r, t)}

\* The premises of the response that hold in each reading.
holding(r, t) ==
    {{p \in sourcePremises(r) :
        responseValues(r, t, w)[r.root[p]] = True} : w \in worlds(r, t)}

entails(hs, premises, p) == \A h \in hs : premises \subseteq h => p \in h

\* No group of the premises has more columns than the search will walk.
decidable(r, t) ==
    \A group \in groupsOf(combine(r, t), forcedTrueColumns(r), formulasOf(r, sourcePremises(r))) :
        ~tooLarge(combine(r, t), forcedTrueColumns(r), group)

\* The check answers what entailment does, for a response evaluation accepts.
\* A link said to follow does from the support listed and from no part of it,
\* and from premises that are not links when those are enough; one said to be
\* asserted fails in the counterexample, where every premise but the links that
\* say the same holds; premises said to clash do, and no part of them if the
\* search can decide; nothing is left undetermined unless the columns together
\* exceed the ceiling; and a link that follows rests only on links exactly when
\* it does not follow from the premises that are not links and the asserted
\* ones: two links that support each other support nothing.
\* (core/response/check.ts)
CheckIsEntailment ==
    (last.call = "check" /\ ~last.invalid /\ Answerable(response)) =>
        LET r == response
            t == versionNamed(last.against)
            set == combine(r, t)
            hs == holding(r, t)
            all == sourcePremises(r)
            asserted == {p \in DOMAIN last.links : last.links[p].status = "asserted"}
            fits == \E h \in hs : all \subseteq h
        IN  /\ last.coherence.coherent = "yes" => fits
            /\ last.coherence.coherent = "no" =>
                LET bad == last.coherence.unsatisfiable
                IN  /\ ~ \E h \in hs : bad \subseteq h
                    /\ decidable(r, t) =>
                           \A q \in bad : \E h \in hs : bad \ {q} \subseteq h
            /\ \A p \in DOMAIN last.links :
                LET said == last.links[p]
                    twins == {q \in links(r) : isNegated(r, q) = isNegated(r, p)
                        /\ formulaKey(set, linkLeaf(r, q)) = formulaKey(set, linkLeaf(r, p))}
                IN  /\ said.status = "follows" =>
                        /\ fits
                        /\ said.support \subseteq all \ twins
                        /\ entails(hs, said.support, p)
                        /\ \A q \in said.support : ~entails(hs, said.support \ {q}, p)
                        /\ entails(hs, nonLinkPremises(r), p) =>
                               said.support \cap links(r) = {}
                    /\ said.status = "asserted" =>
                        LET h == {q \in all : responseValues(r, t, said.counterexample)
                                                  [r.root[q]] = True}
                        IN  fits /\ p \notin h /\ all \ twins \subseteq h
                    /\ said.status = "incoherent" => ~fits
                    /\ said.status = "undetermined" =>
                        Cardinality(worldOf(r, t) \ forcedTrueColumns(r)) > Ceiling
                    /\ (said.status = "follows" /\ said.restsOnlyOnLinks # "absent") =>
                        (said.restsOnlyOnLinks = "no"
                            <=> entails(hs, nonLinkPremises(r) \cup asserted, p))

\* The worlds in which a set of values entered for the argument holds, and its
\* axioms do.
axiomIn(t, claimTypes, x) ==
    LET b == t.binding[x]
    IN  /\ b.to = "claim" /\ <<b.claim, b.version>> \in DOMAIN claimTypes
        /\ claimTypes[<<b.claim, b.version>>] = "axiomatic"
agreeing(t, claimTypes, values) ==
    {w \in SUBSET worldOf(noResponse, t) :
        \A x \in DOMAIN t.binding :
            /\ (proposal("variable", x, "true") \in values \/ axiomIn(t, claimTypes, x))
                   => columnOf(t, t.binding[x]) \in w
            /\ proposal("variable", x, "false") \in values => columnOf(t, t.binding[x]) \notin w}

\* What evaluation reads: no expression bound in an argument that answers none,
\* and nothing that only a derivation without support names.
heard(t) ==
    {columnOf(t, t.binding[x]) :
        x \in {y \in evaluatedVariables(t) :
                  t.binding[y].to \in {"claim", "premise", "external"}}}

\* Agreeing with a link carries all the link says or nothing: whatever else is
\* true, the values it carries give its expression the value it says, as long as
\* evaluation reads all that is fixed; a step it grants is one by which its
\* premise holds, and a step it strikes is one evaluation lets a reader strike.
\* Values carried by different links never disagree.  (core/response/carry.ts)
CarriedValuesSayIt ==
    (last.call = "carry" /\ ~last.invalid) =>
        LET t == versionNamed(last.against)
            sources == last.result.sources
        IN  /\ \A v, w \in carriedValues(last.result) : ~contradict(v, w)
            /\ \A p \in DOMAIN sources :
                LET link == readLink(response, p)
                    e == link.expression
                    q == premiseOf(t, e)
                IN
                /\ sources[p].values # {}
                /\ (/\ link.aspect = "statement" /\ t.respondsTo = Nobody
                    /\ fixedColumns(expander(t), e, saysTrue(link)) \subseteq heard(t)) =>
                       \A w \in agreeing(t, scenario.claimTypes, sources[p].values) :
                           targetValues(t, w)[e] = valueIn(saysTrue(link))
                /\ (link.aspect = "inference" /\ t.respondsTo = Nobody) =>
                       IF link.move = "undercut"
                       THEN q \notin t.derivations /\ (q = t.conclusion => isAtRoot(t, e))
                       ELSE /\ kindOf(t, e) \in Conditional
                            /\ \A w \in SUBSET worldOf(noResponse, t) :
                                  targetValues(t, w)[t.root[q]] = targetValues(t, w)[e]
=============================================================================
