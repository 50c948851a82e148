---------------------------- MODULE MCLibraries ----------------------------
(***************************************************************************)
(* The libraries, in three situations the first state chooses between.     *)
(*                                                                         *)
(* "claims": ClaimGraph, three restored citation claims that can form a    *)
(* cycle of any length, one of which can be edited and frozen; a normal    *)
(* and an axiomatic claim to create.                                       *)
(*                                                                         *)
(* "forks": ForkArgument, a normal claim with an edited successor of its   *)
(* frozen version, two citations and an axiomatic claim, all restored; a   *)
(* standard argument, a response to its first version, a free argument id  *)
(* and one that a fork since removed has used.  The ids g1 to g4 are left  *)
(* to generateId.                                                          *)
(*                                                                         *)
(* "origins": OriginLibrary, a sound snapshot and two damaged ones.        *)
(***************************************************************************)
EXTENDS ForkArgument, OriginLibrary

VARIABLE situation

librariesVars == <<forkVars, library, situation>>

(***************************************************************************)
(* The claims                                                              *)
(***************************************************************************)
First == <<[content |-> "first", frozen |-> FALSE]>>

G == INSTANCE ClaimGraph WITH
    Restored <- [c \in {"c1", "c2", "c3"} |-> [type |-> "citation", versions |-> First]],
    ClaimInput <- {[id |-> "n", type |-> "normal"], [id |-> "x", type |-> "axiomatic"]},
    Editable <- {"c1"},
    Linkable <- [claim : {"n", "c1", "c2", "c3", "x"}, claimVersion : {0, 1},
                 supporting : {"c1", "c2", "c3", "x"}, supportingVersion : {0}],
    MaxConnections <- 3

(***************************************************************************)
(* The forks                                                               *)
(***************************************************************************)
MCClaimId == {"n", "c1", "c2", "c3", "x", "g1", "g2", "g3", "g4"}
MCContent == {"first", "second"}
MCLinkable ==
    {[claim |-> "n",  claimVersion |-> 0, supporting |-> "c1", supportingVersion |-> 0],
     [claim |-> "c1", claimVersion |-> 0, supporting |-> "c2", supportingVersion |-> 0],
     [claim |-> "n",  claimVersion |-> 1, supporting |-> "x",  supportingVersion |-> 0]}

MCRestored == [c \in {"n", "c1", "c2", "x"} |->
    [type |-> CASE c = "n" -> "normal" [] c = "x" -> "axiomatic"
                [] OTHER -> "citation",
     versions |-> IF c = "n"
                  THEN <<[content |-> "first", frozen |-> TRUE],
                         [content |-> "second", frozen |-> FALSE]>>
                  ELSE First]]

MCArgumentId == {"std", "resp", "copy", "used"}
MCRestoredForks == [a \in {"used"} |-> "std"]
MCAnswers == [a \in {"std", "resp"} |->
    IF a = "resp" THEN [argument |-> "std", version |-> 0] ELSE Nothing]

\* The original binds the successor of n, the response its frozen version.
MCBindable == [a \in MCArgumentId |->
    CASE a = "std"  -> {[claim |-> "n", version |-> 1], [claim |-> "c1", version |-> 0]}
      [] a = "resp" -> {[claim |-> "n", version |-> 0], [claim |-> "c1", version |-> 0]}
      [] OTHER      -> {}]
MCMaxArgumentVersions == [a \in MCArgumentId |-> IF a = "std" THEN 2 ELSE 1]

(***************************************************************************)
(* The origins                                                             *)
(***************************************************************************)
MCDocumentId == {"d1", "d2"}
MCLinkId == {"l1", "l2"}
MCAnchorId == {"a1", "a2"}

\* Text that normalizing changes, and text that normalizing does not settle.
Page == <<"letter", "lf", "pictograph">>
RawPage == <<"letter", "cr", "lf", "control", "pictograph", "space">>
Unsettled == <<"joiner", "arrow", "stroke">>
MCRawTexts == {RawPage, Unsettled}

Link(argument, document) ==
    [argument |-> argument, document |-> document, wellFormed |-> TRUE]
Anchor(argument, document, to) ==
    [argument |-> argument, document |-> document, target |-> "expression",
     from |-> 2, to |-> to, exact |-> <<"pictograph">>, wellFormed |-> TRUE]

MCLinkInput == {Link("first", "d1"), Link("second", "d2")}
MCAnchorInput ==
    {Anchor("first", "d1", 3),
     Anchor("second", "d2", 4),
     [Anchor("first", "d1", 2) EXCEPT !.target = "premise", !.wellFormed = FALSE]}

Document(text, digest) == [text |-> text, digest |-> digest, wellFormed |-> TRUE]

\* The second snapshot holds a changed text under the digest of the original, a
\* link to a document that is gone and two anchors without a link, one of which
\* runs past the end; the third a raw text and an anchor of an older format.
MCSnapshots ==
    {[documents |-> Empty, links |-> Empty, anchors |-> Empty],
     [documents |-> [d \in {"d1"} |-> Document(<<"letter">> \o Page, Page)],
      links |-> [l \in {"l2"} |-> Link("second", "d2")],
      anchors |-> [a \in MCAnchorId |->
                     Anchor("first", "d1", IF a = "a1" THEN 3 ELSE 5)]],
     [documents |-> [d \in {"d2"} |-> Document(RawPage, RawPage)],
      links |-> [l \in {"l1"} |-> Link("second", "d2")],
      anchors |-> [a \in {"a2"} |->
                     [Anchor("second", "d2", 3) EXCEPT
                        !.target = "premise", !.wellFormed = FALSE]]]}

(***************************************************************************)
(* One of the three                                                        *)
(***************************************************************************)
NoArguments == /\ arguments = Empty
               /\ released = Empty
               /\ claimForks = {}
               /\ argumentForks = Empty
               /\ forks = 0

LibrariesInit ==
    \/ /\ situation = "claims"
       /\ G!GraphInit /\ NoArguments
       /\ library = fromSnapshot([documents |-> Empty, links |-> Empty, anchors |-> Empty])
    \/ /\ situation = "forks"
       /\ Init
       /\ library = fromSnapshot([documents |-> Empty, links |-> Empty, anchors |-> Empty])
    \/ /\ situation = "origins"
       /\ claims = Empty /\ citations = {} /\ axioms = {} /\ NoArguments
       /\ OriginInit

ClaimsNext == situation = "claims" /\ G!GraphNext /\ UNCHANGED <<argumentVars, library>>
ForksNext == situation = "forks" /\ Next /\ UNCHANGED library
OriginsNext == situation = "origins" /\ OriginNext /\ UNCHANGED forkVars

LibrariesNext == (ClaimsNext \/ ForksNext \/ OriginsNext) /\ UNCHANGED situation

LibrariesSpec == LibrariesInit /\ [][LibrariesNext]_librariesVars
=============================================================================
