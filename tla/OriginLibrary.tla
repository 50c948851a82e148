--------------------------- MODULE OriginLibrary ---------------------------
(***************************************************************************)
(* The origin library (lib/core/origin-library.ts): the documents an       *)
(* argument was built from, the links of argument versions to them, and    *)
(* the anchors, spans of a document that parts of an argument quote.       *)
(*                                                                         *)
(* The library is a record: what a snapshot holds (documents, links,       *)
(* anchors), the indexes by argument and by target, the violations known   *)
(* to be there, and two caches of validate(), the texts it has found in    *)
(* order (verifiedDocumentBodies) and the texts it has indexed.  An        *)
(* operation gives the library it leaves and whether it was refused.       *)
(*                                                                         *)
(* A digest stands for the text it was taken of.  An argument version is a *)
(* value; an anchor target is one of a few.                                *)
(***************************************************************************)
EXTENDS OriginText, Functions

CONSTANTS DocumentId, LinkId, AnchorId,
          RawTexts,       \* bound: the texts a caller adds documents of
          LinkInput,      \* bound: the links a caller adds
          AnchorInput,    \* bound: the anchors a caller adds
          Snapshots       \* bound: the snapshots a library is restored from

VARIABLE library

Empty == [x \in {} |-> x]
With(f, id, x) == [y \in DOMAIN f \cup {id} |-> IF y = id THEN x ELSE f[y]]
Without(f, id) == Restrict(f, DOMAIN f \ {id})

snapshot(lib) ==
    [documents |-> lib.documents, links |-> lib.links, anchors |-> lib.anchors]

(***************************************************************************)
(* validate(): the violations, and the caches it leaves                    *)
(***************************************************************************)
Holds(f, id, x) == id \in DOMAIN f /\ f[id] = x

\* A text that was found in order once is not looked at again.
DocumentFaults(lib, id) ==
    LET d == lib.documents[id]
    IN  IF ~d.wellFormed THEN {"SCHEMA_INVALID"}
        ELSE IF Holds(lib.verifiedDocumentBodies, id, d.text) THEN {}
        ELSE {code \in {"TEXT_NOT_NORMALIZED"} : ~isNormalized(d.text)}
             \cup {code \in {"DIGEST_MISMATCH"} : d.digest # d.text}

LinkFaults(lib, id) ==
    LET l == lib.links[id]
    IN  IF ~l.wellFormed THEN {"SCHEMA_INVALID"}
        ELSE {code \in {"REF_NOT_FOUND"} : l.document \notin DOMAIN lib.documents}

getLinksForArgument(lib, argument) ==
    {lib.links[p[2]] : p \in {q \in lib.linksByArgument : q[1] = argument}}

\* One fault can hide another: only a span in range is read.
AnchorFaults(lib, id) ==
    LET a == lib.anchors[id]
        text == lib.documents[a.document].text
        inRange == 0 <= a.from /\ a.from <= a.to /\ a.to <= Len(text)
        linked == \E l \in getLinksForArgument(lib, a.argument) :
                      l.document = a.document
    IN  IF ~a.wellFormed THEN {"SCHEMA_INVALID"}
        ELSE IF a.document \notin DOMAIN lib.documents THEN {"REF_NOT_FOUND"}
        ELSE IF ~inRange THEN {"SPAN_OUT_OF_RANGE"}
        ELSE {code \in {"QUOTE_MISMATCH"} :
                 sliceByCodePoints(text, a.from, a.to) # a.exact}
             \cup {code \in {"LINK_NOT_FOUND"} : ~linked}

violations(lib) ==
    LET inDocuments == UNION {{<<code, "document", i>> : code \in DocumentFaults(lib, i)} :
                                 i \in DOMAIN lib.documents}
        inLinks == UNION {{<<code, "link", i>> : code \in LinkFaults(lib, i)} :
                             i \in DOMAIN lib.links}
        inAnchors == UNION {{<<code, "anchor", i>> : code \in AnchorFaults(lib, i)} :
                               i \in DOMAIN lib.anchors}
    IN  inDocuments \cup inLinks \cup inAnchors

\* The library after validate(): the texts found in order and the texts anchors
\* were sliced from are remembered.
validated(lib) ==
    LET inOrder == {i \in DOMAIN lib.documents : DocumentFaults(lib, i) = {}}
        sliced  == {lib.anchors[i].document :
                      i \in {x \in DOMAIN lib.anchors : lib.anchors[x].wellFormed}}
                   \cap DOMAIN lib.documents
    IN  [lib EXCEPT
          !.verifiedDocumentBodies = [i \in DOMAIN @ \cup inOrder |->
              IF i \in inOrder THEN lib.documents[i].text ELSE @[i]],
          !.documentIndexes = [i \in DOMAIN @ \cup sliced |->
              IF i \in sliced THEN lib.documents[i].text ELSE @[i]]]

(***************************************************************************)
(* Restoring, and refusing what introduces a violation                     *)
(***************************************************************************)
\* A cache entry stays if the text it is about does.
StillOf(cache, documents) ==
    Restrict(cache, {i \in DOMAIN cache \cap DOMAIN documents :
                        cache[i] = documents[i].text})

restoreFromSnapshot(lib, snap) ==
    [lib EXCEPT
      !.documents = snap.documents, !.links = snap.links, !.anchors = snap.anchors,
      !.verifiedDocumentBodies = StillOf(@, snap.documents),
      !.documentIndexes = StillOf(@, snap.documents),
      !.linksByArgument = {<<snap.links[i].argument, i>> : i \in DOMAIN snap.links},
      !.anchorsByArgument =
          {<<snap.anchors[i].argument, i>> : i \in DOMAIN snap.anchors},
      !.anchorsByTarget =
          {<<snap.anchors[i].target, i>> : i \in DOMAIN snap.anchors}]

\* What a snapshot gets wrong is not refused, only remembered.
fromSnapshot(snap) ==
    LET none == [documents |-> Empty, links |-> Empty, anchors |-> Empty,
                 verifiedDocumentBodies |-> Empty, documentIndexes |-> Empty,
                 linksByArgument |-> {}, anchorsByArgument |-> {},
                 anchorsByTarget |-> {}, knownViolationKeys |-> {}]
        lib == restoreFromSnapshot(none, snap)
    IN  [validated(lib) EXCEPT !.knownViolationKeys = violations(lib)]

Refused(lib) == [library |-> lib, refused |-> TRUE]

\* Faulty variant: a mutation must leave a library without violations.
withValidation_Clean(lib, changed) ==
    IF violations(changed) # {}
    THEN Refused(restoreFromSnapshot(validated(changed), snapshot(lib)))
    ELSE [library |-> [validated(changed) EXCEPT !.knownViolationKeys = {}],
          refused |-> FALSE]

withValidation(lib, changed) ==
    LET introduced == violations(changed) \ lib.knownViolationKeys
    IN  IF introduced # {}
        THEN Refused(restoreFromSnapshot(validated(changed), snapshot(lib)))
        ELSE [library |-> [validated(changed) EXCEPT
                              !.knownViolationKeys = violations(changed)],
              refused |-> FALSE]

(***************************************************************************)
(* The operations: what the library is afterwards, and whether it refused  *)
(***************************************************************************)
\* Faulty variant: the text just normalized counts as found in order.
addDocument_SeedsVerified(lib, id, raw) ==
    LET text == normalizeOriginText(raw)
    IN  IF id \in DOMAIN lib.documents THEN Refused(lib)
        ELSE withValidation(lib, [lib EXCEPT
               !.documents = With(@, id, [text |-> text, digest |-> text,
                                          wellFormed |-> TRUE]),
               !.verifiedDocumentBodies = With(@, id, text)])

addDocument(lib, id, raw) ==
    LET text == normalizeOriginText(raw)
    IN  IF id \in DOMAIN lib.documents THEN Refused(lib)
        ELSE withValidation(lib, [lib EXCEPT
               !.documents = With(@, id, [text |-> text, digest |-> text,
                                          wellFormed |-> TRUE]),
               !.verifiedDocumentBodies =
                   IF isNormalized(text) THEN With(@, id, text) ELSE @])

addLink(lib, id, link) ==
    IF id \in DOMAIN lib.links THEN Refused(lib)
    ELSE withValidation(lib, [lib EXCEPT
           !.links = With(@, id, link),
           !.linksByArgument = @ \cup {<<link.argument, id>>}])

addAnchor(lib, id, anchor) ==
    IF id \in DOMAIN lib.anchors THEN Refused(lib)
    ELSE withValidation(lib, [lib EXCEPT
           !.anchors = With(@, id, anchor),
           !.anchorsByArgument = @ \cup {<<anchor.argument, id>>},
           !.anchorsByTarget = @ \cup {<<anchor.target, id>>}])

Referenced(lib, id) ==
    \/ \E l \in DOMAIN lib.links : lib.links[l].document = id
    \/ \E a \in DOMAIN lib.anchors : lib.anchors[a].document = id

removeDocument(lib, id) ==
    IF id \notin DOMAIN lib.documents \/ Referenced(lib, id) THEN Refused(lib)
    ELSE withValidation(lib, [lib EXCEPT
           !.documents = Without(@, id),
           !.verifiedDocumentBodies = Without(@, id),
           !.documentIndexes = Without(@, id)])

removeLink(lib, id) ==
    IF id \notin DOMAIN lib.links THEN Refused(lib)
    ELSE withValidation(lib, [lib EXCEPT
           !.links = Without(@, id),
           !.linksByArgument = @ \ {<<lib.links[id].argument, id>>}])

removeAnchor(lib, id) ==
    IF id \notin DOMAIN lib.anchors THEN Refused(lib)
    ELSE withValidation(lib, [lib EXCEPT
           !.anchors = Without(@, id),
           !.anchorsByArgument = @ \ {<<lib.anchors[id].argument, id>>},
           !.anchorsByTarget = @ \ {<<lib.anchors[id].target, id>>}])

OriginInit == library \in {fromSnapshot(s) : s \in Snapshots}

Becomes(outcome) == library' = outcome.library

OriginNext ==
    \/ \E i \in DocumentId : \/ \E raw \in RawTexts : Becomes(addDocument(library, i, raw))
                             \/ Becomes(removeDocument(library, i))
    \/ \E i \in LinkId : \/ \E l \in LinkInput : Becomes(addLink(library, i, l))
                         \/ Becomes(removeLink(library, i))
    \/ \E i \in AnchorId : \/ \E a \in AnchorInput : Becomes(addAnchor(library, i, a))
                           \/ Becomes(removeAnchor(library, i))

OriginSpec == OriginInit /\ [][OriginNext]_library

(***************************************************************************)
(* Properties                                                              *)
(***************************************************************************)
\* Whatever was added, removed, refused and rolled back, the caches hide nothing
\* and the indexes miss nothing: the library judges itself, and finds its links
\* and anchors, as one restored from its snapshot does, and knows its violations.
SameVerdictAfresh ==
    LET afresh == fromSnapshot(snapshot(library))
    IN  /\ violations(library) = violations(afresh)
        /\ library.knownViolationKeys = violations(library)
        /\ library.linksByArgument = afresh.linksByArgument
        /\ library.anchorsByArgument = afresh.anchorsByArgument
        /\ library.anchorsByTarget = afresh.anchorsByTarget

\* "A library that validates has to stay repairable", and one restored from a
\* damaged snapshot with it: whatever else is wrong, an anchor can be taken
\* out, a link no anchor needs and a document nothing refers to as well.
StaysRepairable ==
    /\ \A i \in DOMAIN library.anchors : ~removeAnchor(library, i).refused
    /\ \A i \in DOMAIN library.links :
          (\A a \in DOMAIN library.anchors :
              \/ library.anchors[a].argument # library.links[i].argument
              \/ library.anchors[a].document # library.links[i].document)
          => ~removeLink(library, i).refused
    /\ \A i \in DOMAIN library.documents :
          ~Referenced(library, i) => ~removeDocument(library, i).refused
=============================================================================
