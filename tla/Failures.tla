------------------------------ MODULE Failures ------------------------------
(***************************************************************************)
(* When RefResolver fails, as a function of the texts alone: the           *)
(* preprocessed form of a document as a tree, on a web without import      *)
(* cycles and mixins, which fails with any part of it.                     *)
(***************************************************************************)
EXTENDS RefResolver

TreeOf(kind, id, links, kids) == [kind |-> kind, id |-> id, links |-> links, kids |-> kids]
Scalar == TreeOf("scalar", NoUrl, {}, <<>>)
Failed == TreeOf("failed", NoUrl, {}, <<>>)

RECURSIVE Subtrees(_)
Subtrees(t) == {t} \union UNION {Subtrees(k) : k \in ToSet(t.kids)}

\* A value is what its parts are, and fails with any of them.
Assemble(t) == IF Failed \in ToSet(t.kids) THEN Failed ELSE t

IsImport(a) == a # Text /\ web.heap[a].kind = "import"

RECURSIVE Expanded(_, _, _), Target(_)

\* The tree of the object at address a of the texts, below a base URL.
Expanded(a, id, base) ==
    IF a = Text THEN Scalar
    ELSE LET n    == web.heap[a]
             own  == IF id = NoUrl THEN Based(n, base) ELSE ExpandId(id, Based(n, base))
             kid(i) == LET k == n.kids[i]
                       IN  Expanded(k, IF k = Text THEN NoUrl ELSE web.heap[k].id, own)
             flat(i) == IF IsImport(n.kids[i]) /\ kid(i).kind = "seq" THEN kid(i).kids
                        ELSE <<kid(i)>>
         IN  CASE n.kind = "import"  -> Target(ExpandRef(n.ref, base))
               [] n.kind = "include" -> IF web.root[ExpandRef(n.ref, base).doc] = NoText
                                        THEN Failed ELSE Scalar
               [] n.kind = "graph"   -> Expanded(n.kids[1], NoUrl, Based(n, base))
               [] n.kind = "seq"     -> Assemble(TreeOf("seq", NoUrl, {},
                                            FlattenSeq([i \in DOMAIN n.kids |-> flat(i)])))
               [] OTHER              -> Assemble(TreeOf("map", IF id = NoUrl THEN NoUrl ELSE own,
                                            {ExpandRef(l, own) : l \in n.links},
                                            [i \in DOMAIN n.kids |-> kid(i)]))

\* What a reference stands for: a document, whose map is named after it if it has no name, or
\* the object of that document with this identifier.
Target(url) ==
    LET r     == web.root[url.doc]
        d     == DocUrl(url)
        id    == IF r \in {Text, NoText} THEN NoUrl ELSE web.heap[r].id
        whole == CASE r = NoText -> Failed
                   [] r = Text   -> Scalar
                   [] OTHER      -> Expanded(r, IF web.heap[r].kind = "map" /\ id = NoUrl THEN d ELSE id, d)
        found == {t \in Subtrees(whole) : t.id = url}
    IN  IF url = d \/ whole = Failed \/ (id # NoUrl /\ url = ExpandId(id, d)) THEN whole
        ELSE IF found = {} THEN Failed ELSE CHOOSE t \in found : TRUE

\* Every link of a value names something that can be retrieved.
LinksFound(t) == \A s \in Subtrees(t) : \A u \in s.links : web.root[u.doc] # NoText

(***************************************************************************)
(* An exception has a reason: a text that cannot be retrieved, an object    *)
(* that does not exist, or a link to nowhere.  And with such a reason the   *)
(* first call does not succeed.                                            *)
(***************************************************************************)
ErrorsAreJustified ==
    LET sound == Target(result.url) # Failed /\ LinksFound(Target(result.url))
    IN  /\ result.status \in {"invalid", "crash", "overflow"} => faults > 0 \/ ~sound
        /\ result.status = "ok" /\ calls = 1 => sound

\* "It is a fatal error if an import directive refers to an external resource or
\* resource fragment which does not exist or is not accessible"
\* (metaschema/import_include.md): also for a call after one that has failed.
MissingIsFatal == result.status = "ok" /\ faults = 0 => Target(result.url) # Failed

=============================================================================
