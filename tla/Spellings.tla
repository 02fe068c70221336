----------------------------- MODULE Spellings -----------------------------
(***************************************************************************)
(* The many ways to write a document, and the one thing it means.          *)
(*                                                                         *)
(* A content is a tree of objects with names, links and types.  A document *)
(* that spells it is resolved by Normalization, once and once again; what  *)
(* comes out is compared with the meaning of the content, as the rules of  *)
(* metaschema/salad.md give it.                                            *)
(***************************************************************************)
EXTENDS Normalization

CONSTANTS
    Base,     \* the URL of the document
    Contents, \* [name, base, voc, link, ref, type, files, kids, sub]
    Spelled(_)\* the documents that a content may be written as

VARIABLES
    content,
    deep,     \* Loader.salad_version is 1.3 or later
    doc,      \* the document, as it is now
    ids,      \* Loader.idx
    phase     \* "text", "resolved", "checked", "again", "same", "refused"

vars == <<loader, content, deep, doc, ids, phase>>

Init ==
    /\ loader = AddContext(VocabOf)
    /\ content \in Contents
    /\ deep \in IF content.type = Null THEN {TRUE} ELSE BOOLEAN
    /\ doc \in Spelled(content)
    /\ ids = {}
    /\ phase = "text"

\* resolve_ref: the document is fetched, and traversed.
Resolve ==
    /\ phase = "text"
    /\ LET r == ResolveAll(InjectId(doc, Base), Base, loader.vocab, deep)
       IN  /\ doc' = r.val
           /\ ids' = r.ids \union {Base}
           /\ phase' = IF r.ok THEN "resolved" ELSE "refused"
    /\ UNCHANGED <<loader, content, deep>>

\* The end of the topmost resolve_all.
Check ==
    /\ phase = "resolved"
    /\ LET v == ValidateLinks(doc, Empty, Declared(doc, loader.vocab), ids)
       IN  /\ doc' = IF v.ok THEN v.val ELSE doc
           /\ phase' = IF v.ok THEN "checked" ELSE "refused"
    /\ UNCHANGED <<loader, content, deep, ids>>

\* Another loader is given what the first has made: resolve_all of a resolved value.
Repeat ==
    /\ phase = "checked"
    /\ LET r == ResolveAll(doc, Base, loader.vocab, deep)
           v == ValidateLinks(r.val, Empty, Declared(r.val, loader.vocab), r.ids \union {Base})
       IN  phase' = IF r.ok /\ v.ok /\ v.val = doc THEN "same" ELSE "other"
    /\ UNCHANGED <<loader, content, deep, doc, ids>>

Next == Resolve \/ Check \/ Repeat

Spec == Init /\ [][Next]_vars

----------------------------------------------------------------------------
(* The meaning of a content. *)

At(scope, name) == IF name = "" THEN scope ELSE Append(scope, name)
Named(frag)     == [Base EXCEPT !.frag = frag]

\* A value whose maps are functions, without the fields of the context.
RECURSIVE Plain(_)
Plain(d) ==
    CASE d.k = "map" ->
            [k |-> "map", f |-> [key \in {x \in Keys(d) : x.path # <<"$namespaces">>} |-> Plain(Get(d, key))]]
      [] d.k = "list" -> List([i \in DOMAIN d.s |-> Plain(d.s[i])])
      [] OTHER -> d

Map(f)   == [k |-> "map", f |-> f]
Some(key, val) == IF val = Null THEN << >> ELSE Word(key) :> val

RECURSIVE TypeMeaning(_, _)
TypeMeaning(elem, dims) ==
    IF dims = 0 THEN elem
    ELSE Map(Word("type") :> Word("array") @@ Word("items") :> TypeMeaning(elem, dims - 1))
Type(t) ==
    IF t = Null THEN Null
    ELSE IF t.opt THEN List(<<Word("null"), TypeMeaning(t.elem, t.dims)>>) ELSE TypeMeaning(t.elem, t.dims)

Files(f) ==
    IF f = Null THEN Null
    ELSE Map(Word("pattern") :> f.pattern @@ Word("required") :> IF f.opt THEN Bool(FALSE) ELSE Null)

RECURSIVE FragsOf(_, _)
FragsOf(c, scope) ==
    LET here == At(scope, c.name)
    IN  {here} \union UNION {FragsOf(c.kids[i], here) : i \in DOMAIN c.kids}
               \union UNION {FragsOf(c.sub[i], Append(here, "s")) : i \in DOMAIN c.sub}
Frags == FragsOf(content, <<>>)

\* refScope: the object of that name in the innermost scope around a reference; the first
\* scope is that many levels out.
Levels == loader.scoped_ref_fields[Word("ref")]
Candidates(here, ref) ==
    {n \in 0 .. Len(here) :
        (n <= Len(here) - Levels \/ n = 0) /\ Append(SubSeq(here, 1, n), ref) \in Frags}
Nearest(here, ref) == Named(Append(SubSeq(here, 1, Max(Candidates(here, ref))), ref))

RECURSIVE Meaning(_, _)
Meaning(c, scope) ==
    LET here == At(scope, c.name)
    IN  Map(Word("id") :> Named(here)
            @@ Some("base", c.base) @@ Some("voc", c.voc) @@ Some("link", c.link)
            @@ Some("ref", IF c.ref = "" THEN Null ELSE Nearest(here, c.ref))
            @@ Some("type", Type(c.type)) @@ Some("files", Files(c.files))
            @@ Some("kids", IF c.kids = <<>> THEN Null
                            ELSE List([i \in DOMAIN c.kids |-> Meaning(c.kids[i], here)]))
            @@ Some("sub", IF c.sub = <<>> THEN Null ELSE Meaning(c.sub[1], Append(here, "s"))))

RECURSIVE LinksFrom(_, _)
LinksFrom(c, scope) ==
    LET here == At(scope, c.name)
    IN  (IF c.link = Null THEN {}
         ELSE {c.link \in {Named(frag) : frag \in Frags} \union Reachable \union {Base}})
        \union (IF c.ref = "" THEN {} ELSE {Candidates(here, c.ref) # {}})
        \union UNION {LinksFrom(c.kids[i], here) : i \in DOMAIN c.kids}
        \union UNION {LinksFrom(c.sub[i], Append(here, "s")) : i \in DOMAIN c.sub}

----------------------------------------------------------------------------
(* What preprocessing promises. *)

\* However a document is written (terms, prefixes or URLs; lists or identifier maps; the DSL
\* or what it stands for; relative, scoped or absolute identifiers and links), resolve_all and
\* validate_links yield what it means: the order in which field names, maps, types,
\* identifiers and links are resolved, and the scope each is resolved in, give one result.
SpellingIsImmaterial ==
    phase = "checked" =>
        Plain(doc) \in {Meaning(content, <<>>), List(<<Meaning(content, <<>>)>>)}

\* A document is refused when a link of it leads to nothing, and for no other reason: an
\* object that stands later, or deeper, or is written in another form is found as well.
LinksDecide ==
    /\ phase = "checked" => FALSE \notin LinksFrom(content, <<>>)
    /\ phase = "refused" => FALSE \in LinksFrom(content, <<>>)

\* What is resolved is not changed by being resolved again below the same base, as it is when an
\* application passes a resolved value to resolve_all: no identifier goes one scope deeper, no
\* link is taken for a relative one, no type is expanded twice.
TwiceIsOnce == phase # "other"
=============================================================================
