---------------------------- MODULE SaveAndLoad ----------------------------
(***************************************************************************)
(* The life of a document in a generated parser: it is loaded, saved by    *)
(* save_with_metadata of runtime.py and loaded again.                      *)
(***************************************************************************)
EXTENDS GeneratedParser

CONSTANT Sources  \* the texts that the main document may hold

VARIABLES
    text,    \* the source of the main document
    phase,   \* new, loaded, refused, saved or reloaded
    loaded,  \* what loading it gave
    short,   \* whether it was saved with relative URIs
    saved,   \* what was saved
    again    \* what loading that gave

vars == <<text, phase, loaded, short, saved, again>>

----------------------------------------------------------------------------
(* runtime.py. *)

From(t, n)       == SubSeq(t, n + 1, Len(t))

\* prefix_url: the short form of the key of an extension.
Prefixed(u, namespaces) ==
    LET fits == {p \in DOMAIN namespaces : namespaces[p] = u.path /\ u.scheme = "file" /\ u.frag # <<>>}
    IN  IF fits = {} THEN u ELSE Txt(CHOOSE p \in fits : TRUE, u.frag, <<>>, u.sfx)

\* The fragment of the base, as a string that ends in a slash, without its last names.
Scope(frag, ref_scope) ==
    IF ref_scope \in {Unscoped, 0} THEN frag \o <<"/">> ELSE Outer(frag \o <<"/">>, ref_scope)

\* A string that is no longer a URI: what was a fragment is read as a path.
RelativeUri(u, base, ref_scope) ==
    LET scope == Scope(base.frag, ref_scope)
    IN  IF u = base \/ u.scheme # base.scheme THEN u
        ELSE IF u.path # base.path THEN [u EXCEPT !.scheme = ""]
        ELSE IF IsPrefix(scope, u.frag) THEN Txt("", From(u.frag, Len(scope)), <<>>, u.sfx)
        ELSE Txt("", u.frag, <<>>, u.sfx)

RECURSIVE Save(_, _, _)
RECURSIVE SaveUri(_, _, _, _)

\* save_relative_uri.
SaveUri(v, base, ref_scope, relative) ==
    CASE v.k = "seq" -> Seq1([i \in DOMAIN v.s |-> SaveUri(v.s[i], base, ref_scope, relative)])
      [] v.k = "str" -> IF relative THEN RelativeUri(v, base, ref_scope) ELSE v
      [] OTHER       -> Save(v, base, relative)

\* save of a class: extensions, then the fields that have a value.
SaveField(object, f, base, relative) ==
    LET inside == IF HasIdentity(object.class) /\ f.role # "identity" THEN object.f["name"] ELSE base
        v == object.f[f.name]
    IN  IF v = Null THEN <<>>
        ELSE << <<Word(f.name), IF f.loader.kind = "uri"
                                THEN SaveUri(v, inside, f.loader.scoped_ref, relative)
                                ELSE Save(v, inside, relative)>> >>

SaveObject(object, base, relative) ==
    LET ext == SetToSeq(object.ext)
        keyed == [i \in DOMAIN ext |->
                    <<IF relative THEN Prefixed(ext[i][1], object.ns) ELSE ext[i][1], ext[i][2]>>]
        fields == Fields[object.class]
    IN  Map(keyed \o FlattenSeq([i \in DOMAIN fields |->
                                    SaveField(object, fields[i], base, relative)]))

Save(v, base, relative) ==
    CASE v.k = "obj" -> SaveObject(v, base, relative)
      [] v.k = "seq" -> Seq1([i \in DOMAIN v.s |-> Save(v.s[i], base, relative)])
      [] v.k = "map" -> Map([i \in DOMAIN v.m |-> <<v.m[i][1], Save(v.m[i][2], base, relative)>>])
      [] OTHER       -> v

\* Mutant: the value alone.
SaveWithoutMetadata(v, doc, base, relative) ==
    LET s == Save(v, base, relative)
    IN  IF s.k = "seq" THEN Map(<< <<Word("$graph"), s>> >>) ELSE s

\* save_with_metadata, with the namespaces and the base of the document.
SaveWithMetadata(v, doc, base, relative) ==
    LET s == Save(v, base, relative)
        m == IF s.k = "seq" THEN Map(<< <<Word("$graph"), s>> >>) ELSE s
        kept == IF doc.k = "map" THEN SelectSeq(doc.m, LAMBDA p : p[1] \in Directives) ELSE <<>>
    IN  Map(m.m \o kept)

----------------------------------------------------------------------------
Nothing == Ok(Null, World)

Init ==
    /\ text \in Sources
    /\ phase = "new"
    /\ loaded = Nothing
    /\ short = FALSE
    /\ saved = Null
    /\ again = Nothing

\* load_document_with_metadata.
LoadDocument ==
    /\ phase = "new"
    /\ loaded' = DocumentLoad(Root, text, File(Main), Options(text), World)
    /\ phase' = IF loaded'.tag = "ok" THEN "loaded" ELSE "refused"
    /\ UNCHANGED <<text, short, saved, again>>

SaveDocument ==
    /\ phase = "loaded"
    /\ short' \in BOOLEAN
    /\ saved' = SaveWithMetadata(loaded.val, text, IF short' THEN File(Main) ELSE Empty, short')
    /\ phase' = "saved"
    /\ UNCHANGED <<text, loaded, again>>

Reload ==
    /\ phase = "saved"
    /\ again' = DocumentLoad(Root, saved, File(Main), Options(text), World)
    /\ phase' = "reloaded"
    /\ UNCHANGED <<text, loaded, short, saved>>

Next == LoadDocument \/ SaveDocument \/ Reload

Spec == Init /\ [][Next]_vars

----------------------------------------------------------------------------
(* What a parser promises. *)

RECURSIVE Objects(_)
RECURSIVE Fits(_, _)
RECURSIVE Unnamed(_)
RECURSIVE Imports(_)

\* The objects in a value.
Objects(v) ==
    CASE v.k = "seq" -> UNION {Objects(v.s[i]) : i \in DOMAIN v.s}
      [] v.k = "obj" -> {v} \union UNION {Objects(v.f[n]) : n \in DOMAIN v.f}
      [] OTHER       -> {}

NamedObjects(v) == {x \in Objects(v) : HasIdentity(x.class)}

\* What a loader promises of the values it yields.
Fits(l, v) ==
    CASE l.kind = "primitive" -> Accepts(l.type, v)
      [] l.kind = "any"       -> v # Null
      [] l.kind = "enum"      -> \E t \in l.symbols : v = Word(t)
      [] l.kind = "array"     -> v.k = "seq" /\ \A i \in DOMAIN v.s : Fits(l.items, v.s[i])
      [] l.kind = "union"     -> \E i \in DOMAIN l.members : Fits(l.members[i], v)
      [] l.kind = "record"    -> /\ v.k = "obj" /\ v.class = l.class
                                 /\ \A i \in DOMAIN Fields[l.class] :
                                       LET f == Fields[l.class][i]
                                       IN  Fits(f.loader, v.f[f.name]) \/ (f.role = "optional" /\ v.f[f.name] = Null)
      [] OTHER                -> Fits(l.inner, v)

\* Without the names that were made up: a blank name does not survive a reload as it was.
MadeUp(u) == u.k = "str" /\ "_:" \in ToSet(u.path) \union ToSet(u.frag)
Unnamed(v) ==
    CASE v.k = "seq" -> Seq1([i \in DOMAIN v.s |-> Unnamed(v.s[i])])
      [] v.k = "obj" -> [v EXCEPT !.f = [n \in DOMAIN @ |-> IF MadeUp(@[n]) THEN Null ELSE Unnamed(@[n])]]
      [] OTHER       -> v

\* The URLs that a text imports, itself or through the documents it imports.
Imports(v) ==
    CASE v.k = "seq" -> UNION {Imports(v.s[i]) : i \in DOMAIN v.s}
      [] v.k = "map" -> {Join(File(Main), Get(v, Word("$import"))) : n \in Keys(v) \intersect {Word("$import")}}
                            \union UNION {Imports(v.m[i][2]) : i \in DOMAIN v.m}
      [] OTHER       -> {}
ImportsOf(path) == IF path \in Documents THEN Imports(Source(path, Options(text))) ELSE {}

RECURSIVE Reached(_)
Reached(paths) ==
    LET next == paths \union {u.path : u \in UNION {ImportsOf(path) : path \in paths}}
    IN  IF next = paths THEN paths ELSE Reached(next)
CyclicFrom(path) == path \in Reached({u.path : u \in ImportsOf(path)})

Loaded == phase # "new" /\ loaded.tag = "ok"
Index  == loaded.w.idx

Survives == again.tag = "ok" /\ Unnamed(again.val) = Unnamed(loaded.val)

\* save_with_metadata and _document_load are inverses: what fits its loaders and was saved
\* with full URIs loads, and as what it was, though save drops the defaults, the DSL and the
\* identifier maps of the text and the second load expands every URI once more.
FullRoundTrip == phase = "reloaded" /\ ~short /\ Fits(Root, loaded.val) => Survives

\* The same with relative URIs: runtime.py:383, "Convert any URI to a relative one, obeying
\* the scoping rules.", and the second load is to expand them to what they were.
RelativeRoundTrip == phase = "reloaded" /\ short /\ Fits(Root, loaded.val) => Survives

\* When no document is imported twice, every value is what its loader promises: what
\* _document_load_by_url takes out of idx, where a loader of another type may have put it, and
\* what a union chose after its other members had failed.
ValuesFit == Loaded /\ IsInjective(loaded.w.imports) => Fits(Root, loaded.val)

\* fromDoc enters each object into idx under its name, and a union tries one class after the
\* other on the same idx: what has a name is found under it, and the index holds nothing
\* else, no trace of an alternative that failed, nothing that is in no document loaded.
IndexExact ==
    Loaded =>
        LET files == {u \in DOMAIN Index : u.frag = <<>>}
        IN  /\ \A x \in NamedObjects(loaded.val) : x.f["name"] \in DOMAIN Index
            /\ \A u \in DOMAIN Index \ files :
                  \E file \in files : \E x \in NamedObjects(Index[file]) : x = Index[u] /\ x.f["name"] = u

\* What _document_load_by_url raises besides a ValidationException has a reason in the
\* documents: a RecursionError an import cycle, since idx is written after the load, and a
\* KeyError a fragment that is imported.
FatalJustified ==
    /\ loaded.tag = "RecursionError" => \E path \in Reached({Main}) : CyclicFrom(path)
    /\ loaded.tag = "KeyError" => \E path \in Reached({Main}) : \E u \in ImportsOf(path) : u.frag # <<>>
=============================================================================
