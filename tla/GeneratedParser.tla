-------------------------- MODULE GeneratedParser --------------------------
(***************************************************************************)
(* The parser of metaschema.py at work: python_codegen_support.py, which   *)
(* holds the loaders, and the save functions of runtime.py, on the tables  *)
(* of Metaschema.                                                          *)
(*                                                                         *)
(* A loader is a big step: Load yields a value, or says that the document  *)
(* is invalid (a ValidationException, which the loaders above catch), or   *)
(* that the call is over (any other exception).  Each yields a world: the  *)
(* index and the lists of imports and includes are shared by all           *)
(* LoadingOptions of a call, and an alternative that fails leaves its      *)
(* marks there.                                                            *)
(*                                                                         *)
(* Strings are texts of syllables: a URI has a scheme ("" when it is       *)
(* relative), a path and a fragment; a type may have a suffix of the type  *)
(* DSL.  A key with a scheme that is a declared prefix is a short form.    *)
(***************************************************************************)
EXTENDS Metaschema, SequencesExt, FiniteSets

CONSTANTS
    Main,      \* the path of the document that is loaded
    Library,   \* the texts of the other documents: [path -> value]
    MaxDepth   \* bounds the documents that are loaded inside one another

ASSUME ParserAssumption == Main \notin DOMAIN Library /\ MaxDepth \in Nat

----------------------------------------------------------------------------
(* Values. *)

Null     == [k |-> "null"]
Bool(b)  == [k |-> "bool", b |-> b]
Int1     == [k |-> "int"]
Seq1(s)  == [k |-> "seq", s |-> s]
Map(ps)  == [k |-> "map", m |-> ps]
Txt(scheme, path, frag, sfx) ==
    [k |-> "str", scheme |-> scheme, path |-> path, frag |-> frag, sfx |-> sfx]
Word(w)         == Txt("", <<w>>, <<>>, "")
File(path)      == Txt("file", path, <<>>, "")
In(path, frag)  == Txt("file", path, frag, "")
Empty           == Txt("", <<>>, <<>>, "")
Blank(n)        == Txt("", <<"_:">> \o [i \in 1..n |-> "u"], <<>>, "")
IsBlank(u)      == u.path # <<>> /\ Head(u.path) = "_:"

Keys(m)     == {p[1] : p \in ToSet(m.m)}
Get(m, key) == IF key \in Keys(m) THEN (SelectSeq(m.m, LAMBDA p : p[1] = key))[1][2] ELSE Null
Less(m, keys) == Map(SelectSeq(m.m, LAMBDA p : p[1] \notin keys))
Put(m, key, val) ==
    IF key \in Keys(m)
    THEN Map([i \in DOMAIN m.m |-> IF m.m[i][1] = key THEN <<key, val>> ELSE m.m[i]])
    ELSE Map(Append(m.m, <<key, val>>))

Ok(val, w)    == [tag |-> "ok", val |-> val, w |-> w]
Invalid(w)    == [tag |-> "invalid", val |-> Null, w |-> w]
Fatal(why, w) == [tag |-> why, val |-> Null, w |-> w]

World   == [idx |-> << >>, imports |-> <<>>, includes |-> <<>>, fresh |-> 0]

\* LoadingOptions, with the source of the main document and what is left of the stack.
Options(text) == [fileuri |-> File(Main), baseuri |-> Empty, namespaces |-> << >>,
                  text |-> text, depth |-> MaxDepth]

Enter(w, u, val) == [w EXCEPT !.idx = (u :> val) @@ @]

Documents   == DOMAIN Library \union {Main}
Source(path, o) == IF path = Main THEN o.text ELSE Library[path]

\* What fetch_text returns, as a string.
RawText(path) == Txt("", <<"text", "/">> \o path, <<>>, "")

\* check_exists of a URL whose scheme is not file, http or https raises, which counts as existing.
Exists(u) == u.scheme = "file" => u.path \in Documents

----------------------------------------------------------------------------
(* _expand_url. *)

Join(base, u) ==
    IF u.scheme # "" \/ IsBlank(u) THEN u
    ELSE IF u.path # <<>> THEN [u EXCEPT !.scheme = base.scheme]
    ELSE IF u.frag # <<>> THEN [base EXCEPT !.frag = u.frag, !.sfx = u.sfx]
    ELSE base

\* The fragment without its last n names.
Slashes(frag) == {i \in DOMAIN frag : frag[i] = "/"}
Outer(frag, n) ==
    IF n = 0 THEN frag
    ELSE IF n > Cardinality(Slashes(frag)) THEN <<>>
    ELSE LET cut == CHOOSE i \in Slashes(frag) : Cardinality({j \in Slashes(frag) : j >= i}) = n
         IN  SubSeq(frag, 1, cut - 1)
Below(frag, path) == IF frag = <<>> THEN path ELSE frag \o <<"/">> \o path

IsTerm(u, o) ==
    /\ u.scheme = "" /\ u.frag = <<>> /\ u.sfx = "" /\ Len(u.path) = 1
    /\ u.path[1] \in Vocabulary \union DOMAIN o.namespaces

Unprefixed(u, o) ==
    IF u.scheme \in DOMAIN o.namespaces THEN In(o.namespaces[u.scheme], u.path) ELSE u

ExpandUrl(url, base, o, scoped_id, vocab_term, scoped_ref) ==
    LET u == Unprefixed(url, o)
        full == IF u.scheme = "file" THEN u
                ELSE IF scoped_id /\ u.frag = <<>>
                THEN [base EXCEPT !.frag = Below(@, u.path), !.sfx = u.sfx]
                ELSE IF scoped_ref # Unscoped /\ u.frag = <<>>
                THEN [base EXCEPT !.frag = Below(Outer(@, scoped_ref), u.path), !.sfx = u.sfx]
                ELSE Join(base, u)
        term == full.path = <<"salad">> /\ Len(full.frag) = 1 /\ full.frag[1] \in Vocabulary
    IN  IF vocab_term /\ IsTerm(url, o) THEN url
        ELSE IF vocab_term /\ term THEN Word(full.frag[1])
        ELSE full

ExpandFor(l, v, base, o) ==
    IF v.k = "str" THEN ExpandUrl(v, base, o, l.scoped_id, l.vocab_term, l.scoped_ref) ELSE v

\* _TypeDSLLoader.resolve, for "v1.1": an array of arrays is left as it is.
Resolved(t, base, o, refScope) ==
    LET bare  == ExpandUrl([t EXCEPT !.sfx = ""], base, o, FALSE, TRUE, refScope)
        array == Map(<< <<Word("type"), Word("array")>>, <<Word("items"), bare>> >>)
    IN  CASE t.sfx = ""     -> bare
          [] t.sfx = "?"    -> Seq1(<<Word("null"), bare>>)
          [] t.sfx = "[]"   -> array
          [] t.sfx = "[]?"  -> Seq1(<<Word("null"), array>>)
          [] t.sfx = "[][]" -> t

\* In a list, what a string resolves to is entered once; the rest stays as it is.
ResolvedInto(r, d, base, o, refScope) ==
    IF d.k # "str" THEN Append(r, d)
    ELSE LET x == Resolved(d, base, o, refScope)
             new(s, i) == IF i \in ToSet(s) THEN s ELSE Append(s, i)
         IN  IF x.k = "seq" THEN FoldLeft(new, r, x.s) ELSE new(r, x)

ResolvedAll(doc, base, o, refScope) ==
    IF doc.k = "seq"
    THEN Seq1(FoldLeft(LAMBDA r, d : ResolvedInto(r, d, base, o, refScope), <<>>, doc.s))
    ELSE IF doc.k = "str" THEN Resolved(doc, base, o, refScope) ELSE doc

\* _IdMapLoader: a map becomes the list of its values, each with its key.
Entry(l, key, val) ==
    Put(IF val.k = "map" THEN val ELSE Map(<< <<Word(l.predicate), val>> >>), Word(l.subject), key)
Listed(l, doc) ==
    IF doc.k = "map" THEN Seq1([i \in DOMAIN doc.m |-> Entry(l, doc.m[i][1], doc.m[i][2])]) ELSE doc

----------------------------------------------------------------------------
(* The loaders. *)

RECURSIVE Load(_, _, _, _, _, _)
RECURSIVE LoadItems(_, _, _, _, _)
RECURSIVE LoadUnion(_, _, _, _, _, _)
RECURSIVE LoadFields(_, _, _, _, _, _)
RECURSIVE LoadByUrl(_, _, _, _)
RECURSIVE DocumentLoad(_, _, _, _, _)

\* _load_field.
Imported(r, u) == IF r.tag = "ok" THEN [r EXCEPT !.w.imports = Append(@, u)] ELSE r

LoadField(val, l, base, o, w) ==
    LET names(key) == val.k = "map" /\ Word(key) \in Keys(val)
        u(key)     == Join(o.fileuri, Get(val, Word(key)))
    IN  IF names("$import") THEN Imported(LoadByUrl(l, u("$import"), o, w), u("$import"))
        ELSE IF ~names("$include") THEN Load(l, val, base, Null, o, w)
        ELSE IF u("$include").path \notin Documents THEN Invalid(w)
        ELSE Load(l, RawText(u("$include").path), base, Null, o,
                  [w EXCEPT !.includes = Append(@, u("$include"))])

\* The items from the first on; r is the next. An item that is a list, or becomes one, is spliced.
WithItem(acc, r) ==
    CASE r.tag # "ok" -> [acc EXCEPT !.tag = "invalid", !.w = r.w]
      [] r.tag = "ok" /\ r.val.k = "seq" -> [acc EXCEPT !.val = @ \o r.val.s, !.w = r.w]
      [] OTHER -> [acc EXCEPT !.val = Append(@, r.val), !.w = r.w]

LoadRest(l, items, base, o, acc, r) ==
    IF r.tag \notin {"ok", "invalid"} THEN r ELSE LoadItems(l, items, base, o, WithItem(acc, r))

LoadItems(l, items, base, o, acc) ==
    IF items = <<>> THEN IF acc.tag = "ok" THEN Ok(Seq1(acc.val), acc.w) ELSE Invalid(acc.w)
    ELSE LoadRest(l, Tail(items), base, o, acc,
                  LoadField(Head(items), UnionOf(<<l, l.items>>), base, o, acc.w))

\* The first alternative that does not say "invalid".
OrElse(r, members, doc, base, root, o) ==
    IF r.tag = "invalid" THEN LoadUnion(members, doc, base, root, o, r.w) ELSE r

LoadUnion(members, doc, base, root, o, w) ==
    IF members = <<>> THEN Invalid(w)
    ELSE OrElse(Load(Head(members), doc, base, root, o, w), Tail(members), doc, base, root, o)

\* One field after the other; acc holds the values, whether an error was met, and the base.
\* An object without a name gets that of the document, or a blank one, or is invalid.
LoadValue(f, doc, base, o, w) ==
    LET v == Get(doc, Word(f.name))
    IN  IF Word(f.name) \in Keys(doc) /\ (f.role = "required" => v # Null)
        THEN LoadField(v, f.loader, base, o, w)
        ELSE IF f.role = "required" THEN Invalid(w) ELSE Ok(Null, w)

Optionally(f) == f.loader = NameOrNone

WithField(f, r, root, acc) ==
    LET anonymous == f.role = "identity" /\ r.val = Null
        named == IF ~anonymous THEN r.val
                 ELSE IF root # Null THEN root
                 ELSE IF Optionally(f) THEN Blank(r.w.fresh) ELSE Null
    IN  [val  |-> (f.name :> named) @@ acc.val,
         bad  |-> acc.bad \/ r.tag = "invalid" \/ (anonymous /\ root = Null /\ ~Optionally(f)),
         base |-> IF f.role = "identity" /\ ~anonymous THEN named ELSE acc.base]

LoadOthers(f, fields, r, doc, root, o, acc) ==
    IF r.tag \notin {"ok", "invalid"} THEN r
    ELSE LoadFields(fields, doc, root, o,
                    IF f.role = "identity" /\ r.val = Null /\ root = Null
                    THEN [r.w EXCEPT !.fresh = @ + 1] ELSE r.w,
                    WithField(f, r, root, acc))

LoadFields(fields, doc, root, o, w, acc) ==
    IF fields = <<>> THEN Ok(acc, w)
    ELSE LoadOthers(Head(fields), Tail(fields), LoadValue(Head(fields), doc, acc.base, o, w),
                    doc, root, o, acc)

\* Keys that are no field: extensions have a scheme, others are errors.
Known(class)   == {Word(Fields[class][i].name) : i \in DOMAIN Fields[class]}
Foreign(class, doc) == Keys(doc) \ Known(class)
Extensions(class, doc, o) ==
    LET expanded(key) == ExpandUrl(key, Empty, o, FALSE, FALSE, Unscoped)
    IN  {<<expanded(key), Get(doc, key)>> : key \in Foreign(class, doc)}

HasIdentity(class) == Fields[class][1].role = "identity"

Instance(class, doc, o, f) ==
    [k |-> "obj", class |-> class, f |-> f, ext |-> Extensions(class, doc, o), ns |-> o.namespaces]
Unknown(class, doc) == \E key \in Foreign(class, doc) : key.scheme = ""
Indexed(class, object, name, w) == Ok(object, IF HasIdentity(class) THEN Enter(w, name, object) ELSE w)

\* Mutant: the errors are collected and never raised.
MakeLenient(class, doc, o, r) ==
    LET object == Instance(class, doc, o, r.val.val)
    IN  IF r.tag # "ok" THEN r ELSE Indexed(class, object, object.f["name"], r.w)

\* Mutant: the object is indexed under the base of its own fields.
MakeAtBase(class, doc, o, r) ==
    LET object == Instance(class, doc, o, r.val.val)
    IN  IF r.tag # "ok" THEN r
        ELSE IF r.val.bad \/ Unknown(class, doc) THEN Invalid(r.w)
        ELSE Indexed(class, object, r.val.base, r.w)

\* The end of fromDoc, when r is what LoadFields gave.
Make(class, doc, o, r) ==
    LET object == Instance(class, doc, o, r.val.val)
    IN  IF r.tag # "ok" THEN r
        ELSE IF r.val.bad \/ Unknown(class, doc) THEN Invalid(r.w)
        ELSE Indexed(class, object, object.f["name"], r.w)

\* fromDoc of a class.
FromDoc(class, doc, base, root, o, w) ==
    Make(class, doc, o,
         LoadFields(Fields[class], doc, root, o, w, [val |-> << >>, bad |-> FALSE, base |-> base]))

LoadUri(l, doc, base, o, w) ==
    LET u == IF doc.k = "seq" THEN Seq1([i \in DOMAIN doc.s |-> ExpandFor(l, doc.s[i], base, o)])
             ELSE ExpandFor(l, doc, base, o)
    IN  IF u.k = "str" /\ ~Exists(u) THEN Invalid(w) ELSE Load(l.inner, u, base, Null, o, w)

Accepts(type, doc) == doc.k = type \/ (type = "int" /\ doc.k = "bool")

Load(l, doc, base, root, o, w) ==
    CASE l.kind = "primitive" -> IF Accepts(l.type, doc) THEN Ok(doc, w) ELSE Invalid(w)
      [] l.kind = "any"       -> IF doc.k # "null" THEN Ok(doc, w) ELSE Invalid(w)
      [] l.kind = "enum"      -> IF doc \in {Word(s) : s \in l.symbols} THEN Ok(doc, w) ELSE Invalid(w)
      [] l.kind = "array"     -> IF doc.k = "seq" THEN LoadItems(l, doc.s, base, o, Ok(<<>>, w))
                                 ELSE Invalid(w)
      [] l.kind = "record"    -> IF doc.k = "map" THEN FromDoc(l.class, doc, base, root, o, w)
                                 ELSE Invalid(w)
      [] l.kind = "union"     -> LoadUnion(l.members, doc, base, root, o, w)
      [] l.kind = "uri"       -> LoadUri(l, doc, base, o, w)
      [] l.kind = "typedsl"   -> Load(l.inner, ResolvedAll(doc, base, o, l.refScope), base, Null, o, w)
      [] l.kind = "idmap"     -> Load(l.inner, Listed(l, doc), base, Null, o, w)

\* _document_load_by_url: the index is asked first, whatever loader made the entry.
Fetched(r, u) ==
    IF r.tag # "ok" THEN r
    ELSE IF u \in DOMAIN r.w.idx THEN Ok(r.w.idx[u], r.w) ELSE Fatal("KeyError", r.w)

LoadByUrl(l, u, o, w) ==
    LET file == File(u.path)
    IN  IF u \in DOMAIN w.idx THEN Ok(w.idx[u], w)
        ELSE IF u.path \notin Documents THEN Invalid(w)
        ELSE IF o.depth = 0 THEN Fatal("RecursionError", w)
        ELSE Fetched(DocumentLoad(l, Source(u.path, o), file,
                                  [o EXCEPT !.fileuri = file, !.depth = @ - 1], w), u)

Directives == {Word("$namespaces"), Word("$base")}

\* Mutant: the result is indexed under its base only.
CompleteAtBase(r, base, uri) == IF r.tag # "ok" THEN r ELSE Ok(r.val, Enter(r.w, base, r.val))

\* The result is in the index once it is complete.
Complete(r, base, uri) ==
    IF r.tag # "ok" THEN r ELSE Ok(r.val, Enter(Enter(r.w, base, r.val), uri, r.val))

\* _document_load.
DocumentLoad(l, doc, uri, o, w) ==
    LET given(key) == doc.k = "map" /\ Word(key) \in Keys(doc)
        base  == IF given("$base") THEN Get(doc, Word("$base")) ELSE uri
        body  == IF given("$graph") THEN Get(doc, Word("$graph"))
                 ELSE IF doc.k = "map" THEN Less(doc, Directives) ELSE doc
        root  == IF doc.k = "map" /\ ~given("$graph") THEN base ELSE Null
        inner == [o EXCEPT !.baseuri = IF given("$base") THEN base ELSE @,
                           !.namespaces = IF given("$namespaces")
                                          THEN Get(doc, Word("$namespaces")).ns ELSE @]
    IN  IF doc.k = "str" THEN LoadByUrl(l, Join(uri, doc), o, w)
        ELSE IF doc.k \notin {"map", "seq"} THEN Invalid(w)
        ELSE Complete(Load(l, body, base, root, inner, w), base, uri)
=============================================================================
