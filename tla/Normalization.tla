--------------------------- MODULE Normalization ---------------------------
(***************************************************************************)
(* What Loader.resolve_all and Loader.validate_links (ref_resolver.py)     *)
(* make of one document, under the context of a schema: field names,       *)
(* identifier maps, the DSLs of types and secondary files, identifiers and *)
(* their scopes, links, terms of the vocabulary.  Directives and other     *)
(* documents are the business of RefResolver; the properties that a graph  *)
(* of $schemas adds are left out.                                          *)
(*                                                                         *)
(* A string is a text of parts: a scheme ("" when it is relative, "$" for  *)
(* an expression, or a prefix), the segments of a path and of a fragment,  *)
(* and the marks of a DSL, "[]" and "?", at the end.                       *)
(***************************************************************************)
EXTENDS Integers, SequencesExt

CONSTANTS
    Context,   \* Loader.ctx: a sequence of <<field or term, what the context says of it>>
    Schemes,   \* DefaultFetcher.schemes
    Alphabet,  \* names, in the order in which they sort
    Reachable  \* the URLs outside of the document that check_exists finds

VARIABLE
    loader     \* the tables of a Loader, which add_context fills and nothing changes

\* A field of a document that is an identifier: a schema has one.
ASSUME OneIdentifier == Cardinality({i \in DOMAIN Context : Context[i][2].kind = "@id"}) <= 1

Null    == [k |-> "null"]
Bool(b) == [k |-> "bool", b |-> b]
List(s) == [k |-> "list", s |-> s]
Dict(m) == [k |-> "map", m |-> m]
Txt(scheme, path, frag, sfx) == [k |-> "str", scheme |-> scheme, path |-> path, frag |-> frag, sfx |-> sfx]
Word(w) == Txt("", <<w>>, <<>>, <<>>)
Empty   == Txt("", <<>>, <<>>, <<>>)

\* A concatenation is a sequence that TLC has evaluated, and does not evaluate at each use.
Mapped(s, F(_)) == <<>> \o [i \in DOMAIN s |-> F(s[i])]

Keys(d)     == {d.m[i][1] : i \in DOMAIN d.m}
Get(d, key) == d.m[CHOOSE i \in DOMAIN d.m : d.m[i][1] = key][2]
Less(d, key) == Dict(SelectSeq(d.m, LAMBDA e : e[1] # key))
Put(d, key, val) ==
    IF key \in Keys(d)
    THEN Dict(Mapped(d.m, LAMBDA e : IF e[1] = key THEN <<key, val>> ELSE e))
    ELSE Dict(Append(d.m, <<key, val>>))
EachField(d, F(_, _)) == Dict(Mapped(d.m, LAMBDA e : <<e[1], F(e[1], e[2])>>))

----------------------------------------------------------------------------
(* add_context: an entry is "@id", a URL, or a map; what it does not say is "", FALSE or -1. *)

Entry == [kind |-> "map", id |-> Empty, type |-> "", refScope |-> -1, identity |-> FALSE,
          typeDSL |-> FALSE, filesDSL |-> FALSE, noLinkCheck |-> FALSE,
          mapSubject |-> "", mapPredicate |-> "", subscope |-> ""]

\* A prefix stands for a URL whose fragment begins after it.
Prepended(ns, u)    == [u EXCEPT !.scheme = ns.scheme, !.path = ns.path, !.frag = ns.frag \o u.path]
Prefixed(u, vocab) == IF u.scheme \in DOMAIN vocab THEN Prepended(vocab[u.scheme], u) ELSE u

\* The dictionary of one key of the entries, for the fields that Test picks.
Table(Test(_), Value(_)) ==
    [field \in {Word(e[1]) : e \in {x \in ToSet(Context) : Test(x[2])}} |->
        Value(Context[CHOOSE i \in DOMAIN Context : Word(Context[i][1]) = field][2])]
Flagged(Test(_)) == DOMAIN Table(Test, LAMBDA e : TRUE)

\* The terms for URLs: the last term that has a URL.
Reversed(vocab) ==
    LET terms == SelectSeq([i \in DOMAIN Context |-> Context[i][1]], LAMBDA t : t \in DOMAIN vocab)
        full  == [i \in DOMAIN terms |-> Prefixed(vocab[terms[i]], vocab)]
    IN  [u \in ToSet(full) |-> terms[Max({i \in DOMAIN full : full[i] = u})]]

VocabOf == LET urls == Table(LAMBDA e : e.id # Empty, LAMBDA e : e.id)
           IN  [t \in {u.path[1] : u \in DOMAIN urls} |-> urls[Word(t)]]

AddContext(vocab) ==
    [vocab                    |-> vocab,
     rvocab                   |-> Reversed(vocab),
     identifiers              |-> Flagged(LAMBDA e : e.kind = "@id"),
     identity_links           |-> Flagged(LAMBDA e : e.kind = "@id" \/ (e.type = "@id" /\ e.identity)),
     url_fields               |-> {Word("$schemas")} \union Flagged(LAMBDA e : e.type \in {"@id", "@vocab"}),
     vocab_fields             |-> Flagged(LAMBDA e : e.type = "@vocab"),
     scoped_ref_fields        |-> Table(LAMBDA e : e.type \in {"@id", "@vocab"} /\ e.refScope >= 0,
                                        LAMBDA e : e.refScope),
     type_dsl_fields          |-> Flagged(LAMBDA e : e.type = "@vocab" /\ e.typeDSL),
     secondaryFile_dsl_fields |-> Flagged(LAMBDA e : e.filesDSL),
     nolinkcheck              |-> Flagged(LAMBDA e : e.noLinkCheck),
     idmap                    |-> Table(LAMBDA e : e.mapSubject # "", LAMBDA e : Word(e.mapSubject)),
     mapPredicate             |-> Table(LAMBDA e : e.mapPredicate # "", LAMBDA e : Word(e.mapPredicate)),
     subscopes                |-> Table(LAMBDA e : e.subscope # "", LAMBDA e : e.subscope)]

----------------------------------------------------------------------------
(* expand_url.  The vocabulary of a SubLoader has the prefixes of $namespaces too. *)

IsTerm(u, vocab) == u.scheme = "" /\ u.frag = <<>> /\ u.sfx = <<>> /\ Len(u.path) = 1 /\ u.path[1] \in DOMAIN vocab

\* urljoin; every document is in one directory.
Join(base, u) ==
    IF u.scheme # "" \/ base = Empty THEN u
    ELSE IF u.path # <<>> THEN [u EXCEPT !.scheme = base.scheme]
    ELSE IF u.frag # <<>> THEN [base EXCEPT !.frag = u.frag, !.sfx = u.sfx]
    ELSE base

\* (Mutant.) An identifier is put below its scope also when it is absolute.
ExpandUrlBelow(url, base, vocab, scopedId, vocabTerm, scopedRef) ==
    LET u    == Prefixed(url, vocab)
        full == IF scopedId THEN [base EXCEPT !.frag = @ \o u.path \o u.frag, !.sfx = u.sfx]
                ELSE IF u.scheme \in Schemes \union {"$"} \/ (scopedRef /\ u.frag = <<>>) THEN u
                ELSE Join(base, u)
    IN  IF vocabTerm /\ IsTerm(url, vocab) THEN url
        ELSE IF vocabTerm /\ full \in DOMAIN loader.rvocab THEN Word(loader.rvocab[full])
        ELSE full

ExpandUrl(url, base, vocab, scopedId, vocabTerm, scopedRef) ==
    LET u    == Prefixed(url, vocab)
        full == IF u.scheme \in Schemes \union {"$"} THEN u
                ELSE IF scopedId /\ u.frag = <<>> THEN [base EXCEPT !.frag = @ \o u.path, !.sfx = u.sfx]
                ELSE IF scopedRef /\ u.frag = <<>> THEN u
                ELSE Join(base, u)
    IN  IF vocabTerm /\ IsTerm(url, vocab) THEN url
        ELSE IF vocabTerm /\ full \in DOMAIN loader.rvocab THEN Word(loader.rvocab[full])
        ELSE full

----------------------------------------------------------------------------
(* The forms of a field.  deep: the version is 1.3 or later. *)

EndsWith(t, mark) == t.sfx # <<>> /\ Last(t.sfx) = mark
Stripped(t)       == [t EXCEPT !.sfx = Front(@)]

RECURSIVE TypeDsl(_, _)
TypeDsl(t, deep) ==
    IF t.k # "str" THEN t
    ELSE LET bare     == IF EndsWith(t, "?") THEN Stripped(t) ELSE t
             items    == Stripped(bare)
             array(i) == Dict(<< <<Word("type"), Word("array")>>, <<Word("items"), i>> >>)
             expanded == IF ~EndsWith(bare, "[]") THEN bare
                         ELSE array(IF deep THEN TypeDsl(items, deep) ELSE items)
         IN  IF ~deep /\ EndsWith(bare, "[]") /\ EndsWith(items, "[]") THEN t
             ELSE IF EndsWith(t, "?") THEN List(<<Word("null"), expanded>>) ELSE expanded

SecondaryFileDsl(t) ==
    IF t.k # "str" THEN t
    ELSE Dict(<< <<Word("pattern"), IF EndsWith(t, "?") THEN Stripped(t) ELSE t>>,
                 <<Word("required"), IF EndsWith(t, "?") THEN Bool(FALSE) ELSE Null>> >>)

ApplyDsl(field, datum, deep) ==
    IF field \in loader.type_dsl_fields THEN TypeDsl(datum, deep)
    ELSE IF field \in loader.secondaryFile_dsl_fields THEN SecondaryFileDsl(datum) ELSE datum

\* A list takes in the lists that its members have become, and each value once.
Spliced(s) ==
    FoldLeft(LAMBDA seen, v : IF v \in ToSet(seen) THEN seen ELSE Append(seen, v), <<>>,
             FlattenSeq(Mapped(s, LAMBDA v : IF v.k = "list" THEN v.s ELSE <<v>>)))

ResolveDsl(field, datum, deep) ==
    LET each == CASE datum.k = "str"  -> ApplyDsl(field, datum, deep)
                  [] datum.k = "list" -> List(Mapped(datum.s, LAMBDA v : ApplyDsl(field, v, deep)))
                  [] OTHER -> datum
    IN  IF field \notin loader.type_dsl_fields \union loader.secondaryFile_dsl_fields THEN datum
        ELSE IF each.k = "list" THEN List(Spliced(each.s)) ELSE each

\* Names that are prefixed or URLs become terms; a name that is rewritten takes the place
\* of the same name as it was written.
NormalizeFields(d, vocab) ==
    LET rename(m, e) == LET key == ExpandUrl(e[1], Empty, vocab, FALSE, TRUE, FALSE)
                        IN  IF key = e[1] THEN m ELSE Less(Put(m, key, Get(m, e[1])), e[1])
    IN  FoldLeft(rename, d, d.m)

Before(a, b) ==
    (CHOOSE i \in DOMAIN Alphabet : Word(Alphabet[i]) = a) < (CHOOSE i \in DOMAIN Alphabet : Word(Alphabet[i]) = b)

IsDirective(val) == \E i \in DOMAIN val.m : val.m[i][1] \in {Word("$import"), Word("$include")}
IsIdMap(field, val) == field \in DOMAIN loader.idmap /\ val.k = "map" /\ ~IsDirective(val)

ItemOf(field, key, v) ==
    Put(IF v.k = "map" THEN v ELSE Dict(<< <<loader.mapPredicate[field], v>> >>), loader.idmap[field], key)

\* (Mutant.) The entries stay in the order of the document.
ResolveIdMapUnsorted(field, val) ==
    IF ~IsIdMap(field, val) THEN val
    ELSE List(Mapped(val.m, LAMBDA e : ItemOf(field, e[1], e[2])))

\* An identifier map becomes a list of its entries, each with its key.
ResolveIdMap(field, val) ==
    IF ~IsIdMap(field, val) THEN val
    ELSE LET sorted == SortSeq(val.m, LAMBDA a, b : Before(a[1], b[1]))
         IN  List(Mapped(sorted, LAMBDA e : ItemOf(field, e[1], e[2])))

\* An entry that is no map, of a field without a mapPredicate.
Unmappable(field, val) ==
    IsIdMap(field, val) /\ field \notin DOMAIN loader.mapPredicate /\ \E i \in DOMAIN val.m : val.m[i][2].k # "map"

EachText(val, F(_)) ==
    CASE val.k = "str"  -> F(val)
      [] val.k = "list" -> List(Mapped(val.s, LAMBDA v : IF v.k = "str" THEN F(v) ELSE v))
      [] OTHER          -> val

\* _resolve_identity and _resolve_uris, below the identifier of the object.
ResolveField(field, val, base, vocab) ==
    LET named == IF field \in loader.identity_links /\ val.k = "list"
                 THEN EachText(val, LAMBDA v : ExpandUrl(v, base, vocab, TRUE, FALSE, FALSE)) ELSE val
    IN  IF field \notin loader.url_fields THEN named
        ELSE EachText(named, LAMBDA v : ExpandUrl(v, base, vocab, FALSE, field \in loader.vocab_fields, field \in DOMAIN loader.scoped_ref_fields))

\* The object with its identity links and identifiers expanded.
Identify(d, fields, base, vocab) ==
    EachField(d, LAMBDA key, val : IF key \in fields /\ val.k = "str"
                                   THEN ExpandUrl(val, base, vocab, TRUE, FALSE, FALSE) ELSE val)

Own(d) == Keys(d) \intersect loader.identifiers

\* What enters the index: an object under its identities, and its symbols.
Identities(d, fields) == {v \in {Get(d, key) : key \in Keys(d) \intersect fields} : v.k = "str"}
Symbols(d) ==
    {v \in UNION {ToSet(w.s) : w \in {x \in {Get(d, key) : key \in Keys(d) \intersect loader.identity_links} : x.k = "list"}} :
        v.k = "str"}

----------------------------------------------------------------------------
(* resolve_all.  The outcome has the value, the URLs that are entered into the index, and
   whether there was an exception. *)

Outcome(val, ids, ok) == [val |-> val, ids |-> ids, ok |-> ok]
Refused == Outcome(Null, {}, FALSE)

Subscoped(base, field) ==
    IF field \notin DOMAIN loader.subscopes THEN base
    ELSE IF base.frag = <<>> THEN [base EXCEPT !.path = Append(@, loader.subscopes[field])]
    ELSE [base EXCEPT !.frag = Append(@, loader.subscopes[field])]

RECURSIVE ResolveAll(_, _, _, _)

ResolveList(s, base, vocab, deep) ==
    LET items == Mapped(s, LAMBDA v : ResolveAll(v, base, vocab, deep))
    IN  Outcome(List(Mapped(items, LAMBDA r : r.val)), UNION {items[i].ids : i \in DOMAIN s},
                \A i \in DOMAIN s : items[i].ok)

\* What is below an object, whose identifier is the base: the values of its fields.
ResolveValues(d, base, vocab, deep) ==
    LET kids == Mapped(d.m, LAMBDA e : ResolveAll(e[2], Subscoped(base, e[1]), vocab, deep))
    IN  Outcome(Dict(<<>> \o [i \in DOMAIN d.m |-> <<d.m[i][1], kids[i].val>>]),
                Symbols(d) \union UNION {kids[i].ids : i \in DOMAIN kids},
                \A i \in DOMAIN kids : kids[i].ok)

\* _resolve_identity and _resolve_uris of an object whose identifier is expanded.
ResolveFields(d, base0, vocab, deep) ==
    LET base == IF Own(d) = {} THEN base0 ELSE Get(d, CHOOSE key \in Own(d) : TRUE)
        links == EachField(d, LAMBDA key, val : ResolveField(key, val, base, vocab))
    IN  IF \E key \in Own(d) : Get(d, key).k # "str" THEN Refused
        ELSE [ResolveValues(links, base, vocab, deep) EXCEPT !.ids = @ \union Identities(d, loader.identifiers)]

\* _resolve_idmap, _resolve_dsl and _resolve_identifiers.
ResolveForms(d, base, vocab, deep) ==
    LET lists == EachField(d, ResolveIdMap)
        types == EachField(lists, LAMBDA key, val : ResolveDsl(key, val, deep))
    IN  IF \E i \in DOMAIN d.m : Unmappable(d.m[i][1], d.m[i][2]) THEN Refused
        ELSE ResolveFields(Identify(types, loader.identifiers, base, vocab), base, vocab, deep)

ResolveMap(d, base, vocab, deep) == ResolveForms(NormalizeFields(d, vocab), base, vocab, deep)

\* An object with $namespaces, $schemas or $profile has a SubLoader: it knows the context and
\* the prefixes of this object, and not those of the objects around it.
Declared(d, vocab) ==
    IF d.k # "map" \/ Keys(d) \intersect {Word("$namespaces"), Word("$schemas"), Word("$profile")} = {} THEN vocab
    ELSE IF Word("$namespaces") \in Keys(d) THEN Get(d, Word("$namespaces")).ns @@ loader.vocab ELSE loader.vocab

\* doc has its identities expanded; they are in the index whatever its values are.
ResolveGraph(doc, base, vocab, deep) ==
    LET inner == IF Word("$graph") \in Keys(doc) THEN Get(doc, Word("$graph")) ELSE doc
        r == IF inner.k = "map" THEN ResolveMap(inner, base, vocab, deep)
             ELSE ResolveAll(inner, base, vocab, deep)
    IN  [r EXCEPT !.ids = @ \union Identities(doc, loader.identity_links)]

ResolveAll(d, base0, vocab0, deep) ==
    CASE d.k = "map" ->
            LET base  == IF Word("$base") \in Keys(d) THEN Get(d, Word("$base")) ELSE base0
                vocab == Declared(d, vocab0)
            IN  ResolveGraph(Identify(d, loader.identity_links, base, vocab), base, vocab, deep)
      [] d.k = "list" -> ResolveList(d.s, base0, vocab0, deep)
      [] OTHER        -> Outcome(d, {}, TRUE)

----------------------------------------------------------------------------
(* validate_links. *)

Checked(val, ok) == [val |-> val, ok |-> ok]

\* (Mutant.) The search begins at the object itself, whatever refScope says.
ScopesFromInside(field, docid) ==
    LET len == Len(docid.frag) IN [i \in 1 .. len + 1 |-> SubSeq(docid.frag, 1, len + 1 - i)]

\* The fragments in which a scoped reference is looked for, in turn.
Scopes(field, docid) ==
    LET n     == loader.scoped_ref_fields[field]
        start == IF n > Len(docid.frag) THEN 0 ELSE Len(docid.frag) - n
    IN  [i \in 1 .. start + 1 |-> SubSeq(docid.frag, 1, start + 1 - i)]

ValidateScoped(field, link, docid, ids) ==
    LET urls  == [i \in DOMAIN Scopes(field, docid) |->
                     [docid EXCEPT !.frag = Scopes(field, docid)[i] \o link.path, !.sfx = link.sfx]]
        found == SelectSeq(urls, LAMBDA u : u \in ids)
    IN  IF found = <<>> THEN Checked(link, FALSE) ELSE Checked(Head(found), TRUE)

ValidateText(field, link, docid, vocab, ids) ==
    IF \/ link \in ids \union DOMAIN loader.rvocab
       \/ field \in loader.vocab_fields /\ IsTerm(link, vocab)
    THEN Checked(link, TRUE)
    ELSE IF field \in DOMAIN loader.scoped_ref_fields THEN ValidateScoped(field, link, docid, ids)
    ELSE Checked(link, link \in Reachable)

RECURSIVE ValidateLinks(_, _, _, _)
RECURSIVE ValidateLink(_, _, _, _, _)

ValidateLink(field, link, docid, vocab, ids) ==
    CASE field \in loader.nolinkcheck \/ link.k = "null" -> Checked(link, TRUE)
      [] field \notin loader.nolinkcheck /\ link.k = "str" -> ValidateText(field, link, docid, vocab, ids)
      [] field \notin loader.nolinkcheck /\ link.k = "list" ->
            LET items == Mapped(link.s, LAMBDA l : ValidateLink(field, l, docid, vocab, ids))
            IN  Checked(List(Mapped(items, LAMBDA c : c.val)), \A i \in DOMAIN items : items[i].ok)
      [] field \notin loader.nolinkcheck /\ link.k = "map" -> ValidateLinks(link, docid, vocab, ids)
      [] OTHER -> Checked(link, FALSE)

\* A failure below a field that is not checked, or that has a ":", is a warning.
ValidateLinks(d, base, vocab, ids) ==
    CASE d.k = "map" ->
            LET docid == IF Own(d) = {} THEN base ELSE Get(d, CHOOSE key \in Own(d) : TRUE)
                links == Mapped(d.m, LAMBDA e : IF e[1] \in loader.url_fields \ loader.identity_links
                                                THEN ValidateLink(e[1], e[2], docid, vocab, ids)
                                                ELSE Checked(e[2], TRUE))
                below == Mapped(links, LAMBDA c : ValidateLinks(c.val, docid, vocab, ids))
            IN  Checked(Dict(<<>> \o [i \in DOMAIN d.m |-> <<d.m[i][1], below[i].val>>]),
                        \A i \in DOMAIN d.m :
                            /\ links[i].ok \/ d.m[i][1] = Word("$schemas")
                            /\ below[i].ok \/ d.m[i][1] \in loader.nolinkcheck \/ d.m[i][1].scheme # "")
      [] d.k = "list" ->
            LET items == Mapped(d.s, LAMBDA v : ValidateLinks(v, base, vocab, ids))
            IN  Checked(List(Mapped(items, LAMBDA c : c.val)), \A i \in DOMAIN items : items[i].ok)
      [] OTHER -> Checked(d, TRUE)

\* fetch gives a map without an identifier the URL of the document.
InjectId(d, url) ==
    IF d.k # "map" \/ Own(d) # {} \/ loader.identifiers = {} THEN d
    ELSE Put(d, CHOOSE key \in loader.identifiers : TRUE, url)
=============================================================================
