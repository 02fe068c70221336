--------------------------- MODULE MCSpellings ---------------------------
(* A small schema, contents of up to four objects, and ways to write them. *)
EXTENDS Spellings

Url(path, name) == Txt("http", <<path>>, <<name>>, <<>>)
MCBase == Txt("http", <<"doc">>, <<>>, <<>>)

Link == [Entry EXCEPT !.type = "@id"]
Term(name, u) == <<name, [Entry EXCEPT !.kind = "uri", !.id = u]>>
Salad(name, about) == <<name, [about EXCEPT !.id = Txt("sld", <<name>>, <<>>, <<>>)]>>

MCContext == <<
    <<"id", [Entry EXCEPT !.kind = "@id"]>>,
    Salad("base", Entry),
    Salad("voc", [Entry EXCEPT !.type = "@vocab"]),
    Salad("link", Link),
    Salad("ref", [Link EXCEPT !.refScope = 1]),
    Salad("type", [Entry EXCEPT !.type = "@vocab", !.typeDSL = TRUE]),
    Salad("items", [Entry EXCEPT !.type = "@vocab"]),
    Salad("files", [Entry EXCEPT !.filesDSL = TRUE]),
    Salad("kids", [Entry EXCEPT !.mapSubject = "id", !.mapPredicate = "base"]),
    Salad("sub", [Entry EXCEPT !.subscope = "s"]),
    Term("string", Url("salad", "string")), Term("null", Url("salad", "null")),
    Term("array", Url("salad", "array")), Term("red", Url("acid", "red")),
    Term("sld", Txt("http", <<"salad">>, <<>>, <<>>)),
    Term("acid", Txt("http", <<"acid">>, <<>>, <<>>)) >>

MCAlphabet == <<"a", "b", "c", "d">>
MCReachable == {Url("acid", "blue"), Txt("http", <<"other">>, <<>>, <<>>)}

----------------------------------------------------------------------------
Content == [name |-> "a", base |-> Null, voc |-> Null, link |-> Null, ref |-> "", type |-> Null,
            files |-> Null, kids |-> <<>>, sub |-> <<>>]
Leaf(n)        == [Content EXCEPT !.name = n, !.base = Word("one")]
Child(n, kids) == [Content EXCEPT !.name = n, !.kids = kids]
Ref(n, r)      == [Content EXCEPT !.name = n, !.ref = r]
Of(elem, dims, opt) == [elem |-> elem, dims |-> dims, opt |-> opt]

Targets == {Url("doc", "a"), Txt("http", <<"doc">>, <<"a", "b">>, <<>>), Url("doc", "z"), MCBase,
            Txt("http", <<"other">>, <<>>, <<>>), Url("acid", "blue")}
Types == {Null} \union {Of(e, n, o) : e \in {Word("string"), Url("acid", "blue")}, n \in 0 .. 2, o \in BOOLEAN}

MCContents ==
    {[Content EXCEPT !.name = n, !.base = Word("two"), !.voc = v] : n \in {"a", ""}, v \in {Word("red"), Url("acid", "blue")}}
    \union {[Content EXCEPT !.name = n, !.link = l, !.kids = <<Leaf("b")>>] : n \in {"a", ""}, l \in Targets}
    \union {[Content EXCEPT !.type = t] : t \in Types}
    \union {[Content EXCEPT !.files = [pattern |-> Word("p"), opt |-> o]] : o \in BOOLEAN}
    \union {Child("a", <<Child("b", <<Ref("c", r)>>), Leaf("d")>>) : r \in {"a", "b", "c", "d", "z"}}
    \union {Child("a", <<Child("b", <<Ref("a", r), Leaf("b")>>), Leaf("d")>>) : r \in {"a", "b", "d"}}
    \union {[Ref(n, r) EXCEPT !.kids = <<Child("b", <<Leaf("c")>>)>>] : n \in {"a", ""}, r \in {"a", "b", "c"}}
    \union {[Content EXCEPT !.ref = r, !.sub = <<[Ref("b", r) EXCEPT !.kids = <<Leaf("d")>>]>>] :
        r \in {"a", "b", "d", "s"}}

----------------------------------------------------------------------------
Field(key, val) == << <<Word(key), val>> >>
Maybe(key, val) == IF val = Null THEN <<>> ELSE Field(key, val)
Suffixed(u, sfx) == [u EXCEPT !.sfx = sfx]
Keys3(name) == {Word(name), Url("salad", name), Txt("p", <<name>>, <<>>, <<>>)}

Ids(c, scope) ==
    IF c.name = "" THEN {<<>>}
    ELSE {Field("id", i) : i \in {Word(c.name), [MCBase EXCEPT !.frag = Append(scope, c.name)],
                                  Txt("", <<>>, Append(scope, c.name), <<>>)}}
Bases(c) ==
    IF c.base = Null THEN {<<>>}
    ELSE {<< <<key, c.base>> >> : key \in IF c.voc = Null THEN {Word("base")} ELSE Keys3("base")}
Vocs(c) ==
    IF c.voc = Null THEN {<<>>}
    ELSE IF c.voc = Word("red") THEN {Field("voc", v) : v \in {c.voc, Url("acid", "red"), Txt("acid", <<"red">>, <<>>, <<>>)}}
    ELSE {Field("voc", v) : v \in {c.voc, Txt("acid", <<"blue">>, <<>>, <<>>)}}
Links(c) ==
    IF c.link = Null THEN {<<>>}
    ELSE {Field("link", u) : u \in {c.link, [c.link EXCEPT !.scheme = ""]}
                                   \union (IF c.link.path = <<"doc">> /\ c.link.frag # <<>>
                                           THEN {Txt("", <<>>, c.link.frag, <<>>)} ELSE {})}
Refs(c) == IF c.ref = "" THEN <<>> ELSE Field("ref", Word(c.ref))

ArrayOf(i) == Dict(Field("type", Word("array")) \o Field("items", i))
RECURSIVE Arrays(_, _)
Arrays(e, n) == IF n = 0 THEN e ELSE ArrayOf(Arrays(e, n - 1))
Marks(n, o) == [i \in 1 .. n |-> "[]"] \o (IF o THEN <<"?">> ELSE <<>>)
Elems(e) == IF e = Word("string") THEN {e, Url("salad", "string")} ELSE {e, Txt("acid", <<"blue">>, <<>>, <<>>)}

\* Two dimensions have a DSL form since version 1.3.
TypeForms(c) ==
    IF c.type = Null THEN {<<>>}
    ELSE LET t == c.type
         IN  {Field("type", v) : v \in
                 (IF t.dims = 2 THEN {} ELSE {Suffixed(e, Marks(t.dims, t.opt)) : e \in Elems(t.elem)})
                 \union {IF t.opt THEN List(<<Word("null"), Arrays(e, t.dims)>>) ELSE Arrays(e, t.dims) : e \in Elems(t.elem)}
                 \union (IF t.opt /\ t.dims < 2
                         THEN {List(<<Word("null"), Suffixed(t.elem, Marks(t.dims, TRUE))>>),
                               List(<<Suffixed(t.elem, Marks(t.dims, TRUE)), Word("null")>>)} ELSE {})}
FileForms(c) ==
    IF c.files = Null THEN {<<>>}
    ELSE {Field("files", v) : v \in {Suffixed(c.files.pattern, IF c.files.opt THEN <<"?">> ELSE <<>>),
             Dict(Field("pattern", c.files.pattern) \o Field("required", IF c.files.opt THEN Bool(FALSE) ELSE Null))}}

RECURSIVE Objects(_, _)
RECURSIVE Bodies(_, _)
Rows(kids, Forms(_)) ==
    IF Len(kids) = 1 THEN {<<x>> : x \in Forms(kids[1])}
    ELSE {<<x, y>> : x \in Forms(kids[1]), y \in Forms(kids[2])}
Kids(c, here) ==
    IF c.kids = <<>> THEN {<<>>}
    ELSE LET entries(kid) == {<<Word(kid.name), Dict(b)>> : b \in Bodies(kid, here)}
                             \union (IF kid = Leaf(kid.name) THEN {<<Word(kid.name), kid.base>>} ELSE {})
         IN  {<< <<key, List(s)>> >> : key \in {Word("kids")} \union (IF c.link = Null THEN {} ELSE {Url("salad", "kids")}), s \in Rows(c.kids, LAMBDA kid : Objects(kid, here))}
             \union {Field("kids", Dict(m)) : m \in Rows(c.kids, entries)}
             \union {Field("kids", Dict(Reverse(m))) : m \in Rows(c.kids, entries)}
Subs(c, here) == IF c.sub = <<>> THEN {<<>>} ELSE {Field("sub", o) : o \in Objects(c.sub[1], Append(here, "s"))}

Bodies(c, scope) ==
    LET here == At(scope, c.name)
    IN  {b \o v \o l \o Refs(c) \o t \o f \o k \o s :
            b \in Bases(c), v \in Vocs(c), l \in Links(c), t \in TypeForms(c), f \in FileForms(c),
            k \in Kids(c, here), s \in Subs(c, here)}
Objects(c, scope) == {Dict(i \o b) : i \in Ids(c, scope), b \in Bodies(c, scope)}

Namespaces == Field("$namespaces", [k |-> "ns", ns |-> [p |-> Txt("http", <<"salad">>, <<>>, <<>>)]])
MCSpelled(c) ==
    {Dict(Namespaces \o o.m) : o \in Objects(c, <<>>)}
    \union (IF c.name = "" THEN {} ELSE {Dict(Namespaces \o Field("$graph", List(<<o>>))) : o \in Objects(c, <<>>)})
=============================================================================
