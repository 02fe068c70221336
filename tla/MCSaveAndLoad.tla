--------------------------- MODULE MCSaveAndLoad ---------------------------
(* Small documents for SaveAndLoad: every class, every form of a type, and imports. *)
EXTENDS SaveAndLoad

MCMain == <<"main">>

\* "Cat" is how "Catalog" begins.
Cat     == Word("Cat")
Catalog == Txt("", <<"Cat", "alog">>, <<>>, "")
Dog     == Word("Dog")
Hash(w) == Txt("", <<>>, <<w>>, "")
Suffixed(u, sfx) == [u EXCEPT !.sfx = sfx]

Field(key, val) == << <<Word(key), val>> >>
Kind(t) == Field("type", Word(t))
Import(path) == Map(<< <<Word("$import"), Txt("", path, <<>>, "")>> >>)
ImportPart(path, name) == Map(<< <<Word("$import"), Txt("", path, name, "")>> >>)

ArrayDef(items) == Map(Kind("array") \o Field("items", items))
EnumDef(name)   == Map(Kind("enum") \o name \o Field("symbols", Seq1(<<Word("a"), Word("b")>>)))
RecordDef(fs)   == Map(Kind("record") \o Field("fields", fs))

TypeForms == {Word("string"), Dog, Catalog, Hash("Dog"), Suffixed(Dog, "[]"), Suffixed(Catalog, "?"),
    Suffixed(Catalog, "[]?"), Suffixed(Dog, "[][]"), Null,
    Seq1(<<Word("null"), Suffixed(Dog, "?"), Suffixed(Cat, "[]")>>),
    ArrayDef(Catalog), ArrayDef(Seq1(<<Dog, ArrayDef(Word("int"))>>)), ArrayDef(Import(<<"absent">>)),
    EnumDef(Field("name", Word("E"))), EnumDef(<<>>),
    RecordDef(Map(<< <<Word("g"), Catalog>>, <<Word("h"), Word("Any")>> >>)),
    Map(Kind("map") \o Field("values", Cat)),
    Map(Kind("union") \o Field("names", Seq1(<<Cat, Catalog>>)))}

\* The fields of a record: by name, or as a list.
FieldForms(t) == {Map(<< <<Word("f"), t>> >>),
                  Map(<< <<Word("f"), Map(Field("type", t) \o Field("doc", Word("text")))>> >>),
                  Seq1(<<Map(Field("type", t) \o Field("name", Word("f")))>>)}

BaseForms == {<<>>} \union {Field("extends", v) : v \in {Dog, Catalog, Seq1(<<Dog, Catalog>>)}}
Extras == {<<>>, Field("bogus", Null), << <<Txt("p", <<"x">>, <<>>, ""), Dog>> >>,
           Field("docParent", Hash("Dog")), Field("docAfter", Dog),
           Field("docChild", Seq1(<<Hash("Cat"), Dog>>)),
           Field("specialize", Map(<< <<Dog, Catalog>> >>)),
           Field("jsonldPredicate", Map(Field("_id", Txt("file", <<"ns">>, <<"id">>, ""))
                                        \o Field("refScope", Int1)))}

CatRecord(more, fs) == Map(Field("name", Cat) \o Kind("record") \o more \o Field("fields", fs))

Shaped == {CatRecord(<<>>, fs) : fs \in UNION {FieldForms(t) : t \in TypeForms}}
Related == {CatRecord(base \o more, Map(<< <<Word("f"), Dog>> >>)) : base \in BaseForms, more \in Extras}
Others == {EnumDef(Field("name", Cat)),
    Map(Field("name", Cat) \o Kind("map") \o Field("values", Suffixed(Dog, "[]"))),
    Map(Field("name", Cat) \o Kind("union") \o Field("names", Seq1(<<Dog, Catalog>>))),
    Map(Field("name", Cat) \o Kind("documentation") \o Field("doc", Word("text"))),
    Map(Kind("documentation") \o Field("doc", Seq1(<<Word("text")>>))),
    Map(Kind("record"))}

Namespaces == << <<Word("$namespaces"), [k |-> "ns", ns |-> [p |-> <<"ns">>]]>> >>
Wrapped(d) == {d, Map(Namespaces \o d.m),
               Map(Namespaces \o << <<Word("$graph"), Seq1(<<d>>)>> >>),
               Map(<< <<Word("$base"), File(<<"def">>)>>, <<Word("$graph"), Seq1(<<d>>)>> >>)}

\* Documents that are imported: definitions, one definition, fields, definitions with
\* another base, and one that imports the main one.
MCLibrary ==
    <<"defs">> :> Seq1(<<EnumDef(Field("name", Dog)), EnumDef(Field("name", Catalog))>>) @@
    <<"def">>  :> EnumDef(<<>>) @@
    <<"flds">> :> Seq1(<<Map(Kind("string") \o Field("name", Word("f")))>>) @@
    <<"base">> :> Map(<< <<Word("$base"), File(<<"def">>)>>,
                        <<Word("$graph"), Seq1(<<EnumDef(Field("name", Dog))>>)>> >>) @@
    <<"back">> :> Seq1(<<Import(<<"main">>)>>)

Importing ==
    {Seq1(<<Import(path), EnumDef(Field("name", Cat))>>) : path \in DOMAIN MCLibrary} \union
    {Seq1(<<Import(<<"def">>), Import(<<"def">>)>>),
     Seq1(<<ImportPart(<<"defs">>, <<"Dog">>)>>), Seq1(<<ImportPart(<<"defs">>, <<"Cat">>)>>),
     Seq1(<<CatRecord(<<>>, Map(<< <<Word("f"), Map(Field("type", Import(<<"def">>)))>> >>)),
            Import(<<"def">>)>>)} \union
    {CatRecord(<<>>, fs) : fs \in {Import(<<"flds">>), Seq1(<<Import(<<"flds">>)>>),
        Map(<< <<Word("f"), Import(<<"def">>)>> >>),
        Map(<< <<Word("f"), Map(Field("type", Import(<<"def">>)))>> >>)}} \union
    {CatRecord(Field("doc", Map(<< <<Word("$include"), Word("def")>> >>)), Seq1(<<>>))}

MCSources == UNION {Wrapped(d) : d \in Shaped \union Related \union Others} \union Importing
=============================================================================
