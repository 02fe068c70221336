---------------------------- MODULE MCValidate ----------------------------
(***************************************************************************)
(* Two records with a class, one without, unions of them, and documents    *)
(* that fit, nearly fit, or are something else.                            *)
(***************************************************************************)
EXTENDS Validate

Node0 == [type |-> "", name |-> "", symbols |-> {}, of |-> "", members |-> <<>>, fields |-> <<>>]
Field(name, type) == [name |-> name, type |-> type, default |-> None]
Record(name, fields) == [Node0 EXCEPT !.type = "record", !.name = name, !.fields = fields]
Union(members) == [Node0 EXCEPT !.type = "union", !.members = members]

Primitive == {"null", "boolean", "string", "int", "long", "double"}

Types ==
    [p \in Primitive |-> [Node0 EXCEPT !.type = p]]
    @@ "Any" :> [Node0 EXCEPT !.type = "any"]
    @@ "Expression" :> [Node0 EXCEPT !.type = "expression"]
    @@ "Color" :> [Node0 EXCEPT !.type = "enum", !.symbols = {"red"}]
    @@ "optional int" :> Union(<<"null", "int">>)
    @@ "Files" :> [Node0 EXCEPT !.type = "array", !.of = "x.File"]
    @@ "value" :> Union(<<"null", "x.File", "Files", "Expression", "Color">>)
    @@ "Numbers" :> [Node0 EXCEPT !.type = "map", !.of = "double"]
    @@ "x.File" :> Record("x.File", <<Field("class", "string"),
                                      [Field("size", "long") EXCEPT !.default = Int_(0)]>>)
    @@ "x.Tool" :> Record("x.Tool", <<Field("class", "string"), Field("count", "optional int"),
                                      Field("out", "value")>>)
    @@ "x.Bag" :> Record("x.Bag", <<Field("any", "Any"), Field("flag", "boolean"),
                                    Field("sizes", "Numbers")>>)

MCSchemas == {[types |-> Types, roots |-> roots] :
                 roots \in {<<>>, <<"x.Bag", "x.Tool">>, <<"x.Tool", "x.File", "x.Bag">>}}

MCExtensions == {"ex:a", "ex:b"}
MCReserved == {"@x"}
MCIdentifiers == <<"id">>
MCNoStrings == {""}
MCUnsplittable == {"x://["}
MCVocab == "Tool" :> "x.Tool" @@ "File" :> "x.File" @@ "Other" :> "x.Other"
MCPrefixed == "p:Tool" :> "x#Tool"

\* A map with an optional entry for each key.
Absent == [k |-> "absent"]
Entry(key, d) == IF d = Absent THEN <<>> ELSE <<<<key, d>>>>
Plain(key) == IF key = "none" THEN <<>> ELSE <<<<key, Str("red")>>>>

Classes == {Absent, Str("Tool"), Str("p:Tool"), Str("x.Tool"), Str("Other"), Str(""), Int_(5), Dict(<<>>)}
Odds    == {"none", "id", "@x", "ex:a", "bogus", "", "x://["}
Counts  == {Absent, None, Bool(TRUE), Float, Str("red")} \union {Int_(n) : n \in {-5, -4, 3, 4}}

File(class, size, key) == Dict(Entry("class", class) \o Entry("size", size) \o Plain(key))
Files == {File(Str("File"), Absent, key) : key \in {"none", "ex:a", "bogus"}}
         \union {File(Str("File"), Int_(n), "none") : n \in {-9, -8, 7, 8}}
         \union {File(Int_(5), Absent, "none"), File(Absent, Int_(1), "none")}
Outs  == {Absent, Str("red"), Str("blue"), Str("$(x)"), Int_(1), List(<<>>)} \union Files
         \union {List(<<f, File(Str("File"), Absent, "none")>>) : f \in Files}

Tool(class, count, out, key) ==
    Dict(Entry("class", class) \o Entry("count", count) \o Entry("out", out) \o Plain(key))
Tools == {Tool(c, Absent, o, x) : c \in Classes, o \in {Absent, Int_(1), File(Str("File"), Absent, "ex:a")}, x \in Odds}
         \union {Tool(Str("Tool"), n, o, "none") : n \in Counts, o \in Outs}
         \union {Dict(<<<<"class", Str("Tool")>>, <<x, None>>, <<"", None>>>>) : x \in {"ex:b", "bogus", NoKey}}

Bag(any, flag, sizes) == Dict(<<<<"any", any>>, <<"flag", flag>>, <<"sizes", sizes>>>>)
Bags_ == {Bag(a, b, Dict(<<<<"s", f>>>>)) : a \in {None, Int_(1), List(<<>>)}, b \in {Bool(TRUE), Int_(1), None},
                                            f \in {Float, Bool(FALSE), Str("red")}}

Items1 == Tools \union Bags_ \union Files
MCDocuments ==
    Items1 \union {Int_(1), List(<<>>)}
    \union {List(<<x, y>>) : x \in Bags_ \union {Tool(Str("Tool"), Absent, Int_(1), "none")},
                             y \in {Int_(1), None, Str("red"), Str("id"), List(<<>>), List(<<Str("id")>>), Bag(Int_(1), Bool(TRUE), Dict(<<>>))}}

Inside(d) == CASE d.k = "list" -> ToSet(d.s)
               [] d.k = "map" -> {d.m[i][2] : i \in DOMAIN d.m}
               [] OTHER -> {}

\* The documents, their parts, and so on: none is deeper than a list of two levels of maps.
Levels == 0 .. 5
Nested[n \in Levels] == IF n = 0 THEN MCDocuments ELSE UNION {Inside(d) : d \in Nested[n - 1]}
AllData == UNION {Nested[n] : n \in Levels} \union {None, Int_(0)}
MCData == AllData  \* (TLC evaluates AllData once, but what replaces a constant at every use.)

RECURSIVE Depth(_)
Depth(d) == IF d.k \in {"list", "map"} THEN 1 + Max({0} \union {Depth(e) : e \in Inside(d)}) ELSE 0

\* What the theorems assume of the schemas and the data.
ASSUME RecursionAssumption ==
    \A s \in Schemas :
        Founded(s, [d \in Data |-> Depth(d)],
                [n \in DOMAIN s.types |-> IF s.types[n].type = "union" THEN 1 ELSE 0])
=============================================================================
