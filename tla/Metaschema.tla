----------------------------- MODULE Metaschema -----------------------------
(***************************************************************************)
(* The tables of metaschema.py, the parser that python_codegen generated   *)
(* from the metaschema: which fields each class has, in the order in which *)
(* fromDoc reads them, and which loader reads each.  What the loaders do   *)
(* is in GeneratedParser.                                                  *)
(***************************************************************************)
EXTENDS Integers, Sequences

(***************************************************************************)
(* Loaders.                                                                *)
(***************************************************************************)
Unscoped == -1  \* a scoped_ref of None

Primitive(type)  == [kind |-> "primitive", type |-> type]
AnyValue         == [kind |-> "any"]
ArrayOf(items)   == [kind |-> "array", items |-> items]
EnumOf(symbols)  == [kind |-> "enum", symbols |-> symbols]
RecordOf(class)  == [kind |-> "record", class |-> class]
UnionOf(members) == [kind |-> "union", members |-> members]
Uri(inner, scoped_id, vocab_term, scoped_ref) ==
    [kind |-> "uri", inner |-> inner, scoped_id |-> scoped_id, vocab_term |-> vocab_term,
     scoped_ref |-> scoped_ref]
TypeDSL(inner, refScope) == [kind |-> "typedsl", inner |-> inner, refScope |-> refScope]
IdMap(inner, subject, predicate) ==
    [kind |-> "idmap", inner |-> inner, subject |-> subject, predicate |-> predicate]

Str == Primitive("str")
OrNull(members) == UnionOf(<<Primitive("null")>> \o members)

PrimitiveTypes == {"null", "boolean", "int", "long", "float", "double", "string"}

\* The terms of _vocab and of _rvocab that are types; the other terms name classes.
Vocabulary == PrimitiveTypes \union
    {"Any", "array", "documentation", "enum", "map", "record", "union"}

\* A type by name or by definition, and a type or a list of types.
OneType == <<EnumOf(PrimitiveTypes), RecordOf("RecordSchema"), RecordOf("EnumSchema"),
             RecordOf("ArraySchema"), RecordOf("MapSchema"), RecordOf("UnionSchema"), Str>>
Types   == UnionOf(OneType \o <<ArrayOf(UnionOf(OneType))>>)

TypesByDSL  == TypeDSL(Types, 2)
TypesByName == Uri(Types, FALSE, TRUE, 2)

\* The one symbol that the field "type" of a class admits.
Symbol(t) == TypeDSL(EnumOf({t}), 2)

Text       == OrNull(<<Str, ArrayOf(Str)>>)
Flag       == OrNull(<<Primitive("bool")>>)
Name       == Uri(Str, TRUE, FALSE, Unscoped)
NameOrNone == Uri(OrNull(<<Str>>), TRUE, FALSE, Unscoped)
Names      == Uri(ArrayOf(Str), TRUE, FALSE, Unscoped)
Link       == Uri(OrNull(<<Str>>), FALSE, FALSE, Unscoped)
Links      == Uri(Text, FALSE, FALSE, Unscoped)
Scoped     == Uri(Str, FALSE, FALSE, 1)
Bases      == Uri(Text, FALSE, FALSE, 1)
Predicate  == OrNull(<<Str, RecordOf("JsonldPredicate")>>)

FieldsOf(class) == IdMap(OrNull(<<ArrayOf(RecordOf(class))>>), "name", "type")
Specialized     == IdMap(OrNull(<<ArrayOf(RecordOf("SpecializeDef"))>>),
                         "specializeFrom", "specializeTo")

(***************************************************************************)
(* Fields.  The identity of an object comes first: what follows is read    *)
(* with it as the base.                                                    *)
(***************************************************************************)
Optional(name, loader) == [name |-> name, loader |-> loader, role |-> "optional"]
Required(name, loader) == [name |-> name, loader |-> loader, role |-> "required"]
Identity(loader)       == [name |-> "name", loader |-> loader, role |-> "identity"]

RecordFieldFields == <<Identity(Name), Optional("doc", Text), Required("type", TypesByDSL)>>

RecordSchemaFields == <<Optional("fields", FieldsOf("RecordField")),
                        Required("type", Symbol("record"))>>

EnumSchemaFields == <<Identity(NameOrNone), Required("symbols", Names),
                      Required("type", Symbol("enum"))>>

ArraySchemaFields == <<Required("items", TypesByName), Required("type", Symbol("array"))>>

MapSchemaFields == <<Required("type", Symbol("map")), Required("values", TypesByName)>>

UnionSchemaFields == <<Required("names", TypesByName), Required("type", Symbol("union"))>>

JsonldIdentity == <<Optional("_id", NameOrNone), Optional("_type", OrNull(<<Str>>)),
                    Optional("_container", OrNull(<<Str>>))>>
JsonldLinks    == <<Optional("identity", Flag), Optional("noLinkCheck", Flag)>>
JsonldMap      == <<Optional("mapSubject", OrNull(<<Str>>)),
                    Optional("mapPredicate", OrNull(<<Str>>))>>
JsonldScope    == <<Optional("refScope", OrNull(<<Primitive("int")>>)),
                    Optional("typeDSL", Flag)>>
JsonldOther    == <<Optional("secondaryFilesDSL", Flag), Optional("subscope", OrNull(<<Str>>))>>

SpecializeDefFields == <<Required("specializeFrom", Scoped), Required("specializeTo", Scoped)>>

SaladFieldBase == RecordFieldFields
SaladFieldMore == <<Optional("jsonldPredicate", Predicate),
                    Optional("default", OrNull(<<AnyValue>>))>>

\* What the classes of the schema's types share.
Named   == <<Identity(Name), Optional("inVocab", Flag)>>
Placing == <<Optional("docParent", Link), Optional("docChild", Links), Optional("docAfter", Link)>>
Defined == <<Optional("jsonldPredicate", Predicate), Optional("documentRoot", Flag)>>

SaladRecordNamed   == Named
SaladRecordShape   == <<Optional("fields", FieldsOf("SaladRecordField")),
                        Required("type", Symbol("record")), Optional("doc", Text)>>
SaladRecordPlacing == Placing
SaladRecordDefined == Defined
SaladRecordDerived == <<Optional("abstract", Flag), Optional("extends", Bases),
                        Optional("specialize", Specialized)>>

SaladEnumNamed   == <<Identity(NameOrNone), Optional("inVocab", Flag)>>
SaladEnumShape   == <<Required("symbols", Names), Required("type", Symbol("enum")),
                      Optional("doc", Text)>>
SaladEnumPlacing == Placing
SaladEnumDefined == Defined
SaladEnumDerived == <<Optional("extends", Bases)>>

SaladMapNamed   == Named
SaladMapShape   == MapSchemaFields \o <<Optional("doc", Text)>>
SaladMapPlacing == Placing
SaladMapDefined == Defined

SaladUnionNamed   == Named
SaladUnionShape   == UnionSchemaFields \o <<Optional("doc", Text)>>
SaladUnionPlacing == Placing
SaladUnionRoot    == <<Optional("documentRoot", Flag)>>

DocumentationNamed   == Named \o <<Optional("doc", Text)>>
DocumentationPlacing == Placing
DocumentationType    == <<Required("type", Symbol("documentation"))>>

Fields == [
    RecordField       |-> RecordFieldFields,
    RecordSchema      |-> RecordSchemaFields,
    EnumSchema        |-> EnumSchemaFields,
    ArraySchema       |-> ArraySchemaFields,
    MapSchema         |-> MapSchemaFields,
    UnionSchema       |-> UnionSchemaFields,
    JsonldPredicate   |-> JsonldIdentity \o JsonldLinks \o JsonldMap \o JsonldScope \o JsonldOther,
    SpecializeDef     |-> SpecializeDefFields,
    SaladRecordField  |-> SaladFieldBase \o SaladFieldMore,
    SaladRecordSchema |-> SaladRecordNamed \o SaladRecordShape \o SaladRecordPlacing
                              \o SaladRecordDefined \o SaladRecordDerived,
    SaladEnumSchema   |-> SaladEnumNamed \o SaladEnumShape \o SaladEnumPlacing
                              \o SaladEnumDefined \o SaladEnumDerived,
    SaladMapSchema    |-> SaladMapNamed \o SaladMapShape \o SaladMapPlacing \o SaladMapDefined,
    SaladUnionSchema  |-> SaladUnionNamed \o SaladUnionShape \o SaladUnionPlacing
                              \o SaladUnionRoot,
    Documentation     |-> DocumentationNamed \o DocumentationPlacing \o DocumentationType]

\* What a document holds: one definition, or a list of them.
Definitions == <<RecordOf("SaladRecordSchema"), RecordOf("SaladEnumSchema"),
                 RecordOf("SaladMapSchema"), RecordOf("SaladUnionSchema"),
                 RecordOf("Documentation")>>
Root        == UnionOf(Definitions \o <<ArrayOf(UnionOf(Definitions))>>)
=============================================================================
