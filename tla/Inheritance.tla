---------------------------- MODULE Inheritance ----------------------------
(***************************************************************************)
(* What SchemaTypes computes, as a function of the declared types alone:   *)
(* the fields a record has, and what a value of a field may be.            *)
(***************************************************************************)
EXTENDS SchemaTypes

Declared(n) == Last(SelectSeq(schema, LAMBDA t : t.name = n))
TypeSet     == {t.name : t \in ToSet(schema)}
Concrete    == {n \in TypeSet : ~IsAbstract(Declared(n))}
ShortsOf(t) == {f.short : f \in ToSet(t.of)}

RECURSIVE Substituted(_, _), FieldOf(_, _), SymbolsOf(_), Ancestors(_)

\* A type expression with the references in spec replaced.
Substituted(t, spec) ==
    IF t.tag = "ref" /\ t.name \in DOMAIN spec THEN Ref(spec[t.name])
    ELSE [t EXCEPT !.of = [i \in DOMAIN t.of |-> Substituted(t.of[i], spec)]]

\* The field with a short name: the record's own, or what it inherits from the last base
\* that has one; <<>> if there is none.
FieldOf(n, short) ==
    LET own   == SelectSeq(Declared(n).of, LAMBDA f : f.short = short)
        bases == SelectSeq(Declared(n).extends, LAMBDA b : FieldOf(b, short) # <<>>)
    IN  IF own # <<>> THEN <<Last(own)>>
        ELSE IF bases = <<>> THEN <<>>
        ELSE <<Substituted(FieldOf(Last(bases), short)[1], Declared(n).specialize)>>

SymbolsOf(n) == ToSet(Declared(n).of) \union UNION {SymbolsOf(b) : b \in ToSet(Declared(n).extends)}

Ancestors(n) ==
    LET bases == ToSet(Declared(n).extends) \intersect TypeSet
    IN  bases \union UNION {Ancestors(b) : b \in bases}

\* Every type comes after the types that it extends.
BasesFirst ==
    \A i \in DOMAIN schema : ToSet(schema[i].extends) \subseteq {schema[j].name : j \in 1 .. i - 1}

(***************************************************************************)
(* A record has its own fields and those of the types it extends, and      *)
(* theirs, with the specialized types; and an enum the symbols: whatever   *)
(* else extends the same base, and whatever it specializes.                *)
(***************************************************************************)
FieldsAreInherited ==
    phase = "collect" /\ BasesFirst =>
        \A t \in ToSet(results) :
            IF t.tag = "enum" THEN ToSet(t.of) = SymbolsOf(t.name)
            ELSE /\ \A f \in ToSet(t.of) : FieldOf(t.name, f.short) = <<f>>
                 /\ \A n \in {t.name} \union Ancestors(t.name) :
                        ShortsOf(Declared(n)) \subseteq ShortsOf(t)

\* What a value may be: a set of primitive types, of concrete types and of arrays.
Alternative(n) == [name |-> n, items |-> {}]
Arrays(items)  == [name |-> "array", items |-> items]

RECURSIVE Meaning(_), AvroMeaning(_), Within(_)

Meaning(t) ==
    CASE t.tag = "ref" /\ t.name \in TypeSet \ Concrete ->
            {Alternative(n) : n \in {m \in Concrete : t.name \in Ancestors(m)}}
      [] t.tag = "list"  -> UNION {Meaning(m) : m \in ToSet(t.of)}
      [] t.tag = "array" -> {Arrays(Meaning(t.of[1]))}
      [] OTHER           -> {Alternative(t.name)}

AvroMeaning(t) ==
    CASE t.tag = "list"  -> UNION {AvroMeaning(m) : m \in ToSet(t.of)}
      [] t.tag = "array" -> {Arrays(AvroMeaning(t.of[1]))}
      [] OTHER           -> {Alternative(t.name)}

\* A term and all the terms in it.
Within(t) == {t} \union UNION {Within(u) : u \in ToSet(t.of)}
Defined   == {d \in UNION {Within(t) : t \in ToSet(avro)} : d.tag \in Definitions}

\* Every subtype of an abstract type is concrete and names it among its bases.
OneLevel ==
    \A a \in TypeSet \ Concrete, n \in TypeSet :
        a \in Ancestors(n) => n \in Concrete /\ a \in ToSet(Declared(n).extends)

\* "If an abstract type appears in a field definition, it is logically replaced with a union
\* of all concrete subtypes of the abstract type" (metaschema/salad.md): so the fields of
\* every schema that is accepted, however the types that extend an abstract one are nested.
AbstractMeansSubtypes ==
    status = "ok" =>
        \A d \in Defined : d.tag = "record" =>
            \A f \in ToSet(d.of) : AvroMeaning(f.of[1]) = Meaning(FieldOf(d.name, f.short)[1].of[1])

(***************************************************************************)
(* The Avro schema that is made admits in each field what the declared     *)
(* type of the field means: through specialization, the expansion of       *)
(* abstract types, and the embedding of each definition where it is first  *)
(* used.                                                                   *)
(***************************************************************************)
MeaningIsKept == OneLevel => AbstractMeansSubtypes

\* Each concrete type is defined once, wherever it is embedded, and nothing else is.
DefinedOnce ==
    status = "ok" =>
        /\ OneLevel => names = Concrete \union {AnyType}
        /\ \A c, d \in Defined : c.name = d.name => c = d

\* A union of two arrays or of a primitive type twice, a symbol twice: Avro has neither.
Clashes(t) ==
    \E u \in Within(t) :
        \/ u.tag = "list" /\ ~UnionOK(Members(u))
        \/ u.tag = "enum" /\ ~IsInjective(u.of)

\* A schema that can be extended is an Avro schema, unless a union or an enum of it has a
\* member twice: make_avro leaves no name missing where it is used, and defines none a second
\* time.  The premise: no type says "abstract: false", which make_valid_avro takes for true,
\* and no abstract type extends another.
AvroAcceptsPlain ==
    OneLevel /\ (\A t \in ToSet(schema) : t.abstract # "false") =>
        (status = "avro" => \E t \in ToSet(results) : Clashes(t))

=============================================================================
