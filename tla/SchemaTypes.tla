---------------------------- MODULE SchemaTypes ----------------------------
(***************************************************************************)
(* From the types of a schema to Avro: make_avro_schema in schema.py, that *)
(* is extend_and_specialize, make_valid_avro and, in avro/schema.py,       *)
(* make_avsc_object with its table of names.                               *)
(*                                                                         *)
(* Each of the four loops over the types is a phase, each turn of a loop an *)
(* action: what a type becomes depends on what the loop has made of the    *)
(* types before it.  The recursions below one type are operators.          *)
(***************************************************************************)
EXTENDS Integers, SequencesExt

CONSTANTS
    TypeNames,  \* the names of the types that schemas define or mention
    Primitives, \* Avro's primitive types
    Schemas     \* the schemas to process, sequences of types

(***************************************************************************)
(* A type expression, a field and a definition are terms: of is what they  *)
(* consist of.  A field's name is the type it was written in and a short   *)
(* name; of a "list" (a union) is its members, of a "record" its fields,   *)
(* of an "enum" its symbols.  raw: the names in it are still URLs.         *)
(***************************************************************************)
NoName == ""
Term(tag, name, of) ==
    [tag |-> tag, name |-> name, short |-> NoName, of |-> of, abstract |-> "absent",
     extends |-> <<>>, specialize |-> <<>>, raw |-> TRUE]

Ref(name)   == Term("ref", name, <<>>)
Union(ts)   == Term("list", NoName, ts)
Array(t)    == Term("array", NoName, <<t>>)
Field(owner, short, t) == [Term("field", owner, <<t>>) EXCEPT !.short = short]

Definitions == {"record", "enum"}
AnyType == "Any"

VARIABLES
    schema,     \* the types as they are loaded, items2
    phase,      \* the loop in hand
    pos,        \* the type in hand
    types,      \* types: from a name to what is known of the type so far
    results,    \* the list that extend_and_specialize returns
    extendedBy, \* extended_by: from an abstract type to the names of its subtypes
    avro,       \* what make_valid_avro returns for the list
    found,      \* its set of names that are defined already
    names,      \* the names in the Names table of make_avsc_object
    status      \* how it ended

vars == <<schema, phase, pos, types, results, extendedBy, avro, found, names, status>>

Phases   == {"extend", "collect", "embed", "convert", "parse", "done"}
Statuses == {"running", "ok", "no base", "field in use", "no subtype", "avro"}

Init ==
    /\ schema \in Schemas
    /\ phase = "extend"
    /\ pos = 1
    /\ types = [n \in {t.name : t \in ToSet(schema)} |->
                    Last(SelectSeq(schema, LAMBDA t : t.name = n))]
    /\ results = <<>>
    /\ extendedBy = << >>
    /\ avro = <<>>
    /\ found = {}
    /\ names = {AnyType}
    /\ status = "running"

----------------------------------------------------------------------------
(* replace_type                                                            *)

RECURSIVE Members(_)

\* flatten: the members of a list, and of the lists among them.
Members(t) == IF t.tag = "list" THEN FlattenSeq([i \in DOMAIN t.of |-> Members(t.of[i])]) ELSE <<t>>
\* Mutant: the lists in a list stay.
FlatNever(t) == t
Flat(t)    == IF t.tag = "list" THEN [t EXCEPT !.of = Members(t)] ELSE t

RECURSIVE Replaced(_, _, _)

\* A list, from left to right; seen is the set "found", which every call adds to.
ReplacedAll(ts, spec, seen) ==
    FoldLeft(LAMBDA acc, t : LET r == Replaced(t, spec, acc.seen)
                             IN  [terms |-> Append(acc.terms, r.term), seen |-> r.seen],
             [terms |-> <<>>, seen |-> seen], ts)

\* A reference that spec maps is replaced; a definition that was seen before becomes a
\* reference to it.
Replaced(t, spec, seen) ==
    CASE t.tag = "ref" /\ t.name \in DOMAIN spec -> Replaced(spec[t.name], spec, seen)
      [] t.tag = "ref" /\ t.name \notin DOMAIN spec ->
            [term |-> t, seen |-> seen \union {t.name}]
      [] t.tag = "list" ->
            LET r == ReplacedAll(t.of, spec, seen)
            IN  [term |-> [t EXCEPT !.of = r.terms], seen |-> r.seen]
      [] t.tag \in Definitions /\ t.name \in seen -> [term |-> Ref(t.name), seen |-> seen]
      [] t.tag = "enum" /\ t.name \notin seen -> [term |-> t, seen |-> seen \union {t.name}]
      [] OTHER ->
            LET r == ReplacedAll(t.of, spec, IF t.tag = "record" THEN seen \union {t.name} ELSE seen)
            IN  [term |-> [t EXCEPT !.of = [i \in DOMAIN r.terms |-> Flat(r.terms[i])]],
                 seen |-> r.seen]

----------------------------------------------------------------------------
(* is_subtype, avro/schema.py                                              *)

RECURSIVE IsSubtype(_, _)

IsSubtype(existing, new) ==
    LET known(t) == t.tag = "ref" /\ t.name \in DOMAIN types
        null(t)  == t.tag = "ref" /\ t.name = "null"
        both(tag) == existing.tag = tag /\ new.tag = tag
        dict(t)  == t.tag \in Definitions
    IN  \/ existing = new
        \/ existing.tag = "list" /\ new \in ToSet(existing.of)
        \/ /\ existing = Ref(AnyType)
           /\ ~null(new)
           /\ new.tag = "list" => new.of # <<>> /\ \A t \in ToSet(new.of) : ~null(t)
        \/ /\ existing # Ref(AnyType)
           /\ ~(existing.tag = "list" /\ new \in ToSet(existing.of))
           /\ CASE known(existing) -> IsSubtype(types[existing.name], new)
                [] ~known(existing) /\ known(new) -> IsSubtype(existing, types[new.name])
                [] new.extends = <<existing.name>> /\ dict(existing) /\ dict(new) -> TRUE
                [] both("array") -> IsSubtype(existing.of[1], new.of[1])
                [] both("enum")  -> ToSet(new.of) \subseteq ToSet(existing.of)
                [] both("record") ->
                    \A f \in ToSet(new.of) :
                        LET same == {g \in ToSet(existing.of) : g.name = f.name /\ g.short = f.short}
                        IN  same # {} /\ \A g \in same : IsSubtype(g.of[1], f.of[1])
                [] both("list") ->
                    \A t \in ToSet(new.of) :
                        t \in ToSet(existing.of) \/ \E s \in ToSet(existing.of) : IsSubtype(s, t)
                [] OTHER -> FALSE

----------------------------------------------------------------------------
(* extend_and_specialize                                                   *)

Running(p)  == status = "running" /\ phase = p
End(result) == status' = result /\ phase' = "done" /\ UNCHANGED pos

\* Mutant: the next loop goes on where the last one ended.
ProceedPast(next) ==
    /\ pos' = pos + 1
    /\ phase' = IF pos < Len(schema) THEN phase ELSE next
    /\ UNCHANGED status

\* The next type, or the first one of the next loop.
Proceed(next) ==
    /\ pos' = IF pos < Len(schema) THEN pos + 1 ELSE 1
    /\ phase' = IF pos < Len(schema) THEN phase ELSE next
    /\ UNCHANGED status

Current == schema[pos]

\* {shortname(field["name"]): field for field in fields}: the last of a name, where the first was.
ByShort(fields) ==
    LET firsts == SelectSeq([i \in DOMAIN fields |-> i],
                            LAMBDA i : \A j \in 1 .. i - 1 : fields[j].short # fields[i].short)
        latest(i) == CHOOSE j \in DOMAIN fields :
                        /\ fields[j].short = fields[i].short
                        /\ \A k \in DOMAIN fields : fields[k].short = fields[i].short => k <= j
    IN  [i \in DOMAIN firsts |-> fields[latest(firsts[i])]]

\* Mutant: the base as it was loaded, not as it is after it was extended itself.
FromBaseAsLoaded(base) ==
    LET b == Last(SelectSeq(schema, LAMBDA t : t.name = base))
    IN  IF b.tag = Current.tag THEN b.of ELSE <<>>

\* What the type in hand takes from one of its bases.
FromBase(base) ==
    LET t    == Current
        b    == types[base]
        spec == [n \in DOMAIN t.specialize |-> Ref(t.specialize[n])]
    IN  CASE b.tag # t.tag -> <<>>
          [] t.tag = "record" /\ spec # << >> -> ReplacedAll(b.of, spec, {}).terms
          [] OTHER -> b.of

FromBases == FlattenSeq([i \in DOMAIN Current.extends |-> FromBase(Current.extends[i])])

Inherited == ByShort(FromBases)
Own       == ByShort(Current.of)
Override(f) == SelectSeq(Own, LAMBDA g : g.short = f.short)

\* A field of a base gives way to the type's own field of the same short name.
Combined ==
    LET first == [i \in DOMAIN Inherited |->
                    IF Override(Inherited[i]) = <<>> THEN Inherited[i] ELSE Override(Inherited[i])[1]]
    IN  first \o SelectSeq(Own, LAMBDA f : f \notin ToSet(first))

Compatible ==
    \A f \in ToSet(Inherited) : \A g \in ToSet(Override(f)) : IsSubtype(f.of[1], g.of[1])

Bases == ToSet(Current.extends)

Keep ==
    /\ Running("extend")
    /\ Bases = {}
    /\ results' = Append(results, Current)
    /\ Proceed("collect")
    /\ UNCHANGED <<schema, types, extendedBy, avro, found, names>>

\* The type as it is now is what the types after it in the list extend.
Derive(t) ==
    /\ types' = [types EXCEPT ![t.name] = t]
    /\ results' = Append(results, t)
    /\ Proceed("collect")
    /\ UNCHANGED <<schema, extendedBy, avro, found, names>>

ExtendRecord ==
    /\ Running("extend")
    /\ Current.tag = "record" /\ Bases # {} /\ Bases \subseteq DOMAIN types
    /\ Compatible
    /\ Derive([Current EXCEPT !.of = Combined])

ExtendEnum ==
    /\ Running("extend")
    /\ Current.tag = "enum" /\ Bases # {} /\ Bases \subseteq DOMAIN types
    /\ Derive([Current EXCEPT !.of = FromBases \o Current.of])

\* "Extends .. refers to invalid base type"
RejectBase ==
    /\ Running("extend")
    /\ ~(Bases \subseteq DOMAIN types)
    /\ End("no base")
    /\ UNCHANGED <<schema, types, results, extendedBy, avro, found, names>>

\* "Field name .. already in use with incompatible type"
RejectField ==
    /\ Running("extend")
    /\ Current.tag = "record" /\ Bases # {} /\ Bases \subseteq DOMAIN types
    /\ ~Compatible
    /\ End("field in use")
    /\ UNCHANGED <<schema, types, results, extendedBy, avro, found, names>>

Result(n) == Last(SelectSeq(results, LAMBDA t : t.name = n))
IsAbstract(t) == t.abstract = "true"

\* Mutant: a later subtype takes the place of the one before.
SubtypesLast(n) ==
    <<Last(SelectSeq(results, LAMBDA t : n \in ToSet(t.extends))).name>>

\* The types that name an abstract one among their bases.
Subtypes(n) ==
    LET subs == SelectSeq(results, LAMBDA t : n \in ToSet(t.extends))
    IN  [i \in DOMAIN subs |-> subs[i].name]

Collect ==
    /\ Running("collect")
    /\ LET bases == {n \in UNION {ToSet(t.extends) : t \in ToSet(results)} : IsAbstract(Result(n))}
       IN  extendedBy' = [n \in bases |-> Subtypes(n)]
    /\ IF \E t \in ToSet(results) : IsAbstract(t) /\ t.name \notin DOMAIN extendedBy'
       THEN End("no subtype")
       ELSE phase' = "embed" /\ pos' = 1 /\ UNCHANGED status
    /\ UNCHANGED <<schema, types, results, avro, found, names>>

\* In the fields, the definitions of its subtypes stand for an abstract type.  They are
\* those of the list that is being changed.
Embed ==
    /\ Running("embed")
    /\ LET spec == [n \in DOMAIN extendedBy |->
                        Union([i \in DOMAIN extendedBy[n] |-> Result(extendedBy[n][i])])]
       IN  results' = IF results[pos].tag = "record"
                      THEN [results EXCEPT ![pos].of = ReplacedAll(@, spec, {}).terms]
                      ELSE results
    /\ Proceed("convert")
    /\ UNCHANGED <<schema, types, extendedBy, avro, found, names>>

----------------------------------------------------------------------------
(* make_valid_avro                                                         *)

RECURSIVE Converted(_, _)

ConvertedAll(ts, seen) ==
    FoldLeft(LAMBDA acc, t : LET r == Converted(t, acc.seen)
                             IN  [terms |-> Append(acc.terms, r.term), seen |-> r.seen],
             [terms |-> <<>>, seen |-> seen], ts)

Named(n) == [Ref(n) EXCEPT !.raw = FALSE]

\* A definition with the key "abstract" is not converted.
Unconverted(t) == t.abstract # "absent"

Converted(t, seen) ==
    CASE t.tag = "ref" /\ t.name \in {r.name : r \in ToSet(results)} \ seen ->
            Converted(Result(t.name), seen)
      [] t.tag \in Definitions /\ Unconverted(t) -> [term |-> t, seen |-> seen]
      [] \/ t.tag = "ref" /\ t.name \notin {r.name : r \in ToSet(results)} \ seen
         \/ t.tag \in Definitions /\ ~Unconverted(t) /\ t.name \in seen ->
            [term |-> Named(t.name), seen |-> seen]
      [] OTHER ->
            LET inner == IF t.tag \in Definitions THEN seen \union {t.name} ELSE seen
                r     == IF t.tag = "enum" THEN [terms |-> t.of, seen |-> inner]
                         ELSE ConvertedAll(t.of, inner)
            IN  [term |-> [t EXCEPT !.of = r.terms, !.raw = FALSE], seen |-> r.seen]

\* Mutant: make_avro keeps every definition.
KeptAll(t) == t.tag \in Definitions

\* make_avro keeps the definitions that are not abstract.
Kept(t) == t.tag \in Definitions /\ ~IsAbstract(t)

Convert ==
    /\ Running("convert")
    /\ LET r == Converted(results[pos], found)
       IN  /\ avro' = IF Kept(r.term) THEN Append(avro, r.term) ELSE avro
           /\ found' = r.seen
    /\ Proceed("parse")
    /\ UNCHANGED <<schema, types, results, extendedBy, names>>

----------------------------------------------------------------------------
(* make_avsc_object: a table of names, or an exception                     *)

Failed == [ok |-> FALSE, names |-> {}]

\* Two members of a union may not have the same unnamed type.
Unnamed(t) ==
    CASE t.tag = "ref" /\ t.name \in Primitives -> t.name
      [] t.tag = "array" -> "array"
      [] OTHER -> NoName

UnionOK(ts) ==
    /\ \A i \in DOMAIN ts : ts[i].tag # "list"
    /\ \A i, j \in DOMAIN ts : i < j => Unnamed(ts[i]) = NoName \/ Unnamed(ts[i]) # Unnamed(ts[j])

RECURSIVE Parsed(_, _)

ParsedAll(ts, table) ==
    FoldLeft(LAMBDA acc, t : IF acc.ok THEN Parsed(t, acc.names) ELSE acc,
             [ok |-> TRUE, names |-> table], ts)

Parsed(t, table) ==
    CASE t.tag = "ref" ->
            IF t.name \in Primitives \/ (t.name \in table /\ ~t.raw)
            THEN [ok |-> TRUE, names |-> table] ELSE Failed
      [] t.tag = "list" -> IF UnionOK(t.of) THEN ParsedAll(t.of, table) ELSE Failed
      [] t.tag = "enum" -> IF t.name \in table \/ ~IsInjective(t.of) THEN Failed
                           ELSE [ok |-> TRUE, names |-> table \union {t.name}]
      [] t.tag = "record" -> IF t.name \in table THEN Failed
                             ELSE ParsedAll(t.of, table \union {t.name})
      [] OTHER -> ParsedAll(t.of, table)

Parse ==
    /\ Running("parse")
    /\ LET r == ParsedAll(avro, names)
       IN  /\ End(IF r.ok THEN "ok" ELSE "avro")
           /\ names' = IF r.ok THEN r.names ELSE names
    /\ UNCHANGED <<schema, types, results, extendedBy, avro, found>>

----------------------------------------------------------------------------
Next ==
    \/ Keep \/ ExtendRecord \/ ExtendEnum \/ RejectBase \/ RejectField
    \/ Collect \/ Embed \/ Convert \/ Parse

Spec == Init /\ [][Next]_vars

(***************************************************************************)
(* Types, and how far each loop has come: a result for every type extended, *)
(* at most one Avro definition for every type converted, and names found   *)
(* and tabled that are names of types.                                     *)
(***************************************************************************)
TypeOK ==
    /\ schema \in Schemas
    /\ phase \in Phases /\ status \in Statuses /\ (phase = "done") = (status # "running")
    /\ pos \in DOMAIN schema
    /\ DOMAIN types = {t.name : t \in ToSet(schema)} /\ DOMAIN types \subseteq TypeNames
    /\ \A n \in DOMAIN types : types[n].name = n
    /\ Len(results) = CASE phase = "extend" \/ status \in {"no base", "field in use"} -> pos - 1
                        [] OTHER -> Len(schema)
    /\ \A i \in DOMAIN results : results[i].name = schema[i].name
    /\ DOMAIN extendedBy \subseteq DOMAIN types
    /\ phase = "convert" => Len(avro) < pos
    /\ found \subseteq DOMAIN types
    /\ names \subseteq DOMAIN types \union {AnyType}
=============================================================================
