------------------------------ MODULE Validate ------------------------------
(***************************************************************************)
(* Validation of a resolved document: validate_ex (validate.py) and        *)
(* validate_doc (schema.py).                                               *)
(*                                                                         *)
(* validate_ex is one function in two modes.  Quiet, it returns True or    *)
(* False; loud (raise_ex), it raises what is wrong.  A union is decided    *)
(* quietly and explained loudly, and so is each item of a document.        *)
(***************************************************************************)
EXTENDS Integers, SequencesExt

CONSTANTS
    Schemas,    \* [types: name -> type, roots: sequence of names], the avro schemas tried
    Data,       \* the data that documents are made of, and the documents
    Documents,  \* what resolve_ref may have yielded
    Extensions, \* keys with a URI scheme: extension fields
    Reserved,   \* keys that begin with @ or $
    NoStrings,  \* keys without a first character: "", and those that are no str
    Unsplittable, \* keys that urlsplit refuses, such as "x://["
    NoKey,      \* the key None
    Identifiers,\* Loader.identifiers
    Vocab,      \* Loader.vocab for class names: term -> avro name
    Prefixed,   \* a class name with a prefix that is in the vocabulary -> its URL
    Expressions,\* the strings that hold $( or ${
    IntBits, LongBits

\* A datum: what a YAML document is made of.  A map keeps its order.
None     == [k |-> "none"]
Bool(b)  == [k |-> "bool", b |-> b]
Int_(n)  == [k |-> "int", n |-> n]
Float    == [k |-> "float"]
Str(v)   == [k |-> "str", v |-> v]
List(s)  == [k |-> "list", s |-> s]
Dict(m)  == [k |-> "map", m |-> m]

MapKeys == {NoKey} \union STRING
OddKeys == NoStrings \union Unsplittable
Datum ==
    {None, Float} \union [k : {"bool"}, b : BOOLEAN] \union [k : {"int"}, n : Int]
        \union [k : {"str"}, v : STRING]
        \union [k : {"list"}, s : Seq(Data)] \union [k : {"map"}, m : Seq(MapKeys \X Data)]

Keys(d)     == {d.m[i][1] : i \in DOMAIN d.m}
Get(d, key) == d.m[CHOOSE i \in DOMAIN d.m : d.m[i][1] = key][2]
Falsy(d)    == d \in {None, Bool(FALSE), Int_(0), Str(""), List(<<>>), Dict(<<>>)}

ScalarTypes == {"null", "boolean", "string", "int", "long", "float", "double",
                "any", "expression", "enum"}

\* A type of each name that is used; a record's class has a name.
SchemaOK(s) ==
    /\ \A n \in DOMAIN s.types :
        LET t == s.types[n]
        IN  \/ t.type \in ScalarTypes
            \/ t.type \in {"array", "map"} /\ t.of \in DOMAIN s.types
            \/ t.type = "union" /\ t.members \in Seq(DOMAIN s.types)
            \/ /\ t.type = "record" /\ t.name # ""
               /\ t.fields \in Seq([name : STRING, type : DOMAIN s.types, default : Data])
    \* A documentRoot; avro's NamedUnionSchema keeps no such property of its definition.
    /\ s.roots \in Seq({n \in DOMAIN s.types : s.types[n].type # "union"})

\* What ends the recursion of validate_ex: a datum is deeper than its parts, no union is among
\* its own members, and the default of a field is a scalar.
Founded(s, depth, level) ==
    /\ depth \in [Data -> Nat] /\ level \in [DOMAIN s.types -> Nat]
    /\ \A d \in Data :
        /\ d.k = "list" => \A i \in DOMAIN d.s : depth[d.s[i]] < depth[d]
        /\ d.k = "map"  => \A i \in DOMAIN d.m : depth[d.m[i][2]] < depth[d]
    /\ \A n \in DOMAIN s.types :
        LET t == s.types[n]
        IN  /\ t.type = "union" => \A i \in DOMAIN t.members : level[t.members[i]] < level[n]
            /\ t.type = "record" =>
                  \A i \in DOMAIN t.fields :
                      /\ t.fields[i].default.k \notin {"list", "map"}
                      /\ \A d \in Data : d.k = "map" => depth[t.fields[i].default] < depth[d]

ASSUME DataAssumption   == Data \subseteq Datum /\ None \in Data /\ Documents \subseteq Data
ASSUME SchemaAssumption == \A s \in Schemas : SchemaOK(s)
ASSUME KeyAssumption ==
    /\ Extensions \union Reserved \union OddKeys \union ToSet(Identifiers) \subseteq MapKeys
    /\ Extensions \intersect Unsplittable = {}
    /\ NoKey \notin Extensions \union Reserved \union ToSet(Identifiers) \union STRING
ASSUME BitsAssumption   == {2 ^ (IntBits - 1), 2 ^ (LongBits - 1)} \subseteq Nat \ {0, 1}
ASSUME VocabAssumption  == "" \notin DOMAIN Vocab \union DOMAIN Prefixed

VARIABLES
    schema,   \* the Names of the target schema, and those that are document roots
    options,  \* strict, strict_foreign_properties, skip_schemas
    doc,      \* the document
    foreign,  \* foreign_properties of the loader
    phase,    \* "resolved", "checking", "accepted", "refused", "crashed"
    pos,      \* the item in hand
    faulty    \* anyerrors: for each refused item, the roots whose errors are reported

vars == <<schema, options, doc, foreign, phase, pos, faulty>>

TypeOf(s, name) == s.types[name]

----------------------------------------------------------------------------
(* validate_ex.  Outcomes: "valid" (True, or no exception), "invalid" (False, or a
   ValidationException), "class" (ClassValidationException), "crash" (TypeError, IndexError, ValueError). *)

Outcomes == {"valid", "invalid", "class", "crash"}

\* What stops a loop: the first outcome in ends, or what it comes to if there is none.
FirstOf(outcomes, ends, none) ==
    LET at == {i \in DOMAIN outcomes : outcomes[i] \in ends}
    IN  IF at = {} THEN none ELSE outcomes[Min(at)]

FirstBad(outcomes) == FirstOf(outcomes, Outcomes \ {"valid"}, "valid")

\* An exception that is caught and raised again in a new one has lost its class.
Wrapped(outcome) == IF outcome = "class" THEN "invalid" ELSE outcome

Verdict(ok) == IF ok THEN "valid" ELSE "invalid"

\* A bool is an int in Python.
Number(d) == IF d.k = "bool" THEN (IF d.b THEN 1 ELSE 0) ELSE d.n

\* (Mutant.) The bounds are those of an unsigned number.
FitsUnsigned(d, bits) == d.k \in {"bool", "int"} /\ Number(d) \in 0 .. 2 ^ bits - 1

Fits(d, bits) == d.k \in {"bool", "int"} /\ Number(d) \in -(2 ^ (bits - 1)) .. 2 ^ (bits - 1) - 1

Scalar(t, d) ==
    CASE t.type = "null"       -> d = None
      [] t.type = "boolean"    -> d.k = "bool"
      [] t.type = "string"     -> d.k = "str"
      [] t.type = "int"        -> Fits(d, IntBits)
      [] t.type = "long"       -> Fits(d, LongBits)
      [] t.type \in {"float", "double"} -> d.k \in {"bool", "int", "float"}
      [] t.type = "any"        -> d # None
      [] t.type = "expression" -> d.k = "str" /\ d.v \in Expressions
      [] t.type = "enum"       -> d.k = "str" /\ d.v \in t.symbols

\* Which members of a union are worth an explanation.
Skipped(t, d) ==
    \/ d.k = "list" /\ t.type # "array"
    \/ d.k = "map" /\ t.type \notin {"record", "map"}
    \/ d.k \in {"bool", "int", "float", "str"} /\ t.type \in {"array", "record", "map"}
    \/ d # None /\ t.type = "null"

\* The names that a class stands for: itself or its URL, and what the vocabulary has for it.
ClassNames(c) ==
    LET full == IF c \notin DOMAIN Vocab /\ c \in DOMAIN Prefixed THEN Prefixed[c] ELSE c
    IN  {full} \union (IF full \in DOMAIN Vocab THEN {Vocab[full]} ELSE {})

HasClass(t) == \E i \in DOMAIN t.fields : t.fields[i].name = "class"

\* (Mutant.) A class that is missing is looked up.
ClassOutcomeUnchecked(t, d) ==
    IF ~HasClass(t) THEN "valid"
    ELSE IF "class" \notin Keys(d) \/ Get(d, "class").k # "str" THEN "crash"
    ELSE Verdict(t.name \in ClassNames(Get(d, "class").v))

\* The class field of a record decides first; a class that is no str is looked up all the same.
ClassOutcome(t, d) ==
    IF ~HasClass(t) THEN "valid"
    ELSE IF "class" \notin Keys(d) \/ Falsy(Get(d, "class")) THEN "invalid"
    ELSE IF Get(d, "class").k # "str" THEN "crash"
    ELSE Verdict(t.name \in ClassNames(Get(d, "class").v))

\* A missing field is validated as its default, which is None if there is none.
FieldValue(f, d) == IF f.name \in Keys(d) THEN Get(d, f.name) ELSE f.default

\* (Mutant.) The quiet return is taken whether the check is strict or not.
KeyOutcomeQuiet(o, key, known, raise) ==
    IF key = NoKey THEN Verdict(~o.strict)
    ELSE IF key \in ToSet(Identifiers) \union known THEN "valid"
    ELSE IF key \in NoStrings THEN "crash"
    ELSE IF key \in Reserved THEN "valid"
    ELSE IF ~raise THEN "return"
    ELSE IF key \in Unsplittable THEN "crash"
    ELSE IF key \in Extensions THEN Verdict(o.skip \/ ~o.strictForeign)
    ELSE Verdict(~o.strict)

\* A key that is no field of the record: "return" ends a quiet validation at once.
KeyOutcome(o, key, known, raise) ==
    IF key = NoKey THEN Verdict(~o.strict)
    ELSE IF key \in ToSet(Identifiers) \union known THEN "valid"
    ELSE IF key \in NoStrings THEN "crash"
    ELSE IF key \in Reserved THEN "valid"
    ELSE IF o.strict /\ o.strictForeign /\ ~o.skip /\ ~raise THEN "return"
    ELSE IF key \in Unsplittable THEN "crash"
    ELSE IF key \in Extensions THEN Verdict(o.skip \/ ~o.strictForeign)
    ELSE Verdict(~o.strict)

\* (Mutant.) A record does not say that its class matched.
RecordOutcomePlain(t, fields, keys, raise) ==
    LET all  == ToSet(fields) \union ToSet(keys)
        ends == FirstOf(keys, {"return", "crash"}, "valid")
    IN  IF ~raise /\ FirstBad(fields) # "valid" THEN FirstBad(fields)
        ELSE IF ~raise /\ ends # "valid" THEN (IF ends = "return" THEN "invalid" ELSE "crash")
        ELSE IF "crash" \in all THEN "crash"
        ELSE Verdict(all \subseteq {"valid"})

\* What the fields and the other keys of a record come to.  Loudly, all faults are
\* collected, and raised under the class of the record if it has one.
RecordOutcome(t, fields, keys, raise) ==
    LET all  == ToSet(fields) \union ToSet(keys)
        ends == FirstOf(keys, {"return", "crash"}, "valid")
    IN  IF ~raise /\ FirstBad(fields) # "valid" THEN FirstBad(fields)
        ELSE IF ~raise /\ ends # "valid" THEN (IF ends = "return" THEN "invalid" ELSE "crash")
        ELSE IF "crash" \in all THEN "crash"
        ELSE IF all \subseteq {"valid"} THEN "valid"
        ELSE IF raise /\ HasClass(t) THEN "class" ELSE "invalid"

\* A union that no member accepted: the first class that matched, or all that is wrong.
UnionExplained(outcomes) == FirstOf(outcomes, {"class", "crash"}, "invalid")

\* The extension fields that are known within a union: foreign_properties is not passed on.
KnownInUnion(known) == {}

\* raise_ex.
Quiet == FALSE
Loud  == TRUE

\* The arguments that vary from call to call.
Calls(s) == [type : DOMAIN s.types, d : Data, known : SUBSET Extensions, raise : BOOLEAN]
Call(type, d, known, raise) == [type |-> type, d |-> d, known |-> known, raise |-> raise]

\* What validate_ex gets from itself for the parts of a call: validate is what it calls.
Part(validate, type, v, c) == validate[Call(type, v, c.known, c.raise)]

\* The items of a list, the values of a map.
PartOutcomes(s, validate, c) ==
    LET t == TypeOf(s, c.type)
    IN  IF t.type = "array" THEN [i \in DOMAIN c.d.s |-> Part(validate, t.of, c.d.s[i], c)]
        ELSE [i \in DOMAIN c.d.m |-> Part(validate, t.of, c.d.m[i][2], c)]

\* The members of a union, tried quietly and then, the plausible ones, loudly.
Members(s, c) == TypeOf(s, c.type).members
MembersQuietly(s, validate, c) ==
    [i \in DOMAIN Members(s, c) |->
        validate[Call(Members(s, c)[i], c.d, KnownInUnion(c.known), Quiet)]]
MembersLoudly(s, validate, c) ==
    [i \in DOMAIN Members(s, c) |->
        IF Skipped(TypeOf(s, Members(s, c)[i]), c.d) THEN "invalid"
        ELSE validate[Call(Members(s, c)[i], c.d, c.known, Loud)]]

\* The fields of a record but its class, and the keys of the map that are no fields.
FieldOutcomes(s, validate, c) ==
    LET t == TypeOf(s, c.type)
    IN  [i \in DOMAIN t.fields |->
            IF t.fields[i].name = "class" THEN "valid"
            ELSE Part(validate, t.fields[i].type, FieldValue(t.fields[i], c.d), c)]
IsField(t, key) == \E i \in DOMAIN t.fields : t.fields[i].name = key
KeyOutcomes(t, o, c) ==
    [i \in DOMAIN c.d.m |->
        IF IsField(t, c.d.m[i][1]) THEN "valid" ELSE KeyOutcome(o, c.d.m[i][1], c.known, c.raise)]

PartsBy(s, validate, c) ==
    IF c.d.k # (IF TypeOf(s, c.type).type = "array" THEN "list" ELSE "map") THEN "invalid"
    ELSE Wrapped(FirstBad(PartOutcomes(s, validate, c)))

UnionBy(s, validate, c) ==
    LET decided == FirstOf(MembersQuietly(s, validate, c), Outcomes \ {"invalid"}, "invalid")
    IN  IF decided # "invalid" \/ ~c.raise THEN decided
        ELSE UnionExplained(MembersLoudly(s, validate, c))

RecordBy(s, o, validate, c) ==
    LET t == TypeOf(s, c.type)
    IN  IF c.d.k # "map" THEN "invalid"
        ELSE IF ClassOutcome(t, c.d) # "valid" THEN ClassOutcome(t, c.d)
        ELSE RecordOutcome(t, FieldOutcomes(s, validate, c), KeyOutcomes(t, o, c), c.raise)

ValidateBy(s, o, validate, c) ==
    LET t == TypeOf(s, c.type)
    IN  CASE t.type \in ScalarTypes -> Verdict(Scalar(t, c.d))
          [] t.type \in {"array", "map"} -> PartsBy(s, validate, c)
          [] t.type = "union"  -> UnionBy(s, validate, c)
          [] t.type = "record" -> RecordBy(s, o, validate, c)

ValidateEx(s, o) ==
    LET validate[c \in Calls(s)] == ValidateBy(s, o, validate, c)
    IN  validate

----------------------------------------------------------------------------
(* validate_doc *)

Init ==
    /\ schema \in Schemas
    /\ options \in [strict : BOOLEAN, strictForeign : BOOLEAN, skip : BOOLEAN]
    /\ doc \in Documents
    /\ foreign \in SUBSET Extensions
    /\ phase = "resolved"
    /\ pos = 0
    /\ faulty = <<>>

input == <<schema, options, doc, foreign>>

\* validate_doc wants a root, and a document that is a map or a list.
Begin ==
    /\ phase = "resolved"
    /\ phase' = IF schema.roots = <<>> \/ doc.k \notin {"list", "map"} THEN "refused" ELSE "checking"
    /\ pos' = 1
    /\ UNCHANGED <<input, faulty>>

Items == IF doc.k = "list" THEN doc.s ELSE <<doc>>
Item  == Items[pos]

\* The item in hand against each of the roots.
Tried(raise) ==
    [i \in DOMAIN schema.roots |->
        ValidateEx(schema, options)[Call(schema.roots[i], Item, foreign, raise)]]

\* A loop over the roots, quiet: the first that accepts the item, or crashes on it.
Quietly == FirstOf(Tried(Quiet), {"valid", "crash"}, "invalid")

Accept ==
    /\ phase = "checking" /\ pos \in DOMAIN Items
    /\ Quietly = "valid"
    /\ pos' = pos + 1
    /\ UNCHANGED <<input, phase, faulty>>

Loudly == Tried(Loud)

\* "if ident in item": the test fails on what has no items, and item[ident] on what is no map.
Nameable ==
    \/ Identifiers = <<>> \/ Item.k = "map"
    \/ Item.k = "list" /\ \A i \in DOMAIN Item.s : Item.s[i] \notin {Str(x) : x \in ToSet(Identifiers)}
    \/ Item.k = "str" /\ Item.v \notin ToSet(Identifiers)

\* A second loop, loud: a root whose class matched is the only one reported.
Refuse ==
    /\ phase = "checking" /\ pos \in DOMAIN Items
    /\ Quietly = "invalid"
    /\ LET ends == {i \in DOMAIN Loudly : Loudly[i] \in {"class", "crash"}}
           bad  == {i \in DOMAIN Loudly : Loudly[i] = "invalid"}
       IN  IF (ends # {} /\ Loudly[Min(ends)] = "crash") \/ ~Nameable
           THEN phase' = "crashed" /\ UNCHANGED <<pos, faulty>>
           ELSE /\ faulty' = Append(faulty, [pos |-> pos, roots |-> IF ends # {} THEN {Min(ends)} ELSE bad])
                /\ pos' = pos + 1
                /\ UNCHANGED phase
    /\ UNCHANGED input

Crash ==
    /\ phase = "checking" /\ pos \in DOMAIN Items
    /\ Quietly = "crash"
    /\ phase' = "crashed"
    /\ UNCHANGED <<input, pos, faulty>>

Finish ==
    /\ phase = "checking" /\ pos \notin DOMAIN Items
    /\ phase' = IF faulty = <<>> THEN "accepted" ELSE "refused"
    /\ UNCHANGED <<input, pos, faulty>>

Next == Begin \/ Accept \/ Refuse \/ Crash \/ Finish

Spec == Init /\ [][Next]_vars

----------------------------------------------------------------------------
(* What validation promises *)

Kinds == [null |-> {"none"}, boolean |-> {"bool"}, string |-> {"str"},
          int |-> {"bool", "int"}, long |-> {"bool", "int"},
          float |-> {"bool", "int", "float"}, double |-> {"bool", "int", "float"},
          any |-> {"bool", "int", "float", "str", "list", "map"},
          expression |-> {"str"}, enum |-> {"str"}]

Within(d, bits) == d.k = "int" => -(2 ^ (bits - 1)) <= d.n /\ d.n < 2 ^ (bits - 1)

\* A key that a record may have, when the extension fields in known are described.
Allowed(o, key, t, known) ==
    \/ IsField(t, key)
    \/ key \in ToSet(Identifiers) \union known \union Reserved
    \/ key \in Extensions /\ (o.skip \/ ~o.strictForeign)
    \/ key \notin Extensions /\ ~o.strict

Questions(s) == [type : DOMAIN s.types, d : Data, known : SUBSET Extensions]
Question(type, d, known) == [type |-> type, d |-> d, known |-> known]

\* What the schema means: no modes, no order, no exceptions.  conforms is the meaning of parts.
Means(conforms, type, v, q) == conforms[Question(type, v, q.known)]

ScalarConforms(t, d) ==
    /\ d.k \in Kinds[t.type]
    /\ t.type = "int" => Within(d, IntBits)
    /\ t.type = "long" => Within(d, LongBits)
    /\ t.type = "expression" => d.v \in Expressions
    /\ t.type = "enum" => d.v \in t.symbols

UnionConforms(t, conforms, q) == \E i \in DOMAIN t.members : Means(conforms, t.members[i], q.d, q)

ListConforms(t, conforms, q) ==
    q.d.k = "list" /\ \A i \in DOMAIN q.d.s : Means(conforms, t.of, q.d.s[i], q)
MapConforms(t, conforms, q) ==
    q.d.k = "map" /\ \A i \in DOMAIN q.d.m : Means(conforms, t.of, q.d.m[i][2], q)

\* The class of a record is its name, or stands for it.
ClassIs(t, d) ==
    \E c \in DOMAIN Vocab \union DOMAIN Prefixed \union {t.name} :
        "class" \in Keys(d) /\ Get(d, "class") = Str(c) /\ t.name \in ClassNames(c)

RecordConforms(t, o, conforms, q) ==
    /\ q.d.k = "map"
    /\ \A key \in Keys(q.d) : Allowed(o, key, t, q.known)
    /\ \A i \in DOMAIN t.fields :
          IF t.fields[i].name = "class" THEN ClassIs(t, q.d)
          ELSE Means(conforms, t.fields[i].type, FieldValue(t.fields[i], q.d), q)

ConformsBy(s, o, conforms, q) ==
    LET t == TypeOf(s, q.type)
    IN  CASE t.type \in ScalarTypes -> ScalarConforms(t, q.d)
          [] t.type = "array"  -> ListConforms(t, conforms, q)
          [] t.type = "map"    -> MapConforms(t, conforms, q)
          [] t.type = "union"  -> UnionConforms(t, conforms, q)
          [] t.type = "record" -> RecordConforms(t, o, conforms, q)

Conforms(s, o) ==
    LET conforms[q \in Questions(s)] == ConformsBy(s, o, conforms, q)
    IN  conforms

ConformsTo(r, d) == Conforms(schema, options)[Question(r, d, foreign)]

Conformant == \A i \in DOMAIN Items : \E r \in ToSet(schema.roots) : ConformsTo(r, Items[i])

\* The keys of all maps in a datum, and of those that some union of the schema may be tried on.
AllKeys[d \in Data] ==
    CASE d.k = "list" -> UNION {AllKeys[d.s[i]] : i \in DOMAIN d.s}
      [] d.k = "map"  -> Keys(d) \union UNION {AllKeys[d.m[i][2]] : i \in DOMAIN d.m}
      [] OTHER        -> {}
Inner(d) ==
    IF d.k = "map" THEN UNION {AllKeys[d.m[i][2]] : i \in DOMAIN d.m} ELSE AllKeys[d]
OnTopOnly == \A i \in DOMAIN Items : Inner(Items[i]) \intersect foreign = {}

Judged == phase \in {"accepted", "refused"} /\ schema.roots # <<>> /\ doc.k \in {"list", "map"}

\* validate_doc accepts the documents each of whose items conforms to a root, whatever the
\* order of roots, members, fields and keys and whichever mode decides, provided that no
\* described extension field is within a union.
VerdictIsConformance ==
    Judged /\ OnTopOnly => (phase = "accepted" <=> Conformant)

\* What the quiet validate_ex refuses, the loud one explains: validate_doc reports for
\* every refused item a root, and only roots that the item does not conform to.
RefusalExplained ==
    OnTopOnly =>
        \A e \in ToSet(faulty) :
            e.roots # {} /\ \A r \in e.roots : ~ConformsTo(schema.roots[r], Items[e.pos])

\* The roots whose class an item has.
Matches(t, d) ==
    t.type = "record" /\ HasClass(t) /\ "class" \in Keys(d) /\ Get(d, "class").k = "str"
        /\ t.name \in ClassNames(Get(d, "class").v)
Named(d) ==
    {r \in DOMAIN schema.roots : d.k = "map" /\ Matches(TypeOf(schema, schema.roots[r]), d)}

\* An item that has the class of a root is not blamed for failing to be something else, whatever
\* is wrong with it, in whatever order the roots are: ClassValidationException ends the explanation.
ClassDecides ==
    OnTopOnly =>
        \A e \in ToSet(faulty) :
            Named(Items[e.pos]) # {} => e.roots \subseteq Named(Items[e.pos]) /\ Cardinality(e.roots) = 1

\* Anything else than a ValidationException has a reason in the document: a class or a key
\* that is no string, a key that is no URL, or an item that is no map.
Odd[d \in Data] ==
    CASE d.k = "list" -> \E i \in DOMAIN d.s : Odd[d.s[i]]
      [] d.k = "map"  -> \/ Keys(d) \intersect OddKeys # {}
                         \/ "class" \in Keys(d) /\ Get(d, "class").k # "str"
                         \/ \E i \in DOMAIN d.m : Odd[d.m[i][2]]
      [] OTHER        -> FALSE
CrashJustified == phase = "crashed" => Odd[doc] \/ Item.k # "map"
=============================================================================
