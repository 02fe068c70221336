--------------------------- MODULE ValidateProofs ---------------------------
(***************************************************************************)
(* Proofs about validation, for every schema and every datum: validate_doc *)
(* accepts what conforms, explains what it refuses, reports the class that *)
(* matched, and crashes only on odd data.                                  *)
(*                                                                         *)
(* validate_ex recurses over the data and the unions of the schema.  The   *)
(* recursive functions that model it and its meaning are shown to exist,   *)
(* by well-founded recursion, and to agree, by induction over the calls.   *)
(***************************************************************************)
EXTENDS Validate, FiniteSetTheorems, WellFoundedInduction, TLAPS

----------------------------------------------------------------------------
(* Well-founded recursion *)

\* A set of natural numbers that is not empty has a least member.
LEMMA Least ==
    ASSUME NEW T \in SUBSET Nat, T # {}
    PROVE  \E n \in T : \A m \in T : n <= m
<1>1. PICK n \in T : \A m \in T : <<m, n>> \notin OpToRel(<, Nat)
  BY NatLessThanWellFounded, WFMin
<1>2. \A m \in T : ~(m < n)
  BY <1>1 DEF OpToRel
<1> QED  BY <1>2

\* The order of S by two numbers, the first of which weighs more.
ByRank(a, b, x, y) == a[x] < a[y] \/ (a[x] = a[y] /\ b[x] < b[y])
Ranked(a, b, S) == {p \in S \X S : ByRank(a, b, p[1], p[2])}

LEMMA RankedWF ==
    ASSUME NEW S, NEW a \in [S -> Nat], NEW b \in [S -> Nat]
    PROVE  IsWellFoundedOn(Ranked(a, b, S), S)
<1>1. ASSUME NEW D \in SUBSET S, D # {}
      PROVE  \E x \in D : \A y \in D : ~(<<y, x>> \in Ranked(a, b, S))
  <2>1. PICK n \in {a[x] : x \in D} : \A m \in {a[x] : x \in D} : n <= m
    <3> {a[x] : x \in D} \in SUBSET Nat /\ {a[x] : x \in D} # {}
      BY <1>1
    <3> HIDE <1>1
    <3> QED  BY Least
  <2> DEFINE E == {x \in D : a[x] = n}
  <2>2. PICK k \in {b[x] : x \in E} : \A m \in {b[x] : x \in E} : k <= m
    <3> {b[x] : x \in E} \in SUBSET Nat /\ {b[x] : x \in E} # {}
      BY <2>1
    <3> HIDE DEF E
    <3> QED  BY Least
  <2>3. PICK x \in D : a[x] = n /\ b[x] = k
    BY <2>2
  <2>4. \A y \in D : n <= a[y] /\ (a[y] = n => k <= b[y])
    BY <2>1, <2>2
  <2>5. \A y \in D : a[y] \in Nat /\ b[y] \in Nat
    OBVIOUS
  <2> QED  BY <2>3, <2>4, <2>5 DEF Ranked, ByRank
<1> HIDE DEF Ranked
<1> QED  BY <1>1, MinWF

\* F tells the value of a function from S to T at x by its values at the members of S below x.
Told(F, R, S, T) ==
    \A g, h \in [S -> T], x \in S :
        (\A y \in S : <<y, x>> \in R => g[y] = h[y]) => F[<<g, x>>] = F[<<h, x>>]

\* f is that function.
Solves(f, F, S) == \A x \in S : f[x] = F[<<f, x>>]
Solvable(F, S, T) == \E f \in [S -> T] : Solves(f, F, S)

\* There is one.
LEMMA Recursion ==
    ASSUME NEW S, NEW T, NEW R, IsWellFoundedOn(R, S), T # {},
           NEW F \in [[S -> T] \X S -> T], Told(F, R, S, T)
    PROVE  Solvable(F, S, T)
<1> USE DEF Told
<1> DEFINE Closed(A) == \A x \in A, y \in S : <<y, x>> \in R => y \in A
           Follows(g, A) == \A x \in A : g[x] = F[<<g, x>>]
           Known(x) == {p \in [S -> T] \X SUBSET S : x \in p[2] /\ Closed(p[2]) /\ Follows(p[1], p[2])}
           U == {x \in S : Known(x) # {}}
           t0 == CHOOSE t \in T : TRUE
           f == [x \in S |-> IF x \in U THEN (CHOOSE p \in Known(x) : TRUE)[1][x] ELSE t0]
<1>1. ASSUME NEW g \in [S -> T], NEW h \in [S -> T], NEW A \in SUBSET S, NEW B \in SUBSET S,
             Closed(A), Closed(B), Follows(g, A), Follows(h, B)
      PROVE  \A x \in A \intersect B : g[x] = h[x]
  <2> DEFINE D == {x \in A \intersect B : g[x] # h[x]}
  <2> SUFFICES ASSUME D # {} PROVE FALSE
    OBVIOUS
  <2>1. D \subseteq S
    OBVIOUS
  <2> HIDE DEF D
  <2>2. PICK x \in D : \A y \in D : <<y, x>> \notin R
    BY <2>1, WFMin
  <2> USE DEF D
  <2>3. \A y \in S : <<y, x>> \in R => g[y] = h[y]
    BY <1>1, <2>2
  <2>4. F[<<g, x>>] = F[<<h, x>>]
    BY <2>3
  <2> QED  BY <1>1, <2>4
<1>2. t0 \in T
  OBVIOUS
<1>3. \A x \in U : (CHOOSE p \in Known(x) : TRUE) \in Known(x)
  OBVIOUS
<1>4. f \in [S -> T]
  BY <1>2, <1>3
<1>5. ASSUME NEW x \in S, NEW p \in Known(x)
      PROVE  x \in U /\ f[x] = p[1][x]
  <2> DEFINE q == CHOOSE r \in Known(x) : TRUE
  <2>1. x \in U /\ q \in Known(x) /\ f[x] = q[1][x]
    BY <1>3
  <2>2. /\ p[1] \in [S -> T] /\ p[2] \in SUBSET S /\ x \in p[2] /\ Closed(p[2]) /\ Follows(p[1], p[2])
        /\ q[1] \in [S -> T] /\ q[2] \in SUBSET S /\ x \in q[2] /\ Closed(q[2]) /\ Follows(q[1], q[2])
    BY <2>1
  <2> HIDE DEF q, Closed, Follows, f
  <2>3. p[1][x] = q[1][x]
    BY <1>1, <2>2
  <2> QED  BY <2>1, <2>3
<1>6. ASSUME NEW x \in U
      PROVE  /\ \A y \in S : <<y, x>> \in R => y \in U
             /\ f[x] = F[<<f, x>>]
  <2>1. PICK p \in Known(x) : TRUE
    OBVIOUS
  <2>2. /\ p[1] \in [S -> T] /\ p[2] \in SUBSET S /\ x \in p[2]
        /\ Closed(p[2]) /\ Follows(p[1], p[2])
    OBVIOUS
  <2>3. \A y \in p[2] : p \in Known(y)
    OBVIOUS
  <2>4. \A y \in p[2] : y \in U /\ f[y] = p[1][y]
    <3> HIDE DEF Known, U, f
    <3> QED  BY <1>5, <2>2, <2>3
  <2>5. \A y \in S : <<y, x>> \in R => y \in p[2]
    BY <2>2
  <2> HIDE DEF f, U, Known
  <2>6. F[<<p[1], x>>] = F[<<f, x>>]
    BY <1>4, <2>2, <2>4, <2>5
  <2> QED  BY <2>2, <2>4, <2>5, <2>6
<1>7. U = S
  <2> SUFFICES ASSUME S \ U # {} PROVE FALSE
    OBVIOUS
  <2> HIDE DEF U
  <2>1. PICK x \in S \ U : \A y \in S \ U : <<y, x>> \notin R
    BY WFMin
  <2> DEFINE h == [f EXCEPT ![x] = F[<<f, x>>]]
             V == U \union {x}
  <2>2. U \subseteq S /\ h \in [S -> T]
    <3>1. U \subseteq S  BY DEF U
    <3> HIDE DEF f
    <3> QED  BY <1>4, <3>1
  <2>3. \A y \in U : h[y] = f[y]
    <3> HIDE DEF f
    <3> QED  BY <1>4, <2>1, <2>2
  <2>4. h[x] = F[<<f, x>>]
    <3> HIDE DEF f
    <3> QED  BY <1>4
  <2>5. Closed(V)
    <3> HIDE DEF f
    <3> QED  BY <1>6, <2>1
  <2>6. \A z \in V, y \in S : <<y, z>> \in R => h[y] = f[y]
    <3> HIDE DEF f, h
    <3> QED  BY <1>6, <2>1, <2>3
  <2>7. \A z \in V : F[<<h, z>>] = F[<<f, z>>]
    <3>1. V \subseteq S
      BY <2>2
    <3> HIDE DEF f, h, V
    <3> QED  BY <1>4, <2>2, <2>6, <3>1
  <2>8. Follows(h, V)
    <3> HIDE DEF f, h
    <3> QED  BY <1>6, <2>3, <2>4, <2>7
  <2>9. <<h, V>> \in Known(x)
    <3> HIDE DEF f, h, Closed, Follows
    <3> QED  BY <2>2, <2>5, <2>8
  <2> QED  BY <2>1, <2>9 DEF U
<1> HIDE DEF f
<1> QED  BY <1>4, <1>6, <1>7 DEF Solvable, Solves

----------------------------------------------------------------------------
(* Data and types *)

LEMMA SeqMembers ==
    ASSUME NEW R, NEW q \in Seq(R)
    PROVE  \A i \in DOMAIN q : i \in Nat /\ q[i] \in R
OBVIOUS

LEMMA DatumFields ==
    ASSUME NEW d \in Data
    PROVE  /\ d.k \in {"none", "float", "bool", "int", "str", "list", "map"}
           /\ d.k = "none" => d = None
           /\ d.k = "bool" => d.b \in BOOLEAN
           /\ d.k = "int"  => d.n \in Int
           /\ d.k = "str"  => d = Str(d.v) /\ d.v \in STRING
           /\ d.k = "list" => d.s \in Seq(Data)
           /\ d.k = "map"  => d.m \in Seq(MapKeys \X Data)
<1>1. d \in Datum
  BY DataAssumption
<1>2. CASE d \in {None, Float}
  BY <1>2 DEF None, Float
<1>3. CASE d \in [k : {"bool"}, b : BOOLEAN]
  BY <1>3
<1>4. CASE d \in [k : {"int"}, n : Int]
  BY <1>4
<1>5. CASE d \in [k : {"str"}, v : STRING]
  BY <1>5 DEF Str
<1>6. CASE d \in [k : {"list"}, s : Seq(Data)]
  BY <1>6
<1>7. CASE d \in [k : {"map"}, m : Seq(MapKeys \X Data)]
  BY <1>7
<1> QED  BY <1>1, <1>2, <1>3, <1>4, <1>5, <1>6, <1>7 DEF Datum

\* The parts of a datum are data.
LEMMA PartsOfDatum ==
    ASSUME NEW d \in Data
    PROVE  /\ d.k = "list" => \A i \in DOMAIN d.s : i \in Nat /\ d.s[i] \in Data
           /\ d.k = "map"  => \A i \in DOMAIN d.m :
                 i \in Nat /\ d.m[i][1] \in MapKeys /\ d.m[i][2] \in Data
<1>1. ASSUME d.k = "list" PROVE \A i \in DOMAIN d.s : i \in Nat /\ d.s[i] \in Data
  <2>1. d.s \in Seq(Data)
    BY <1>1, DatumFields
  <2> QED  BY <2>1
<1>2. ASSUME d.k = "map"
      PROVE  \A i \in DOMAIN d.m : i \in Nat /\ d.m[i][1] \in MapKeys /\ d.m[i][2] \in Data
  <2>1. d.m \in Seq(MapKeys \X Data)
    BY <1>2, DatumFields
  <2>2. \A i \in DOMAIN d.m : i \in Nat /\ d.m[i] \in MapKeys \X Data
    BY <2>1
  <2> QED  BY <2>2
<1> QED  BY <1>1, <1>2

\* The value of a key that is there is one of the values of the map.
LEMMA GetIsPart ==
    ASSUME NEW d, NEW key \in Keys(d)
    PROVE  \E i \in DOMAIN d.m : d.m[i][1] = key /\ Get(d, key) = d.m[i][2]
<1>1. \E i \in DOMAIN d.m : d.m[i][1] = key
  BY DEF Keys
<1> QED  BY <1>1 DEF Get

\* A type is scalar or refers to types.
LEMMA TypesOfSchema ==
    ASSUME NEW s \in Schemas, NEW n \in DOMAIN s.types, NEW t, t = TypeOf(s, n)
    PROVE  /\ t.type \in ScalarTypes \union {"array", "map", "union", "record"}
           /\ t.type \in {"array", "map"} => t.of \in DOMAIN s.types
           /\ t.type = "union" =>
                 \A i \in DOMAIN t.members : i \in Nat /\ t.members[i] \in DOMAIN s.types
           /\ t.type = "record" =>
                 /\ t.name # ""
                 /\ \A i \in DOMAIN t.fields :
                       /\ i \in Nat
                       /\ t.fields[i].name \in STRING
                       /\ t.fields[i].type \in DOMAIN s.types
                       /\ t.fields[i].default \in Data
<1> USE DEF TypeOf
<1>1. \/ t.type \in ScalarTypes
      \/ t.type \in {"array", "map"} /\ t.of \in DOMAIN s.types
      \/ t.type = "union" /\ t.members \in Seq(DOMAIN s.types)
      \/ /\ t.type = "record" /\ t.name # ""
         /\ t.fields \in Seq([name : STRING, type : DOMAIN s.types, default : Data])
  BY SchemaAssumption DEF SchemaOK
<1>2. CASE t.type \in ScalarTypes
  BY <1>2 DEF ScalarTypes
<1>3. CASE t.type \in {"array", "map"} /\ t.of \in DOMAIN s.types
  BY <1>3
<1>4. CASE t.type = "union" /\ t.members \in Seq(DOMAIN s.types)
  BY <1>4
<1>5. CASE /\ t.type = "record" /\ t.name # ""
           /\ t.fields \in Seq([name : STRING, type : DOMAIN s.types, default : Data])
  <2>1. \A i \in DOMAIN t.fields :
           i \in Nat /\ t.fields[i] \in [name : STRING, type : DOMAIN s.types, default : Data]
    BY <1>5, SeqMembers
  <2> QED  BY <1>5, <2>1
<1> QED  BY <1>1, <1>2, <1>3, <1>4, <1>5

LEMMA Modes == Quiet \in BOOLEAN /\ Loud \in BOOLEAN /\ Quiet # Loud
BY DEF Quiet, Loud

\* What is validated for a field is a datum below the map, or a default, which is a scalar.
LEMMA FieldValues ==
    ASSUME NEW s \in Schemas, NEW n \in DOMAIN s.types, TypeOf(s, n).type = "record",
           NEW depth, NEW level, Founded(s, depth, level),
           NEW d \in Data, d.k = "map",
           NEW i \in DOMAIN TypeOf(s, n).fields,
           NEW v, v = FieldValue(TypeOf(s, n).fields[i], d)
    PROVE  /\ v \in Data /\ depth[v] < depth[d]
           /\ v.k \notin {"list", "map"} \/ \E j \in DOMAIN d.m : v = d.m[j][2]
<1> DEFINE f == TypeOf(s, n).fields[i]
<1>1. f.default \in Data /\ f.default.k \notin {"list", "map"} /\ depth[f.default] < depth[d]
  BY TypesOfSchema DEF Founded, TypeOf
<1>2. CASE f.name \in Keys(d)
  <2>1. PICK j \in DOMAIN d.m : v = d.m[j][2]
    BY <1>2, GetIsPart DEF FieldValue
  <2>2. v \in Data
    BY <2>1, PartsOfDatum
  <2>3. depth[v] < depth[d]
    BY <2>1 DEF Founded
  <2> QED  BY <2>1, <2>2, <2>3
<1>3. CASE f.name \notin Keys(d)
  BY <1>1, <1>3 DEF FieldValue
<1> QED  BY <1>2, <1>3

\* What FirstOf finds.
LEMMA FirstOfIs ==
    ASSUME NEW f, DOMAIN f \subseteq Nat, NEW ends, NEW none
    PROVE  \/ FirstOf(f, ends, none) = none /\ \A i \in DOMAIN f : f[i] \notin ends
           \/ \E i \in DOMAIN f : f[i] \in ends /\ FirstOf(f, ends, none) = f[i]
<1> DEFINE at == {i \in DOMAIN f : f[i] \in ends}
<1>1. CASE at = {}
  BY <1>1 DEF FirstOf
<1>2. CASE at # {}
  <2>1. \E n \in at : \A m \in at : n <= m
    <3> at \in SUBSET Nat
      OBVIOUS
    <3> HIDE DEF at
    <3> QED  BY <1>2, Least
  <2>2. Min(at) \in at
    BY <2>1 DEF Min
  <2> QED  BY <1>2, <2>2 DEF FirstOf
<1> QED  BY <1>1, <1>2

----------------------------------------------------------------------------
(* validate_ex is well defined *)

\* A call for part of the datum, or for a member of the union.
Lower(depth, level, x, y) ==
    depth[x.d] < depth[y.d] \/ (x.d = y.d /\ level[x.type] < level[y.type])

\* g and h agree on all that is lower than c.
Agree(s, depth, level, g, h, c) == \A e \in Calls(s) : Lower(depth, level, e, c) => g[e] = h[e]

\* What a call gets for a part is the same if lower calls are.
LEMMA PartCongruent ==
    ASSUME NEW s, NEW depth, NEW level, NEW g, NEW h, NEW c \in Calls(s),
           Agree(s, depth, level, g, h, c),
           NEW type \in DOMAIN s.types, NEW v \in Data, depth[v] < depth[c.d]
    PROVE  Part(g, type, v, c) = Part(h, type, v, c)
<1> DEFINE e == Call(type, v, c.known, c.raise)
<1>1. e \in Calls(s) /\ e.d = v
  BY DEF Calls, Call
<1>2. Lower(depth, level, e, c)
  BY <1>1 DEF Lower
<1> QED  BY <1>1, <1>2 DEF Part, Agree

\* So is what it gets for a member of its union.
LEMMA MemberCongruent ==
    ASSUME NEW s, NEW depth, NEW level, NEW g, NEW h, NEW c \in Calls(s),
           Agree(s, depth, level, g, h, c),
           NEW type \in DOMAIN s.types, level[type] < level[c.type],
           NEW known \in SUBSET Extensions, NEW raise \in BOOLEAN
    PROVE  g[Call(type, c.d, known, raise)] = h[Call(type, c.d, known, raise)]
<1> DEFINE e == Call(type, c.d, known, raise)
<1>1. e \in Calls(s) /\ e.d = c.d /\ e.type = type
  BY DEF Calls, Call
<1>2. Lower(depth, level, e, c)
  BY <1>1 DEF Lower
<1> QED  BY <1>1, <1>2 DEF Agree

\* A call is told by the calls below it.
LEMMA ValidateCongruent ==
    ASSUME NEW s \in Schemas, NEW o, NEW depth, NEW level, Founded(s, depth, level),
           NEW g, NEW h, NEW c \in Calls(s),
           Agree(s, depth, level, g, h, c)
    PROVE  ValidateBy(s, o, g, c) = ValidateBy(s, o, h, c)
<1> DEFINE t == TypeOf(s, c.type)
<1>1. c.type \in DOMAIN s.types /\ c.d \in Data /\ c.known \in SUBSET Extensions /\ c.raise \in BOOLEAN
  BY DEF Calls
<1>2. CASE t.type \in ScalarTypes
  BY <1>2 DEF ValidateBy
<1>3. CASE t.type \in {"array", "map"}
  <2>1. t.of \in DOMAIN s.types
    BY <1>1, <1>3, TypesOfSchema
  <2>2. ASSUME t.type = "array", c.d.k = "list"
        PROVE  PartOutcomes(s, g, c) = PartOutcomes(s, h, c)
    <3>1. \A i \in DOMAIN c.d.s : c.d.s[i] \in Data /\ depth[c.d.s[i]] < depth[c.d]
      BY <1>1, <2>2, PartsOfDatum DEF Founded
    <3>2. \A i \in DOMAIN c.d.s : Part(g, t.of, c.d.s[i], c) = Part(h, t.of, c.d.s[i], c)
      BY <2>1, <3>1, PartCongruent
    <3> QED  BY <2>2, <3>2 DEF PartOutcomes
  <2>3. ASSUME t.type # "array", c.d.k = "map"
        PROVE  PartOutcomes(s, g, c) = PartOutcomes(s, h, c)
    <3>1. \A i \in DOMAIN c.d.m : c.d.m[i][2] \in Data /\ depth[c.d.m[i][2]] < depth[c.d]
      BY <1>1, <2>3, PartsOfDatum DEF Founded
    <3>2. ASSUME NEW i \in DOMAIN c.d.m
          PROVE  Part(g, t.of, c.d.m[i][2], c) = Part(h, t.of, c.d.m[i][2], c)
      <4>1. \A v \in Data : depth[v] < depth[c.d] => Part(g, t.of, v, c) = Part(h, t.of, v, c)
        BY <2>1, PartCongruent
      <4> QED  BY <3>1, <4>1
    <3> QED  BY <2>3, <3>2 DEF PartOutcomes
  <2>4. PartsBy(s, g, c) = PartsBy(s, h, c)
    BY <2>2, <2>3 DEF PartsBy
  <2> QED  BY <1>3, <2>4 DEF ValidateBy, ScalarTypes
<1>4. CASE t.type = "union"
  <2>1. \A i \in DOMAIN Members(s, c) :
           Members(s, c)[i] \in DOMAIN s.types /\ level[Members(s, c)[i]] < level[c.type]
    BY <1>1, <1>4, TypesOfSchema DEF Members, Founded, TypeOf
  <2>2. KnownInUnion(c.known) \in SUBSET Extensions
    BY DEF KnownInUnion
  <2>3. MembersQuietly(s, g, c) = MembersQuietly(s, h, c)
    <3>1. ASSUME NEW i \in DOMAIN Members(s, c)
          PROVE  g[Call(Members(s, c)[i], c.d, KnownInUnion(c.known), Quiet)]
                    = h[Call(Members(s, c)[i], c.d, KnownInUnion(c.known), Quiet)]
      <4>1. \A type \in DOMAIN s.types :
               level[type] < level[c.type] =>
                   g[Call(type, c.d, KnownInUnion(c.known), Quiet)] = h[Call(type, c.d, KnownInUnion(c.known), Quiet)]
        BY <2>2, Modes, MemberCongruent
      <4> QED  BY <2>1, <4>1
    <3> QED  BY <3>1 DEF MembersQuietly
  <2>4. MembersLoudly(s, g, c) = MembersLoudly(s, h, c)
    <3>1. ASSUME NEW i \in DOMAIN Members(s, c)
          PROVE  g[Call(Members(s, c)[i], c.d, c.known, Loud)]
                    = h[Call(Members(s, c)[i], c.d, c.known, Loud)]
      <4>1. \A type \in DOMAIN s.types :
               level[type] < level[c.type] =>
                   g[Call(type, c.d, c.known, Loud)] = h[Call(type, c.d, c.known, Loud)]
        BY <1>1, Modes, MemberCongruent
      <4> QED  BY <2>1, <4>1
    <3> QED  BY <3>1 DEF MembersLoudly
  <2> QED  BY <1>4, <2>3, <2>4 DEF ValidateBy, UnionBy, ScalarTypes
<1>5. CASE t.type = "record"
  <2>1. ASSUME c.d.k = "map" PROVE FieldOutcomes(s, g, c) = FieldOutcomes(s, h, c)
    <3>1. ASSUME NEW i \in DOMAIN t.fields
          PROVE  Part(g, t.fields[i].type, FieldValue(t.fields[i], c.d), c)
                    = Part(h, t.fields[i].type, FieldValue(t.fields[i], c.d), c)
      <4>1. t.fields[i].type \in DOMAIN s.types
        BY <1>1, <1>5, TypesOfSchema
      <4>2. FieldValue(t.fields[i], c.d) \in Data /\ depth[FieldValue(t.fields[i], c.d)] < depth[c.d]
        BY <1>1, <1>5, <2>1, FieldValues
      <4> QED  BY <4>1, <4>2, PartCongruent
    <3> QED  BY <3>1 DEF FieldOutcomes
  <2>2. RecordBy(s, o, g, c) = RecordBy(s, o, h, c)
    BY <2>1 DEF RecordBy
  <2> QED  BY <1>5, <2>2 DEF ValidateBy, ScalarTypes
<1> QED  BY <1>1, <1>2, <1>3, <1>4, <1>5, TypesOfSchema

LEMMA CallFields ==
    ASSUME NEW s, NEW c \in Calls(s)
    PROVE  /\ c.type \in DOMAIN s.types /\ c.d \in Data
           /\ c.known \in SUBSET Extensions /\ c.raise \in BOOLEAN
BY DEF Calls

LEMMA CallTyped ==
    ASSUME NEW s, NEW type \in DOMAIN s.types, NEW d \in Data, NEW known \in SUBSET Extensions,
           NEW raise \in BOOLEAN
    PROVE  Call(type, d, known, raise) \in Calls(s)
BY DEF Calls, Call

\* What a loop over the parts, the members or the fields sees are outcomes.
LEMMA PartsTyped ==
    ASSUME NEW s \in Schemas, NEW g \in [Calls(s) -> Outcomes], NEW c \in Calls(s),
           TypeOf(s, c.type).type \in {"array", "map"},
           c.d.k = IF TypeOf(s, c.type).type = "array" THEN "list" ELSE "map"
    PROVE  /\ DOMAIN PartOutcomes(s, g, c) \subseteq Nat
           /\ \A i \in DOMAIN PartOutcomes(s, g, c) : PartOutcomes(s, g, c)[i] \in Outcomes
<1> DEFINE t == TypeOf(s, c.type)
<1>1. t.of \in DOMAIN s.types /\ c.d \in Data /\ c.known \in SUBSET Extensions /\ c.raise \in BOOLEAN
  BY CallFields, TypesOfSchema
<1>2. \A v \in Data : Part(g, t.of, v, c) \in Outcomes
  BY <1>1, CallTyped DEF Part
<1>3. CASE t.type = "array"
  BY <1>1, <1>2, <1>3, PartsOfDatum DEF PartOutcomes
<1>4. CASE t.type = "map"
  <2>1. PartOutcomes(s, g, c) = [i \in DOMAIN c.d.m |-> Part(g, t.of, c.d.m[i][2], c)]
    BY <1>4 DEF PartOutcomes
  <2>2. \A i \in DOMAIN c.d.m : i \in Nat /\ c.d.m[i][2] \in Data
    BY <1>1, <1>4, PartsOfDatum
  <2> QED  BY <1>2, <2>1, <2>2
<1> QED  BY <1>3, <1>4

LEMMA MembersTyped ==
    ASSUME NEW s \in Schemas, NEW g \in [Calls(s) -> Outcomes], NEW c \in Calls(s),
           TypeOf(s, c.type).type = "union"
    PROVE  /\ DOMAIN Members(s, c) \subseteq Nat
           /\ DOMAIN MembersQuietly(s, g, c) = DOMAIN Members(s, c)
           /\ DOMAIN MembersLoudly(s, g, c) = DOMAIN Members(s, c)
           /\ \A i \in DOMAIN Members(s, c) :
                 /\ MembersQuietly(s, g, c)[i] \in Outcomes
                 /\ MembersLoudly(s, g, c)[i] \in Outcomes
<1>1. c.d \in Data /\ c.known \in SUBSET Extensions /\ c.type \in DOMAIN s.types
  BY CallFields
<1>2. \A i \in DOMAIN Members(s, c) : i \in Nat /\ Members(s, c)[i] \in DOMAIN s.types
  BY <1>1, TypesOfSchema DEF Members
<1>3. \A known \in SUBSET Extensions, type \in DOMAIN s.types, raise \in BOOLEAN :
         g[Call(type, c.d, known, raise)] \in Outcomes
  BY <1>1, CallTyped
<1>4. KnownInUnion(c.known) \in SUBSET Extensions
  BY DEF KnownInUnion
<1>5. \A type \in DOMAIN s.types :
         /\ g[Call(type, c.d, KnownInUnion(c.known), Quiet)] \in Outcomes
         /\ g[Call(type, c.d, c.known, Loud)] \in Outcomes
  BY <1>1, <1>3, <1>4, Modes
<1>6. "invalid" \in Outcomes
  BY DEF Outcomes
<1> QED  BY <1>2, <1>5, <1>6 DEF MembersQuietly, MembersLoudly

LEMMA FieldsTyped ==
    ASSUME NEW s \in Schemas, NEW depth, NEW level, Founded(s, depth, level),
           NEW g \in [Calls(s) -> Outcomes], NEW c \in Calls(s),
           TypeOf(s, c.type).type = "record", c.d.k = "map"
    PROVE  /\ DOMAIN FieldOutcomes(s, g, c) = DOMAIN TypeOf(s, c.type).fields
           /\ DOMAIN TypeOf(s, c.type).fields \subseteq Nat
           /\ \A i \in DOMAIN TypeOf(s, c.type).fields : FieldOutcomes(s, g, c)[i] \in Outcomes
<1> DEFINE t == TypeOf(s, c.type)
<1>1. c.type \in DOMAIN s.types /\ c.d \in Data /\ c.known \in SUBSET Extensions /\ c.raise \in BOOLEAN
  BY CallFields
<1>2. \A i \in DOMAIN t.fields : i \in Nat /\ t.fields[i].type \in DOMAIN s.types
  BY <1>1, TypesOfSchema
<1>3. \A i \in DOMAIN t.fields : FieldValue(t.fields[i], c.d) \in Data
  BY <1>1, FieldValues
<1>4. \A i \in DOMAIN t.fields : Part(g, t.fields[i].type, FieldValue(t.fields[i], c.d), c) \in Outcomes
  BY <1>1, <1>2, <1>3, CallTyped DEF Part
<1>5. "valid" \in Outcomes
  BY DEF Outcomes
<1> QED  BY <1>2, <1>4, <1>5 DEF FieldOutcomes

LEMMA FirstBadIs ==
    ASSUME NEW f, DOMAIN f \subseteq Nat, \A i \in DOMAIN f : f[i] \in Outcomes
    PROVE  \/ FirstBad(f) = "valid" /\ \A i \in DOMAIN f : f[i] = "valid"
           \/ \E i \in DOMAIN f : f[i] # "valid" /\ FirstBad(f) = f[i]
BY FirstOfIs DEF FirstBad

\* validate_ex has an outcome if the calls that it makes have one.
LEMMA ValidateTyped ==
    ASSUME NEW s \in Schemas, NEW o, NEW depth, NEW level, Founded(s, depth, level),
           NEW g \in [Calls(s) -> Outcomes], NEW c \in Calls(s)
    PROVE  ValidateBy(s, o, g, c) \in Outcomes
<1> DEFINE t == TypeOf(s, c.type)
<1>1. c.type \in DOMAIN s.types
  BY CallFields
<1>3. CASE t.type \in ScalarTypes
  BY <1>3 DEF ValidateBy, ScalarTypes, Verdict, Outcomes
<1>4. CASE t.type \in {"array", "map"}
  <2>1. PartsBy(s, g, c) \in Outcomes
    <3>1. CASE c.d.k = IF t.type = "array" THEN "list" ELSE "map"
      <4>1. FirstBad(PartOutcomes(s, g, c)) \in Outcomes
        BY <1>4, <3>1, PartsTyped, FirstBadIs DEF Outcomes
      <4> QED  BY <3>1, <4>1 DEF PartsBy, Wrapped, Outcomes
    <3>2. CASE c.d.k # IF t.type = "array" THEN "list" ELSE "map"
      BY <3>2 DEF PartsBy, Outcomes
    <3> QED  BY <3>1, <3>2
  <2> QED  BY <1>4, <2>1 DEF ValidateBy, ScalarTypes
<1>5. CASE t.type = "union"
  <2>1. FirstOf(MembersQuietly(s, g, c), Outcomes \ {"invalid"}, "invalid") \in Outcomes
    BY <1>5, MembersTyped, FirstOfIs DEF Outcomes
  <2>2. UnionExplained(MembersLoudly(s, g, c)) \in Outcomes
    BY <1>5, MembersTyped, FirstOfIs DEF UnionExplained, Outcomes
  <2> QED  BY <1>5, <2>1, <2>2 DEF ValidateBy, UnionBy, ScalarTypes
<1>6. CASE t.type = "record"
  <2>1. ClassOutcome(t, c.d) \in Outcomes
    BY DEF ClassOutcome, Verdict, Outcomes
  <2>2. ASSUME c.d.k = "map"
        PROVE  RecordOutcome(t, FieldOutcomes(s, g, c), KeyOutcomes(t, o, c), c.raise) \in Outcomes
    <3>1. FirstBad(FieldOutcomes(s, g, c)) \in Outcomes
      BY <1>6, <2>2, FieldsTyped, FirstBadIs DEF Outcomes
    <3> QED  BY <3>1 DEF RecordOutcome, Outcomes
  <2>3. RecordBy(s, o, g, c) \in Outcomes
    BY <2>1, <2>2 DEF RecordBy, Outcomes
  <2> QED  BY <1>6, <2>3 DEF ValidateBy, ScalarTypes
<1> QED  BY <1>1, <1>3, <1>4, <1>5, <1>6, TypesOfSchema

\* The recursive function that models validate_ex is defined: each call is told by those it makes.
LEMMA ValidateIs ==
    ASSUME NEW s \in Schemas, NEW o, NEW depth, NEW level, Founded(s, depth, level)
    PROVE  /\ ValidateEx(s, o) \in [Calls(s) -> Outcomes]
           /\ \A c \in Calls(s) : ValidateEx(s, o)[c] = ValidateBy(s, o, ValidateEx(s, o), c)
<1> DEFINE S == Calls(s)
           a == [c \in S |-> depth[c.d]]
           b == [c \in S |-> level[c.type]]
           R == Ranked(a, b, S)
           F == [p \in [S -> Outcomes] \X S |-> ValidateBy(s, o, p[1], p[2])]
           V == ValidateEx(s, o)
<1>1. a \in [S -> Nat] /\ b \in [S -> Nat]
  BY CallFields DEF Founded
<1>2. IsWellFoundedOn(R, S)
  <2> HIDE DEF a, b, S
  <2> QED  BY <1>1, RankedWF
<1>3. F \in [[S -> Outcomes] \X S -> Outcomes]
  BY ValidateTyped
<1>4. \A x, y \in S : Lower(depth, level, x, y) => <<x, y>> \in R
  BY DEF Lower, Ranked, ByRank
<1>5. ASSUME NEW g, NEW h, NEW x \in S, \A y \in S : <<y, x>> \in R => g[y] = h[y]
      PROVE  ValidateBy(s, o, g, x) = ValidateBy(s, o, h, x)
  <2>1. Agree(s, depth, level, g, h, x)
    <3> HIDE DEF R
    <3> QED  BY <1>4, <1>5 DEF Agree
  <2> QED  BY <2>1, ValidateCongruent
<1>6. Told(F, R, S, Outcomes)
  <2> HIDE DEF R
  <2> QED  BY <1>5 DEF Told
<1>7. Solvable(F, S, Outcomes)
  <2>1. Outcomes # {}
    BY DEF Outcomes
  <2> HIDE DEF R, S, F
  <2> QED  BY <1>2, <1>3, <1>6, <2>1, Recursion
<1>8. PICK f \in [S -> Outcomes] : \A x \in S : f[x] = ValidateBy(s, o, f, x)
  BY <1>7 DEF Solvable, Solves
<1>9. f = [x \in S |-> ValidateBy(s, o, f, x)]
  BY <1>8
<1>10. V = [x \in S |-> ValidateBy(s, o, V, x)]
  BY <1>9 DEF ValidateEx
<1>11. \A x \in S : V[x] = f[x]
  <2> DEFINE D == {x \in S : V[x] # f[x]}
  <2> SUFFICES ASSUME D # {} PROVE FALSE
    OBVIOUS
  <2>1. D \subseteq S
    OBVIOUS
  <2>2. PICK x \in D : \A y \in D : <<y, x>> \notin R
    <3> HIDE DEF R, S, D
    <3> QED  BY <1>2, <2>1, WFMin
  <2>3. \A y \in S : <<y, x>> \in R => V[y] = f[y]
    BY <2>2
  <2>4. ValidateBy(s, o, V, x) = ValidateBy(s, o, f, x)
    <3> HIDE DEF R, V
    <3> QED  BY <1>5, <2>3
  <2> HIDE DEF V
  <2> QED  BY <1>8, <1>10, <2>4
<1> HIDE DEF V, S
<1> QED  BY <1>8, <1>10, <1>11 DEF V, S

----------------------------------------------------------------------------
(* So are what a schema means, the keys of a datum, and what is odd about it *)

LEMMA QuestionFields ==
    ASSUME NEW s, NEW q \in Questions(s)
    PROVE  q.type \in DOMAIN s.types /\ q.d \in Data /\ q.known \in SUBSET Extensions
BY DEF Questions

LEMMA QuestionTyped ==
    ASSUME NEW s, NEW type \in DOMAIN s.types, NEW d \in Data, NEW known \in SUBSET Extensions
    PROVE  Question(type, d, known) \in Questions(s)
BY DEF Questions, Question

\* g with the known keys of q, and h with those of p, agree on the data of V below q.
Alike(s, V, depth, level, g, h, q, p) ==
    \A type \in DOMAIN s.types, v \in V :
        Lower(depth, level, Question(type, v, q.known), q)
            => Means(g, type, v, q) = Means(h, type, v, p)

LEMMA ConformsCongruent ==
    ASSUME NEW s \in Schemas, NEW o, NEW depth, NEW level, Founded(s, depth, level),
           NEW q \in Questions(s), NEW p \in Questions(s), q.type = p.type, q.d = p.d,
           \A key \in Keys(q.d) : q.d.k = "map" => (key \in q.known <=> key \in p.known),
           NEW V \in SUBSET Data, q.d \in V,
           \A v \in Data : v.k \notin {"list", "map"} => v \in V,
           q.d.k = "list" => \A i \in DOMAIN q.d.s : q.d.s[i] \in V,
           q.d.k = "map" => \A i \in DOMAIN q.d.m : q.d.m[i][2] \in V,
           NEW g, NEW h, Alike(s, V, depth, level, g, h, q, p)
    PROVE  ConformsBy(s, o, g, q) = ConformsBy(s, o, h, p)
<1> DEFINE t == TypeOf(s, q.type)
<1>1. q.type \in DOMAIN s.types /\ q.d \in Data
  BY QuestionFields
<1>2. ASSUME NEW type \in DOMAIN s.types, NEW v \in V, depth[v] < depth[q.d]
      PROVE  Means(g, type, v, q) = Means(h, type, v, p)
  BY <1>2 DEF Alike, Lower, Question
<1>3. CASE t.type \in ScalarTypes
  BY <1>3 DEF ConformsBy, ScalarTypes
<1>4. CASE t.type = "array"
  <2>1. t.of \in DOMAIN s.types
    BY <1>1, <1>4, TypesOfSchema
  <2>2. q.d.k = "list" => \A i \in DOMAIN q.d.s : Means(g, t.of, q.d.s[i], q) = Means(h, t.of, q.d.s[i], p)
    <3>1. q.d.k = "list" => \A i \in DOMAIN q.d.s : depth[q.d.s[i]] < depth[q.d]
      BY <1>1 DEF Founded
    <3> QED  BY <1>2, <2>1, <3>1
  <2>3. ListConforms(t, g, q) = ListConforms(t, h, p)
    BY <2>2 DEF ListConforms
  <2> QED  BY <1>4, <2>3 DEF ConformsBy, ScalarTypes
<1>5. CASE t.type = "map"
  <2>1. t.of \in DOMAIN s.types
    BY <1>1, <1>5, TypesOfSchema
  <2>2. q.d.k = "map" =>
           \A i \in DOMAIN q.d.m : Means(g, t.of, q.d.m[i][2], q) = Means(h, t.of, q.d.m[i][2], p)
    <3>1. q.d.k = "map" => \A i \in DOMAIN q.d.m : depth[q.d.m[i][2]] < depth[q.d]
      BY <1>1 DEF Founded
    <3> QED  BY <1>2, <2>1, <3>1
  <2>3. MapConforms(t, g, q) = MapConforms(t, h, p)
    BY <2>2 DEF MapConforms
  <2> QED  BY <1>5, <2>3 DEF ConformsBy, ScalarTypes
<1>6. CASE t.type = "union"
  <2>1. \A i \in DOMAIN t.members :
           t.members[i] \in DOMAIN s.types /\ level[t.members[i]] < level[q.type]
    BY <1>1, <1>6, TypesOfSchema DEF Founded, TypeOf
  <2>2. \A i \in DOMAIN t.members : Means(g, t.members[i], q.d, q) = Means(h, t.members[i], p.d, p)
    BY <2>1 DEF Alike, Lower, Question
  <2>3. UnionConforms(t, g, q) = UnionConforms(t, h, p)
    BY <2>2 DEF UnionConforms
  <2> QED  BY <1>6, <2>3 DEF ConformsBy, ScalarTypes
<1>7. CASE t.type = "record"
  <2>1. q.d.k = "map" =>
           \A key \in Keys(q.d) : Allowed(o, key, t, q.known) = Allowed(o, key, t, p.known)
    BY DEF Allowed
  <2>2. ASSUME q.d.k = "map", NEW i \in DOMAIN t.fields
        PROVE  Means(g, t.fields[i].type, FieldValue(t.fields[i], q.d), q)
                  = Means(h, t.fields[i].type, FieldValue(t.fields[i], p.d), p)
    <3> DEFINE v == FieldValue(t.fields[i], q.d)
    <3>1. t.fields[i].type \in DOMAIN s.types
      BY <1>1, <1>7, TypesOfSchema
    <3>2. v \in V /\ depth[v] < depth[q.d]
      BY <1>1, <1>7, <2>2, FieldValues
    <3> QED  BY <1>2, <3>1, <3>2
  <2>3. RecordConforms(t, o, g, q) = RecordConforms(t, o, h, p)
    BY <2>1, <2>2 DEF RecordConforms
  <2> QED  BY <1>7, <2>3 DEF ConformsBy, ScalarTypes
<1> QED  BY <1>1, <1>3, <1>4, <1>5, <1>6, <1>7, TypesOfSchema

LEMMA ConformsTyped ==
    ASSUME NEW s \in Schemas, NEW o, NEW q \in Questions(s), NEW g
    PROVE  ConformsBy(s, o, g, q) \in BOOLEAN
<1> DEFINE t == TypeOf(s, q.type)
<1>1. q.type \in DOMAIN s.types
  BY QuestionFields
<1>2. CASE t.type \in ScalarTypes
  BY <1>2 DEF ConformsBy, ScalarTypes, ScalarConforms
<1>3. CASE t.type = "array"
  BY <1>3 DEF ConformsBy, ScalarTypes, ListConforms
<1>4. CASE t.type = "map"
  BY <1>4 DEF ConformsBy, ScalarTypes, MapConforms
<1>5. CASE t.type = "union"
  BY <1>5 DEF ConformsBy, ScalarTypes, UnionConforms
<1>6. CASE t.type = "record"
  BY <1>6 DEF ConformsBy, ScalarTypes, RecordConforms
<1> QED  BY <1>1, <1>2, <1>3, <1>4, <1>5, <1>6, TypesOfSchema

LEMMA ConformsIs ==
    ASSUME NEW s \in Schemas, NEW o, NEW depth, NEW level, Founded(s, depth, level)
    PROVE  /\ Conforms(s, o) \in [Questions(s) -> BOOLEAN]
           /\ \A q \in Questions(s) : Conforms(s, o)[q] = ConformsBy(s, o, Conforms(s, o), q)
<1> DEFINE S == Questions(s)
           a == [q \in S |-> depth[q.d]]
           b == [q \in S |-> level[q.type]]
           R == Ranked(a, b, S)
           F == [p \in [S -> BOOLEAN] \X S |-> ConformsBy(s, o, p[1], p[2])]
           C == Conforms(s, o)
<1>1. a \in [S -> Nat] /\ b \in [S -> Nat]
  BY QuestionFields DEF Founded
<1>2. IsWellFoundedOn(R, S)
  <2> HIDE DEF a, b, S
  <2> QED  BY <1>1, RankedWF
<1>3. F \in [[S -> BOOLEAN] \X S -> BOOLEAN]
  BY ConformsTyped
<1>4. \A x, y \in S : Lower(depth, level, x, y) => <<x, y>> \in R
  BY DEF Lower, Ranked, ByRank
<1>5. ASSUME NEW g, NEW h, NEW x \in S, \A y \in S : <<y, x>> \in R => g[y] = h[y]
      PROVE  ConformsBy(s, o, g, x) = ConformsBy(s, o, h, x)
  <2>1. Alike(s, Data, depth, level, g, h, x, x)
    <3>1. \A type \in DOMAIN s.types, v \in Data : Question(type, v, x.known) \in S
      BY QuestionFields, QuestionTyped
    <3> HIDE DEF R, S
    <3> QED  BY <1>4, <1>5, <3>1 DEF Alike, Means
  <2>2. /\ x.d \in Data
        /\ x.d.k = "list" => \A i \in DOMAIN x.d.s : x.d.s[i] \in Data
        /\ x.d.k = "map" => \A i \in DOMAIN x.d.m : x.d.m[i][2] \in Data
    BY QuestionFields, PartsOfDatum
  <2> QED  BY <2>1, <2>2, ConformsCongruent
<1>6. Told(F, R, S, BOOLEAN)
  <2> HIDE DEF R
  <2> QED  BY <1>5 DEF Told
<1>7. Solvable(F, S, BOOLEAN)
  <2>1. BOOLEAN # {}
    OBVIOUS
  <2> HIDE DEF R, S, F
  <2> QED  BY <1>2, <1>3, <1>6, <2>1, Recursion
<1>8. PICK f \in [S -> BOOLEAN] : \A x \in S : f[x] = ConformsBy(s, o, f, x)
  BY <1>7 DEF Solvable, Solves
<1>9. f = [x \in S |-> ConformsBy(s, o, f, x)]
  BY <1>8
<1>10. C = [x \in S |-> ConformsBy(s, o, C, x)]
  BY <1>9 DEF Conforms
<1>11. \A x \in S : C[x] = f[x]
  <2> DEFINE D == {x \in S : C[x] # f[x]}
  <2> SUFFICES ASSUME D # {} PROVE FALSE
    OBVIOUS
  <2>1. D \subseteq S
    OBVIOUS
  <2>2. PICK x \in D : \A y \in D : <<y, x>> \notin R
    <3> HIDE DEF R, S, D
    <3> QED  BY <1>2, <2>1, WFMin
  <2>3. \A y \in S : <<y, x>> \in R => C[y] = f[y]
    BY <2>2
  <2>4. ConformsBy(s, o, C, x) = ConformsBy(s, o, f, x)
    <3> HIDE DEF R, C
    <3> QED  BY <1>5, <2>3
  <2> HIDE DEF C
  <2> QED  BY <1>8, <1>10, <2>4
<1> HIDE DEF C, S
<1> QED  BY <1>8, <1>10, <1>11 DEF C, S

\* The keys of all maps in a datum.
KeysBy(f, d) ==
    CASE d.k = "list" -> UNION {f[d.s[i]] : i \in DOMAIN d.s}
      [] d.k = "map"  -> Keys(d) \union UNION {f[d.m[i][2]] : i \in DOMAIN d.m}
      [] OTHER        -> {}

LEMMA KeysAre ==
    ASSUME NEW d \in Data, NEW f
    PROVE  /\ d.k = "list" => KeysBy(f, d) = UNION {f[d.s[i]] : i \in DOMAIN d.s}
           /\ d.k = "map"  => KeysBy(f, d) = Keys(d) \union UNION {f[d.m[i][2]] : i \in DOMAIN d.m}
           /\ d.k \notin {"list", "map"} => KeysBy(f, d) = {}
BY DEF KeysBy

LEMMA AllKeysAre ==
    ASSUME NEW s \in Schemas, NEW depth, NEW level, Founded(s, depth, level)
    PROVE  \A d \in Data : AllKeys[d] = KeysBy(AllKeys, d)
<1> DEFINE b == [d \in Data |-> 0]
           T == SUBSET MapKeys
           R == Ranked(depth, b, Data)
           F == [p \in [Data -> T] \X Data |-> KeysBy(p[1], p[2])]
<1>1. depth \in [Data -> Nat] /\ b \in [Data -> Nat]
  BY DEF Founded
<1>2. IsWellFoundedOn(R, Data)
  <2> HIDE DEF b
  <2> QED  BY <1>1, RankedWF
<1>3. F \in [[Data -> T] \X Data -> T]
  <2>1. ASSUME NEW f \in [Data -> T], NEW d \in Data PROVE KeysBy(f, d) \in T
    <3>1. CASE d.k = "list"
      <4>1. \A i \in DOMAIN d.s : f[d.s[i]] \in T
        BY <3>1, PartsOfDatum
      <4> QED  BY <3>1, <4>1, KeysAre
    <3>2. CASE d.k = "map"
      <4>1. \A i \in DOMAIN d.m : f[d.m[i][2]] \in T /\ d.m[i][1] \in MapKeys
        BY <3>2, PartsOfDatum
      <4> QED  BY <3>2, <4>1, KeysAre DEF Keys
    <3>3. CASE d.k \notin {"list", "map"}
      BY <3>3, KeysAre
    <3> QED  BY <3>1, <3>2, <3>3
  <2> QED  BY <2>1
<1>5. ASSUME NEW g, NEW h, NEW x \in Data, \A y \in Data : <<y, x>> \in R => g[y] = h[y]
      PROVE  KeysBy(g, x) = KeysBy(h, x)
  <2>1. \A y \in Data : depth[y] < depth[x] => g[y] = h[y]
    BY <1>5 DEF Ranked, ByRank
  <2> HIDE DEF R
  <2>2. CASE x.k = "list"
    <3>1. \A i \in DOMAIN x.s : g[x.s[i]] = h[x.s[i]]
      BY <2>1, <2>2, PartsOfDatum DEF Founded
    <3>2. {g[x.s[i]] : i \in DOMAIN x.s} = {h[x.s[i]] : i \in DOMAIN x.s}
      BY <3>1
    <3> QED  BY <2>2, <3>2, KeysAre
  <2>3. CASE x.k = "map"
    <3>1. \A i \in DOMAIN x.m : g[x.m[i][2]] = h[x.m[i][2]]
      BY <2>1, <2>3, PartsOfDatum DEF Founded
    <3>2. {g[x.m[i][2]] : i \in DOMAIN x.m} = {h[x.m[i][2]] : i \in DOMAIN x.m}
      BY <3>1
    <3> QED  BY <2>3, <3>2, KeysAre
  <2>4. CASE x.k \notin {"list", "map"}
    BY <2>4, KeysAre
  <2> QED  BY <2>2, <2>3, <2>4
<1>6. Told(F, R, Data, T)
  <2> HIDE DEF R
  <2> QED  BY <1>5 DEF Told
<1>7. Solvable(F, Data, T)
  <2>1. T # {}
    OBVIOUS
  <2> HIDE DEF R, F, T
  <2> QED  BY <1>2, <1>3, <1>6, <2>1, Recursion
<1>8. PICK f \in [Data -> T] : \A x \in Data : f[x] = KeysBy(f, x)
  BY <1>7 DEF Solvable, Solves
<1>9. f = [x \in Data |-> KeysBy(f, x)]
  BY <1>8
<1>10. AllKeys = [x \in Data |-> KeysBy(AllKeys, x)]
  BY <1>9 DEF AllKeys, KeysBy
<1> QED  BY <1>10

\* What is odd about a datum.
OddBy(f, d) ==
    CASE d.k = "list" -> \E i \in DOMAIN d.s : f[d.s[i]]
      [] d.k = "map"  -> \/ Keys(d) \intersect OddKeys # {}
                         \/ "class" \in Keys(d) /\ Get(d, "class").k # "str"
                         \/ \E i \in DOMAIN d.m : f[d.m[i][2]]
      [] OTHER        -> FALSE

LEMMA OddAre ==
    ASSUME NEW d \in Data, NEW f
    PROVE  /\ d.k = "list" => OddBy(f, d) = \E i \in DOMAIN d.s : f[d.s[i]]
           /\ d.k = "map"  =>
                 OddBy(f, d) = (\/ Keys(d) \intersect OddKeys # {}
                                \/ "class" \in Keys(d) /\ Get(d, "class").k # "str"
                                \/ \E i \in DOMAIN d.m : f[d.m[i][2]])
           /\ d.k \notin {"list", "map"} => OddBy(f, d) = FALSE
BY DEF OddBy

LEMMA OddIs ==
    ASSUME NEW s \in Schemas, NEW depth, NEW level, Founded(s, depth, level)
    PROVE  \A d \in Data : Odd[d] = OddBy(Odd, d)
<1> DEFINE b == [d \in Data |-> 0]
           R == Ranked(depth, b, Data)
           F == [p \in [Data -> BOOLEAN] \X Data |-> OddBy(p[1], p[2])]
<1>1. depth \in [Data -> Nat] /\ b \in [Data -> Nat]
  BY DEF Founded
<1>2. IsWellFoundedOn(R, Data)
  <2> HIDE DEF b
  <2> QED  BY <1>1, RankedWF
<1>3. F \in [[Data -> BOOLEAN] \X Data -> BOOLEAN]
  <2>1. ASSUME NEW f \in [Data -> BOOLEAN], NEW d \in Data PROVE OddBy(f, d) \in BOOLEAN
    <3>1. CASE d.k = "list"
      BY <3>1, OddAre
    <3>2. CASE d.k = "map"
      BY <3>2, OddAre
    <3>3. CASE d.k \notin {"list", "map"}
      BY <3>3, OddAre
    <3> QED  BY <3>1, <3>2, <3>3
  <2> QED  BY <2>1
<1>5. ASSUME NEW g, NEW h, NEW x \in Data, \A y \in Data : <<y, x>> \in R => g[y] = h[y]
      PROVE  OddBy(g, x) = OddBy(h, x)
  <2>1. \A y \in Data : depth[y] < depth[x] => g[y] = h[y]
    BY <1>5 DEF Ranked, ByRank
  <2> HIDE DEF R
  <2>2. CASE x.k = "list"
    <3>1. \A i \in DOMAIN x.s : g[x.s[i]] = h[x.s[i]]
      BY <2>1, <2>2, PartsOfDatum DEF Founded
    <3> QED  BY <2>2, <3>1, OddAre
  <2>3. CASE x.k = "map"
    <3>1. \A i \in DOMAIN x.m : g[x.m[i][2]] = h[x.m[i][2]]
      BY <2>1, <2>3, PartsOfDatum DEF Founded
    <3> QED  BY <2>3, <3>1, OddAre
  <2>4. CASE x.k \notin {"list", "map"}
    BY <2>4, OddAre
  <2> QED  BY <2>2, <2>3, <2>4
<1>6. Told(F, R, Data, BOOLEAN)
  <2> HIDE DEF R
  <2> QED  BY <1>5 DEF Told
<1>7. Solvable(F, Data, BOOLEAN)
  <2>1. BOOLEAN # {}
    OBVIOUS
  <2> HIDE DEF R, F
  <2> QED  BY <1>2, <1>3, <1>6, <2>1, Recursion
<1>8. PICK f \in [Data -> BOOLEAN] : \A x \in Data : f[x] = OddBy(f, x)
  BY <1>7 DEF Solvable, Solves
<1>9. f = [x \in Data |-> OddBy(f, x)]
  BY <1>8
<1>10. Odd = [x \in Data |-> OddBy(Odd, x)]
  BY <1>9 DEF Odd, OddBy
<1> QED  BY <1>10

LEMMA OddParts ==
    ASSUME NEW s \in Schemas, NEW depth, NEW level, Founded(s, depth, level), NEW d \in Data
    PROVE  /\ d.k = "list" => (Odd[d] <=> \E i \in DOMAIN d.s : Odd[d.s[i]])
           /\ d.k = "map" => (Odd[d] <=> \/ Keys(d) \intersect OddKeys # {}
                                         \/ "class" \in Keys(d) /\ Get(d, "class").k # "str"
                                         \/ \E i \in DOMAIN d.m : Odd[d.m[i][2]])
           /\ d.k \notin {"list", "map"} => ~Odd[d]
<1>1. Odd[d] = OddBy(Odd, d)
  BY OddIs
<1>2. CASE d.k = "list"
  <2>1. Odd[d] = \E i \in DOMAIN d.s : Odd[d.s[i]]
    BY <1>1, <1>2, OddAre, Zenon
  <2> QED  BY <1>2, <2>1
<1>3. CASE d.k = "map"
  <2>1. Odd[d] = (\/ Keys(d) \intersect OddKeys # {}
                  \/ "class" \in Keys(d) /\ Get(d, "class").k # "str"
                  \/ \E i \in DOMAIN d.m : Odd[d.m[i][2]])
    BY <1>1, <1>3, OddAre, Zenon
  <2> QED  BY <1>3, <2>1
<1>4. CASE d.k \notin {"list", "map"}
  <2>1. Odd[d] = FALSE
    BY <1>1, <1>4, OddAre, Zenon
  <2> QED  BY <1>4, <2>1
<1> QED  BY <1>2, <1>3, <1>4

----------------------------------------------------------------------------
(* Induction over calls and questions *)

LEMMA LowestCall ==
    ASSUME NEW s \in Schemas, NEW depth, NEW level, Founded(s, depth, level),
           NEW D \in SUBSET Calls(s), D # {}
    PROVE  \E x \in D : \A y \in D : ~Lower(depth, level, y, x)
<1> DEFINE S == Calls(s)
           a == [c \in S |-> depth[c.d]]
           b == [c \in S |-> level[c.type]]
<1>1. a \in [S -> Nat] /\ b \in [S -> Nat]
  BY CallFields DEF Founded
<1>2. \A x, y \in S : Lower(depth, level, x, y) => <<x, y>> \in Ranked(a, b, S)
  BY DEF Lower, Ranked, ByRank
<1>3. D \subseteq S
  OBVIOUS
<1> HIDE DEF a, b, S
<1>4. IsWellFoundedOn(Ranked(a, b, S), S)
  BY <1>1, RankedWF
<1>5. \E x \in D : \A y \in D : <<y, x>> \notin Ranked(a, b, S)
  BY <1>3, <1>4, WFMin
<1> QED  BY <1>2, <1>3, <1>5

LEMMA LowestQuestion ==
    ASSUME NEW s \in Schemas, NEW depth, NEW level, Founded(s, depth, level),
           NEW D \in SUBSET Questions(s), D # {}
    PROVE  \E x \in D : \A y \in D : ~Lower(depth, level, y, x)
<1> DEFINE S == Questions(s)
           a == [q \in S |-> depth[q.d]]
           b == [q \in S |-> level[q.type]]
<1>1. a \in [S -> Nat] /\ b \in [S -> Nat]
  BY QuestionFields DEF Founded
<1>2. \A x, y \in S : Lower(depth, level, x, y) => <<x, y>> \in Ranked(a, b, S)
  BY DEF Lower, Ranked, ByRank
<1>3. D \subseteq S
  OBVIOUS
<1> HIDE DEF a, b, S
<1>4. IsWellFoundedOn(Ranked(a, b, S), S)
  BY <1>1, RankedWF
<1>5. \E x \in D : \A y \in D : <<y, x>> \notin Ranked(a, b, S)
  BY <1>3, <1>4, WFMin
<1> QED  BY <1>2, <1>3, <1>5

\* A known key that is not in the datum does not matter to what it means.
Apart(d, known) == AllKeys[d] \intersect known = {}

LEMMA PartsApart ==
    ASSUME NEW s \in Schemas, NEW depth, NEW level, Founded(s, depth, level),
           NEW d \in Data, NEW known, Apart(d, known)
    PROVE  /\ d.k = "list" => \A i \in DOMAIN d.s : Apart(d.s[i], known)
           /\ d.k = "map"  => Keys(d) \intersect known = {} /\ \A i \in DOMAIN d.m : Apart(d.m[i][2], known)
<1>1. AllKeys[d] = KeysBy(AllKeys, d)
  BY AllKeysAre
<1>2. CASE d.k = "list"
  BY <1>1, <1>2, KeysAre DEF Apart
<1>3. CASE d.k = "map"
  BY <1>1, <1>3, KeysAre DEF Apart
<1> QED  BY <1>2, <1>3

LEMMA ScalarsApart ==
    ASSUME NEW s \in Schemas, NEW depth, NEW level, Founded(s, depth, level),
           NEW d \in Data, NEW known, d.k \notin {"list", "map"}
    PROVE  Apart(d, known)
BY AllKeysAre, KeysAre DEF Apart

LEMMA KnownImmaterial ==
    ASSUME NEW s \in Schemas, NEW o, NEW depth, NEW level, Founded(s, depth, level),
           NEW q \in Questions(s), Apart(q.d, q.known)
    PROVE  Conforms(s, o)[q] = Conforms(s, o)[Question(q.type, q.d, {})]
<1> DEFINE C == Conforms(s, o)
           Bare(x) == Question(x.type, x.d, {})
           D == {x \in Questions(s) : Apart(x.d, x.known) /\ C[x] # C[Bare(x)]}
<1> SUFFICES ASSUME D # {} PROVE FALSE
  OBVIOUS
<1>1. PICK x \in D : \A y \in D : ~Lower(depth, level, y, x)
  <2> D \in SUBSET Questions(s)
    OBVIOUS
  <2> HIDE DEF D
  <2> QED  BY LowestQuestion
<1> DEFINE p == Bare(x)
           V == {v \in Data : Apart(v, x.known)}
<1>2. /\ x \in Questions(s) /\ x.type \in DOMAIN s.types /\ x.d \in Data /\ x.known \in SUBSET Extensions
      /\ Apart(x.d, x.known) /\ C[x] # C[Bare(x)]
  BY <1>1, QuestionFields
<1>3. p \in Questions(s) /\ p.type = x.type /\ p.d = x.d /\ p.known = {}
  BY <1>2, QuestionTyped DEF Question
<1>4. Alike(s, V, depth, level, C, C, x, p)
  <2>1. ASSUME NEW type \in DOMAIN s.types, NEW v \in V, Lower(depth, level, Question(type, v, x.known), x)
        PROVE  Means(C, type, v, x) = Means(C, type, v, p)
    <3> DEFINE y == Question(type, v, x.known)
    <3>1. y \in Questions(s) /\ y.type = type /\ y.d = v /\ y.known = x.known
      BY <1>2, QuestionTyped DEF Question
    <3>2. C[y] = C[Bare(y)]
      BY <1>1, <2>1, <3>1
    <3> QED  BY <1>3, <3>1, <3>2 DEF Means
  <2> QED  BY <2>1 DEF Alike
<1>5. /\ x.d \in V
      /\ \A v \in Data : v.k \notin {"list", "map"} => v \in V
      /\ x.d.k = "list" => \A i \in DOMAIN x.d.s : x.d.s[i] \in V
      /\ x.d.k = "map" => \A i \in DOMAIN x.d.m : x.d.m[i][2] \in V
      /\ \A key \in Keys(x.d) : x.d.k = "map" => (key \in x.known <=> key \in p.known)
  BY <1>2, <1>3, PartsOfDatum, PartsApart, ScalarsApart
<1>6. ConformsBy(s, o, C, x) = ConformsBy(s, o, C, p)
  <2> V \in SUBSET Data
    OBVIOUS
  <2> HIDE DEF V, p, C, Bare
  <2> QED  BY <1>2, <1>3, <1>4, <1>5, ConformsCongruent
<1> QED  BY <1>2, <1>3, <1>6, ConformsIs

----------------------------------------------------------------------------
(* What each kind of type says of a datum *)

LEMMA ScalarSaid ==
    ASSUME NEW s \in Schemas, NEW n \in DOMAIN s.types, NEW t, t.type \in ScalarTypes,
           NEW d \in Data
    PROVE  Scalar(t, d) <=> ScalarConforms(t, d)
<1>1. d.k = "int" => d.n \in Int
  BY DatumFields
<1>2. d.k = "bool" => d.b \in BOOLEAN
  BY DatumFields
<1>3. d.k = "none" <=> d = None
  BY DatumFields DEF None
<1>4. d.k \in {"none", "float", "bool", "int", "str", "list", "map"}
  BY DatumFields
<1>5. ASSUME NEW bits, 2 ^ (bits - 1) \in Nat \ {0, 1}
      PROVE  Fits(d, bits) <=> d.k \in {"bool", "int"} /\ Within(d, bits)
  <2> DEFINE m == 2 ^ (bits - 1)
  <2>1. m \in Nat /\ m > 1
    BY <1>5
  <2> HIDE DEF m
  <2>2. Fits(d, bits) <=> d.k \in {"bool", "int"} /\ Number(d) \in -m .. m - 1
    BY DEF Fits, m
  <2>3. Within(d, bits) <=> (d.k = "int" => -m <= d.n /\ d.n < m)
    BY DEF Within, m
  <2>4. CASE d.k = "int"
    BY <1>1, <2>1, <2>2, <2>3, <2>4 DEF Number
  <2>5. CASE d.k = "bool"
    BY <1>2, <2>1, <2>2, <2>3, <2>5 DEF Number
  <2> QED  BY <2>2, <2>4, <2>5
<1>6. /\ Kinds["null"] = {"none"} /\ Kinds["boolean"] = {"bool"} /\ Kinds["string"] = {"str"}
      /\ Kinds["int"] = {"bool", "int"} /\ Kinds["long"] = {"bool", "int"}
      /\ Kinds["float"] = {"bool", "int", "float"} /\ Kinds["double"] = {"bool", "int", "float"}
      /\ Kinds["any"] = {"bool", "int", "float", "str", "list", "map"}
      /\ Kinds["expression"] = {"str"} /\ Kinds["enum"] = {"str"}
  BY DEF Kinds
<1>7. 2 ^ (IntBits - 1) \in Nat \ {0, 1} /\ 2 ^ (LongBits - 1) \in Nat \ {0, 1}
  BY BitsAssumption
<1>8. Fits(d, IntBits) <=> d.k \in {"bool", "int"} /\ Within(d, IntBits)
  BY <1>5, <1>7
<1>9. Fits(d, LongBits) <=> d.k \in {"bool", "int"} /\ Within(d, LongBits)
  BY <1>5, <1>7
<1>10. CASE t.type = "null"
  BY <1>6, <1>3, <1>4, <1>10 DEF Scalar, ScalarConforms
<1>11. CASE t.type = "boolean"
  BY <1>6, <1>3, <1>4, <1>11 DEF Scalar, ScalarConforms
<1>12. CASE t.type = "string"
  BY <1>6, <1>3, <1>4, <1>12 DEF Scalar, ScalarConforms
<1>13. CASE t.type = "int"
  BY <1>6, <1>8, <1>13 DEF Scalar, ScalarConforms
<1>14. CASE t.type = "long"
  BY <1>6, <1>9, <1>14 DEF Scalar, ScalarConforms
<1>15. CASE t.type = "float"
  BY <1>6, <1>3, <1>4, <1>15 DEF Scalar, ScalarConforms
<1>16. CASE t.type = "double"
  BY <1>6, <1>3, <1>4, <1>16 DEF Scalar, ScalarConforms
<1>17. CASE t.type = "any"
  BY <1>6, <1>3, <1>4, <1>17 DEF Scalar, ScalarConforms
<1>18. CASE t.type = "expression"
  BY <1>6, <1>3, <1>4, <1>18 DEF Scalar, ScalarConforms
<1>19. CASE t.type = "enum"
  BY <1>6, <1>3, <1>4, <1>19 DEF Scalar, ScalarConforms
<1> QED  BY <1>10, <1>11, <1>12, <1>13, <1>14, <1>15, <1>16, <1>17, <1>18, <1>19 DEF ScalarTypes

LEMMA KeySaid ==
    ASSUME NEW t, NEW o, NEW key \in MapKeys, NEW known \in SUBSET Extensions, NEW raise,
           ~IsField(t, key)
    PROVE  /\ KeyOutcome(o, key, known, raise) \in Outcomes \union {"return"}
           /\ KeyOutcome(o, key, known, raise) = "valid" => Allowed(o, key, t, known)
           /\ KeyOutcome(o, key, known, raise) \in {"invalid", "return"} => ~Allowed(o, key, t, known)
           /\ KeyOutcome(o, key, known, raise) = "crash" => key \in OddKeys
           /\ KeyOutcome(o, key, known, raise) # "class"
<1>1. NoKey \notin Extensions \union Reserved \union ToSet(Identifiers)
  BY KeyAssumption
<1> QED  BY <1>1 DEF KeyOutcome, Allowed, Verdict, Outcomes, OddKeys

\* The class of the datum names the record.
ClassMatches(t, d) ==
    "class" \in Keys(d) /\ Get(d, "class").k = "str" /\ t.name \in ClassNames(Get(d, "class").v)

LEMMA ClassSaid ==
    ASSUME NEW t, t.name # "", NEW d \in Data, d.k = "map", HasClass(t)
    PROVE  /\ ClassOutcome(t, d) \in {"valid", "invalid", "crash"}
           /\ ClassOutcome(t, d) = "valid" => ClassMatches(t, d)
           /\ ClassMatches(t, d) => ClassIs(t, d)
           /\ ClassIs(t, d) => ClassOutcome(t, d) = "valid"
           /\ ClassOutcome(t, d) = "crash" => "class" \in Keys(d) /\ Get(d, "class").k # "str"
<1> DEFINE v == Get(d, "class")
<1>1. ClassOutcome(t, d) \in {"valid", "invalid", "crash"}
  BY DEF ClassOutcome, Verdict
<1>2. ClassOutcome(t, d) = "valid" => ClassMatches(t, d)
  BY DEF ClassOutcome, Verdict, ClassMatches
<1>3. ASSUME ClassMatches(t, d) PROVE ClassIs(t, d)
  <2>1. "class" \in Keys(d) /\ v \in Data
    <3>1. "class" \in Keys(d)
      BY <1>3 DEF ClassMatches
    <3>2. PICK i \in DOMAIN d.m : v = d.m[i][2]
      BY <3>1, GetIsPart
    <3> QED  BY <3>1, <3>2, PartsOfDatum
  <2>2. v = Str(v.v) /\ t.name \in ClassNames(v.v)
    BY <1>3, <2>1, DatumFields DEF ClassMatches
  <2>3. v.v \in DOMAIN Vocab \union DOMAIN Prefixed \union {t.name}
    BY <2>2 DEF ClassNames
  <2> QED  BY <2>1, <2>2, <2>3 DEF ClassIs
<1>4. ASSUME ClassIs(t, d) PROVE ClassOutcome(t, d) = "valid"
  <2>1. PICK c \in DOMAIN Vocab \union DOMAIN Prefixed \union {t.name} :
           "class" \in Keys(d) /\ v = Str(c) /\ t.name \in ClassNames(c)
    BY <1>4 DEF ClassIs
  <2>2. c # ""
    BY <2>1, VocabAssumption
  <2> HIDE DEF v
  <2>3. v.k = "str" /\ v.v = c
    BY <2>1 DEF Str
  <2>4. ~Falsy(v)
    <3>1. /\ None.k = "none" /\ Bool(FALSE).k = "bool" /\ Int_(0).k = "int"
          /\ List(<<>>).k = "list" /\ Dict(<<>>).k = "map" /\ Str("").v = ""
      BY DEF None, Bool, Int_, List, Dict, Str
    <3> QED  BY <2>2, <2>3, <3>1 DEF Falsy
  <2> USE DEF v
  <2> QED  BY <2>1, <2>3, <2>4 DEF ClassOutcome, Verdict
<1>5. ClassOutcome(t, d) = "crash" => "class" \in Keys(d) /\ v.k # "str"
  BY DEF ClassOutcome, Verdict
<1> QED  BY <1>1, <1>2, <1>3, <1>4, <1>5

\* The part that the i-th outcome is about.
PartAt(s, c, i) == IF TypeOf(s, c.type).type = "array" THEN c.d.s[i] ELSE c.d.m[i][2]
Expected(t) == IF t.type = "array" THEN "list" ELSE "map"

LEMMA PartIs ==
    ASSUME NEW s \in Schemas, NEW depth, NEW level, Founded(s, depth, level), NEW g,
           NEW c \in Calls(s), TypeOf(s, c.type).type \in {"array", "map"},
           c.d.k = Expected(TypeOf(s, c.type)), NEW i \in DOMAIN PartOutcomes(s, g, c)
    PROVE  LET t == TypeOf(s, c.type)
           IN  /\ \E y \in Calls(s) :
                     /\ PartOutcomes(s, g, c)[i] = g[y] /\ Lower(depth, level, y, c)
                     /\ y = Call(t.of, PartAt(s, c, i), c.known, c.raise)
                     /\ y.type = t.of /\ y.d = PartAt(s, c, i)
                     /\ y.known = c.known /\ y.raise = c.raise
               /\ t.of \in DOMAIN s.types /\ PartAt(s, c, i) \in Data
               /\ Odd[PartAt(s, c, i)] => Odd[c.d]
<1> DEFINE t == TypeOf(s, c.type)
           y == Call(t.of, PartAt(s, c, i), c.known, c.raise)
<1>1. t.of \in DOMAIN s.types /\ c.d \in Data /\ c.known \in SUBSET Extensions /\ c.raise \in BOOLEAN
  BY CallFields, TypesOfSchema
<1>9. ASSUME PartAt(s, c, i) \in Data, depth[PartAt(s, c, i)] < depth[c.d]
      PROVE  /\ y \in Calls(s) /\ Lower(depth, level, y, c)
             /\ y.type = t.of /\ y.d = PartAt(s, c, i) /\ y.known = c.known /\ y.raise = c.raise
  BY <1>1, <1>9, CallTyped DEF Lower, Call
<1>3. CASE t.type = "array"
  <2>1. PartOutcomes(s, g, c) = [j \in DOMAIN c.d.s |-> Part(g, t.of, c.d.s[j], c)] /\ c.d.k = "list"
    BY <1>3 DEF PartOutcomes, Expected
  <2>2. i \in DOMAIN c.d.s /\ PartAt(s, c, i) = c.d.s[i]
    BY <1>3, <2>1 DEF PartAt
  <2>3. PartAt(s, c, i) \in Data /\ depth[PartAt(s, c, i)] < depth[c.d]
    BY <1>1, <2>1, <2>2, PartsOfDatum DEF Founded
  <2>4. Odd[PartAt(s, c, i)] => Odd[c.d]
    BY <1>1, <2>1, <2>2, OddParts
  <2>5. PartOutcomes(s, g, c)[i] = g[y]
    BY <2>1, <2>2 DEF Part
  <2> QED  BY <1>1, <1>9, <2>3, <2>4, <2>5
<1>4. CASE t.type = "map"
  <2>1. PartOutcomes(s, g, c) = [j \in DOMAIN c.d.m |-> Part(g, t.of, c.d.m[j][2], c)] /\ c.d.k = "map"
    BY <1>4 DEF PartOutcomes, Expected
  <2>2. i \in DOMAIN c.d.m /\ PartAt(s, c, i) = c.d.m[i][2]
    BY <1>4, <2>1 DEF PartAt
  <2>3. PartAt(s, c, i) \in Data /\ depth[PartAt(s, c, i)] < depth[c.d]
    BY <1>1, <2>1, <2>2, PartsOfDatum DEF Founded
  <2>4. Odd[PartAt(s, c, i)] => Odd[c.d]
    BY <1>1, <2>1, <2>2, OddParts
  <2>5. PartOutcomes(s, g, c)[i] = g[y]
    BY <2>1, <2>2 DEF Part
  <2> QED  BY <1>1, <1>9, <2>3, <2>4, <2>5
<1> QED  BY <1>3, <1>4

LEMMA PartsSaid ==
    ASSUME NEW s \in Schemas, NEW g \in [Calls(s) -> Outcomes], NEW c \in Calls(s),
           TypeOf(s, c.type).type \in {"array", "map"}
    PROVE  LET t == TypeOf(s, c.type)
               said == PartsBy(s, g, c)
               parts == PartOutcomes(s, g, c)
           IN  /\ said \in {"valid", "invalid", "crash"}
               /\ said = "valid" => c.d.k = Expected(t) /\ \A i \in DOMAIN parts : parts[i] = "valid"
               /\ said = "invalid" =>
                     c.d.k # Expected(t) \/ \E i \in DOMAIN parts : parts[i] \in {"invalid", "class"}
               /\ said = "crash" => c.d.k = Expected(t) /\ \E i \in DOMAIN parts : parts[i] = "crash"
<1> DEFINE t == TypeOf(s, c.type)
           said == PartsBy(s, g, c)
           parts == PartOutcomes(s, g, c)
<1>1. CASE c.d.k # Expected(t)
  BY <1>1 DEF PartsBy, Expected
<1>2. CASE c.d.k = Expected(t)
  <2>1. DOMAIN parts \subseteq Nat /\ \A i \in DOMAIN parts : parts[i] \in Outcomes
    BY <1>2, PartsTyped DEF Expected
  <2>2. said = Wrapped(FirstBad(parts))
    BY <1>2 DEF PartsBy, Expected
  <2>3. \/ FirstBad(parts) = "valid" /\ \A i \in DOMAIN parts : parts[i] = "valid"
        \/ \E i \in DOMAIN parts : parts[i] # "valid" /\ FirstBad(parts) = parts[i]
    BY <2>1, FirstBadIs
  <2> QED  BY <1>2, <2>1, <2>2, <2>3 DEF Wrapped, Outcomes
<1> QED  BY <1>1, <1>2

LEMMA UnionSaid ==
    ASSUME NEW s \in Schemas, NEW g \in [Calls(s) -> Outcomes], NEW c \in Calls(s),
           TypeOf(s, c.type).type = "union"
    PROVE  LET said == UnionBy(s, g, c)
               quiet == MembersQuietly(s, g, c)
               loud == MembersLoudly(s, g, c)
           IN  /\ said = "valid" => \E i \in DOMAIN Members(s, c) : quiet[i] = "valid"
               /\ said \in {"invalid", "class"} =>
                     \/ \A i \in DOMAIN Members(s, c) : quiet[i] = "invalid"
                     \/ \E i \in DOMAIN Members(s, c) : quiet[i] = "class"
               /\ said = "class" =>
                     \/ \E i \in DOMAIN Members(s, c) : quiet[i] = "class"
                     \/ c.raise /\ \E i \in DOMAIN Members(s, c) : loud[i] = "class"
               /\ said = "crash" =>
                     \E i \in DOMAIN Members(s, c) : quiet[i] = "crash" \/ loud[i] = "crash"
               /\ said = "invalid" /\ c.raise =>
                     \A i \in DOMAIN Members(s, c) : loud[i] \notin {"class", "crash"}
<1> DEFINE said == UnionBy(s, g, c)
           quiet == MembersQuietly(s, g, c)
           loud == MembersLoudly(s, g, c)
<1> DEFINE decided == FirstOf(quiet, Outcomes \ {"invalid"}, "invalid")
           explained == UnionExplained(loud)
<1>1. /\ DOMAIN quiet = DOMAIN Members(s, c) /\ DOMAIN loud = DOMAIN Members(s, c)
      /\ DOMAIN Members(s, c) \subseteq Nat
      /\ \A i \in DOMAIN Members(s, c) : quiet[i] \in Outcomes /\ loud[i] \in Outcomes
  BY MembersTyped
<1>2. \/ decided = "invalid" /\ \A i \in DOMAIN quiet : quiet[i] \notin Outcomes \ {"invalid"}
      \/ \E i \in DOMAIN quiet : quiet[i] \in Outcomes \ {"invalid"} /\ decided = quiet[i]
  BY <1>1, FirstOfIs
<1>3. \/ explained = "invalid" /\ \A i \in DOMAIN loud : loud[i] \notin {"class", "crash"}
      \/ \E i \in DOMAIN loud : loud[i] \in {"class", "crash"} /\ explained = loud[i]
  BY <1>1, FirstOfIs DEF UnionExplained
<1>4. said = IF decided # "invalid" \/ ~c.raise THEN decided ELSE explained
  BY DEF UnionBy
<1> HIDE DEF decided, explained
<1>5. CASE decided = "invalid"
  <2>1. \A i \in DOMAIN Members(s, c) : quiet[i] = "invalid"
    BY <1>1, <1>2, <1>5
  <2>2. CASE c.raise
    BY <1>1, <1>3, <1>4, <1>5, <2>1, <2>2
  <2>3. CASE ~c.raise
    BY <1>1, <1>4, <1>5, <2>1, <2>3
  <2> QED  BY <2>2, <2>3
<1>6. CASE decided # "invalid"
  BY <1>1, <1>2, <1>4, <1>6
<1> QED  BY <1>5, <1>6

LEMMA RecordSaid ==
    ASSUME NEW s \in Schemas, NEW o, NEW depth, NEW level, Founded(s, depth, level),
           NEW g \in [Calls(s) -> Outcomes], NEW c \in Calls(s),
           TypeOf(s, c.type).type = "record", c.d.k = "map",
           ClassOutcome(TypeOf(s, c.type), c.d) = "valid"
    PROVE  LET t == TypeOf(s, c.type)
               said == RecordBy(s, o, g, c)
               fields == FieldOutcomes(s, g, c)
               keys == KeyOutcomes(t, o, c)
           IN  /\ said = "valid" =>
                     /\ \A i \in DOMAIN t.fields : fields[i] = "valid"
                     /\ \A i \in DOMAIN c.d.m : keys[i] = "valid"
               /\ said \in {"invalid", "class"} =>
                     \/ \E i \in DOMAIN t.fields : fields[i] \in {"invalid", "class"}
                     \/ \E i \in DOMAIN c.d.m : keys[i] \in {"invalid", "return"}
               /\ said = "class" =>
                     \/ ~c.raise /\ \E i \in DOMAIN t.fields : fields[i] = "class"
                     \/ c.raise /\ HasClass(t)
               /\ said = "crash" =>
                     \/ \E i \in DOMAIN t.fields : fields[i] = "crash"
                     \/ \E i \in DOMAIN c.d.m : keys[i] = "crash"
               /\ said = "invalid" /\ c.raise => ~HasClass(t)
<1> DEFINE t == TypeOf(s, c.type)
           said == RecordBy(s, o, g, c)
           fields == FieldOutcomes(s, g, c)
           keys == KeyOutcomes(t, o, c)
<1> DEFINE first == FirstBad(fields)
           ends == FirstOf(keys, {"return", "crash"}, "valid")
           all == ToSet(fields) \union ToSet(keys)
<1>1. /\ DOMAIN fields = DOMAIN t.fields /\ DOMAIN fields \subseteq Nat
      /\ \A i \in DOMAIN fields : fields[i] \in Outcomes
  BY FieldsTyped
<1>2. c.d \in Data /\ c.known \in SUBSET Extensions
  BY CallFields
<1>3. DOMAIN keys = DOMAIN c.d.m /\ DOMAIN keys \subseteq Nat
  BY <1>2, PartsOfDatum DEF KeyOutcomes
<1>4. \A i \in DOMAIN keys : keys[i] \in {"valid", "invalid", "crash", "return"}
  <2>1. \A key \in MapKeys :
           ~IsField(t, key) =>
               KeyOutcome(o, key, c.known, c.raise) \in {"valid", "invalid", "crash", "return"}
    BY <1>2, KeySaid DEF Outcomes
  <2> QED  BY <1>2, <2>1, PartsOfDatum DEF KeyOutcomes
<1>5. \/ first = "valid" /\ \A i \in DOMAIN fields : fields[i] = "valid"
      \/ \E i \in DOMAIN fields : fields[i] # "valid" /\ first = fields[i]
  BY <1>1, FirstBadIs
<1>6. \/ ends = "valid" /\ \A i \in DOMAIN keys : keys[i] \notin {"return", "crash"}
      \/ \E i \in DOMAIN keys : keys[i] \in {"return", "crash"} /\ ends = keys[i]
  BY <1>3, FirstOfIs
<1>7. \A x : x \in all <=> (\E i \in DOMAIN fields : fields[i] = x) \/ (\E i \in DOMAIN keys : keys[i] = x)
  BY DEF ToSet
<1>8. said = RecordOutcome(t, fields, keys, c.raise)
  BY DEF RecordBy
<1>9. said = IF ~c.raise /\ first # "valid" THEN first
             ELSE IF ~c.raise /\ ends # "valid" THEN (IF ends = "return" THEN "invalid" ELSE "crash")
             ELSE IF "crash" \in all THEN "crash"
             ELSE IF all \subseteq {"valid"} THEN "valid"
             ELSE IF c.raise /\ HasClass(t) THEN "class" ELSE "invalid"
  BY <1>8 DEF RecordOutcome
<1> HIDE DEF first, ends, all
<1>10. CASE ~c.raise /\ first # "valid"
  BY <1>1, <1>5, <1>9, <1>10
<1>11. CASE ~c.raise /\ first = "valid" /\ ends # "valid"
  BY <1>3, <1>6, <1>9, <1>11
<1>12. CASE c.raise \/ (first = "valid" /\ ends = "valid")
  <2>1. said = IF "crash" \in all THEN "crash"
               ELSE IF all \subseteq {"valid"} THEN "valid"
               ELSE IF c.raise /\ HasClass(t) THEN "class" ELSE "invalid"
    BY <1>9, <1>12
  <2>2. CASE "crash" \in all
    BY <1>1, <1>3, <1>7, <2>1, <2>2
  <2>3. CASE "crash" \notin all /\ all \subseteq {"valid"}
    BY <1>1, <1>3, <1>7, <2>1, <2>3
  <2>4. CASE "crash" \notin all /\ ~(all \subseteq {"valid"})
    <3>1. PICK x \in all : x \notin {"valid", "crash"}
      BY <2>4
    <3>2. \/ \E i \in DOMAIN fields : fields[i] \in {"invalid", "class"}
          \/ \E i \in DOMAIN keys : keys[i] \in {"invalid", "return"}
      BY <1>1, <1>4, <1>7, <3>1 DEF Outcomes
    <3> QED  BY <1>1, <1>3, <2>1, <2>4, <3>2
  <2> QED  BY <2>2, <2>3, <2>4
<1> QED  BY <1>10, <1>11, <1>12

LEMMA KeysSaid ==
    ASSUME NEW s, NEW o, NEW c \in Calls(s), NEW t, c.d.k = "map"
    PROVE  LET keys == KeyOutcomes(t, o, c)
           IN  /\ (\A i \in DOMAIN c.d.m : keys[i] = "valid") => \A key \in Keys(c.d) : Allowed(o, key, t, c.known)
               /\ (\E i \in DOMAIN c.d.m : keys[i] \in {"invalid", "return"})
                     => \E key \in Keys(c.d) : ~Allowed(o, key, t, c.known)
               /\ (\E i \in DOMAIN c.d.m : keys[i] = "crash") => Keys(c.d) \intersect OddKeys # {}
<1> DEFINE keys == KeyOutcomes(t, o, c)
<1>1. c.d \in Data /\ c.known \in SUBSET Extensions
  BY CallFields
<1>2. ASSUME NEW i \in DOMAIN c.d.m
      PROVE  /\ c.d.m[i][1] \in Keys(c.d)
             /\ keys[i] = "valid" => Allowed(o, c.d.m[i][1], t, c.known)
             /\ keys[i] \in {"invalid", "return"} => ~Allowed(o, c.d.m[i][1], t, c.known)
             /\ keys[i] = "crash" => c.d.m[i][1] \in OddKeys
  <2> DEFINE key == c.d.m[i][1]
  <2>1. key \in Keys(c.d) /\ key \in MapKeys
    BY <1>1, PartsOfDatum DEF Keys
  <2>2. keys[i] = IF IsField(t, key) THEN "valid" ELSE KeyOutcome(o, key, c.known, c.raise)
    BY DEF KeyOutcomes
  <2> HIDE DEF key
  <2>3. CASE IsField(t, key)
    BY <2>1, <2>2, <2>3 DEF Allowed, key
  <2>4. CASE ~IsField(t, key)
    BY <1>1, <2>1, <2>2, <2>4, KeySaid DEF key
  <2> QED  BY <2>3, <2>4
<1>3. \A key \in Keys(c.d) : \E i \in DOMAIN c.d.m : key = c.d.m[i][1]
  BY DEF Keys
<1> QED  BY <1>2, <1>3

LEMMA FieldIs ==
    ASSUME NEW s \in Schemas, NEW depth, NEW level, Founded(s, depth, level), NEW g,
           NEW c \in Calls(s), TypeOf(s, c.type).type = "record", c.d.k = "map",
           NEW i \in DOMAIN TypeOf(s, c.type).fields
    PROVE  LET f == TypeOf(s, c.type).fields[i]
               v == FieldValue(f, c.d)
           IN  /\ f.name = "class" => FieldOutcomes(s, g, c)[i] = "valid"
               /\ f.name # "class" =>
                     \E y \in Calls(s) :
                         /\ FieldOutcomes(s, g, c)[i] = g[y] /\ Lower(depth, level, y, c)
                         /\ y.type = f.type /\ y.d = v /\ y.known = c.known /\ y.raise = c.raise
               /\ v \in Data /\ f.type \in DOMAIN s.types
               /\ Odd[v] => Odd[c.d]
               /\ v.k \notin {"list", "map"} \/ \E j \in DOMAIN c.d.m : v = c.d.m[j][2]
<1> DEFINE f == TypeOf(s, c.type).fields[i]
           v == FieldValue(f, c.d)
           y == Call(f.type, v, c.known, c.raise)
<1>1. c.type \in DOMAIN s.types /\ c.d \in Data /\ c.known \in SUBSET Extensions /\ c.raise \in BOOLEAN
  BY CallFields
<1>2. f.type \in DOMAIN s.types
  BY <1>1, TypesOfSchema
<1>3. /\ v \in Data /\ depth[v] < depth[c.d]
      /\ v.k \notin {"list", "map"} \/ \E j \in DOMAIN c.d.m : v = c.d.m[j][2]
  BY <1>1, FieldValues
<1>4. Odd[v] => Odd[c.d]
  BY <1>1, <1>3, OddParts
<1>5. FieldOutcomes(s, g, c)[i] = IF f.name = "class" THEN "valid" ELSE g[y]
  BY DEF FieldOutcomes, Part
<1>6. /\ y \in Calls(s) /\ Lower(depth, level, y, c)
      /\ y.type = f.type /\ y.d = v /\ y.known = c.known /\ y.raise = c.raise
  BY <1>1, <1>2, <1>3, CallTyped DEF Lower, Call
<1> HIDE DEF y
<1> QED  BY <1>2, <1>3, <1>4, <1>5, <1>6

LEMMA MemberIs ==
    ASSUME NEW s \in Schemas, NEW depth, NEW level, Founded(s, depth, level), NEW g,
           NEW c \in Calls(s), TypeOf(s, c.type).type = "union",
           NEW i \in DOMAIN Members(s, c)
    PROVE  LET m == Members(s, c)[i]
           IN  /\ m \in DOMAIN s.types
               /\ \E y \in Calls(s) :
                     /\ MembersQuietly(s, g, c)[i] = g[y] /\ Lower(depth, level, y, c)
                     /\ y.type = m /\ y.d = c.d /\ y.known = KnownInUnion(c.known) /\ y.raise = Quiet
               /\ \E z \in Calls(s) :
                     /\ MembersLoudly(s, g, c)[i] = IF Skipped(TypeOf(s, m), c.d) THEN "invalid" ELSE g[z]
                     /\ Lower(depth, level, z, c)
                     /\ z.type = m /\ z.d = c.d /\ z.known = c.known /\ z.raise = Loud
<1> DEFINE m == Members(s, c)[i]
           y == Call(m, c.d, {}, Quiet)
           z == Call(m, c.d, c.known, Loud)
<1>1. c.type \in DOMAIN s.types /\ c.d \in Data /\ c.known \in SUBSET Extensions
  BY CallFields
<1>2. m \in DOMAIN s.types /\ level[m] < level[c.type]
  BY <1>1, TypesOfSchema DEF Members, Founded, TypeOf
<1>3. {} \in SUBSET Extensions
  OBVIOUS
<1>4. y \in Calls(s) /\ z \in Calls(s)
  BY <1>1, <1>2, <1>3, Modes, CallTyped
<1>5. /\ Lower(depth, level, y, c) /\ Lower(depth, level, z, c)
      /\ y.type = m /\ y.d = c.d /\ y.known = KnownInUnion(c.known) /\ y.raise = Quiet
      /\ z.type = m /\ z.d = c.d /\ z.known = c.known /\ z.raise = Loud
  BY <1>2 DEF Lower, Call, KnownInUnion
<1>6. /\ MembersQuietly(s, g, c)[i] = g[y]
      /\ MembersLoudly(s, g, c)[i] = IF Skipped(TypeOf(s, m), c.d) THEN "invalid" ELSE g[z]
  BY DEF MembersQuietly, MembersLoudly, KnownInUnion
<1> HIDE DEF m, y, z
<1> QED  BY <1>2, <1>4, <1>5, <1>6 DEF m

----------------------------------------------------------------------------
(* validate_ex means what the schema says *)

LEMMA Validates ==
    ASSUME NEW s \in Schemas, NEW o, NEW depth, NEW level, Founded(s, depth, level),
           NEW c \in Calls(s), NEW t, t = TypeOf(s, c.type)
    PROVE  LET V == ValidateEx(s, o)
           IN  /\ V \in [Calls(s) -> Outcomes] /\ V[c] \in Outcomes
               /\ t.type \in ScalarTypes \union {"array", "map", "union", "record"}
               /\ t.type \in ScalarTypes => V[c] = Verdict(Scalar(t, c.d))
               /\ t.type \in {"array", "map"} => V[c] = PartsBy(s, V, c)
               /\ t.type = "union" => V[c] = UnionBy(s, V, c)
               /\ t.type = "record" => t.name # "" /\ V[c] = RecordBy(s, o, V, c)
<1> DEFINE V == ValidateEx(s, o)
<1>1. V \in [Calls(s) -> Outcomes] /\ V[c] = ValidateBy(s, o, V, c)
  BY ValidateIs
<1>2. /\ t.type \in ScalarTypes \union {"array", "map", "union", "record"}
      /\ t.type = "record" => t.name # ""
  BY CallFields, TypesOfSchema
<1> HIDE DEF V
<1>3. t.type \in ScalarTypes => V[c] = Verdict(Scalar(t, c.d))
  BY <1>1 DEF ValidateBy, ScalarTypes
<1>4. t.type \in {"array", "map"} => V[c] = PartsBy(s, V, c)
  BY <1>1 DEF ValidateBy, ScalarTypes
<1>5. t.type = "union" => V[c] = UnionBy(s, V, c)
  BY <1>1 DEF ValidateBy, ScalarTypes
<1>6. t.type = "record" => V[c] = RecordBy(s, o, V, c)
  BY <1>1 DEF ValidateBy, ScalarTypes
<1> QED  BY <1>1, <1>2, <1>3, <1>4, <1>5, <1>6 DEF V

LEMMA Conforming ==
    ASSUME NEW s \in Schemas, NEW o, NEW depth, NEW level, Founded(s, depth, level),
           NEW q \in Questions(s), NEW t, t = TypeOf(s, q.type)
    PROVE  LET C == Conforms(s, o)
           IN  /\ t.type \in ScalarTypes => (C[q] <=> ScalarConforms(t, q.d))
               /\ t.type = "array" => (C[q] <=> ListConforms(t, C, q))
               /\ t.type = "map" => (C[q] <=> MapConforms(t, C, q))
               /\ t.type = "union" => (C[q] <=> UnionConforms(t, C, q))
               /\ t.type = "record" => (C[q] <=> RecordConforms(t, o, C, q))
<1> DEFINE C == Conforms(s, o)
<1>1. C[q] = ConformsBy(s, o, C, q)
  BY ConformsIs
<1> HIDE DEF C
<1>2. t.type \in ScalarTypes => (C[q] <=> ScalarConforms(t, q.d))
  BY <1>1 DEF ConformsBy, ScalarTypes, ScalarConforms
<1>3. t.type = "array" => (C[q] <=> ListConforms(t, C, q))
  BY <1>1 DEF ConformsBy, ScalarTypes, ListConforms
<1>4. t.type = "map" => (C[q] <=> MapConforms(t, C, q))
  BY <1>1 DEF ConformsBy, ScalarTypes, MapConforms
<1>5. t.type = "union" => (C[q] <=> UnionConforms(t, C, q))
  BY <1>1 DEF ConformsBy, ScalarTypes, UnionConforms
<1>6. t.type = "record" => (C[q] <=> RecordConforms(t, o, C, q))
  BY <1>1 DEF ConformsBy, ScalarTypes, RecordConforms
<1> QED  BY <1>2, <1>3, <1>4, <1>5, <1>6 DEF C

\* Quietly there is no exception that names a class.
LEMMA QuietSaysNoClass ==
    ASSUME NEW s \in Schemas, NEW o, NEW depth, NEW level, Founded(s, depth, level),
           NEW c \in Calls(s), c.raise = Quiet
    PROVE  ValidateEx(s, o)[c] # "class"
<1> DEFINE V == ValidateEx(s, o)
           D == {x \in Calls(s) : x.raise = Quiet /\ V[x] = "class"}
<1> SUFFICES ASSUME D # {} PROVE FALSE
  OBVIOUS
<1>1. PICK x \in D : \A y \in D : ~Lower(depth, level, y, x)
  <2> D \in SUBSET Calls(s)
    OBVIOUS
  <2> HIDE DEF D
  <2> QED  BY LowestCall
<1> DEFINE t == TypeOf(s, x.type)
<1>2. x \in Calls(s) /\ x.raise = Quiet /\ V[x] = "class" /\ x.d \in Data
  BY <1>1, CallFields
<1>3. \A y \in Calls(s) : y.raise = Quiet /\ Lower(depth, level, y, x) => V[y] # "class"
  BY <1>1
<1>4. /\ V \in [Calls(s) -> Outcomes]
      /\ t.type \in ScalarTypes \union {"array", "map", "union", "record"}
      /\ t.type \in ScalarTypes => V[x] = Verdict(Scalar(t, x.d))
      /\ t.type \in {"array", "map"} => V[x] = PartsBy(s, V, x)
      /\ t.type = "union" => V[x] = UnionBy(s, V, x)
      /\ t.type = "record" => t.name # "" /\ V[x] = RecordBy(s, o, V, x)
  BY <1>2, Validates
<1> HIDE DEF V, D
<1>5. CASE t.type \in ScalarTypes
  BY <1>2, <1>4, <1>5 DEF Verdict
<1>6. CASE t.type \in {"array", "map"}
  BY <1>2, <1>4, <1>6, PartsSaid
<1>7. CASE t.type = "union"
  <2>1. PICK i \in DOMAIN Members(s, x) : MembersQuietly(s, V, x)[i] = "class"
    BY <1>2, <1>4, <1>7, UnionSaid DEF Quiet
  <2>2. PICK y \in Calls(s) :
           V[y] = "class" /\ Lower(depth, level, y, x) /\ y.raise = Quiet
    BY <1>2, <1>7, <2>1, MemberIs
  <2> QED  BY <1>3, <2>2
<1>8. CASE t.type = "record"
  <2>1. x.d.k = "map" /\ ClassOutcome(t, x.d) = "valid"
    BY <1>2, <1>4, <1>8, ClassSaid DEF RecordBy, ClassOutcome
  <2>2. PICK i \in DOMAIN t.fields : FieldOutcomes(s, V, x)[i] = "class"
    <3>1. /\ RecordBy(s, o, V, x) = "class" =>
                \/ ~x.raise /\ \E i \in DOMAIN t.fields : FieldOutcomes(s, V, x)[i] = "class"
                \/ x.raise /\ HasClass(t)
      BY <1>2, <1>4, <1>8, <2>1, RecordSaid
    <3>2. ~x.raise
      BY <1>2 DEF Quiet
    <3> QED  BY <1>2, <1>4, <1>8, <3>1, <3>2
  <2>3. PICK y \in Calls(s) :
           V[y] = "class" /\ Lower(depth, level, y, x) /\ y.raise = Quiet
    BY <1>2, <1>8, <2>1, <2>2, FieldIs
  <2> QED  BY <1>3, <2>3
<1> QED  BY <1>4, <1>5, <1>6, <1>7, <1>8

\* validate_ex fails otherwise than it should only on what is odd.
LEMMA CrashIsOdd ==
    ASSUME NEW s \in Schemas, NEW o, NEW depth, NEW level, Founded(s, depth, level),
           NEW c \in Calls(s), ValidateEx(s, o)[c] = "crash"
    PROVE  Odd[c.d]
<1> DEFINE V == ValidateEx(s, o)
           D == {x \in Calls(s) : V[x] = "crash" /\ ~Odd[x.d]}
<1> SUFFICES ASSUME D # {} PROVE FALSE
  OBVIOUS
<1>1. PICK x \in D : \A y \in D : ~Lower(depth, level, y, x)
  <2> D \in SUBSET Calls(s)
    OBVIOUS
  <2> HIDE DEF D
  <2> QED  BY LowestCall
<1> DEFINE t == TypeOf(s, x.type)
<1>2. x \in Calls(s) /\ V[x] = "crash" /\ ~Odd[x.d] /\ x.d \in Data
  BY <1>1, CallFields
<1>3. \A y \in Calls(s) : Lower(depth, level, y, x) /\ V[y] = "crash" => Odd[y.d]
  BY <1>1
<1>4. /\ V \in [Calls(s) -> Outcomes]
      /\ t.type \in ScalarTypes \union {"array", "map", "union", "record"}
      /\ t.type \in ScalarTypes => V[x] = Verdict(Scalar(t, x.d))
      /\ t.type \in {"array", "map"} => V[x] = PartsBy(s, V, x)
      /\ t.type = "union" => V[x] = UnionBy(s, V, x)
      /\ t.type = "record" => t.name # "" /\ V[x] = RecordBy(s, o, V, x)
  BY <1>2, Validates
<1> HIDE DEF V, D
<1>5. CASE t.type \in ScalarTypes
  BY <1>2, <1>4, <1>5 DEF Verdict
<1>6. CASE t.type \in {"array", "map"}
  <2>1. PICK i \in DOMAIN PartOutcomes(s, V, x) : PartOutcomes(s, V, x)[i] = "crash"
    BY <1>2, <1>4, <1>6, PartsSaid
  <2>2. x.d.k = Expected(t)
    BY <1>2, <1>4, <1>6, PartsSaid
  <2>3. PICK y \in Calls(s) : V[y] = "crash" /\ Lower(depth, level, y, x) /\ (Odd[y.d] => Odd[x.d])
    BY <1>2, <1>6, <2>1, <2>2, PartIs
  <2> QED  BY <1>2, <1>3, <2>3
<1>7. CASE t.type = "union"
  <2>1. PICK i \in DOMAIN Members(s, x) :
           MembersQuietly(s, V, x)[i] = "crash" \/ MembersLoudly(s, V, x)[i] = "crash"
    BY <1>2, <1>4, <1>7, UnionSaid
  <2>2. PICK y \in Calls(s) : V[y] = "crash" /\ Lower(depth, level, y, x) /\ y.d = x.d
    BY <1>2, <1>7, <2>1, MemberIs
  <2> QED  BY <1>2, <1>3, <2>2
<1>8. CASE t.type = "record"
  <2>1. x.d.k = "map"
    BY <1>2, <1>4, <1>8 DEF RecordBy
  <2>2. CASE ClassOutcome(t, x.d) = "valid"
    <3>1. CASE \E i \in DOMAIN t.fields : FieldOutcomes(s, V, x)[i] = "crash"
      <4>1. PICK y \in Calls(s) : V[y] = "crash" /\ Lower(depth, level, y, x) /\ (Odd[y.d] => Odd[x.d])
        BY <1>2, <1>8, <2>1, <3>1, FieldIs
      <4> QED  BY <1>2, <1>3, <4>1
    <3>2. CASE \E i \in DOMAIN x.d.m : KeyOutcomes(t, o, x)[i] = "crash"
      <4>1. Keys(x.d) \intersect OddKeys # {}
        BY <1>2, <2>1, <3>2, KeysSaid
      <4> QED  BY <1>2, <2>1, <4>1, OddParts
    <3>3. RecordBy(s, o, V, x) = "crash" =>
             \/ \E i \in DOMAIN t.fields : FieldOutcomes(s, V, x)[i] = "crash"
             \/ \E i \in DOMAIN x.d.m : KeyOutcomes(t, o, x)[i] = "crash"
      <4>1. x \in Calls(s) /\ V \in [Calls(s) -> Outcomes]
        BY <1>2, <1>4
      <4> QED  BY <1>8, <2>1, <2>2, <4>1, RecordSaid
    <3> QED  BY <1>2, <1>4, <1>8, <3>1, <3>2, <3>3
  <2>3. CASE ClassOutcome(t, x.d) # "valid"
    <3>1. ClassOutcome(t, x.d) = "crash" /\ HasClass(t)
      BY <1>2, <1>4, <1>8, <2>1, <2>3 DEF RecordBy, ClassOutcome
    <3>2. "class" \in Keys(x.d) /\ Get(x.d, "class").k # "str"
      BY <1>2, <1>4, <1>8, <2>1, <3>1, ClassSaid
    <3> QED  BY <1>2, <2>1, <3>2, OddParts
  <2> QED  BY <2>2, <2>3
<1> QED  BY <1>4, <1>5, <1>6, <1>7, <1>8

\* No key that is known is where a union may be tried.
Clean(s, c) ==
    \/ Apart(c.d, c.known)
    \/ /\ TypeOf(s, c.type).type # "union" /\ c.d.k = "map"
       /\ \A i \in DOMAIN c.d.m : Apart(c.d.m[i][2], c.known)

LEMMA CleanParts ==
    ASSUME NEW s \in Schemas, NEW depth, NEW level, Founded(s, depth, level),
           NEW c \in Calls(s), Clean(s, c)
    PROVE  /\ c.d.k = "list" => \A i \in DOMAIN c.d.s : Apart(c.d.s[i], c.known)
           /\ c.d.k = "map"  => \A i \in DOMAIN c.d.m : Apart(c.d.m[i][2], c.known)
           /\ TypeOf(s, c.type).type = "union" => Apart(c.d, c.known)
BY CallFields, PartsApart DEF Clean

\* The verdict is what the schema says.
Ask(c) == Question(c.type, c.d, c.known)
Right(s, o, c) ==
    /\ ValidateEx(s, o)[c] = "valid" => Conforms(s, o)[Ask(c)]
    /\ ValidateEx(s, o)[c] \in {"invalid", "class"} => ~Conforms(s, o)[Ask(c)]

LEMMA AskIs ==
    ASSUME NEW s, NEW c \in Calls(s)
    PROVE  /\ Ask(c) \in Questions(s)
           /\ Ask(c).type = c.type /\ Ask(c).d = c.d /\ Ask(c).known = c.known
BY CallFields, QuestionTyped DEF Ask, Question

LEMMA VerdictIsRight ==
    ASSUME NEW s \in Schemas, NEW o, NEW depth, NEW level, Founded(s, depth, level),
           NEW c \in Calls(s), Clean(s, c)
    PROVE  Right(s, o, c)
<1> DEFINE V == ValidateEx(s, o)
           C == Conforms(s, o)
           D == {x \in Calls(s) : Clean(s, x) /\ ~Right(s, o, x)}
<1> SUFFICES ASSUME D # {} PROVE FALSE
  OBVIOUS
<1>1. PICK x \in D : \A y \in D : ~Lower(depth, level, y, x)
  <2> D \in SUBSET Calls(s)
    OBVIOUS
  <2> HIDE DEF D
  <2> QED  BY LowestCall
<1> DEFINE t == TypeOf(s, x.type)
           q == Ask(x)
<1>2. x \in Calls(s) /\ Clean(s, x) /\ ~Right(s, o, x) /\ x.d \in Data /\ x.type \in DOMAIN s.types
  BY <1>1, CallFields
<1>3. ASSUME NEW y \in Calls(s), Lower(depth, level, y, x), Clean(s, y)
      PROVE  /\ V[y] = "valid" => C[Ask(y)]
             /\ V[y] \in {"invalid", "class"} => ~C[Ask(y)]
  BY <1>1, <1>3 DEF Right
<1>4. /\ V \in [Calls(s) -> Outcomes] /\ V[x] \in Outcomes
      /\ t.type \in ScalarTypes \union {"array", "map", "union", "record"}
      /\ t.type \in ScalarTypes => V[x] = Verdict(Scalar(t, x.d))
      /\ t.type \in {"array", "map"} => V[x] = PartsBy(s, V, x)
      /\ t.type = "union" => V[x] = UnionBy(s, V, x)
      /\ t.type = "record" => t.name # "" /\ V[x] = RecordBy(s, o, V, x)
  BY <1>2, Validates
<1>5. q \in Questions(s) /\ q.type = x.type /\ q.d = x.d /\ q.known = x.known
  BY <1>2, AskIs
<1>6. /\ t.type \in ScalarTypes => (C[q] <=> ScalarConforms(t, x.d))
      /\ t.type = "array" => (C[q] <=> ListConforms(t, C, q))
      /\ t.type = "map" => (C[q] <=> MapConforms(t, C, q))
      /\ t.type = "union" => (C[q] <=> UnionConforms(t, C, q))
      /\ t.type = "record" => (C[q] <=> RecordConforms(t, o, C, q))
  BY <1>5, Conforming
<1>7. /\ x.d.k = "list" => \A i \in DOMAIN x.d.s : Apart(x.d.s[i], x.known)
      /\ x.d.k = "map"  => \A i \in DOMAIN x.d.m : Apart(x.d.m[i][2], x.known)
      /\ t.type = "union" => Apart(x.d, x.known)
  BY <1>2, CleanParts
<1>8. ~((V[x] = "valid" => C[q]) /\ (V[x] \in {"invalid", "class"} => ~C[q]))
  BY <1>2 DEF Right
<1> HIDE DEF V, D, C, q
<1>9. CASE t.type \in ScalarTypes
  BY <1>2, <1>4, <1>6, <1>8, <1>9, ScalarSaid DEF Verdict
<1>10. CASE t.type \in {"array", "map"}
  <2> DEFINE parts == PartOutcomes(s, V, x)
  <2>1. ASSUME x.d.k = Expected(t), NEW i \in DOMAIN parts
        PROVE  /\ parts[i] = "valid" => Means(C, t.of, PartAt(s, x, i), q)
               /\ parts[i] \in {"invalid", "class"} => ~Means(C, t.of, PartAt(s, x, i), q)
    <3>1. PICK y \in Calls(s) :
             /\ parts[i] = V[y] /\ Lower(depth, level, y, x)
             /\ y.type = t.of /\ y.d = PartAt(s, x, i) /\ y.known = x.known
      BY <1>2, <1>10, <2>1, PartIs
    <3>2. Apart(y.d, y.known)
      BY <1>7, <1>10, <2>1, <3>1 DEF PartAt, Expected, PartOutcomes
    <3>3. C[Ask(y)] = Means(C, t.of, PartAt(s, x, i), q)
      BY <1>5, <3>1 DEF Ask, Means
    <3> QED  BY <1>3, <3>1, <3>2, <3>3 DEF Clean
  <2>2. /\ V[x] \in {"valid", "invalid", "crash"}
        /\ V[x] = "valid" => x.d.k = Expected(t) /\ \A i \in DOMAIN parts : parts[i] = "valid"
        /\ V[x] = "invalid" =>
              x.d.k # Expected(t) \/ \E i \in DOMAIN parts : parts[i] \in {"invalid", "class"}
    BY <1>2, <1>4, <1>10, PartsSaid
  <2> HIDE DEF parts
  <2>3. CASE t.type = "array"
    <3>1. /\ Expected(t) = "list"
          /\ DOMAIN parts = DOMAIN x.d.s /\ \A i \in DOMAIN parts : PartAt(s, x, i) = x.d.s[i]
      BY <2>3 DEF Expected, parts, PartOutcomes, PartAt
    <3>2. C[q] <=> x.d.k = "list" /\ \A i \in DOMAIN x.d.s : Means(C, t.of, x.d.s[i], q)
      BY <1>5, <1>6, <2>3 DEF ListConforms
    <3> QED  BY <1>8, <2>1, <2>2, <3>1, <3>2
  <2>4. CASE t.type = "map"
    <3>1. /\ Expected(t) = "map"
          /\ DOMAIN parts = DOMAIN x.d.m /\ \A i \in DOMAIN parts : PartAt(s, x, i) = x.d.m[i][2]
      BY <2>4 DEF Expected, parts, PartOutcomes, PartAt
    <3>2. C[q] <=> x.d.k = "map" /\ \A i \in DOMAIN x.d.m : Means(C, t.of, x.d.m[i][2], q)
      BY <1>5, <1>6, <2>4 DEF MapConforms
    <3> QED  BY <1>8, <2>1, <2>2, <3>1, <3>2
  <2> QED  BY <1>10, <2>3, <2>4
<1>11. CASE t.type = "union"
  <2> DEFINE quiet == MembersQuietly(s, V, x)
  <2>1. ASSUME NEW i \in DOMAIN Members(s, x)
        PROVE  /\ quiet[i] = "valid" => Means(C, t.members[i], q.d, q)
               /\ quiet[i] = "invalid" => ~Means(C, t.members[i], q.d, q)
               /\ quiet[i] # "class"
    <3>1. PICK y \in Calls(s) :
             /\ quiet[i] = V[y] /\ Lower(depth, level, y, x)
             /\ y.type = t.members[i] /\ y.d = x.d /\ y.known = {} /\ y.raise = Quiet
      <4>1. PICK w : w = quiet[i]
        OBVIOUS
      <4>2. PICK y \in Calls(s) :
               /\ w = V[y] /\ Lower(depth, level, y, x)
               /\ y.type = Members(s, x)[i] /\ y.d = x.d
               /\ y.known = KnownInUnion(x.known) /\ y.raise = Quiet
        BY <1>2, <1>11, <4>1, MemberIs
      <4> QED  BY <4>1, <4>2 DEF Members, KnownInUnion
    <3>2. /\ V[y] = "valid" => C[Ask(y)]
          /\ V[y] = "invalid" => ~C[Ask(y)]
      BY <1>3, <3>1 DEF Clean, Apart
    <3>3. V[y] # "class"
      BY <3>1, QuietSaysNoClass DEF V
    <3>4. C[Ask(y)] = Means(C, t.members[i], q.d, q)
      <4> DEFINE p == Question(t.members[i], x.d, x.known)
      <4>1. p \in Questions(s) /\ p.type = y.type /\ p.d = x.d /\ p.known = x.known
        BY <1>2, <3>1, CallFields, QuestionTyped DEF Question
      <4>2. C[p] = C[Question(p.type, p.d, {})]
        BY <1>7, <1>11, <4>1, KnownImmaterial DEF C
      <4> QED  BY <1>5, <3>1, <4>1, <4>2 DEF Ask, Means
    <3> QED  BY <3>1, <3>2, <3>3, <3>4
  <2>2. /\ V[x] = "valid" => \E i \in DOMAIN Members(s, x) : quiet[i] = "valid"
        /\ V[x] \in {"invalid", "class"} =>
              \/ \A i \in DOMAIN Members(s, x) : quiet[i] = "invalid"
              \/ \E i \in DOMAIN Members(s, x) : quiet[i] = "class"
    BY <1>2, <1>4, <1>11, UnionSaid
  <2>3. C[q] <=> \E i \in DOMAIN Members(s, x) : Means(C, t.members[i], q.d, q)
    BY <1>6, <1>11 DEF UnionConforms, Members
  <2> HIDE DEF quiet
  <2> QED  BY <1>8, <2>1, <2>2, <2>3
<1>12. CASE t.type = "record"
  <2>1. CASE x.d.k # "map"
    BY <1>4, <1>5, <1>6, <1>8, <1>12, <2>1 DEF RecordBy, RecordConforms
  <2>2. CASE x.d.k = "map" /\ ClassOutcome(t, x.d) # "valid"
    <3>1. V[x] = ClassOutcome(t, x.d) /\ HasClass(t)
      BY <1>4, <1>12, <2>2 DEF RecordBy, ClassOutcome
    <3>2. V[x] \in {"invalid", "crash"} /\ ~ClassIs(t, x.d)
      BY <1>2, <1>4, <1>12, <2>2, <3>1, ClassSaid
    <3>3. ~C[q]
      BY <1>5, <1>6, <1>12, <3>1, <3>2 DEF RecordConforms, HasClass
    <3> QED  BY <1>8, <3>2, <3>3
  <2>3. CASE x.d.k = "map" /\ ClassOutcome(t, x.d) = "valid"
    <3> DEFINE fields == FieldOutcomes(s, V, x)
               keys == KeyOutcomes(t, o, x)
               FieldConforms(i) == IF t.fields[i].name = "class" THEN ClassIs(t, x.d)
                                   ELSE Means(C, t.fields[i].type, FieldValue(t.fields[i], x.d), q)
    <3>1. HasClass(t) => ClassIs(t, x.d)
      BY <1>2, <1>4, <1>12, <2>3, ClassSaid
    <3>2. ASSUME NEW i \in DOMAIN t.fields
          PROVE  /\ fields[i] = "valid" => FieldConforms(i)
                 /\ fields[i] \in {"invalid", "class"} => ~FieldConforms(i)
      <4>1. CASE t.fields[i].name = "class"
        <5>1. fields[i] = "valid"
          BY <1>2, <1>12, <2>3, <4>1, FieldIs
        <5> QED  BY <3>1, <4>1, <5>1 DEF HasClass
      <4>2. CASE t.fields[i].name # "class"
        <5> DEFINE v == FieldValue(t.fields[i], x.d)
        <5>1. PICK y \in Calls(s) :
                 /\ fields[i] = V[y] /\ Lower(depth, level, y, x)
                 /\ y.type = t.fields[i].type /\ y.d = v /\ y.known = x.known
          BY <1>2, <1>12, <2>3, <4>2, FieldIs
        <5>2. v \in Data /\ (v.k \notin {"list", "map"} \/ \E j \in DOMAIN x.d.m : v = x.d.m[j][2])
          BY <1>2, <1>12, <2>3, FieldIs
        <5>3. Apart(v, x.known)
          BY <1>7, <2>3, <5>2, ScalarsApart
        <5>4. C[Ask(y)] = Means(C, t.fields[i].type, v, q)
          BY <1>5, <5>1 DEF Ask, Means
        <5>5. /\ V[y] = "valid" => C[Ask(y)]
              /\ V[y] \in {"invalid", "class"} => ~C[Ask(y)]
          BY <1>3, <5>1, <5>3 DEF Clean
        <5> QED  BY <4>2, <5>1, <5>4, <5>5
      <4> QED  BY <4>1, <4>2
    <3>3. /\ V[x] = "valid" =>
                /\ \A i \in DOMAIN t.fields : fields[i] = "valid"
                /\ \A i \in DOMAIN x.d.m : keys[i] = "valid"
          /\ V[x] \in {"invalid", "class"} =>
                \/ \E i \in DOMAIN t.fields : fields[i] \in {"invalid", "class"}
                \/ \E i \in DOMAIN x.d.m : keys[i] \in {"invalid", "return"}
      <4>1. x \in Calls(s) /\ V \in [Calls(s) -> Outcomes] /\ V[x] = RecordBy(s, o, V, x)
        BY <1>2, <1>4, <1>12
      <4> QED  BY <1>12, <2>3, <4>1, RecordSaid
    <3>4. /\ (\A i \in DOMAIN x.d.m : keys[i] = "valid") => \A key \in Keys(x.d) : Allowed(o, key, t, x.known)
          /\ (\E i \in DOMAIN x.d.m : keys[i] \in {"invalid", "return"})
                => \E key \in Keys(x.d) : ~Allowed(o, key, t, x.known)
      BY <1>2, <2>3, KeysSaid
    <3>5. C[q] <=> /\ \A key \in Keys(x.d) : Allowed(o, key, t, x.known)
                   /\ \A i \in DOMAIN t.fields : FieldConforms(i)
      BY <1>5, <1>6, <1>12, <2>3 DEF RecordConforms
    <3> HIDE DEF fields, keys, FieldConforms
    <3> QED  BY <1>8, <3>2, <3>3, <3>4, <3>5
  <2> QED  BY <2>1, <2>2, <2>3
<1> QED  BY <1>4, <1>9, <1>10, <1>11, <1>12

----------------------------------------------------------------------------
(* The class that matched *)

\* The class of the datum stands for the type, or for a member of it.
ClassOf(s, type, d) ==
    /\ d.k = "map"
    /\ LET t == TypeOf(s, type)
       IN  \/ Matches(t, d)
           \/ t.type = "union" /\ \E m \in ToSet(t.members) : Matches(TypeOf(s, m), d)

\* A ClassValidationException comes from a type whose class the datum has.
LEMMA ClassMeans ==
    ASSUME NEW s \in Schemas, NEW o, NEW depth, NEW level, Founded(s, depth, level),
           NEW c \in Calls(s), ValidateEx(s, o)[c] = "class"
    PROVE  ClassOf(s, c.type, c.d)
<1> DEFINE V == ValidateEx(s, o)
           D == {x \in Calls(s) : V[x] = "class" /\ ~ClassOf(s, x.type, x.d)}
<1> SUFFICES ASSUME D # {} PROVE FALSE
  OBVIOUS
<1>1. PICK x \in D : \A y \in D : ~Lower(depth, level, y, x)
  <2> D \in SUBSET Calls(s)
    OBVIOUS
  <2> HIDE DEF D
  <2> QED  BY LowestCall
<1> DEFINE t == TypeOf(s, x.type)
<1>2. x \in Calls(s) /\ V[x] = "class" /\ ~ClassOf(s, x.type, x.d) /\ x.d \in Data
  BY <1>1, CallFields
<1>3. \A y \in Calls(s) : Lower(depth, level, y, x) /\ V[y] = "class" => ClassOf(s, y.type, y.d)
  BY <1>1
<1>4. /\ V \in [Calls(s) -> Outcomes]
      /\ t.type \in ScalarTypes \union {"array", "map", "union", "record"}
      /\ t.type \in ScalarTypes => V[x] = Verdict(Scalar(t, x.d))
      /\ t.type \in {"array", "map"} => V[x] = PartsBy(s, V, x)
      /\ t.type = "union" => V[x] = UnionBy(s, V, x)
      /\ t.type = "record" => t.name # "" /\ V[x] = RecordBy(s, o, V, x)
  BY <1>2, Validates
<1>5. \A y \in Calls(s) : V[y] = "class" => y.raise # Quiet
  BY QuietSaysNoClass
<1> HIDE DEF V, D
<1>6. CASE t.type \in ScalarTypes
  BY <1>2, <1>4, <1>6 DEF Verdict
<1>7. CASE t.type \in {"array", "map"}
  BY <1>2, <1>4, <1>7, PartsSaid
<1>8. CASE t.type = "union"
  <2>1. ASSUME NEW i \in DOMAIN Members(s, x), MembersQuietly(s, V, x)[i] = "class"
        PROVE  FALSE
    <3>1. PICK y \in Calls(s) : V[y] = "class" /\ y.raise = Quiet
      BY <1>2, <1>8, <2>1, MemberIs
    <3> QED  BY <1>5, <3>1
  <2>2. PICK i \in DOMAIN Members(s, x) : MembersLoudly(s, V, x)[i] = "class"
    BY <1>2, <1>4, <1>8, <2>1, UnionSaid
  <2> DEFINE m == Members(s, x)[i]
  <2>3. PICK z \in Calls(s) :
           /\ MembersLoudly(s, V, x)[i] = IF Skipped(TypeOf(s, m), x.d) THEN "invalid" ELSE V[z]
           /\ Lower(depth, level, z, x) /\ z.type = m /\ z.d = x.d
    BY <1>2, <1>8, <2>2, MemberIs
  <2>4. ~Skipped(TypeOf(s, m), x.d) /\ V[z] = "class"
    BY <2>2, <2>3
  <2>5. ClassOf(s, m, x.d)
    BY <1>3, <2>3, <2>4
  <2>6. x.d.k = "map" /\ Matches(TypeOf(s, m), x.d)
    BY <2>4, <2>5 DEF ClassOf, Skipped
  <2>7. m \in ToSet(t.members)
    BY DEF Members, ToSet
  <2> QED  BY <1>2, <1>8, <2>6, <2>7 DEF ClassOf
<1>9. CASE t.type = "record"
  <2>1. x.d.k = "map"
    BY <1>2, <1>4, <1>9 DEF RecordBy
  <2>2. ClassOutcome(t, x.d) = "valid"
    <3>1. HasClass(t) => ClassOutcome(t, x.d) # "class"
      BY <1>2, <1>4, <1>9, <2>1, ClassSaid
    <3> QED  BY <1>2, <1>4, <1>9, <2>1, <3>1 DEF RecordBy, ClassOutcome
  <2>3. HasClass(t)
    <3>1. x \in Calls(s) /\ V \in [Calls(s) -> Outcomes] /\ V[x] = RecordBy(s, o, V, x)
      BY <1>2, <1>4, <1>9
    <3>2. RecordBy(s, o, V, x) = "class" =>
             \/ ~x.raise /\ \E i \in DOMAIN t.fields : FieldOutcomes(s, V, x)[i] = "class"
             \/ x.raise /\ HasClass(t)
      BY <1>9, <2>1, <2>2, <3>1, RecordSaid
    <3>3. x.raise
      BY <1>2, <1>5, CallFields DEF Quiet
    <3> QED  BY <1>2, <3>1, <3>2, <3>3
  <2>4. ClassMatches(t, x.d)
    BY <1>2, <1>4, <1>9, <2>1, <2>2, <2>3, ClassSaid
  <2> QED  BY <1>2, <1>9, <2>1, <2>3, <2>4 DEF ClassMatches, ClassOf, Matches
<1> QED  BY <1>4, <1>6, <1>7, <1>8, <1>9

\* Loudly, a record whose class matches never hides it.
LEMMA MatchedRecord ==
    ASSUME NEW s \in Schemas, NEW o, NEW depth, NEW level, Founded(s, depth, level),
           NEW c \in Calls(s), c.raise = Loud, c.d.k = "map", Matches(TypeOf(s, c.type), c.d)
    PROVE  ValidateEx(s, o)[c] # "invalid"
<1> DEFINE V == ValidateEx(s, o)
           t == TypeOf(s, c.type)
<1>1. t.type = "record" /\ HasClass(t) /\ ClassMatches(t, c.d) /\ c.d \in Data
  BY CallFields DEF Matches, ClassMatches
<1>2. V \in [Calls(s) -> Outcomes] /\ t.name # "" /\ V[c] = RecordBy(s, o, V, c)
  BY <1>1, Validates
<1>3. ClassOutcome(t, c.d) = "valid"
  BY <1>1, <1>2, ClassSaid
<1> HIDE DEF V
<1>4. RecordBy(s, o, V, c) = "invalid" /\ c.raise => ~HasClass(t)
  <2>1. V \in [Calls(s) -> Outcomes] /\ t.type = "record"
    BY <1>1, <1>2
  <2>2. RecordBy(s, o, V, c) = "invalid" => (c.raise => ~HasClass(t))
    BY <1>1, <1>3, <2>1, RecordSaid
  <2> QED  BY <2>2
<1> QED  BY <1>1, <1>2, <1>4 DEF Loud, V

\* A datum that has the class of the type, and does not conform to it, is told so.
LEMMA MatchedDecides ==
    ASSUME NEW s \in Schemas, NEW o, NEW depth, NEW level, Founded(s, depth, level),
           NEW c \in Calls(s), c.raise = Loud, Clean(s, c), ClassOf(s, c.type, c.d),
           ~Conforms(s, o)[Ask(c)]
    PROVE  ValidateEx(s, o)[c] \in {"class", "crash"}
<1> DEFINE V == ValidateEx(s, o)
           C == Conforms(s, o)
           t == TypeOf(s, c.type)
           q == Ask(c)
<1>1. V \in [Calls(s) -> Outcomes] /\ V[c] \in Outcomes /\ (t.type = "union" => V[c] = UnionBy(s, V, c))
  BY Validates
<1>2. V[c] # "valid"
  BY VerdictIsRight DEF Right
<1>3. CASE Matches(t, c.d)
  <2>1. V[c] # "invalid"
    BY <1>3, MatchedRecord DEF ClassOf
  <2> QED  BY <1>1, <1>2, <2>1 DEF Outcomes
<1>4. CASE ~Matches(t, c.d)
  <2>1. t.type = "union" /\ c.d.k = "map"
    BY <1>4 DEF ClassOf
  <2>2. PICK m \in ToSet(t.members) : Matches(TypeOf(s, m), c.d)
    BY <1>4 DEF ClassOf
  <2>3. PICK i \in DOMAIN Members(s, c) : m = Members(s, c)[i]
    BY <2>2 DEF ToSet, Members
  <2> HIDE DEF V, C, q
  <2>4. PICK w : w = MembersLoudly(s, V, c)[i]
    OBVIOUS
  <2>5. PICK z \in Calls(s) :
           /\ w = IF Skipped(TypeOf(s, m), c.d) THEN "invalid" ELSE V[z]
           /\ z.type = m /\ z.d = c.d /\ z.known = c.known /\ z.raise = Loud
    BY <2>1, <2>3, <2>4, MemberIs
  <2>6. ~Skipped(TypeOf(s, m), c.d)
    BY <2>1, <2>2 DEF Skipped, Matches, None
  <2>7. V[z] # "invalid"
    BY <2>1, <2>2, <2>5, MatchedRecord DEF V
  <2>8. V[z] # "valid"
    <3>1. Clean(s, z)
      BY <2>1, <2>5, CleanParts DEF Clean
    <3>2. V[z] = "valid" => C[Ask(z)]
      BY <3>1, VerdictIsRight DEF Right, V, C
    <3>3. q \in Questions(s) /\ q.type = c.type /\ q.d = c.d /\ q.known = c.known
      BY AskIs DEF q
    <3>4. C[q] <=> UnionConforms(t, C, q)
      BY <2>1, <3>3, Conforming DEF C
    <3>5. C[Ask(z)] = Means(C, t.members[i], q.d, q) /\ i \in DOMAIN t.members
      BY <2>3, <2>5, <3>3 DEF Means, Ask, Members
    <3> QED  BY <3>2, <3>4, <3>5 DEF UnionConforms, q, C
  <2>9. w \in {"class", "crash"}
    BY <1>1, <2>5, <2>6, <2>7, <2>8 DEF Outcomes
  <2>10. V[c] # "invalid"
    <3>1. c.raise
      BY DEF Loud
    <3> QED  BY <1>1, <2>1, <2>4, <2>9, <3>1, UnionSaid
  <2> QED  BY <1>1, <1>2, <2>10 DEF Outcomes, V
<1> QED  BY <1>3, <1>4

----------------------------------------------------------------------------
(* validate_doc *)

\* The data are finite, and validate_ex ends on each type of each schema.
Ends == \A s \in Schemas : \E depth, level : Founded(s, depth, level)

\* What validate_ex says of an item and a root.
RootCall(i, r, raise) == Call(schema.roots[r], Items[i], foreign, raise)
Said(i, r, raise)     == ValidateEx(schema, options)[RootCall(i, r, raise)]
Roots                 == DOMAIN schema.roots

Typed ==
    /\ schema \in Schemas /\ doc \in Data /\ foreign \in SUBSET Extensions
    /\ phase \in {"resolved", "checking", "accepted", "refused", "crashed"}
    /\ pos \in Nat

\* The document has items, and there are roots for them.
Started == schema.roots # <<>> /\ doc.k \in {"list", "map"}

\* Why an item is in faulty: no root accepts it, and the roots that are reported are the one
\* that matched or all those that refuse it loudly.
Refusal(e) ==
    /\ e.pos \in DOMAIN Items
    /\ \A r \in Roots : Said(e.pos, r, Quiet) = "invalid"
    /\ \/ \E r \in Roots : Said(e.pos, r, Loud) = "class" /\ e.roots = {r}
       \/ /\ \A r \in Roots : Said(e.pos, r, Loud) \notin {"class", "crash"}
          /\ e.roots = {r \in Roots : Said(e.pos, r, Loud) = "invalid"}

CrashCause ==
    \/ ~Nameable
    \/ pos \in DOMAIN Items /\ \E r \in Roots, raise \in {Quiet, Loud} : Said(pos, r, raise) = "crash"

\* How far the loop over the items has come.
Progress ==
    /\ phase \in {"resolved", "accepted"} => faulty = <<>>
    /\ phase \in {"checking", "accepted"} => Started /\ pos > 0
    /\ phase = "accepted" => pos \notin DOMAIN Items
    /\ phase = "refused" /\ Started => faulty # <<>>
    /\ phase = "crashed" => CrashCause

\* What the items before pos were found to be.
Sorted ==
    /\ faulty \in Seq([pos : Nat, roots : SUBSET Nat])
    /\ faulty # <<>> => Started
    /\ \A k \in DOMAIN faulty : Refusal(faulty[k])
    /\ phase \in {"checking", "accepted"} =>
          \A i \in DOMAIN Items :
              i < pos => faulty # <<>> \/ \E r \in Roots : Said(i, r, Quiet) = "valid"

IndInv == Typed /\ Progress /\ Sorted

LEMMA ItemsOf ==
    ASSUME Typed
    PROVE  /\ DOMAIN Items = 1 .. Len(Items) /\ Len(Items) \in Nat
           /\ \A i \in DOMAIN Items : Items[i] \in Data /\ (Items[i] = doc \/ (doc.k = "list" /\ Items[i] = doc.s[i]))
<1>1. CASE doc.k = "list"
  <2>1. Items = doc.s
    BY <1>1 DEF Items
  <2>2. doc.s \in Seq(Data)
    BY <1>1, DatumFields DEF Typed
  <2> HIDE DEF Items
  <2> QED  BY <1>1, <2>1, <2>2
<1>2. CASE doc.k # "list"
  <2>1. Items = <<doc>>
    BY <1>2 DEF Items
  <2>2. DOMAIN <<doc>> = 1 .. 1 /\ Len(<<doc>>) = 1 /\ <<doc>>[1] = doc
    OBVIOUS
  <2>3. doc \in Data
    BY DEF Typed
  <2> HIDE DEF Items
  <2>4. DOMAIN Items = 1 .. Len(Items) /\ Len(Items) \in Nat
    BY <2>1, <2>2
  <2>5. \A i \in DOMAIN Items : Items[i] = doc
    BY <2>1, <2>2
  <2> QED  BY <2>3, <2>4, <2>5
<1> QED  BY <1>1, <1>2

LEMMA RootsOf ==
    ASSUME Typed
    PROVE  Roots \subseteq Nat /\ \A r \in Roots : schema.roots[r] \in DOMAIN schema.types
<1>1. PICK S : S \subseteq DOMAIN schema.types /\ schema.roots \in Seq(S)
  BY SchemaAssumption DEF Typed, SchemaOK
<1>2. DOMAIN schema.roots \subseteq Nat /\ \A r \in DOMAIN schema.roots : schema.roots[r] \in S
  BY <1>1
<1> QED  BY <1>1, <1>2 DEF Roots

LEMMA RootCalls ==
    ASSUME Typed, NEW i \in DOMAIN Items, NEW r \in Roots, NEW raise \in BOOLEAN
    PROVE  /\ RootCall(i, r, raise) \in Calls(schema)
           /\ RootCall(i, r, raise).type = schema.roots[r] /\ RootCall(i, r, raise).d = Items[i]
           /\ RootCall(i, r, raise).known = foreign /\ RootCall(i, r, raise).raise = raise
<1>1. Items[i] \in Data /\ schema.roots[r] \in DOMAIN schema.types /\ foreign \in SUBSET Extensions
  BY ItemsOf, RootsOf DEF Typed
<1> QED  BY <1>1, CallTyped DEF RootCall, Call

\* What the roots say, quietly and loudly, of the item in hand.
LEMMA TriedIs ==
    ASSUME NEW raise
    PROVE  DOMAIN Tried(raise) = Roots /\ \A r \in Roots : Tried(raise)[r] = Said(pos, r, raise)
BY DEF Tried, Roots, Said, RootCall, Item

LEMMA SaidTyped ==
    ASSUME Ends, Typed, NEW i \in DOMAIN Items, NEW r \in Roots, NEW raise \in BOOLEAN
    PROVE  /\ Said(i, r, raise) \in Outcomes
           /\ raise = Quiet => Said(i, r, raise) # "class"
           /\ Said(i, r, raise) = "crash" => Odd[Items[i]]
           /\ Said(i, r, raise) = "class" => ClassOf(schema, schema.roots[r], Items[i])
<1> DEFINE c == RootCall(i, r, raise)
<1>1. c \in Calls(schema) /\ c.type = schema.roots[r] /\ c.d = Items[i] /\ c.raise = raise
  BY RootCalls
<1>2. schema \in Schemas
  BY DEF Typed
<1>3. PICK depth, level : Founded(schema, depth, level)
  BY <1>2 DEF Ends
<1> HIDE DEF c
<1>4. ValidateEx(schema, options)[c] \in Outcomes
  BY <1>1, <1>2, <1>3, Validates
<1>5. raise = Quiet => ValidateEx(schema, options)[c] # "class"
  BY <1>1, <1>2, <1>3, QuietSaysNoClass
<1>6. ValidateEx(schema, options)[c] = "crash" => Odd[c.d]
  BY <1>1, <1>2, <1>3, CrashIsOdd
<1>7. ValidateEx(schema, options)[c] = "class" => ClassOf(schema, c.type, c.d)
  BY <1>1, <1>2, <1>3, ClassMeans
<1> QED  BY <1>1, <1>4, <1>5, <1>6, <1>7 DEF Said, c

\* No root is a union.
LEMMA RootTypes ==
    ASSUME Typed, NEW r \in Roots
    PROVE  TypeOf(schema, schema.roots[r]).type # "union"
<1>1. PICK S : S = {n \in DOMAIN schema.types : schema.types[n].type # "union"}
  OBVIOUS
<1>2. schema.roots \in Seq(S)
  BY <1>1, SchemaAssumption DEF Typed, SchemaOK
<1>3. schema.roots[r] \in S
  BY <1>2 DEF Roots
<1> QED  BY <1>1, <1>3 DEF TypeOf

LEMMA CleanRoots ==
    ASSUME Typed, OnTopOnly, NEW i \in DOMAIN Items, NEW r \in Roots, NEW raise \in BOOLEAN
    PROVE  Clean(schema, RootCall(i, r, raise))
<1> DEFINE c == RootCall(i, r, raise)
<1>1. c.type = schema.roots[r] /\ c.d = Items[i] /\ c.known = foreign
  BY RootCalls
<1>2. Inner(c.d) \intersect c.known = {}
  BY <1>1 DEF OnTopOnly
<1> HIDE DEF c
<1>4. CASE c.d.k = "map"
  <2>1. Inner(c.d) = UNION {AllKeys[c.d.m[j][2]] : j \in DOMAIN c.d.m}
    BY <1>4 DEF Inner
  <2>2. \A j \in DOMAIN c.d.m : Apart(c.d.m[j][2], c.known)
    BY <1>2, <2>1 DEF Apart
  <2>3. TypeOf(schema, c.type).type # "union"
    BY <1>1, RootTypes
  <2>4. Clean(schema, c)
    BY <1>4, <2>2, <2>3 DEF Clean
  <2> QED  BY <2>4 DEF c
<1>5. CASE c.d.k # "map"
  <2>1. Inner(c.d) = AllKeys[c.d]
    BY <1>5 DEF Inner
  <2> QED  BY <1>2, <2>1 DEF Clean, Apart, c
<1> QED  BY <1>4, <1>5

LEMMA SaidRight ==
    ASSUME Ends, Typed, OnTopOnly, NEW i \in DOMAIN Items, NEW r \in Roots, NEW raise \in BOOLEAN
    PROVE  /\ Said(i, r, raise) = "valid" => ConformsTo(schema.roots[r], Items[i])
           /\ Said(i, r, raise) \in {"invalid", "class"} => ~ConformsTo(schema.roots[r], Items[i])
           /\ raise = Loud /\ ClassOf(schema, schema.roots[r], Items[i])
                  /\ ~ConformsTo(schema.roots[r], Items[i])
              => Said(i, r, raise) \in {"class", "crash"}
<1> DEFINE c == RootCall(i, r, raise)
<1>1. /\ c \in Calls(schema) /\ c.type = schema.roots[r] /\ c.d = Items[i]
      /\ c.known = foreign /\ c.raise = raise
  BY RootCalls
<1>2. schema \in Schemas
  BY DEF Typed
<1>3. PICK depth, level : Founded(schema, depth, level)
  BY <1>2 DEF Ends
<1>4. Clean(schema, c)
  BY CleanRoots
<1>5. Conforms(schema, options)[Ask(c)] = ConformsTo(schema.roots[r], Items[i])
  BY <1>1 DEF ConformsTo, Ask
<1> HIDE DEF c
<1>6. Right(schema, options, c)
  BY <1>1, <1>2, <1>3, <1>4, VerdictIsRight
<1>7. c.raise = Loud /\ ClassOf(schema, c.type, c.d) /\ ~Conforms(schema, options)[Ask(c)]
         => ValidateEx(schema, options)[c] \in {"class", "crash"}
  BY <1>1, <1>2, <1>3, <1>4, MatchedDecides
<1> QED  BY <1>1, <1>5, <1>6, <1>7 DEF Right, Said, c

\* What the loop over the roots says of the item in hand.
LEMMA QuietlyIs ==
    ASSUME Ends, Typed, pos \in DOMAIN Items
    PROVE  /\ Quietly = "valid" => \E r \in Roots : Said(pos, r, Quiet) = "valid"
           /\ Quietly = "invalid" => \A r \in Roots : Said(pos, r, Quiet) = "invalid"
           /\ Quietly = "crash" => \E r \in Roots : Said(pos, r, Quiet) = "crash"
<1> DEFINE tried == Tried(Quiet)
<1>1. DOMAIN tried = Roots /\ DOMAIN tried \subseteq Nat /\ \A r \in Roots : tried[r] = Said(pos, r, Quiet)
  BY TriedIs, RootsOf
<1>2. \A r \in Roots : Said(pos, r, Quiet) \in Outcomes \ {"class"}
  BY SaidTyped, Modes
<1>3. Quietly = FirstOf(tried, {"valid", "crash"}, "invalid")
  BY DEF Quietly
<1> HIDE DEF tried
<1>4. \/ Quietly = "invalid" /\ \A r \in Roots : tried[r] \notin {"valid", "crash"}
      \/ \E r \in Roots : tried[r] \in {"valid", "crash"} /\ Quietly = tried[r]
  BY <1>1, <1>3, FirstOfIs
<1> QED  BY <1>1, <1>2, <1>4 DEF Outcomes

LEMMA LeastIs ==
    ASSUME NEW T \in SUBSET Nat, T # {}
    PROVE  Min(T) \in T
BY Least DEF Min

\* The input does not change, nor what validate_ex says of it.
LEMMA InputKept ==
    ASSUME UNCHANGED input
    PROVE  /\ Items' = Items /\ Started' = Started
           /\ \A e : Refusal(e)' = Refusal(e)
           /\ \A i : (\E r \in Roots : Said(i, r, Quiet) = "valid")' =
                     (\E r \in Roots : Said(i, r, Quiet) = "valid")
<1>1. schema' = schema /\ options' = options /\ doc' = doc /\ foreign' = foreign
  BY DEF input
<1>2. Items' = Items /\ Started' = Started /\ Roots' = Roots
  BY <1>1 DEF Items, Started, Roots
<1>3. \A i, r, raise : Said(i, r, raise)' = Said(i, r, raise)
  BY <1>1, <1>2 DEF Said, RootCall
<1>4. \A e : Refusal(e)' = Refusal(e)
  BY <1>2, <1>3 DEF Refusal
<1> QED  BY <1>2, <1>3, <1>4

LEMMA InitSorted ==
    ASSUME Init
    PROVE  IndInv
<1>1. Typed
  BY DataAssumption DEF Init, Typed
<1>2. faulty \in Seq([pos : Nat, roots : SUBSET Nat]) /\ DOMAIN faulty = {}
  BY DEF Init
<1> QED  BY <1>1, <1>2 DEF Init, IndInv, Progress, Sorted

LEMMA StepKeepsTypes ==
    ASSUME IndInv, [Next]_vars
    PROVE  Typed'
<1>1. CASE UNCHANGED vars
  BY <1>1 DEF IndInv, Typed, vars
<1>2. CASE Next
  <2>1. UNCHANGED input /\ pos' \in {pos, pos + 1, 1}
        /\ phase' \in {phase, "checking", "accepted", "refused", "crashed"}
    BY <1>2 DEF Next, Begin, Accept, Refuse, Crash, Finish
  <2> QED  BY <2>1 DEF IndInv, Typed, input
<1> QED  BY <1>1, <1>2

\* An item more, or the same items, and what was found of the earlier ones.
LEMMA StepSorts ==
    ASSUME Ends, IndInv, [Next]_vars
    PROVE  Progress' /\ Sorted'
<1> USE DEF IndInv
<1>1. DOMAIN Items = 1 .. Len(Items) /\ Len(Items) \in Nat
  BY ItemsOf
<1>2. CASE UNCHANGED vars
  <2>1. UNCHANGED input /\ phase' = phase /\ pos' = pos /\ faulty' = faulty
    BY <1>2 DEF vars, input
  <2>2. Sorted'
    BY <2>1, InputKept DEF Sorted
  <2>3. CrashCause' = CrashCause
    BY <1>2 DEF vars, CrashCause, Nameable, Item, Items, Said, RootCall, Roots
  <2> QED  BY <2>1, <2>2, <2>3, InputKept DEF Progress
<1>3. CASE Begin
  <2>1. UNCHANGED input /\ faulty' = faulty /\ pos' = 1 /\ faulty = <<>>
    BY <1>3 DEF Begin, Progress
  <2>2. phase' = IF Started THEN "checking" ELSE "refused"
    BY <1>3 DEF Begin, Started
  <2>3. \A i \in DOMAIN Items : ~(i < 1)
    BY <1>1
  <2> QED  BY <2>1, <2>2, <2>3, InputKept DEF Progress, Sorted
<1>4. CASE Accept
  <2>1. UNCHANGED input /\ faulty' = faulty /\ pos' = pos + 1 /\ phase' = phase /\ phase = "checking"
        /\ pos \in DOMAIN Items /\ Quietly = "valid"
    BY <1>4 DEF Accept
  <2>2. \E r \in Roots : Said(pos, r, Quiet) = "valid"
    BY <2>1, QuietlyIs
  <2>3. \A i \in DOMAIN Items : i < pos + 1 => i < pos \/ i = pos
    BY <1>1 DEF Typed
  <2>4. Sorted'
    BY <2>1, <2>2, <2>3, InputKept DEF Sorted
  <2> QED  BY <2>1, <2>4, InputKept DEF Progress, Typed
<1>5. CASE Refuse
  <2> DEFINE ends == {r \in DOMAIN Loudly : Loudly[r] \in {"class", "crash"}}
             bad  == {r \in DOMAIN Loudly : Loudly[r] = "invalid"}
             e    == [pos |-> pos, roots |-> IF ends # {} THEN {Min(ends)} ELSE bad]
  <2>1. UNCHANGED input /\ phase = "checking" /\ pos \in DOMAIN Items /\ Quietly = "invalid"
    BY <1>5 DEF Refuse
  <2>2. DOMAIN Loudly = Roots /\ \A r \in Roots : Loudly[r] = Said(pos, r, Loud)
    BY TriedIs DEF Loudly
  <2>3. Roots \subseteq Nat
    BY RootsOf
  <2>4. ends # {} => Min(ends) \in ends
    <3>1. ends \in SUBSET Nat
      BY <2>2, <2>3
    <3> QED  BY <3>1, LeastIs
  <2>5. \/ /\ (ends # {} /\ Loudly[Min(ends)] = "crash") \/ ~Nameable
           /\ phase' = "crashed" /\ pos' = pos /\ faulty' = faulty
        \/ /\ ~(ends # {} /\ Loudly[Min(ends)] = "crash")
           /\ phase' = phase /\ pos' = pos + 1 /\ faulty' = Append(faulty, e)
    BY <1>5 DEF Refuse
  <2>6. CASE /\ (ends # {} /\ Loudly[Min(ends)] = "crash") \/ ~Nameable
             /\ phase' = "crashed" /\ pos' = pos /\ faulty' = faulty
    <3>1. CrashCause
      BY <2>1, <2>2, <2>4, <2>6 DEF CrashCause
    <3>2. CrashCause' = CrashCause
      BY <2>1, <2>6 DEF input, CrashCause, Nameable, Item, Items, Said, RootCall, Roots
    <3>3. Sorted'
      BY <2>1, <2>6, InputKept DEF Sorted
    <3> QED  BY <2>1, <2>6, <3>1, <3>2, <3>3, InputKept DEF Progress
  <2>7. CASE /\ ~(ends # {} /\ Loudly[Min(ends)] = "crash")
             /\ phase' = phase /\ pos' = pos + 1 /\ faulty' = Append(faulty, e)
    <3>1. e \in [pos : Nat, roots : SUBSET Nat] /\ e.pos = pos
          /\ e.roots = IF ends # {} THEN {Min(ends)} ELSE bad
      BY <2>1, <2>2, <2>3, <2>4 DEF Typed
    <3>2. Refusal(e)
      <4>1. \A r \in Roots : Said(pos, r, Quiet) = "invalid"
        BY <2>1, QuietlyIs
      <4>2. CASE ends # {}
        <5>1. Min(ends) \in Roots /\ Said(pos, Min(ends), Loud) = "class"
          BY <2>2, <2>4, <2>7, <4>2
        <5> HIDE DEF ends, e, bad
        <5> QED  BY <2>1, <3>1, <4>1, <4>2, <5>1 DEF Refusal
      <4>3. CASE ends = {}
        <5>1. \A r \in Roots : Said(pos, r, Loud) \notin {"class", "crash"}
          BY <2>2, <4>3
        <5>2. e.roots = {r \in Roots : Said(pos, r, Loud) = "invalid"}
          BY <2>2, <3>1, <4>3
        <5> HIDE DEF ends, e, bad
        <5> QED  BY <2>1, <3>1, <4>1, <5>1, <5>2 DEF Refusal
      <4> QED  BY <4>2, <4>3
    <3> HIDE DEF ends, e, bad
    <3>3. /\ faulty' \in Seq([pos : Nat, roots : SUBSET Nat]) /\ faulty' # <<>>
          /\ \A k \in DOMAIN faulty' : faulty'[k] = e \/ (k \in DOMAIN faulty /\ faulty'[k] = faulty[k])
      BY <2>7, <3>1 DEF Sorted
    <3>4. Started'
      BY <2>1, InputKept DEF Progress
    <3>5. \A k \in DOMAIN faulty' : Refusal(faulty'[k])
      BY <3>2, <3>3 DEF Sorted
    <3>6. \A k \in DOMAIN faulty' : (Refusal(faulty[k]))'
      BY <2>1, <3>5, InputKept
    <3>7. Sorted'
      BY <3>3, <3>4, <3>6 DEF Sorted
    <3>8. Progress'
      BY <2>1, <2>7, <3>4 DEF Progress, Typed
    <3> QED  BY <3>7, <3>8
  <2> HIDE DEF ends, bad, e
  <2> QED  BY <2>5, <2>6, <2>7
<1>6. CASE Crash
  <2>1. UNCHANGED input /\ faulty' = faulty /\ pos' = pos /\ phase' = "crashed"
        /\ pos \in DOMAIN Items /\ Quietly = "crash" /\ phase = "checking"
    BY <1>6 DEF Crash
  <2>2. CrashCause
    BY <2>1, QuietlyIs DEF CrashCause
  <2>3. CrashCause' = CrashCause
    BY <2>1 DEF input, CrashCause, Nameable, Item, Items, Said, RootCall, Roots
  <2>4. Sorted'
    BY <2>1, InputKept DEF Sorted
  <2> QED  BY <2>1, <2>2, <2>3, <2>4, InputKept DEF Progress
<1>7. CASE Finish
  <2>1. UNCHANGED input /\ faulty' = faulty /\ pos' = pos /\ phase = "checking" /\ pos \notin DOMAIN Items
        /\ phase' = IF faulty = <<>> THEN "accepted" ELSE "refused"
    BY <1>7 DEF Finish
  <2>2. Sorted'
    BY <2>1, InputKept DEF Sorted
  <2> QED  BY <2>1, <2>2, InputKept DEF Progress
<1> QED  BY <1>2, <1>3, <1>4, <1>5, <1>6, <1>7 DEF Next

LEMMA SpecSorts == ASSUME Ends PROVE Spec => []IndInv
<1>1. Init => IndInv
  BY InitSorted
<1>2. IndInv /\ [Next]_vars => IndInv'
  BY StepKeepsTypes, StepSorts DEF IndInv
<1> QED  BY <1>1, <1>2, PTL DEF Spec

----------------------------------------------------------------------------
(* What validation promises *)

\* An item that was refused conforms to no root.
LEMMA RefusedConformsToNone ==
    ASSUME Ends, Typed, OnTopOnly, NEW e, Refusal(e), NEW r \in Roots
    PROVE  ~ConformsTo(schema.roots[r], Items[e.pos])
BY Modes, SaidRight DEF Refusal

\* A document is accepted exactly if each of its items conforms to a root.
LEMMA VerdictFollows ==
    ASSUME Ends, IndInv
    PROVE  VerdictIsConformance
<1> SUFFICES ASSUME Judged, OnTopOnly PROVE phase = "accepted" <=> Conformant
  BY DEF VerdictIsConformance
<1> USE DEF IndInv
<1>1. Started /\ phase \in {"accepted", "refused"}
  BY DEF Judged, Started
<1>2. CASE phase = "accepted"
  <2>1. faulty = <<>> /\ pos \notin DOMAIN Items /\ pos > 0 /\ pos \in Nat
    BY <1>2 DEF Progress, Typed
  <2>2. \A i \in DOMAIN Items : i < pos
    BY <2>1, ItemsOf
  <2>3. ASSUME NEW i \in DOMAIN Items
        PROVE  \E n \in ToSet(schema.roots) : ConformsTo(n, Items[i])
    <3>1. PICK r \in Roots : Said(i, r, Quiet) = "valid"
      BY <1>2, <2>1, <2>2 DEF Sorted
    <3>2. ConformsTo(schema.roots[r], Items[i])
      BY <3>1, Modes, SaidRight
    <3>3. schema.roots[r] \in ToSet(schema.roots)
      BY DEF Roots, ToSet
    <3> QED  BY <3>2, <3>3
  <2> QED  BY <1>2, <2>3 DEF Conformant
<1>3. CASE phase = "refused"
  <2>1. faulty # <<>> /\ faulty \in Seq([pos : Nat, roots : SUBSET Nat])
    BY <1>1, <1>3 DEF Progress, Sorted
  <2>2. Refusal(faulty[1])
    BY <2>1 DEF Sorted
  <2>3. PICK e : e = faulty[1] /\ Refusal(e)
    BY <2>2
  <2>4. \A r \in Roots : ~ConformsTo(schema.roots[r], Items[e.pos])
    BY <2>3, RefusedConformsToNone
  <2>5. \A n \in ToSet(schema.roots) : \E r \in Roots : n = schema.roots[r]
    BY DEF Roots, ToSet
  <2>6. e.pos \in DOMAIN Items
    BY <2>3 DEF Refusal
  <2> QED  BY <1>3, <2>4, <2>5, <2>6 DEF Conformant
<1> QED  BY <1>1, <1>2, <1>3

\* Every refused item has a root that is reported, and conforms to none of those.
LEMMA RefusalFollows ==
    ASSUME Ends, IndInv
    PROVE  RefusalExplained
<1> SUFFICES ASSUME OnTopOnly, NEW k \in DOMAIN faulty, NEW e, e = faulty[k]
             PROVE  e.roots # {} /\ \A r \in e.roots : ~ConformsTo(schema.roots[r], Items[e.pos])
  BY DEF RefusalExplained, ToSet
<1> USE DEF IndInv
<1>1. Refusal(e)
  BY DEF Sorted
<1>2. \A r \in Roots : ~ConformsTo(schema.roots[r], Items[e.pos])
  BY <1>1, RefusedConformsToNone
<1>3. e.roots \subseteq Roots
  BY <1>1 DEF Refusal
<1>4. e.roots # {}
  <2>1. CASE \E r \in Roots : e.roots = {r}
    BY <2>1
  <2>2. CASE /\ \A r \in Roots : Said(e.pos, r, Loud) \notin {"class", "crash"}
             /\ e.roots = {r \in Roots : Said(e.pos, r, Loud) = "invalid"}
    <3>1. schema.roots # <<>>
      BY DEF Sorted, Started
    <3>2. PICK r \in Roots : TRUE
      <4>1. PICK T : schema.roots \in Seq(T)
        BY SchemaAssumption DEF Typed, SchemaOK
      <4>2. 1 \in DOMAIN schema.roots
        BY <3>1, <4>1
      <4> QED  BY <4>2 DEF Roots
    <3>3. e.pos \in DOMAIN Items
      BY <1>1 DEF Refusal
    <3>4. Said(e.pos, r, Loud) \in Outcomes /\ Said(e.pos, r, Loud) # "valid"
      BY <1>2, <3>3, Modes, SaidTyped, SaidRight
    <3> QED  BY <2>2, <3>4 DEF Outcomes
  <2> QED  BY <1>1, <2>1, <2>2 DEF Refusal
<1> QED  BY <1>2, <1>3, <1>4

\* An item with the class of a root is blamed on that root alone.
LEMMA ClassFollows ==
    ASSUME Ends, IndInv
    PROVE  ClassDecides
<1> SUFFICES ASSUME OnTopOnly, NEW k \in DOMAIN faulty, NEW e, e = faulty[k], Named(Items[e.pos]) # {}
             PROVE  e.roots \subseteq Named(Items[e.pos]) /\ Cardinality(e.roots) = 1
  BY DEF ClassDecides, ToSet
<1> USE DEF IndInv
<1>1. Refusal(e)
  BY DEF Sorted
<1>2. e.pos \in DOMAIN Items
  BY <1>1 DEF Refusal
<1>3. \A r : r \in Named(Items[e.pos]) <=> r \in Roots /\ ClassOf(schema, schema.roots[r], Items[e.pos])
  BY RootTypes DEF Named, ClassOf, Roots
<1>4. PICK n \in Roots : ClassOf(schema, schema.roots[n], Items[e.pos])
  BY <1>3
<1>5. Said(e.pos, n, Loud) \in {"class", "crash"}
  <2>1. ~ConformsTo(schema.roots[n], Items[e.pos])
    BY <1>1, RefusedConformsToNone
  <2> QED  BY <1>2, <1>4, <2>1, Modes, SaidRight
<1>6. PICK r \in Roots : Said(e.pos, r, Loud) = "class" /\ e.roots = {r}
  BY <1>1, <1>5 DEF Refusal
<1>7. ClassOf(schema, schema.roots[r], Items[e.pos])
  BY <1>2, <1>6, Modes, SaidTyped
<1>8. Cardinality({r}) = 1
  BY FS_Singleton
<1> QED  BY <1>3, <1>6, <1>7, <1>8

\* Whatever crashes is odd.
LEMMA CrashFollows ==
    ASSUME Ends, IndInv
    PROVE  CrashJustified
<1> SUFFICES ASSUME phase = "crashed", Item.k = "map" PROVE Odd[doc]
  BY DEF CrashJustified
<1> USE DEF IndInv
<1>1. PICK r \in Roots, raise \in {Quiet, Loud} : pos \in DOMAIN Items /\ Said(pos, r, raise) = "crash"
  BY DEF Progress, CrashCause, Nameable
<1>2. Odd[Items[pos]]
  BY <1>1, Modes, SaidTyped
<1>3. doc \in Data /\ schema \in Schemas
  BY DEF Typed
<1>4. PICK depth, level : Founded(schema, depth, level)
  BY <1>3 DEF Ends
<1>5. CASE Items[pos] = doc
  BY <1>2, <1>5
<1>6. CASE doc.k = "list" /\ Items[pos] = doc.s[pos]
  <2>1. pos \in DOMAIN doc.s
    BY <1>1, <1>6 DEF Items
  <2> QED  BY <1>2, <1>3, <1>4, <1>6, <2>1, OddParts
<1> QED  BY <1>1, <1>5, <1>6, ItemsOf

\* validate_doc accepts exactly the documents whose items each conform to a root, whichever
\* mode of validate_ex decides, unless a described extension field is within a union.
THEOREM ValidateVerdict == ASSUME Ends PROVE Spec => []VerdictIsConformance
<1>1. IndInv => VerdictIsConformance
  BY VerdictFollows
<1> QED  BY <1>1, SpecSorts, PTL

\* What the quiet validate_ex refuses, the loud one explains, and with roots that the item
\* really does not conform to.
THEOREM ValidateExplains == ASSUME Ends PROVE Spec => []RefusalExplained
<1>1. IndInv => RefusalExplained
  BY RefusalFollows
<1> QED  BY <1>1, SpecSorts, PTL

\* The ClassValidationException of the record or the member whose class matched passes through
\* the unions and the loop over the roots: no other root is reported.
THEOREM ValidateClass == ASSUME Ends PROVE Spec => []ClassDecides
<1>1. IndInv => ClassDecides
  BY ClassFollows
<1> QED  BY <1>1, SpecSorts, PTL

\* validate_doc raises nothing but a ValidationException, unless a class or a key is no string
\* or an item that was refused is no map.
THEOREM ValidateCrash == ASSUME Ends PROVE Spec => []CrashJustified
<1>1. IndInv => CrashJustified
  BY CrashFollows
<1> QED  BY <1>1, SpecSorts, PTL

=============================================================================
