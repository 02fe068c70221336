--------------------------- MODULE MCSchemaTypes ---------------------------
(***************************************************************************)
(* Small schemas: a base A, a type B that may extend it, a type C that may *)
(* extend both and specialize, and a type D whose field uses the others.   *)
(***************************************************************************)
EXTENDS Inheritance

String == Ref("string")
Null   == Ref("null")

Rec(n, bases, fields) == [Term("record", n, fields) EXCEPT !.extends = bases]
Enum(n, bases, syms)  == [Term("enum", n, [i \in DOMAIN syms |-> Term("symbol", syms[i], <<>>)])
                            EXCEPT !.extends = bases]
As(abstract, t)       == [t EXCEPT !.abstract = abstract]
With(spec, t)         == [t EXCEPT !.specialize = spec]
One(owner, short, t)  == <<Field(owner, short, t)>>

As_ == {As(a, Rec("A", <<>>, fs)) :
           a \in {"absent", "true"},
           fs \in {<<>>, One("A", "f", String), One("A", "f", Ref("D")),
                   One("A", "f", Union(<<Null, Ref("A")>>))}}

Bs == {Rec("B", bases, fs) :
           bases \in {<<>>, <<"A">>},
           fs \in {<<>>, One("B", "f", String), One("B", "g", Ref("A"))}}

Cs == {With(spec, Rec("C", bases, fs)) :
           bases \in {<<"A">>, <<"B">>, <<"A", "B">>, <<"Z">>},
           spec \in {<< >>, "A" :> "C", "D" :> "B"},
           fs \in {<<>>, One("C", "h", Array(Ref("A"))), One("C", "f", Ref("C"))}}

Ds == {Rec("D", <<>>, One("D", "h", t)) :
           t \in {Ref("A"), Union(<<Ref("A"), Ref("B"), Null>>), Union(<<String, String>>)}}

RecordSchemas ==
    {<<a, b, c, d>> : a \in As_, b \in Bs, c \in Cs, d \in Ds}
        \union {<<d, c, b, a>> : a \in As_, b \in Bs, c \in Cs, d \in Ds}

EnumSchemas ==
    {<<Enum("A", <<>>, <<"a">>), Enum("B", <<"A">>, bs), Enum("C", cb, <<"c">>),
       Rec("D", <<>>, One("D", "h", t))>> :
        bs \in {<<>>, <<"b">>, <<"a">>}, cb \in {<<>>, <<"A">>, <<"B">>, <<"A", "B">>},
        t \in {Ref("A"), Ref("C"), Union(<<Ref("B"), Null>>)}}

PlainSchemas == RecordSchemas \union EnumSchemas
=============================================================================
