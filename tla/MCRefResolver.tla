--------------------------- MODULE MCRefResolver ---------------------------
(***************************************************************************)
(* Small webs of documents for RefResolver.  A document has a shape and up *)
(* to K items; an item is an object with an identifier and perhaps an      *)
(* import in a field, a directive, or a scalar.                            *)
(***************************************************************************)
EXTENDS Preprocessing, Failures

\* An absolute reference to a document, and to an object in it.
Doc(d)     == [doc |-> d, frag |-> <<>>]
Obj(d, n)  == [doc |-> d, frag |-> <<n>>]
Local(n)   == [doc |-> Here, frag |-> <<n>>]

Blank(d) == [kind |-> "map", home |-> d, id |-> NoUrl, ref |-> NoUrl,
             rebase |-> NoUrl, kids |-> <<>>,
             links |-> {}, syms |-> {}, declares |-> {}, uses |-> {}, bound |-> {}]

\* Items.  The operators give the item's own node, given the address of the node below it.
Directive(kind, url) == [kind |-> kind, ref |-> url, id |-> NoUrl, inner |-> NoUrl, opt |-> {}]
Import(url)  == Directive("import", url)
IncludeOf(url) == Directive("include", url)
Mixin(url)   == Directive("mixin", url)
Leaf(n)      == [kind |-> "map", ref |-> NoUrl, id |-> Local(n), inner |-> NoUrl, opt |-> {}]
Box(n, url)  == [Leaf(n) EXCEPT !.inner = url]        \* { id: n, field: { $import: url } }
With(item, opt) == [item EXCEPT !.opt = opt]          \* further features, see Options

ItemNode(d, item, below) ==
    [Blank(d) EXCEPT
        !.kind = item.kind, !.id = item.id, !.ref = item.ref,
        !.kids = IF item.inner # NoUrl THEN <<below>> ELSE <<>>,
        !.rebase = IF "rebased" \in item.opt THEN Obj(d, "n") ELSE NoUrl,
        !.links = IF "dangling" \in item.opt THEN {Obj("Z", "n")}
                  ELSE IF "link" \in item.opt THEN {Local("n")} ELSE {},
        !.syms = IF "symbol" \in item.opt THEN {<<"n">>} ELSE {},
        !.declares = IF "declares" \in item.opt THEN Namespaces ELSE {},
        !.uses = IF "uses" \in item.opt THEN Namespaces ELSE {}]

\* The value of an item's field: an import, or an object with an identifier.
InnerNode(d, item) ==
    IF item.inner = NoUrl THEN Blank(d)
    ELSE IF item.inner = Local("n")
    THEN [Blank(d) EXCEPT !.id = item.inner]
    ELSE [Blank(d) EXCEPT !.kind = "import", !.ref = item.inner]

\* A document: a map, a list, or a map with $graph, over a sequence of items.
Document(shape, items) == [shape |-> shape, items |-> items, id |-> NoUrl, rebase |-> NoUrl]
Rebased(body, url)     == [body EXCEPT !.rebase = url]
Titled(body, n)        == [body EXCEPT !.id = Local(n)]

\* Every document has a block of addresses: its root, its list, and two for each item.
\* T is a plain text; a document that is not laid out cannot be retrieved.
Layout(docs, K, texts) ==
    LET width      == 2 + 2 * K
        start(i)   == (i - 1) * width
        item(i, j) == start(i) + 2 * j + 1
        node(i, p) ==
            LET d     == docs[i]
                body  == texts[d]
                size  == Len(body.items)
                kids  == [j \in 1 .. size |-> item(i, j)]
                j     == (p - 1) \div 2
            IN  CASE p = 1 /\ body.shape = "import" -> ItemNode(d, body.items[1], Text)
                  [] p = 1 -> [Blank(d) EXCEPT
                                  !.kind = body.shape, !.id = body.id, !.rebase = body.rebase,
                                  !.kids = IF body.shape = "graph" THEN <<start(i) + 2>> ELSE kids]
                  [] p = 2 -> [Blank(d) EXCEPT
                                  !.kind = "seq",
                                  !.kids = IF body.shape = "graph" THEN kids ELSE <<>>]
                  [] p > 2 /\ j > size -> Blank(d)
                  [] p > 2 /\ p % 2 = 1 -> ItemNode(d, body.items[j], start(i) + p + 1)
                  [] OTHER -> InnerNode(d, body.items[j])
    IN  [heap |-> [a \in 1 .. width * Len(docs) |->
                      node(((a - 1) \div width) + 1, ((a - 1) % width) + 1)],
         root |-> [d \in Docs |->
                      IF \E i \in DOMAIN docs : docs[i] = d
                      THEN start(CHOOSE i \in DOMAIN docs : docs[i] = d) + 1
                      ELSE IF d = "T" THEN Text ELSE NoText]]

Shapes == {"map", "seq", "graph"}

----------------------------------------------------------------------------
(* A and B import each other and themselves, whole or in part, and mix each other in. *)

OwnItems == {Leaf("n"), With([Leaf("n") EXCEPT !.inner = Local("n")], {"symbol"})}

CycleItems ==
    OwnItems
    \union {Import(u) : u \in {Doc("A"), Doc("B"), Obj("A", "n"), Obj("B", "n"), Doc("Z")}}
    \union {Box("n", u) : u \in {Doc("A"), Doc("B")}}

\* Lists that import themselves are left out, and so are objects of the same name.
Admissible(d, body) ==
    /\ body.shape = "map" \/ Import(Doc(d)) \notin ToSet(body.items)
    /\ \A i, j \in DOMAIN body.items :
            i < j => body.items[i].id = NoUrl \/ body.items[i].id # body.items[j].id

Bodies(d, first, second) ==
    {b \in {Document(s, <<i>> \o is) : s \in Shapes, i \in first, is \in second} :
        Admissible(d, b)}

\* A document that is nothing but an import.
OnlyImport(url) == Document("import", <<Import(url)>>)

Nothing   == {<<>>}
One(items) == {<<i>> : i \in items}

\* $base in a list, in a map that has a name and in one that has none, and another document's.
RebasedBodies ==
    {Rebased(Document("graph", <<Leaf("n")>>), Doc("Z")),
     Rebased(Titled(Document("map", <<Box("n", Doc("A"))>>), "n"), Obj("B", "n")),
     Rebased(Document("map", <<With([Leaf("n") EXCEPT !.inner = Local("n")], {"rebased"})>>), Doc("Z"))}

CycleWebs ==
    {Layout(<<"A", "B">>, 2, "A" :> a @@ "B" :> b) :
        a \in Bodies("A", CycleItems \union {Mixin(Doc("B"))},
                     One(OwnItems \union {Import(Doc("B")), Box("n", Doc("B")), IncludeOf(Doc("T"))})),
        b \in Bodies("B", CycleItems, Nothing) \union {OnlyImport(Obj("A", "n"))} \union RebasedBodies}

CycleRequests == {Doc("A"), Obj("B", "n")}

----------------------------------------------------------------------------
(* A uses B and C, B uses C: no cycles, and every reference of a fragment is to a map. *)

TreeItemsB == {Leaf("n"), Import(Doc("C")), Box("n", Doc("C")), Import(Obj("C", "n")),
               With(Leaf("n"), {"dangling"}), Box("n", Doc("Z"))}
TreeItemsA == TreeItemsB \union {Import(Doc("B")), Box("m", Doc("B")), Import(Doc("T")),
                                 IncludeOf(Doc("T")), With(Leaf("m"), {"link"})}

\* T is imported and included in both orders; C is included before and after imports of it.
TreeItemsLast == {Import(Doc("B")), Import(Doc("C")),
                  Import(Doc("T")), IncludeOf(Doc("T")), IncludeOf(Doc("C"))}

TreeOf3(a, b, c) == Layout(<<"A", "B", "C">>, 2, "A" :> a @@ "B" :> b @@ "C" :> c)

\* Names and links of C are below its $base, and C#n is another name of its root.
RebasedTrees ==
    {TreeOf3(a, b, c) :
        a \in Bodies("A", {Import(Doc("C")), Box("n", Doc("C")), Import(Obj("C", "n"))},
                     One({Import(Doc("B")), Import(Doc("C")), With(Leaf("m"), {"link"})})),
        b \in Bodies("B", {Box("n", Doc("C")), Import(Obj("C", "n"))}, Nothing),
        c \in {Rebased(Document("graph", <<Leaf("n"), With(Leaf("m"), {"link"})>>), Obj("C", "m")),
               Rebased(Titled(Document("map", <<Leaf("m"), With(Leaf("n"), {"rebased", "link"})>>), "n"),
                       Obj("Z", "m"))}}

TreeWebs ==
    {TreeOf3(a, b, c) :
        a \in Bodies("A", TreeItemsA, One(TreeItemsLast)), b \in Bodies("B", TreeItemsB, Nothing),
        c \in {Document("map", <<Leaf("n")>>), Document("graph", <<Leaf("n"), Leaf("m")>>)}}
    \union RebasedTrees

TreeRequests == {Doc("A"), Doc("B")}

----------------------------------------------------------------------------
\* A part of A declares a namespace; B uses its prefix and does not declare it.
ContextWebs ==
    {Layout(<<"A", "B">>, 2,
            "A" :> Document(s, <<i, Import(Doc("B"))>>)
                @@ "B" :> Document(t, <<With(Leaf("n"), {"uses"})>>)) :
        s \in Shapes, t \in Shapes,
        i \in {Leaf("n"), Box("n", Doc("B")), With(Box("n", Doc("B")), {"declares"})}}

----------------------------------------------------------------------------
\* What the theorems about the traversal, the index and the fields assume of the texts, and
\* the one about the recursion of the interpreter's limit.
ASSUME TextsAssumption ==
    \A w \in Webs : /\ TreeShaped(w) /\ OwnDocuments(w) /\ DistinctNames(w, Bases(w))
                     /\ Len(w.heap) + 2 < MaxDepth
=============================================================================
