-------------------------- MODULE TraversalProofs --------------------------
(***************************************************************************)
(* Proofs about the traversal of RefResolver, for webs of texts without    *)
(* YAML aliases and without mixins: resolve_all walks every object once,   *)
(* in the document it is written in, and never deeper than there are       *)
(* objects.                                                                *)
(***************************************************************************)
EXTENDS RefResolverProofs, FiniteSetTheorems

----------------------------------------------------------------------------
(* What has not been traversed yet *)

\* The objects below a in its text.
Offspring(a) == ToSet(web.heap[a].kids) \ {Text}

\* The first child that a call has not descended into.
From(f) == IF f.at = "enter" THEN 1 ELSE IF f.at = "iterate" THEN f.pos ELSE f.pos + 1

\* From this child on, the children of a are those of its text, each once, and in F.
Ahead(F, a, from) ==
    \A i \in DOMAIN heap[a].kids : i >= from /\ heap[a].kids[i] # Text =>
        /\ heap[a].kids[i] \in F
        /\ heap[a].kids[i] \in Offspring(a)
        /\ \A j \in DOMAIN heap[a].kids : j > i => heap[a].kids[j] # heap[a].kids[i]

\* The store has the objects of the texts; what resolve_all changes are their fields.
Bodies == /\ DOMAIN heap = DOMAIN web.heap
          /\ \A a \in DOMAIN heap :
                /\ heap[a].kind = web.heap[a].kind /\ heap[a].home = web.heap[a].home
                /\ heap[a].rebase = web.heap[a].rebase

\* The objects of F are as they were parsed, and the documents that were not loaded are there.
Untouched(F) ==
    /\ F \subseteq DOMAIN heap
    /\ \A a \in F : Ahead(F, a, 1)
    /\ \A d \in Docs : RootUrl(d) \notin DOMAIN idx => web.root[d] \in F \union {Text, NoText}

\* A call has an object in hand: one to resolve, or a directive to follow.
Holds(f)     == f.node # Text
Traverses(f) == f.fn = "resolve_all" /\ f.node # Text

\* The object in hand is not in F, and what a traversal has not seen of it is.
InPlace(F, f) ==
    /\ f.mode # "mixin"
    /\ Holds(f) => f.node \notin F
    /\ Traverses(f) => Ahead(F, f.node, From(f))

\* No two calls have the same object in hand.
Apart == \A i, j \in DOMAIN stack :
            i < j /\ Holds(stack[i]) /\ Holds(stack[j]) => stack[i].node # stack[j].node

Fresh(F) == /\ Untouched(F)
            /\ \A i \in DOMAIN stack : InPlace(F, stack[i])
            /\ Apart

\* The inductive invariant: there is a set of objects that nothing has touched, and every
\* object that is yet to be traversed is in it.
Traversal == Bodies /\ \E F : Fresh(F)

----------------------------------------------------------------------------
(* The calls below the innermost one *)

Outer == 1 .. Len(stack) - 1

LEMMA StackAfter ==
    ASSUME Whole, stack # <<>>
    PROVE  /\ Len(stack) \in Nat \ {0} /\ DOMAIN stack = 1 .. Len(stack)
           /\ stack[Len(stack)] = Top /\ Top \in Call
           /\ \A i \in DOMAIN stack : stack[i] \in Call
           /\ \A i \in Outer : i \in DOMAIN stack /\ i < Len(stack)
           /\ stack' = Front(stack) =>
                 DOMAIN stack' = Outer /\ \A i \in Outer : stack'[i] = stack[i]
           /\ \A f : Become(f) =>
                 /\ DOMAIN stack' = 1 .. Len(stack)
                 /\ stack'[Len(stack)] = f
                 /\ \A i \in Outer : stack'[i] = stack[i]
           /\ \A f, g : Invoke(f, g) =>
                 /\ DOMAIN stack' = 1 .. Len(stack) + 1
                 /\ stack'[Len(stack)] = f /\ stack'[Len(stack) + 1] = g
                 /\ \A i \in Outer : stack'[i] = stack[i]
<1> DEFINE n == Len(stack) - 1
           low == Front(stack)
<1>1. /\ n \in Nat /\ Len(stack) = n + 1 /\ low \in Seq(Call) /\ Len(low) = n
      /\ \A i \in 1 .. n : low[i] = stack[i]
      /\ DOMAIN stack = 1 .. n + 1 /\ DOMAIN low = 1 .. n
      /\ \A i \in DOMAIN stack : stack[i] \in Call
  BY PopStack, LenProperties, ElementOfSeq DEF Whole, Control
<1>2. stack[Len(stack)] = Top /\ Top \in Call
  BY TopOK DEF Top, Last, Whole
<1>3. Outer = 1 .. n
  BY DEF Outer
<1>4. ASSUME NEW f, Become(f)
      PROVE  /\ DOMAIN stack' = 1 .. n + 1 /\ stack'[n + 1] = f
             /\ \A i \in 1 .. n : stack'[i] = stack[i]
  <2>1. stack' = Append(low, f)
    BY <1>4 DEF Become
  <2> HIDE DEF n, low
  <2> QED  BY <1>1, <2>1
<1>5. ASSUME NEW f, NEW g, Invoke(f, g)
      PROVE  /\ DOMAIN stack' = 1 .. n + 2 /\ stack'[n + 1] = f /\ stack'[n + 2] = g
             /\ \A i \in 1 .. n : stack'[i] = stack[i]
  <2>1. stack' = Append(Append(low, f), g)
    BY <1>5 DEF Invoke
  <2> HIDE DEF n, low
  <2> QED  BY <1>1, <2>1
<1> HIDE DEF n
<1> QED  BY <1>1, <1>2, <1>3, <1>4, <1>5

(***************************************************************************)
(* A step that takes the objects F \ G out of F and traverses them, and    *)
(* changes the children of nothing but the object in hand.                 *)
(***************************************************************************)
LEMMA StepFresh ==
    ASSUME Whole, stack # <<>>, NEW F, Fresh(F), NEW G, G \subseteq F,
           web' = web, DOMAIN heap' = DOMAIN heap,
           \A a \in F : heap'[a].kids = heap[a].kids,
           \A i \in Outer : Holds(stack[i]) =>
                 heap'[stack[i].node].kids = heap[stack[i].node].kids,
           \A m \in F \ G : /\ \A a \in G : m \notin Offspring(a)
                            /\ \A i \in Outer : Holds(stack[i]) =>
                                  m \notin Offspring(stack[i].node),
           \A d \in Docs : RootUrl(d) \notin DOMAIN idx' => web.root[d] \in G \union {Text, NoText},
           \A i \in DOMAIN stack' :
               \/ i \in Outer /\ stack'[i] = stack[i]
               \/ /\ i \notin Outer
                  /\ InPlace(G, stack[i])'
                  /\ Holds(stack'[i]) =>
                    stack'[i].node \in F \ G \/ (Holds(Top) /\ stack'[i].node = Top.node),
           \A i, j \in DOMAIN stack' : i < j /\ i \notin Outer /\ j \notin Outer =>
               ~Holds(stack'[i]) \/ ~Holds(stack'[j]) \/ stack'[i].node # stack'[j].node,
           \A i, j \in DOMAIN stack' : i < j /\ j \in Outer => i \in Outer
    PROVE  Fresh(G)'
<1>1. \A a : Offspring(a)' = Offspring(a)
  BY DEF Offspring
<1>2. ASSUME NEW a, NEW from, Ahead(F, a, from), heap'[a].kids = heap[a].kids,
             \A m \in F \ G : m \notin Offspring(a)
      PROVE  Ahead(G, a, from)'
  BY <1>1, <1>2 DEF Ahead
<1>3. Untouched(G)'
  <2>1. \A a \in G : Ahead(G, a, 1)'
    BY <1>2 DEF Fresh, Untouched
  <2> QED  BY <2>1 DEF Fresh, Untouched
<1>4. ASSUME NEW i \in Outer, stack'[i] = stack[i]
      PROVE  InPlace(G, stack[i])'
  <2> DEFINE f == stack[i]
  <2>1. InPlace(F, f)
    BY StackAfter DEF Fresh
  <2>2. ASSUME Traverses(f)
        PROVE  Ahead(G, f.node, From(f))'
    <3>1. f.node \notin F /\ Ahead(F, f.node, From(f))
      BY <2>1, <2>2 DEF InPlace, Holds, Traverses
    <3>2. heap'[f.node].kids = heap[f.node].kids /\ \A m \in F \ G : m \notin Offspring(f.node)
      BY <2>2 DEF Holds, Traverses
    <3> HIDE DEF f
    <3>3. Ahead(G, f.node, From(f))'
      BY <1>2, <1>4, <3>1, <3>2 DEF From, f
    <3> QED  BY <3>1, <3>3
  <2> QED  BY <1>4, <2>1, <2>2 DEF InPlace, Holds, Traverses
<1>5. \A i \in DOMAIN stack' : InPlace(G, stack[i])'
  BY <1>4
<1>6. ASSUME NEW i \in DOMAIN stack', NEW j \in DOMAIN stack', i < j,
             Holds(stack'[i]), Holds(stack'[j])
      PROVE  stack'[i].node # stack'[j].node
  <2>1. \A k \in Outer : k \in DOMAIN stack /\ Len(stack) \in DOMAIN stack /\ k < Len(stack)
                         /\ stack[Len(stack)] = Top
    BY StackAfter
  <2>2. \A k \in Outer : Holds(stack[k]) =>
            stack[k].node \notin F /\ (Holds(Top) => stack[k].node # Top.node)
    BY <2>1 DEF Fresh, InPlace, Apart
  <2>3. CASE i \in Outer /\ j \in Outer
    BY <1>6, <2>1, <2>3 DEF Fresh, Apart
  <2>4. CASE i \in Outer /\ j \notin Outer
    BY <1>6, <2>2, <2>4
  <2>5. CASE i \notin Outer
    BY <1>6, <2>5
  <2> QED  BY <2>3, <2>4, <2>5
<1>7. Apart'
  BY <1>6 DEF Apart
<1> QED  BY <1>3, <1>5, <1>7 DEF Fresh

----------------------------------------------------------------------------
(* What the steps do to the objects *)

\* Fields other than the children may change, and identifiers do.
Unmoved == /\ web' = web /\ DOMAIN heap' = DOMAIN heap
           /\ \A a \in DOMAIN heap : /\ heap'[a].kids = heap[a].kids
                                     /\ heap'[a].kind = heap[a].kind
                                     /\ heap'[a].home = heap[a].home
                                     /\ heap'[a].ref = heap[a].ref
                                     /\ heap'[a].rebase = heap[a].rebase

\* A map that is opened gets its absolute identifier.
LEMMA OpenMapHeap ==
    ASSUME Whole, OpenMap
    PROVE  /\ Unmoved
           /\ \A a \in DOMAIN heap : heap'[a].id = Identified(Top).heap[a].id
<1>1. stack # <<>> /\ Top \in Call /\ Top.node \in DOMAIN heap
  BY TopOK, CallParts, InHand DEF OpenMap, Running, Whole
<1> DEFINE i  == Identified(Top)
           ns == Scope(Top)
<1>2. PICK x \in Url \union {NoUrl} : i.heap = [heap EXCEPT ![Top.node].id = x]
  BY <1>1, IdentifiedOK
<1>3. heap' = Normalized(i.heap, Top.node, i.base, ns) /\ web' = web
  BY DEF OpenMap, world
<1> HIDE DEF i, ns
<1> DEFINE fields == {"kind", "home", "id", "ref", "rebase", "kids", "links", "syms", "declares", "uses", "bound"}
<1>4. \A a \in DOMAIN heap : DOMAIN heap[a] = fields
  BY DEF Whole, Store, Node
<1>5. /\ DOMAIN i.heap = DOMAIN heap
      /\ \A a \in DOMAIN heap : /\ DOMAIN i.heap[a] = fields
                                /\ i.heap[a].kids = heap[a].kids
                                /\ i.heap[a].kind = heap[a].kind
                                /\ i.heap[a].home = heap[a].home
                                /\ i.heap[a].ref = heap[a].ref
                                /\ i.heap[a].rebase = heap[a].rebase
  BY <1>1, <1>2, <1>4
<1> DEFINE p     == i.heap[Top.node]
           links == {ExpandRef(l, i.base) : l \in p.links}
           bound == p.bound \union (p.uses \intersect ns)
<1>6. heap' = [[i.heap EXCEPT ![Top.node].links = links] EXCEPT ![Top.node].bound = bound]
  BY <1>1, <1>3, <1>5 DEF Normalized
<1> HIDE DEF p, links, bound
<1>7. /\ DOMAIN heap' = DOMAIN heap
      /\ \A a \in DOMAIN heap : /\ heap'[a].kids = i.heap[a].kids
                                /\ heap'[a].kind = i.heap[a].kind
                                /\ heap'[a].home = i.heap[a].home
                                /\ heap'[a].ref = i.heap[a].ref
                                /\ heap'[a].rebase = i.heap[a].rebase
                                /\ heap'[a].id = i.heap[a].id
  <2> DEFINE g == [i.heap EXCEPT ![Top.node].links = links]
  <2>1. /\ DOMAIN g = DOMAIN heap
        /\ \A a \in DOMAIN heap : /\ DOMAIN g[a] = fields
                                  /\ g[a].kids = i.heap[a].kids
                                  /\ g[a].kind = i.heap[a].kind
                                  /\ g[a].home = i.heap[a].home
                                  /\ g[a].ref = i.heap[a].ref
                                  /\ g[a].rebase = i.heap[a].rebase
                                  /\ g[a].id = i.heap[a].id
    BY <1>1, <1>5
  <2>2. heap' = [g EXCEPT ![Top.node].bound = bound]
    BY <1>6
  <2> HIDE DEF g
  <2> QED  BY <1>1, <2>1, <2>2
<1> QED  BY <1>3, <1>5, <1>7 DEF Unmoved, i

\* So does a map with $graph.
LEMMA OpenGraphHeap ==
    ASSUME Whole, OpenGraph
    PROVE  Unmoved
<1>1. stack # <<>> /\ Top \in Call /\ Top.node \in DOMAIN heap
  BY TopOK, CallParts, InHand DEF OpenGraph, Running, Whole
<1>2. PICK x \in Url \union {NoUrl} : Identified(Top).heap = [heap EXCEPT ![Top.node].id = x]
  BY <1>1, IdentifiedOK
<1>3. heap' = [heap EXCEPT ![Top.node].id = x] /\ web' = web
  BY <1>2 DEF OpenGraph, world
<1>4. \A a \in DOMAIN heap : heap[a] \in Node(Addrs)
  BY DEF Whole, Store
<1> QED  BY <1>1, <1>3, <1>4 DEF Unmoved, Node

\* fetch() binds a new document to its root, which may get the document's URL as identifier.
LEMMA LoadHeap ==
    ASSUME Whole, Load
    PROVE  LET d == DocUrl(Top.url)
           IN  /\ Unmoved
               /\ d \notin DOMAIN idx /\ d = RootUrl(Top.url.doc) /\ d \in AbsUrl
               /\ idx'[d] = web.root[Top.url.doc] /\ idx'[d] \in Addrs
               /\ DOMAIN idx \subseteq DOMAIN idx' /\ d \in DOMAIN idx'
               /\ \A a \in DOMAIN heap :
                     heap'[a].id = heap[a].id \/ (a = idx'[d] /\ heap'[a].id = d)
<1> DEFINE d == DocUrl(Top.url)
           a == web.root[d.doc]
           inject == Top.mode # "mixin"
           parsed == Parsed(d, a, inject)
<1>1. /\ stack # <<>> /\ d \notin DOMAIN idx /\ web' = web /\ Retrieve(d)
      /\ heap' = Fetched(Top).heap /\ idx' = Fetched(Top).idx
  BY DEF Load, Running, Missing, world
<1>2. /\ d \in AbsUrl /\ d.doc \in Docs /\ d = RootUrl(d.doc) /\ d.doc = Top.url.doc
  BY <1>1, TopRef DEF DocUrl, RootUrl, AbsUrl
<1>3. a \in Addrs
  BY <1>1, <1>2, RootOK DEF Retrieve, Retrieved
<1>4. heap' = parsed.heap /\ idx' = parsed.idx
  BY <1>1 DEF Fetched
<1> HIDE DEF d, a, inject
<1>5. /\ DOMAIN idx \subseteq DOMAIN idx' /\ d \in DOMAIN idx' /\ idx'[d] = a
      /\ heap' = heap \/ (a # Text /\ heap' = [heap EXCEPT ![a].id = d])
  BY <1>4 DEF Parsed, Bind, IsMapping
<1>6. \A b \in DOMAIN heap : heap[b] \in Node(Addrs)
  BY DEF Whole, Store
<1>7. CASE heap' = heap
  BY <1>1, <1>2, <1>3, <1>5, <1>7 DEF Unmoved, d, a
<1>8. CASE a # Text /\ heap' = [heap EXCEPT ![a].id = d]
  <2>1. a \in DOMAIN heap
    BY <1>3, <1>8 DEF Addrs
  <2>2. Unmoved /\ \A b \in DOMAIN heap : heap'[b].id = heap[b].id \/ (b = a /\ heap'[b].id = d)
    BY <1>1, <1>6, <1>8, <2>1 DEF Unmoved, Node
  <2> QED  BY <1>1, <1>2, <1>3, <1>5, <2>2 DEF d, a
<1> QED  BY <1>5, <1>7, <1>8

\* The loops write the children of the object in hand.
LEMMA RefillHeap ==
    ASSUME Whole, NEW a \in DOMAIN heap, NEW kids,
           heap' = [heap EXCEPT ![a].kids = kids]
    PROVE  /\ DOMAIN heap' = DOMAIN heap /\ heap'[a].kids = kids
           /\ \A b \in DOMAIN heap :
                 /\ b # a => heap'[b].kids = heap[b].kids
                 /\ heap'[b].kind = heap[b].kind /\ heap'[b].home = heap[b].home
                 /\ heap'[b].id = heap[b].id /\ heap'[b].ref = heap[b].ref
                 /\ heap'[b].rebase = heap[b].rebase
<1>1. \A b \in DOMAIN heap : heap[b] \in Node(Addrs)
  BY DEF Whole, Store
<1> QED  BY <1>1 DEF Node

----------------------------------------------------------------------------
(* What the shape of the texts gives *)

\* A web of texts without aliases and without mixins, and the invariant before a step.
Plain == Whole /\ TreeShaped(web) /\ ~Mixes /\ Bodies

LEMMA Shape ==
    ASSUME Plain
    PROVE  /\ \A a, b \in DOMAIN heap : \A m : m \in Offspring(a) /\ m \in Offspring(b) => a = b
           /\ \A d \in Docs, a \in DOMAIN heap : web.root[d] \notin Offspring(a)
           /\ \A d, e \in Docs : d # e /\ web.root[d] = web.root[e] => web.root[d] \in {Text, NoText}
           /\ \A a \in DOMAIN heap : heap[a].kind # "mixin"
           /\ Text \notin DOMAIN heap
<1>1. DOMAIN heap = DOMAIN web.heap
  BY DEF Plain, Bodies
<1>2. Text \notin DOMAIN heap
  BY DEF Plain, Whole, Store, Text
<1>3. \A a \in DOMAIN heap : heap[a].kind # "mixin"
  BY DEF Plain, Bodies, Mixes
<1>4. \A a, b \in DOMAIN heap : \A m : m \in Offspring(a) /\ m \in Offspring(b) => a = b
  BY <1>1 DEF Plain, TreeShaped, Offspring, ToSet
<1>5. \A d \in Docs, a \in DOMAIN heap : web.root[d] \notin Offspring(a)
  BY <1>1 DEF Plain, TreeShaped, Offspring
<1>6. \A d, e \in Docs : d # e /\ web.root[d] = web.root[e] => web.root[d] \in {Text, NoText}
  BY DEF Plain, TreeShaped
<1> QED  BY <1>2, <1>3, <1>4, <1>5, <1>6

\* The call in hand traverses an object of the store.
LEMMA Traversing ==
    ASSUME Whole, stack # <<>>, NEW K, Top.fn = "resolve_all", IsKind(Top.node, K)
    PROVE  /\ Traverses(Top) /\ Holds(Top)
           /\ Top.node \in DOMAIN heap /\ heap[Top.node].kind \in K
           /\ Top.pos \in Nat
           /\ heap[Top.node].kids \in Seq(Addrs) /\ Len(heap[Top.node].kids) \in Nat
           /\ DOMAIN heap[Top.node].kids = 1 .. Len(heap[Top.node].kids)
<1>1. Top \in Call
  BY TopOK DEF Whole
<1>2. Top.node \in DOMAIN heap /\ heap[Top.node].kind \in K /\ Top.pos \in Nat
  BY <1>1, CallParts, InHand
<1>3. heap[Top.node].kids \in Seq(Addrs)
  BY <1>2 DEF Whole, Store, Node
<1> QED  BY <1>1, <1>2, <1>3, LenProperties DEF Traverses, Holds, IsKind

\* What is ahead of a call is ahead of it from any later child on.
LEMMA LaterAhead ==
    ASSUME NEW F, NEW a, NEW from \in Nat, NEW to \in Nat, from <= to, Ahead(F, a, from),
           DOMAIN heap[a].kids \subseteq Nat
    PROVE  Ahead(F, a, to)
  BY DEF Ahead

\* An object that is taken out of F is untouched.
LEMMA TakenAhead ==
    ASSUME NEW F, Untouched(F), NEW m \in F, \A a \in F : m \notin Offspring(a),
           heap'[m].kids = heap[m].kids, web' = web
    PROVE  Ahead(F \ {m}, m, 1)'
<1>1. Ahead(F, m, 1)
  BY DEF Untouched
<1>2. m \notin Offspring(m) /\ Offspring(m)' = Offspring(m)
  BY DEF Offspring
<1> QED  BY <1>1, <1>2 DEF Ahead

----------------------------------------------------------------------------
(* The steps *)

\* Return and exception.
LEMMA LeaveFresh ==
    ASSUME Plain, NEW F, Fresh(F), stack # <<>>, UNCHANGED <<web, heap, idx>>,
           NEW v, NEW status, Return(v) \/ Raise(status)
    PROVE  Fresh(F)'
<1>1. \A d \in Docs : RootUrl(d) \notin DOMAIN idx' => web.root[d] \in F \union {Text, NoText}
  BY DEF Fresh, Untouched
<1>2. CASE stack' = <<>>
  <2>1. DOMAIN stack' = {}
    BY <1>2
  <2> QED  BY <1>1, <2>1, StepFresh DEF Plain
<1>3. CASE stack' = Front(stack)
  <2>1. DOMAIN stack' = Outer /\ \A i \in Outer : stack'[i] = stack[i]
    BY <1>3, StackAfter DEF Plain
  <2> QED  BY <1>1, <2>1, StepFresh DEF Plain
<1> QED  BY <1>2, <1>3 DEF Return, Raise

\* The call in hand goes on as f.
LEMMA BecomeFresh ==
    ASSUME Plain, NEW F, Fresh(F), NEW G, G \subseteq F, stack # <<>>,
           web' = web, DOMAIN heap' = DOMAIN heap,
           \A a \in DOMAIN heap : a # Top.node \/ ~Holds(Top) => heap'[a].kids = heap[a].kids,
           \A m \in F \ G : Holds(Top) /\ m \in Offspring(Top.node),
           DOMAIN idx \subseteq DOMAIN idx',
           NEW f, Become(f), f.mode # "mixin",
           Holds(f) => /\ Holds(Top) /\ f.node \in (F \ G) \union {Top.node}
                       /\ f.node \notin G,
           Traverses(f) => Ahead(G, f.node, From(f))'
    PROVE  Fresh(G)'
<1>1. /\ DOMAIN stack' = 1 .. Len(stack) /\ stack'[Len(stack)] = f
      /\ Len(stack) \in Nat \ {0} /\ stack[Len(stack)] = Top
      /\ \A i \in Outer : stack'[i] = stack[i]
      /\ \A i \in Outer : i \in DOMAIN stack /\ i < Len(stack) /\ stack[i] \in Call
      /\ Len(stack) \in DOMAIN stack /\ Top \in Call
  BY StackAfter DEF Plain
<1>2. \A i \in Outer : Holds(stack[i]) =>
          /\ stack[i].node \in DOMAIN heap /\ stack[i].node \notin F
          /\ Holds(Top) => stack[i].node # Top.node
  BY <1>1, CallParts DEF Fresh, InPlace, Apart, Holds, Addrs
<1>3. /\ Holds(Top) => Top.node \notin F /\ Top.node \in DOMAIN heap
      /\ F \subseteq DOMAIN heap
  BY <1>1, CallParts DEF Fresh, InPlace, Untouched, Holds, Addrs
<1>4. \A m \in F \ G : /\ \A a \in G : m \notin Offspring(a)
                       /\ \A i \in Outer : Holds(stack[i]) => m \notin Offspring(stack[i].node)
  BY <1>2, <1>3, Shape
<1>5. \A a \in F : heap'[a].kids = heap[a].kids
  BY <1>3
<1>6. \A i \in Outer : Holds(stack[i]) => heap'[stack[i].node].kids = heap[stack[i].node].kids
  BY <1>2
<1>7. \A d \in Docs : RootUrl(d) \notin DOMAIN idx' => web.root[d] \in G \union {Text, NoText}
  BY <1>3, Shape DEF Fresh, Untouched
<1>8. \A i \in DOMAIN stack' : i \in Outer \/ (i = Len(stack) /\ i \notin Outer)
  BY <1>1 DEF Outer
<1>9. \A i \in DOMAIN stack' : i \notin Outer => InPlace(G, stack[i])'
  BY <1>1, <1>8 DEF InPlace, From, Holds, Traverses
<1>10. \A i, j \in DOMAIN stack' :
          /\ ~(i < j /\ i \notin Outer /\ j \notin Outer)
          /\ i < j /\ j \in Outer => i \in Outer
  BY <1>1 DEF Outer
<1>11. \A i \in DOMAIN stack' : i \notin Outer /\ Holds(stack'[i]) =>
           stack'[i].node \in F \ G \/ (Holds(Top) /\ stack'[i].node = Top.node)
  BY <1>1, <1>8
<1>12. \A i \in DOMAIN stack' :
           \/ i \in Outer /\ stack'[i] = stack[i]
           \/ /\ i \notin Outer
              /\ InPlace(G, stack[i])'
              /\ Holds(stack'[i]) =>
                    stack'[i].node \in F \ G \/ (Holds(Top) /\ stack'[i].node = Top.node)
  <2> TAKE i \in DOMAIN stack'
  <2>1. CASE i \in Outer
    BY <1>1, <2>1
  <2>2. CASE i \notin Outer
    <3>1. InPlace(G, stack[i])'
      BY <1>9, <2>2
    <3>2. Holds(stack'[i]) =>
                    stack'[i].node \in F \ G \/ (Holds(Top) /\ stack'[i].node = Top.node)
      BY <1>11, <2>2
    <3> QED  BY <2>2, <3>1, <3>2
  <2> QED  BY <2>1, <2>2
<1>13. \A i, j \in DOMAIN stack' : i < j /\ i \notin Outer /\ j \notin Outer =>
           ~Holds(stack'[i]) \/ ~Holds(stack'[j]) \/ stack'[i].node # stack'[j].node
  BY <1>10
<1>15. Whole /\ web' = web /\ DOMAIN heap' = DOMAIN heap
  BY DEF Plain
<1> QED
  BY ONLY stack # <<>>, Fresh(F), G \subseteq F, <1>4, <1>5, <1>6, <1>7, <1>10, <1>12, <1>13, <1>15, StepFresh

\* The call in hand waits, as f, for a call g that may traverse what is taken out of F.
LEMMA InvokeFresh ==
    ASSUME Plain, NEW F, Fresh(F), NEW G, G \subseteq F, stack # <<>>, Unmoved,
           \A m \in F \ G, a \in DOMAIN heap : m \in Offspring(a) => Holds(Top) /\ a = Top.node,
           DOMAIN idx \subseteq DOMAIN idx',
           \A d \in Docs : RootUrl(d) \notin DOMAIN idx' => web.root[d] \notin F \ G,
           NEW f, NEW g, Invoke(f, g), f.mode # "mixin", g.mode # "mixin",
           Holds(f) => Holds(Top) /\ f.node = Top.node,
           Traverses(f) => Ahead(G, f.node, From(f))',
           Holds(g) => g.node \in F \ G,
           Traverses(g) => Ahead(G, g.node, From(g))'
    PROVE  Fresh(G)'
<1> DEFINE n == Len(stack)
<1>1. /\ DOMAIN stack' = 1 .. n + 1 /\ stack'[n] = f /\ stack'[n + 1] = g
      /\ n \in Nat \ {0} /\ stack[n] = Top
      /\ \A i \in Outer : stack'[i] = stack[i]
      /\ \A i \in Outer : i \in DOMAIN stack /\ i < n /\ stack[i] \in Call
      /\ n \in DOMAIN stack /\ Top \in Call
  BY StackAfter DEF Plain
<1>2. Outer = 1 .. n - 1
  BY DEF Outer
<1> HIDE DEF n
<1>3. \A i \in Outer : Holds(stack[i]) =>
          /\ stack[i].node \in DOMAIN heap /\ stack[i].node \notin F
          /\ Holds(Top) => stack[i].node # Top.node
  BY <1>1, CallParts DEF Fresh, InPlace, Apart, Holds, Addrs
<1>4. /\ Holds(Top) => Top.node \notin F /\ Top.node \in DOMAIN heap
      /\ F \subseteq DOMAIN heap
  BY <1>1, CallParts DEF Fresh, InPlace, Untouched, Holds, Addrs
<1>5. \A m \in F \ G : /\ \A a \in G : m \notin Offspring(a)
                       /\ \A i \in Outer : Holds(stack[i]) => m \notin Offspring(stack[i].node)
  BY <1>3, <1>4
<1>6. /\ \A a \in F : heap'[a].kids = heap[a].kids
      /\ \A i \in Outer : Holds(stack[i]) => heap'[stack[i].node].kids = heap[stack[i].node].kids
      /\ web' = web /\ DOMAIN heap' = DOMAIN heap
  BY <1>3, <1>4 DEF Unmoved
<1>7. \A d \in Docs : RootUrl(d) \notin DOMAIN idx' => web.root[d] \in G \union {Text, NoText}
  BY DEF Fresh, Untouched
<1>8. \A i \in DOMAIN stack' : i \in Outer \/ (i \in {n, n + 1} /\ i \notin Outer)
  BY <1>1, <1>2
<1>9. \A i \in DOMAIN stack' : i \notin Outer => InPlace(G, stack[i])'
  BY <1>1, <1>4, <1>8 DEF InPlace, From, Holds, Traverses
<1>10. \A i, j \in DOMAIN stack' :
          /\ i < j /\ i \notin Outer /\ j \notin Outer => i = n /\ j = n + 1
          /\ i < j /\ j \in Outer => i \in Outer
  BY <1>1, <1>2
<1>11. Holds(f) /\ Holds(g) => f.node # g.node
  BY <1>4
<1>12. \A i, j \in DOMAIN stack' : i < j /\ i \notin Outer /\ j \notin Outer =>
           ~Holds(stack'[i]) \/ ~Holds(stack'[j]) \/ stack'[i].node # stack'[j].node
  BY <1>1, <1>10, <1>11
<1>13. \A i \in DOMAIN stack' : i \notin Outer /\ Holds(stack'[i]) =>
           stack'[i].node \in F \ G \/ (Holds(Top) /\ stack'[i].node = Top.node)
  BY <1>1, <1>8
<1>14. \A i \in DOMAIN stack' :
           \/ i \in Outer /\ stack'[i] = stack[i]
           \/ /\ i \notin Outer
              /\ InPlace(G, stack[i])'
              /\ Holds(stack'[i]) =>
                    stack'[i].node \in F \ G \/ (Holds(Top) /\ stack'[i].node = Top.node)
  <2> TAKE i \in DOMAIN stack'
  <2>1. CASE i \in Outer
    BY <1>1, <2>1
  <2>2. CASE i \notin Outer
    <3>1. InPlace(G, stack[i])'
      BY <1>9, <2>2
    <3>2. Holds(stack'[i]) =>
                    stack'[i].node \in F \ G \/ (Holds(Top) /\ stack'[i].node = Top.node)
      BY <1>13, <2>2
    <3> QED  BY <2>2, <3>1, <3>2
  <2> QED  BY <2>1, <2>2
<1>15. Whole
  BY DEF Plain
<1> QED
  BY ONLY stack # <<>>, Fresh(F), G \subseteq F, <1>5, <1>6, <1>7, <1>10, <1>12, <1>14, <1>15, StepFresh

\* A directive that is followed is in hand and is no mixin.
LEMMA DirectiveFresh ==
    ASSUME Plain, NEW node \in Addrs, IsKind(node, Directives), NEW base, NEW ns, NEW check
    PROVE  /\ DirectiveFrame(node, base, ns, check).mode # "mixin"
           /\ DirectiveFrame(node, base, ns, check).node = node
           /\ ~Traverses(DirectiveFrame(node, base, ns, check))
<1>1. node \in DOMAIN heap
  BY InHand
<1> QED  BY <1>1, Shape DEF DirectiveFrame, RefFrame, Traverses

LEMMA OpenSeqFresh ==
    ASSUME Plain, NEW F, Fresh(F), OpenSeq
    PROVE  Fresh(F)'
<1>0. PICK f : f = [Top EXCEPT !.at = "iterate", !.pos = 1]
  OBVIOUS
<1>1. /\ stack # <<>> /\ Top.fn = "resolve_all" /\ Top.at = "enter" /\ IsKind(Top.node, {"seq"})
      /\ Become(f) /\ UNCHANGED <<web, heap, idx>>
  BY <1>0 DEF OpenSeq, Running, objects, world
<1>2. /\ Top \in Call /\ InPlace(F, Top) /\ Traverses(Top) /\ Holds(Top)
  BY <1>1, StackAfter, Traversing DEF Fresh, Plain
<1>3. f.fn = Top.fn /\ f.at = "iterate" /\ f.mode = Top.mode /\ f.pos = 1 /\ f.node = Top.node
  BY <1>0, <1>2 DEF Call, Frame
<1>4. Ahead(F, f.node, From(f))'
  BY <1>1, <1>2, <1>3 DEF InPlace, From, Ahead, Offspring
<1> QED  BY <1>1, <1>2, <1>3, <1>4, BecomeFresh DEF InPlace

LEMMA OpenMapFresh ==
    ASSUME Plain, NEW F, Fresh(F), OpenMap
    PROVE  Fresh(F)'
<1>0. PICK f : f = [Top EXCEPT !.at = "iterate", !.pos = 1, !.base = Identified(Top).base,
                               !.ns = Scope(Top)]
  OBVIOUS
<1>1. /\ stack # <<>> /\ Top.fn = "resolve_all" /\ Top.at = "enter" /\ IsKind(Top.node, {"map"})
      /\ Become(f) /\ idx' = Symbols(heap[Top.node], Identified(Top).base, Identified(Top).idx)
  BY <1>0 DEF OpenMap, Running
<1>2. /\ Top \in Call /\ InPlace(F, Top) /\ Traverses(Top) /\ Holds(Top) /\ Top.node \in DOMAIN heap
  BY <1>1, StackAfter, Traversing DEF Fresh, Plain
<1>3. f.fn = Top.fn /\ f.at = "iterate" /\ f.mode = Top.mode /\ f.pos = 1 /\ f.node = Top.node
  BY <1>0, <1>2 DEF Call, Frame
<1>4. Unmoved /\ DOMAIN idx \subseteq DOMAIN idx'
  BY <1>1, OpenMapHeap, IndexGrows DEF Plain
<1>5. Ahead(F, f.node, From(f))'
  BY <1>1, <1>2, <1>3, <1>4 DEF InPlace, From, Ahead, Offspring, Unmoved
<1> QED  BY <1>1, <1>2, <1>3, <1>4, <1>5, BecomeFresh DEF InPlace, Unmoved

\* The list of a $graph takes the place of the map.
LEMMA OpenGraphFresh ==
    ASSUME Plain, NEW F, Fresh(F), OpenGraph
    PROVE  \E G : G = F \ {Kids(Top)[1]} /\ Fresh(G)'
<1>0. PICK list, f, G :
        /\ list = heap[Top.node].kids[1]
        /\ f = [Top EXCEPT !.at = "iterate", !.pos = 1, !.ns = Scope(Top),
                       !.base = Identified(Top).base, !.node = list]
        /\ G = F \ {list}
  OBVIOUS
<1>1. /\ stack # <<>> /\ Top.fn = "resolve_all" /\ Top.at = "enter" /\ IsKind(Top.node, {"graph"})
      /\ Become(f) /\ idx' = Identified(Top).idx
  BY <1>0 DEF OpenGraph, Running
<1>2. /\ Top \in Call /\ InPlace(F, Top) /\ Traverses(Top) /\ Holds(Top) /\ Top.node \in DOMAIN heap
      /\ heap[Top.node].kind = "graph"
      /\ DOMAIN heap[Top.node].kids = 1 .. Len(heap[Top.node].kids)
  BY <1>1, StackAfter, Traversing DEF Fresh, Plain
<1>3. heap[Top.node].kids # <<>> /\ list \in DOMAIN heap /\ heap[Top.node].kids \in Seq(Addrs)
  BY <1>0, <1>1, <1>2, Traversing DEF Plain, Whole, Store, WellFormed
<1>4. 1 \in DOMAIN heap[Top.node].kids /\ list # Text
  BY <1>2, <1>3, Shape, EmptySeq, LenProperties
<1>5. list \in F /\ list \in Offspring(Top.node) /\ Top.node \notin F
  BY <1>0, <1>1, <1>2, <1>4 DEF InPlace, From, Ahead
<1>6. f.fn = Top.fn /\ f.at = "iterate" /\ f.mode = Top.mode /\ f.pos = 1 /\ f.node = list
  BY <1>0, <1>2 DEF Call, Frame
<1>7. Unmoved /\ DOMAIN idx \subseteq DOMAIN idx'
  BY <1>1, OpenGraphHeap, IndexGrows DEF Plain
<1>8. Ahead(G, list, 1)'
  <2>1. \A a \in F : list \notin Offspring(a) /\ F \subseteq DOMAIN heap
    BY <1>2, <1>5, Shape DEF Fresh, Untouched
  <2> QED  BY <1>0, <1>3, <1>5, <1>7, <2>1, TakenAhead DEF Fresh, Unmoved
<1>9. Ahead(G, f.node, From(f))'
  BY <1>6, <1>8 DEF From
<1>10. Fresh(G)'
  <2>1. G \subseteq F /\ F \ G = {list} /\ list \notin G
    BY <1>0, <1>5
  <2> QED  BY <1>1, <1>2, <1>5, <1>6, <1>7, <1>9, <2>1, BecomeFresh DEF InPlace, Unmoved
<1> QED  BY <1>0, <1>10 DEF Kids

LEMMA FollowDirectiveFresh ==
    ASSUME Plain, NEW F, Fresh(F), FollowDirective
    PROVE  Fresh(F)'
<1>0. PICK f : f = DirectiveFrame(Top.node, IF IsKind(Top.node, {"mixin"}) THEN Top.base ELSE Top.file,
                                  Top.ns, Top.check)
  OBVIOUS
<1>1. /\ stack # <<>> /\ IsKind(Top.node, Directives) /\ Become(f) /\ UNCHANGED <<web, heap, idx>>
  BY <1>0 DEF FollowDirective, Running, objects, world
<1>2. Top.node \in Addrs /\ Holds(Top) /\ InPlace(F, Top)
  BY <1>1, StackAfter, CallParts DEF Plain, Fresh, IsKind, Holds
<1>3. f.mode # "mixin" /\ f.node = Top.node /\ ~Traverses(f)
  BY <1>0, <1>1, <1>2, DirectiveFresh
<1> QED  BY <1>1, <1>2, <1>3, BecomeFresh DEF InPlace

\* A call descends into the next child, which is untouched, and has the ones after it ahead.
LEMMA DescendFresh ==
    ASSUME Plain, NEW F, Fresh(F), Descend
    PROVE  \E G : G = F \ {Kids(Top)[Top.pos]} /\ Fresh(G)'
<1>0. PICK kid, f, g :
        /\ kid = Kids(Top)[Top.pos]
        /\ f = [Top EXCEPT !.at = "wait"]
        /\ g = IF Spliceable(Top) THEN DirectiveFrame(kid, Top.file, Top.ns, FALSE)
               ELSE AllFrame(kid, Top.base, Top.file, Top.ns, FALSE)
  OBVIOUS
<1>1. /\ stack # <<>> /\ Top.fn = "resolve_all" /\ Top.at = "iterate" /\ Top.pos \in DOMAIN Kids(Top)
      /\ Invoke(f, g) /\ UNCHANGED <<web, heap, idx>>
  BY <1>0 DEF Descend, Running, More, objects, world
<1>2. Top \in Call /\ InPlace(F, Top)
  BY <1>1, StackAfter DEF Fresh, Plain
<1>3. IsKind(Top.node, {"map", "seq"})
  BY <1>1, <1>2, CallParts
<1>4. /\ Traverses(Top) /\ Holds(Top) /\ Top.node \in DOMAIN heap /\ Top.pos \in Nat
      /\ heap[Top.node].kids \in Seq(Addrs) /\ Len(heap[Top.node].kids) \in Nat
      /\ DOMAIN heap[Top.node].kids = 1 .. Len(heap[Top.node].kids)
      /\ Kids(Top) = heap[Top.node].kids
  BY <1>1, <1>3, Traversing DEF Plain, Kids
<1>5. Ahead(F, Top.node, Top.pos) /\ Top.node \notin F
  BY <1>1, <1>2, <1>4 DEF InPlace, From
<1>6. Unmoved
  BY <1>1 DEF Unmoved
<1>7. /\ f.fn = Top.fn /\ f.at = "wait" /\ f.mode = Top.mode /\ f.pos = Top.pos
      /\ f.node = Top.node /\ Top.mode # "mixin" /\ From(f) = Top.pos + 1
  BY <1>0, <1>2 DEF Call, Frame, InPlace, From
<1>8. kid \in Addrs
  BY <1>0, <1>1, <1>4, ElementOfSeq
<1>9. CASE kid = Text
  <2>1. g = AllFrame(kid, Top.base, Top.file, Top.ns, FALSE)
    BY <1>0, <1>9 DEF Spliceable, IsKind
  <2>2. g.mode # "mixin" /\ ~Holds(g) /\ ~Traverses(g)
    BY <1>9, <2>1 DEF AllFrame, Holds, Traverses
  <2>3. Ahead(F, Top.node, Top.pos + 1)
    BY <1>4, <1>5, LaterAhead
  <2>4. Ahead(F, f.node, From(f))'
    BY <1>1, <1>7, <2>3 DEF Ahead, Offspring, From
  <2>5. Fresh(F)'
    BY <1>1, <1>4, <1>6, <1>7, <2>2, <2>4, InvokeFresh
  <2>6. F = F \ {kid}
    BY <1>9, Shape DEF Fresh, Untouched
  <2> QED  BY <1>0, <2>5, <2>6
<1>10. CASE kid # Text
  <2>0. PICK G : G = F \ {kid}
    OBVIOUS
  <2>1. /\ kid \in F /\ kid \in Offspring(Top.node)
        /\ \A j \in DOMAIN heap[Top.node].kids : j > Top.pos => heap[Top.node].kids[j] # kid
    BY <1>0, <1>1, <1>4, <1>5, <1>10 DEF Ahead
  <2>2. g.mode # "mixin" /\ g.node = kid /\ (Traverses(g) => g.at = "enter")
    <3>1. CASE Spliceable(Top)
      <4>1. IsKind(kid, Directives)
        BY <1>0, <3>1 DEF Spliceable, IsKind, Directives
      <4>2. g = DirectiveFrame(kid, Top.file, Top.ns, FALSE)
        BY <1>0, <3>1
      <4>3. g.mode = heap[kid].kind /\ g.node = kid
        BY <4>2 DEF DirectiveFrame, RefFrame
      <4>4. kid \in DOMAIN heap
        BY <1>8, <4>1, InHand
      <4>5. g.mode # "mixin"
        BY <4>3, <4>4, Shape
      <4>6. ~Traverses(g)
        BY <4>2 DEF Traverses, DirectiveFrame, RefFrame
      <4> QED  BY <4>3, <4>5, <4>6
    <3>2. CASE ~Spliceable(Top)
      BY <1>0, <3>2 DEF AllFrame
    <3> QED  BY <3>1, <3>2
  <2>3. \A a \in DOMAIN heap : kid \in Offspring(a) => a = Top.node
    BY <1>4, <2>1, Shape
  <2>4. Ahead(G, kid, 1)'
    <3>1. \A a \in F : kid \notin Offspring(a)
      BY <1>5, <2>3 DEF Fresh, Untouched
    <3> QED  BY <1>1, <2>0, <2>1, <3>1, TakenAhead DEF Fresh
  <2>5. Traverses(g) => Ahead(G, g.node, From(g))'
    BY <2>2, <2>4 DEF From
  <2>6. Ahead(G, Top.node, Top.pos + 1)
    BY <1>4, <1>5, <2>0, <2>1 DEF Ahead
  <2>7. Ahead(G, f.node, From(f))'
    BY <1>1, <1>7, <2>6 DEF Ahead, Offspring, From
  <2>8. /\ G \subseteq F /\ F \ G = {kid}
        /\ \A d \in Docs : web.root[d] # kid
    BY <1>4, <2>0, <2>1, Shape
  <2>9. Fresh(G)'
    BY <1>1, <1>4, <1>6, <1>7, <2>2, <2>3, <2>5, <2>7, <2>8, InvokeFresh
  <2> QED  BY <1>0, <2>0, <2>9
<1> QED  BY <1>9, <1>10

\* The loop goes on behind what was written: nothing of what was ahead is lost or added.
LEMMA RefillFresh ==
    ASSUME Plain, NEW F, Fresh(F), Returned("resolve_all"), More(Top),
           NEW kids \in Seq(Addrs), NEW pos \in Nat, NEW shift \in Int,
           \A j \in DOMAIN kids : j >= pos =>
               /\ j - shift \in DOMAIN Kids(Top) /\ j - shift > Top.pos
               /\ kids[j] = Kids(Top)[j - shift],
           heap' = [heap EXCEPT ![Top.node].kids = kids],
           Become([Top EXCEPT !.at = "iterate", !.pos = pos]), UNCHANGED <<web, idx>>
    PROVE  Fresh(F)'
<1>0. PICK f, a : f = [Top EXCEPT !.at = "iterate", !.pos = pos] /\ a = Top.node
  OBVIOUS
<1>1. /\ stack # <<>> /\ Top \in Call /\ Top.fn = "resolve_all" /\ Top.at = "wait"
      /\ IsKind(a, {"map", "seq"}) /\ Kids(Top) = heap[a].kids /\ InPlace(F, Top)
  <2>1. stack # <<>>
    BY DEF Returned
  <2>2. Top \in Call /\ InPlace(F, Top)
    BY <2>1, StackAfter DEF Plain, Fresh
  <2> QED  BY <1>0, <2>1, <2>2, InLoop DEF Returned, Plain
<1>2. Traverses(Top) /\ Holds(Top) /\ a \in DOMAIN heap /\ Top.pos \in Nat /\ DOMAIN heap[a].kids \subseteq Nat
  BY <1>0, <1>1, Traversing DEF Plain
<1>3. Ahead(F, a, Top.pos + 1) /\ a \notin F
  BY <1>0, <1>1, <1>2 DEF InPlace, From
<1>4. /\ f.fn = Top.fn /\ f.at = "iterate" /\ f.mode = Top.mode /\ f.pos = pos /\ f.node = a
      /\ Top.mode # "mixin"
  BY <1>0, <1>1 DEF Call, Frame, InPlace
<1>5. DOMAIN heap' = DOMAIN heap /\ heap'[a].kids = kids
      /\ \A b \in DOMAIN heap : b # a => heap'[b].kids = heap[b].kids
  BY <1>0, <1>2, RefillHeap DEF Plain
<1>6. DOMAIN kids \subseteq Nat
  BY LenProperties
<1>7. Ahead(F, a, pos)'
  <2>1. \A j \in DOMAIN kids : j >= pos /\ kids[j] # Text =>
            /\ kids[j] \in F /\ kids[j] \in Offspring(a)
            /\ \A k \in DOMAIN kids : k > j => kids[k] # kids[j]
    <3> TAKE j \in DOMAIN kids
    <3> HAVE j >= pos /\ kids[j] # Text
    <3>1. /\ j - shift \in DOMAIN heap[a].kids /\ j - shift >= Top.pos + 1
          /\ kids[j] = heap[a].kids[j - shift]
      BY <1>1, <1>2, <1>6
    <3>2. /\ kids[j] \in F /\ kids[j] \in Offspring(a)
          /\ \A k \in DOMAIN heap[a].kids : k > j - shift => heap[a].kids[k] # kids[j]
      BY <1>3, <3>1 DEF Ahead
    <3>3. \A k \in DOMAIN kids : k > j => kids[k] # kids[j]
      <4> TAKE k \in DOMAIN kids
      <4> HAVE k > j
      <4>1. k >= pos /\ k - shift > j - shift
        BY <1>6
      <4>2. k - shift \in DOMAIN heap[a].kids /\ kids[k] = heap[a].kids[k - shift]
        BY <1>1, <4>1
      <4> QED  BY <3>2, <4>1, <4>2
    <3> QED  BY <3>2, <3>3
  <2> QED  BY <1>5, <2>1 DEF Ahead, Offspring
<1>8. Ahead(F, f.node, From(f))'
  BY <1>4, <1>7 DEF From
<1>9. Become(f)
  BY <1>0
<1>10. /\ F \subseteq F /\ F \ F = {} /\ web' = web /\ DOMAIN idx \subseteq DOMAIN idx'
       /\ \A b \in DOMAIN heap : b # Top.node \/ ~Holds(Top) => heap'[b].kids = heap[b].kids
       /\ Holds(f) => Holds(Top) /\ f.node \in (F \ F) \union {Top.node} /\ f.node \notin F
  BY <1>0, <1>2, <1>3, <1>4, <1>5
<1> QED
  BY ONLY Plain, Fresh(F), <1>1, <1>4, <1>5, <1>8, <1>9, <1>10, BecomeFresh

LEMMA ReplaceKidFresh ==
    ASSUME Plain, NEW F, Fresh(F), ReplaceKid
    PROVE  Fresh(F)'
<1>1. /\ Returned("resolve_all") /\ More(Top) /\ UNCHANGED <<web, idx>>
      /\ Become([Top EXCEPT !.at = "iterate", !.pos = Top.pos + 1])
      /\ heap' = [heap EXCEPT ![Top.node].kids = [Kids(Top) EXCEPT ![Top.pos] = ret]]
  BY DEF ReplaceKid, Kids, world
<1> DEFINE kids == [Kids(Top) EXCEPT ![Top.pos] = ret]
<1>2. /\ kids \in Seq(Addrs) /\ Top.pos \in Nat /\ DOMAIN kids = DOMAIN Kids(Top)
      /\ DOMAIN kids \subseteq Nat
  BY <1>1, InLoop, LenProperties, SeqDef DEF Plain
<1>3. \A j \in DOMAIN kids : j >= Top.pos + 1 =>
          /\ j - 0 \in DOMAIN Kids(Top) /\ j - 0 > Top.pos /\ kids[j] = Kids(Top)[j - 0]
  BY <1>2
<1> HIDE DEF kids
<1>4. heap' = [heap EXCEPT ![Top.node].kids = kids] /\ Top.pos + 1 \in Nat /\ 0 \in Int
  BY <1>1, <1>2 DEF kids
<1> QED  BY <1>1, <1>2, <1>3, <1>4, RefillFresh

\* What follows the item that a list was spliced in for.
LEMMA SplicedTail ==
    ASSUME NEW A, NEW s \in Seq(A), NEW t \in Seq(A), NEW pos \in 1 .. Len(s)
    PROVE  LET all == SubSeq(s, 1, pos - 1) \o t \o SubSeq(s, pos + 1, Len(s))
           IN  /\ all \in Seq(A) /\ Len(all) = Len(s) + (Len(t) - 1)
               /\ \A j \in DOMAIN all : j >= pos + Len(t) =>
                     /\ j - (Len(t) - 1) \in DOMAIN s /\ j - (Len(t) - 1) > pos
                     /\ all[j] = s[j - (Len(t) - 1)]
<1>1. Len(s) \in Nat /\ Len(t) \in Nat /\ DOMAIN s = 1 .. Len(s) /\ pos \in Int
  BY LenProperties
<1> DEFINE n == Len(s)
           k == Len(t)
           before == SubSeq(s, 1, pos - 1)
           after  == SubSeq(s, pos + 1, n)
           head   == before \o t
           all    == head \o after
<1>2. \A i \in 1 .. n : s[i] \in A
  BY <1>1, ElementOfSeq
<1>3. before \in Seq(A) /\ Len(before) = pos - 1
  <2>1. /\ 1 \in Int /\ pos - 1 \in Int /\ \A i \in 1 .. pos - 1 : s[i] \in A
    BY <1>1, <1>2
  <2>2. before \in Seq(A) /\ Len(before) = IF 1 <= pos - 1 THEN pos - 1 - 1 + 1 ELSE 0
    BY <2>1, SubSeqProperties
  <2> QED  BY <1>1, <2>2
<1>4. /\ after \in Seq(A) /\ Len(after) = n - pos
      /\ \A i \in 1 .. n - pos : after[i] = s[pos + i]
  <2>1. /\ pos + 1 \in Int /\ n \in Int /\ \A i \in pos + 1 .. n : s[i] \in A
    BY <1>1, <1>2
  <2>2. /\ after \in Seq(A) /\ Len(after) = IF pos + 1 <= n THEN n - (pos + 1) + 1 ELSE 0
        /\ \A i \in 1 .. n - (pos + 1) + 1 : after[i] = s[pos + 1 + i - 1]
    BY <2>1, SubSeqProperties
  <2>3. \A i \in 1 .. n - pos : pos + 1 + i - 1 = pos + i
    BY <1>1
  <2>4. n - (pos + 1) + 1 = n - pos /\ (~(pos + 1 <= n) => n - pos = 0)
    <3>1. n \in Nat /\ pos \in Int /\ pos <= n
      BY <1>1
    <3> HIDE DEF n
    <3> QED  BY <3>1
  <2>5. after \in Seq(A) /\ Len(after) = n - pos
    BY <2>2, <2>4
  <2>6. \A i \in 1 .. n - pos : after[i] = s[pos + i]
    BY <2>2, <2>3, <2>4
  <2> QED  BY <2>5, <2>6
<1> HIDE DEF before, after
<1>5. head \in Seq(A) /\ Len(head) = pos - 1 + k
  BY <1>3, ConcatProperties
<1> HIDE DEF head, n, k
<1>6. /\ all \in Seq(A) /\ Len(all) = pos - 1 + k + (n - pos)
      /\ \A i \in 1 .. pos - 1 + k + (n - pos) :
            all[i] = IF i <= pos - 1 + k THEN head[i] ELSE after[i - (pos - 1 + k)]
  BY <1>4, <1>5, ConcatProperties
<1> HIDE DEF all
<1>7. DOMAIN all = 1 .. k + n - 1 /\ n \in Nat /\ k \in Nat /\ pos \in 1 .. n
  <2>1. n \in Nat /\ k \in Nat /\ pos \in 1 .. n
    BY <1>1 DEF n, k
  <2>2. Len(all) = k + n - 1
    BY <1>6, <2>1
  <2> QED  BY <1>6, <2>1, <2>2, LenProperties
<1>8. ASSUME NEW j \in DOMAIN all, j >= pos + k
      PROVE  j - (k - 1) \in 1 .. n /\ j - (k - 1) > pos /\ all[j] = s[j - (k - 1)]
  <2>1. /\ j \in 1 .. pos - 1 + k + (n - pos) /\ ~(j <= pos - 1 + k)
        /\ j - (pos - 1 + k) \in 1 .. n - pos
        /\ pos + (j - (pos - 1 + k)) = j - (k - 1)
        /\ j - (k - 1) \in 1 .. n /\ j - (k - 1) > pos
    BY <1>7, <1>8
  <2> QED  BY <1>4, <1>6, <2>1
<1>9. Len(all) = n + (k - 1)
  BY <1>6, <1>7
<1> QED  BY <1>1, <1>6, <1>8, <1>9 DEF all, head, before, after, n, k

LEMMA SpliceKidsFresh ==
    ASSUME Plain, NEW F, Fresh(F), SpliceKids
    PROVE  Fresh(F)'
<1>1. Returned("resolve_all") /\ More(Top) /\ UNCHANGED <<web, idx>>
  BY DEF SpliceKids, world
<1> DEFINE kids == Kids(Top)
           new  == IF ret = Top.node THEN <<>> ELSE heap[ret].kids
           all  == SubSeq(kids, 1, Top.pos - 1) \o new \o SubSeq(kids, Top.pos + 1, Len(kids))
<1>2. ret \in DOMAIN heap
  BY <1>1, InLoop, InHand DEF SpliceKids, Splices, Plain
<1>3. heap[ret].kids \in Seq(Addrs)
  BY <1>2 DEF Plain, Whole, Store, Node
<1>4. new \in Seq(Addrs) /\ Len(new) \in Nat
  BY <1>3, EmptySeq, LenProperties
<1>5. kids \in Seq(Addrs) /\ Len(kids) \in Nat /\ Top.pos \in 1 .. Len(kids)
  BY <1>1, InLoop DEF Plain
<1>6. /\ heap' = [heap EXCEPT ![Top.node].kids = all]
      /\ Become([Top EXCEPT !.at = "iterate", !.pos = Top.pos + Len(new)])
  BY DEF SpliceKids, After
<1> HIDE DEF new
<1>7. /\ all \in Seq(Addrs)
      /\ \A j \in DOMAIN all : j >= Top.pos + Len(new) =>
            /\ j - (Len(new) - 1) \in DOMAIN kids /\ j - (Len(new) - 1) > Top.pos
            /\ all[j] = kids[j - (Len(new) - 1)]
  BY <1>4, <1>5, SplicedTail
<1>8. Top.pos + Len(new) \in Nat /\ Len(new) - 1 \in Int
  BY <1>4, <1>5
<1> HIDE DEF all
<1> QED  BY <1>1, <1>6, <1>7, <1>8, RefillFresh

\* A document that is loaded was untouched.
LEMMA LoadFresh ==
    ASSUME Plain, NEW F, Fresh(F), Load
    PROVE  \E G : G = F \ {web.root[Top.url.doc]} /\ Fresh(G)'
<1>0. PICK d, root, f, g :
        /\ d = DocUrl(Top.url) /\ root = web.root[Top.url.doc]
        /\ f = [Top EXCEPT !.at = "wait"]
        /\ g = AllFrame(root, d, d, Top.ns, Top.check)
  OBVIOUS
<1>1. /\ stack # <<>> /\ Top.fn = "resolve_ref" /\ Top.mode # "mixin" /\ Top \in Call
      /\ Top.url.doc \in Docs
  BY TopRef DEF Load, Running, Plain
<1>2. /\ Unmoved /\ d \notin DOMAIN idx /\ d = RootUrl(Top.url.doc)
      /\ idx'[d] = root /\ root \in Addrs
      /\ DOMAIN idx \subseteq DOMAIN idx' /\ d \in DOMAIN idx'
  BY <1>0, LoadHeap DEF Plain
<1>3. Invoke(f, g)
  BY <1>0, <1>2 DEF Load
<1>4. f.fn = "resolve_ref" /\ f.mode # "mixin" /\ f.node = Top.node /\ ~Traverses(f)
  BY <1>0, <1>1 DEF Call, Frame, Traverses
<1>5. /\ g.fn = "resolve_all" /\ g.at = "enter" /\ g.mode = "string" /\ g.node = root
  BY <1>0 DEF AllFrame
<1>6. CASE root = Text
  <2>1. Fresh(F)'
    BY <1>1, <1>2, <1>3, <1>4, <1>5, <1>6, InvokeFresh DEF Holds, Traverses
  <2>2. F = F \ {root}
    BY <1>6, Shape DEF Fresh, Untouched
  <2> QED  BY <1>0, <2>1, <2>2
<1>7. CASE root # Text
  <2>0. PICK G : G = F \ {root}
    OBVIOUS
  <2>1. root \in F /\ F \subseteq DOMAIN heap
    <3>1. root # NoText
      BY <1>2, <1>7 DEF Addrs, Plain, Whole, Store, NoText
    <3> QED  BY <1>0, <1>1, <1>2, <1>7, <3>1 DEF Fresh, Untouched
  <2>2. /\ \A a \in DOMAIN heap : root \notin Offspring(a)
        /\ \A e \in Docs : RootUrl(e) \notin DOMAIN idx' => web.root[e] # root
    <3>1. \A e \in Docs : e # Top.url.doc => web.root[e] # root
      BY <1>0, <1>1, <1>7, <2>1, Shape DEF Plain, Whole, Store, NoText
    <3> QED  BY <1>0, <1>1, <1>2, <3>1, Shape
  <2>3. Ahead(G, root, 1)'
    BY <1>2, <2>0, <2>1, <2>2, TakenAhead DEF Fresh, Unmoved
  <2>4. Ahead(G, g.node, From(g))'
    BY <1>5, <2>3 DEF From
  <2>5. G \subseteq F /\ F \ G = {root}
    BY <2>0, <2>1
  <2>6. Fresh(G)'
    BY <1>1, <1>2, <1>3, <1>4, <1>5, <2>2, <2>4, <2>5, InvokeFresh DEF Holds, Traverses
  <2> QED  BY <1>0, <2>0, <2>6
<1> QED  BY <1>6, <1>7

----------------------------------------------------------------------------
(* The invariant *)

\* Nothing writes to the texts.
LEMMA SameWeb == [Next]_vars => web' = web
  BY DEF Next, Step, vars, Request, RejectDirective, ReturnIndexed, Include, ReportMissing, Load,
         LoadMixin, LoadFails, RefResolved, Answer, ReturnScalar, FollowDirective, OpenSeq, OpenMap,
         OpenGraph, Descend, ReplaceKid, SpliceKids, Finish, Overflow, world

\* Without mixins there is nothing to mix in.
LEMMA NoMixinCalls ==
    ASSUME Plain, NEW F, Fresh(F)
    PROVE  ~LoadMixin
<1> SUFFICES ASSUME LoadMixin PROVE FALSE
  OBVIOUS
<1>1. stack # <<>> /\ Top.mode = "mixin"
  BY DEF LoadMixin, Running
<1>2. InPlace(F, Top)
  BY <1>1, StackAfter DEF Fresh, Plain
<1> QED  BY <1>1, <1>2 DEF InPlace

\* The steps that leave objects and index alone, and end a call.
LEMMA QuietFresh ==
    ASSUME Plain, NEW F, Fresh(F),
           RejectDirective \/ ReturnIndexed \/ Include \/ ReportMissing \/ LoadFails \/ RefResolved
             \/ ReturnScalar \/ Finish \/ Overflow
    PROVE  Fresh(F)'
<1>1. /\ stack # <<>> /\ UNCHANGED <<web, heap, idx>>
      /\ (\E v : Return(v)) \/ (\E status : Raise(status))
  BY DEF RejectDirective, ReturnIndexed, Include, ReportMissing, LoadFails, RefResolved,
         ReturnScalar, Finish, Overflow, Running, Returned, objects, world
<1> QED  BY <1>1, LeaveFresh

LEMMA RequestFresh ==
    ASSUME Plain, NEW F, Fresh(F), NEW url, Request(url)
    PROVE  Fresh(F)'
<1>0. PICK f : f = RefFrame("string", url, Text, DocUrl(url), {}, TRUE)
  OBVIOUS
<1>1. UNCHANGED <<web, heap, idx>> /\ stack' = <<f>>
  BY <1>0 DEF Request, objects
<1>2. f.mode = "string" /\ f.fn = "resolve_ref" /\ f.node = Text
  BY <1>0 DEF RefFrame
<1>3. DOMAIN stack' = {1} /\ stack'[1] = f
  BY <1>1
<1>4. Untouched(F)'
  BY <1>1 DEF Fresh, Untouched, Ahead, Offspring
<1>5. \A i \in DOMAIN stack' : InPlace(F, stack[i])'
  BY <1>2, <1>3 DEF InPlace, Holds, Traverses
<1>6. Apart'
  BY <1>2, <1>3 DEF Apart, Holds
<1> QED  BY <1>4, <1>5, <1>6 DEF Fresh

LEMMA IdleFresh ==
    ASSUME NEW F, Fresh(F), UNCHANGED <<web, heap, idx, stack>>
    PROVE  Fresh(F)'
  BY DEF Fresh, Untouched, Ahead, Offspring, InPlace, Apart, From

\* The objects stay what they are.
LEMMA BodiesKept ==
    ASSUME Plain, NEW F, Fresh(F), [Next]_vars
    PROVE  Bodies'
<1>1. web' = web
  BY SameWeb
<1>2. CASE OpenMap \/ OpenGraph \/ Load
  BY <1>1, <1>2, OpenMapHeap, OpenGraphHeap, LoadHeap DEF Plain, Bodies, Unmoved
<1>3. CASE ReplaceKid \/ SpliceKids
  <2>1. /\ Returned("resolve_all") /\ More(Top)
        /\ \E kids : heap' = [heap EXCEPT ![Top.node].kids = kids]
    BY <1>3 DEF ReplaceKid, SpliceKids
  <2>2. Top.node \in DOMAIN heap
    BY <2>1, InLoop, CallParts, InHand DEF Plain
  <2> QED  BY <1>1, <2>1, <2>2, RefillHeap DEF Plain, Bodies
<1>4. CASE heap' = heap
  BY <1>1, <1>4 DEF Plain, Bodies
<1>5. heap' = heap \/ OpenMap \/ OpenGraph \/ Load \/ ReplaceKid \/ SpliceKids
  BY NoMixinCalls
     DEF Next, Step, vars, Request, RejectDirective, ReturnIndexed, Include, ReportMissing,
         LoadFails, RefResolved, Answer, ReturnScalar, FollowDirective, OpenSeq,
         Descend, Finish, Overflow, objects
<1> QED  BY <1>2, <1>3, <1>4, <1>5

\* A step takes out of F the object that it begins to resolve, and touches nothing else of F.
Takes(F, G) == \/ Load /\ G = F \ {web.root[Top.url.doc]}
               \/ Descend /\ G = F \ {Kids(Top)[Top.pos]}
               \/ OpenGraph /\ G = F \ {Kids(Top)[1]}
               \/ ~(Load \/ Descend \/ OpenGraph) /\ G = F

LEMMA StepTakes ==
    ASSUME Plain, NEW F, Fresh(F), [Next]_vars
    PROVE  \E G : G \subseteq F /\ Takes(F, G) /\ Fresh(G)'
<1>1. ASSUME RejectDirective \/ ReturnIndexed \/ Include \/ ReportMissing \/ LoadFails
             \/ RefResolved \/ ReturnScalar \/ Finish \/ Overflow
      PROVE  Fresh(F)'
  BY <1>1, QuietFresh
<1>2. ASSUME Answer PROVE Fresh(F)'
  BY <1>2, IdleFresh DEF Answer, objects, world
<1>3. ASSUME FollowDirective PROVE Fresh(F)'
  BY <1>3, FollowDirectiveFresh
<1>4. ASSUME OpenSeq PROVE Fresh(F)'
  BY <1>4, OpenSeqFresh
<1>5. ASSUME OpenMap PROVE Fresh(F)'
  BY <1>5, OpenMapFresh
<1>6. CASE OpenGraph
  BY <1>6, OpenGraphFresh DEF Takes
<1>7. CASE Descend
  BY <1>7, DescendFresh DEF Takes
<1>8. ASSUME ReplaceKid PROVE Fresh(F)'
  BY <1>8, ReplaceKidFresh
<1>9. ASSUME SpliceKids PROVE Fresh(F)'
  BY <1>9, SpliceKidsFresh
<1>10. CASE Load
  BY <1>10, LoadFresh DEF Takes
<1>11. ASSUME NEW url \in Requests, Request(url) PROVE Fresh(F)'
  BY <1>11, RequestFresh
<1>12. ASSUME UNCHANGED vars PROVE Fresh(F)'
  BY <1>12, IdleFresh DEF vars
<1>13. CASE ~(OpenGraph \/ Descend \/ Load)
  <2>1. Fresh(F)'
    BY <1>1, <1>2, <1>3, <1>4, <1>5, <1>8, <1>9, <1>11, <1>12, <1>13, NoMixinCalls DEF Next, Step
  <2> QED  BY <1>13, <2>1 DEF Takes
<1> QED  BY <1>6, <1>7, <1>10, <1>13

LEMMA StepUntouched ==
    ASSUME Plain, NEW F, Fresh(F), [Next]_vars
    PROVE  \E G : G \subseteq F /\ Fresh(G)'
  BY StepTakes

LEMMA StepTraversal == Whole /\ TreeShaped(web) /\ ~Mixes /\ Traversal /\ [Next]_vars => Traversal'
  BY StepUntouched, BodiesKept DEF Traversal, Plain

\* At first nothing has been touched.
LEMMA InitFresh ==
    ASSUME Init, TreeShaped(web)
    PROVE  Bodies /\ Fresh(DOMAIN heap)
<1>1. Whole
  BY InitOK
<1> DEFINE F == DOMAIN heap
<1>2. Bodies
  BY DEF Bodies, Init
<1>3. \A a \in F : heap[a].kids \in Seq(F \union {Text}) /\ DOMAIN heap[a].kids \subseteq Nat
  BY <1>1, LenProperties DEF Whole, Store, Node, Addrs
<1>4. ASSUME NEW a \in F PROVE Ahead(F, a, 1)
  <2>1. \A i \in DOMAIN heap[a].kids : heap[a].kids[i] \in F \union {Text}
    BY <1>3, ElementOfSeq, LenProperties
  <2>2. \A i \in DOMAIN heap[a].kids : heap[a].kids[i] # Text => heap[a].kids[i] \in Offspring(a)
    BY DEF Offspring, ToSet, Init
  <2>3. \A i, j \in DOMAIN heap[a].kids :
            heap[a].kids[i] = heap[a].kids[j] /\ heap[a].kids[i] # Text => i = j
    BY DEF TreeShaped, Init
  <2> QED  BY <1>3, <2>1, <2>2, <2>3 DEF Ahead
<1>5. ASSUME NEW d \in Docs PROVE web.root[d] \in F \union {Text, NoText}
  BY <1>1, RootOK DEF Addrs
<1>6. Untouched(F)
  BY <1>4, <1>5 DEF Untouched
<1>7. DOMAIN stack = {}
  BY DEF Init
<1> HIDE DEF F
<1> QED  BY <1>2, <1>6, <1>7 DEF Fresh, Apart, F

LEMMA InitTraversal == Init /\ TreeShaped(web) => Traversal
  BY InitFresh DEF Traversal

LEMMA TraversalInvariant ==
    ASSUME \A w \in Webs : TreeShaped(w)
    PROVE  Spec => [](Whole /\ TreeShaped(web) /\ (Mixes \/ Traversal))
<1> DEFINE Inv == Whole /\ TreeShaped(web) /\ (Mixes \/ Traversal)
<1>1. Init => Inv
  BY InitOK, InitTraversal DEF Init
<1>2. Inv /\ [Next]_vars => Inv'
  <2> SUFFICES ASSUME Inv, [Next]_vars PROVE Inv'
    OBVIOUS
  <2>1. web' = web
    BY SameWeb
  <2>2. Whole' /\ TreeShaped(web)' /\ (Mixes' <=> Mixes)
    BY <2>1, NextOK DEF TreeShaped, Mixes
  <2> QED  BY <2>2, StepTraversal
<1> QED  BY <1>1, <1>2, PTL DEF Spec

\* In texts without aliases and without mixins no two calls of resolve_all are in a loop over
\* the same map or list, however imports, cycles and splices lead them through the documents.
THEOREM Unshared ==
    ASSUME \A w \in Webs : TreeShaped(w)
    PROVE  Spec => []NoSharedTraversal
<1>1. Whole /\ TreeShaped(web) /\ (Mixes \/ Traversal) => NoSharedTraversal
  <2> SUFFICES ASSUME Whole, Traversal PROVE NoSharedTraversal
    BY DEF NoSharedTraversal
  <2>1. Apart
    BY DEF Traversal, Fresh
  <2>2. \A i \in DOMAIN stack : stack[i] \in Call
    BY LenProperties, ElementOfSeq DEF Whole, Control
  <2>3. \A i \in DOMAIN stack : stack[i].fn = "resolve_all" /\ stack[i].at # "enter" =>
            Holds(stack[i])
    BY <2>2, CallParts DEF Holds, IsKind
  <2> QED  BY <2>1, <2>3 DEF Apart, NoSharedTraversal
<1> QED  BY <1>1, TraversalInvariant, PTL

----------------------------------------------------------------------------
(* Documents *)

\* A call resolves an object beside the document it was written in, which has been parsed.
AtHome(f) == Traverses(f) => f.file.doc = heap[f.node].home /\ fetched[heap[f.node].home] > 0

\* What the index has is of documents that have been parsed.
OfParsed == \A u \in DOMAIN idx : idx[u] # Text => fetched[heap[idx[u]].home] > 0

Homes == OfParsed /\ \A i \in DOMAIN stack : AtHome(stack[i])

\* A child that is ahead belongs to the document of its parent, a root to its own.
LEMMA ChildHome ==
    ASSUME Plain, OwnDocuments(web)
    PROVE  /\ \A a \in DOMAIN heap : \A b \in Offspring(a) : heap[b].home = heap[a].home
           /\ \A d \in Docs : web.root[d] \in DOMAIN heap => heap[web.root[d]].home = d
<1>1. /\ DOMAIN heap = DOMAIN web.heap
      /\ \A a \in DOMAIN heap : heap[a].home = web.heap[a].home
  BY DEF Plain, Bodies
<1>2. ASSUME NEW a \in DOMAIN heap, NEW b \in Offspring(a)
      PROVE  heap[b].home = heap[a].home
  <2>1. PICK i \in DOMAIN web.heap[a].kids : b = web.heap[a].kids[i] /\ b # Text
    BY DEF Offspring, ToSet
  <2>2. /\ web.heap \in Seq(Node(0 .. Len(web.heap))) /\ Len(web.heap) \in Nat
        /\ DOMAIN web.heap = 1 .. Len(web.heap)
    BY LenProperties DEF Plain, Whole, Store, WebOK
  <2>3. web.heap[a].kids \in Seq(0 .. Len(web.heap))
    <3>1. web.heap[a] \in Node(0 .. Len(web.heap))
      BY <1>1, <2>2, ElementOfSeq
    <3> QED  BY <3>1 DEF Node
  <2>4. b \in 0 .. Len(web.heap)
    BY <2>1, <2>3, ElementOfSeq, LenProperties
  <2>5. b \in DOMAIN heap
    BY <1>1, <2>1, <2>2, <2>4 DEF Text
  <2> QED  BY <1>1, <2>5 DEF OwnDocuments, Offspring
<1> QED  BY <1>1, <1>2 DEF OwnDocuments

\* Every document that has been parsed stays parsed.
Onward == /\ DOMAIN heap' = DOMAIN heap
          /\ \A a \in DOMAIN heap : heap'[a].home = heap[a].home
          /\ \A a \in DOMAIN heap : fetched[heap[a].home] > 0 => fetched'[heap[a].home] > 0

\* The outer calls stay where they are.
LEMMA HomesAfter ==
    ASSUME Plain, Homes, stack # <<>>, Onward, OfParsed',
           NEW v, NEW status, NEW f, NEW g,
           \/ Return(v)
           \/ Raise(status)
           \/ Become(f) /\ AtHome(f)'
           \/ Invoke(f, g) /\ AtHome(f)' /\ AtHome(g)'
    PROVE  Homes'
<1> DEFINE n == Len(stack)
<1>1. /\ n \in Nat \ {0} /\ Outer = 1 .. n - 1
      /\ \A i \in Outer : i \in DOMAIN stack /\ stack[i] \in Call
  BY StackAfter DEF Plain, Outer
<1>2. \A i \in Outer : AtHome(stack[i])
  BY <1>1 DEF Homes
<1>3. ASSUME NEW i \in Outer, stack'[i] = stack[i]
      PROVE  AtHome(stack[i])'
  <2>1. Traverses(stack[i]) => stack[i].node \in DOMAIN heap
    BY <1>1, CallParts DEF Traverses, Addrs
  <2> QED  BY <1>2, <1>3, <2>1 DEF AtHome, Traverses, Onward
<1>4. \A i \in Outer : stack'[i] = stack[i] => AtHome(stack[i])'
  BY <1>3
<1>5. CASE stack' = <<>>
  <2>1. DOMAIN stack' = {}
    BY <1>5
  <2> QED  BY <2>1 DEF Homes
<1>6. CASE Return(v)
  <2>1. DOMAIN stack' = Outer /\ \A i \in Outer : stack'[i] = stack[i]
    BY <1>6, StackAfter DEF Plain, Return
  <2> QED  BY <1>4, <2>1 DEF Homes
<1>7. CASE Become(f) /\ AtHome(f)'
  <2>1. DOMAIN stack' = 1 .. n /\ stack'[n] = f /\ \A i \in Outer : stack'[i] = stack[i]
    BY <1>7, StackAfter DEF Plain
  <2> HIDE DEF n
  <2>2. \A i \in DOMAIN stack' : i \in Outer \/ i = n
    BY <1>1, <2>1
  <2>3. \A i \in DOMAIN stack' : stack'[i] = f => AtHome(stack[i])'
    BY <1>7 DEF AtHome, Traverses
  <2> QED  BY <1>4, <2>1, <2>2, <2>3 DEF Homes
<1>8. CASE Invoke(f, g) /\ AtHome(f)' /\ AtHome(g)'
  <2>1. /\ DOMAIN stack' = 1 .. n + 1 /\ stack'[n] = f /\ stack'[n + 1] = g
        /\ \A i \in Outer : stack'[i] = stack[i]
    BY <1>8, StackAfter DEF Plain
  <2> HIDE DEF n
  <2>2. \A i \in 1 .. n + 1 : i \in 1 .. n - 1 \/ i = n \/ i = n + 1
    BY <1>1
  <2>3. \A i \in DOMAIN stack' : stack'[i] = f \/ stack'[i] = g => AtHome(stack[i])'
    BY <1>8 DEF AtHome, Traverses
  <2>4. \A i \in DOMAIN stack' : i \in Outer \/ i = n \/ i = n + 1
    BY <1>1, <2>1, <2>2
  <2>5. \A i \in DOMAIN stack' : AtHome(stack[i])'
    BY <1>4, <2>1, <2>3, <2>4
  <2> QED  BY <2>5 DEF Homes
<1> QED  BY <1>5, <1>6, <1>7, <1>8 DEF Raise

\* An object enters the index while it is in hand.
LEMMA IdentifiedParsed ==
    ASSUME Plain, Homes, stack # <<>>, NEW K, Top.fn = "resolve_all", IsKind(Top.node, K), Onward,
           \A u \in DOMAIN idx' : \/ u \in DOMAIN Identified(Top).idx /\ idx'[u] = Identified(Top).idx[u]
                                  \/ idx'[u] = Text
    PROVE  OfParsed'
<1>1. Traverses(Top) /\ Top.node \in DOMAIN heap
  BY Traversing DEF Plain
<1>2. fetched[heap[Top.node].home] > 0
  BY <1>1, StackAfter DEF Homes, AtHome, Plain
<1>3. \A u \in DOMAIN Identified(Top).idx :
          \/ u \in DOMAIN idx /\ Identified(Top).idx[u] = idx[u]
          \/ Identified(Top).idx[u] = Top.node
  BY DEF Identified, Bind
<1>4. \A u \in DOMAIN idx : idx[u] # Text => idx[u] \in DOMAIN heap
  BY DEF Plain, Whole, Index, Addrs
<1>5. \A u \in DOMAIN idx' : \/ u \in DOMAIN idx /\ idx'[u] = idx[u]
                             \/ idx'[u] = Top.node
                             \/ idx'[u] = Text
  BY <1>3
<1>6. ASSUME NEW u \in DOMAIN idx', idx'[u] # Text PROVE fetched'[heap'[idx'[u]].home] > 0
  BY <1>1, <1>2, <1>4, <1>5, <1>6 DEF Homes, OfParsed, Onward
<1> QED  BY <1>6 DEF OfParsed

LEMMA StepHomes ==
    Whole /\ TreeShaped(web) /\ OwnDocuments(web) /\ ~Mixes /\ Traversal /\ Homes /\ [Next]_vars
        => Homes'
<1> SUFFICES ASSUME Plain, NEW F, Fresh(F), OwnDocuments(web), Homes, [Next]_vars
             PROVE  Homes'
  BY DEF Traversal, Plain
<1>1. Bodies' /\ web' = web
  BY BodiesKept, SameWeb
<1>2. DOMAIN heap' = DOMAIN heap /\ \A a \in DOMAIN heap : heap'[a].home = heap[a].home
  BY <1>1 DEF Plain, Bodies
<1>3. \A u \in DOMAIN idx : idx[u] # Text => idx[u] \in DOMAIN heap
  BY DEF Plain, Whole, Index, Addrs
<1>13. fetched' = fetched => Onward
  BY <1>2 DEF Onward
<1>14. Onward /\ idx' = idx => OfParsed'
  BY <1>3 DEF Homes, OfParsed, Onward
<1>4. CASE RejectDirective \/ ReturnIndexed \/ Include \/ ReportMissing \/ LoadFails \/ RefResolved
             \/ ReturnScalar \/ Finish \/ Overflow
  <2>1. /\ stack # <<>> /\ UNCHANGED <<idx, fetched>>
        /\ (\E v : Return(v)) \/ (\E status : Raise(status))
    BY <1>4 DEF RejectDirective, ReturnIndexed, Include, ReportMissing, LoadFails, RefResolved,
                ReturnScalar, Finish, Overflow, Running, Returned, objects, fetcher
  <2> QED  BY <1>13, <1>14, <2>1, HomesAfter
<1>5. CASE FollowDirective
  <2>0. PICK f : f = DirectiveFrame(Top.node, IF IsKind(Top.node, {"mixin"}) THEN Top.base ELSE Top.file,
                                    Top.ns, Top.check)
    OBVIOUS
  <2>1. stack # <<>> /\ Become(f) /\ UNCHANGED <<idx, fetched>>
    BY <1>5, <2>0 DEF FollowDirective, Running, objects, fetcher
  <2>2. AtHome(f)'
    BY <2>0 DEF AtHome, Traverses, DirectiveFrame, RefFrame
  <2> QED  BY <1>13, <1>14, <2>1, <2>2, HomesAfter
<1>6. CASE OpenSeq \/ ReplaceKid \/ SpliceKids
  <2>1. /\ stack # <<>> /\ Top.fn = "resolve_all" /\ UNCHANGED <<idx, fetched>>
        /\ \E pos : Become([Top EXCEPT !.at = "iterate", !.pos = pos])
    BY <1>6 DEF OpenSeq, ReplaceKid, SpliceKids, Running, Returned, objects, fetcher
  <2>2. PICK f, pos : f = [Top EXCEPT !.at = "iterate", !.pos = pos] /\ Become(f)
    BY <2>1
  <2>3. Top \in Call /\ AtHome(Top)
    BY <2>1, StackAfter DEF Homes, Plain
  <2>4. f.fn = Top.fn /\ f.node = Top.node /\ f.file = Top.file
    BY <2>2, <2>3 DEF Call, Frame
  <2>5. Traverses(Top) => Top.node \in DOMAIN heap
    BY <2>3, CallParts DEF Traverses, Addrs
  <2>6. AtHome(f)'
    BY <1>2, <2>1, <2>3, <2>4, <2>5 DEF AtHome, Traverses
  <2> QED  BY <1>13, <1>14, <2>1, <2>2, <2>6, HomesAfter
<1>7. CASE OpenMap
  <2>0. PICK f : f = [Top EXCEPT !.at = "iterate", !.pos = 1, !.base = Identified(Top).base,
                                 !.ns = Scope(Top)]
    OBVIOUS
  <2>1. /\ stack # <<>> /\ Top.fn = "resolve_all" /\ IsKind(Top.node, {"map"}) /\ Become(f)
        /\ idx' = Symbols(heap[Top.node], Identified(Top).base, Identified(Top).idx)
        /\ fetched' = fetched
    BY <1>7, <2>0 DEF OpenMap, Running, fetcher
  <2>2. Top \in Call /\ Top.node \in DOMAIN heap /\ Traverses(Top) /\ AtHome(Top)
    BY <2>1, StackAfter, Traversing DEF Plain, Homes
  <2>3. f.node = Top.node /\ f.file = Top.file
    BY <2>0, <2>2 DEF Call, Frame
  <2>4. AtHome(f)'
    BY <1>2, <2>1, <2>2, <2>3 DEF AtHome
  <2>5. \A u \in DOMAIN idx' : \/ u \in DOMAIN Identified(Top).idx /\ idx'[u] = Identified(Top).idx[u]
                               \/ idx'[u] = Text
    BY <2>1 DEF Symbols
  <2>6. OfParsed'
    BY <1>13, <2>1, <2>5, IdentifiedParsed
  <2> QED  BY <1>13, <2>1, <2>4, <2>6, HomesAfter
<1>8. CASE OpenGraph
  <2>0. PICK list, f :
          /\ list = heap[Top.node].kids[1]
          /\ f = [Top EXCEPT !.at = "iterate", !.pos = 1, !.ns = Scope(Top),
                             !.base = Identified(Top).base, !.node = list]
    OBVIOUS
  <2>1. /\ stack # <<>> /\ Top.fn = "resolve_all" /\ Top.at = "enter" /\ IsKind(Top.node, {"graph"})
        /\ Become(f) /\ idx' = Identified(Top).idx /\ fetched' = fetched
    BY <1>8, <2>0 DEF OpenGraph, Running, fetcher
  <2>2. /\ Top \in Call /\ InPlace(F, Top) /\ Traverses(Top) /\ Top.node \in DOMAIN heap
        /\ heap[Top.node].kind = "graph" /\ AtHome(Top)
        /\ DOMAIN heap[Top.node].kids = 1 .. Len(heap[Top.node].kids)
    BY <2>1, StackAfter, Traversing DEF Fresh, Plain, Homes
  <2>3. heap[Top.node].kids # <<>> /\ list \in DOMAIN heap /\ heap[Top.node].kids \in Seq(Addrs)
    BY <2>0, <2>1, <2>2, Traversing DEF Plain, Whole, Store, WellFormed
  <2>4. 1 \in DOMAIN heap[Top.node].kids /\ list # Text
    BY <2>2, <2>3, Shape, EmptySeq, LenProperties
  <2>5. list \in Offspring(Top.node)
    BY <2>0, <2>1, <2>2, <2>4 DEF InPlace, From, Ahead
  <2>6. heap[list].home = heap[Top.node].home
    BY <2>2, <2>5, ChildHome
  <2>7. f.node = list /\ f.file = Top.file
    BY <2>0, <2>2 DEF Call, Frame
  <2>8. AtHome(f)'
    BY <1>2, <2>1, <2>2, <2>3, <2>6, <2>7 DEF AtHome
  <2>9. OfParsed'
    BY <1>13, <2>1, IdentifiedParsed
  <2> QED  BY <1>13, <2>1, <2>8, <2>9, HomesAfter
<1>9. CASE Descend
  <2>0. PICK kid, f, g :
          /\ kid = Kids(Top)[Top.pos]
          /\ f = [Top EXCEPT !.at = "wait"]
          /\ g = IF Spliceable(Top) THEN DirectiveFrame(kid, Top.file, Top.ns, FALSE)
                 ELSE AllFrame(kid, Top.base, Top.file, Top.ns, FALSE)
    OBVIOUS
  <2>1. /\ stack # <<>> /\ Top.fn = "resolve_all" /\ Top.at = "iterate" /\ Top.pos \in DOMAIN Kids(Top)
        /\ Invoke(f, g) /\ UNCHANGED <<idx, fetched>>
    BY <1>9, <2>0 DEF Descend, Running, More, objects, fetcher
  <2>2. Top \in Call /\ InPlace(F, Top) /\ AtHome(Top)
    BY <2>1, StackAfter DEF Fresh, Plain, Homes
  <2>3. IsKind(Top.node, {"map", "seq"})
    BY <2>1, <2>2, CallParts
  <2>4. /\ Traverses(Top) /\ Top.node \in DOMAIN heap /\ Top.pos \in Nat
        /\ Kids(Top) = heap[Top.node].kids
    BY <2>1, <2>3, Traversing DEF Plain, Kids
  <2>5. kid # Text => kid \in Offspring(Top.node) /\ kid \in F
    BY <2>0, <2>1, <2>2, <2>4 DEF InPlace, From, Ahead
  <2>6. kid # Text => heap[kid].home = heap[Top.node].home /\ kid \in DOMAIN heap
    BY <2>4, <2>5, ChildHome DEF Fresh, Untouched
  <2>7. f.fn = Top.fn /\ f.node = Top.node /\ f.file = Top.file
    BY <2>0, <2>2 DEF Call, Frame
  <2>8. Traverses(g) => g.node = kid /\ kid # Text /\ g.file = Top.file
    BY <2>0 DEF Traverses, DirectiveFrame, RefFrame, AllFrame
  <2>9. AtHome(f)' /\ AtHome(g)'
    BY <1>2, <2>1, <2>2, <2>4, <2>6, <2>7, <2>8 DEF AtHome, Traverses
  <2> QED  BY <1>13, <1>14, <2>1, <2>9, HomesAfter
<1>10. CASE Load
  <2>0. PICK d, root, f, g :
          /\ d = DocUrl(Top.url) /\ root = web.root[Top.url.doc]
          /\ f = [Top EXCEPT !.at = "wait"]
          /\ g = AllFrame(root, d, d, Top.ns, Top.check)
    OBVIOUS
  <2>1. stack # <<>> /\ Top.fn = "resolve_ref" /\ Top \in Call /\ Top.url.doc \in Docs
    BY <1>10, TopRef DEF Load, Running, Plain
  <2>2. /\ d = RootUrl(Top.url.doc) /\ idx'[d] = root /\ root \in Addrs
        /\ d \notin DOMAIN idx
    BY <1>10, <2>0, LoadHeap DEF Plain
  <2>3. Invoke(f, g)
    BY <1>10, <2>0, <2>2 DEF Load
  <2>4. root # Text => root \in DOMAIN heap /\ heap[root].home = d.doc
    BY <2>0, <2>1, <2>2, ChildHome DEF Addrs, RootUrl
  <2>5. d.doc = Top.url.doc /\ fetched' = [fetched EXCEPT ![d.doc] = @ + 1]
    BY <1>10, <2>0, <2>2 DEF Load, Retrieve, RootUrl
  <2>6. fetched \in [Docs -> Nat] /\ \A a \in DOMAIN heap : heap[a].home \in Docs
    BY DEF Plain, Whole, Store, Node, Counters
  <2>7. Onward /\ fetched'[d.doc] > 0
    BY <1>2, <2>1, <2>5, <2>6 DEF Onward
  <2>8. AtHome(f)'
    BY <2>0, <2>1 DEF AtHome, Traverses, Call, Frame
  <2>9. AtHome(g)'
    BY <1>2, <2>0, <2>4, <2>7 DEF AtHome, Traverses, AllFrame
  <2>10. \A u \in DOMAIN idx' : (u \in DOMAIN idx /\ idx'[u] = idx[u]) \/ idx'[u] = root
    <3>1. idx' = Fetched(Top).idx
      BY <1>10 DEF Load
    <3> QED  BY <2>0, <2>2, <2>5, <3>1 DEF Fetched, Parsed, Bind
  <2>11. OfParsed'
    <3>1. ASSUME NEW u \in DOMAIN idx', idx'[u] # Text PROVE fetched'[heap'[idx'[u]].home] > 0
      BY <1>2, <1>3, <2>4, <2>7, <2>10, <3>1 DEF Homes, OfParsed, Onward
    <3> QED  BY <3>1 DEF OfParsed
  <2> QED  BY <2>1, <2>3, <2>7, <2>8, <2>9, <2>11, HomesAfter
<1>11. CASE Answer \/ UNCHANGED vars
  <2>1. UNCHANGED <<stack, heap, idx, fetched>>
    BY <1>11 DEF Answer, vars, objects, fetcher
  <2> QED  BY <2>1 DEF Homes, OfParsed, AtHome
<1>12. ASSUME NEW url \in Requests, Request(url) PROVE Homes'
  <2>0. PICK f : f = RefFrame("string", url, Text, DocUrl(url), {}, TRUE)
    OBVIOUS
  <2>1. /\ UNCHANGED <<heap, idx, fetched>> /\ DOMAIN stack' = {1} /\ stack'[1] = f
        /\ f.fn = "resolve_ref"
    BY <1>12, <2>0 DEF Request, objects, fetcher, RefFrame
  <2> QED  BY <1>13, <1>14, <2>1 DEF Homes, AtHome, Traverses
<1> QED
  BY <1>4, <1>5, <1>6, <1>7, <1>8, <1>9, <1>10, <1>11, <1>12, NoMixinCalls DEF Next, Step

LEMMA InitHomes == Init => Homes
  BY DEF Init, Homes, OfParsed

----------------------------------------------------------------------------
(* Depth *)

\* Only the outermost call, of the application, and the innermost, of a scalar, have nothing in hand.
Loaded == \A i \in DOMAIN stack :
              i > 1 /\ ~Holds(stack[i]) => i = Len(stack) /\ stack[i].fn = "resolve_all"

\* A call that is left behind has an object in hand; so has a new call, or it is of a scalar.
LEMMA LoadedAfter ==
    ASSUME Whole, Loaded, stack # <<>>, NEW v, NEW status, NEW f, NEW g,
           \/ Return(v)
           \/ Raise(status)
           \/ Become(f) /\ Holds(f)
           \/ Invoke(f, g) /\ f.node = Top.node /\ (Holds(Top) \/ Top.fn = "resolve_ref")
                           /\ (Holds(g) \/ g.fn = "resolve_all")
    PROVE  Loaded'
<1> DEFINE n == Len(stack)
<1>1. /\ n \in Nat \ {0} /\ Outer = 1 .. n - 1 /\ stack[n] = Top /\ DOMAIN stack = 1 .. n
  BY StackAfter DEF Outer
<1>2. \A i \in Outer : i > 1 => Holds(stack[i])
  BY <1>1 DEF Loaded
<1>3. n > 1 /\ Top.fn = "resolve_ref" => Holds(Top)
  BY <1>1 DEF Loaded
<1>4. CASE stack' = <<>>
  <2>1. DOMAIN stack' = {}
    BY <1>4
  <2> QED  BY <2>1 DEF Loaded
<1>5. CASE Return(v)
  <2>1. DOMAIN stack' = Outer /\ \A i \in Outer : stack'[i] = stack[i]
    BY <1>5, StackAfter DEF Return
  <2> QED  BY <1>2, <2>1 DEF Loaded
<1>6. CASE Become(f) /\ Holds(f)
  <2>1. DOMAIN stack' = 1 .. n /\ stack'[n] = f /\ \A i \in Outer : stack'[i] = stack[i]
    BY <1>6, StackAfter
  <2> HIDE DEF n
  <2>2. \A i \in 1 .. n : i \in Outer \/ i = n
    BY <1>1
  <2> QED  BY <1>2, <1>6, <2>1, <2>2 DEF Loaded
<1>7. CASE /\ Invoke(f, g) /\ f.node = Top.node /\ (Holds(Top) \/ Top.fn = "resolve_ref")
           /\ Holds(g) \/ g.fn = "resolve_all"
  <2>1. /\ DOMAIN stack' = 1 .. n + 1 /\ stack'[n] = f /\ stack'[n + 1] = g
        /\ \A i \in Outer : stack'[i] = stack[i]
    BY <1>7, StackAfter
  <2>2. Len(stack') = n + 1
    <3>1. stack' = Append(Append(Front(stack), f), g)
      BY <1>7 DEF Invoke
    <3>2. Front(stack) \in Seq(Call) /\ Len(Front(stack)) = n - 1
      BY PopStack DEF Whole, Control
    <3> QED  BY <1>1, <3>1, <3>2
  <2> HIDE DEF n
  <2>3. \A i \in 1 .. n + 1 : i \in Outer \/ i = n \/ i = n + 1
    BY <1>1
  <2>4. n > 1 => Holds(f)
    BY <1>3, <1>7 DEF Holds
  <2> QED  BY <1>2, <1>7, <2>1, <2>2, <2>3, <2>4 DEF Loaded
<1> QED  BY <1>4, <1>5, <1>6, <1>7 DEF Raise

LEMMA StepLoaded == Whole /\ Loaded /\ [Next]_vars => Loaded'
<1> SUFFICES ASSUME Whole, Loaded, [Next]_vars PROVE Loaded'
  OBVIOUS
<1>1. CASE RejectDirective \/ ReturnIndexed \/ Include \/ ReportMissing \/ LoadFails \/ RefResolved
             \/ ReturnScalar \/ Finish \/ Overflow
  <2>1. stack # <<>> /\ ((\E v : Return(v)) \/ (\E status : Raise(status)))
    BY <1>1 DEF RejectDirective, ReturnIndexed, Include, ReportMissing, LoadFails, RefResolved,
                ReturnScalar, Finish, Overflow, Running, Returned
  <2> QED  BY <2>1, LoadedAfter
<1>2. CASE FollowDirective
  <2>1. PICK f : f = DirectiveFrame(Top.node, IF IsKind(Top.node, {"mixin"}) THEN Top.base ELSE Top.file,
                                    Top.ns, Top.check)
    OBVIOUS
  <2>2. stack # <<>> /\ Become(f) /\ IsKind(Top.node, Directives)
    BY <1>2, <2>1 DEF FollowDirective, Running
  <2>3. Holds(f)
    BY <2>1, <2>2 DEF Holds, IsKind, DirectiveFrame, RefFrame
  <2> QED  BY <2>2, <2>3, LoadedAfter
<1>3. CASE OpenSeq \/ ReplaceKid \/ SpliceKids
  <2>1. /\ stack # <<>> /\ Top.fn = "resolve_all" /\ IsKind(Top.node, {"map", "seq"})
        /\ \E pos : Become([Top EXCEPT !.at = "iterate", !.pos = pos])
    BY <1>3, InLoop DEF OpenSeq, ReplaceKid, SpliceKids, Running, Returned, IsKind
  <2>2. PICK pos : Become([Top EXCEPT !.at = "iterate", !.pos = pos])
    BY <2>1
  <2>3. Holds([Top EXCEPT !.at = "iterate", !.pos = pos])
    BY <2>1, TopOK DEF Whole, Call, Frame, Holds, IsKind
  <2> QED  BY <2>1, <2>2, <2>3, LoadedAfter
<1>4. CASE OpenMap
  <2>1. PICK f : f = [Top EXCEPT !.at = "iterate", !.pos = 1, !.base = Identified(Top).base,
                                 !.ns = Scope(Top)]
    OBVIOUS
  <2>2. stack # <<>> /\ Become(f) /\ IsKind(Top.node, {"map"})
    BY <1>4, <2>1 DEF OpenMap, Running
  <2>3. Holds(f)
    BY <2>1, <2>2, TopOK DEF Whole, Call, Frame, Holds, IsKind
  <2> QED  BY <2>2, <2>3, LoadedAfter
<1>5. CASE OpenGraph
  <2>1. PICK f : f = [Top EXCEPT !.at = "iterate", !.pos = 1, !.ns = Scope(Top),
                                 !.base = Identified(Top).base, !.node = heap[Top.node].kids[1]]
    OBVIOUS
  <2>2. stack # <<>> /\ Become(f) /\ Top.fn = "resolve_all" /\ IsKind(Top.node, {"graph"})
    BY <1>5, <2>1 DEF OpenGraph, Running
  <2>3. heap[Top.node].kids[1] \in DOMAIN heap
    BY <2>2, Traversing DEF Whole, Store, WellFormed
  <2>4. Holds(f)
    BY <2>1, <2>2, <2>3, TopOK DEF Whole, Store, Call, Frame, Holds, Text
  <2> QED  BY <2>2, <2>4, LoadedAfter
<1>6. CASE Descend
  <2>1. PICK kid, f, g :
          /\ kid = Kids(Top)[Top.pos]
          /\ f = [Top EXCEPT !.at = "wait"]
          /\ g = IF Spliceable(Top) THEN DirectiveFrame(kid, Top.file, Top.ns, FALSE)
                 ELSE AllFrame(kid, Top.base, Top.file, Top.ns, FALSE)
    OBVIOUS
  <2>2. stack # <<>> /\ Invoke(f, g) /\ Top.fn = "resolve_all" /\ Top.at = "iterate"
    BY <1>6, <2>1 DEF Descend, Running
  <2>3. Top \in Call /\ Holds(Top)
    BY <2>2, TopOK, CallParts DEF Whole, Holds, IsKind
  <2>4. f.node = Top.node
    BY <2>1, <2>3 DEF Call, Frame
  <2>5. Holds(g) \/ g.fn = "resolve_all"
    BY <2>1 DEF Spliceable, IsKind, Holds, DirectiveFrame, RefFrame, AllFrame
  <2> QED  BY <2>2, <2>3, <2>4, <2>5, LoadedAfter
<1>7. CASE Load \/ LoadMixin
  <2>1. PICK f : f = [Top EXCEPT !.at = "wait"]
    OBVIOUS
  <2>2. /\ stack # <<>> /\ Top.fn = "resolve_ref"
        /\ \E node, base, file : Invoke(f, AllFrame(node, base, file, Top.ns, Top.check))
    BY <1>7, <2>1 DEF Load, LoadMixin, Running
  <2>3. PICK g : Invoke(f, g) /\ g.fn = "resolve_all"
    BY <2>2 DEF AllFrame
  <2>4. f.node = Top.node
    BY <2>1, <2>2, TopOK DEF Whole, Call, Frame
  <2> QED  BY <2>2, <2>3, <2>4, LoadedAfter
<1>8. CASE Answer \/ UNCHANGED vars
  BY <1>8 DEF Answer, vars, Loaded
<1>9. ASSUME NEW url \in Requests, Request(url) PROVE Loaded'
  <2>1. DOMAIN stack' = {1}
    BY <1>9 DEF Request
  <2> QED  BY <2>1 DEF Loaded
<1> QED
  BY <1>1, <1>2, <1>3, <1>4, <1>5, <1>6, <1>7, <1>8, <1>9 DEF Next, Step

\* Without mixins the calls nest no deeper than there are objects, but for the call of the
\* application and that of a scalar.
Shallow == ~Mixes => Len(stack) <= Len(web.heap) + 2

LEMMA CallsAreFew ==
    ASSUME Whole, Traversal, Loaded
    PROVE  Len(stack) <= Len(web.heap) + 2
<1> DEFINE n == Len(web.heap)
           m == Len(stack)
<1>1. /\ n \in Nat /\ DOMAIN heap = 1 .. n
  BY LenProperties DEF Whole, Store, WebOK, Traversal, Bodies
<1>2. m \in Nat /\ DOMAIN stack = 1 .. m /\ \A i \in 1 .. m : stack[i].node \in Addrs
  <2>1. stack \in Seq(Call)
    BY DEF Whole, Control
  <2> QED  BY <2>1, LenProperties, ElementOfSeq, CallParts
<1>3. \A i, j \in 1 .. m : i < j /\ Holds(stack[i]) /\ Holds(stack[j]) => stack[i].node # stack[j].node
  BY <1>2 DEF Traversal, Fresh, Apart
<1> HIDE DEF n, m
<1> SUFFICES ASSUME m > n + 2 PROVE FALSE
  BY <1>1, <1>2 DEF n, m
<1> DEFINE S == 2 .. m - 1
           inHand == [i \in S |-> stack[i].node]
<1>4. \A i \in S : i \in 1 .. m /\ Holds(stack[i])
  BY <1>2 DEF Loaded, m
<1>5. inHand \in [S -> 1 .. n]
  BY <1>1, <1>2, <1>4 DEF Holds, Addrs
<1>6. IsFiniteSet(S) /\ Cardinality(S) = m - 2
  <2>1. /\ IsFiniteSet(2 .. m - 1)
        /\ Cardinality(2 .. m - 1) = IF 2 > m - 1 THEN 0 ELSE (m - 1) - 2 + 1
    BY <1>2, FS_Interval
  <2>2. ~(2 > m - 1) /\ (m - 1) - 2 + 1 = m - 2
    BY <1>1, <1>2
  <2> QED  BY <2>1, <2>2
<1>7. IsFiniteSet(1 .. n) /\ Cardinality(1 .. n) = n
  <2>1. /\ IsFiniteSet(1 .. n)
        /\ Cardinality(1 .. n) = IF 1 > n THEN 0 ELSE n - 1 + 1
    BY <1>1, FS_Interval
  <2> QED  BY <1>1, <2>1
<1>8. Cardinality(1 .. n) < Cardinality(S)
  BY <1>1, <1>2, <1>6, <1>7
<1>9. PICK x \in S, y \in S : x # y /\ inHand[x] = inHand[y]
  <2> HIDE DEF S, inHand
  <2> QED  BY <1>5, <1>6, <1>7, <1>8, FS_PigeonHole
<1>10. stack[x].node = stack[y].node /\ x \in Nat /\ y \in Nat
  BY <1>9
<1> QED  BY <1>3, <1>4, <1>9, <1>10

\* In texts without aliases and without mixins the recursion of resolve_ref and resolve_all is
\* bounded by what was written, through import cycles, lists that splice themselves, and
\* documents that an exception left half resolved.
THEOREM BoundedRecursion ==
    ASSUME \A w \in Webs : TreeShaped(w)
    PROVE  Spec => []Shallow
<1>1. Spec => []Loaded
  <2>1. Init => Whole /\ Loaded
    BY InitOK DEF Init, Loaded
  <2>2. Whole /\ Loaded /\ [Next]_vars => (Whole /\ Loaded)'
    BY NextOK, StepLoaded
  <2> QED  BY <2>1, <2>2, PTL DEF Spec
<1>2. Whole /\ (Mixes \/ Traversal) /\ Loaded => Shallow
  BY CallsAreFew DEF Shallow
<1> QED  BY <1>1, <1>2, TraversalInvariant, PTL

\* Only RecursionError ends a call like this.
LEMMA StepNoOverflow ==
    ASSUME \A w \in Webs : Len(w.heap) + 2 < MaxDepth
    PROVE  Whole /\ web \in Webs /\ Shallow /\ NoOverflow /\ [Next]_vars => NoOverflow'
<1> SUFFICES ASSUME Whole, web \in Webs, Shallow, NoOverflow, [Next]_vars
             PROVE  NoOverflow'
  OBVIOUS
<1>1. Mixes' <=> Mixes
  BY SameWeb DEF Mixes
<1>2. SUFFICES ASSUME ~Mixes PROVE result'.status # "overflow"
  BY <1>1 DEF NoOverflow
<1>3. result.status # "overflow"
  BY <1>2 DEF NoOverflow
<1>4. ~Overflow
  <2>1. Len(stack) \in Nat /\ Len(web.heap) \in Nat
    BY LenProperties DEF Whole, Control, Store, WebOK
  <2>2. Len(stack) < MaxDepth
    BY <1>2, <2>1, BoundAssumption DEF Shallow
  <2> QED  BY <2>1, <2>2, BoundAssumption DEF Overflow
<1>5. CASE RejectDirective \/ ReturnIndexed \/ Include \/ ReportMissing \/ LoadFails \/ RefResolved
             \/ ReturnScalar \/ Finish
  <2>1. result' = result \/ Raise("invalid") \/ Raise("crash")
    BY <1>5 DEF RejectDirective, ReturnIndexed, Include, ReportMissing, LoadFails, RefResolved,
                ReturnScalar, Finish, Return
  <2> QED  BY <1>3, <2>1 DEF Raise
<1>6. CASE \/ FollowDirective \/ OpenSeq \/ OpenMap \/ OpenGraph \/ Descend \/ ReplaceKid \/ SpliceKids
           \/ Load \/ LoadMixin \/ UNCHANGED vars
  <2>1. result' = result
    BY <1>6 DEF FollowDirective, OpenSeq, OpenMap, OpenGraph, Descend, ReplaceKid, SpliceKids, Load,
                LoadMixin, vars, Become, Invoke
  <2> QED  BY <1>3, <2>1
<1>7. CASE Answer
  BY <1>7 DEF Answer
<1>8. ASSUME NEW url \in Requests, Request(url) PROVE result'.status # "overflow"
  BY <1>8 DEF Request, Idle
<1> QED  BY <1>4, <1>5, <1>6, <1>7, <1>8 DEF Next, Step

\* Where the interpreter allows two calls more than the texts have objects, no call of the
\* application ends in a RecursionError: neither import cycles nor what exceptions leave behind
\* make the recursion endless.
THEOREM NoEndlessRecursion ==
    ASSUME \A w \in Webs : TreeShaped(w) /\ Len(w.heap) + 2 < MaxDepth
    PROVE  Spec => []NoOverflow
<1>1. Spec => []Whole /\ []Shallow
  <2>1. \A w \in Webs : TreeShaped(w)
    OBVIOUS
  <2>2. Spec => []Shallow
    BY <2>1, BoundedRecursion
  <2>3. Spec => [](Whole /\ TreeShaped(web) /\ (Mixes \/ Traversal))
    BY <2>1, TraversalInvariant
  <2> QED  BY <2>2, <2>3, PTL
<1>2. Init => NoOverflow /\ web \in Webs
  BY DEF Init, Idle, NoOverflow
<1>3. Whole /\ Shallow /\ NoOverflow /\ web \in Webs /\ [Next]_vars => (NoOverflow /\ web \in Webs)'
  BY StepNoOverflow, SameWeb
<1> QED  BY <1>1, <1>2, <1>3, PTL DEF Spec

=============================================================================
