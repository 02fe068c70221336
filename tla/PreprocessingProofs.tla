------------------------ MODULE PreprocessingProofs ------------------------
(***************************************************************************)
(* Proof that the preprocessor computes what the texts mean, for webs of   *)
(* texts without YAML aliases, mixins and circles of imports that give     *)
(* every identifier once, as long as nothing that is included is parsed.   *)
(*                                                                         *)
(* The values of a map or a list before the one in hand are what the text  *)
(* means.  An imported list is spliced into one that ranks above it, so no *)
(* call is at it any more: its items are final.                            *)
(***************************************************************************)
EXTENDS Preprocessing, FieldProofs, WellFoundedInduction

----------------------------------------------------------------------------
(* The invariant *)

\* What can stand in a preprocessed document: nothing raw, no directive, no $graph map.
Outcomes(F) == {v \in Addrs \ F : v = Text \/ web.heap[v].kind \in {"map", "seq"}}

\* A call is traversing the object a.
Visited(a) == \E i \in DOMAIN stack : Traverses(stack[i]) /\ stack[i].node = a

\* v is the value of what is written as k in a, and if it is spliced, no call will change it.
Portion(s, F, a, k, v) ==
    v \in Outcomes(F) /\ Means(s, k, v) /\ (Spread(a, k, v) => ~Visited(v))

\* The first n values that are written in a have been resolved, and end at these places.
Cut(s, F, a, n, cut) ==
    /\ cut \in [0 .. n -> 0 .. Len(heap[a].kids)]
    /\ cut[0] = 0 /\ \A i \in 0 .. n : cut[i] <= cut[n]
    /\ \A i \in 1 .. n : \E v : /\ Portion(s, F, a, Written(a)[i], v)
                                /\ Placed(a, Written(a)[i], v, cut[i - 1], cut[i])

\* The places from pos on have what is written after the first n values.
Raws(a, n, pos) ==
    /\ Len(heap[a].kids) = Len(Written(a)) - n + pos - 1
    /\ \A i \in n + 1 .. Len(Written(a)) : heap[a].kids[i - n + pos - 1] = Written(a)[i]

\* The places of a before pos are done.
Reworked(s, F, a, pos) ==
    /\ \A i \in 1 .. pos - 1 : heap[a].kids[i] \in Outcomes(F)
    /\ \E n \in 0 .. Len(Written(a)) : \E cut :
            Cut(s, F, a, n, cut) /\ cut[n] = pos - 1 /\ Raws(a, n, pos)

\* A traversal has done the places before the one in hand.
Advanced(s, F, f) ==
    Traverses(f) /\ web.heap[f.node].kind \in {"map", "seq"} =>
        IF f.at = "enter" THEN heap[f.node].kids = Written(f.node)
        ELSE Reworked(s, F, f.node, f.pos)

\* A call that waits in a place waits for the call that resolves its value.
Attends(f, g) ==
    Traverses(f) /\ web.heap[f.node].kind \in {"map", "seq"} /\ f.at = "wait" =>
        f.pos \in DOMAIN heap[f.node].kids /\ Serving(heap[f.node].kids[f.pos], g)

\* What the calls have in hand ranks ever lower.
Falls(rank) == \A i, j \in DOMAIN stack :
    i < j /\ Holds(stack[i]) /\ Holds(stack[j]) => rank[stack[j].node] < rank[stack[i].node]

\* All calls but the innermost one wait, and so does that when a value is returned to it.
Waiting == \A i \in DOMAIN stack : i < Len(stack) \/ ret # NoRet => stack[i].at = "wait"

Chain(s, F, rank) ==
    /\ Falls(rank)
    /\ Waiting
    /\ \A i \in DOMAIN stack : Advanced(s, F, stack[i])
    /\ \A i \in DOMAIN stack : i + 1 \in DOMAIN stack => Attends(stack[i], stack[i + 1])

\* What a call has returned is what its caller's place means.
Delivered(s, F) ==
    ret # NoRet =>
        /\ ret \in Outcomes(F)
        /\ stack # <<>> /\ Traverses(Top) /\ web.heap[Top.node].kind \in {"map", "seq"} =>
                Means(s, heap[Top.node].kids[Top.pos], ret)

\* What was touched and has no call at it is done.
Finished(s, F) ==
    \A a \in DOMAIN heap : web.heap[a].kind \in {"map", "seq"} /\ a \notin F /\ ~Visited(a) =>
        Reworked(s, F, a, Len(heap[a].kids) + 1)

\* What the index has is done, but for the object at which a call has just begun: a $graph map
\* whose list comes next, or a directive with an identifier, which is refused.
Pending(a) == /\ stack # <<>> /\ Top.at = "enter" /\ Top.node = a
              /\ \/ heap[a].kind = "graph" /\ Top.fn = "resolve_all"
                 \/ heap[a].kind \in Directives /\ heap[a].id # NoUrl

Available(F) == \A u \in DOMAIN idx : Unwrap(idx[u]) \in Outcomes(F) \/ Pending(idx[u])

\* A scalar in the index is a document or a symbol.
Scalars(s) == \A u \in DOMAIN idx : idx[u] = Text => Denotes(s, u, Text)

\* A call has just begun with a.
Entered(a) == \E i \in DOMAIN stack : Traverses(stack[i]) /\ stack[i].node = a /\ stack[i].at = "enter"

Expansions(s, a) == {ExpandRef(l, BaseBelow(web, s, a)) : l \in web.heap[a].links}

\* The identifier and the links of a map are expanded when its traversal begins; a document's map
\* has been named before.
Marked(s, F, a) ==
    /\ heap[a].syms = web.heap[a].syms
    /\ a \in F \/ Entered(a) => heap[a].links = web.heap[a].links
    /\ a \in F => heap[a].id = web.heap[a].id
    /\ a \notin F /\ web.heap[a].id = NoUrl => heap[a].id = Title(s, a)
    /\ a \notin F /\ ~Entered(a) => heap[a].id = Title(s, a) /\ heap[a].links = Expansions(s, a)

Marks(s, F) == \A a \in DOMAIN heap : web.heap[a].kind = "map" => Marked(s, F, a)

\* What the application gets.
Replied(s, F) ==
    /\ stack = <<>> /\ ret # NoRet => Denotes(s, result.url, ret)
    /\ result.status = "ok" =>
          /\ stack = <<>> /\ ret = NoRet
          /\ result.value \in Outcomes(F) /\ Denotes(s, result.url, result.value)

Sound(s, F, rank) ==
    /\ Chain(s, F, rank)
    /\ Delivered(s, F) /\ Finished(s, F)
    /\ Available(F) /\ Scalars(s) /\ Marks(s, F)
    /\ Replied(s, F)

----------------------------------------------------------------------------
(* What stays *)

\* What the texts mean does not change.
LEMMA SameMeaning ==
    ASSUME NEW s, web' = web
    PROVE  /\ \A u, v : Denotes(s, u, v)' <=> Denotes(s, u, v)
           /\ \A k, v : Means(s, k, v)' <=> Means(s, k, v)
           /\ \A a, k, v : Spread(a, k, v)' <=> Spread(a, k, v)
           /\ \A a : Title(s, a)' = Title(s, a) /\ Expansions(s, a)' = Expansions(s, a)
           /\ \A a : Written(a)' = Written(a)
<1>1. \A u, v : Denotes(s, u, v)' <=> Denotes(s, u, v)
  BY DEF Denotes, IsSymbol, Opened, Bears
<1>2. \A k, v : Means(s, k, v)' <=> Means(s, k, v)
  BY <1>1 DEF Means, Opened
<1>3. /\ \A a, k, v : Spread(a, k, v)' <=> Spread(a, k, v)
      /\ \A a : Title(s, a)' = Title(s, a) /\ Expansions(s, a)' = Expansions(s, a)
      /\ \A a : Written(a)' = Written(a)
  BY DEF Spread, Title, Expansions, Written
<1> QED  BY <1>1, <1>2, <1>3

\* A step of a call that raises no exception, from F to G.
Amid(s, F, G, rank) ==
    /\ Around(F) /\ Ground(s, F) /\ Fields(F) /\ Acyclic(web, s, rank)
    /\ Sound(s, F, rank) /\ Asked /\ Loaded /\ IncludedApart(s)
    /\ Step /\ ~Answer /\ ~broken /\ ~broken'
    /\ G \subseteq F /\ Takes(F, G) /\ Fresh(G)' /\ Whole' /\ Homes'

LEMMA OutcomesGrow ==
    ASSUME NEW F, Plain, Bodies', web' = web, NEW G, G \subseteq F
    PROVE  /\ DOMAIN heap' = DOMAIN heap /\ Addrs' = Addrs
           /\ \A v \in Outcomes(F) : v \in Outcomes(G)'
<1>1. DOMAIN heap' = DOMAIN heap
  BY DEF Plain, Bodies
<1>2. Addrs' = Addrs
  BY <1>1 DEF Addrs
<1> QED  BY <1>1, <1>2 DEF Outcomes

\* Which action a step is.
LEMMA Calling ==
    ASSUME NEW F, Around(F), Step, ~Answer, ~broken', ~broken
    PROVE  \/ /\ ReturnIndexed \/ Include \/ RefResolved \/ ReturnScalar \/ Finish
              /\ stack' = Front(stack) /\ heap' = heap /\ idx' = idx
           \/ FollowDirective \/ OpenSeq \/ OpenMap \/ OpenGraph \/ Descend \/ Load
           \/ ReplaceKid \/ SpliceKids
<1>1. ~LoadMixin
  BY NoMixinCalls DEF Around
<1>2. \A status : ~Raise(status)
  BY DEF Raise
<1> QED
  BY <1>1, <1>2 DEF Step, RejectDirective, ReturnIndexed, Include, ReportMissing, LoadFails,
       RefResolved, ReturnScalar, Finish, Overflow, Return, objects

\* The innermost call.
LEMMA Innermost ==
    ASSUME NEW s, NEW F, NEW G, NEW rank, Amid(s, F, G, rank)
    PROVE  /\ Whole /\ Plain /\ stack # <<>> /\ Top \in Call
           /\ Len(stack) \in Nat \ {0} /\ Len(stack) \in DOMAIN stack /\ stack[Len(stack)] = Top
           /\ DOMAIN stack = 1 .. Len(stack) /\ Outer = 1 .. Len(stack) - 1
           /\ \A i \in DOMAIN stack : stack[i] \in Call /\ InPlace(F, stack[i])
           /\ Advanced(s, F, Top) /\ Aimed(Top) /\ InPlace(F, Top)
           /\ Top.at # "wait" => ret = NoRet
           /\ DOMAIN heap = DOMAIN web.heap
           /\ \A a \in DOMAIN heap : heap[a].kind = web.heap[a].kind /\ heap[a].home = web.heap[a].home
<1>1. /\ Whole /\ Plain /\ stack # <<>> /\ Fresh(F) /\ Calls /\ Bodies
  BY DEF Amid, Around, Plain
<1>2. /\ Len(stack) \in Nat \ {0} /\ DOMAIN stack = 1 .. Len(stack)
      /\ stack[Len(stack)] = Top /\ Top \in Call
      /\ \A i \in DOMAIN stack : stack[i] \in Call
  BY <1>1, StackAfter
<1>3. Len(stack) \in DOMAIN stack
  BY <1>2
<1>4. \A i \in DOMAIN stack : Advanced(s, F, stack[i])
  BY DEF Amid, Sound, Chain
<1>5. Top.at # "wait" => ret = NoRet
  BY <1>2, <1>3 DEF Amid, Sound, Chain, Waiting
<1> QED  BY <1>1, <1>2, <1>3, <1>4, <1>5 DEF Outer, Fresh, Calls, Bodies

LEMMA ReturnMove ==
    ASSUME NEW s, NEW F, NEW G, NEW rank, Amid(s, F, G, rank),
           ReturnIndexed \/ Include \/ RefResolved \/ ReturnScalar \/ Finish
    PROVE  \E v : /\ Return(v) /\ G = F /\ heap' = heap /\ idx' = idx
                  /\ Traverses(Top) => Finish /\ ~More(Top) /\ Top.at = "iterate" /\ v = Top.node
<1>1. \E v : Return(v)
  BY DEF Amid, ReturnIndexed, Include, RefResolved, ReturnScalar, Finish, Raise
<1>2. heap' = heap /\ idx' = idx
  BY DEF ReturnIndexed, Include, RefResolved, ReturnScalar, Finish, objects
<1>3. ~(Load \/ Descend \/ OpenGraph)
  <2>1. PICK v : Return(v)
    BY <1>1
  <2>2. stack' = Front(stack) /\ DOMAIN stack' = Outer
    BY <2>1, Innermost, StackAfter DEF Return
  <2>3. \A f, g : ~Become(f) /\ ~Invoke(f, g)
    <3>1. Len(stack) \notin DOMAIN stack' /\ Len(stack) \in 1 .. Len(stack) + 1
          /\ Len(stack) \in 1 .. Len(stack)
      BY <2>2, Innermost
    <3> QED  BY <3>1, Innermost, StackAfter
  <2> QED  BY <2>3 DEF Load, Descend, OpenGraph
<1>4. G = F
  BY <1>3 DEF Amid, Takes
<1>5. Traverses(Top) => Finish /\ ~More(Top) /\ Top.at = "iterate" /\ (\A v : Return(v) => v = Top.node)
  BY DEF Traverses, ReturnIndexed, Include, RefResolved, ReturnScalar, Finish, Running, Returned, Return, Amid, Raise
<1> QED  BY <1>1, <1>2, <1>4, <1>5

LEMMA FollowMove ==
    ASSUME NEW s, NEW F, NEW G, NEW rank, Amid(s, F, G, rank), FollowDirective
    PROVE  \E f : /\ Become(f) /\ G = F /\ heap' = heap /\ idx' = idx
                  /\ f.fn = "resolve_ref" /\ f.at = "enter" /\ f.node = Top.node
                  /\ Top.fn = "resolve_all" /\ Top.at = "enter" /\ Top.node \in DOMAIN heap
                  /\ heap[Top.node].kind \in Directives
<1>1. PICK base : Become(DirectiveFrame(Top.node, base, Top.ns, Top.check))
  BY DEF FollowDirective
<1>2. /\ heap' = heap /\ idx' = idx /\ Top.fn = "resolve_all" /\ Top.at = "enter"
      /\ IsKind(Top.node, Directives)
  BY DEF FollowDirective, objects, Running
<1>3. Top.node \in DOMAIN heap /\ heap[Top.node].kind \in Directives
  BY <1>2, Innermost, Traversing
<1>4. ~(Load \/ Descend \/ OpenGraph)
  BY <1>2 DEF Load, Descend, OpenGraph, Running, IsKind, Directives
<1>5. G = F
  BY <1>4 DEF Amid, Takes
<1> QED  BY <1>1, <1>2, <1>3, <1>5 DEF DirectiveFrame, RefFrame

LEMMA OpenMove ==
    ASSUME NEW s, NEW F, NEW G, NEW rank, Amid(s, F, G, rank), OpenSeq \/ OpenMap
    PROVE  \E f : /\ Become(f) /\ G = F
                  /\ \A a \in DOMAIN heap : heap'[a].kids = heap[a].kids
                  /\ f.fn = "resolve_all" /\ f.at = "iterate" /\ f.node = Top.node /\ f.pos = 1
                  /\ Top.fn = "resolve_all" /\ Top.at = "enter" /\ Top.node \in DOMAIN heap
                  /\ heap[Top.node].kind \in {"map", "seq"}
                  /\ OpenSeq => heap' = heap /\ idx' = idx /\ heap[Top.node].kind = "seq"
<1>1. /\ Top.fn = "resolve_all" /\ Top.at = "enter" /\ IsKind(Top.node, {"map", "seq"})
  BY DEF OpenSeq, OpenMap, Running, IsKind
<1>2. Top.node \in DOMAIN heap /\ heap[Top.node].kind \in {"map", "seq"} /\ Top \in Call
  BY <1>1, Innermost, Traversing
<1>3. \E f, base, ns : /\ Become(f)
                       /\ f \in {[Top EXCEPT !.at = "iterate", !.pos = 1],
                                 [Top EXCEPT !.at = "iterate", !.pos = 1, !.base = base, !.ns = ns]}
  BY DEF OpenSeq, OpenMap
<1>4. \E f : /\ Become(f)
             /\ f.fn = "resolve_all" /\ f.at = "iterate" /\ f.node = Top.node /\ f.pos = 1
  <2>1. PICK f, base, ns :
            /\ Become(f)
            /\ f \in {[Top EXCEPT !.at = "iterate", !.pos = 1],
                      [Top EXCEPT !.at = "iterate", !.pos = 1, !.base = base, !.ns = ns]}
    BY <1>3
  <2>2. f.fn = "resolve_all" /\ f.at = "iterate" /\ f.node = Top.node /\ f.pos = 1
    BY <1>1, <1>2, <2>1 DEF Call, Frame
  <2> QED  BY <2>1, <2>2
<1>5. ~(Load \/ Descend \/ OpenGraph)
  <2>1. ~OpenGraph
    BY <1>2 DEF OpenGraph, IsKind
  <2> QED  BY <1>1, <2>1 DEF Load, Descend, Running
<1>6. G = F
  BY <1>5 DEF Amid, Takes
<1>7. \A a \in DOMAIN heap : heap'[a].kids = heap[a].kids
  BY Innermost, OpenMapHeap DEF OpenSeq, objects, Unmoved
<1>8. OpenSeq => heap' = heap /\ idx' = idx /\ heap[Top.node].kind = "seq"
  BY DEF OpenSeq, objects, IsKind
<1> QED  BY <1>1, <1>2, <1>4, <1>6, <1>7, <1>8

LEMMA GraphMove ==
    ASSUME NEW s, NEW F, NEW G, NEW rank, Amid(s, F, G, rank), OpenGraph
    PROVE  \E f : /\ Become(f) /\ Unmoved
                  /\ f.fn = "resolve_all" /\ f.at = "iterate" /\ f.node = Written(Top.node)[1] /\ f.pos = 1
                  /\ Top.fn = "resolve_all" /\ Top.at = "enter" /\ Top.node \in DOMAIN heap
                  /\ heap[Top.node].kind = "graph"
                  /\ f.node \in F /\ f.node \in Offspring(Top.node) /\ f.node \in DOMAIN heap
                  /\ G = F \ {f.node}
                  /\ web.heap[f.node].kind = "seq" /\ heap[f.node].kids = Written(f.node)
                  /\ Opened(Top.node) = f.node
<1>0. PICK list, f : /\ list = heap[Top.node].kids[1]
                     /\ f = [Top EXCEPT !.at = "iterate", !.pos = 1, !.ns = Scope(Top),
                                   !.base = Identified(Top).base, !.node = list]
  OBVIOUS
<1>1. /\ stack # <<>> /\ Top.fn = "resolve_all" /\ Top.at = "enter" /\ IsKind(Top.node, {"graph"})
      /\ Become(f)
  BY <1>0 DEF OpenGraph, Running
<1>2. /\ Top \in Call /\ InPlace(F, Top) /\ Traverses(Top) /\ Top.node \in DOMAIN heap
      /\ heap[Top.node].kind = "graph" /\ web.heap[Top.node].kind = "graph"
      /\ DOMAIN heap[Top.node].kids = 1 .. Len(heap[Top.node].kids)
      /\ heap[Top.node].kids \in Seq(Addrs)
  BY <1>1, Innermost, Traversing
<1>3. heap[Top.node].kids # <<>> /\ list \in DOMAIN heap /\ heap[list].kind = "seq"
      /\ heap[Top.node].kids = Written(Top.node)
  BY <1>0, <1>2, Innermost DEF Whole, Store, WellFormed, Amid, Around, Fixed
<1>4. 1 \in DOMAIN heap[Top.node].kids /\ list # Text
  BY <1>2, <1>3, Innermost, Shape, EmptySeq, LenProperties
<1>5. list \in F /\ list \in Offspring(Top.node)
  BY <1>0, <1>1, <1>2, <1>4 DEF InPlace, From, Ahead
<1>6. f.fn = "resolve_all" /\ f.at = "iterate" /\ f.pos = 1 /\ f.node = list
  BY <1>0, <1>1, <1>2 DEF Call, Frame
<1>7. ~(Load \/ Descend)
  BY <1>1 DEF Load, Descend, Running
<1>8. G = F \ {list}
  BY <1>0, <1>1, <1>7 DEF Amid, Takes, Kids
<1>9. Unmoved
  BY Innermost, OpenGraphHeap
<1>10. heap[list].kids = Written(list) /\ web.heap[list].kind = "seq"
  BY <1>3, <1>5, Innermost DEF Amid, Fields, Raw
<1> QED  BY <1>0, <1>1, <1>2, <1>3, <1>5, <1>6, <1>8, <1>9, <1>10 DEF Opened, Written

LEMMA DescendMove ==
    ASSUME NEW s, NEW F, NEW G, NEW rank, Amid(s, F, G, rank), Descend
    PROVE  \E f, g : LET kid == heap[Top.node].kids[Top.pos]
                     IN  /\ Invoke(f, g) /\ heap' = heap /\ idx' = idx
                         /\ G = F \ {kid}
                         /\ f.fn = "resolve_all" /\ f.at = "wait" /\ f.node = Top.node /\ f.pos = Top.pos
                         /\ Top.fn = "resolve_all" /\ Top.at = "iterate" /\ Top.node \in DOMAIN heap
                         /\ heap[Top.node].kind \in {"map", "seq"}
                         /\ Top.pos \in DOMAIN heap[Top.node].kids
                         /\ g.node = kid /\ g.at = "enter"
                         /\ \/ g.fn = "resolve_all"
                            \/ /\ g.fn = "resolve_ref" /\ kid # Text
                               /\ heap[kid].kind \in {"import", "mixin"}
                         /\ kid # Text => kid \in F /\ kid \in DOMAIN heap /\ kid \in Offspring(Top.node)
<1>0. PICK kid, f, g :
        /\ kid = Kids(Top)[Top.pos]
        /\ f = [Top EXCEPT !.at = "wait"]
        /\ g = IF Spliceable(Top) THEN DirectiveFrame(kid, Top.file, Top.ns, FALSE)
               ELSE AllFrame(kid, Top.base, Top.file, Top.ns, FALSE)
  OBVIOUS
<1>1. /\ Top.fn = "resolve_all" /\ Top.at = "iterate" /\ Top.pos \in DOMAIN Kids(Top)
      /\ Invoke(f, g) /\ heap' = heap /\ idx' = idx
  BY <1>0 DEF Descend, Running, More, objects, world
<1>2. IsKind(Top.node, {"map", "seq"}) /\ Top \in Call /\ InPlace(F, Top)
  BY <1>1, Innermost, CallParts
<1>3. /\ Traverses(Top) /\ Top.node \in DOMAIN heap /\ Top.pos \in Nat
      /\ heap[Top.node].kind \in {"map", "seq"}
      /\ Kids(Top) = heap[Top.node].kids
  BY <1>1, <1>2, Innermost, Traversing DEF Kids
<1>4. kid # Text => kid \in Offspring(Top.node) /\ kid \in F
  BY <1>0, <1>1, <1>2, <1>3 DEF InPlace, From, Ahead
<1>5. F \subseteq DOMAIN heap
  BY DEF Amid, Around, Fresh, Untouched
<1>6. f.fn = "resolve_all" /\ f.at = "wait" /\ f.node = Top.node /\ f.pos = Top.pos
  BY <1>0, <1>1, <1>2 DEF Call, Frame
<1>7. /\ g.node = kid /\ g.at = "enter"
      /\ g.fn = "resolve_all" \/ (g.fn = "resolve_ref" /\ Spliceable(Top))
  BY <1>0 DEF DirectiveFrame, RefFrame, AllFrame
<1>8. Spliceable(Top) => kid # Text /\ heap[kid].kind \in {"import", "mixin"}
  BY <1>0 DEF Spliceable, IsKind
<1>9. ~(Load \/ OpenGraph)
  BY <1>1 DEF Load, OpenGraph, Running
<1>10. G = F \ {kid}
  BY <1>0, <1>9 DEF Amid, Takes
<1>11. kid = heap[Top.node].kids[Top.pos] /\ Top.pos \in DOMAIN heap[Top.node].kids
  BY <1>0, <1>1, <1>3
<1>12. kid # Text => kid \in F /\ kid \in DOMAIN heap /\ kid \in Offspring(Top.node)
  BY <1>4, <1>5
<1> HIDE <1>0
<1> QED  BY <1>1, <1>3, <1>6, <1>7, <1>8, <1>10, <1>11, <1>12

LEMMA LoadMove ==
    ASSUME NEW s, NEW F, NEW G, NEW rank, Amid(s, F, G, rank), Load
    PROVE  \E f, g : LET root == web.root[Top.url.doc]
                     IN  /\ Invoke(f, g) /\ Unmoved
                         /\ G = F \ {root}
                         /\ f.fn = "resolve_ref" /\ f.at = "wait" /\ f.node = Top.node
                         /\ f.mode = Top.mode /\ f.url = Top.url
                         /\ Top.fn = "resolve_ref" /\ Top.at = "enter" /\ Top.url.doc \in Docs
                         /\ ~Overfull(Top) /\ Top.mode # "include"
                         /\ g.node = root /\ g.at = "enter" /\ g.fn = "resolve_all"
                         /\ root \in Addrs
                         /\ root # Text => root \in F /\ root \in DOMAIN heap
<1>0. PICK d, root, f, g :
        /\ d = DocUrl(Top.url) /\ root = web.root[Top.url.doc]
        /\ f = [Top EXCEPT !.at = "wait"]
        /\ g = AllFrame(root, d, d, Top.ns, Top.check)
  OBVIOUS
<1>1. /\ stack # <<>> /\ Top.fn = "resolve_ref" /\ Top.at = "enter" /\ Top \in Call /\ Top.url.doc \in Docs
      /\ ~Overfull(Top) /\ Top.mode # "include"
  BY Innermost, TopRef DEF Load, Running, Structured
<1>2. /\ Unmoved /\ d \notin DOMAIN idx /\ d = RootUrl(Top.url.doc)
      /\ idx'[d] = root /\ root \in Addrs
  BY <1>0, Innermost, LoadHeap
<1>3. Invoke(f, g)
  BY <1>0, <1>2 DEF Load
<1>4. f.fn = "resolve_ref" /\ f.at = "wait" /\ f.mode = Top.mode /\ f.node = Top.node /\ f.url = Top.url
  BY <1>0, <1>1 DEF Call, Frame
<1>5. g.fn = "resolve_all" /\ g.at = "enter" /\ g.node = root
  BY <1>0 DEF AllFrame
<1>6. root # Text => root \in F /\ root \in DOMAIN heap
  <2>1. root # NoText
    BY <1>2, Innermost DEF Addrs, Whole, Store, NoText, Text
  <2> QED  BY <1>0, <1>1, <1>2, <2>1 DEF Fresh, Untouched, Around, Amid
<1>7. ~(Descend \/ OpenGraph)
  BY <1>1 DEF Descend, OpenGraph, Running
<1>8. G = F \ {root}
  BY <1>0, <1>7 DEF Amid, Takes
<1> QED  BY <1>0, <1>1, <1>2, <1>3, <1>4, <1>5, <1>6, <1>8

\* The call f goes on with the loop over the values, which are now kids.
Refills(F, G, f, kids) ==
    /\ Become(f) /\ G = F /\ idx' = idx
    /\ heap' = [heap EXCEPT ![Top.node].kids = kids]
    /\ f.fn = "resolve_all" /\ f.at = "iterate" /\ f.node = Top.node
    /\ Top.fn = "resolve_all" /\ Top.at = "wait" /\ Top.node \in DOMAIN heap
    /\ heap[Top.node].kind \in {"map", "seq"} /\ Traverses(Top)
    /\ heap[Top.node].kids \in Seq(Addrs)
    /\ Top.pos \in 1 .. Len(heap[Top.node].kids) /\ ret # NoRet
    /\ ReplaceKid => /\ f.pos = Top.pos + 1 /\ ~Splices(Top)
                     /\ kids = [heap[Top.node].kids EXCEPT ![Top.pos] = ret]
    /\ SpliceKids =>
          LET all == heap[Top.node].kids
              new == IF ret = Top.node THEN <<>> ELSE heap[ret].kids
          IN  /\ f.pos = Top.pos + Len(new) /\ Splices(Top)
              /\ kids = SubSeq(all, 1, Top.pos - 1) \o new \o SubSeq(all, Top.pos + 1, Len(all))

LEMMA LoopMove ==
    ASSUME NEW s, NEW F, NEW G, NEW rank, Amid(s, F, G, rank), ReplaceKid \/ SpliceKids
    PROVE  \E f, kids : Refills(F, G, f, kids)
<1>1. /\ Returned("resolve_all") /\ More(Top) /\ Top.fn = "resolve_all" /\ Top.at = "wait" /\ ret # NoRet
      /\ idx' = idx
  BY DEF ReplaceKid, SpliceKids, Returned
<1>2. /\ IsKind(Top.node, {"map", "seq"}) /\ Kids(Top) = heap[Top.node].kids
      /\ Top.pos \in 1 .. Len(heap[Top.node].kids)
  BY <1>1, Innermost, InLoop
<1>3. /\ Traverses(Top) /\ Top.node \in DOMAIN heap /\ Top \in Call
      /\ heap[Top.node].kind \in {"map", "seq"} /\ heap[Top.node].kids \in Seq(Addrs)
  BY <1>1, <1>2, Innermost, Traversing
<1>4. ~(Load \/ Descend \/ OpenGraph)
  BY <1>1 DEF Load, Descend, OpenGraph, Running
<1>5. G = F
  BY <1>4 DEF Amid, Takes
<1>6. ASSUME NEW pos \in Int
      PROVE  LET f == [Top EXCEPT !.at = "iterate", !.pos = pos]
             IN  f.fn = "resolve_all" /\ f.at = "iterate" /\ f.node = Top.node /\ f.pos = pos
  BY <1>1, <1>3 DEF Call, Frame
<1>7. CASE ReplaceKid
  <2>1. PICK f, pos : /\ f = [Top EXCEPT !.at = "iterate", !.pos = pos] /\ pos = Top.pos + 1
                      /\ Become(f)
    BY <1>7, <1>3 DEF ReplaceKid, Call, Frame
  <2>2. f.fn = "resolve_all" /\ f.at = "iterate" /\ f.node = Top.node /\ f.pos = pos
    BY <1>2, <1>6, <2>1
  <2>3. /\ heap' = [heap EXCEPT ![Top.node].kids = [heap[Top.node].kids EXCEPT ![Top.pos] = ret]]
        /\ ~Splices(Top)
    BY <1>7, <1>3 DEF ReplaceKid
  <2>4. ~SpliceKids
    BY <2>3 DEF SpliceKids
  <2> QED  BY <1>1, <1>2, <1>3, <1>5, <2>1, <2>2, <2>3, <2>4 DEF Refills
<1>8. CASE SpliceKids
  <2>1. PICK f, new, all :
            /\ all = heap[Top.node].kids
            /\ new = IF ret = Top.node THEN <<>> ELSE heap[ret].kids
            /\ f = [Top EXCEPT !.at = "iterate", !.pos = Top.pos + Len(new)]
            /\ Become(f)
            /\ heap' = [heap EXCEPT ![Top.node].kids =
                  SubSeq(all, 1, Top.pos - 1) \o new \o SubSeq(all, Top.pos + 1, Len(all))]
    BY <1>2, <1>8 DEF SpliceKids, After
  <2>2. Splices(Top) /\ ~ReplaceKid
    BY <1>8 DEF SpliceKids, ReplaceKid
  <2>3. new \in Seq(Addrs)
    <3>1. ret \in DOMAIN heap
      BY <1>1, <2>2, Innermost, InLoop DEF Splices, IsKind, Addrs
    <3>2. heap[ret].kids \in Seq(Addrs)
      BY <3>1, Innermost DEF Whole, Store, Node
    <3> QED  BY <2>1, <3>2, EmptySeq
  <2>4. Top.pos + Len(new) \in Int
    BY <1>2, <1>3, <2>3, LenProperties
  <2>5. f.fn = "resolve_all" /\ f.at = "iterate" /\ f.node = Top.node /\ f.pos = Top.pos + Len(new)
    BY <1>6, <2>1, <2>4
  <2> QED  BY <1>1, <1>2, <1>3, <1>5, <2>1, <2>2, <2>5 DEF Refills
<1> QED  BY <1>7, <1>8

----------------------------------------------------------------------------
(* What the calls have in hand *)

\* The calls after a step.
LEMMA StackShape ==
    ASSUME Whole, stack # <<>>, NEW v, NEW f, NEW g, NEW n, n = Len(stack),
           Return(v) \/ Become(f) \/ Invoke(f, g)
    PROVE  /\ n \in Nat \ {0} /\ stack[n] = Top /\ DOMAIN stack = 1 .. n
           /\ \A i \in 1 .. n - 1 : i \in DOMAIN stack' /\ stack'[i] = stack[i]
           /\ Return(v) => DOMAIN stack' = 1 .. n - 1
           /\ Become(f) => DOMAIN stack' = 1 .. n /\ stack'[n] = f
           /\ Invoke(f, g) => DOMAIN stack' = 1 .. n + 1 /\ stack'[n] = f /\ stack'[n + 1] = g
<1>1. n \in Nat \ {0} /\ stack[n] = Top /\ DOMAIN stack = 1 .. n /\ Outer = 1 .. n - 1
  BY StackAfter DEF Outer
<1>2. CASE Return(v)
  <2>1. DOMAIN stack' = 1 .. n - 1 /\ \A i \in 1 .. n - 1 : stack'[i] = stack[i]
    BY <1>1, <1>2, StackAfter DEF Return
  <2>2. ~Become(f) /\ ~Invoke(f, g)
    <3>1. n \notin DOMAIN stack' /\ n \in 1 .. n /\ n \in 1 .. n + 1
      BY <1>1, <2>1
    <3> QED  BY <3>1, StackAfter
  <2> QED  BY <1>1, <2>1, <2>2
<1>3. CASE Become(f) /\ ~Return(v)
  <2>1. DOMAIN stack' = 1 .. n /\ stack'[n] = f /\ \A i \in 1 .. n - 1 : stack'[i] = stack[i]
    BY <1>1, <1>3, StackAfter
  <2>2. ~Invoke(f, g)
    <3>1. n + 1 \notin DOMAIN stack' /\ n + 1 \in 1 .. n + 1
      BY <1>1, <2>1
    <3> QED  BY <3>1, StackAfter
  <2> QED  BY <1>1, <1>3, <2>1, <2>2
<1>4. CASE Invoke(f, g) /\ ~Return(v) /\ ~Become(f)
  <2>1. /\ DOMAIN stack' = 1 .. n + 1 /\ stack'[n] = f /\ stack'[n + 1] = g
        /\ \A i \in 1 .. n - 1 : stack'[i] = stack[i]
    BY <1>1, <1>4, StackAfter
  <2> QED  BY <1>1, <1>4, <2>1
<1> QED  BY <1>2, <1>3, <1>4

\* What a step does to the stack, whatever the action.
Moved(F, G, f, g) ==
    /\ Traverses(f) => f.node \in F \ G \/ (Traverses(Top) /\ f.node = Top.node)
    /\ Traverses(g) => g.node \in F \ G
    /\ \/ Become(f)
       \/ Invoke(f, g)
       \/ \E v : Return(v)
    /\ Traverses(Top) /\ web.heap[Top.node].kind \in {"map", "seq"} =>
            \/ Traverses(f) /\ f.node = Top.node /\ ~\E v : Return(v)
            \/ Finish

LEMMA SomeMove ==
    ASSUME NEW s, NEW F, NEW G, NEW rank, Amid(s, F, G, rank)
    PROVE  \E f, g : Moved(F, G, f, g)
<1>0. \A f, g : (Become(f) \/ Invoke(f, g)) => ~\E v : Return(v)
  <2> SUFFICES ASSUME NEW f, NEW g, Become(f) \/ Invoke(f, g), NEW v, Return(v) PROVE FALSE
    OBVIOUS
  <2>1. PICK n : n = Len(stack)
    OBVIOUS
  <2>2. n \in Nat \ {0} /\ DOMAIN stack' = 1 .. n - 1 /\ n \in DOMAIN stack'
    <3>1. n \in Nat \ {0}
      BY <2>1, Innermost
    <3>2. n \in 1 .. n /\ n \in 1 .. n + 1
      BY <3>1
    <3>3. Whole /\ stack # <<>>
      BY Innermost
    <3>4. /\ DOMAIN stack' = 1 .. n - 1
          /\ Become(f) => DOMAIN stack' = 1 .. n
          /\ Invoke(f, g) => DOMAIN stack' = 1 .. n + 1
      BY <2>1, <3>3, StackShape
    <3> QED  BY <3>1, <3>2, <3>4
  <2> QED  BY <2>2
<1>1. CASE ReturnIndexed \/ Include \/ RefResolved \/ ReturnScalar \/ Finish
  <2>1. PICK v : Return(v) /\ (Traverses(Top) => Finish)
    BY <1>1, ReturnMove
  <2>2. PICK f : f = [fn |-> "resolve_ref", node |-> Text]
    OBVIOUS
  <2>3. ~Traverses(f)
    BY <2>2 DEF Traverses
  <2>4. Moved(F, G, f, f)
    BY <2>1, <2>3 DEF Moved
  <2> QED  BY <2>4
<1>2. CASE FollowDirective
  <2>1. PICK f : /\ Become(f) /\ ~Traverses(f)
                 /\ heap[Top.node].kind \in Directives /\ Top.node \in DOMAIN heap
    BY <1>2, FollowMove DEF Traverses
  <2>2. web.heap[Top.node].kind \notin {"map", "seq"}
    BY <2>1, Innermost DEF Directives
  <2>3. Moved(F, G, f, f)
    BY <2>1, <2>2 DEF Moved
  <2> QED  BY <2>3
<1>3. CASE OpenSeq \/ OpenMap
  <2>1. PICK f : /\ Become(f) /\ Top.fn = "resolve_all" /\ f.fn = "resolve_all" /\ f.node = Top.node
    BY <1>3, OpenMove
  <2>2. PICK g : g = [fn |-> "resolve_ref", node |-> Text]
    OBVIOUS
  <2>3. ~Traverses(g)
    BY <2>2 DEF Traverses
  <2>4. Moved(F, G, f, g)
    BY <1>0, <2>1, <2>3 DEF Moved, Traverses
  <2> QED  BY <2>4
<1>4. CASE OpenGraph
  <2>1. PICK f : /\ Become(f) /\ Top.node \in DOMAIN heap /\ heap[Top.node].kind = "graph"
                 /\ f.node \in F /\ G = F \ {f.node}
    BY <1>4, GraphMove
  <2>2. PICK g : g = [fn |-> "resolve_ref", node |-> Text]
    OBVIOUS
  <2>3. ~Traverses(g)
    BY <2>2 DEF Traverses
  <2>4. web.heap[Top.node].kind \notin {"map", "seq"} /\ f.node \in F \ G
    BY <2>1, Innermost
  <2>5. Moved(F, G, f, g)
    BY <2>1, <2>3, <2>4 DEF Moved
  <2> QED  BY <2>5
<1>5. CASE Descend
  <2>1. PICK f, g : /\ Invoke(f, g) /\ Top.fn = "resolve_all" /\ f.fn = "resolve_all" /\ f.node = Top.node
                    /\ G = F \ {g.node} /\ (g.node # Text => g.node \in F)
    BY <1>5, DescendMove
  <2>2. Moved(F, G, f, g)
    BY <1>0, <2>1 DEF Moved, Traverses
  <2> QED  BY <2>2
<1>6. CASE Load
  <2>1. PICK f, g : /\ Invoke(f, g) /\ Top.fn = "resolve_ref" /\ f.fn = "resolve_ref"
                    /\ G = F \ {g.node} /\ (g.node # Text => g.node \in F)
    BY <1>6, LoadMove
  <2>2. Moved(F, G, f, g)
    BY <1>0, <2>1 DEF Moved, Traverses
  <2> QED  BY <2>2
<1>7. CASE ReplaceKid \/ SpliceKids
  <2>1. PICK f : /\ Become(f) /\ Top.fn = "resolve_all"
                 /\ f.fn = "resolve_all" /\ f.node = Top.node
    <3>1. PICK f, kids : Refills(F, G, f, kids)
      BY <1>7, LoopMove
    <3> QED  BY <3>1 DEF Refills
  <2>2. PICK g : g = [fn |-> "resolve_ref", node |-> Text]
    OBVIOUS
  <2>3. ~Traverses(g)
    BY <2>2 DEF Traverses
  <2>4. Moved(F, G, f, g)
    BY <1>0, <2>1, <2>3 DEF Moved, Traverses
  <2> QED  BY <2>4
<1> QED
  BY <1>1, <1>2, <1>3, <1>4, <1>5, <1>6, <1>7, Calling DEF Amid

\* A traversal begins at an untouched object, and of a map or a list it ends when all is done.
LEMMA VisitedAfter ==
    ASSUME NEW s, NEW F, NEW G, NEW rank, Amid(s, F, G, rank)
    PROVE  /\ \A a : Visited(a)' => Visited(a) \/ a \in F \ G
           /\ \A a : Visited(a) /\ web.heap[a].kind \in {"map", "seq"} =>
                 Visited(a)' \/ (Finish /\ Traverses(Top) /\ a = Top.node)
<1>0. PICK n, f, g : n = Len(stack) /\ Moved(F, G, f, g)
  BY SomeMove
<1>1. PICK v : Return(v) \/ Become(f) \/ Invoke(f, g)
  BY <1>0 DEF Moved
<1>2. Whole /\ stack # <<>>
  BY Innermost
<1>3. /\ n \in Nat \ {0} /\ stack[n] = Top /\ DOMAIN stack = 1 .. n
      /\ \A i \in 1 .. n - 1 : i \in DOMAIN stack' /\ stack'[i] = stack[i]
      /\ Return(v) => DOMAIN stack' = 1 .. n - 1
      /\ Become(f) => DOMAIN stack' = 1 .. n /\ stack'[n] = f
      /\ Invoke(f, g) => DOMAIN stack' = 1 .. n + 1 /\ stack'[n] = f /\ stack'[n + 1] = g
  BY <1>0, <1>1, <1>2, StackShape
<1>4. ASSUME NEW a, Visited(a)'
      PROVE  Visited(a) \/ a \in F \ G
  <2>1. PICK i \in DOMAIN stack' : Traverses(stack'[i]) /\ stack'[i].node = a
    BY <1>4 DEF Visited, Traverses
  <2>2. i \in 1 .. n - 1 \/ (i = n /\ stack'[i] = f) \/ (i = n + 1 /\ stack'[i] = g)
    BY <1>1, <1>3
  <2>3. CASE i \in 1 .. n - 1
    <3>1. i \in DOMAIN stack /\ stack[i] = stack'[i]
      BY <1>3, <2>3
    <3> QED  BY <2>1, <3>1 DEF Visited
  <2>4. CASE i = n /\ stack'[i] = f
    <3>1. n \in DOMAIN stack
      BY <1>3
    <3> QED  BY <1>0, <1>3, <2>1, <2>4, <3>1 DEF Moved, Visited
  <2>5. CASE i = n + 1 /\ stack'[i] = g
    BY <1>0, <2>1, <2>5 DEF Moved
  <2> QED  BY <2>2, <2>3, <2>4, <2>5
<1>5. ASSUME NEW a, Visited(a), web.heap[a].kind \in {"map", "seq"}
      PROVE  Visited(a)' \/ (Finish /\ Traverses(Top) /\ a = Top.node)
  <2>1. PICK i \in DOMAIN stack : Traverses(stack[i]) /\ stack[i].node = a
    BY <1>5 DEF Visited
  <2>2. i \in 1 .. n - 1 \/ i = n
    BY <1>3
  <2>3. CASE i \in 1 .. n - 1
    BY <1>3, <2>1, <2>3 DEF Visited, Traverses
  <2>4. CASE i = n
    <3>1. CASE Finish
      BY <1>3, <2>1, <2>4, <3>1
    <3>2. CASE ~Finish
      <4>1. Traverses(f) /\ f.node = a /\ ~Return(v)
        BY <1>0, <1>3, <1>5, <2>1, <2>4, <3>2 DEF Moved
      <4>2. n \in DOMAIN stack' /\ stack'[n] = f
        BY <1>1, <1>3, <4>1
      <4> QED  BY <4>1, <4>2 DEF Visited, Traverses
    <3> QED  BY <3>1, <3>2
  <2> QED  BY <2>2, <2>3, <2>4
<1> QED  BY <1>4, <1>5

\* An object at which no call is keeps its values.
LEMMA Unvisited ==
    ASSUME NEW s, NEW F, NEW G, NEW rank, Amid(s, F, G, rank),
           NEW v \in DOMAIN heap, ~Visited(v)
    PROVE  heap'[v].kids = heap[v].kids
<1>1. Traverses(Top) => Visited(Top.node)
  BY Innermost DEF Visited
<1> QED  BY <1>1 DEF Amid, Around, Untold

\* A value that was placed keeps its meaning, and what it gives.
LEMMA PortionKept ==
    ASSUME NEW s, NEW F, NEW G, NEW rank, Amid(s, F, G, rank),
           NEW a, NEW k, NEW v, Portion(s, F, a, k, v)
    PROVE  Portion(s, G, a, k, v)' /\ Share(a, k, v)' = Share(a, k, v)
<1>1. /\ \A u \in Outcomes(F) : u \in Outcomes(G)'
      /\ (Means(s, k, v)' <=> Means(s, k, v)) /\ (Spread(a, k, v)' <=> Spread(a, k, v))
  BY OutcomesGrow, SameMeaning DEF Amid, Around
<1>2. ASSUME Spread(a, k, v)
      PROVE  ~Visited(v)' /\ heap'[v].kids = heap[v].kids
  <2>1. v \in DOMAIN heap /\ v \notin F /\ ~Visited(v)
    BY <1>2 DEF Portion, Spread, Outcomes, Addrs
  <2> QED  BY <2>1, VisitedAfter, Unvisited
<1> QED  BY <1>1, <1>2 DEF Portion, Share

\* What is done stays so.
LEMMA ReworkedKept ==
    ASSUME NEW s, NEW F, NEW G, NEW rank, Amid(s, F, G, rank),
           NEW a, heap'[a].kids = heap[a].kids, NEW pos, Reworked(s, F, a, pos)
    PROVE  Reworked(s, G, a, pos)'
<1>1. /\ web' = web /\ Written(a)' = Written(a) /\ \A v \in Outcomes(F) : v \in Outcomes(G)'
  BY OutcomesGrow, SameMeaning DEF Amid, Around
<1>3. ASSUME NEW k, NEW v, Portion(s, F, a, k, v)
      PROVE  Portion(s, G, a, k, v)' /\ Share(a, k, v)' = Share(a, k, v)
  BY <1>3, PortionKept
<1>4. PICK n, cut : n \in 0 .. Len(Written(a)) /\
          Cut(s, F, a, n, cut) /\ cut[n] = pos - 1 /\ Raws(a, n, pos)
  BY DEF Reworked
<1>5. Cut(s, G, a, n, cut)'
  <2>1. ASSUME NEW i \in 1 .. n
        PROVE  \E v : Portion(s, G, a, Written(a)[i], v)' /\ Placed(a, Written(a)[i], v, cut[i - 1], cut[i])'
    <3>1. PICK v : Portion(s, F, a, Written(a)[i], v) /\ Placed(a, Written(a)[i], v, cut[i - 1], cut[i])
      BY <1>4 DEF Cut
    <3>2. PICK k : k = Written(a)[i]
      OBVIOUS
    <3>3. Portion(s, G, a, k, v)' /\ Share(a, k, v)' = Share(a, k, v)
      BY <1>3, <3>1, <3>2
    <3>4. Placed(a, k, v, cut[i - 1], cut[i])'
      BY <3>1, <3>2, <3>3 DEF Placed
    <3> QED  BY <1>1, <3>2, <3>3, <3>4
  <2> QED  BY <1>1, <1>4, <2>1 DEF Cut
<1>6. Raws(a, n, pos)'
  BY <1>1, <1>4 DEF Raws
<1>7. \A i \in 1 .. pos - 1 : heap'[a].kids[i] \in Outcomes(G)'
  BY <1>1 DEF Reworked
<1> QED  BY <1>1, <1>4, <1>5, <1>6, <1>7 DEF Reworked

\* So a call further out has done as much as before.
LEMMA AdvancedKept ==
    ASSUME NEW s, NEW F, NEW G, NEW rank, Amid(s, F, G, rank), NEW i \in Outer,
           stack'[i] = stack[i]
    PROVE  /\ Advanced(s, G, stack[i])'
           /\ Traverses(stack[i]) => heap'[stack[i].node].kids = heap[stack[i].node].kids
<1>1. PICK f : f = stack[i]
  OBVIOUS
<1>2. /\ i \in DOMAIN stack /\ f \in Call /\ Advanced(s, F, f)
      /\ Holds(f) /\ Holds(Top) => f.node # Top.node
  <2>1. i \in DOMAIN stack /\ f \in Call /\ Len(stack) \in DOMAIN stack /\ i < Len(stack)
        /\ stack[Len(stack)] = Top
    BY <1>1, StackAfter, Innermost
  <2> QED  BY <1>1, <2>1 DEF Amid, Around, Fresh, Apart, Sound, Chain
<1>3. Traverses(f) => f.node \in DOMAIN heap /\ heap'[f.node].kids = heap[f.node].kids
  <2>1. Traverses(f) => f.node \in DOMAIN heap
    BY <1>2, CallParts DEF Traverses, Addrs
  <2> QED  BY <1>2, <2>1 DEF Traverses, Holds, Amid, Around, Untold
<1>4. web' = web
  BY DEF Amid, Around
<1>5. Advanced(s, G, f)'
  <2> SUFFICES ASSUME Traverses(f), web.heap[f.node].kind \in {"map", "seq"}
               PROVE  IF f.at = "enter" THEN heap'[f.node].kids = Written(f.node)'
                      ELSE Reworked(s, G, f.node, f.pos)'
    BY <1>4 DEF Advanced, Traverses
  <2>1. CASE f.at = "enter"
    BY <1>2, <1>3, <1>4, <2>1 DEF Advanced, Written
  <2>2. CASE f.at # "enter"
    <3>1. PICK a, pos : a = f.node /\ pos = f.pos
      OBVIOUS
    <3>2. Reworked(s, F, a, pos) /\ heap'[a].kids = heap[a].kids
      BY <1>2, <1>3, <2>2, <3>1 DEF Advanced
    <3>3. Reworked(s, G, a, pos)'
      BY <3>2, ReworkedKept
    <3> QED  BY <2>2, <3>1, <3>3
  <2> QED  BY <2>1, <2>2
<1> QED  BY <1>1, <1>3, <1>5

\* The call f takes the place of the innermost one.
Carries(s, G, rank, f) ==
    /\ Advanced(s, G, f)'
    /\ \A k : Serving(k, Top) => Serving(k, f)
    /\ Holds(f) => Holds(Top) /\ f.node \in DOMAIN heap /\ rank[f.node] <= rank[Top.node]

\* The call f waits for the call g.
Spawns(s, G, rank, f, g) ==
    /\ f.at = "wait" /\ Advanced(s, G, g)' /\ Attends(f, g)'
    /\ Holds(g) => /\ g.node \in DOMAIN heap
                   /\ Holds(f) => rank[g.node] < rank[f.node]
                   /\ Holds(f) \/ Len(stack) = 1

LEMMA OuterAttends ==
    ASSUME NEW s, NEW F, NEW G, NEW rank, Amid(s, F, G, rank), NEW i \in Outer,
           NEW e, NEW h, e = stack[i], stack'[i] = e, \A k : Serving(k, stack[i + 1]) => Serving(k, h)
    PROVE  Attends(e, h)'
<1>1. i \in DOMAIN stack /\ i + 1 \in DOMAIN stack
  BY Innermost
<1>2. Attends(e, stack[i + 1])
  BY <1>1 DEF Amid, Sound, Chain
<1>3. Traverses(e) => heap'[e.node].kids = heap[e.node].kids
  BY AdvancedKept
<1>4. web' = web
  BY DEF Amid, Around
<1>5. \A k : Serving(k, h)' <=> Serving(k, h)
  BY <1>4 DEF Serving, Written
<1> QED  BY <1>2, <1>3, <1>4, <1>5 DEF Attends, Traverses

\* The calls rank ever lower.
LEMMA FallsAfter ==
    ASSUME NEW s, NEW F, NEW G, NEW rank, Amid(s, F, G, rank), NEW v, NEW f, NEW g,
           \/ Return(v)
           \/ Become(f) /\ Carries(s, G, rank, f)
           \/ Invoke(f, g) /\ Carries(s, G, rank, f) /\ Spawns(s, G, rank, f, g)
    PROVE  Falls(rank)'
<1>0. PICK n : n = Len(stack)
  OBVIOUS
<1>1. Whole /\ stack # <<>> /\ Falls(rank) /\ rank \in [DOMAIN web.heap -> Nat]
      /\ DOMAIN heap = DOMAIN web.heap
  BY Innermost DEF Amid, Sound, Chain, Acyclic
<1>2. Return(v) \/ Become(f) \/ Invoke(f, g)
  OBVIOUS
<1>3. /\ n \in Nat \ {0} /\ stack[n] = Top /\ DOMAIN stack = 1 .. n
      /\ \A i \in 1 .. n - 1 : i \in DOMAIN stack' /\ stack'[i] = stack[i]
      /\ Return(v) => DOMAIN stack' = 1 .. n - 1
      /\ Become(f) => DOMAIN stack' = 1 .. n /\ stack'[n] = f
      /\ Invoke(f, g) => DOMAIN stack' = 1 .. n + 1 /\ stack'[n] = f /\ stack'[n + 1] = g
  BY <1>0, <1>1, <1>2, StackShape
<1>4. \A i \in 1 .. n : Holds(stack[i]) => rank[stack[i].node] \in Nat
  <2>1. \A i \in 1 .. n : Holds(stack[i]) => stack[i].node \in DOMAIN web.heap
    BY <1>1, <1>3, Innermost, CallParts DEF Holds, Addrs
  <2> QED  BY <1>1, <2>1
<1>5. \A i, j \in 1 .. n : i < j /\ Holds(stack[i]) /\ Holds(stack[j]) =>
          rank[stack[j].node] < rank[stack[i].node]
  BY <1>1, <1>3 DEF Falls
<1>6. CASE Return(v)
  <2>1. \A i \in 1 .. n - 1 : i \in 1 .. n
    BY <1>3
  <2> QED  BY <1>3, <1>5, <1>6, <2>1 DEF Falls, Holds
<1>7. ASSUME Carries(s, G, rank, f)
      PROVE  /\ Holds(f) => rank[f.node] \in Nat
             /\ \A i \in 1 .. n - 1 : Holds(stack[i]) /\ Holds(f) => rank[f.node] < rank[stack[i].node]
  <2>1. Holds(f) => rank[f.node] \in Nat /\ rank[f.node] <= rank[Top.node] /\ Holds(Top)
    BY <1>1, <1>7 DEF Carries
  <2>2. ASSUME NEW i \in 1 .. n - 1, Holds(stack[i]), Holds(f)
        PROVE  rank[f.node] < rank[stack[i].node]
    <3>1. i \in 1 .. n /\ n \in 1 .. n /\ i < n
      BY <1>3
    <3>2. rank[Top.node] < rank[stack[i].node] /\ rank[Top.node] \in Nat /\ rank[stack[i].node] \in Nat
      BY <1>3, <1>4, <1>5, <2>1, <2>2, <3>1
    <3> QED  BY <2>1, <2>2, <3>2
  <2> QED  BY <2>1, <2>2
<1>8. CASE Become(f) /\ Carries(s, G, rank, f)
  <2>1. ASSUME NEW i \in 1 .. n, NEW j \in 1 .. n, i < j, Holds(stack'[i]), Holds(stack'[j])
        PROVE  rank[stack'[j].node] < rank[stack'[i].node]
    <3>1. i \in 1 .. n - 1 /\ (j \in 1 .. n - 1 \/ j = n)
      BY <1>3, <2>1
    <3> QED  BY <1>3, <1>5, <1>7, <1>8, <2>1, <3>1
  <2> QED  BY <1>3, <1>8, <2>1 DEF Falls, Holds
<1>9. CASE Invoke(f, g) /\ Carries(s, G, rank, f) /\ Spawns(s, G, rank, f, g)
  <2>1. ASSUME NEW i \in 1 .. n + 1, NEW j \in 1 .. n + 1, i < j, Holds(stack'[i]), Holds(stack'[j])
        PROVE  rank[stack'[j].node] < rank[stack'[i].node]
    <3>1. CASE j # n + 1
      <4>0. n \in Nat
        BY <1>3
      <4>1. i \in 1 .. n - 1 /\ (j \in 1 .. n - 1 \/ j = n)
        BY <2>1, <3>1, <4>0
      <4> QED  BY <1>3, <1>5, <1>7, <1>9, <2>1, <4>1
    <3>2. CASE j = n + 1 /\ i = n
      BY <1>3, <1>9, <2>1, <3>2 DEF Spawns
    <3>3. CASE j = n + 1 /\ i # n
      <4>1. i \in 1 .. n - 1 /\ n # 1
        BY <1>3, <2>1, <3>3
      <4>2. Holds(f) /\ rank[g.node] < rank[f.node] /\ rank[g.node] \in Nat
        BY <1>0, <1>1, <1>3, <1>9, <2>1, <3>3, <4>1 DEF Spawns
      <4>3. rank[f.node] \in Nat /\ rank[f.node] < rank[stack[i].node] /\ rank[stack[i].node] \in Nat
        <5>1. i \in 1 .. n /\ Holds(stack[i])
          BY <1>3, <2>1, <4>1
        <5> QED  BY <1>4, <1>7, <1>9, <4>1, <4>2, <5>1
      <4> QED  BY <1>3, <1>9, <3>3, <4>1, <4>2, <4>3
    <3> QED  BY <3>1, <3>2, <3>3
  <2> QED  BY <1>3, <1>9, <2>1 DEF Falls, Holds
<1> QED  BY <1>6, <1>8, <1>9

LEMMA ChainAfter ==
    ASSUME NEW s, NEW F, NEW G, NEW rank, Amid(s, F, G, rank), NEW v, NEW f, NEW g,
           \/ Return(v)
           \/ Become(f) /\ Carries(s, G, rank, f)
           \/ Invoke(f, g) /\ Carries(s, G, rank, f) /\ Spawns(s, G, rank, f, g)
    PROVE  Chain(s, G, rank)'
<1>0. PICK n : n = Len(stack)
  OBVIOUS
<1>1. Whole /\ stack # <<>> /\ Waiting
  BY Innermost DEF Amid, Sound, Chain
<1>2. Return(v) \/ Become(f) \/ Invoke(f, g)
  OBVIOUS
<1>3. /\ n \in Nat \ {0} /\ stack[n] = Top /\ DOMAIN stack = 1 .. n /\ Outer = 1 .. n - 1
      /\ \A i \in 1 .. n - 1 : i \in DOMAIN stack' /\ stack'[i] = stack[i]
      /\ Return(v) => DOMAIN stack' = 1 .. n - 1
      /\ Become(f) => DOMAIN stack' = 1 .. n /\ stack'[n] = f /\ ret' = NoRet
      /\ Invoke(f, g) => /\ DOMAIN stack' = 1 .. n + 1 /\ stack'[n] = f /\ stack'[n + 1] = g
                         /\ ret' = NoRet
  <2>1. /\ n \in Nat \ {0} /\ stack[n] = Top /\ DOMAIN stack = 1 .. n
        /\ \A i \in 1 .. n - 1 : i \in DOMAIN stack' /\ stack'[i] = stack[i]
        /\ Return(v) => DOMAIN stack' = 1 .. n - 1
        /\ Become(f) => DOMAIN stack' = 1 .. n /\ stack'[n] = f
        /\ Invoke(f, g) => DOMAIN stack' = 1 .. n + 1 /\ stack'[n] = f /\ stack'[n + 1] = g
    BY <1>0, <1>1, <1>2, StackShape
  <2>2. Outer = 1 .. n - 1 /\ (Become(f) \/ Invoke(f, g) => ret' = NoRet)
    BY <1>0 DEF Outer, Become, Invoke
  <2> QED  BY <2>1, <2>2
<1>4. Falls(rank)'
  BY FallsAfter
<1>5. \A i \in 1 .. n - 1 : stack[i].at = "wait"
  BY <1>0, <1>1, <1>3 DEF Waiting
<1>6. \A i \in 1 .. n - 1 : stack'[i] = stack[i] => Advanced(s, G, stack[i])'
  BY <1>3, AdvancedKept
<1>7. DOMAIN stack' = 1 .. Len(stack') /\ Len(stack') \in Nat
  BY DEF Amid, Whole, Control
<1>8. \A i \in DOMAIN stack' : stack'[i] = f /\ Advanced(s, G, f)' => Advanced(s, G, stack[i])'
  BY DEF Advanced, Traverses
<1>9. \A i \in DOMAIN stack' : stack'[i] = g /\ Advanced(s, G, g)' => Advanced(s, G, stack[i])'
  BY DEF Advanced, Traverses
<1>10. ASSUME NEW i \in 1 .. n - 1, NEW h, \A k : Serving(k, stack[i + 1]) => Serving(k, h),
              i + 1 \in DOMAIN stack', stack'[i + 1] = h
       PROVE  Attends(stack[i], stack[i + 1])'
  <2>1. PICK e : e = stack[i]
    OBVIOUS
  <2>2. stack'[i] = e /\ i \in Outer
    BY <1>3, <2>1
  <2>3. Attends(e, h)'
    BY <1>10, <2>1, <2>2, OuterAttends
  <2> QED  BY <1>10, <2>2, <2>3 DEF Attends, Traverses, Serving
<1>11. CASE Return(v)
  <2>1. Waiting'
    BY <1>3, <1>5, <1>11 DEF Waiting
  <2>2. \A i \in DOMAIN stack' : Advanced(s, G, stack[i])'
    BY <1>3, <1>6, <1>11
  <2>3. ASSUME NEW i \in DOMAIN stack', i + 1 \in DOMAIN stack'
        PROVE  Attends(stack[i], stack[i + 1])'
    <3>1. i \in 1 .. n - 1 /\ i + 1 \in 1 .. n - 1
      BY <1>3, <1>11, <2>3
    <3> QED  BY <1>3, <1>10, <2>3, <3>1
  <2> QED  BY <1>4, <2>1, <2>2, <2>3 DEF Chain
<1>12. CASE Become(f) /\ Carries(s, G, rank, f)
  <2>1. Waiting'
    <3>1. \A i \in DOMAIN stack' : i < Len(stack') => i + 1 \in DOMAIN stack'
      BY <1>7
    <3>2. \A i \in 1 .. n : i + 1 \in 1 .. n => i \in 1 .. n - 1
      BY <1>3
    <3> QED  BY <1>3, <1>5, <1>12, <3>1, <3>2 DEF Waiting
  <2>2. \A i \in DOMAIN stack' : Advanced(s, G, stack[i])'
    <3>1. \A i \in DOMAIN stack' : i \in 1 .. n - 1 \/ i = n
      BY <1>3, <1>12
    <3> QED  BY <1>3, <1>6, <1>8, <1>12, <3>1 DEF Carries
  <2>3. ASSUME NEW i \in DOMAIN stack', i + 1 \in DOMAIN stack'
        PROVE  Attends(stack[i], stack[i + 1])'
    <3>1. i \in 1 .. n - 1 /\ (i + 1 \in 1 .. n - 1 \/ i + 1 = n)
      BY <1>3, <1>12, <2>3
    <3> QED  BY <1>3, <1>10, <1>12, <2>3, <3>1 DEF Carries
  <2> QED  BY <1>4, <2>1, <2>2, <2>3 DEF Chain
<1>13. CASE Invoke(f, g) /\ Carries(s, G, rank, f) /\ Spawns(s, G, rank, f, g)
  <2>1. Waiting'
    <3>1. \A i \in DOMAIN stack' : i < Len(stack') => i + 1 \in DOMAIN stack'
      BY <1>7
    <3>2. \A i \in 1 .. n + 1 : i + 1 \in 1 .. n + 1 => i \in 1 .. n - 1 \/ i = n
      BY <1>3
    <3> QED  BY <1>3, <1>5, <1>13, <3>1, <3>2 DEF Waiting, Spawns
  <2>2. \A i \in DOMAIN stack' : Advanced(s, G, stack[i])'
    <3>1. \A i \in DOMAIN stack' : i \in 1 .. n - 1 \/ i = n \/ i = n + 1
      BY <1>3, <1>13
    <3> QED  BY <1>3, <1>6, <1>8, <1>9, <1>13, <3>1 DEF Carries, Spawns
  <2>3. ASSUME NEW i \in DOMAIN stack', i + 1 \in DOMAIN stack'
        PROVE  Attends(stack[i], stack[i + 1])'
    <3>1. CASE i = n
      <4>1. stack'[i] = f /\ stack'[i + 1] = g /\ Attends(f, g)'
        BY <1>3, <1>13, <3>1 DEF Spawns
      <4> QED  BY <4>1 DEF Attends, Traverses, Serving
    <3>2. CASE i # n
      <4>1. i \in 1 .. n - 1 /\ (i + 1 \in 1 .. n - 1 \/ i + 1 = n)
        BY <1>3, <1>13, <2>3, <3>2
      <4> QED  BY <1>3, <1>10, <1>13, <2>3, <4>1 DEF Carries
    <3> QED  BY <3>1, <3>2
  <2> QED  BY <1>4, <2>1, <2>2, <2>3 DEF Chain
<1> QED  BY <1>11, <1>12, <1>13

----------------------------------------------------------------------------
(* The calls after a step *)

\* A loop begins with nothing done.
LEMMA Begun ==
    ASSUME NEW s, NEW G, NEW a, heap'[a].kids = Written(a)', NEW A, heap'[a].kids \in Seq(A)
    PROVE  Reworked(s, G, a, 1)'
<1>1. PICK cut : cut = [i \in {0} |-> 0]
  OBVIOUS
<1>2. Len(Written(a)') \in Nat /\ Len(heap'[a].kids) = Len(Written(a)')
  BY LenProperties
<1>3. /\ cut \in [0 .. 0 -> 0 .. Len(heap'[a].kids)] /\ cut[0] = 0
  BY <1>1, <1>2
<1>4. Cut(s, G, a, 0, cut)'
  BY <1>3 DEF Cut
<1>5. Raws(a, 0, 1)'
  <2>1. \A i \in 1 .. Len(Written(a)') : i - 0 + 1 - 1 = i
    OBVIOUS
  <2>2. Len(heap'[a].kids) = Len(Written(a)') - 0 + 1 - 1
    BY <1>2
  <2> QED  BY <2>1, <2>2 DEF Raws
<1>6. \A i \in 1 .. 1 - 1 : FALSE
  OBVIOUS
<1>7. 0 \in 0 .. Len(Written(a)')
  BY <1>2
<1> QED  BY <1>3, <1>4, <1>5, <1>6, <1>7 DEF Reworked

\* The values of an object after a step are objects of the store, or scalars.
LEMMA KidsAfter ==
    ASSUME NEW s, NEW F, NEW G, NEW rank, Amid(s, F, G, rank), NEW a \in DOMAIN heap
    PROVE  heap'[a].kids \in Seq(Addrs')
<1>1. a \in DOMAIN heap'
  BY OutcomesGrow, Innermost DEF Amid, Around
<1>2. heap' \in [DOMAIN heap' -> Node(Addrs')]
  BY DEF Amid, Whole, Store
<1> QED  BY <1>1, <1>2 DEF Node

\* A call that follows a directive.
LEMMA Directed ==
    ASSUME NEW s, NEW F, NEW G, NEW rank, Amid(s, F, G, rank), Top.fn = "resolve_ref", Holds(Top)
    PROVE  /\ Top.node \in DOMAIN heap /\ Top.mode = web.heap[Top.node].kind
           /\ web.heap[Top.node].kind \in {"import", "include"}
           /\ Top.url = ExpandRef(web.heap[Top.node].ref, RootUrl(web.heap[Top.node].home))
<1>1. PICK a : a = Top.node
  OBVIOUS
<1>2. a \in DOMAIN heap
  BY <1>1, Innermost, CallParts DEF Holds, Addrs
<1>3. /\ heap[a].kind = web.heap[a].kind /\ heap[a].home = web.heap[a].home
      /\ heap[a].ref = web.heap[a].ref /\ heap[a].kind \in Kinds
  BY <1>2, Innermost DEF Amid, Around, Fixed, Whole, Store, Node
<1>4. Top.mode = heap[a].kind /\ Top.url = ExpandRef(heap[a].ref, RootUrl(heap[a].home))
  BY <1>1, Innermost DEF Aimed
<1>5. heap[a].kind # "string" /\ heap[a].kind # "mixin"
  BY <1>2, <1>3, Innermost, Shape DEF Kinds
<1>6. heap[a].kind \in Directives
  BY <1>1, <1>4, <1>5, Innermost, CallParts DEF IsKind
<1> QED  BY <1>1, <1>2, <1>3, <1>4, <1>5, <1>6 DEF Directives

LEMMA ReturnChain ==
    ASSUME NEW s, NEW F, NEW G, NEW rank, Amid(s, F, G, rank), NEW v, Return(v)
    PROVE  Chain(s, G, rank)'
  BY ChainAfter

LEMMA FollowChain ==
    ASSUME NEW s, NEW F, NEW G, NEW rank, Amid(s, F, G, rank), FollowDirective
    PROVE  Chain(s, G, rank)'
<1>1. PICK f : /\ Become(f) /\ f.fn = "resolve_ref" /\ f.node = Top.node
               /\ Top.fn = "resolve_all" /\ Top.at = "enter" /\ Top.node \in DOMAIN heap
  BY FollowMove
<1>2. Advanced(s, G, f)'
  BY <1>1 DEF Advanced, Traverses
<1>3. Text \notin DOMAIN heap
  BY Innermost, Shape
<1>4. \A k : Serving(k, Top) => Serving(k, f)
  BY <1>1, <1>3 DEF Serving
<1>5. rank[f.node] <= rank[Top.node] /\ Holds(Top)
  <2>1. rank[Top.node] \in Nat
    BY <1>1, Innermost DEF Amid, Acyclic
  <2> QED  BY <1>1, <1>3, <2>1 DEF Holds
<1>6. Carries(s, G, rank, f)
  BY <1>1, <1>2, <1>4, <1>5 DEF Carries
<1> QED  BY <1>1, <1>6, ChainAfter

LEMMA OpenChain ==
    ASSUME NEW s, NEW F, NEW G, NEW rank, Amid(s, F, G, rank), OpenSeq \/ OpenMap
    PROVE  Chain(s, G, rank)'
<1>1. PICK f : /\ Become(f) /\ \A a \in DOMAIN heap : heap'[a].kids = heap[a].kids
               /\ f.fn = "resolve_all" /\ f.at = "iterate" /\ f.node = Top.node /\ f.pos = 1
               /\ Top.fn = "resolve_all" /\ Top.at = "enter" /\ Top.node \in DOMAIN heap
               /\ heap[Top.node].kind \in {"map", "seq"}
  BY OpenMove
<1>2. Text \notin DOMAIN heap /\ web' = web
  BY Innermost, Shape DEF Amid, Around
<1>3. heap[Top.node].kids = Written(Top.node)
  BY <1>1, <1>2, Innermost DEF Advanced, Traverses
<1>4. Reworked(s, G, f.node, f.pos)'
  <2>1. PICK a : a = Top.node
    OBVIOUS
  <2>2. heap'[a].kids = Written(a)' /\ heap'[a].kids \in Seq(Addrs')
    BY <1>1, <1>2, <1>3, <2>1, KidsAfter DEF Written
  <2>3. Reworked(s, G, a, 1)'
    BY <2>2, Begun
  <2> QED  BY <1>1, <2>1, <2>3
<1>5. Advanced(s, G, f)'
  BY <1>1, <1>4 DEF Advanced
<1>6. \A k : Serving(k, Top) => Serving(k, f)
  BY <1>1 DEF Serving
<1>7. rank[f.node] <= rank[Top.node] /\ Holds(Top)
  <2>1. rank[Top.node] \in Nat
    BY <1>1, Innermost DEF Amid, Acyclic
  <2> QED  BY <1>1, <1>2, <2>1 DEF Holds
<1>8. Carries(s, G, rank, f)
  BY <1>1, <1>5, <1>6, <1>7 DEF Carries
<1> QED  BY <1>1, <1>8, ChainAfter

LEMMA GraphChain ==
    ASSUME NEW s, NEW F, NEW G, NEW rank, Amid(s, F, G, rank), OpenGraph
    PROVE  Chain(s, G, rank)'
<1>1. PICK f : /\ Become(f) /\ Unmoved
               /\ f.fn = "resolve_all" /\ f.at = "iterate" /\ f.node = Written(Top.node)[1] /\ f.pos = 1
               /\ Top.fn = "resolve_all" /\ Top.at = "enter" /\ Top.node \in DOMAIN heap
               /\ heap[Top.node].kind = "graph"
               /\ f.node \in Offspring(Top.node) /\ f.node \in DOMAIN heap
               /\ heap[f.node].kids = Written(f.node)
  BY GraphMove
<1>2. Text \notin DOMAIN heap /\ web' = web
  BY Innermost, Shape DEF Amid, Around
<1>4. Reworked(s, G, f.node, f.pos)'
  <2>1. PICK a : a = f.node
    OBVIOUS
  <2>2. heap'[a].kids = Written(a)' /\ heap'[a].kids \in Seq(Addrs')
    BY <1>1, <1>2, <2>1, KidsAfter DEF Written, Unmoved
  <2>3. Reworked(s, G, a, 1)'
    BY <2>2, Begun
  <2> QED  BY <1>1, <2>1, <2>3
<1>5. Advanced(s, G, f)'
  BY <1>1, <1>4 DEF Advanced
<1>6. \A k : Serving(k, Top) => Serving(k, f)
  <2>1. web.heap[Top.node].kind = "graph"
    BY <1>1, Innermost
  <2> QED  BY <1>1, <1>2, <2>1 DEF Serving
<1>7. rank[f.node] <= rank[Top.node] /\ Holds(Top)
  <2>1. rank[Top.node] \in Nat /\ rank[f.node] \in Nat /\ rank[f.node] < rank[Top.node]
    BY <1>1, Innermost DEF Amid, Acyclic, Offspring
  <2> QED  BY <1>1, <1>2, <2>1 DEF Holds
<1>8. Carries(s, G, rank, f)
  BY <1>1, <1>5, <1>6, <1>7 DEF Carries
<1> QED  BY <1>1, <1>8, ChainAfter

LEMMA DescendChain ==
    ASSUME NEW s, NEW F, NEW G, NEW rank, Amid(s, F, G, rank), Descend
    PROVE  Chain(s, G, rank)'
<1>1. PICK kid, f, g :
          /\ kid = heap[Top.node].kids[Top.pos]
          /\ Invoke(f, g) /\ heap' = heap
          /\ f.fn = "resolve_all" /\ f.at = "wait" /\ f.node = Top.node /\ f.pos = Top.pos
          /\ Top.fn = "resolve_all" /\ Top.at = "iterate" /\ Top.node \in DOMAIN heap
          /\ heap[Top.node].kind \in {"map", "seq"}
          /\ Top.pos \in DOMAIN heap[Top.node].kids
          /\ g.node = kid /\ g.at = "enter"
          /\ g.fn = "resolve_all" \/ (g.fn = "resolve_ref" /\ kid # Text)
          /\ kid # Text => kid \in F /\ kid \in DOMAIN heap /\ kid \in Offspring(Top.node)
  BY DescendMove
<1>2. Text \notin DOMAIN heap /\ web' = web
  BY Innermost, Shape DEF Amid, Around
<1>3. Reworked(s, G, f.node, f.pos)'
  <2>1. PICK a, pos : a = Top.node /\ pos = Top.pos
    OBVIOUS
  <2>2. Reworked(s, F, a, pos)
    BY <1>1, <1>2, <2>1, Innermost DEF Advanced, Traverses
  <2>3. Reworked(s, G, a, pos)'
    BY <1>1, <2>2, ReworkedKept
  <2> QED  BY <1>1, <2>1, <2>3
<1>4. Advanced(s, G, f)'
  BY <1>1, <1>3 DEF Advanced
<1>5. \A k : Serving(k, Top) => Serving(k, f)
  BY <1>1 DEF Serving
<1>6. rank[f.node] <= rank[Top.node] /\ Holds(Top)
  <2>1. rank[Top.node] \in Nat
    BY <1>1, Innermost DEF Amid, Acyclic
  <2> QED  BY <1>1, <1>2, <2>1 DEF Holds
<1>7. Carries(s, G, rank, f)
  BY <1>1, <1>4, <1>5, <1>6 DEF Carries
<1>8. Advanced(s, G, g)'
  <2>1. Traverses(g) => heap'[g.node].kids = Written(g.node)'
    BY <1>1, <1>2 DEF Traverses, Amid, Fields, Raw, Written
  <2> QED  BY <1>1, <2>1 DEF Advanced, Traverses
<1>9. Attends(f, g)'
  <2>1. Serving(kid, g)'
    BY <1>1 DEF Serving
  <2> QED  BY <1>1, <2>1 DEF Attends
<1>10. Holds(g) => g.node \in DOMAIN heap /\ rank[g.node] < rank[f.node] /\ Holds(f)
  BY <1>1, <1>2, Innermost DEF Holds, Amid, Acyclic, Offspring
<1>11. Spawns(s, G, rank, f, g)
  BY <1>1, <1>8, <1>9, <1>10 DEF Spawns
<1> QED  BY <1>1, <1>7, <1>11, ChainAfter

LEMMA LoadChain ==
    ASSUME NEW s, NEW F, NEW G, NEW rank, Amid(s, F, G, rank), Load
    PROVE  Chain(s, G, rank)'
<1>1. PICK root, f, g :
          /\ root = web.root[Top.url.doc]
          /\ Invoke(f, g) /\ Unmoved
          /\ f.fn = "resolve_ref" /\ f.at = "wait" /\ f.node = Top.node
          /\ Top.fn = "resolve_ref" /\ Top.url.doc \in Docs
          /\ Top.mode # "include"
          /\ g.node = root /\ g.at = "enter" /\ g.fn = "resolve_all"
          /\ root # Text => root \in F /\ root \in DOMAIN heap
  BY LoadMove
<1>2. Text \notin DOMAIN heap /\ web' = web
  BY Innermost, Shape DEF Amid, Around
<1>3. Advanced(s, G, f)' /\ Attends(f, g)'
  BY <1>1 DEF Advanced, Attends, Traverses
<1>4. \A k : Serving(k, Top) => Serving(k, f)
  BY <1>1 DEF Serving
<1>5. Holds(f) => Holds(Top) /\ f.node \in DOMAIN heap /\ rank[f.node] <= rank[Top.node]
  <2>1. Holds(Top) => Top.node \in DOMAIN heap
    BY Innermost, CallParts DEF Holds, Addrs
  <2>2. Holds(Top) => rank[Top.node] \in Nat
    BY <2>1, Innermost DEF Amid, Acyclic
  <2> QED  BY <1>1, <2>1, <2>2 DEF Holds
<1>6. Carries(s, G, rank, f)
  BY <1>3, <1>4, <1>5 DEF Carries
<1>7. Advanced(s, G, g)'
  <2>1. Traverses(g) => heap'[g.node].kids = Written(g.node)'
    BY <1>1, <1>2 DEF Traverses, Amid, Fields, Raw, Written, Unmoved
  <2> QED  BY <1>1, <2>1 DEF Advanced, Traverses
<1>8. ASSUME Holds(f), Holds(g)
      PROVE  rank[g.node] < rank[f.node]
  <2>1. PICK a : a = Top.node
    OBVIOUS
  <2>2. /\ a \in DOMAIN web.heap /\ web.heap[a].kind = "import"
        /\ Top.url = ExpandRef(web.heap[a].ref, RootUrl(web.heap[a].home))
    BY <1>1, <1>8, <2>1, Directed, Innermost DEF Holds
  <2>3. root \in DOMAIN web.heap
    BY <1>1, <1>8, Innermost DEF Holds
  <2>4. rank[root] < rank[a]
    BY <1>1, <2>2, <2>3 DEF Amid, Acyclic
  <2> QED  BY <1>1, <2>1, <2>4
<1>9. Holds(f) \/ Len(stack) = 1
  <2>1. PICK n : n = Len(stack)
    OBVIOUS
  <2>2. n \in Nat \ {0} /\ (~Holds(Top) => ~(n > 1))
    BY <1>1, <2>1, Innermost DEF Amid, Loaded
  <2>3. n = 1 \/ n > 1
    BY <2>2
  <2>4. f.node = Top.node
    BY <1>1
  <2> QED  BY <2>1, <2>2, <2>3, <2>4 DEF Holds
<1>10. Spawns(s, G, rank, f, g)
  BY <1>1, <1>3, <1>7, <1>8, <1>9 DEF Spawns, Holds
<1> QED  BY <1>1, <1>6, <1>10, ChainAfter

----------------------------------------------------------------------------
(* What is done *)

\* What a step takes out of F and can be traversed is being traversed.
LEMMA TakenVisited ==
    ASSUME NEW s, NEW F, NEW G, NEW rank, Amid(s, F, G, rank),
           NEW a \in F \ G, web.heap[a].kind \in {"map", "seq"}
    PROVE  Visited(a)'
<1>1. F \subseteq DOMAIN heap /\ Text \notin DOMAIN heap /\ heap[a].kind = web.heap[a].kind
  BY Innermost, Shape DEF Amid, Around, Fresh, Untouched
<1>2. PICK n : n = Len(stack)
  OBVIOUS
<1>3. Whole /\ stack # <<>> /\ n \in Nat
  BY <1>2, Innermost
<1>4. ASSUME NEW f, NEW g, Invoke(f, g), g.node = a, g.fn = "resolve_all"
      PROVE  Visited(a)'
  <2>1. DOMAIN stack' = 1 .. n + 1 /\ stack'[n + 1] = g
    BY <1>2, <1>3, <1>4, StackShape
  <2>2. n + 1 \in DOMAIN stack'
    BY <1>3, <2>1
  <2> QED  BY <1>1, <1>4, <2>1, <2>2 DEF Visited, Traverses
<1>5. CASE Load
  <2>1. PICK f, g : Invoke(f, g) /\ G = F \ {g.node} /\ g.fn = "resolve_all"
    BY <1>5, LoadMove
  <2> QED  BY <1>4, <2>1
<1>6. CASE Descend
  <2>1. PICK f, g : /\ Invoke(f, g) /\ G = F \ {g.node}
                    /\ g.fn = "resolve_all" \/ heap[g.node].kind \in {"import", "mixin"}
    BY <1>6, DescendMove
  <2>2. g.node = a
    BY <2>1
  <2> QED  BY <1>1, <1>4, <2>1, <2>2
<1>7. CASE OpenGraph
  <2>1. PICK f : Become(f) /\ f.fn = "resolve_all" /\ G = F \ {f.node}
    BY <1>7, GraphMove
  <2>2. DOMAIN stack' = 1 .. n /\ stack'[n] = f /\ n \in 1 .. n
    <3>1. n \in Nat \ {0} /\ DOMAIN stack' = 1 .. n /\ stack'[n] = f
      BY <1>2, <1>3, <2>1, StackShape
    <3> QED  BY <3>1
  <2> QED  BY <1>1, <2>1, <2>2 DEF Visited, Traverses
<1> QED  BY <1>5, <1>6, <1>7 DEF Amid, Takes

\* Behind the last value all is done.
LEMMA AtEnd ==
    ASSUME NEW s, NEW F, NEW a, NEW pos \in Nat, Reworked(s, F, a, pos), pos \notin DOMAIN heap[a].kids,
           NEW A, heap[a].kids \in Seq(A)
    PROVE  Len(heap[a].kids) \in Nat /\ pos = Len(heap[a].kids) + 1
<1>1. PICK n, cut : n \in 0 .. Len(Written(a)) /\
          Cut(s, F, a, n, cut) /\ cut[n] = pos - 1 /\ Raws(a, n, pos)
  BY DEF Reworked
<1>2. PICK l, w : l = Len(heap[a].kids) /\ w = Len(Written(a))
  OBVIOUS
<1>3. l \in Nat /\ DOMAIN heap[a].kids = 1 .. l
  BY <1>2, LenProperties
<1>4. l = w - n + pos - 1 /\ cut[n] \in 0 .. l
  BY <1>1, <1>2 DEF Raws, Cut
<1>5. w \in Int
  BY <1>1, <1>2, <1>3, <1>4
<1> QED  BY <1>1, <1>2, <1>3, <1>4, <1>5

LEMMA FinishedAfter ==
    ASSUME NEW s, NEW F, NEW G, NEW rank, Amid(s, F, G, rank)
    PROVE  Finished(s, G)'
<1>1. DOMAIN heap' = DOMAIN heap /\ web' = web
  BY OutcomesGrow, Innermost DEF Amid, Around
<1>2. SUFFICES ASSUME NEW a \in DOMAIN heap, web.heap[a].kind \in {"map", "seq"}, a \notin G, ~Visited(a)'
               PROVE  Reworked(s, G, a, Len(heap[a].kids) + 1)'
  BY <1>1 DEF Finished
<1>3. a \notin F
  BY <1>2, TakenVisited
<1>4. CASE ~Visited(a)
  <2>1. PICK pos : pos = Len(heap[a].kids) + 1
    OBVIOUS
  <2>2. heap'[a].kids = heap[a].kids
    BY <1>4, Unvisited
  <2>3. Reworked(s, F, a, pos)
    BY <1>2, <1>3, <1>4, <2>1 DEF Amid, Sound, Finished
  <2>4. Reworked(s, G, a, pos)'
    BY <2>2, <2>3, ReworkedKept
  <2> QED  BY <2>1, <2>2, <2>4
<1>5. CASE Visited(a)
  <2>1. Finish /\ Traverses(Top) /\ a = Top.node
    BY <1>2, <1>5, VisitedAfter
  <2>2. PICK pos : pos = Top.pos
    OBVIOUS
  <2>3. heap' = heap /\ ~More(Top) /\ Top.at = "iterate"
    BY <2>1 DEF Finish, objects, Running
  <2>4. Reworked(s, F, a, pos)
    BY <1>2, <2>1, <2>2, <2>3, Innermost DEF Advanced
  <2>5. pos \in Nat /\ pos \notin DOMAIN heap[a].kids /\ heap[a].kids \in Seq(Addrs)
    <3>1. pos \in Nat
      BY <2>2, Innermost, CallParts
    <3>2. heap[a].kids \in Seq(Addrs)
      BY Innermost DEF Whole, Store, Node
    <3> QED  BY <2>1, <2>2, <2>3, <3>1, <3>2 DEF More, Kids
  <2>6. pos = Len(heap[a].kids) + 1
    BY <2>4, <2>5, AtEnd
  <2>7. Reworked(s, G, a, pos)'
    BY <2>3, <2>4, ReworkedKept
  <2> QED  BY <2>3, <2>6, <2>7
<1> QED  BY <1>4, <1>5

----------------------------------------------------------------------------
(* The loops *)

\* What stands in the place in hand is the next value of the text.
LEMMA NextRaw ==
    ASSUME NEW a, NEW n \in Nat, NEW pos \in Nat, Raws(a, n, pos), n <= Len(Written(a)),
           NEW A, heap[a].kids \in Seq(A), Written(a) \in Seq(A), pos \in DOMAIN heap[a].kids
    PROVE  /\ Len(Written(a)) \in Nat /\ n + 1 \in 1 .. Len(Written(a))
           /\ heap[a].kids[pos] = Written(a)[n + 1]
<1>1. PICK l, w : l = Len(heap[a].kids) /\ w = Len(Written(a))
  OBVIOUS
<1>2. l \in Nat /\ pos \in 1 .. l /\ w \in Nat
  BY <1>1, LenProperties
<1>3. l = w - n + pos - 1
  BY <1>1 DEF Raws
<1>4. n + 1 \in 1 .. w /\ n + 1 \in n + 1 .. w /\ n + 1 - n + pos - 1 = pos
  BY <1>2, <1>3
<1> QED  BY <1>1, <1>2, <1>4 DEF Raws

\* The texts, and the store.
LEMMA Lists ==
    ASSUME NEW s, NEW F, NEW G, NEW rank, Amid(s, F, G, rank), NEW a \in DOMAIN heap
    PROVE  /\ heap[a].kids \in Seq(Addrs) /\ Written(a) \in Seq(Addrs)
           /\ DOMAIN heap[a].kids = 1 .. Len(heap[a].kids) /\ Len(heap[a].kids) \in Nat
           /\ DOMAIN Written(a) = 1 .. Len(Written(a)) /\ Len(Written(a)) \in Nat
<1>1. heap[a].kids \in Seq(Addrs)
  BY Innermost DEF Whole, Store, Node
<1>2. Written(a) \in Seq(Addrs)
  <2>1. web.heap \in Seq(Node(0 .. Len(web.heap))) /\ a \in DOMAIN web.heap
    BY Innermost DEF Whole, Store, WebOK
  <2>2. 0 .. Len(web.heap) = Addrs
    BY <2>1, Innermost, LenProperties DEF Addrs, Text
  <2>3. web.heap[a] \in Node(Addrs)
    BY <2>1, <2>2
  <2> QED  BY <2>3 DEF Written, Node
<1> QED  BY <1>1, <1>2, LenProperties

\* The next value that is written, k, is v, and gets the places of part.
Extends(s, F, G, a, pos, k, v, part) ==
    /\ a \in DOMAIN heap /\ pos \in Nat /\ Reworked(s, F, a, pos) /\ pos \in DOMAIN heap[a].kids
    /\ k = heap[a].kids[pos] /\ Portion(s, G, a, k, v)' /\ part = Share(a, k, v)'
    /\ part \in Seq(Addrs) /\ \A i \in DOMAIN part : part[i] \in Outcomes(G)'
    /\ Len(heap'[a].kids) = Len(heap[a].kids) - 1 + Len(part)
    /\ \A i \in 1 .. pos - 1 : heap'[a].kids[i] = heap[a].kids[i]
    /\ \A i \in DOMAIN part : heap'[a].kids[pos - 1 + i] = part[i]
    /\ \A i \in pos + 1 .. Len(heap[a].kids) :
            heap'[a].kids[i - 1 + Len(part)] = heap[a].kids[i]

LEMMA Extended ==
    ASSUME NEW s, NEW F, NEW G, NEW rank, Amid(s, F, G, rank),
           NEW a, NEW pos, NEW k, NEW v, NEW part, Extends(s, F, G, a, pos, k, v, part)
    PROVE  Reworked(s, G, a, pos + Len(part))'
<1>a. /\ a \in DOMAIN heap /\ pos \in Nat /\ Reworked(s, F, a, pos) /\ pos \in DOMAIN heap[a].kids
      /\ k = heap[a].kids[pos] /\ Portion(s, G, a, k, v)' /\ part = Share(a, k, v)'
      /\ part \in Seq(Addrs) /\ \A i \in DOMAIN part : part[i] \in Outcomes(G)'
      /\ Len(heap'[a].kids) = Len(heap[a].kids) - 1 + Len(part)
      /\ \A i \in 1 .. pos - 1 : heap'[a].kids[i] = heap[a].kids[i]
      /\ \A i \in DOMAIN part : heap'[a].kids[pos - 1 + i] = part[i]
      /\ \A i \in pos + 1 .. Len(heap[a].kids) :
            heap'[a].kids[i - 1 + Len(part)] = heap[a].kids[i]
  BY DEF Extends
<1> USE <1>a
<1>0. PICK raw, old, new, l, w, p :
          /\ raw = Written(a) /\ old = heap[a].kids /\ new = heap'[a].kids
          /\ l = Len(old) /\ w = Len(raw) /\ p = Len(part)
  OBVIOUS
<1>1. /\ web' = web /\ Written(a)' = raw /\ \A u \in Outcomes(F) : u \in Outcomes(G)'
      /\ old \in Seq(Addrs) /\ raw \in Seq(Addrs) /\ l \in Nat /\ w \in Nat /\ p \in Nat
      /\ DOMAIN part = 1 .. p
      /\ pos \in 1 .. l
  BY <1>0, Lists, OutcomesGrow, SameMeaning, LenProperties DEF Amid, Around
<1>2. PICK n, cut : n \in 0 .. w /\ Cut(s, F, a, n, cut) /\ cut[n] = pos - 1 /\ Raws(a, n, pos)
  BY <1>0 DEF Reworked
<1>3. n + 1 \in 1 .. w /\ k = raw[n + 1] /\ n \in Nat
  <2>1. n \in Nat /\ n <= w
    BY <1>1, <1>2
  <2>2. /\ heap[a].kids \in Seq(Addrs) /\ Written(a) \in Seq(Addrs) /\ Raws(a, n, pos)
        /\ pos \in DOMAIN heap[a].kids /\ n <= Len(Written(a)) /\ pos \in Nat
    BY <1>0, <1>1, <1>2, <2>1
  <2>3. k = heap[a].kids[pos] /\ raw = Written(a) /\ w = Len(Written(a))
    BY <1>0
  <2> HIDE <1>a
  <2> QED  BY <2>1, <2>2, <2>3, NextRaw
<1>4. PICK cut2 : cut2 = [i \in 0 .. n + 1 |-> IF i = n + 1 THEN pos - 1 + p ELSE cut[i]]
  OBVIOUS
<1>5. /\ cut \in [0 .. n -> 0 .. l] /\ cut[0] = 0 /\ \A i \in 0 .. n : cut[i] <= pos - 1
      /\ \A i \in 1 .. n : \E u : /\ Portion(s, F, a, raw[i], u)
                                  /\ Placed(a, raw[i], u, cut[i - 1], cut[i])
  BY <1>0, <1>2 DEF Cut
<1>6. /\ DOMAIN cut2 = 0 .. n + 1 /\ cut2[n + 1] = pos - 1 + p
      /\ \A i \in 0 .. n : cut2[i] = cut[i] /\ cut2[i] \in 0 .. pos - 1
  BY <1>1, <1>3, <1>4, <1>5
<1>7. Len(new) = l - 1 + p /\ pos - 1 + p \in 0 .. l - 1 + p
  <2>1. pos - 1 + p \in 0 .. l - 1 + p
    BY <1>1
  <2>2. Len(new) = l - 1 + p
    BY <1>0
  <2> QED  BY <2>1, <2>2
<1>8. /\ cut2 \in [0 .. n + 1 -> 0 .. Len(new)] /\ cut2[0] = 0
      /\ \A i \in 0 .. n + 1 : cut2[i] <= cut2[n + 1]
  <2>1. \A i \in 0 .. n + 1 : i = n + 1 \/ i \in 0 .. n
    BY <1>3
  <2>2. \A i \in 0 .. n + 1 : cut2[i] \in 0 .. Len(new) /\ cut2[i] <= pos - 1 + p
    BY <1>1, <1>6, <1>7, <2>1
  <2>3. 0 \in 0 .. n
    BY <1>3
  <2> QED  BY <1>4, <1>5, <1>6, <2>2, <2>3
<1>9. ASSUME NEW i \in 1 .. n + 1
      PROVE  \E u : Portion(s, G, a, raw[i], u)' /\ Placed(a, raw[i], u, cut2[i - 1], cut2[i])'
  <2>1. CASE i = n + 1
    <3>1. cut2[i - 1] = pos - 1 /\ cut2[i] = pos - 1 + p
      <4>1. i - 1 = n /\ n \in 0 .. n
        BY <1>3, <2>1
      <4> QED  BY <1>2, <1>6, <2>1, <4>1
    <3>2. Placed(a, k, v, pos - 1, pos - 1 + p)'
      BY <1>0 DEF Placed
    <3> QED  BY <1>3, <2>1, <3>1, <3>2
  <2>2. CASE i # n + 1
    <3>1. i \in 1 .. n /\ i - 1 \in 0 .. n /\ i \in 0 .. n
      BY <1>3, <2>2
    <3>2. PICK u : Portion(s, F, a, raw[i], u) /\ Placed(a, raw[i], u, cut[i - 1], cut[i])
      BY <1>5, <3>1
    <3>3. PICK h : h = raw[i]
      OBVIOUS
    <3>4. Portion(s, G, a, h, u)' /\ Share(a, h, u)' = Share(a, h, u)
      BY <3>2, <3>3, PortionKept
    <3>5. PICK q, from, to : q = Share(a, h, u) /\ from = cut[i - 1] /\ to = cut[i]
      OBVIOUS
    <3>6. /\ to = from + Len(q) /\ \A j \in DOMAIN q : old[from + j] = q[j]
          /\ from \in Nat /\ to <= pos - 1 /\ to \in Nat
      <4>1. to = from + Len(q) /\ \A j \in DOMAIN q : old[from + j] = q[j]
        BY <1>0, <3>2, <3>3, <3>5 DEF Placed
      <4>2. cut[i - 1] \in 0 .. l /\ cut[i] \in 0 .. l /\ cut[i] <= pos - 1
        BY <1>5, <3>1
      <4>3. from \in Nat /\ to \in Nat /\ to <= pos - 1
        BY <1>1, <3>5, <4>2
      <4> QED  BY <4>1, <4>3
    <3>7. q \in Seq(Addrs)
      <4>1. u \in Addrs
        BY <3>2 DEF Portion, Outcomes
      <4>2. Spread(a, h, u) => heap[u].kids \in Seq(Addrs)
        BY <4>1, Lists DEF Spread, Addrs
      <4> QED  BY <3>5, <4>1, <4>2 DEF Share
    <3>8. \A j \in DOMAIN q : from + j \in 1 .. pos - 1
      <4>1. DOMAIN q = 1 .. Len(q) /\ Len(q) \in Nat
        BY <3>7, LenProperties
      <4> QED  BY <1>1, <3>6, <4>1
    <3>9. \A j \in DOMAIN q : new[from + j] = q[j]
      BY <1>0, <3>6, <3>8
    <3>10. Placed(a, h, u, from, to)'
      BY <1>0, <3>4, <3>5, <3>6, <3>9 DEF Placed
    <3> QED  BY <1>6, <3>1, <3>3, <3>4, <3>5, <3>10
  <2> QED  BY <2>1, <2>2
<1>10. Cut(s, G, a, n + 1, cut2)'
  BY <1>0, <1>1, <1>8, <1>9 DEF Cut
<1>11. Raws(a, n + 1, pos + p)'
  <2>1. l = w - n + pos - 1
    BY <1>0, <1>2 DEF Raws
  <2>2. Len(new) = w - (n + 1) + (pos + p) - 1
    BY <1>1, <1>3, <1>7, <2>1
  <2>3. ASSUME NEW i \in n + 1 + 1 .. w
        PROVE  new[i - (n + 1) + (pos + p) - 1] = raw[i]
    <3>1. PICK j : j = i - n + pos - 1
      OBVIOUS
    <3>2. j \in pos + 1 .. l /\ i \in n + 1 .. w /\ i - (n + 1) + (pos + p) - 1 = j - 1 + p
      BY <1>1, <1>3, <2>1, <3>1
    <3>3. old[j] = raw[i]
      BY <1>0, <1>2, <3>1, <3>2 DEF Raws
    <3> QED  BY <1>0, <3>2, <3>3
  <2> QED  BY <1>0, <1>1, <2>2, <2>3 DEF Raws
<1>12. \A i \in 1 .. pos + p - 1 : new[i] \in Outcomes(G)'
  <2>1. ASSUME NEW i \in 1 .. pos + p - 1
        PROVE  new[i] \in Outcomes(G)'
    <3>1. i \in 1 .. pos - 1 \/ (i - pos + 1 \in 1 .. p /\ i = pos - 1 + (i - pos + 1))
      BY <1>1
    <3>2. CASE i \in 1 .. pos - 1
      <4>1. old[i] \in Outcomes(F)
        BY <1>0, <3>2 DEF Reworked
      <4> QED  BY <1>0, <1>1, <3>2, <4>1
    <3>3. CASE i - pos + 1 \in 1 .. p /\ i = pos - 1 + (i - pos + 1)
      <4>1. PICK j : j = i - pos + 1
        OBVIOUS
      <4>2. j \in DOMAIN part /\ i = pos - 1 + j
        BY <1>1, <3>3, <4>1
      <4>3. new[pos - 1 + j] = part[j] /\ part[j] \in Outcomes(G)'
        BY <1>0, <4>2
      <4> QED  BY <4>2, <4>3
    <3> QED  BY <3>1, <3>2, <3>3
  <2> QED  BY <2>1
<1>13. n + 1 \in 0 .. Len(Written(a)') /\ cut2[n + 1] = pos + p - 1
  <2>1. n + 1 \in 0 .. w /\ pos - 1 + p = pos + p - 1
    BY <1>1, <1>3
  <2> QED  BY <1>0, <1>1, <1>6, <2>1
<1> QED  BY <1>0, <1>10, <1>11, <1>12, <1>13 DEF Reworked

\* The place that gets a value.
LEMMA InPlaceOf ==
    ASSUME NEW s, NEW F, NEW G, NEW rank, Amid(s, F, G, rank), NEW f, NEW kids, Refills(F, G, f, kids),
           NEW a, a = Top.node, NEW pos, pos = Top.pos, NEW k, k = heap[a].kids[pos]
    PROVE  /\ a \in DOMAIN heap /\ pos \in Nat /\ pos \in 1 .. Len(heap[a].kids)
           /\ pos \in DOMAIN heap[a].kids /\ Reworked(s, F, a, pos)
           /\ ret \in Outcomes(F) /\ Means(s, k, ret) /\ k \in Offspring(a) \union {Text}
           /\ k \in Addrs
           /\ Splices(Top) <=> Spread(a, k, ret)
<1>1. /\ a \in DOMAIN heap /\ pos \in 1 .. Len(heap[a].kids) /\ pos \in DOMAIN heap[a].kids /\ pos \in Nat
      /\ heap[a].kids \in Seq(Addrs) /\ Traverses(Top) /\ Top.at = "wait" /\ ret # NoRet
      /\ web.heap[a].kind \in {"map", "seq"}
  <2>1. a \in DOMAIN heap /\ pos \in 1 .. Len(heap[a].kids) /\ heap[a].kids \in Seq(Addrs)
        /\ Traverses(Top) /\ Top.at = "wait" /\ ret # NoRet /\ heap[a].kind \in {"map", "seq"}
    BY DEF Refills
  <2>2. web.heap[a].kind \in {"map", "seq"}
    BY <2>1, Innermost
  <2>3. pos \in DOMAIN heap[a].kids /\ pos \in Nat
    BY <2>1, LenProperties
  <2> QED  BY <2>1, <2>2, <2>3
<1>2. Reworked(s, F, a, pos)
  BY <1>1, Innermost DEF Advanced
<1>3. ret \in Outcomes(F) /\ Means(s, k, ret)
  BY <1>1, Innermost DEF Amid, Sound, Delivered
<1>4. k \in Addrs /\ k \in Offspring(a) \union {Text}
  <2>1. PICK n \in 0 .. Len(Written(a)) : Raws(a, n, pos)
    BY <1>2 DEF Reworked
  <2>2. Len(Written(a)) \in Nat /\ Written(a) \in Seq(Addrs) /\ DOMAIN Written(a) = 1 .. Len(Written(a))
    BY <1>1, Lists
  <2>3. n \in Nat /\ n <= Len(Written(a))
    BY <2>1, <2>2
  <2>4. n + 1 \in DOMAIN Written(a) /\ k = Written(a)[n + 1]
    BY <1>1, <2>1, <2>2, <2>3, NextRaw
  <2>5. k \in Addrs
    BY <1>1
  <2> QED  BY <2>4, <2>5 DEF Offspring, Written, ToSet
<1>5. Splices(Top) <=> Spread(a, k, ret)
  <2>1. ret \in Addrs /\ k \in Addrs /\ Text \notin DOMAIN heap
        /\ \A b \in DOMAIN heap : heap[b].kind = web.heap[b].kind /\ heap[b].kind # "mixin"
    BY <1>3, <1>4, Innermost, Shape DEF Outcomes
  <2>2. Kids(Top)[Top.pos] = k
    BY DEF Kids
  <2> QED  BY <1>1, <2>1, <2>2 DEF Splices, Spliceable, IsKind, Spread, Addrs
<1> QED  BY <1>1, <1>2, <1>3, <1>4, <1>5

\* What an import refers to ranks below it.
LEMMA Lower ==
    ASSUME NEW s, NEW F, NEW G, NEW rank, Amid(s, F, G, rank), NEW k \in DOMAIN heap,
           web.heap[k].kind = "import", NEW v \in DOMAIN heap, Means(s, k, v)
    PROVE  rank[v] < rank[k]
<1>1. PICK url : url = ExpandRef(web.heap[k].ref, RootUrl(web.heap[k].home))
  OBVIOUS
<1>2. v # Text /\ k # Text /\ DOMAIN heap = DOMAIN web.heap
  BY Innermost, Shape
<1>3. PICK b \in DOMAIN web.heap : Bears(s, b, url) /\ v = Opened(b)
  BY <1>1, <1>2 DEF Means, Denotes
<1>4. url \in UrlsOf(web, s, b)
  BY <1>3 DEF Bears
<1>5. rank[b] < rank[k] /\ rank \in [DOMAIN web.heap -> Nat]
  BY <1>1, <1>2, <1>4 DEF Amid, Acyclic
<1>6. v = b \/ rank[v] < rank[b]
  <2>1. SUFFICES ASSUME v # b PROVE rank[v] < rank[b]
    OBVIOUS
  <2>2. web.heap[b].kind = "graph" /\ v = web.heap[b].kids[1]
    BY <1>3, <2>1 DEF Opened
  <2>3. Written(b) # <<>> /\ Written(b) \in Seq(Addrs)
    <3>1. WellFormed(web.heap)
      BY Innermost DEF Whole, Store, WebOK
    <3>2. web.heap[b].kids # <<>>
      BY <2>2, <3>1 DEF WellFormed
    <3> QED  BY <1>2, <3>2, Lists DEF Written
  <2>4. v \in ToSet(web.heap[b].kids) \ {Text}
    <3>1. 1 \in DOMAIN Written(b)
      BY <2>3, EmptySeq, LenProperties
    <3> QED  BY <1>2, <2>2, <3>1 DEF Written, ToSet
  <2> QED  BY <2>4 DEF Amid, Acyclic
<1>7. rank[b] \in Nat /\ rank[k] \in Nat /\ rank[v] \in Nat
  BY <1>2, <1>5
<1> QED  BY <1>5, <1>6, <1>7

\* A list that is spliced is in the hands of no call.
LEMMA Settles ==
    ASSUME NEW s, NEW F, NEW G, NEW rank, Amid(s, F, G, rank), NEW f, NEW kids, Refills(F, G, f, kids),
           NEW a, a = Top.node, NEW k, k = heap[a].kids[Top.pos], Spread(a, k, ret)
    PROVE  /\ ret # a /\ ret \in DOMAIN heap /\ ~Visited(ret)
           /\ heap'[ret].kids = heap[ret].kids
           /\ \A i \in DOMAIN heap[ret].kids : heap[ret].kids[i] \in Outcomes(F)
<1>1. /\ a \in DOMAIN heap /\ ret \in Outcomes(F) /\ Means(s, k, ret) /\ k \in Offspring(a) \union {Text}
      /\ k \in Addrs /\ Traverses(Top)
  BY InPlaceOf DEF Refills
<1>2. /\ ret \in DOMAIN heap /\ k \in DOMAIN heap /\ k \in Offspring(a) /\ ret \notin F
      /\ web.heap[k].kind = "import" /\ web.heap[ret].kind = "seq"
  BY <1>1 DEF Spread, Outcomes, Addrs
<1>3. rank[ret] < rank[k] /\ rank[k] < rank[a]
  BY <1>1, <1>2, Lower, Innermost DEF Amid, Acyclic, Offspring
<1>4. rank[ret] \in Nat /\ rank[k] \in Nat /\ rank[a] \in Nat
  BY <1>1, <1>2, Innermost DEF Amid, Acyclic
<1>5. ~Visited(ret)
  <2>1. SUFFICES ASSUME NEW i \in DOMAIN stack, Traverses(stack[i]), stack[i].node = ret
                 PROVE  FALSE
    BY DEF Visited
  <2>2. PICK n : n = Len(stack)
    OBVIOUS
  <2>3. n \in Nat /\ i \in 1 .. n /\ n \in DOMAIN stack /\ stack[n] = Top
    BY <2>2, Innermost
  <2>4. i # n
    BY <1>3, <1>4, <2>1, <2>3
  <2>5. rank[a] < rank[ret]
    BY <1>1, <2>1, <2>3, <2>4 DEF Amid, Sound, Chain, Falls, Traverses, Holds
  <2> QED  BY <1>3, <1>4, <2>5
<1>6. heap'[ret].kids = heap[ret].kids
  BY <1>2, <1>5, Unvisited
<1>7. \A i \in DOMAIN heap[ret].kids : heap[ret].kids[i] \in Outcomes(F)
  <2>1. Reworked(s, F, ret, Len(heap[ret].kids) + 1)
    BY <1>2, <1>5 DEF Amid, Sound, Finished
  <2>2. DOMAIN heap[ret].kids = 1 .. Len(heap[ret].kids) + 1 - 1
    BY <1>2, Lists
  <2> QED  BY <2>1, <2>2 DEF Reworked
<1> QED  BY <1>2, <1>3, <1>4, <1>5, <1>6, <1>7

\* A list that was spliced in stands between what was before and behind the place.
Joined(old, t, pos) == SubSeq(old, 1, pos - 1) \o t \o SubSeq(old, pos + 1, Len(old))

LEMMA Spliced ==
    ASSUME NEW A, NEW old \in Seq(A), NEW t \in Seq(A), NEW pos \in 1 .. Len(old)
    PROVE  LET all == Joined(old, t, pos)
           IN  /\ Len(all) = Len(old) - 1 + Len(t)
               /\ \A i \in 1 .. pos - 1 : all[i] = old[i]
               /\ \A i \in 1 .. Len(t) : all[pos - 1 + i] = t[i]
               /\ \A i \in pos + 1 .. Len(old) : all[i - 1 + Len(t)] = old[i]
<1>0. PICK all : all = SubSeq(old, 1, pos - 1) \o t \o SubSeq(old, pos + 1, Len(old))
  OBVIOUS
<1>1. PICK l, p : l = Len(old) /\ p = Len(t)
  OBVIOUS
<1>2. l \in Nat /\ p \in Nat /\ pos \in 1 .. l /\ DOMAIN old = 1 .. l /\ DOMAIN t = 1 .. p
  BY <1>1, LenProperties
<1>3. PICK before, after, head :
          /\ before = SubSeq(old, 1, pos - 1) /\ after = SubSeq(old, pos + 1, l)
          /\ head = before \o t
  OBVIOUS
<1>4. \A i \in 1 .. l : old[i] \in A
  BY <1>1, <1>2, ElementOfSeq
<1>5. before \in Seq(A) /\ Len(before) = pos - 1 /\ \A i \in 1 .. pos - 1 : before[i] = old[i]
  <2>1. /\ 1 \in Int /\ pos - 1 \in Int /\ \A i \in 1 .. pos - 1 : old[i] \in A
    BY <1>2, <1>4
  <2>2. /\ before \in Seq(A) /\ Len(before) = IF 1 <= pos - 1 THEN pos - 1 - 1 + 1 ELSE 0
        /\ \A i \in 1 .. pos - 1 - 1 + 1 : before[i] = old[1 + i - 1]
    BY <1>3, <2>1, SubSeqProperties
  <2>3. Len(before) = pos - 1
    BY <1>2, <2>2
  <2>4. ASSUME NEW i \in 1 .. pos - 1
        PROVE  before[i] = old[i]
    <3>1. i \in 1 .. pos - 1 - 1 + 1 /\ 1 + i - 1 = i
      BY <1>2
    <3> QED  BY <2>2, <3>1
  <2> QED  BY <2>2, <2>3, <2>4
<1>6. after \in Seq(A)
  <2>1. /\ pos + 1 \in Int /\ l \in Int /\ \A i \in pos + 1 .. l : old[i] \in A
    BY <1>2, <1>4
  <2> QED  BY <1>3, <2>1, SubSeqProperties
<1>7. /\ head \in Seq(A) /\ Len(head) = pos - 1 + p
      /\ \A i \in 1 .. pos - 1 : head[i] = old[i]
      /\ \A i \in 1 .. p : head[pos - 1 + i] = t[i]
  <2>1. /\ head \in Seq(A) /\ Len(head) = pos - 1 + p
        /\ \A i \in 1 .. pos - 1 + p : head[i] = IF i <= pos - 1 THEN before[i] ELSE t[i - (pos - 1)]
    BY <1>1, <1>3, <1>5, ConcatProperties
  <2>2. \A i \in 1 .. pos - 1 : i \in 1 .. pos - 1 + p /\ i <= pos - 1
    BY <1>2
  <2>3. \A i \in 1 .. p : pos - 1 + i \in 1 .. pos - 1 + p /\ ~(pos - 1 + i <= pos - 1)
                          /\ pos - 1 + i - (pos - 1) = i
    BY <1>2
  <2>4. \A i \in 1 .. pos - 1 : head[i] = old[i]
    BY <1>5, <2>1, <2>2
  <2>5. ASSUME NEW i \in 1 .. p
        PROVE  head[pos - 1 + i] = t[i]
    <3>1. PICK j : j = pos - 1 + i
      OBVIOUS
    <3>2. j \in 1 .. pos - 1 + p /\ ~(j <= pos - 1) /\ j - (pos - 1) = i
      BY <2>3, <3>1
    <3> QED  BY <2>1, <3>1, <3>2
  <2> QED  BY <2>1, <2>4, <2>5
<1>8. \A i \in 1 .. pos - 1 + p : all[i] = head[i]
  <2>1. all = head \o after
    BY <1>0, <1>1, <1>3
  <2>2. PICK m, q : m = Len(head) /\ q = Len(after)
    OBVIOUS
  <2>3. m \in Nat /\ q \in Nat
    BY <1>6, <1>7, <2>2, LenProperties
  <2>4. \A i \in 1 .. m + q : all[i] = IF i <= m THEN head[i] ELSE after[i - m]
    <3>1. head \in Seq(A) /\ after \in Seq(A)
      BY <1>6, <1>7
    <3>2. \A i \in 1 .. Len(head) + Len(after) :
              (head \o after)[i] = IF i <= Len(head) THEN head[i] ELSE after[i - Len(head)]
      BY <3>1, ConcatProperties
    <3> QED  BY <2>1, <2>2, <3>2
  <2>5. \A i \in 1 .. m : i \in 1 .. m + q /\ i <= m
    BY <2>3
  <2> QED  BY <1>7, <2>2, <2>4, <2>5
<1>9. \A i \in 1 .. pos - 1 : all[i] = old[i]
  <2>1. \A i \in 1 .. pos - 1 : i \in 1 .. pos - 1 + p
    BY <1>2
  <2> QED  BY <1>7, <1>8, <2>1
<1>10. \A i \in 1 .. p : all[pos - 1 + i] = t[i]
  <2>1. \A i \in 1 .. p : pos - 1 + i \in 1 .. pos - 1 + p
    BY <1>2
  <2> QED  BY <1>7, <1>8, <2>1
<1>11. /\ all \in Seq(A) /\ Len(all) = l + (p - 1)
       /\ \A j \in DOMAIN all : j >= pos + p => all[j] = old[j - (p - 1)]
  BY <1>0, <1>1, SplicedTail
<1>12. DOMAIN all = 1 .. l + (p - 1)
  BY <1>11, LenProperties
<1>13. ASSUME NEW i \in pos + 1 .. l
       PROVE  all[i - 1 + p] = old[i]
  <2>1. PICK j : j = i - 1 + p
    OBVIOUS
  <2>2. j \in 1 .. l + (p - 1) /\ j >= pos + p /\ j - (p - 1) = i
    BY <1>2, <2>1
  <2> QED  BY <1>11, <1>12, <2>1, <2>2
<1>14. l + (p - 1) = l - 1 + p
  BY <1>2
<1> QED  BY <1>0, <1>1, <1>9, <1>10, <1>11, <1>13, <1>14 DEF Joined

\* document[key] = value
LEMMA ReplaceReworks ==
    ASSUME NEW s, NEW F, NEW G, NEW rank, Amid(s, F, G, rank), NEW f, NEW kids, Refills(F, G, f, kids),
           ReplaceKid, NEW a, a = Top.node, NEW to, to = f.pos
    PROVE  Reworked(s, G, a, to)'
<1>0. PICK pos, k, v, part : pos = Top.pos /\ k = heap[a].kids[pos] /\ v = ret /\ part = <<v>>
  OBVIOUS
<1>1. /\ a \in DOMAIN heap /\ pos \in Nat /\ pos \in 1 .. Len(heap[a].kids)
      /\ pos \in DOMAIN heap[a].kids /\ Reworked(s, F, a, pos)
      /\ v \in Outcomes(F) /\ Means(s, k, v) /\ (Splices(Top) <=> Spread(a, k, v))
  BY <1>0, InPlaceOf
<1>2. /\ ~Splices(Top) /\ G = F /\ to = pos + 1
      /\ heap' = [heap EXCEPT ![a].kids = [heap[a].kids EXCEPT ![pos] = v]]
  BY <1>0 DEF Refills
<1>3. heap'[a].kids = [heap[a].kids EXCEPT ![pos] = v]
  BY <1>1, <1>2, Innermost, RefillHeap
<1>4. /\ (Spread(a, k, v)' <=> Spread(a, k, v)) /\ (Means(s, k, v)' <=> Means(s, k, v))
      /\ v \in Outcomes(G)'
  BY <1>1, <1>2, OutcomesGrow, SameMeaning DEF Amid, Around
<1>5. Portion(s, G, a, k, v)' /\ Share(a, k, v)' = part
  BY <1>0, <1>1, <1>2, <1>4 DEF Portion, Share
<1>6. PICK A : A = {v}
  OBVIOUS
<1>7. part \in Seq(A) /\ Len(part) = 1 /\ DOMAIN part = {1} /\ part[1] = v
  BY <1>0, <1>6
<1>8. PICK old, new : old = heap[a].kids /\ new = heap'[a].kids
  OBVIOUS
<1>9. /\ Len(old) \in Nat /\ DOMAIN old = 1 .. Len(old) /\ new = [old EXCEPT ![pos] = v]
      /\ new \in Seq(Addrs')
  BY <1>1, <1>3, <1>8, KidsAfter, Lists
<1>10. Len(new) = Len(old)
  BY <1>9, LenProperties
<1>11. /\ Len(new) = Len(old) - 1 + Len(part)
       /\ \A i \in 1 .. pos - 1 : new[i] = old[i]
       /\ \A i \in DOMAIN part : new[pos - 1 + i] = part[i]
       /\ \A i \in pos + 1 .. Len(old) : new[i - 1 + Len(part)] = old[i]
  <2>1. \A i \in 1 .. pos - 1 : i \in DOMAIN old /\ i # pos
    BY <1>1, <1>8, <1>9
  <2>2. \A i \in pos + 1 .. Len(old) : i \in DOMAIN old /\ i # pos /\ i - 1 + 1 = i
    BY <1>1, <1>9
  <2>3. pos - 1 + 1 = pos /\ pos \in DOMAIN old /\ Len(old) - 1 + 1 = Len(old)
    BY <1>1, <1>8, <1>9
  <2> QED  BY <1>7, <1>9, <1>10, <2>1, <2>2, <2>3
<1>12. \A i \in DOMAIN part : part[i] \in Outcomes(G)'
  BY <1>4, <1>7
<1>13. Extends(s, F, G, a, pos, k, v, part)
  <2>1. heap[a].kids = old /\ heap'[a].kids = new /\ k = heap[a].kids[pos] /\ part \in Seq(Addrs)
    BY <1>0, <1>1, <1>7, <1>8 DEF Outcomes
  <2> QED  BY <1>1, <1>5, <1>11, <1>12, <2>1 DEF Extends
<1>14. Reworked(s, G, a, pos + Len(part))'
  BY <1>13, Extended
<1> QED  BY <1>2, <1>7, <1>14

\* del document[i]; for item in l: document.insert(i, item)
LEMMA SpliceReworks ==
    ASSUME NEW s, NEW F, NEW G, NEW rank, Amid(s, F, G, rank), NEW f, NEW kids, Refills(F, G, f, kids),
           SpliceKids, NEW a, a = Top.node, NEW to, to = f.pos
    PROVE  Reworked(s, G, a, to)'
<1>0. PICK pos, k, v, part : pos = Top.pos /\ k = heap[a].kids[pos] /\ v = ret /\ part = heap[v].kids
  OBVIOUS
<1>1. /\ a \in DOMAIN heap /\ pos \in Nat /\ pos \in 1 .. Len(heap[a].kids)
      /\ pos \in DOMAIN heap[a].kids /\ Reworked(s, F, a, pos)
      /\ v \in Outcomes(F) /\ Means(s, k, v) /\ (Splices(Top) <=> Spread(a, k, v))
  BY <1>0, InPlaceOf
<1>2. Spread(a, k, v) /\ G = F /\ heap[a].kids \in Seq(Addrs)
  BY <1>0, <1>1 DEF Refills
<1>3. /\ v # a /\ v \in DOMAIN heap /\ ~Visited(v) /\ heap'[v].kids = part
      /\ \A i \in DOMAIN part : part[i] \in Outcomes(F)
  BY <1>0, <1>2, Settles
<1>4. PICK old, new, all :
          /\ old = heap[a].kids /\ new = heap'[a].kids
          /\ all = Joined(old, part, pos)
  OBVIOUS
<1>5. to = pos + Len(part) /\ heap' = [heap EXCEPT ![a].kids = all]
  BY <1>0, <1>3, <1>4 DEF Refills, Joined
<1>6. /\ new = all /\ part \in Seq(Addrs) /\ DOMAIN part = 1 .. Len(part)
      /\ old \in Seq(Addrs) /\ pos \in 1 .. Len(old)
  <2>1. heap'[a].kids = all
    BY <1>1, <1>5, Innermost, RefillHeap
  <2>2. part \in Seq(Addrs) /\ DOMAIN part = 1 .. Len(part)
    BY <1>0, <1>3, Lists
  <2> QED  BY <1>1, <1>2, <1>4, <2>1, <2>2
<1>7. /\ (Spread(a, k, v)' <=> Spread(a, k, v)) /\ (Means(s, k, v)' <=> Means(s, k, v))
      /\ v \in Outcomes(G)' /\ \A i \in DOMAIN part : part[i] \in Outcomes(G)'
  BY <1>1, <1>2, <1>3, OutcomesGrow, SameMeaning DEF Amid, Around
<1>8. ~Visited(v)'
  BY <1>2, <1>3, VisitedAfter
<1>9. Portion(s, G, a, k, v)' /\ Share(a, k, v)' = part
  BY <1>1, <1>2, <1>3, <1>7, <1>8 DEF Portion, Share
<1>10. /\ Len(all) = Len(old) - 1 + Len(part)
       /\ \A i \in 1 .. pos - 1 : all[i] = old[i]
       /\ \A i \in 1 .. Len(part) : all[pos - 1 + i] = part[i]
       /\ \A i \in pos + 1 .. Len(old) : all[i - 1 + Len(part)] = old[i]
  <2>1. all = Joined(old, part, pos)
    BY <1>4
  <2>2. part \in Seq(Addrs) /\ old \in Seq(Addrs) /\ pos \in 1 .. Len(old)
    BY <1>6
  <2>3. /\ Len(Joined(old, part, pos)) = Len(old) - 1 + Len(part)
        /\ \A i \in 1 .. pos - 1 : Joined(old, part, pos)[i] = old[i]
        /\ \A i \in 1 .. Len(part) : Joined(old, part, pos)[pos - 1 + i] = part[i]
        /\ \A i \in pos + 1 .. Len(old) : Joined(old, part, pos)[i - 1 + Len(part)] = old[i]
    BY <2>2, Spliced
  <2> QED  BY <2>1, <2>3
<1>11. Extends(s, F, G, a, pos, k, v, part)
  <2>1. heap[a].kids = old /\ heap'[a].kids = all /\ DOMAIN part = 1 .. Len(part) /\ part \in Seq(Addrs)
    BY <1>4, <1>6
  <2> QED  BY <1>0, <1>1, <1>7, <1>9, <1>10, <2>1 DEF Extends
<1>12. Reworked(s, G, a, pos + Len(part))'
  BY <1>11, Extended
<1> QED  BY <1>5, <1>12

LEMMA LoopChain ==
    ASSUME NEW s, NEW F, NEW G, NEW rank, Amid(s, F, G, rank), ReplaceKid \/ SpliceKids
    PROVE  Chain(s, G, rank)'
<1>1. PICK f, kids : Refills(F, G, f, kids)
  BY LoopMove
<1>2. /\ Become(f) /\ f.fn = "resolve_all" /\ f.at = "iterate" /\ f.node = Top.node
      /\ Top.fn = "resolve_all" /\ Top.at = "wait" /\ Top.node \in DOMAIN heap
      /\ ReplaceKid => f.pos = Top.pos + 1
  BY <1>1 DEF Refills
<1>3. PICK a, pos, to : a = Top.node /\ pos = Top.pos /\ to = f.pos
  OBVIOUS
<1>4. Reworked(s, G, a, to)'
  BY <1>1, <1>2, <1>3, ReplaceReworks, SpliceReworks
<1>5. Advanced(s, G, f)'
  <2>1. Reworked(s, G, f.node, f.pos)'
    BY <1>2, <1>3, <1>4
  <2> QED  BY <1>2, <2>1 DEF Advanced
<1>6. \A k : Serving(k, Top) => Serving(k, f)
  BY <1>2 DEF Serving
<1>7. rank[f.node] <= rank[Top.node] /\ Holds(Top)
  <2>1. rank[Top.node] \in Nat /\ Text \notin DOMAIN heap
    BY <1>2, Innermost, Shape DEF Amid, Acyclic
  <2> QED  BY <1>2, <2>1 DEF Holds
<1>8. Carries(s, G, rank, f)
  BY <1>2, <1>5, <1>6, <1>7 DEF Carries
<1> QED  BY <1>2, <1>8, ChainAfter

LEMMA StepChain ==
    ASSUME NEW s, NEW F, NEW G, NEW rank, Amid(s, F, G, rank)
    PROVE  Chain(s, G, rank)'
<1>1. CASE ReturnIndexed \/ Include \/ RefResolved \/ ReturnScalar \/ Finish
  BY <1>1, ReturnMove, ReturnChain
<1> QED
  BY <1>1, Calling, FollowChain, OpenChain, GraphChain, DescendChain, LoadChain, LoopChain DEF Amid

----------------------------------------------------------------------------
(* What a call returns *)

\* What the index has for a URL is what the URL refers to.
LEMMA IndexMeans ==
    ASSUME NEW s, NEW F, NEW G, NEW rank, Amid(s, F, G, rank), NEW u \in DOMAIN idx
    PROVE  Denotes(s, u, Unwrap(idx[u]))
<1>1. PICK a, v : a = idx[u] /\ v = Unwrap(a)
  OBVIOUS
<1>2. a \in Addrs
  BY <1>1, Innermost DEF Whole, Index
<1>3. CASE a = Text
  <2>1. v = Text /\ Denotes(s, u, Text)
    BY <1>1, <1>3 DEF Unwrap, IsKind, Amid, Sound, Scalars
  <2> QED  BY <1>1, <2>1
<1>4. CASE a # Text
  <2>1. a \in DOMAIN heap /\ Bears(s, a, u)
    BY <1>1, <1>2, <1>4 DEF Addrs, Amid, Ground, Indexed, Bound
  <2>2. v = Opened(a) /\ v # Text
    <3>1. heap[a].kind = web.heap[a].kind /\ Text \notin DOMAIN heap
      BY <2>1, Innermost, Shape
    <3>2. CASE heap[a].kind = "graph"
      <4>1. heap[a].kids = web.heap[a].kids
        BY <2>1, <3>2 DEF Amid, Around, Fixed, Written
      <4>2. heap[a].kids[1] \in DOMAIN heap
        BY <2>1, <3>2, Innermost DEF Whole, Store, WellFormed
      <4> QED  BY <1>1, <1>4, <3>1, <3>2, <4>1, <4>2 DEF Unwrap, Opened, IsKind
    <3>3. CASE heap[a].kind # "graph"
      BY <1>1, <1>4, <3>1, <3>3 DEF Unwrap, Opened, IsKind
    <3> QED  BY <3>2, <3>3
  <2>3. a \in DOMAIN web.heap
    BY <2>1, Innermost
  <2> QED  BY <1>1, <2>1, <2>2, <2>3 DEF Denotes
<1> QED  BY <1>3, <1>4

\* resolve_ref returns what its URL refers to, and nothing that is raw.
LEMMA Looked ==
    ASSUME NEW s, NEW F, NEW G, NEW rank, Amid(s, F, G, rank), ReturnIndexed \/ RefResolved,
           NEW v, Return(v)
    PROVE  /\ Top.fn = "resolve_ref" /\ Denotes(s, Top.url, v) /\ v \in Outcomes(F)
           /\ Top.url \in DOMAIN idx /\ v = Unwrap(idx[Top.url])
<1>1. Top.fn = "resolve_ref" /\ Top \in Call
  BY Innermost DEF ReturnIndexed, RefResolved, Running, Returned
<1>2. Top.mode # "mixin"
  <2>1. CASE Holds(Top)
    BY <1>1, <2>1, Directed
  <2>2. CASE ~Holds(Top)
    BY <1>1, <2>2, CallParts DEF Holds, IsKind
  <2> QED  BY <2>1, <2>2
<1>3. Top.url \in DOMAIN idx /\ v = Unwrap(idx[Top.url])
  BY <1>2 DEF ReturnIndexed, RefResolved, Hit, Return, Raise, Amid
<1>4. Denotes(s, Top.url, v)
  BY <1>3, IndexMeans
<1>5. idx[Top.url] = Text \/ ~Pending(idx[Top.url])
  <2>1. SUFFICES ASSUME NEW a, Top.at = "enter", Top.node = a, heap[a].kind \in Directives, heap[a].id # NoUrl,
                        a = idx[Top.url], a # Text
                 PROVE  FALSE
    BY <1>1 DEF Pending
  <2>2. ReturnIndexed
    BY <2>1 DEF RefResolved, Returned
  <2>3. a \in Addrs /\ (a # Text => a \in DOMAIN heap)
    BY <1>1, <2>1, CallParts DEF Addrs
  <2>4. Top.mode \in {"import", "include"}
    BY <1>1, <2>1, Directed DEF Holds
  <2>5. Overfull(Top)
    BY <2>1, <2>4 DEF Overfull
  <2> QED  BY <2>2, <2>5 DEF ReturnIndexed
<1>6. v \in Outcomes(F)
  <2>1. Unwrap(Text) = Text /\ Text \in Outcomes(F)
    <3>1. Text \notin F
      BY Innermost, Shape DEF Amid, Around, Fresh, Untouched
    <3> QED  BY <3>1 DEF Outcomes, Addrs, Unwrap, IsKind
  <2>2. CASE idx[Top.url] = Text
    BY <1>3, <2>1, <2>2
  <2>3. CASE idx[Top.url] # Text
    BY <1>3, <1>5, <2>3 DEF Amid, Sound, Available
  <2> QED  BY <2>2, <2>3
<1> QED  BY <1>1, <1>3, <1>4, <1>6

\* What stands under the URL of an $include is the text of a document.
LEMMA IncludesText ==
    ASSUME NEW s, NEW F, NEW G, NEW rank, Amid(s, F, G, rank), NEW k \in DOMAIN web.heap,
           web.heap[k].kind = "include",
           NEW u \in DOMAIN idx, u = ExpandRef(web.heap[k].ref, RootUrl(web.heap[k].home))
    PROVE  Unwrap(idx[u]) = Text /\ web.root[u.doc] # NoText
<1>1. ~IsSymbol(s, u) /\ \A b \in DOMAIN web.heap : Bears(s, b, u) => fetched[web.heap[b].home] = 0
  BY DEF Amid, IncludedApart
<1>2. PICK a : a = idx[u]
  OBVIOUS
<1>3. a \in Addrs
  BY <1>2, Innermost DEF Whole, Index
<1>4. a = Text
  <2>1. SUFFICES ASSUME a # Text PROVE FALSE
    OBVIOUS
  <2>2. a \in DOMAIN heap /\ Bears(s, a, u) /\ fetched[heap[a].home] > 0
    BY <1>2, <1>3, <2>1 DEF Addrs, Amid, Ground, Indexed, Bound, Homes, OfParsed
  <2>3. a \in DOMAIN web.heap /\ web.heap[a].home = heap[a].home
    BY <2>2, Innermost
  <2>4. fetched[heap[a].home] = 0
    BY <1>1, <2>2, <2>3
  <2> QED  BY <2>2, <2>4
<1>5. PICK d \in Docs : u = RootUrl(d) /\ web.root[d] = Text
  <2>1. Denotes(s, u, Text)
    BY <1>2, <1>4 DEF Amid, Sound, Scalars
  <2> QED  BY <1>1, <2>1 DEF Denotes
<1> QED  BY <1>2, <1>4, <1>5 DEF Unwrap, IsKind, RootUrl, Text, NoText

\* A call returns what the value that it was given means.
LEMMA ReturnMeans ==
    ASSUME NEW s, NEW F, NEW G, NEW rank, Amid(s, F, G, rank), NEW v, Return(v),
           ReturnIndexed \/ Include \/ RefResolved \/ ReturnScalar \/ Finish
    PROVE  v \in Outcomes(F) /\ \A k \in Addrs : Serving(k, Top) => Means(s, k, v)
<1>0. Text \notin F /\ Text \notin DOMAIN heap /\ F \subseteq DOMAIN heap
  BY Innermost, Shape DEF Amid, Around, Fresh, Untouched
<1>1. CASE ReturnIndexed \/ RefResolved
  <2>1. /\ Top.fn = "resolve_ref" /\ Denotes(s, Top.url, v) /\ v \in Outcomes(F)
        /\ Top.url \in DOMAIN idx /\ v = Unwrap(idx[Top.url])
    BY <1>1, Looked
  <2>2. ASSUME NEW k \in Addrs, Serving(k, Top)
        PROVE  Means(s, k, v)
    <3>1. k # Text /\ Top.node = k /\ Holds(Top)
      BY <2>1, <2>2 DEF Serving, Holds
    <3>2. /\ web.heap[k].kind \in {"import", "include"}
          /\ Top.url = ExpandRef(web.heap[k].ref, RootUrl(web.heap[k].home))
      BY <2>1, <3>1, Directed
    <3>3. CASE web.heap[k].kind = "import"
      BY <2>1, <3>1, <3>2, <3>3 DEF Means
    <3>4. CASE web.heap[k].kind = "include"
      <4>1. k \in DOMAIN web.heap
        BY <2>2, <3>1, Innermost DEF Addrs
      <4>2. v = Text /\ web.root[Top.url.doc] # NoText
        BY <2>1, <3>2, <3>4, <4>1, IncludesText
      <4> QED  BY <3>1, <3>2, <3>4, <4>2 DEF Means
    <3> QED  BY <3>2, <3>3, <3>4
  <2> QED  BY <2>1, <2>2
<1>2. CASE Include
  <2>1. /\ v = Text /\ web.root[Top.url.doc] # NoText
        /\ Top.fn = "resolve_ref" /\ Top.mode = "include"
    BY <1>2 DEF Include, Retrieved, Return, Raise, Running, Amid
  <2>2. Text \in Outcomes(F)
    BY <1>0 DEF Outcomes, Addrs
  <2>3. ASSUME NEW k \in Addrs, Serving(k, Top)
        PROVE  Means(s, k, v)
    <3>1. k # Text /\ Top.node = k /\ Holds(Top)
      BY <2>1, <2>3 DEF Serving, Holds
    <3>2. /\ web.heap[k].kind = "include"
          /\ Top.url = ExpandRef(web.heap[k].ref, RootUrl(web.heap[k].home))
      BY <2>1, <3>1, Directed
    <3> QED  BY <2>1, <3>1, <3>2 DEF Means
  <2> QED  BY <2>1, <2>2, <2>3
<1>3. CASE ReturnScalar
  <2>1. v = Text /\ Top.fn = "resolve_all" /\ Top.at = "enter" /\ Top.node = Text
    BY <1>3 DEF ReturnScalar, Return, Running
  <2>2. Text \in Outcomes(F)
    BY <1>0 DEF Outcomes, Addrs
  <2>3. ASSUME NEW k \in Addrs, Serving(k, Top)
        PROVE  Means(s, k, v)
    <3>1. k = Text
      BY <2>1, <2>3 DEF Serving
    <3> QED  BY <2>1, <3>1 DEF Means
  <2> QED  BY <2>1, <2>2, <2>3
<1>4. CASE Finish
  <2>1. Top.fn = "resolve_all" /\ Top.at = "iterate" /\ v = Top.node
    BY <1>4 DEF Finish, Return, Raise, Running, Amid
  <2>2. IsKind(Top.node, {"map", "seq"}) /\ InPlace(F, Top) /\ Top \in Call
    BY <2>1, Innermost, CallParts
  <2>3. /\ v \in DOMAIN heap /\ v # Text /\ v \notin F
        /\ web.heap[v].kind \in {"map", "seq"}
    <3>1. v \in DOMAIN heap /\ v # Text /\ heap[v].kind \in {"map", "seq"}
      BY <2>1, <2>2, Innermost, CallParts DEF IsKind, Addrs
    <3> QED  BY <2>1, <2>2, <3>1, Innermost DEF InPlace, Holds
  <2>4. v \in Outcomes(F)
    BY <2>3 DEF Outcomes, Addrs
  <2>5. ASSUME NEW k \in Addrs, Serving(k, Top)
        PROVE  Means(s, k, v)
    <3>1. k = v \/ (k # Text /\ web.heap[k].kind = "graph" /\ v = Written(k)[1])
      BY <2>1, <2>5 DEF Serving
    <3> QED  BY <2>3, <3>1 DEF Means, Opened, Written
  <2> QED  BY <2>4, <2>5
<1> QED  BY <1>1, <1>2, <1>3, <1>4

LEMMA StepDelivered ==
    ASSUME NEW s, NEW F, NEW G, NEW rank, Amid(s, F, G, rank)
    PROVE  Delivered(s, G)'
<1> SUFFICES ASSUME ret' # NoRet
             PROVE  /\ ret' \in Outcomes(G)'
                    /\ stack' # <<>> /\ Traverses(Top)' /\ web'.heap[Top'.node].kind \in {"map", "seq"} =>
                          Means(s, heap[Top.node].kids[Top.pos], ret)'
  BY DEF Delivered
<1>1. ReturnIndexed \/ Include \/ RefResolved \/ ReturnScalar \/ Finish
  <2>1. \A f, g : ~Become(f) /\ ~Invoke(f, g)
    BY DEF Become, Invoke
  <2>2. ~(FollowDirective \/ OpenSeq \/ OpenMap \/ OpenGraph \/ Descend \/ Load)
    BY <2>1 DEF FollowDirective, OpenSeq, OpenMap, OpenGraph, Descend, Load
  <2>3. ~(ReplaceKid \/ SpliceKids)
    BY <2>1 DEF ReplaceKid, SpliceKids
  <2> QED  BY <2>2, <2>3, Calling DEF Amid
<1>2. PICK v : Return(v) /\ G = F /\ heap' = heap
  BY <1>1, ReturnMove
<1>3. v = ret' /\ stack' = Front(stack) /\ web' = web
  BY <1>2 DEF Return, Amid, Around
<1>4. v \in Outcomes(F) /\ \A k \in Addrs : Serving(k, Top) => Means(s, k, v)
  BY <1>1, <1>2, ReturnMeans
<1>5. v \in Outcomes(G)'
  BY <1>2, <1>3, <1>4, Innermost, OutcomesGrow DEF Amid, Around
<1>6. ASSUME stack' # <<>>, Traverses(Top)', web'.heap[Top'.node].kind \in {"map", "seq"}
      PROVE  Means(s, heap[Top.node].kids[Top.pos], ret)'
  <2>1. PICK n : n = Len(stack) - 1
    OBVIOUS
  <2>2. /\ n \in Nat /\ n \in Outer /\ n \in DOMAIN stack /\ n + 1 \in DOMAIN stack
        /\ Top' = stack[n] /\ stack[n + 1] = Top /\ n < Len(stack)
    <3>1. /\ Len(stack) \in Nat \ {0} /\ DOMAIN stack = 1 .. Len(stack) /\ Outer = 1 .. n
          /\ DOMAIN stack' = Outer /\ \A i \in Outer : stack'[i] = stack[i]
          /\ stack[Len(stack)] = Top /\ Whole /\ stack \in Seq(Call) /\ stack # <<>>
      BY <1>3, <2>1, Innermost, StackAfter DEF Outer, Whole, Control
    <3>2. n \in Nat /\ Len(stack') = n
      BY <1>3, <2>1, <3>1, PopStack
    <3>3. stack' \in Seq(Call)
      BY <1>3, <3>1, PopStack
    <3>4. n # 0
      BY <1>6, <3>2, <3>3, EmptySeq
    <3> QED  BY <2>1, <3>1, <3>2, <3>4 DEF Top, Last
  <2>3. PICK f : f = stack[n]
    OBVIOUS
  <2>4. Traverses(f) /\ web.heap[f.node].kind \in {"map", "seq"} /\ f.at = "wait" /\ Attends(f, Top)
    BY <1>3, <1>6, <2>2, <2>3 DEF Traverses, Amid, Sound, Chain, Waiting
  <2>5. PICK k : k = heap[f.node].kids[f.pos]
    OBVIOUS
  <2>6. k \in Addrs /\ Serving(k, Top)
    <3>1. f \in Call /\ f.node \in DOMAIN heap
      BY <2>2, <2>3, <2>4, Innermost, CallParts DEF Traverses, Addrs
    <3>2. f.pos \in DOMAIN heap[f.node].kids /\ Serving(k, Top)
      BY <2>4, <2>5 DEF Attends
    <3> QED  BY <2>5, <3>1, <3>2, Lists
  <2>7. Means(s, k, v)'
    BY <1>3, <1>4, <2>6, SameMeaning
  <2> QED  BY <1>2, <1>3, <2>2, <2>3, <2>5, <2>7
<1> QED  BY <1>3, <1>5, <1>6

LEMMA StepReplied ==
    ASSUME NEW s, NEW F, NEW G, NEW rank, Amid(s, F, G, rank)
    PROVE  Replied(s, G)'
<1>1. result.status # "ok"
  BY Innermost DEF Amid, Sound, Replied
<1>2. result' = result /\ web' = web
  <2>1. PICK f, g : Moved(F, G, f, g)
    BY SomeMove
  <2> QED  BY <2>1 DEF Moved, Become, Invoke, Return, Amid, Around
<1>3. ASSUME stack' = <<>>, ret' # NoRet
      PROVE  Denotes(s, result.url, ret)'
  <2>1. ReturnIndexed \/ Include \/ RefResolved \/ ReturnScalar \/ Finish
    <3>1. \A f, g : ~Become(f) /\ ~Invoke(f, g)
      BY <1>3 DEF Become, Invoke
    <3>2. ~(FollowDirective \/ OpenSeq \/ OpenMap \/ OpenGraph \/ Descend \/ Load)
      BY <3>1 DEF FollowDirective, OpenSeq, OpenMap, OpenGraph, Descend, Load
    <3>3. ~(ReplaceKid \/ SpliceKids)
      BY <3>1 DEF ReplaceKid, SpliceKids
    <3> QED  BY <3>2, <3>3, Calling DEF Amid
  <2>2. PICK v : Return(v)
    BY <2>1, ReturnMove
  <2>3. PICK n : n = Len(stack)
    OBVIOUS
  <2>4. n = 1 /\ stack[1] = Top
    <3>1. n \in Nat \ {0} /\ stack[n] = Top /\ DOMAIN stack' = 1 .. n - 1
      BY <2>2, <2>3, Innermost, StackShape
    <3>2. DOMAIN stack' = {}
      BY <1>3
    <3>3. n > 1 => 1 \in 1 .. n - 1
      BY <3>1
    <3>4. n = 1 \/ n > 1
      BY <3>1
    <3> QED  BY <3>1, <3>2, <3>3, <3>4
  <2>5. Top.fn = "resolve_ref" /\ Top.mode = "string" /\ Top.url = result.url
    BY <2>4, Innermost DEF Amid, Asked
  <2>6. ReturnIndexed \/ RefResolved
    BY <2>1, <2>5 DEF Include, ReturnScalar, Finish, Running
  <2>7. v = ret' /\ Denotes(s, result.url, v)
    BY <2>2, <2>5, <2>6, Looked DEF Return
  <2>8. PICK u : u = result.url
    OBVIOUS
  <2>9. Denotes(s, u, v)'
    BY <1>2, <2>7, <2>8, SameMeaning
  <2> QED  BY <1>2, <2>7, <2>8, <2>9
<1> QED  BY <1>1, <1>2, <1>3 DEF Replied

----------------------------------------------------------------------------
(* What the index has *)

\* The innermost call after a step.
LEMMA TopAfter ==
    ASSUME NEW s, NEW F, NEW G, NEW rank, Amid(s, F, G, rank), NEW f, NEW g
    PROVE  /\ Become(f) => stack' # <<>> /\ Top' = f
           /\ Invoke(f, g) => stack' # <<>> /\ Top' = g
<1>1. PICK n, m : n = Len(stack) /\ m = Len(stack')
  OBVIOUS
<1>2. /\ Whole /\ stack # <<>> /\ n \in Nat \ {0}
      /\ m \in Nat /\ DOMAIN stack' = 1 .. m
  BY <1>1, Innermost, LenProperties DEF Amid, Whole, Control
<1>3. CASE Become(f)
  <2>1. DOMAIN stack' = 1 .. n /\ stack'[n] = f
    BY <1>1, <1>2, <1>3, StackShape
  <2>2. m = n
    BY <1>2, <2>1
  <2>3. stack' # <<>> /\ Top' = f
    BY <1>1, <1>2, <2>1, <2>2 DEF Top, Last
  <2>4. ~Invoke(f, g)
    <3>1. n + 1 \notin DOMAIN stack' /\ n + 1 \in 1 .. n + 1
      BY <1>2, <2>1
    <3> QED  BY <1>1, <1>2, <3>1, StackAfter
  <2> QED  BY <2>3, <2>4
<1>4. CASE Invoke(f, g) /\ ~Become(f)
  <2>1. DOMAIN stack' = 1 .. n + 1 /\ stack'[n + 1] = g
    BY <1>1, <1>2, <1>4, StackAfter
  <2>2. m = n + 1
    BY <1>2, <2>1
  <2>3. stack' # <<>> /\ Top' = g
    BY <1>1, <1>2, <2>1, <2>2 DEF Top, Last
  <2> QED  BY <1>4, <2>3
<1> QED  BY <1>3, <1>4

\* Only the innermost call has just begun.
LEMMA EnteredNow ==
    ASSUME NEW s, NEW F, NEW G, NEW rank, Amid(s, F, G, rank), NEW a
    PROVE  Entered(a) <=> Traverses(Top) /\ Top.node = a /\ Top.at = "enter"
<1>1. Waiting
  BY DEF Amid, Sound, Chain
<1>2. ASSUME NEW i \in DOMAIN stack, stack[i].at = "enter" PROVE stack[i] = Top
  <2>1. i = Len(stack)
    BY <1>1, <1>2, Innermost DEF Waiting
  <2> QED  BY <2>1, Innermost
<1> QED  BY <1>2, Innermost DEF Entered

LEMMA EnteredNext ==
    ASSUME NEW s, NEW F, NEW G, NEW rank, Amid(s, F, G, rank), NEW a, Entered(a)'
    PROVE  stack' # <<>> /\ ret' = NoRet /\ Traverses(Top)' /\ Top'.node = a /\ Top'.at = "enter"
<1>1. Waiting'
  BY StepChain DEF Chain
<1>2. PICK i \in DOMAIN stack' : Traverses(stack[i])' /\ stack'[i].node = a /\ stack'[i].at = "enter"
  BY DEF Entered
<1>3. ret' = NoRet /\ ~(i < Len(stack'))
  BY <1>1, <1>2 DEF Waiting
<1>4. DOMAIN stack' = 1 .. Len(stack') /\ Len(stack') \in Nat
  BY LenProperties DEF Amid, Whole, Control
<1>5. i = Len(stack') /\ stack' # <<>>
  BY <1>3, <1>4
<1> QED  BY <1>2, <1>3, <1>5 DEF Top, Last, Traverses

\* A map has just been begun when it was taken out of F.
LEMMA MapsEntered ==
    ASSUME NEW s, NEW F, NEW G, NEW rank, Amid(s, F, G, rank),
           NEW a \in DOMAIN heap, web.heap[a].kind = "map"
    PROVE  Entered(a)' <=> a \in F \ G
<1>1. /\ Text \notin DOMAIN heap /\ F \subseteq DOMAIN heap
      /\ heap[a].kind = "map" /\ a # Text
  BY Innermost, Shape DEF Amid, Around, Fresh, Untouched
<1>2. ASSUME NEW f, NEW g, Invoke(f, g), G = F \ {g.node}, g.at = "enter",
             g.fn = "resolve_all" \/ heap[g.node].kind \in {"import", "mixin"},
             g.node # Text => g.node \in F
      PROVE  Entered(a)' <=> a \in F \ G
  <2>1. stack' # <<>> /\ Top' = g
    BY <1>2, TopAfter
  <2>2. Entered(a)' => a = g.node
    BY <2>1, EnteredNext
  <2>3. ASSUME a = g.node PROVE Entered(a)'
    <3>1. g.fn = "resolve_all"
      BY <1>1, <1>2, <2>3
    <3>2. Traverses(g)
      BY <1>1, <2>3, <3>1 DEF Traverses
    <3>3. Len(stack') \in DOMAIN stack' /\ stack'[Len(stack')] = g
      <4>1. DOMAIN stack' = 1 .. Len(stack') /\ Len(stack') \in Nat /\ Len(stack') # 0
        BY <2>1, LenProperties, EmptySeq DEF Amid, Whole, Control
      <4> QED  BY <2>1, <4>1 DEF Top, Last
    <3> QED  BY <1>2, <2>3, <3>2, <3>3 DEF Entered, Traverses
  <2> QED  BY <1>1, <1>2, <2>2, <2>3
<1>3. ASSUME NEW f, Become(f), f.at # "enter" \/ f.fn # "resolve_all"
      PROVE  ~Entered(a)'
  <2>1. stack' # <<>> /\ Top' = f
    BY <1>3, TopAfter
  <2> QED  BY <1>3, <2>1, EnteredNext DEF Traverses
<1>4. CASE ReturnIndexed \/ Include \/ RefResolved \/ ReturnScalar \/ Finish
  <2>1. PICK v : Return(v) /\ G = F
    BY <1>4, ReturnMove
  <2>2. v # NoRet
    BY <2>1, <1>4, ReturnMeans, Innermost DEF Outcomes, Addrs, Whole, Store, NoRet, Text
  <2>3. ret' # NoRet
    BY <2>1, <2>2 DEF Return
  <2> QED  BY <2>1, <2>3, EnteredNext
<1>5. CASE FollowDirective
  <2>1. PICK f : Become(f) /\ G = F /\ f.fn = "resolve_ref"
    BY <1>5, FollowMove
  <2> QED  BY <1>3, <2>1
<1>6. CASE OpenSeq \/ OpenMap
  <2>1. PICK f : Become(f) /\ G = F /\ f.at = "iterate"
    BY <1>6, OpenMove
  <2> QED  BY <1>3, <2>1
<1>7. CASE OpenGraph
  <2>1. PICK f : Become(f) /\ G = F \ {f.node} /\ f.at = "iterate" /\ web.heap[f.node].kind = "seq"
    BY <1>7, GraphMove
  <2> QED  BY <1>3, <2>1
<1>8. CASE Descend
  <2>1. PICK f, g : /\ Invoke(f, g) /\ G = F \ {g.node} /\ g.at = "enter"
                    /\ g.fn = "resolve_all" \/ heap[g.node].kind \in {"import", "mixin"}
                    /\ g.node # Text => g.node \in F
    BY <1>8, DescendMove
  <2> QED  BY <1>2, <2>1
<1>9. CASE Load
  <2>1. PICK f, g : /\ Invoke(f, g) /\ G = F \ {g.node} /\ g.at = "enter"
                    /\ g.fn = "resolve_all" /\ (g.node # Text => g.node \in F)
    BY <1>9, LoadMove
  <2> QED  BY <1>2, <2>1
<1>10. CASE ReplaceKid \/ SpliceKids
  <2>1. PICK f, kids : Refills(F, G, f, kids)
    BY <1>10, LoopMove
  <2>2. Become(f) /\ G = F /\ f.at = "iterate"
    BY <2>1 DEF Refills
  <2> QED  BY <1>3, <2>2
<1> QED  BY <1>4, <1>5, <1>6, <1>7, <1>8, <1>9, <1>10, Calling DEF Amid

\* Opening a map expands its links, and leaves everything else of it but the identifier.
LEMMA OpenMapLinks ==
    ASSUME Whole, OpenMap
    PROVE  \A a \in DOMAIN heap :
              /\ heap'[a].syms = heap[a].syms
              /\ a # Top.node => heap'[a].links = heap[a].links
              /\ a = Top.node =>
                    heap'[a].links = {ExpandRef(l, Identified(Top).base) : l \in heap[a].links}
<1>1. stack # <<>> /\ Top \in Call /\ Top.node \in DOMAIN heap
  BY TopOK, CallParts, InHand DEF OpenMap, Running, Whole
<1> DEFINE i  == Identified(Top)
           ns == Scope(Top)
<1>2. PICK x \in Url \union {NoUrl} : i.heap = [heap EXCEPT ![Top.node].id = x]
  BY <1>1, IdentifiedOK
<1>3. heap' = Normalized(i.heap, Top.node, i.base, ns)
  BY DEF OpenMap
<1> HIDE DEF i, ns
<1> DEFINE fields == {"kind", "home", "id", "ref", "rebase", "kids", "links", "syms", "declares", "uses", "bound"}
<1>4. \A a \in DOMAIN heap : DOMAIN heap[a] = fields
  BY DEF Whole, Store, Node
<1>5. /\ DOMAIN i.heap = DOMAIN heap
      /\ \A a \in DOMAIN heap : /\ DOMAIN i.heap[a] = fields
                                /\ i.heap[a].links = heap[a].links
                                /\ i.heap[a].syms = heap[a].syms
  BY <1>1, <1>2, <1>4
<1> DEFINE p     == i.heap[Top.node]
           links == {ExpandRef(l, i.base) : l \in p.links}
           bound == p.bound \union (p.uses \intersect ns)
<1>6. heap' = [[i.heap EXCEPT ![Top.node].links = links] EXCEPT ![Top.node].bound = bound]
  BY <1>1, <1>3, <1>5 DEF Normalized
<1>7. links = {ExpandRef(l, i.base) : l \in heap[Top.node].links}
  BY <1>1, <1>5
<1> HIDE DEF p, links, bound
<1> DEFINE g == [i.heap EXCEPT ![Top.node].links = links]
<1>8. /\ DOMAIN g = DOMAIN heap
      /\ \A a \in DOMAIN heap : /\ DOMAIN g[a] = fields
                                /\ g[a].syms = heap[a].syms
                                /\ g[a].links = IF a = Top.node THEN links ELSE heap[a].links
  BY <1>1, <1>5
<1>9. heap' = [g EXCEPT ![Top.node].bound = bound]
  BY <1>6
<1> HIDE DEF g
<1>10. \A a \in DOMAIN heap : /\ heap'[a].syms = heap[a].syms
                              /\ heap'[a].links = IF a = Top.node THEN links ELSE heap[a].links
  BY <1>1, <1>8, <1>9
<1> HIDE DEF fields
<1> QED  BY <1>7, <1>10 DEF i

\* fetch() names the map of a document that has no identifier, and nothing else.
LEMMA LoadNames ==
    ASSUME NEW s, NEW F, NEW G, NEW rank, Amid(s, F, G, rank), Load,
           NEW root, root = web.root[Top.url.doc], NEW d, d = RootUrl(Top.url.doc)
    PROVE  /\ \A a \in DOMAIN heap :
                  /\ heap'[a].links = heap[a].links /\ heap'[a].syms = heap[a].syms
                  /\ heap'[a].id = IF a = root /\ heap[a].kind # "seq" /\ heap[a].id = NoUrl
                                   THEN d ELSE heap[a].id
           /\ \A u \in DOMAIN idx' :
                  \/ u \in DOMAIN idx /\ idx'[u] = idx[u]
                  \/ idx'[u] = root /\ (u = d \/ root # Text)
<1>1. Top.fn = "resolve_ref" /\ Top \in Call /\ Top.url.doc \in Docs
  BY Innermost, LoadMove
<1>2. d = DocUrl(Top.url) /\ d \notin DOMAIN idx
  BY Innermost, LoadHeap
<1>3. /\ heap' = Parsed(d, root, TRUE).heap /\ idx' = Parsed(d, root, TRUE).idx
  <2>1. d.doc = Top.url.doc
    BY DEF RootUrl
  <2>2. heap' = Fetched(Top).heap /\ idx' = Fetched(Top).idx /\ Top.mode # "mixin"
    BY DEF Load
  <2> QED  BY <1>2, <2>1, <2>2 DEF Fetched
<1>4. \A a \in DOMAIN heap : heap[a] \in Node(Addrs)
  BY Innermost DEF Whole, Store
<1>5. root \in Addrs /\ Text \notin DOMAIN heap
  BY LoadMove, Innermost, Shape
<1>6. \A a \in DOMAIN heap :
          /\ heap'[a].links = heap[a].links /\ heap'[a].syms = heap[a].syms
          /\ heap'[a].id = IF a = root /\ heap[a].kind # "seq" /\ heap[a].id = NoUrl
                           THEN d ELSE heap[a].id
  <2>1. CASE IsMapping(root) /\ heap[root].id = NoUrl
    <3>1. heap' = [heap EXCEPT ![root].id = d] /\ root \in DOMAIN heap /\ heap[root].kind # "seq"
      BY <1>3, <1>5, <2>1 DEF Parsed, IsMapping, Addrs
    <3> QED  BY <1>4, <2>1, <3>1 DEF Node
  <2>2. CASE ~(IsMapping(root) /\ heap[root].id = NoUrl)
    <3>1. heap' = heap
      BY <1>3, <2>2 DEF Parsed
    <3> QED  BY <1>5, <2>2, <3>1 DEF IsMapping
  <2> QED  BY <2>1, <2>2
<1>7. \A u \in DOMAIN idx' :
          \/ u \in DOMAIN idx /\ idx'[u] = idx[u]
          \/ idx'[u] = root /\ (u = d \/ root # Text)
  BY <1>3 DEF Parsed, Bind, IsMapping
<1> QED  BY <1>6, <1>7

\* What a step adds to the index.
LEMMA NewInIndex ==
    ASSUME NEW s, NEW F, NEW G, NEW rank, Amid(s, F, G, rank), NEW u \in DOMAIN idx'
    PROVE  \/ u \in DOMAIN idx /\ idx'[u] = idx[u]
           \/ (OpenMap \/ OpenGraph) /\ idx'[u] = Top.node
           \/ OpenMap /\ idx'[u] = Text /\ IsSymbol(s, u)
           \/ /\ Load /\ idx'[u] = web.root[Top.url.doc]
              /\ idx'[u] = Text => u = RootUrl(Top.url.doc)
<1>1. CASE idx' = idx
  BY <1>1
<1>2. CASE Load
  BY <1>2, LoadNames
<1>3. CASE OpenMap \/ OpenGraph
  <2>1. PICK i : i = Identified(Top)
    OBVIOUS
  <2>2. /\ Top.fn = "resolve_all" /\ Top.at = "enter" /\ IsKind(Top.node, {"map", "graph"})
    BY <1>3 DEF OpenMap, OpenGraph, Running, IsKind
  <2>3. \A x \in DOMAIN i.idx : (x \in DOMAIN idx /\ i.idx[x] = idx[x]) \/ i.idx[x] = Top.node
    BY <2>1 DEF Identified, Bind
  <2>4. CASE OpenGraph
    BY <2>1, <2>3, <2>4 DEF OpenGraph
  <2>5. CASE OpenMap
    <3>1. /\ idx' = Symbols(heap[Top.node], i.base, i.idx)
          /\ Top.node \in DOMAIN heap /\ heap[Top.node].kind = "map"
          /\ i.base = BaseBelow(web, s, Top.node)
      <4>1. idx' = Symbols(heap[Top.node], i.base, i.idx) /\ IsKind(Top.node, {"map"})
        BY <2>1, <2>5 DEF OpenMap
      <4> QED  BY <2>1, <2>2, <4>1, Innermost, IdentifiedNames DEF Amid, Ground
    <3>2. CASE u \in DOMAIN i.idx
      <4>1. idx'[u] = i.idx[u]
        BY <3>1, <3>2 DEF Symbols
      <4> QED  BY <2>3, <2>5, <3>2, <4>1
    <3>3. CASE u \notin DOMAIN i.idx
      <4>1. idx'[u] = Text /\ \E t \in heap[Top.node].syms : u = [i.base EXCEPT !.frag = @ \o t]
        BY <3>1, <3>3 DEF Symbols
      <4>2. /\ heap[Top.node].syms = web.heap[Top.node].syms /\ web.heap[Top.node].kind = "map"
            /\ Top.node \in DOMAIN web.heap
        BY <3>1, Innermost DEF Amid, Sound, Marks, Marked
      <4>3. IsSymbol(s, u)
        BY <3>1, <4>1, <4>2 DEF IsSymbol
      <4> QED  BY <2>5, <4>1, <4>3
    <3> QED  BY <3>2, <3>3
  <2> QED  BY <1>3, <2>4, <2>5
<1>4. idx' = idx \/ Load \/ OpenMap \/ OpenGraph
  <2>1. CASE ReplaceKid \/ SpliceKids
    BY <2>1 DEF ReplaceKid, SpliceKids
  <2> QED  BY <2>1, FollowMove, DescendMove, Calling DEF Amid, OpenSeq, objects
<1> QED  BY <1>1, <1>2, <1>3, <1>4

\* A scalar in the index stays one of a document or a symbol.
LEMMA StepScalars ==
    ASSUME NEW s, NEW F, NEW G, NEW rank, Amid(s, F, G, rank)
    PROVE  Scalars(s)'
<1>1. ASSUME NEW u \in DOMAIN idx', idx'[u] = Text
      PROVE  Denotes(s, u, Text)'
  <2>1. Denotes(s, u, Text)
    <3>1. CASE u \in DOMAIN idx /\ idx'[u] = idx[u]
      BY <1>1, <3>1 DEF Amid, Sound, Scalars
    <3>2. CASE (OpenMap \/ OpenGraph) /\ idx'[u] = Top.node
      BY <1>1, <3>2 DEF OpenMap, OpenGraph, IsKind
    <3>3. CASE IsSymbol(s, u)
      BY <3>3 DEF Denotes
    <3>4. CASE Load /\ web.root[Top.url.doc] = Text /\ u = RootUrl(Top.url.doc)
      <4>1. Top.url.doc \in Docs
        BY <3>4, LoadMove
      <4> QED  BY <3>4, <4>1 DEF Denotes
    <3> QED  BY <1>1, <3>1, <3>2, <3>3, <3>4, NewInIndex
  <2>2. web' = web
    BY DEF Amid, Around
  <2> QED  BY <2>1, <2>2, SameMeaning
<1> QED  BY <1>1 DEF Scalars

\* A $graph map keeps its list.
LEMMA UnwrapKept ==
    ASSUME NEW s, NEW F, NEW G, NEW rank, Amid(s, F, G, rank), NEW a \in Addrs
    PROVE  Unwrap(a)' = Unwrap(a)
<1>1. /\ DOMAIN heap' = DOMAIN heap /\ Bodies' /\ Fixed' /\ Bodies /\ Fixed /\ web' = web
  BY Innermost, OutcomesGrow DEF Amid, Around, Plain
<1>2. a # Text => /\ a \in DOMAIN heap /\ heap'[a].kind = heap[a].kind
                  /\ heap[a].kind = "graph" => heap'[a].kids = heap[a].kids
  BY <1>1 DEF Addrs, Bodies, Fixed, Written
<1> QED  BY <1>2 DEF Unwrap, IsKind

\* A call that has just begun with a pending object follows it, or gives its list.
LEMMA PendingNext ==
    ASSUME NEW s, NEW F, NEW G, NEW rank, Amid(s, F, G, rank), NEW a \in DOMAIN heap, Pending(a)
    PROVE  OpenGraph \/ Pending(a)'
<1>1. Top.at = "enter" /\ Top.node = a /\ a # Text /\ ret = NoRet
  BY Innermost, Shape DEF Pending
<1>2. CASE heap[a].kind = "graph" /\ Top.fn = "resolve_all"
  <2>1. ~FollowDirective /\ ~OpenSeq /\ ~OpenMap
    BY <1>1, <1>2, FollowMove, OpenMove DEF Directives
  <2>2. ~Descend /\ ~Load /\ ~ReplaceKid /\ ~SpliceKids
    BY <1>1, <1>2 DEF Descend, Load, ReplaceKid, SpliceKids, Running, Returned
  <2>3. ~(ReturnIndexed \/ Include \/ RefResolved \/ ReturnScalar \/ Finish)
    BY <1>1, <1>2 DEF ReturnIndexed, Include, RefResolved, ReturnScalar, Finish, Running, Returned
  <2> QED  BY <2>1, <2>2, <2>3, Calling DEF Amid
<1>3. CASE heap[a].kind \in Directives /\ heap[a].id # NoUrl
  <2>1. Top.fn # "resolve_ref"
    <3>1. SUFFICES ASSUME Top.fn = "resolve_ref" PROVE FALSE
      OBVIOUS
    <3>2. Overfull(Top)
      BY <1>1, <1>3, <3>1, Directed, Innermost DEF Overfull, Holds
    <3>3. ~(ReturnIndexed \/ Include \/ Load)
      BY <3>2 DEF ReturnIndexed, Include, Load, Structured
    <3>4. ~(FollowDirective \/ OpenSeq \/ OpenMap \/ OpenGraph \/ ReturnScalar)
      BY <3>1 DEF FollowDirective, OpenSeq, OpenMap, OpenGraph, ReturnScalar, Running
    <3>5. ~(Descend \/ ReplaceKid \/ SpliceKids \/ Finish \/ RefResolved)
      BY <1>1 DEF Descend, ReplaceKid, SpliceKids, Finish, RefResolved, Running, Returned
    <3> QED  BY <3>3, <3>4, <3>5, Calling DEF Amid
  <2>2. ~(OpenSeq \/ OpenMap \/ OpenGraph)
    BY <1>1, <1>3, OpenMove, GraphMove DEF Directives
  <2>3. ~(ReturnIndexed \/ Include \/ Load \/ RefResolved)
    BY <2>1, Innermost, CallParts DEF ReturnIndexed, Include, Load, RefResolved, Running, Returned
  <2>4. ~(Descend \/ ReplaceKid \/ SpliceKids \/ Finish \/ ReturnScalar)
    BY <1>1 DEF Descend, ReplaceKid, SpliceKids, Finish, ReturnScalar, Running, Returned
  <2>5. FollowDirective
    BY <2>2, <2>3, <2>4, Calling DEF Amid
  <2>6. PICK f : Become(f) /\ heap' = heap /\ f.at = "enter" /\ f.node = Top.node
    BY <2>5, FollowMove
  <2>7. stack' # <<>> /\ Top' = f
    BY <2>6, TopAfter
  <2> QED  BY <1>1, <1>3, <2>6, <2>7 DEF Pending
<1> QED  BY <1>2, <1>3 DEF Pending

LEMMA StepAvailable ==
    ASSUME NEW s, NEW F, NEW G, NEW rank, Amid(s, F, G, rank)
    PROVE  Available(G)'
<1>0. /\ DOMAIN heap' = DOMAIN heap /\ Addrs' = Addrs /\ web' = web
      /\ \A v \in Outcomes(F) : v \in Outcomes(G)'
      /\ Text \notin DOMAIN heap /\ F \subseteq DOMAIN heap
  BY Innermost, Shape, OutcomesGrow DEF Amid, Around, Fresh, Untouched
<1>1. \A u \in DOMAIN idx : idx[u] \in Addrs
  BY Innermost DEF Whole, Index
<1>2. /\ Text \in Outcomes(G)' /\ Unwrap(Text)' = Text
  BY <1>0 DEF Outcomes, Addrs, Unwrap, IsKind, Amid
<1>3. ASSUME NEW a \in DOMAIN heap, a \notin G, web.heap[a].kind \in {"map", "seq"}
      PROVE  Unwrap(a)' \in Outcomes(G)'
  <2>1. heap[a].kind = web.heap[a].kind /\ a \in Addrs
    BY <1>3, Innermost DEF Addrs
  <2>2. Unwrap(a) = a
    BY <1>3, <2>1 DEF Unwrap, IsKind
  <2>3. Unwrap(a)' = a
    BY <2>1, <2>2, UnwrapKept
  <2> QED  BY <1>0, <1>3, <2>1, <2>3 DEF Outcomes
<1>4. ASSUME OpenGraph
      PROVE  Unwrap(Top.node) \in Outcomes(G)' /\ Top.node \in Addrs
  <2>1. PICK f : /\ Become(f) /\ f.node = Written(Top.node)[1] /\ Top.node \in DOMAIN heap
                 /\ heap[Top.node].kind = "graph" /\ f.node \in DOMAIN heap /\ G = F \ {f.node}
                 /\ web.heap[f.node].kind = "seq"
    BY <1>4, GraphMove
  <2>2. Unwrap(Top.node) = f.node
    <3>1. heap[Top.node].kids = Written(Top.node)
      BY <2>1, Innermost DEF Amid, Around, Fixed
    <3> QED  BY <1>0, <2>1, <3>1 DEF Unwrap, IsKind
  <2>3. f.node \in Outcomes(G)'
    BY <1>0, <2>1 DEF Outcomes, Addrs
  <2> QED  BY <2>1, <2>2, <2>3 DEF Addrs
<1>5. ASSUME NEW u \in DOMAIN idx', NEW a, a = idx'[u]
      PROVE  Unwrap(a)' \in Outcomes(G)' \/ Pending(a)'
  <2>1. CASE a = Text
    BY <1>2, <2>1
  <2>2. CASE u \in DOMAIN idx /\ a = idx[u] /\ a # Text
    <3>1. a \in DOMAIN heap /\ a \in Addrs
      BY <1>1, <2>2 DEF Addrs
    <3>2. Unwrap(a)' = Unwrap(a)
      BY <3>1, UnwrapKept
    <3>3. CASE Unwrap(a) \in Outcomes(F)
      BY <1>0, <3>2, <3>3
    <3>4. CASE Pending(a)
      <4>1. Top.node = a
        BY <3>4 DEF Pending
      <4> QED  BY <1>4, <3>1, <3>2, <3>4, <4>1, PendingNext
    <3> QED  BY <2>2, <3>3, <3>4 DEF Amid, Sound, Available
  <2>3. CASE OpenMap /\ a = Top.node
    <3>1. a \in DOMAIN heap /\ heap[a].kind \in {"map", "seq"} /\ G = F /\ Top.fn = "resolve_all"
      BY <2>3, OpenMove
    <3>2. a \notin F /\ web.heap[a].kind \in {"map", "seq"}
      BY <1>0, <2>3, <3>1, Innermost DEF InPlace, Holds
    <3> QED  BY <1>3, <3>1, <3>2
  <2>4. CASE OpenGraph /\ a = Top.node
    BY <1>4, <2>4, UnwrapKept
  <2>5. CASE Load /\ a = web.root[Top.url.doc] /\ a # Text
    <3>1. PICK f, g : /\ Invoke(f, g) /\ G = F \ {a} /\ g.node = a /\ g.at = "enter"
                      /\ g.fn = "resolve_all" /\ a \in DOMAIN heap
      BY <2>5, LoadMove
    <3>2. stack' # <<>> /\ Top' = g
      BY <3>1, TopAfter
    <3>3. heap[a].kind = web.heap[a].kind /\ heap'[a].kind = heap[a].kind
      BY <3>1, Innermost DEF Amid, Around, Bodies
    <3>4. heap[a].kind \in Kinds
      BY <3>1, Innermost DEF Whole, Store, Node
    <3>5. CASE heap[a].kind \in {"map", "seq"}
      BY <1>3, <3>1, <3>3, <3>5
    <3>6. CASE heap[a].kind = "graph"
      BY <3>1, <3>2, <3>3, <3>6 DEF Pending
    <3>7. CASE heap[a].kind \in Directives
      <4>1. PICK d : d = RootUrl(Top.url.doc)
        OBVIOUS
      <4>2. heap'[a].id = d \/ (heap[a].id # NoUrl /\ heap'[a].id = heap[a].id)
        BY <2>5, <3>1, <3>7, <4>1, LoadNames DEF Directives
      <4>3. d # NoUrl
        BY <2>5, <4>1, LoadMove, RootUrlOK, AbsIsUrl
      <4> QED  BY <3>1, <3>2, <3>3, <3>7, <4>2, <4>3 DEF Pending
    <3> QED  BY <3>4, <3>5, <3>6, <3>7 DEF Kinds, Directives
  <2> QED  BY <1>5, <2>1, <2>2, <2>3, <2>4, <2>5, NewInIndex
<1> QED  BY <1>5 DEF Available

\* What a step does to the identifier and the links of a map.
LEMMA MapKept ==
    ASSUME NEW s, NEW F, NEW G, NEW rank, Amid(s, F, G, rank),
           NEW a \in DOMAIN heap, web.heap[a].kind = "map"
    PROVE  /\ heap'[a].syms = heap[a].syms
           /\ heap'[a].links = heap[a].links \/ (OpenMap /\ a = Top.node)
           /\ \/ heap'[a].id = heap[a].id
              \/ OpenMap /\ a = Top.node
              \/ Load /\ a = web.root[Top.url.doc]
<1>1. \A b \in DOMAIN heap : heap[b] \in Node(Addrs)
  BY Innermost DEF Whole, Store
<1>2. CASE Load
  <2>1. PICK root, d : root = web.root[Top.url.doc] /\ d = RootUrl(Top.url.doc)
    OBVIOUS
  <2> QED  BY <1>2, <2>1, LoadNames
<1>3. CASE OpenMap
  <2>1. Top.fn = "resolve_all" /\ Top.at = "enter" /\ IsKind(Top.node, {"map"})
    BY <1>3 DEF OpenMap, Running
  <2>2. \A b \in DOMAIN heap : b # Top.node => Identified(Top).heap[b].id = heap[b].id
    BY <2>1, Innermost, IdentifiedNames DEF Amid, Ground
  <2> QED  BY <1>3, <2>2, Innermost, OpenMapHeap, OpenMapLinks
<1>4. CASE OpenGraph
  <2>1. Top.node \in DOMAIN heap /\ heap[Top.node].kind = "graph" /\ a # Top.node
    BY <1>4, GraphMove, Innermost
  <2>2. Top \in Call /\ heap' = Identified(Top).heap
    BY <1>4, Innermost DEF OpenGraph
  <2>3. PICK x : Identified(Top).heap = [heap EXCEPT ![Top.node].id = x]
    BY <2>1, <2>2, Innermost, IdentifiedOK
  <2> QED  BY <1>1, <2>1, <2>2, <2>3 DEF Node
<1>5. CASE ReplaceKid \/ SpliceKids
  <2>1. PICK f, kids : Refills(F, G, f, kids)
    BY <1>5, LoopMove
  <2>2. heap' = [heap EXCEPT ![Top.node].kids = kids]
    BY <2>1 DEF Refills
  <2> QED  BY <1>1, <2>2 DEF Node
<1>6. CASE heap' = heap
  BY <1>6
<1> QED
  BY <1>2, <1>3, <1>4, <1>5, <1>6, FollowMove, DescendMove, Calling DEF Amid, OpenSeq, objects

\* A map that is opened gets its identifier and its links.
LEMMA OpenMarks ==
    ASSUME NEW s, NEW F, NEW G, NEW rank, Amid(s, F, G, rank), OpenMap, NEW a, a = Top.node
    PROVE  /\ heap'[a].id = Title(s, a) /\ heap'[a].links = Expansions(s, a)
<1>1. /\ Top.fn = "resolve_all" /\ Top.at = "enter" /\ IsKind(Top.node, {"map"})
  BY DEF OpenMap, Running
<1>2. PICK i : i = Identified(Top)
  OBVIOUS
<1>3. /\ a \in DOMAIN heap /\ heap[a].kind = "map" /\ Top.base = s[a] /\ Traverses(Top)
      /\ web.heap[a].kind = "map" /\ heap[a].home = web.heap[a].home
  <2>1. Top.node \in DOMAIN heap /\ heap[Top.node].kind = "map" /\ Top.base = s[Top.node]
    BY <1>1, Innermost, IdentifiedNames DEF Amid, Ground
  <2> QED  BY <1>1, <2>1, Innermost, Traversing
<1>4. /\ Marked(s, F, a) /\ Entered(a) /\ a \notin F
  <2>1. Entered(a)
    BY <1>1, <1>3, EnteredNow
  <2> QED  BY <1>3, <2>1, Innermost DEF Amid, Sound, Marks, InPlace, Holds, Traverses
<1>5. heap'[a].id = IF heap[a].id # NoUrl THEN ExpandId(heap[a].id, Based(heap[a], s[a])) ELSE NoUrl
  <2>1. heap'[a].id = i.heap[a].id
    BY <1>2, <1>3, Innermost, OpenMapHeap
  <2>2. heap[a] \in Node(Addrs)
    BY <1>3, Innermost DEF Whole, Store
  <2>3. CASE heap[a].id # NoUrl
    <3>1. PICK url : url = ExpandId(heap[a].id, Based(heap[a], s[a]))
      OBVIOUS
    <3>2. i.heap = [heap EXCEPT ![a].id = url]
      BY <1>2, <1>3, <2>3, <3>1 DEF Identified
    <3> QED  BY <1>3, <2>1, <2>2, <2>3, <3>1, <3>2 DEF Node
  <2>4. CASE heap[a].id = NoUrl
    <3>1. i.heap = heap
      BY <1>2, <2>4 DEF Identified
    <3> QED  BY <2>1, <2>4, <3>1
  <2> QED  BY <2>3, <2>4
<1>6. heap'[a].id = Title(s, a)
  <2>1. Renamed(s, a) /\ Renames(s) /\ Unique(s)
    BY <1>3 DEF Amid, Ground, Indexed, Renames
  <2>2. CASE web.heap[a].id # NoUrl
    <3>1. Title(s, a) = FullName(web, s, a)
      BY <1>3, <2>2 DEF Title, Named
    <3>2. FullName(web, s, a) \in AbsUrl /\ NoUrl \notin AbsUrl
          /\ Based(heap[a], s[a]) = Based(web.heap[a], s[a])
      BY <1>3, <2>1, <2>2, Absolute, AbsIsUrl
    <3>3. heap[a].id \in {web.heap[a].id, FullName(web, s, a)} /\ heap[a].id # NoUrl
      BY <2>1, <2>2, <3>2 DEF Renamed
    <3>4. ExpandId(FullName(web, s, a), Based(web.heap[a], s[a])) = FullName(web, s, a)
      BY <3>2, AbsoluteName
    <3> QED  BY <1>5, <3>1, <3>2, <3>3, <3>4 DEF FullName
  <2>3. CASE web.heap[a].id = NoUrl
    <3>1. heap[a].id = Title(s, a)
      BY <1>4, <2>3 DEF Marked
    <3>2. CASE heap[a].id = NoUrl
      BY <1>5, <3>1, <3>2
    <3>3. CASE heap[a].id # NoUrl
      <4>1. PICK d \in Docs : heap[a].id = RootUrl(d)
        BY <2>1, <2>3, <3>3 DEF Renamed
      <4>2. ExpandId(heap[a].id, Based(heap[a], s[a])) = heap[a].id
        BY <4>1, RootUrlOK, AbsoluteName
      <4> QED  BY <1>5, <3>1, <3>3, <4>2
    <3> QED  BY <3>2, <3>3
  <2> QED  BY <2>2, <2>3
<1>7. heap'[a].links = Expansions(s, a)
  <2>1. heap'[a].links = {ExpandRef(l, i.base) : l \in heap[a].links}
    BY <1>2, <1>3, Innermost, OpenMapLinks
  <2>2. i.base = BaseBelow(web, s, a)
    BY <1>1, <1>2, Innermost, IdentifiedNames DEF Amid, Ground
  <2>4. heap[a].links = web.heap[a].links
    BY <1>4 DEF Marked
  <2> QED  BY <2>1, <2>2, <2>4 DEF Expansions
<1> QED  BY <1>6, <1>7

\* A map that is taken out of F without an identifier has the one that it shall have.
LEMMA TakenMarks ==
    ASSUME NEW s, NEW F, NEW G, NEW rank, Amid(s, F, G, rank),
           NEW a \in F \ G, web.heap[a].kind = "map", web.heap[a].id = NoUrl
    PROVE  heap'[a].id = Title(s, a)
<1>0. a \in DOMAIN heap /\ heap[a].kind = "map" /\ heap[a].home = web.heap[a].home /\ a # Text
  BY Innermost, Shape DEF Amid, Around, Fresh, Untouched
<1>1. heap[a].id = NoUrl
  BY <1>0 DEF Amid, Sound, Marks, Marked
<1>2. Title(s, a) = IF web.root[web.heap[a].home] = a THEN RootUrl(web.heap[a].home) ELSE NoUrl
  BY DEF Title, Named
<1>3. CASE Load
  <2>1. PICK d, root : d = RootUrl(Top.url.doc) /\ root = web.root[Top.url.doc]
    OBVIOUS
  <2>2. a = root /\ Top.url.doc \in Docs
    BY <1>3, <2>1, LoadMove
  <2>3. heap'[a].id = d
    BY <1>0, <1>1, <1>3, <2>1, <2>2, LoadNames
  <2>4. web.heap[a].home = Top.url.doc
    BY <1>0, <2>1, <2>2, Innermost, ChildHome DEF Amid, Ground
  <2> QED  BY <1>2, <2>1, <2>2, <2>3, <2>4
<1>4. CASE ~Load
  <2>1. \E b \in DOMAIN heap : a \in Offspring(b)
    <3>1. CASE Descend
      <4>1. PICK kid, b : /\ kid = heap[Top.node].kids[Top.pos] /\ b = Top.node
        OBVIOUS
      <4>2. /\ G = F \ {kid} /\ b \in DOMAIN heap
            /\ kid # Text => kid \in Offspring(b)
        BY <3>1, <4>1, DescendMove
      <4> QED  BY <1>0, <4>2
    <3>2. CASE OpenGraph
      BY <3>2, GraphMove
    <3> QED  BY <1>4, <3>1, <3>2 DEF Amid, Takes
  <2>2. web.root[web.heap[a].home] # a
    <3>1. web.heap[a].home \in Docs
      BY <1>0, Innermost DEF Whole, Store, Node
    <3> QED  BY <2>1, <3>1, Innermost, Shape
  <2>3. ~(OpenMap /\ a = Top.node)
    <3>1. OpenMap => Holds(Top)
      BY DEF OpenMap, IsKind, Holds
    <3> QED  BY <3>1, Innermost DEF InPlace
  <2>4. heap'[a].id = heap[a].id
    BY <1>0, <1>4, <2>3, Innermost, MapKept
  <2> QED  BY <1>1, <1>2, <2>2, <2>4
<1> QED  BY <1>3, <1>4

LEMMA StepMarks ==
    ASSUME NEW s, NEW F, NEW G, NEW rank, Amid(s, F, G, rank)
    PROVE  Marks(s, G)'
<1>0. DOMAIN heap' = DOMAIN heap /\ web' = web /\ G \subseteq F
  BY Innermost, OutcomesGrow DEF Amid, Around
<1>1. SUFFICES ASSUME NEW a \in DOMAIN heap, web.heap[a].kind = "map"
               PROVE  Marked(s, G, a)'
  BY <1>0 DEF Marks
<1>2. Marked(s, F, a) /\ (Entered(a)' <=> a \in F \ G)
  BY <1>1, MapsEntered DEF Amid, Sound, Marks
<1>3. Title(s, a)' = Title(s, a) /\ Expansions(s, a)' = Expansions(s, a)
  BY <1>0, SameMeaning
<1>4. heap'[a].syms = web'.heap[a].syms
  BY <1>0, <1>1, <1>2, MapKept DEF Marked
<1>5. CASE a \in F
  <2>1. ~(OpenMap /\ a = Top.node)
    <3>1. OpenMap => Holds(Top)
      BY DEF OpenMap, IsKind, Holds
    <3> QED  BY <1>5, <3>1, Innermost DEF InPlace
  <2>2. heap'[a].links = web.heap[a].links
    BY <1>1, <1>2, <1>5, <2>1, MapKept DEF Marked
  <2>3. CASE a \in G
    <3>1. ~(Load /\ a = web.root[Top.url.doc])
      BY <2>3, LoadMove
    <3>2. heap'[a].id = web.heap[a].id
      BY <1>1, <1>2, <1>5, <2>1, <3>1, MapKept DEF Marked
    <3> QED  BY <1>0, <1>2, <1>4, <2>2, <2>3, <3>2 DEF Marked
  <2>4. CASE a \notin G
    <3>1. web.heap[a].id = NoUrl => heap'[a].id = Title(s, a)
      BY <1>1, <1>5, <2>4, TakenMarks
    <3> QED  BY <1>0, <1>2, <1>3, <1>4, <1>5, <2>2, <2>4, <3>1 DEF Marked
  <2> QED  BY <2>3, <2>4
<1>6. CASE a \notin F
  <2>1. heap'[a].id = Title(s, a) /\ heap'[a].links = Expansions(s, a)
    <3>1. CASE OpenMap /\ a = Top.node
      BY <3>1, OpenMarks
    <3>2. CASE ~(OpenMap /\ a = Top.node)
      <4>1. ~Entered(a)
        <5>1. SUFFICES ASSUME Traverses(Top), Top.node = a, Top.at = "enter" PROVE FALSE
          BY EnteredNow
        <5>2. heap[a].kind = "map" /\ Top.fn = "resolve_all" /\ a # Text
          BY <1>1, <5>1, Innermost DEF Traverses
        <5>3. ~(FollowDirective \/ OpenSeq \/ OpenGraph \/ Descend \/ Load \/ ReplaceKid \/ SpliceKids)
          BY <5>1, <5>2, FollowMove, OpenMove, GraphMove
             DEF Descend, Load, ReplaceKid, SpliceKids, Running, Returned, Directives
        <5>4. ~(ReturnIndexed \/ Include \/ RefResolved \/ ReturnScalar \/ Finish)
          BY <5>1, <5>2 DEF ReturnIndexed, Include, RefResolved, ReturnScalar, Finish, Running, Returned
        <5> QED  BY <3>2, <5>1, <5>3, <5>4, Calling DEF Amid
      <4>2. ~(Load /\ a = web.root[Top.url.doc])
        BY <1>1, <1>6, LoadMove, Innermost, Shape
      <4>3. heap'[a].id = heap[a].id /\ heap'[a].links = heap[a].links
        BY <1>1, <3>2, <4>2, MapKept
      <4> QED  BY <1>2, <1>6, <4>1, <4>3 DEF Marked
    <3> QED  BY <3>1, <3>2
  <2> QED  BY <1>0, <1>2, <1>3, <1>4, <1>6, <2>1 DEF Marked
<1> QED  BY <1>5, <1>6

LEMMA StepSound ==
    ASSUME NEW s, NEW F, NEW G, NEW rank, Amid(s, F, G, rank)
    PROVE  Sound(s, G, rank)'
  BY StepChain, StepDelivered, FinishedAfter, StepAvailable, StepScalars, StepMarks, StepReplied DEF Sound

----------------------------------------------------------------------------
(* The whole run *)

LEMMA StepAmid ==
    ASSUME NEW s, NEW F, NEW rank, Ground(s, F), Fields(F), Acyclic(web, s, rank),
           Sound(s, F, rank), Asked, Loaded, IncludedApart(s), Step, ~Answer, ~broken, ~broken'
    PROVE  \E G : Amid(s, F, G, rank)
<1>1. /\ Plain /\ DistinctNames(web, s) /\ Indexed(s) /\ Fresh(F) /\ OwnDocuments(web) /\ Homes
      /\ Whole /\ TreeShaped(web) /\ ~Mixes /\ Fixed /\ Calls /\ Mapped
  BY DEF Ground, Fields, Unique, Plain
<1>2. [Next]_vars
  BY DEF Next
<1>3. web' = web /\ Bodies' /\ Fixed' /\ Untold /\ Whole' /\ Homes'
  BY <1>1, <1>2, SameWeb, BodiesKept, OneWritten, NextOK, StepHomes DEF Traversal, Plain
<1>4. Lasting
  <2>1. Stable
    BY <1>2, StepIndexed DEF Ground
  <2> QED  BY <1>1, <1>3, <2>1, StandsKept
<1>5. stack # <<>>
  BY DEF Step, RejectDirective, ReturnIndexed, Include, ReportMissing, LoadFails, RefResolved, Load,
         LoadMixin, ReturnScalar, FollowDirective, OpenSeq, OpenMap, OpenGraph, Descend, ReplaceKid,
         SpliceKids, Finish, Overflow, Running, Returned
<1>6. PICK G : G \subseteq F /\ Takes(F, G) /\ Fresh(G)'
  BY <1>1, <1>2, StepTakes
<1>7. Around(F)
  BY <1>1, <1>3, <1>4, <1>5 DEF Around
<1> QED  BY <1>3, <1>6, <1>7 DEF Amid

\* An object on which no call begins or ends its work stays as done as it is.
LEMMA SameRework ==
    ASSUME NEW s, NEW F, web' = web, heap' = heap, \A v : Visited(v)' <=> Visited(v)
    PROVE  /\ \A v : v \in Outcomes(F)' <=> v \in Outcomes(F)
           /\ \A a, pos : Reworked(s, F, a, pos)' <=> Reworked(s, F, a, pos)
<1>1. \A v : v \in Outcomes(F)' <=> v \in Outcomes(F)
  BY DEF Outcomes, Addrs
<1>2. \A a, k, v : Portion(s, F, a, k, v)' <=> Portion(s, F, a, k, v)
  BY <1>1, SameMeaning DEF Portion
<1>3. \A a, k, v, from, to : Placed(a, k, v, from, to)' <=> Placed(a, k, v, from, to)
  BY SameMeaning DEF Placed, Share
<1>4. \A a, n, cut : Cut(s, F, a, n, cut)' <=> Cut(s, F, a, n, cut)
  BY <1>2, <1>3 DEF Cut, Written
<1>5. \A a, n, pos : Raws(a, n, pos)' <=> Raws(a, n, pos)
  BY DEF Raws, Written
<1> QED  BY <1>1, <1>4, <1>5 DEF Reworked, Written

LEMMA IdleSound ==
    ASSUME NEW s, NEW F, NEW rank, Sound(s, F, rank),
           Answer \/ UNCHANGED vars \/ \E url \in Requests : Request(url)
    PROVE  Sound(s, F, rank)'
<1>0. web' = web /\ heap' = heap /\ idx' = idx
  BY DEF Answer, vars, Request, objects, world
<1>1. \/ UNCHANGED <<stack, ret, result>>
      \/ stack = <<>> /\ stack' = <<>> /\ ret # NoRet /\ Answer
      \/ /\ stack = <<>> /\ ret' = NoRet /\ result'.status = "none"
         /\ \E f : f.fn = "resolve_ref" /\ stack' = <<f>>
  BY DEF Answer, vars, Request, RefFrame, Idle
<1>2. \/ UNCHANGED <<stack, ret>>
      \/ DOMAIN stack = {} /\ DOMAIN stack' = {} /\ ret' = NoRet
      \/ DOMAIN stack = {} /\ DOMAIN stack' = {1} /\ ~Traverses(stack'[1]) /\ ret' = NoRet
  BY <1>1 DEF Traverses, Answer
<1>3. \A v : (Visited(v)' <=> Visited(v)) /\ (Entered(v)' <=> Entered(v))
  BY <1>2 DEF Visited, Entered
<1>4. /\ \A v : v \in Outcomes(F)' <=> v \in Outcomes(F)
      /\ \A a, pos : Reworked(s, F, a, pos)' <=> Reworked(s, F, a, pos)
  BY <1>0, <1>3, SameRework
<1>5. Chain(s, F, rank)'
  <2>1. ASSUME NEW f, NEW g
        PROVE  /\ Advanced(s, F, f)' <=> Advanced(s, F, f)
               /\ Attends(f, g)' <=> Attends(f, g)
    <3>1. Advanced(s, F, f)' <=> Advanced(s, F, f)
      BY <1>0, <1>4 DEF Advanced, Written
    <3>2. Attends(f, g)' <=> Attends(f, g)
      BY <1>0 DEF Attends, Serving, Traverses, Written
    <3> QED  BY <3>1, <3>2
  <2>2. CASE UNCHANGED <<stack, ret>>
    BY <2>1, <2>2 DEF Sound, Chain, Falls, Waiting
  <2>3. CASE DOMAIN stack' = {} /\ ret' = NoRet
    BY <2>3 DEF Chain, Falls, Waiting
  <2>4. CASE DOMAIN stack' = {1} /\ ~Traverses(stack'[1]) /\ ret' = NoRet
    <3>1. Len(stack') = 1
      BY <1>1, <2>4
    <3> QED  BY <2>4, <3>1 DEF Chain, Falls, Waiting, Advanced
  <2> QED  BY <1>2, <2>2, <2>3, <2>4
<1>6. Delivered(s, F)'
  BY <1>0, <1>2, <1>4, SameMeaning DEF Sound, Delivered, Top
<1>7. Finished(s, F)' /\ Marks(s, F)'
  <2>1. Finished(s, F)'
    BY <1>0, <1>3, <1>4 DEF Sound, Finished
  <2>2. \A a : Marked(s, F, a)' <=> Marked(s, F, a)
    BY <1>0, <1>3, SameMeaning DEF Marked
  <2> QED  BY <1>0, <2>1, <2>2 DEF Sound, Marks
<1>8. Available(F)' /\ Scalars(s)'
  <2>1. \A a : Pending(a) => Pending(a)'
    BY <1>0, <1>2 DEF Pending, Top
  <2>2. \A v : Unwrap(v)' = Unwrap(v)
    BY <1>0 DEF Unwrap, IsKind
  <2> QED  BY <1>0, <1>4, <2>1, <2>2, SameMeaning DEF Sound, Available, Scalars
<1>9. Replied(s, F)'
  <2>1. CASE UNCHANGED <<stack, ret, result>>
    <3>1. PICK u, v, w : u = result.url /\ v = result.value /\ w = ret
      OBVIOUS
    <3> QED  BY <1>0, <1>4, <2>1, <3>1, SameMeaning DEF Sound, Replied
  <2>2. CASE Answer
    <3>1. PICK u, v : u = result.url /\ v = ret
      OBVIOUS
    <3>2. v \in Outcomes(F) /\ Denotes(s, u, v)
      BY <2>2, <3>1 DEF Answer, Sound, Delivered, Replied
    <3>3. (v \in Outcomes(F))' /\ Denotes(s, u, v)'
      BY <1>0, <1>4, <3>2, SameMeaning
    <3> QED  BY <2>2, <3>1, <3>3 DEF Answer, Replied
  <2>3. CASE ret' = NoRet /\ result'.status = "none"
    BY <2>3 DEF Replied
  <2> QED  BY <1>1, <2>1, <2>2, <2>3
<1> QED  BY <1>5, <1>6, <1>7, <1>8, <1>9 DEF Sound

LEMMA InitSound ==
    ASSUME Init, NEW s, NEW F, F = DOMAIN heap, NEW rank
    PROVE  Sound(s, F, rank)
<1>1. /\ DOMAIN stack = {} /\ stack = <<>> /\ DOMAIN idx = {} /\ ret = NoRet /\ heap = web.heap
      /\ result.status = "none"
  BY DEF Init, Idle
<1>2. Chain(s, F, rank)
  BY <1>1 DEF Chain, Falls, Waiting
<1>3. Marks(s, F)
  BY <1>1 DEF Marks, Marked
<1> QED
  BY <1>1, <1>2, <1>3 DEF Sound, Delivered, Finished, Available, Scalars, Replied

\* What is parsed stays parsed: includes that are apart after a step were before it.
LEMMA ApartBefore ==
    ASSUME NEW s, Whole, [Next]_vars, IncludedApart(s)'
    PROVE  IncludedApart(s)
<1>1. web' = web
  BY SameWeb
<1>2. \A d \in Docs : fetched[d] > 0 => fetched'[d] > 0
  <2>1. fetched \in [Docs -> Nat]
    BY DEF Whole, Counters
  <2>2. \/ fetched' = fetched
        \/ \E d : fetched' = [fetched EXCEPT ![d] = @ + 1]
    BY DEF Next, Step, vars, Request, RejectDirective, ReturnIndexed, Include, ReportMissing, Load,
       LoadMixin, LoadFails, RefResolved, Answer, ReturnScalar, FollowDirective, OpenSeq, OpenMap,
       OpenGraph, Descend, ReplaceKid, SpliceKids, Finish, Overflow, Retrieve, fetcher
  <2> QED  BY <2>1, <2>2
<1>3. \A b \in DOMAIN web.heap : web.heap[b].home \in Docs /\ fetched[web.heap[b].home] \in Nat
  <2>1. ASSUME NEW b \in DOMAIN web.heap PROVE web.heap[b] \in Node(0 .. Len(web.heap))
    BY <2>1, ElementOfSeq DEF Whole, Store, WebOK
  <2> QED  BY <2>1 DEF Node, Whole, Counters
<1>4. \A u : /\ IsSymbol(s, u)' <=> IsSymbol(s, u)
             /\ \A b : Bears(s, b, u)' <=> Bears(s, b, u)
  BY <1>1 DEF IsSymbol, Bears
<1>5. SUFFICES ASSUME NEW a \in DOMAIN web.heap, web.heap[a].kind = "include",
                      NEW url, url = ExpandRef(web.heap[a].ref, RootUrl(web.heap[a].home))
               PROVE  /\ ~IsSymbol(s, url)
                      /\ \A b \in DOMAIN web.heap : Bears(s, b, url) => fetched[web.heap[b].home] = 0
  BY DEF IncludedApart
<1>6. /\ ~IsSymbol(s, url)
      /\ \A b \in DOMAIN web.heap : Bears(s, b, url) => fetched'[web.heap[b].home] = 0
  BY <1>1, <1>4, <1>5 DEF IncludedApart
<1> QED  BY <1>2, <1>3, <1>6

\* The inductive invariant.  An exception leaves the objects in hand as they are, and the index with
\* them; an include of what has been parsed may stand for an object.
Sounds  == \E F, rank : /\ Ground(Bases(web), F) /\ Fields(F) /\ Acyclic(web, Bases(web), rank)
                        /\ Sound(Bases(web), F, rank)
MeaningInv == Whole /\ (Mixes \/ broken \/ ~IncludedApart(Bases(web)) \/ (Sounds /\ Asked /\ Loaded))

LEMMA MeaningStep == MeaningInv /\ [Next]_vars => MeaningInv'
<1> SUFFICES ASSUME MeaningInv, [Next]_vars PROVE MeaningInv'
  OBVIOUS
<1>1. web' = web /\ Whole /\ Whole'
  BY SameWeb, NextOK DEF MeaningInv
<1>2. CASE Mixes
  BY <1>1, <1>2 DEF MeaningInv, Mixes
<1>3. CASE broken
  BY <1>1, <1>3 DEF MeaningInv, Next, Step, vars, Request, RejectDirective, ReturnIndexed, Include,
       ReportMissing, Load, LoadMixin, LoadFails, RefResolved, Answer, ReturnScalar, FollowDirective,
       OpenSeq, OpenMap, OpenGraph, Descend, ReplaceKid, SpliceKids, Finish, Overflow, Return, Become,
       Invoke, Raise
<1>4. CASE ~Mixes /\ ~broken /\ ~broken' /\ IncludedApart(Bases(web))'
  <2>0. IncludedApart(Bases(web))
    <3>1. PICK s : s = Bases(web)
      OBVIOUS
    <3>2. s = Bases(web)'
      BY <1>1, <3>1
    <3> QED  BY <1>1, <1>4, <3>1, <3>2, ApartBefore
  <2>1. PICK s, F, rank : /\ s = Bases(web) /\ Ground(s, F) /\ Fields(F) /\ Acyclic(web, s, rank)
                          /\ Sound(s, F, rank)
    BY <1>4, <2>0 DEF MeaningInv, Sounds
  <2>2. Asked /\ Loaded /\ IncludedApart(s)
    BY <1>4, <2>0, <2>1 DEF MeaningInv
  <2>3. Loaded'
    BY <1>1, <2>2, StepLoaded
  <2>4. s = Bases(web)' /\ Acyclic(web, s, rank)'
    BY <1>1, <2>1
  <2>5. CASE Step /\ ~Answer
    <3>1. PICK G : Amid(s, F, G, rank)
      BY <1>4, <2>1, <2>2, <2>5, StepAmid
    <3>2. Sound(s, G, rank)'
      BY <3>1, StepSound
    <3>3. Ground(s, G)' /\ Fields(G)'
      BY <2>1, <3>1, StepKeeps DEF Amid
    <3>4. Asked'
      BY <1>1, <2>2, <2>5, StepAsked
    <3> QED  BY <1>1, <2>3, <2>4, <3>2, <3>3, <3>4 DEF MeaningInv, Sounds
  <2>6. CASE Answer \/ UNCHANGED vars \/ \E url \in Requests : Request(url)
    <3>1. Sound(s, F, rank)'
      BY <2>1, <2>6, IdleSound
    <3>2. Fresh(F)'
      <4>1. Plain /\ Fresh(F)
        BY <2>1 DEF Ground, Unique, Plain
      <4>2. CASE \E url \in Requests : Request(url)
        BY <4>1, <4>2, RequestFresh
      <4>3. CASE Answer \/ UNCHANGED vars
        <5>1. UNCHANGED <<web, heap, idx, stack>>
          BY <4>3 DEF Answer, vars, objects, world
        <5> QED  BY <4>1, <5>1, IdleFresh
      <4> QED  BY <2>6, <4>2, <4>3
    <3>3. Ground(s, F)' /\ Fields(F)'
      BY <2>1, <3>2, StepKeeps
    <3>4. Asked'
      BY <2>2, <2>6 DEF Answer, vars, Request, RefFrame, Idle, Asked
    <3> QED  BY <1>1, <2>3, <2>4, <3>1, <3>3, <3>4 DEF MeaningInv, Sounds
  <2> QED  BY <2>5, <2>6 DEF Next
<1>5. CASE broken' \/ ~IncludedApart(Bases(web))'
  BY <1>1, <1>5 DEF MeaningInv
<1> QED  BY <1>2, <1>3, <1>4, <1>5

\* A set of natural numbers that is not empty has a least member.
LEMMA LeastMember ==
    ASSUME NEW T \in SUBSET Nat, T # {}
    PROVE  \E n \in T : \A m \in T : n <= m
<1>1. PICK n \in T : \A m \in T : <<m, n>> \notin OpToRel(<, Nat)
  BY NatLessThanWellFounded, WFMin
<1>2. \A m \in T : ~(m < n)
  BY <1>1 DEF OpToRel
<1> QED  BY <1>2

\* What is reached from S in one more step.
Widened(h, A) == UNION {{a} \union Children(h, a) : a \in A}

\* The sets that are reached in up to n steps.
Iterated(h, S, n, f) ==
    f = [k \in 0 .. n |-> IF k = 0 THEN S ELSE Widened(h, f[k - 1])]

LEMMA Iteration ==
    ASSUME NEW h, NEW S, NEW m \in Nat
    PROVE  \E f : Iterated(h, S, m, f)
<1> DEFINE T == {n \in Nat : ~ \E f : Iterated(h, S, n, f)}
<1> SUFFICES ASSUME T # {} PROVE FALSE
  OBVIOUS
<1>1. PICK n \in T : \A k \in T : n <= k
  BY LeastMember
<1>2. CASE n = 0
  <2>1. PICK f : f = [k \in 0 .. 0 |-> S]
    OBVIOUS
  <2>2. f = [k \in 0 .. 0 |-> IF k = 0 THEN S ELSE Widened(h, f[k - 1])]
    BY <2>1
  <2> QED  BY <1>1, <1>2, <2>2 DEF Iterated
<1>3. CASE n # 0
  <2>1. n - 1 \in Nat /\ n - 1 \notin T
    BY <1>1, <1>3
  <2>2. PICK g : Iterated(h, S, n - 1, g)
    BY <2>1
  <2>3. PICK last : last = Widened(h, g[n - 1])
    OBVIOUS
  <2>4. PICK f : f = [k \in 0 .. n |-> IF k = n THEN last ELSE g[k]]
    OBVIOUS
  <2>5. \A k \in 0 .. n - 1 : f[k] = g[k] /\ g[k] = IF k = 0 THEN S ELSE Widened(h, g[k - 1])
    BY <2>1, <2>2, <2>4 DEF Iterated
  <2>6. \A k \in 0 .. n : f[k] = IF k = 0 THEN S ELSE Widened(h, f[k - 1])
    BY <1>3, <2>1, <2>3, <2>4, <2>5
  <2>7. Iterated(h, S, n, f)
    BY <2>4, <2>6 DEF Iterated
  <2> QED  BY <1>1, <2>7
<1> QED  BY <1>2, <1>3

\* A set that contains S, and what is in its objects, contains all that can be reached from S.
LEMMA ReachableWithin ==
    ASSUME NEW h, Cardinality(DOMAIN h) \in Nat, NEW S, NEW T, S \subseteq T,
           \A a \in T : Children(h, a) \subseteq T
    PROVE  Reachable(h, S) \subseteq T
<1> DEFINE m == Cardinality(DOMAIN h)
           W == CHOOSE f : Iterated(h, S, m, f)
           Bad == {n \in 0 .. m : ~(W[n] \subseteq T)}
<1>1. Reachable(h, S) = W[m]
  BY DEF Reachable, Iterated, Widened
<1>2. Iterated(h, S, m, W)
  BY Iteration
<1> HIDE DEF m, W
<1>3. \A n \in 0 .. m : W[n] = IF n = 0 THEN S ELSE Widened(h, W[n - 1])
  BY <1>2 DEF Iterated
<1>4. m \in Nat
  BY DEF m
<1>5. SUFFICES ASSUME Bad # {} PROVE FALSE
  BY <1>1, <1>4
<1>6. PICK n \in Bad : \A k \in Bad : n <= k
  <2>1. Bad \in SUBSET Nat
    BY <1>4
  <2> HIDE DEF Bad
  <2> QED  BY <1>5, <2>1, LeastMember
<1>7. n # 0
  BY <1>3, <1>6
<1>8. n - 1 \in 0 .. m /\ W[n - 1] \subseteq T
  BY <1>4, <1>6, <1>7
<1>9. W[n] = Widened(h, W[n - 1])
  BY <1>3, <1>6, <1>7
<1> QED  BY <1>6, <1>8, <1>9 DEF Widened

\* When no call is in progress, an object that may stand in a document has what its text means.
LEMMA DoneAsWritten ==
    ASSUME NEW s, NEW F, NEW rank, Ground(s, F), Fields(F), Sound(s, F, rank), DOMAIN stack = {},
           NEW a \in Outcomes(F), a # Text
    PROVE  AsWritten(s, a) /\ ToSet(heap[a].kids) \subseteq Outcomes(F)
<1>1. /\ Plain /\ a \in DOMAIN heap /\ a \notin F /\ ~Visited(a) /\ ~Entered(a)
      /\ heap[a].kind = web.heap[a].kind /\ heap[a].kind \in {"map", "seq"}
  BY DEF Outcomes, Addrs, Ground, Unique, Plain, Bodies, Visited, Entered
<1>2. heap[a].kind = "map" => heap[a].id = Title(s, a) /\ heap[a].links = Expansions(s, a)
  BY <1>1 DEF Sound, Marks, Marked
<1>3. PICK kids, raw : kids = heap[a].kids /\ raw = Written(a)
  OBVIOUS
<1>4. Len(kids) \in Nat /\ DOMAIN kids = 1 .. Len(kids) /\ Len(raw) \in Nat /\ DOMAIN raw = 1 .. Len(raw)
  <2>1. kids \in Seq(Addrs)
    BY <1>1, <1>3 DEF Plain, Whole, Store, Node
  <2>2. \E n : raw \in Seq(0 .. n)
    <3>1. web.heap \in Seq(Node(0 .. Len(web.heap))) /\ a \in DOMAIN web.heap
      BY <1>1 DEF Plain, Bodies, Whole, Store, WebOK
    <3>2. web.heap[a] \in Node(0 .. Len(web.heap))
      BY <3>1, ElementOfSeq
    <3> QED  BY <1>3, <3>2 DEF Written, Node
  <2> QED  BY <2>1, <2>2, LenProperties
<1>5. Reworked(s, F, a, Len(kids) + 1)
  BY <1>1, <1>3 DEF Sound, Finished
<1>6. PICK n, cut : /\ n \in 0 .. Len(raw) /\ Cut(s, F, a, n, cut)
                    /\ cut[n] = Len(kids) + 1 - 1 /\ Raws(a, n, Len(kids) + 1)
  BY <1>3, <1>5 DEF Reworked
<1>7. n = Len(raw) /\ cut[n] = Len(kids)
  <2>1. PICK l, m : l = Len(kids) /\ m = Len(raw)
    OBVIOUS
  <2>2. l = m - n + (l + 1) - 1 /\ cut[n] = l + 1 - 1
    BY <1>3, <1>6, <2>1 DEF Raws
  <2>3. l \in Nat /\ m \in Nat /\ n \in 0 .. m
    BY <1>4, <1>6, <2>1
  <2>4. n = m /\ cut[n] = l
    BY <2>2, <2>3
  <2> QED  BY <2>1, <2>4
<1>8. KidsAsWritten(s, a)
  <2>1. cut \in [0 .. Len(raw) -> 0 .. Len(kids)] /\ cut[0] = 0 /\ cut[Len(raw)] = Len(kids)
    BY <1>3, <1>6, <1>7 DEF Cut
  <2>2. \A i \in DOMAIN raw : \E v \in Addrs : Means(s, raw[i], v) /\ Placed(a, raw[i], v, cut[i - 1], cut[i])
    BY <1>3, <1>4, <1>6, <1>7 DEF Cut, Portion, Outcomes
  <2> QED  BY <1>3, <2>1, <2>2 DEF KidsAsWritten, Written
<1>9. \A i \in DOMAIN kids : kids[i] \in Outcomes(F)
  <2>1. \A i \in 1 .. Len(kids) + 1 - 1 : kids[i] \in Outcomes(F)
    BY <1>3, <1>5 DEF Reworked
  <2>2. Len(kids) + 1 - 1 = Len(kids)
    BY <1>4
  <2> QED  BY <1>4, <2>1, <2>2
<1>10. AsWritten(s, a)
  BY <1>1, <1>2, <1>8 DEF AsWritten, Expansions
<1> QED  BY <1>3, <1>9, <1>10 DEF ToSet

LEMMA MeaningSuffices == MeaningInv => ResultIsPreprocessed
<1> SUFFICES ASSUME MeaningInv, ~Mixes, result.status = "ok", ~broken, IncludedApart(Bases(web))
             PROVE  /\ Denotes(Bases(web), result.url, result.value)
                    /\ \A a \in Reachable(heap, {result.value}) \ {Text} : AsWritten(Bases(web), a)
  BY DEF ResultIsPreprocessed
<1>1. PICK s, F, rank : s = Bases(web) /\ Ground(s, F) /\ Fields(F) /\ Sound(s, F, rank)
  BY DEF MeaningInv, Sounds
<1>2. PICK v : v = result.value
  OBVIOUS
<1>3. stack = <<>> /\ v \in Outcomes(F) /\ Denotes(s, result.url, v)
  BY <1>1, <1>2 DEF Sound, Replied
<1>4. DOMAIN stack = {}
  BY <1>3
<1>5. \A a \in Outcomes(F) \ {Text} : AsWritten(s, a) /\ ToSet(heap[a].kids) \subseteq Outcomes(F)
  BY <1>1, <1>4, DoneAsWritten
<1>6. Cardinality(DOMAIN heap) \in Nat
  <2>1. PICK n : n = Len(web.heap)
    OBVIOUS
  <2>2. n \in Nat /\ DOMAIN heap = 1 .. n
    BY <1>1, <2>1, LenProperties DEF Ground, Unique, Plain, Bodies, Whole, Store, WebOK
  <2>3. IsFiniteSet(1 .. n)
    BY <2>2, FS_Interval
  <2> QED  BY <2>2, <2>3, FS_CardinalityType
<1>7. Reachable(heap, {v}) \subseteq Outcomes(F)
  BY <1>3, <1>5, <1>6, ReachableWithin DEF Children
<1> QED  BY <1>1, <1>2, <1>3, <1>5, <1>7

LEMMA InitMeaning ==
    ASSUME \A w \in Webs : /\ TreeShaped(w) /\ OwnDocuments(w) /\ DistinctNames(w, Bases(w))
                           /\ \E rank : Acyclic(w, Bases(w), rank),
           Init
    PROVE  MeaningInv
<1>1. PICK s, F, rank : s = Bases(web) /\ F = DOMAIN heap /\ Acyclic(web, s, rank)
  BY DEF Init
<1>2. TreeShaped(web) /\ OwnDocuments(web) /\ DistinctNames(web, s) /\ Whole
  BY <1>1, InitOK DEF Init
<1>3. Asked /\ Loaded
  BY DEF Init, Asked, Loaded
<1>4. Sound(s, F, rank)
  BY <1>1, InitSound
<1>5. ~Mixes => Ground(s, F) /\ Fields(F)
  BY <1>1, <1>2, InitFields
<1> QED  BY <1>1, <1>2, <1>3, <1>4, <1>5 DEF MeaningInv, Sounds

\* In texts without aliases and mixins that give every identifier once and do not import each other
\* in a circle, what the application gets for a URL, after any calls that have not raised, is the
\* object of that URL with all that it contains resolved, spliced and expanded, every $include by
\* a text, as the texts alone say; unless a call has parsed what is to be included.
THEOREM Meaning ==
    ASSUME \A w \in Webs : /\ TreeShaped(w) /\ OwnDocuments(w) /\ DistinctNames(w, Bases(w))
                           /\ \E rank : Acyclic(w, Bases(w), rank)
    PROVE  Spec => []ResultIsPreprocessed
<1>1. Init => MeaningInv
  BY InitMeaning
<1>2. MeaningInv /\ [Next]_vars => MeaningInv'
  BY MeaningStep
<1>3. MeaningInv => ResultIsPreprocessed
  BY MeaningSuffices
<1> QED  BY <1>1, <1>2, <1>3, PTL DEF Spec

=============================================================================
