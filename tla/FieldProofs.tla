---------------------------- MODULE FieldProofs ----------------------------
(***************************************************************************)
(* Proofs about what resolve_all makes of the fields of a map, for webs of *)
(* texts without YAML aliases and without mixins that give every           *)
(* identifier once: each field has what its text says, resolved.           *)
(***************************************************************************)
EXTENDS IndexProofs

----------------------------------------------------------------------------
(* What the calls in progress owe each other *)

\* The values of a map as they are written.
Written(a) == web.heap[a].kids

\* Directives keep their references, and only maps and lists are rewritten.
Fixed == \A a \in DOMAIN heap :
            /\ heap[a].ref = web.heap[a].ref
            /\ heap[a].kind \notin {"map", "seq"} => heap[a].kids = Written(a)

\* The objects of F have the values of their texts.
Raw(F) == \A a \in F : heap[a].kids = Written(a)

\* A call of resolve_ref for a directive follows its reference.
Aimed(f) ==
    f.fn = "resolve_ref" /\ Holds(f) =>
        /\ f.mode = heap[f.node].kind
        /\ f.url = ExpandRef(heap[f.node].ref, RootUrl(heap[f.node].home))

\* The i-th field of a map has what its written value becomes.
Resolved(a, i) == StandsFor(Written(a)[i], heap[a].kids[i])

\* In a map, the fields before the one in hand are resolved, the others are as written.
InFields(f) == Traverses(f) /\ web.heap[f.node].kind = "map"

Walked(f) ==
    InFields(f) =>
        LET now == heap[f.node].kids
        IN  /\ f.at # "enter" => f.pos >= 1
            /\ f.at = "wait" => f.pos \in DOMAIN now
            /\ \A i \in DOMAIN now :
                  IF f.at = "enter" \/ i >= f.pos THEN now[i] = Written(f.node)[i]
                  ELSE Resolved(f.node, i)

\* g is the call that resolves the value k.
Serving(k, g) ==
    \/ g.fn = "resolve_all" /\ g.node = k
    \/ /\ g.fn = "resolve_all" /\ g.at # "enter"
       /\ k # Text /\ web.heap[k].kind = "graph" /\ g.node = Written(k)[1]
    \/ g.fn = "resolve_ref" /\ k # Text /\ g.node = k

\* A call that waits in a field waits for the call that resolves its value.
Serves(f, g) == InFields(f) /\ f.at = "wait" => Serving(Written(f.node)[f.pos], g)

Calls == /\ \A i \in DOMAIN stack : Aimed(stack[i]) /\ Walked(stack[i])
         /\ \A i \in DOMAIN stack : i + 1 \in DOMAIN stack => Serves(stack[i], stack[i + 1])

\* What a call has returned is what its caller's field stands for.
Handed ==
    ret # NoRet /\ stack # <<>> /\ InFields(Top) /\ Top.at = "wait" =>
        StandsFor(Written(Top.node)[Top.pos], ret)

\* A field of a map has its written value or its resolved one.
Mapped ==
    \A a \in DOMAIN heap : web.heap[a].kind = "map" =>
        /\ DOMAIN heap[a].kids = DOMAIN Written(a)
        /\ \A i \in DOMAIN heap[a].kids :
              \/ heap[a].kids[i] = Written(a)[i]
              \/ Resolved(a, i)

\* Before the first exception, an indexed map is in the hands of a call or done with.
Done(a)    == \A i \in DOMAIN heap[a].kids : Resolved(a, i)
Settled(a) == IsKind(a, {"map"}) => InCall(a) \/ Done(a)
Complete   == ~broken => \A u \in DOMAIN idx : Settled(idx[u])

Fields(F) == Fixed /\ Raw(F) /\ Calls /\ Handed /\ Mapped /\ Complete

\* The invariants that the fields rest on.
Ground(s, F) == Unique(s) /\ Indexed(s) /\ Fresh(F) /\ OwnDocuments(web) /\ Homes

----------------------------------------------------------------------------
(* What stays *)

LEMMA WebKids ==
    ASSUME Plain, NEW a \in DOMAIN heap, NEW i \in DOMAIN Written(a)
    PROVE  Written(a)[i] \in Addrs
<1>1. /\ web.heap \in Seq(Node(0 .. Len(web.heap))) /\ Len(web.heap) \in Nat
      /\ DOMAIN web.heap = 1 .. Len(web.heap) /\ DOMAIN heap = DOMAIN web.heap
  BY LenProperties DEF Plain, Bodies, Whole, Store, WebOK
<1>2. web.heap[a].kids \in Seq(0 .. Len(web.heap))
  <2>1. web.heap[a] \in Node(0 .. Len(web.heap))
    BY <1>1, ElementOfSeq
  <2> QED  BY <2>1 DEF Node
<1>3. Written(a)[i] \in 0 .. Len(web.heap)
  BY <1>2, ElementOfSeq, LenProperties DEF Written
<1> QED  BY <1>1, <1>3 DEF Addrs, Text

\* What a reference yields, and what a value stands for, does not change.
Lasting == /\ \A u, v : Yields(u, v) => Yields(u, v)'
           /\ \A k \in Addrs : \A v : StandsFor(k, v) => StandsFor(k, v)'

LEMMA StandsKept ==
    ASSUME Plain, Fixed, Bodies', Fixed', web' = web, Stable
    PROVE  Lasting
<1>1. /\ DOMAIN heap' = DOMAIN heap /\ Text \notin DOMAIN heap
      /\ \A a \in DOMAIN heap : /\ heap'[a].kind = heap[a].kind /\ heap'[a].home = heap[a].home
                                /\ heap'[a].ref = heap[a].ref
                                /\ heap[a].kind = "graph" => heap'[a].kids = heap[a].kids
  BY Shape DEF Plain, Bodies, Fixed, Written
<1>2. \A a \in Addrs : Unwrap(a)' = Unwrap(a)
  BY <1>1 DEF Unwrap, IsKind, Addrs
<1>3. \A u \in DOMAIN idx : idx[u] \in Addrs
  BY DEF Plain, Whole, Index
<1>4. ASSUME NEW u, NEW v, Yields(u, v)
      PROVE  Yields(u, v)'
  <2>1. u \in DOMAIN idx /\ u \in DOMAIN idx' /\ idx[u] \in {Text, idx'[u]} /\ v \in {Text, Unwrap(idx[u])}
    BY <1>4 DEF Yields, Stable
  <2>2. CASE idx[u] = Text
    BY <2>1, <2>2 DEF Yields, Unwrap, IsKind
  <2>3. CASE idx'[u] = idx[u]
    BY <1>2, <1>3, <2>1, <2>3 DEF Yields, Unwrap, IsKind
  <2> QED  BY <2>1, <2>2, <2>3
<1>5. ASSUME NEW k \in Addrs, NEW v, StandsFor(k, v)
      PROVE  StandsFor(k, v)'
  <2>1. \A K : IsKind(k, K)' <=> IsKind(k, K)
    BY <1>1 DEF IsKind, Addrs
  <2>2. k # Text => heap'[k].ref = heap[k].ref /\ heap'[k].home = heap[k].home
                    /\ (IsKind(k, {"graph"}) => heap'[k].kids = heap[k].kids)
    BY <1>1 DEF Addrs, IsKind
  <2>3. CASE k = Text
    BY <1>5, <2>3 DEF StandsFor, IsKind
  <2>4. CASE k # Text
    <3>1. PICK url : url = ExpandRef(heap[k].ref, [doc |-> heap[k].home, frag |-> <<>>])
      OBVIOUS
    <3>2. url = ExpandRef(heap'[k].ref, [doc |-> heap'[k].home, frag |-> <<>>])
      BY <2>2, <2>4, <3>1
    <3>3. Yields(url, v) => Yields(url, v)'
      BY <1>4
    <3> QED  BY <1>5, <2>1, <2>2, <2>4, <3>1, <3>2, <3>3 DEF StandsFor
  <2> QED  BY <2>3, <2>4
<1> QED  BY <1>4, <1>5 DEF Lasting

\* A step writes values to no object but the one in hand, and that only in the loops.
Untold == \A a \in DOMAIN heap :
             \/ heap'[a].kids = heap[a].kids
             \/ stack # <<>> /\ a = Top.node /\ Traverses(Top) /\ ReplaceKid
             \/ stack # <<>> /\ a = Top.node /\ Traverses(Top) /\ heap[a].kind = "seq"

LEMMA OneWritten ==
    ASSUME Plain, NEW F, Fresh(F), Fixed, [Next]_vars
    PROVE  Fixed' /\ Untold
<1>1. web' = web /\ Bodies'
  BY SameWeb, BodiesKept
<1>2. \/ \A a \in DOMAIN heap : heap'[a].ref = heap[a].ref /\ heap'[a].kids = heap[a].kids
      \/ /\ stack # <<>> /\ Traverses(Top) /\ Top.node \in DOMAIN heap
         /\ heap[Top.node].kind \in {"map", "seq"}
         /\ ReplaceKid \/ heap[Top.node].kind = "seq"
         /\ \A a \in DOMAIN heap : /\ heap'[a].ref = heap[a].ref
                                   /\ a # Top.node => heap'[a].kids = heap[a].kids
  <2>1. CASE OpenMap \/ OpenGraph \/ Load
    BY <2>1, OpenMapHeap, OpenGraphHeap, LoadHeap DEF Plain, Unmoved
  <2>2. CASE ReplaceKid \/ SpliceKids
    <3>1. /\ Returned("resolve_all") /\ More(Top) /\ stack # <<>> /\ Top.fn = "resolve_all"
          /\ \E kids : heap' = [heap EXCEPT ![Top.node].kids = kids]
      BY <2>2 DEF ReplaceKid, SpliceKids, Returned
    <3>2. IsKind(Top.node, {"map", "seq"})
      BY <3>1, InLoop DEF Plain
    <3>3. Traverses(Top) /\ Top.node \in DOMAIN heap /\ heap[Top.node].kind \in {"map", "seq"}
      BY <3>1, <3>2, Traversing DEF Plain
    <3>4. SpliceKids => heap[Top.node].kind = "seq"
      BY DEF SpliceKids, Splices, Spliceable, IsKind
    <3> QED  BY <2>2, <3>1, <3>3, <3>4, RefillHeap DEF Plain
  <2>3. CASE heap' = heap
    BY <2>3
  <2> QED
    BY <2>1, <2>2, <2>3, NoMixinCalls
       DEF Next, Step, vars, Request, RejectDirective, ReturnIndexed, Include, ReportMissing,
           LoadFails, RefResolved, Answer, ReturnScalar, FollowDirective, OpenSeq,
           Descend, Finish, Overflow, objects
<1>3. Fixed'
  BY <1>1, <1>2 DEF Plain, Bodies, Fixed, Written
<1> QED  BY <1>2, <1>3 DEF Untold

\* A field that is resolved stays so until it is written.
LEMMA StaysResolved ==
    ASSUME Plain, web' = web, Lasting, NEW a \in DOMAIN heap, NEW i \in DOMAIN Written(a),
           heap'[a].kids[i] = heap[a].kids[i], Resolved(a, i)
    PROVE  Resolved(a, i)'
<1>1. PICK k, v : k = Written(a)[i] /\ v = heap[a].kids[i]
  OBVIOUS
<1>2. k \in Addrs /\ StandsFor(k, v)
  BY <1>1, WebKids DEF Resolved
<1>3. StandsFor(k, v)'
  BY <1>2 DEF Lasting
<1> QED  BY <1>1, <1>3 DEF Resolved, Written

----------------------------------------------------------------------------
(* The calls *)

\* A step of Fields, seen from what it leaves alone.
Around(F) == /\ Plain /\ Fresh(F) /\ Fixed /\ Calls /\ Mapped /\ stack # <<>>
             /\ web' = web /\ Bodies' /\ Fixed' /\ Lasting /\ Untold

\* The call f takes the place of the innermost one.
Replaces(f) == Aimed(f)' /\ Walked(f)' /\ \A h : Serves(h, Top) => Serves(h, f)

\* The calls below the innermost one keep what they have.
LEMMA OuterWalked ==
    ASSUME NEW F, Around(F), NEW i \in Outer, stack'[i] = stack[i]
    PROVE  Aimed(stack[i])' /\ Walked(stack[i])'
<1>0. PICK f : f = stack[i]
  OBVIOUS
<1>1. /\ i \in DOMAIN stack /\ f \in Call /\ Aimed(f) /\ Walked(f)
      /\ Holds(f) /\ Holds(Top) => f.node # Top.node
  <2>1. i \in DOMAIN stack /\ f \in Call /\ Len(stack) \in DOMAIN stack /\ i < Len(stack)
        /\ stack[Len(stack)] = Top
    BY <1>0, StackAfter DEF Around, Plain
  <2> QED  BY <1>0, <2>1 DEF Around, Calls, Fresh, Apart
<1>2. /\ DOMAIN heap' = DOMAIN heap
      /\ \A a \in DOMAIN heap : /\ heap'[a].kind = heap[a].kind /\ heap'[a].home = heap[a].home
                                /\ heap'[a].ref = heap[a].ref
  BY DEF Around, Plain, Bodies, Fixed
<1>3. Holds(f) => f.node \in DOMAIN heap
  BY <1>1, CallParts DEF Holds, Addrs
<1>4. Aimed(f)'
  BY <1>1, <1>2, <1>3 DEF Aimed, Holds
<1>5. ASSUME InFields(f)
      PROVE  Walked(f)'
  <2>1. f.node \in DOMAIN heap /\ heap'[f.node].kids = heap[f.node].kids
    BY <1>1, <1>3, <1>5 DEF InFields, Traverses, Holds, Around, Untold
  <2>2. DOMAIN heap[f.node].kids = DOMAIN Written(f.node)
    BY <1>5, <2>1 DEF Around, Mapped, InFields
  <2>3. ASSUME NEW j \in DOMAIN heap[f.node].kids, Resolved(f.node, j)
        PROVE  Resolved(f.node, j)'
    BY <2>1, <2>2, <2>3, StaysResolved DEF Around
  <2> QED  BY <1>1, <1>5, <2>1, <2>3 DEF Around, Walked, InFields, Traverses, Written
<1>6. Walked(f)'
  BY <1>5 DEF Around, Walked, InFields, Traverses
<1> QED  BY <1>0, <1>4, <1>6 DEF Aimed, Walked, InFields, Traverses, Holds

LEMMA CallsAfter ==
    ASSUME NEW F, Around(F), NEW v, NEW status, NEW f, NEW g,
           \/ Return(v)
           \/ Raise(status)
           \/ Become(f) /\ Replaces(f)
           \/ Invoke(f, g) /\ Replaces(f) /\ Aimed(g)' /\ Walked(g)' /\ Serves(f, g)
    PROVE  Calls'
<1> DEFINE n == Len(stack)
<1>1. /\ n \in Nat \ {0} /\ Outer = 1 .. n - 1 /\ stack[n] = Top /\ DOMAIN stack = 1 .. n
      /\ Whole /\ stack # <<>>
  BY StackAfter DEF Around, Plain, Outer
<1>2. \A i \in Outer : stack'[i] = stack[i] => Aimed(stack[i])' /\ Walked(stack[i])'
  BY OuterWalked
<1>3. \A i \in Outer : Serves(stack[i], stack[i + 1])
  <2> HIDE DEF n
  <2>1. \A i \in 1 .. n - 1 : i \in 1 .. n /\ i + 1 \in 1 .. n
    BY <1>1
  <2> QED  BY <1>1, <2>1 DEF Around, Calls
<1>4. \A h, e : Serves(h, e)' <=> Serves(h, e)
  BY DEF Around, Serves, Serving, InFields, Traverses, Written
<1>5. CASE Raise(status)
  <2>1. DOMAIN stack' = {}
    BY <1>5 DEF Raise
  <2> QED  BY <2>1 DEF Calls
<1>6. CASE Return(v)
  <2>1. DOMAIN stack' = Outer /\ \A i \in Outer : stack'[i] = stack[i]
    BY <1>1, <1>6, StackAfter DEF Return
  <2> QED  BY <1>2, <1>3, <1>4, <2>1 DEF Calls
<1>7. CASE Become(f) /\ Replaces(f)
  <2>1. DOMAIN stack' = 1 .. n /\ stack'[n] = f /\ \A i \in Outer : stack'[i] = stack[i]
    BY <1>1, <1>7, StackAfter
  <2> HIDE DEF n
  <2>2. \A i \in DOMAIN stack' : i \in Outer \/ i = n
    BY <1>1, <2>1
  <2>3. \A i \in DOMAIN stack' : stack'[i] = f => Aimed(stack[i])' /\ Walked(stack[i])'
    BY <1>7 DEF Replaces, Aimed, Walked, Holds, InFields, Traverses
  <2>4. \A i \in DOMAIN stack' : Aimed(stack[i])' /\ Walked(stack[i])'
    BY <1>2, <2>1, <2>2, <2>3
  <2>5. ASSUME NEW i \in DOMAIN stack', i + 1 \in DOMAIN stack'
        PROVE  Serves(stack'[i], stack'[i + 1])
    <3>1. i \in Outer /\ stack'[i] = stack[i] /\ (i + 1 \in Outer \/ i + 1 = n)
      BY <1>1, <2>1, <2>5
    <3> QED  BY <1>1, <1>3, <1>7, <2>1, <3>1 DEF Replaces
  <2> QED  BY <1>4, <2>4, <2>5 DEF Calls
<1>8. CASE Invoke(f, g) /\ Replaces(f) /\ Aimed(g)' /\ Walked(g)' /\ Serves(f, g)
  <2>1. /\ DOMAIN stack' = 1 .. n + 1 /\ stack'[n] = f /\ stack'[n + 1] = g
        /\ \A i \in Outer : stack'[i] = stack[i]
    BY <1>1, <1>8, StackAfter
  <2> HIDE DEF n
  <2>2. \A i \in 1 .. n + 1 : i \in 1 .. n - 1 \/ i = n \/ i = n + 1
    BY <1>1
  <2>3. \A i \in DOMAIN stack' : stack'[i] = f \/ stack'[i] = g => Aimed(stack[i])' /\ Walked(stack[i])'
    BY <1>8 DEF Replaces, Aimed, Walked, Holds, InFields, Traverses
  <2>4. \A i \in DOMAIN stack' : Aimed(stack[i])' /\ Walked(stack[i])'
    BY <1>1, <1>2, <2>1, <2>2, <2>3
  <2>5. ASSUME NEW i \in DOMAIN stack', i + 1 \in DOMAIN stack'
        PROVE  Serves(stack'[i], stack'[i + 1])
    <3>1. CASE i = n
      BY <1>8, <2>1, <3>1
    <3>2. CASE i # n
      <4>1. i \in Outer /\ stack'[i] = stack[i] /\ (i + 1 \in Outer \/ i + 1 = n)
        BY <1>1, <2>1, <2>5, <3>2
      <4> QED  BY <1>1, <1>3, <1>8, <2>1, <4>1 DEF Replaces
    <3> QED  BY <3>1, <3>2
  <2> QED  BY <1>4, <2>4, <2>5 DEF Calls
<1> QED  BY <1>5, <1>6, <1>7, <1>8
----------------------------------------------------------------------------
(* What a call hands to its caller *)

\* A call that follows a directive knows what the directive stands for.
LEMMA Follows ==
    ASSUME NEW F, Around(F), Top.fn = "resolve_ref", NEW k \in Addrs, Serving(k, Top)
    PROVE  /\ k \in DOMAIN heap /\ heap[k].kind \in {"import", "include"} /\ Top.mode = heap[k].kind
           /\ \A v : Yields(Top.url, v) => StandsFor(k, v)
<1>1. /\ Len(stack) \in DOMAIN stack /\ stack[Len(stack)] = Top /\ Top \in Call
  BY StackAfter DEF Around, Plain
<1>2. k # Text /\ Top.node = k /\ k \in DOMAIN heap
  BY DEF Serving, Addrs
<1>3. Aimed(Top) /\ InPlace(F, Top)
  BY <1>1 DEF Around, Calls, Fresh
<1>4. Top.mode = heap[k].kind /\ Top.url = ExpandRef(heap[k].ref, RootUrl(heap[k].home))
  BY <1>2, <1>3 DEF Aimed, Holds
<1>5. heap[k].kind \in Directives /\ heap[k].kind # "mixin"
  <2>1. heap[k].kind # "string"
    BY <1>2 DEF Around, Plain, Whole, Store, Node, Kinds
  <2> QED  BY <1>1, <1>2, <1>3, <1>4, <2>1, CallParts DEF InPlace, IsKind
<1>6. heap[k].kind \in {"import", "include"}
  BY <1>5 DEF Directives
<1>7. ASSUME NEW v, Yields(Top.url, v)
      PROVE  StandsFor(k, v)
  <2>1. PICK url : url = ExpandRef(heap[k].ref, [doc |-> heap[k].home, frag |-> <<>>])
    OBVIOUS
  <2>2. Yields(url, v)
    BY <1>4, <1>7, <2>1 DEF RootUrl
  <2> QED  BY <1>2, <1>6, <2>1, <2>2 DEF StandsFor, IsKind
<1> QED  BY <1>2, <1>4, <1>6, <1>7
\* What a call returns is what the value that it was given stands for.
LEMMA ReturnHands ==
    ASSUME NEW F, Around(F), NEW v, v = ret', v # NoRet,
           ReturnIndexed \/ Include \/ RefResolved \/ ReturnScalar \/ Finish,
           NEW k \in Addrs, Serving(k, Top)
    PROVE  StandsFor(k, v)
<1>1. CASE ReturnIndexed \/ RefResolved
  <2>1. /\ Top.fn = "resolve_ref"
        /\ Top.mode # "mixin" => Top.url \in DOMAIN idx /\ v = Unwrap(idx[Top.url])
    BY <1>1 DEF ReturnIndexed, RefResolved, Running, Returned, Hit, Return, Raise
  <2>2. Top.mode # "mixin"
    BY <2>1, Follows
  <2>3. Yields(Top.url, v)
    BY <2>1, <2>2 DEF Yields
  <2> QED  BY <2>1, <2>3, Follows
<1>2. CASE Include
  <2>1. Top.fn = "resolve_ref" /\ Top.mode = "include" /\ v = Text
    BY <1>2 DEF Include, Running, Return, Raise
  <2>2. k \in DOMAIN heap /\ heap[k].kind = "include"
    BY <2>1, Follows
  <2> QED  BY <2>1, <2>2, Shape DEF Around, StandsFor, IsKind
<1>3. CASE ReturnScalar
  <2>1. Top.fn = "resolve_all" /\ Top.at = "enter" /\ Top.node = Text /\ v = Text
    BY <1>3 DEF ReturnScalar, Running, Return
  <2>2. k = Text
    BY <2>1 DEF Serving
  <2> QED  BY <2>1, <2>2 DEF StandsFor, IsKind
<1>4. CASE Finish
  <2>1. Top.fn = "resolve_all" /\ Top.at = "iterate" /\ v = Top.node
    BY <1>4 DEF Finish, Running, Return, Raise
  <2>2. IsKind(Top.node, {"map", "seq"})
    BY <2>1, StackAfter, CallParts DEF Around, Plain
  <2>3. CASE Top.node = k
    BY <2>1, <2>2, <2>3 DEF StandsFor, IsKind
  <2>4. CASE k # Text /\ web.heap[k].kind = "graph" /\ Top.node = Written(k)[1]
    <3>1. k \in DOMAIN heap /\ heap[k].kind = "graph" /\ heap[k].kids = Written(k)
      BY <2>4 DEF Addrs, Around, Plain, Bodies, Fixed
    <3> QED  BY <2>1, <2>4, <3>1 DEF StandsFor, IsKind
  <2> QED  BY <2>1, <2>3, <2>4 DEF Serving
<1> QED  BY <1>1, <1>2, <1>3, <1>4

\* So the field that the caller waits in gets what its value stands for.
LEMMA HandedAfter ==
    ASSUME NEW F, Around(F),
           \/ ret' = NoRet
           \/ stack' = Front(stack)
              /\ (ReturnIndexed \/ Include \/ RefResolved \/ ReturnScalar \/ Finish)
    PROVE  Handed'
<1> SUFFICES ASSUME ret' # NoRet, stack' # <<>>, InFields(Top)', Top'.at = "wait"
             PROVE  StandsFor(Written(Top.node)[Top.pos], ret)'
  BY DEF Handed
<1>1. stack' = Front(stack) /\ (ReturnIndexed \/ Include \/ RefResolved \/ ReturnScalar \/ Finish)
  OBVIOUS
<1>2. PICK n : n = Len(stack) - 1
  OBVIOUS
<1>3. /\ n \in Nat /\ n \in Outer /\ n \in DOMAIN stack /\ n + 1 \in DOMAIN stack
      /\ Top' = stack[n] /\ stack[n + 1] = Top /\ stack[n] \in Call
  <2>1. /\ Len(stack) \in Nat \ {0} /\ DOMAIN stack = 1 .. Len(stack) /\ Outer = 1 .. n
        /\ DOMAIN stack' = Outer /\ \A i \in Outer : stack'[i] = stack[i]
        /\ stack[Len(stack)] = Top /\ Whole /\ stack \in Seq(Call)
        /\ \A i \in DOMAIN stack : stack[i] \in Call
    BY <1>1, <1>2, StackAfter DEF Around, Plain, Outer, Whole, Control
  <2>2. n \in Nat /\ Len(stack') = n /\ stack' \in Seq(Call)
    BY <1>1, <1>2, <2>1, PopStack DEF Around
  <2>3. n # 0
    BY <2>2, EmptySeq
  <2> QED  BY <1>2, <2>1, <2>2, <2>3 DEF Top, Last
<1>4. PICK f : f = stack[n]
  OBVIOUS
<1>5. InFields(f) /\ f.at = "wait" /\ Walked(f) /\ Serves(f, Top)
  BY <1>3, <1>4 DEF Around, Calls, InFields, Traverses
<1>6. f.node \in DOMAIN heap /\ f.pos \in DOMAIN Written(f.node)
  <2>1. f.node \in DOMAIN heap
    BY <1>3, <1>4, <1>5, CallParts DEF InFields, Traverses, Addrs
  <2> QED  BY <1>5, <2>1 DEF Walked, Around, Mapped, InFields
<1>7. PICK k, v : k = Written(f.node)[f.pos] /\ v = ret'
  OBVIOUS
<1>8. k \in Addrs /\ Serving(k, Top)
  BY <1>5, <1>6, <1>7, WebKids DEF Serves, Around
<1>9. StandsFor(k, v)
  BY <1>1, <1>7, <1>8, ReturnHands
<1>10. StandsFor(k, v)'
  BY <1>8, <1>9 DEF Around, Lasting
<1> QED  BY <1>3, <1>4, <1>7, <1>10 DEF Written, Around
----------------------------------------------------------------------------
(* The steps *)

\* Exceptions and returns.
LEMMA LeaveCalls ==
    ASSUME NEW F, Around(F),
           RejectDirective \/ ReturnIndexed \/ Include \/ ReportMissing \/ LoadFails \/ RefResolved
             \/ ReturnScalar \/ Finish \/ Overflow
    PROVE  Calls' /\ Handed'
<1>1. \/ \E status : Raise(status)
      \/ /\ \E v : Return(v)
         /\ ReturnIndexed \/ Include \/ RefResolved \/ ReturnScalar \/ Finish
  BY DEF RejectDirective, ReturnIndexed, Include, ReportMissing, LoadFails, RefResolved,
         ReturnScalar, Finish, Overflow
<1>2. Handed'
  BY <1>1, HandedAfter DEF Raise, Return
<1>3. Calls'
  <2>1. PICK v, status : Return(v) \/ Raise(status)
    BY <1>1
  <2> QED  BY <2>1, CallsAfter
<1> QED  BY <1>2, <1>3

\* A call that traverses a list, or follows no directive, has no field to mind.
LEMMA Plainly ==
    ASSUME NEW f
    PROVE  /\ f.fn = "resolve_all" => Aimed(f)'
           /\ f.fn # "resolve_all" => Walked(f)'
           /\ web' = web /\ web.heap[f.node].kind # "map" => Walked(f)'
  BY DEF Aimed, Walked, InFields, Traverses

\* resolve_all hands a directive over to resolve_ref.
LEMMA FollowCalls ==
    ASSUME NEW F, Around(F), Homes, FollowDirective
    PROVE  Calls' /\ Handed'
<1>0. PICK f : f = DirectiveFrame(Top.node, Top.file, Top.ns, Top.check)
  OBVIOUS
<1>1. /\ Top.fn = "resolve_all" /\ Top.at = "enter" /\ IsKind(Top.node, Directives)
      /\ heap' = heap
  BY DEF FollowDirective, Running, objects
<1>2. /\ Traverses(Top) /\ Top.node \in DOMAIN heap /\ Top \in Call
      /\ Len(stack) \in DOMAIN stack /\ stack[Len(stack)] = Top
  BY <1>1, Traversing, StackAfter DEF Around, Plain
<1>3. Become(f)
  <2>1. ~IsKind(Top.node, {"mixin"})
    BY <1>2, Shape DEF Around, IsKind
  <2> QED  BY <1>0, <2>1 DEF FollowDirective
<1>4. /\ f.fn = "resolve_ref" /\ f.node = Top.node /\ f.mode = heap[Top.node].kind
      /\ f.url = ExpandRef(heap[Top.node].ref, Top.file)
  BY <1>0 DEF DirectiveFrame, RefFrame
<1>5. f.url = ExpandRef(heap[Top.node].ref, RootUrl(heap[Top.node].home))
  <2>1. Top.file.doc = heap[Top.node].home
    BY <1>2 DEF Homes, AtHome
  <2> QED  BY <1>4, <2>1 DEF ExpandRef, RootUrl
<1>6. Aimed(f)' /\ Walked(f)'
  BY <1>1, <1>4, <1>5, Plainly DEF Aimed
<1>7. ASSUME NEW k, Serving(k, Top) PROVE Serving(k, f)
  BY <1>1, <1>2, <1>4, <1>7 DEF Serving, Traverses
<1>8. Replaces(f)
  BY <1>6, <1>7 DEF Replaces, Serves
<1> QED  BY <1>3, <1>8, CallsAfter, HandedAfter DEF Become

\* The first look at a map, of which no field is resolved yet, and at a list.
LEMMA OpenCalls ==
    ASSUME NEW F, Around(F), OpenSeq \/ OpenMap \/ OpenGraph
    PROVE  Calls' /\ Handed'
<1>1. /\ Top.fn = "resolve_all" /\ Top.at = "enter" /\ IsKind(Top.node, {"map", "seq", "graph"})
      /\ \A a \in DOMAIN heap : heap'[a].kids = heap[a].kids
  BY OpenMapHeap, OpenGraphHeap
     DEF OpenSeq, OpenMap, OpenGraph, Running, IsKind, objects, Unmoved, Around, Plain
<1>2. /\ Traverses(Top) /\ Top.node \in DOMAIN heap /\ Top \in Call
      /\ Len(stack) \in DOMAIN stack /\ stack[Len(stack)] = Top
      /\ DOMAIN heap[Top.node].kids = 1 .. Len(heap[Top.node].kids)
  BY <1>1, Traversing, StackAfter DEF Around, Plain
<1>3. Walked(Top) /\ heap[Top.node].kind = web.heap[Top.node].kind
  BY <1>2 DEF Around, Calls, Plain, Bodies
<1>4. CASE OpenSeq \/ OpenMap
  <2>0. PICK f, base, ns :
            /\ \/ f = [Top EXCEPT !.at = "iterate", !.pos = 1]
               \/ f = [Top EXCEPT !.at = "iterate", !.pos = 1, !.base = base, !.ns = ns]
            /\ Become(f)
    BY <1>4 DEF OpenSeq, OpenMap
  <2>1. Become(f) /\ f.fn = "resolve_all" /\ f.at = "iterate" /\ f.pos = 1 /\ f.node = Top.node
    BY <1>1, <1>2, <2>0 DEF Call, Frame
  <2>2. Walked(f)'
    BY <1>1, <1>2, <1>3, <2>1 DEF Walked, InFields, Traverses, Written, Around
  <2>3. \A k : Serving(k, Top) => Serving(k, f)
    BY <1>1, <2>1 DEF Serving
  <2>4. Replaces(f)
    BY <2>1, <2>2, <2>3, Plainly DEF Replaces, Serves
  <2> QED  BY <2>1, <2>4, CallsAfter, HandedAfter DEF Become
<1>5. CASE OpenGraph
  <2>0. PICK f, list :
            /\ list = heap[Top.node].kids[1]
            /\ f = [Top EXCEPT !.at = "iterate", !.pos = 1, !.ns = Scope(Top),
                        !.base = Identified(Top).base, !.node = list]
    OBVIOUS
  <2>1. /\ Become(f) /\ f.fn = "resolve_all" /\ f.at = "iterate"
        /\ f.node = heap[Top.node].kids[1]
    BY <1>1, <1>2, <1>5, <2>0 DEF OpenGraph, Call, Frame
  <2>2. heap[Top.node].kind = "graph"
    BY <1>5 DEF OpenGraph, IsKind
  <2>3. heap[Top.node].kids = Written(Top.node) /\ web.heap[f.node].kind = "seq"
    BY <1>2, <2>1, <2>2 DEF Around, Fixed, Plain, Bodies, Whole, Store, WellFormed
  <2>4. \A k : Serving(k, Top) => Serving(k, f)
    BY <1>1, <1>2, <1>3, <2>1, <2>2, <2>3 DEF Serving, Traverses
  <2>5. Replaces(f)
    BY <2>1, <2>3, <2>4, Plainly DEF Replaces, Serves, Around
  <2> QED  BY <2>1, <2>5, CallsAfter, HandedAfter DEF Become
<1> QED  BY <1>4, <1>5
\* document[key] = value: what resolve_all or resolve_ref returned is what the field becomes.
LEMMA ReplaceResolves ==
    ASSUME NEW F, Around(F), Handed, ReplaceKid, InFields(Top),
           NEW a, a = Top.node, NEW pos, pos = Top.pos
    PROVE  /\ a \in DOMAIN heap /\ pos \in DOMAIN heap[a].kids
           /\ DOMAIN heap'[a].kids = DOMAIN heap[a].kids
           /\ \A i \in DOMAIN heap[a].kids : i # pos => heap'[a].kids[i] = heap[a].kids[i]
           /\ Resolved(a, pos)'
<1>1. /\ Returned("resolve_all") /\ More(Top) /\ stack # <<>> /\ Top.at = "wait" /\ ret # NoRet
      /\ heap' = [heap EXCEPT ![Top.node].kids[Top.pos] = ret]
  BY DEF ReplaceKid, Returned
<1>2. /\ Top \in Call /\ Top.node \in DOMAIN heap /\ Kids(Top) = heap[Top.node].kids
      /\ Top.pos \in DOMAIN heap[Top.node].kids
  <2>1. IsKind(Top.node, {"map", "seq"}) /\ Top.fn = "resolve_all"
    BY <1>1, InLoop DEF Around, Plain, Returned
  <2> QED  BY <1>1, <2>1, InLoop, Traversing DEF Around, Plain, More
<1>3. heap[Top.node] \in Node(Addrs)
  BY <1>2 DEF Around, Plain, Whole, Store
<1>4. heap'[Top.node].kids = [heap[Top.node].kids EXCEPT ![Top.pos] = ret]
  BY <1>1, <1>2, <1>3 DEF Node
<1>5. PICK k, v : k = Written(Top.node)[Top.pos] /\ v = ret
  OBVIOUS
<1>6. StandsFor(k, v) /\ k \in Addrs
  <2>1. Top.pos \in DOMAIN Written(Top.node)
    BY <1>2 DEF Around, Mapped, InFields
  <2> QED  BY <1>1, <1>2, <1>5, <2>1, WebKids DEF Handed, Around
<1>7. StandsFor(k, v)' /\ heap'[Top.node].kids[Top.pos] = v
  BY <1>2, <1>4, <1>5, <1>6 DEF Around, Lasting
<1>8. Resolved(a, pos)'
  BY <1>5, <1>7 DEF Resolved, Written, Around
<1> QED  BY <1>2, <1>4, <1>8

\* A field of a map has its written value or its resolved one after every step.
LEMMA StepMapped ==
    ASSUME NEW F, Around(F), Handed
    PROVE  Mapped'
<1> SUFFICES ASSUME NEW a \in DOMAIN heap, web.heap[a].kind = "map"
             PROVE  /\ DOMAIN heap'[a].kids = DOMAIN Written(a)
                    /\ \A i \in DOMAIN heap'[a].kids :
                          heap'[a].kids[i] = Written(a)[i] \/ Resolved(a, i)'
  BY DEF Mapped, Written, Around, Bodies, Plain
<1>1. /\ DOMAIN heap[a].kids = DOMAIN Written(a) /\ heap[a].kind = "map"
      /\ \A i \in DOMAIN heap[a].kids :
            \/ heap[a].kids[i] = Written(a)[i]
            \/ Resolved(a, i)
  BY DEF Around, Mapped, Plain, Bodies
<1>2. ASSUME NEW i \in DOMAIN heap[a].kids, heap'[a].kids[i] = heap[a].kids[i]
      PROVE  heap'[a].kids[i] = Written(a)[i] \/ Resolved(a, i)'
  BY <1>1, <1>2, StaysResolved DEF Around
<1>3. CASE heap'[a].kids = heap[a].kids
  BY <1>1, <1>2, <1>3
<1>4. CASE stack # <<>> /\ a = Top.node /\ Traverses(Top) /\ ReplaceKid
  <2>1. PICK pos : pos = Top.pos
    OBVIOUS
  <2>2. InFields(Top)
    BY <1>4 DEF InFields
  <2>3. /\ DOMAIN heap'[a].kids = DOMAIN heap[a].kids
        /\ \A i \in DOMAIN heap[a].kids : i # pos => heap'[a].kids[i] = heap[a].kids[i]
        /\ Resolved(a, pos)'
    BY <1>4, <2>1, <2>2, ReplaceResolves
  <2>4. ASSUME NEW i \in DOMAIN heap[a].kids
        PROVE  heap'[a].kids[i] = Written(a)[i] \/ Resolved(a, i)'
    BY <1>2, <2>3
  <2> QED  BY <1>1, <2>3, <2>4
<1> QED  BY <1>1, <1>3, <1>4 DEF Around, Untold

\* The loops go on with the next field or item.
LEMMA LoopCalls ==
    ASSUME NEW F, Around(F), Handed, ReplaceKid \/ SpliceKids
    PROVE  Calls' /\ Handed'
<1>1. /\ Returned("resolve_all") /\ More(Top) /\ Top.fn = "resolve_all" /\ Top.at = "wait"
  BY DEF ReplaceKid, SpliceKids, Returned
<1>2. IsKind(Top.node, {"map", "seq"}) /\ Top.pos \in Nat
  BY <1>1, InLoop DEF Around, Plain
<1>3. /\ Traverses(Top) /\ Top.node \in DOMAIN heap /\ Top \in Call /\ Top.pos \in Nat
      /\ Len(stack) \in DOMAIN stack /\ stack[Len(stack)] = Top
  BY <1>1, <1>2, Traversing, StackAfter DEF Around, Plain
<1>4. PICK f, next : /\ f = [Top EXCEPT !.at = "iterate", !.pos = next]
                     /\ Become(f)
                     /\ ReplaceKid => next = Top.pos + 1
  BY DEF ReplaceKid, SpliceKids
<1>5. f.fn = "resolve_all" /\ f.at = "iterate" /\ f.node = Top.node /\ f.pos = next
  BY <1>1, <1>3, <1>4 DEF Call, Frame
<1>6. Walked(f)'
  <2>1. CASE web.heap[Top.node].kind # "map"
    BY <1>5, <2>1, Plainly DEF Around
  <2>2. CASE web.heap[Top.node].kind = "map"
    <3>0. PICK a, pos : a = Top.node /\ pos = Top.pos
      OBVIOUS
    <3>1. ReplaceKid
      BY <1>3, <2>2 DEF SpliceKids, Splices, Spliceable, IsKind, Around, Plain, Bodies
    <3>2. InFields(Top) /\ Walked(Top)
      BY <1>3, <2>2 DEF InFields, Around, Calls
    <3>3. /\ a \in DOMAIN heap /\ pos \in DOMAIN heap[a].kids
          /\ DOMAIN heap'[a].kids = DOMAIN heap[a].kids
          /\ \A i \in DOMAIN heap[a].kids : i # pos => heap'[a].kids[i] = heap[a].kids[i]
          /\ Resolved(a, pos)'
      BY <3>0, <3>1, <3>2, ReplaceResolves
    <3>4. DOMAIN heap[a].kids \subseteq Nat /\ DOMAIN heap[a].kids = DOMAIN Written(a)
      BY <1>1, <1>2, <2>2, <3>0, <3>3, Traversing DEF Around, Plain, Mapped
    <3>5. pos >= 1 /\ next = pos + 1 /\ pos \in Nat
      BY <1>1, <1>2, <1>4, <3>0, <3>1, <3>2 DEF Walked
    <3>6. ASSUME NEW i \in DOMAIN heap[a].kids
          PROVE  IF i >= next THEN heap'[a].kids[i] = Written(a)[i] ELSE Resolved(a, i)'
      <4>1. IF i >= pos THEN heap[a].kids[i] = Written(a)[i] ELSE Resolved(a, i)
        BY <1>1, <3>0, <3>2 DEF Walked
      <4>2. CASE i >= next
        BY <3>3, <3>4, <3>5, <4>1, <4>2
      <4>3. CASE i = pos
        BY <3>3, <3>5, <4>3
      <4>4. CASE ~(i >= pos)
        <5>1. Resolved(a, i)'
          BY <3>3, <3>4, <4>1, <4>4, <3>5, StaysResolved DEF Around
        <5> QED  BY <3>4, <3>5, <4>4, <5>1
      <4>5. i \in Nat
        BY <3>4
      <4> QED  BY <3>5, <4>2, <4>3, <4>4, <4>5
    <3> QED  BY <1>5, <3>0, <3>3, <3>4, <3>5, <3>6 DEF Walked, InFields, Traverses, Written, Around
  <2> QED  BY <2>1, <2>2
<1>7. \A k : Serving(k, Top) => Serving(k, f)
  BY <1>1, <1>5 DEF Serving
<1>8. Replaces(f)
  BY <1>5, <1>6, <1>7, Plainly DEF Replaces, Serves
<1> QED  BY <1>4, <1>8, CallsAfter, HandedAfter DEF Become
\* A call for an untouched object has all of it before it.
LEMMA FreshWalk ==
    ASSUME NEW F, Around(F), Raw(F), NEW g, g.fn = "resolve_all", g.at = "enter",
           g.node # Text => g.node \in F /\ heap'[g.node].kids = heap[g.node].kids
    PROVE  Walked(g)' /\ Aimed(g)'
  BY DEF Walked, InFields, Traverses, Written, Raw, Around, Aimed

\* The next field or item is resolved by a call of its own.
LEMMA DescendCalls ==
    ASSUME NEW F, Around(F), Raw(F), OwnDocuments(web), Homes, Descend
    PROVE  Calls' /\ Handed'
<1>0. PICK kid, f, g :
        /\ kid = Kids(Top)[Top.pos]
        /\ f = [Top EXCEPT !.at = "wait"]
        /\ g = IF Spliceable(Top) THEN DirectiveFrame(kid, Top.file, Top.ns, FALSE)
               ELSE AllFrame(kid, Top.base, Top.file, Top.ns, FALSE)
  OBVIOUS
<1>1. /\ Top.fn = "resolve_all" /\ Top.at = "iterate" /\ Top.pos \in DOMAIN Kids(Top)
      /\ Invoke(f, g) /\ heap' = heap /\ stack # <<>>
  BY <1>0 DEF Descend, Running, More, objects, world
<1>2. /\ Top \in Call /\ InPlace(F, Top) /\ Walked(Top)
      /\ Len(stack) \in DOMAIN stack /\ stack[Len(stack)] = Top
  BY <1>1, StackAfter DEF Fresh, Around, Plain, Calls
<1>3. IsKind(Top.node, {"map", "seq"})
  BY <1>1, <1>2, CallParts
<1>4. /\ Traverses(Top) /\ Top.node \in DOMAIN heap /\ Top.pos \in Nat
      /\ Kids(Top) = heap[Top.node].kids
  BY <1>1, <1>2, <1>3, Traversing DEF Kids, Around, Plain
<1>5. kid # Text => kid \in Offspring(Top.node) /\ kid \in F
  BY <1>0, <1>1, <1>2, <1>4 DEF InPlace, From, Ahead
<1>6. /\ f.fn = "resolve_all" /\ f.at = "wait" /\ f.node = Top.node /\ f.pos = Top.pos
  BY <1>0, <1>1, <1>2 DEF Call, Frame
<1>7. Walked(f)' /\ (InFields(Top) => kid = Written(Top.node)[Top.pos])
  <2>0. PICK a : a = Top.node
    OBVIOUS
  <2>1. CASE web.heap[a].kind # "map"
    BY <1>6, <2>0, <2>1, Plainly DEF InFields, Around
  <2>2. CASE web.heap[a].kind = "map"
    <3>1. InFields(Top) /\ DOMAIN heap[a].kids = DOMAIN Written(a) /\ DOMAIN heap[a].kids \subseteq Nat
      BY <1>1, <1>3, <1>4, <2>0, <2>2, Traversing DEF InFields, Around, Mapped, Plain
    <3>2. /\ Top.pos >= 1
          /\ \A i \in DOMAIN heap[a].kids :
                IF i >= Top.pos THEN heap[a].kids[i] = Written(a)[i] ELSE Resolved(a, i)
      BY <1>1, <1>2, <2>0, <3>1 DEF Walked
    <3>3. \A i \in DOMAIN heap[a].kids : Resolved(a, i) => Resolved(a, i)'
      BY <1>1, <1>4, <2>0, <3>1, StaysResolved DEF Around
    <3>4. Walked(f)'
      BY <1>1, <1>4, <1>6, <2>0, <3>1, <3>2, <3>3 DEF Walked, Written, Around
    <3>5. kid = Written(Top.node)[Top.pos]
      BY <1>0, <1>1, <1>4, <2>0, <3>2
    <3> QED  BY <3>4, <3>5
  <2> QED  BY <2>1, <2>2
<1>8. Replaces(f)
  <2>1. \A k : Serving(k, Top) => Serving(k, f)
    BY <1>1, <1>6 DEF Serving
  <2> QED  BY <1>6, <1>7, <2>1, Plainly DEF Replaces, Serves
<1>9. Aimed(g)' /\ Walked(g)' /\ Serves(f, g)
  <2>1. CASE Spliceable(Top)
    <3>1. /\ g.fn = "resolve_ref" /\ g.node = kid /\ g.mode = heap[kid].kind
          /\ g.url = ExpandRef(heap[kid].ref, Top.file)
      BY <1>0, <2>1 DEF DirectiveFrame, RefFrame
    <3>2. kid # Text => Top.file.doc = heap[kid].home
      BY <1>2, <1>4, <1>5, ChildHome DEF Homes, AtHome, Around
    <3>3. Aimed(g)'
      BY <1>1, <3>1, <3>2 DEF Aimed, Holds, ExpandRef, RootUrl
    <3>4. web.heap[f.node].kind # "map"
      BY <1>4, <1>6, <2>1 DEF Spliceable, IsKind, Around, Plain, Bodies
    <3> QED  BY <3>1, <3>3, <3>4, Plainly DEF Serves, InFields
  <2>2. CASE ~Spliceable(Top)
    <3>1. g.fn = "resolve_all" /\ g.at = "enter" /\ g.node = kid
      BY <1>0, <2>2 DEF AllFrame
    <3>2. Aimed(g)' /\ Walked(g)'
      BY <1>1, <1>5, <3>1, FreshWalk
    <3>3. Serving(kid, g)
      BY <3>1 DEF Serving
    <3>4. InFields(f) => Written(f.node)[f.pos] = kid
      BY <1>1, <1>6, <1>7 DEF InFields, Traverses
    <3> QED  BY <3>2, <3>3, <3>4 DEF Serves
  <2> QED  BY <2>1, <2>2
<1> QED  BY <1>1, <1>8, <1>9, CallsAfter, HandedAfter DEF Invoke

\* A document that is loaded is untouched.
LEMMA LoadCalls ==
    ASSUME NEW F, Around(F), Raw(F), Load
    PROVE  Calls' /\ Handed'
<1>0. PICK d, root, f, g :
        /\ d = DocUrl(Top.url) /\ root = web.root[Top.url.doc]
        /\ f = [Top EXCEPT !.at = "wait"]
        /\ g = AllFrame(root, d, d, Top.ns, Top.check)
  OBVIOUS
<1>1. /\ stack # <<>> /\ Top.fn = "resolve_ref" /\ Top \in Call /\ Top.url.doc \in Docs
      /\ Len(stack) \in DOMAIN stack /\ stack[Len(stack)] = Top
  BY TopRef, StackAfter DEF Load, Running, Around, Plain
<1>2. /\ Unmoved /\ d \notin DOMAIN idx /\ d = RootUrl(Top.url.doc)
      /\ idx'[d] = root /\ root \in Addrs
  BY <1>0, LoadHeap DEF Around, Plain
<1>3. Invoke(f, g)
  BY <1>0, <1>2 DEF Load
<1>4. /\ f.fn = "resolve_ref" /\ f.mode = Top.mode /\ f.node = Top.node /\ f.url = Top.url
  BY <1>0, <1>1 DEF Call, Frame
<1>5. /\ g.fn = "resolve_all" /\ g.at = "enter" /\ g.node = root
  BY <1>0 DEF AllFrame
<1>6. root # Text => root \in F /\ heap'[root].kids = heap[root].kids
  <2>1. root # NoText
    BY <1>2 DEF Addrs, Around, Plain, Whole, Store, NoText, Text
  <2>2. root # Text => root \in F
    BY <1>0, <1>1, <1>2, <2>1 DEF Fresh, Untouched, Around
  <2> QED  BY <1>2, <2>2 DEF Unmoved, Fresh, Untouched, Around
<1>7. Aimed(f)'
  <2>1. Aimed(Top) /\ Top.node \in Addrs
    BY <1>1, CallParts DEF Around, Calls
  <2> QED  BY <1>1, <1>2, <1>4, <2>1 DEF Aimed, Holds, Unmoved, Addrs
<1>8. Replaces(f)
  <2>1. \A k : Serving(k, Top) => Serving(k, f)
    BY <1>1, <1>4 DEF Serving
  <2> QED  BY <1>4, <1>7, <2>1, Plainly DEF Replaces, Serves
<1>9. Aimed(g)' /\ Walked(g)' /\ Serves(f, g)
  BY <1>4, <1>5, <1>6, FreshWalk DEF Serves, InFields, Traverses
<1> QED  BY <1>3, <1>8, <1>9, CallsAfter, HandedAfter DEF Invoke
LEMMA StepCalls ==
    ASSUME NEW F, Around(F), Raw(F), Handed, OwnDocuments(web), Homes, Step, ~Answer
    PROVE  Calls' /\ Handed'
<1>1. ~LoadMixin
  BY NoMixinCalls DEF Around
<1> QED
  BY <1>1, LeaveCalls, FollowCalls, OpenCalls, LoopCalls, DescendCalls, LoadCalls DEF Step

----------------------------------------------------------------------------
(* The index *)

\* A call for the object a ends only when it returns.
LEMMA StillInCall ==
    ASSUME Whole, stack # <<>>, NEW a, InCall(a), NEW v, NEW f, NEW g,
           \/ Return(v) /\ ~(Top.fn = "resolve_all" /\ Top.node = a)
           \/ /\ Become(f) \/ Invoke(f, g)
              /\ Top.fn = "resolve_all" /\ Top.node = a => f.fn = "resolve_all" /\ f.node = a
    PROVE  InCall(a)'
<1> DEFINE n == Len(stack)
<1>1. /\ n \in Nat \ {0} /\ Outer = 1 .. n - 1 /\ stack[n] = Top /\ DOMAIN stack = 1 .. n
  BY StackAfter DEF Outer
<1>2. PICK i \in DOMAIN stack : stack[i].fn = "resolve_all" /\ stack[i].node = a
  BY DEF InCall
<1>3. i \in Outer \/ i = n
  BY <1>1
<1>4. i \in Outer => i \in DOMAIN stack' /\ stack'[i] = stack[i]
  <2>1. CASE Return(v)
    BY <2>1, StackAfter DEF Return
  <2>2. CASE Become(f)
    BY <1>1, <2>2, StackAfter
  <2>3. CASE Invoke(f, g)
    <3>1. /\ DOMAIN stack' = 1 .. n + 1
          /\ \A j \in Outer : stack'[j] = stack[j]
      BY <2>3, StackAfter
    <3> HIDE DEF n
    <3> QED  BY <1>1, <3>1
  <2> QED  BY <2>1, <2>2, <2>3
<1>5. ASSUME i = n, i \notin Outer PROVE InCall(a)'
  <2>1. Become(f) \/ Invoke(f, g)
    BY <1>1, <1>2, <1>5
  <2>2. n \in DOMAIN stack' /\ stack'[n] = f
    <3>1. CASE Become(f)
      BY <1>1, <3>1, StackAfter
    <3>2. CASE Invoke(f, g)
      <4>1. DOMAIN stack' = 1 .. n + 1 /\ stack'[n] = f
        BY <3>2, StackAfter
      <4> HIDE DEF n
      <4> QED  BY <1>1, <4>1
    <3> QED  BY <2>1, <3>1, <3>2
  <2>3. f.fn = "resolve_all" /\ f.node = a
    BY <1>1, <1>2, <1>5, <2>1 DEF Return, Become, Invoke
  <2> QED  BY <2>2, <2>3 DEF InCall
<1> QED  BY <1>2, <1>3, <1>4, <1>5 DEF InCall

\* A map of which all fields are resolved stays so.
LEMMA DoneKept ==
    ASSUME NEW F, Around(F), Handed, NEW a \in DOMAIN heap, web.heap[a].kind = "map", Done(a)
    PROVE  Done(a)'
<1>1. DOMAIN heap[a].kids = DOMAIN Written(a) /\ \A i \in DOMAIN heap[a].kids : Resolved(a, i)
  BY DEF Around, Mapped, Done
<1>2. \A i \in DOMAIN heap[a].kids : heap'[a].kids[i] = heap[a].kids[i] => Resolved(a, i)'
  BY <1>1, StaysResolved DEF Around
<1>3. CASE heap'[a].kids = heap[a].kids
  BY <1>1, <1>2, <1>3 DEF Done
<1>4. CASE stack # <<>> /\ a = Top.node /\ Traverses(Top) /\ ReplaceKid
  <2>1. PICK pos : pos = Top.pos
    OBVIOUS
  <2>2. InFields(Top)
    BY <1>4 DEF InFields
  <2>3. /\ DOMAIN heap'[a].kids = DOMAIN heap[a].kids
        /\ \A i \in DOMAIN heap[a].kids : i # pos => heap'[a].kids[i] = heap[a].kids[i]
        /\ Resolved(a, pos)'
    BY <1>4, <2>1, <2>2, ReplaceResolves
  <2> QED  BY <1>2, <2>3 DEF Done
<1>5. heap[a].kind = "map"
  BY DEF Around, Plain, Bodies
<1> QED  BY <1>3, <1>4, <1>5 DEF Around, Untold

\* The loop over a map ends when all its fields are resolved.
LEMMA FinishDone ==
    ASSUME NEW F, Around(F), Finish, NEW a \in DOMAIN heap, web.heap[a].kind = "map", Top.node = a
    PROVE  Done(a)'
<1>1. /\ Top.fn = "resolve_all" /\ Top.at = "iterate" /\ Top.pos \notin DOMAIN Kids(Top)
      /\ heap' = heap
  BY DEF Finish, Running, More, objects
<1>2. heap[a].kind = "map" /\ a # Text
  BY Shape DEF Around, Plain, Bodies
<1>3. /\ Traverses(Top) /\ Top.pos \in Nat /\ Len(heap[a].kids) \in Nat
      /\ DOMAIN heap[a].kids = 1 .. Len(heap[a].kids) /\ Kids(Top) = heap[a].kids
      /\ Len(stack) \in DOMAIN stack /\ stack[Len(stack)] = Top
  <2>1. IsKind(Top.node, {"map"})
    BY <1>2 DEF IsKind
  <2> QED  BY <1>1, <2>1, Traversing, StackAfter DEF Around, Plain, Kids
<1>4. /\ Top.pos >= 1
      /\ \A i \in DOMAIN heap[a].kids :
            IF i >= Top.pos THEN heap[a].kids[i] = Written(a)[i] ELSE Resolved(a, i)
  <2>1. Walked(Top) /\ InFields(Top)
    BY <1>3 DEF Around, Calls, InFields
  <2> QED  BY <1>1, <2>1 DEF Walked
<1>5. \A i \in DOMAIN heap[a].kids : ~(i >= Top.pos)
  BY <1>1, <1>3, <1>4
<1>6. Done(a)
  BY <1>4, <1>5 DEF Done
<1>7. DOMAIN heap[a].kids = DOMAIN Written(a)
  BY DEF Around, Mapped
<1>8. \A i \in DOMAIN heap[a].kids : Resolved(a, i)'
  BY <1>1, <1>6, <1>7, StaysResolved DEF Around, Done
<1> QED  BY <1>1, <1>8 DEF Done
\* A map enters the index when a call takes it in hand.
LEMMA NewEntries ==
    ASSUME NEW F, Around(F), Step, NEW u \in DOMAIN idx', NEW a, a = idx'[u]
    PROVE  \/ u \in DOMAIN idx /\ idx[u] = a
           \/ a = Text
           \/ a \in DOMAIN heap /\ web.heap[a].kind # "map"
           \/ InCall(a)'
<1>1. CASE idx' = idx
  BY <1>1
<1>2. CASE OpenMap \/ OpenGraph
  <2>1. /\ Top.fn = "resolve_all" /\ IsKind(Top.node, {"map", "graph"})
        /\ Top.node \in DOMAIN heap /\ Top \in Call
    <3>1. Top.fn = "resolve_all" /\ IsKind(Top.node, {"map", "graph"})
      BY <1>2 DEF OpenMap, OpenGraph, Running, IsKind
    <3> QED  BY <3>1, Traversing, StackAfter DEF Around, Plain
  <2>2. (u \in DOMAIN idx /\ idx[u] = a) \/ a = Text \/ a = Top.node
    <3>1. PICK i : i = Identified(Top)
      OBVIOUS
    <3>2. \A x \in DOMAIN i.idx : (x \in DOMAIN idx /\ idx[x] = i.idx[x]) \/ i.idx[x] = Top.node
      BY <3>1 DEF Identified, Bind
    <3>3. (u \in DOMAIN i.idx /\ a = i.idx[u]) \/ a = Text
      BY <1>2, <3>1 DEF OpenMap, OpenGraph, Symbols
    <3> QED  BY <3>2, <3>3
  <2>3. CASE OpenGraph
    <3>1. web.heap[Top.node].kind # "map"
      BY <2>1, <2>3 DEF OpenGraph, IsKind, Around, Plain, Bodies
    <3> QED  BY <2>1, <2>2, <3>1
  <2>4. CASE OpenMap
    <3>1. PICK f, base, ns :
              /\ f = [Top EXCEPT !.at = "iterate", !.pos = 1, !.base = base, !.ns = ns]
              /\ Become(f)
      BY <2>4 DEF OpenMap
    <3>2. f.fn = "resolve_all" /\ f.node = Top.node
      BY <2>1, <3>1 DEF Call, Frame
    <3>3. Len(stack) \in DOMAIN stack' /\ stack'[Len(stack)] = f
      BY <3>1, StackAfter DEF Around, Plain
    <3>4. a = Top.node => InCall(a)'
      BY <3>2, <3>3 DEF InCall
    <3> QED  BY <2>2, <3>4
  <2> QED  BY <1>2, <2>3, <2>4
<1>3. CASE Load
  <2>0. PICK d, root, f, g :
        /\ d = DocUrl(Top.url) /\ root = web.root[Top.url.doc]
        /\ f = [Top EXCEPT !.at = "wait"]
        /\ g = AllFrame(root, d, d, Top.ns, Top.check)
    OBVIOUS
  <2>1. d \notin DOMAIN idx /\ idx'[d] = root /\ d.doc = Top.url.doc
    <3>1. Top \in Call
      BY StackAfter DEF Around, Plain
    <3> QED  BY <1>3, <2>0, <3>1, LoadHeap DEF Around, Plain, DocUrl, Call, Frame, AbsUrl
  <2>2. Invoke(f, g) /\ g.fn = "resolve_all" /\ g.node = root
    BY <1>3, <2>0, <2>1 DEF Load, AllFrame
  <2>3. (u \in DOMAIN idx /\ idx[u] = a) \/ a = root
    BY <1>3, <2>0, <2>1 DEF Load, Fetched, Parsed, Bind
  <2>4. Len(stack) + 1 \in DOMAIN stack' /\ stack'[Len(stack) + 1] = g
    BY <2>2, StackAfter DEF Around, Plain
  <2>5. a = root => InCall(a)'
    BY <2>2, <2>4 DEF InCall
  <2> QED  BY <2>3, <2>5
<1>4. ~LoadMixin
  BY NoMixinCalls DEF Around
<1> QED
  BY <1>1, <1>2, <1>3, <1>4
     DEF Step, RejectDirective, ReturnIndexed, Include, ReportMissing, LoadFails, RefResolved, Answer,
         ReturnScalar, FollowDirective, OpenSeq, Descend, ReplaceKid, SpliceKids, Finish, Overflow,
         objects

\* A call that is at a map goes on with it, or ends when it is done.
LEMMA CallOrDone ==
    ASSUME NEW F, Around(F), Step, ~Answer, ~broken', NEW a \in DOMAIN heap,
           web.heap[a].kind = "map", InCall(a)
    PROVE  InCall(a)' \/ Done(a)'
<1>1. heap[a].kind = "map" /\ a # Text /\ Whole /\ Top \in Call /\ Text \notin DOMAIN heap
  BY Shape, StackAfter DEF Around, Plain, Bodies
<1>2. \A v : Return(v) /\ ~(Top.fn = "resolve_all" /\ Top.node = a) => InCall(a)'
  BY <1>1, StillInCall DEF Around
<1>3. \A f, g : (Become(f) \/ Invoke(f, g)) /\ (Top.fn = "resolve_all" /\ Top.node = a =>
                    f.fn = "resolve_all" /\ f.node = a) => InCall(a)'
  BY <1>1, StillInCall DEF Around
<1>4. CASE Finish /\ Top.node = a
  BY <1>4, FinishDone
<1>5. CASE RejectDirective \/ ReturnIndexed \/ Include \/ ReportMissing \/ LoadFails \/ RefResolved
             \/ ReturnScalar \/ Overflow \/ (Finish /\ Top.node # a)
  <2>1. ~(Top.fn = "resolve_all" /\ Top.node = a) /\ \E v : Return(v)
    BY <1>1, <1>5 DEF RejectDirective, ReturnIndexed, Include, ReportMissing, LoadFails, RefResolved,
                      ReturnScalar, Overflow, Finish, Running, Returned, Raise
  <2> QED  BY <1>2, <2>1
<1>6. CASE FollowDirective \/ OpenGraph
  <2>1. Top.node # a /\ \E f : Become(f)
    BY <1>1, <1>6 DEF FollowDirective, OpenGraph, IsKind, Directives
  <2> QED  BY <1>3, <2>1
<1>7. CASE OpenSeq \/ OpenMap \/ ReplaceKid \/ SpliceKids
  <2>1. PICK f, base, ns, pos :
            /\ \/ f = [Top EXCEPT !.at = "iterate", !.pos = pos]
               \/ f = [Top EXCEPT !.at = "iterate", !.pos = pos, !.base = base, !.ns = ns]
            /\ Become(f)
    BY <1>7 DEF OpenSeq, OpenMap, ReplaceKid, SpliceKids
  <2>2. f.fn = Top.fn /\ f.node = Top.node
    BY <1>1, <2>1 DEF Call, Frame
  <2> QED  BY <1>3, <2>1, <2>2
<1>8. CASE Descend \/ Load
  <2>1. PICK f, g : f = [Top EXCEPT !.at = "wait"] /\ Invoke(f, g)
    BY <1>8 DEF Descend, Load
  <2>2. f.fn = Top.fn /\ f.node = Top.node
    BY <1>1, <2>1 DEF Call, Frame
  <2> QED  BY <1>3, <2>1, <2>2
<1>9. ~LoadMixin
  BY NoMixinCalls DEF Around
<1> QED  BY <1>4, <1>5, <1>6, <1>7, <1>8, <1>9 DEF Step

\* What can be asked for is in the hands of a call or resolved.
LEMMA StepComplete ==
    ASSUME NEW F, Around(F), Handed, Complete, Step, ~Answer
    PROVE  Complete'
<1> SUFFICES ASSUME ~broken', NEW u \in DOMAIN idx', NEW a, a = idx'[u], IsKind(a, {"map"})'
             PROVE  InCall(a)' \/ Done(a)'
  BY DEF Complete, Settled
<1>1. a # Text /\ a \in DOMAIN heap /\ web.heap[a].kind = "map" /\ heap[a].kind = "map"
  <2>1. a \in Addrs'
    BY NextOK DEF Around, Plain, Next, Whole, Index
  <2> QED  BY <2>1 DEF IsKind, Around, Plain, Bodies, Addrs
<1>2. ~broken
  <2>1. broken' = broken \/ broken' = TRUE
    BY DEF Step, RejectDirective, ReturnIndexed, Include, ReportMissing, LoadFails, RefResolved, Load,
           LoadMixin, ReturnScalar, FollowDirective, OpenSeq, OpenMap, OpenGraph, Descend, ReplaceKid,
           SpliceKids, Finish, Overflow, Raise, Return, Become, Invoke
  <2> QED  BY <2>1
<1>3. CASE u \in DOMAIN idx /\ a = idx[u]
  <2>1. InCall(a) \/ Done(a)
    BY <1>1, <1>2, <1>3 DEF Complete, Settled, IsKind
  <2> QED  BY <1>1, <2>1, CallOrDone, DoneKept
<1> QED  BY <1>1, <1>3, NewEntries
----------------------------------------------------------------------------
(* The invariant *)

\* Between the calls of the application, and where the interpreter does something else.
LEMMA IdleFields ==
    ASSUME Plain, Fixed, Calls, Handed, Mapped, Complete, Lasting, Bodies',
           UNCHANGED <<web, heap, idx, broken>>,
           \/ UNCHANGED <<stack, ret>>
           \/ stack = <<>> /\ stack' = <<>> /\ ret' = NoRet
           \/ /\ stack = <<>> /\ ret' = NoRet
              /\ \E url, base : stack' = <<RefFrame("string", url, Text, base, {}, TRUE)>>
    PROVE  Calls' /\ Handed' /\ Mapped' /\ Complete'
<1>1. /\ \A i \in DOMAIN stack : stack[i] \in Call /\ Walked(stack[i]) /\ Aimed(stack[i])
      /\ stack # <<>> => Len(stack) \in DOMAIN stack /\ stack[Len(stack)] = Top
      /\ stack = <<>> => DOMAIN stack = {}
  BY StackAfter, LenProperties, ElementOfSeq DEF Plain, Whole, Control, Calls
<1>2. \A a \in DOMAIN heap : \A i \in DOMAIN Written(a) : Resolved(a, i) => Resolved(a, i)'
  BY StaysResolved
<1>3. Mapped'
  BY <1>2 DEF Mapped, Written, Plain, Bodies
<1>4. ASSUME NEW a \in DOMAIN heap, heap[a].kind = "map", Done(a)
      PROVE  Done(a)'
  BY <1>2, <1>4 DEF Done, Mapped, Plain, Bodies
<1>5. Complete'
  <2> SUFFICES ASSUME ~broken, NEW u \in DOMAIN idx, NEW a, a = idx[u], IsKind(a, {"map"})
               PROVE  InCall(a)' \/ Done(a)'
    BY DEF Complete, Settled, IsKind
  <2>1. a \in DOMAIN heap /\ heap[a].kind = "map"
    BY DEF IsKind, Plain, Whole, Index, Addrs
  <2>2. InCall(a) \/ Done(a)
    BY DEF Complete, Settled
  <2>3. InCall(a) => InCall(a)'
    BY <1>1 DEF InCall
  <2> QED  BY <1>4, <2>1, <2>2, <2>3
<1>6. CASE UNCHANGED <<stack, ret>>
  <2>1. ASSUME NEW f \in Call, Walked(f) PROVE Walked(f)'
    <3>1. InFields(f) => f.node \in DOMAIN heap
      BY CallParts DEF InFields, Traverses, Addrs
    <3>2. InFields(f) => DOMAIN heap[f.node].kids = DOMAIN Written(f.node)
      BY <3>1 DEF Mapped, InFields
    <3> QED  BY <1>2, <2>1, <3>1, <3>2 DEF Walked, InFields, Traverses, Written
  <2>2. Calls'
    <3>1. \A f : Aimed(f) => Aimed(f)'
      BY DEF Aimed, Holds
    <3>2. \A f, g : Serves(f, g) => Serves(f, g)'
      BY DEF Serves, Serving, InFields, Traverses, Written
    <3> QED  BY <1>1, <1>6, <2>1, <3>1, <3>2 DEF Calls
  <2>3. ASSUME ret # NoRet, stack # <<>>, InFields(Top), Top.at = "wait"
        PROVE  StandsFor(Written(Top.node)[Top.pos], ret)'
    <3>1. PICK k, v : k = Written(Top.node)[Top.pos] /\ v = ret
      OBVIOUS
    <3>2. Top.node \in DOMAIN heap /\ Top.pos \in DOMAIN Written(Top.node)
      <4>1. Top.node \in DOMAIN heap
        BY <1>1, <2>3, CallParts DEF InFields, Traverses, Addrs
      <4> QED  BY <1>1, <2>3, <4>1 DEF Walked, Mapped, InFields
    <3>3. StandsFor(k, v)'
      BY <2>3, <3>1, <3>2, WebKids DEF Handed, Lasting
    <3> QED  BY <1>6, <3>1, <3>3 DEF Written, Top
  <2>4. Handed'
    BY <1>6, <2>3 DEF Handed, InFields, Traverses, Top
  <2> QED  BY <1>3, <1>5, <2>2, <2>4
<1>7. CASE ret' = NoRet /\ stack' = <<>>
  <2>1. DOMAIN stack' = {}
    BY <1>7
  <2> QED  BY <1>3, <1>5, <1>7, <2>1 DEF Calls, Handed
<1>8. CASE ret' = NoRet /\ \E url, base : stack' = <<RefFrame("string", url, Text, base, {}, TRUE)>>
  <2>1. PICK f : stack' = <<f>> /\ f.fn = "resolve_ref" /\ f.node = Text
    BY <1>8 DEF RefFrame
  <2>2. DOMAIN stack' = {1} /\ stack'[1] = f
    BY <2>1
  <2>3. Aimed(f)' /\ Walked(f)'
    BY <2>1 DEF Aimed, Walked, Holds, InFields, Traverses
  <2>4. Calls'
    BY <2>2, <2>3 DEF Calls, Aimed, Walked, Holds, InFields, Traverses
  <2> QED  BY <1>3, <1>5, <1>8, <2>4 DEF Handed
<1> QED  BY <1>6, <1>7, <1>8

\* The objects that nothing has touched keep their values.
LEMMA StepRaw ==
    ASSUME Plain, NEW F, Fresh(F), Raw(F), NEW G, G \subseteq F, Untold, web' = web
    PROVE  Raw(G)'
<1> SUFFICES ASSUME NEW a \in G PROVE heap'[a].kids = Written(a)
  BY DEF Raw, Written
<1>1. a \in F /\ a \in DOMAIN heap /\ heap[a].kids = Written(a)
  BY DEF Raw, Fresh, Untouched
<1>2. stack # <<>> /\ Traverses(Top) => a # Top.node
  BY <1>1, StackAfter DEF Plain, Fresh, InPlace, Holds, Traverses
<1> QED  BY <1>1, <1>2 DEF Untold

LEMMA StepKeeps ==
    ASSUME NEW s, NEW F, Ground(s, F), Fields(F), [Next]_vars,
           NEW G, G \subseteq F, Fresh(G)'
    PROVE  Ground(s, G)' /\ Fields(G)'
<1> USE DEF Ground, Fields
<1>1. /\ Plain /\ DistinctNames(web, s) /\ Indexed(s) /\ Fresh(F) /\ OwnDocuments(web) /\ Homes
      /\ Whole /\ TreeShaped(web) /\ ~Mixes
  BY DEF Unique, Plain
<1>2. web' = web /\ Bodies' /\ Fixed' /\ Untold
  BY <1>1, SameWeb, BodiesKept, OneWritten
<1>3. Indexed(s)' /\ Stable
  BY <1>1, StepIndexed
<1>4. Lasting
  BY <1>1, <1>2, <1>3, StandsKept
<1>5. G \subseteq F /\ Fresh(G)'
  OBVIOUS
<1>6. Raw(G)'
  BY <1>1, <1>2, <1>5, StepRaw
<1>7. Ground(s, G)'
  <2>1. DistinctNames(web, s)' /\ TreeShaped(web)' /\ OwnDocuments(web)' /\ ~Mixes' /\ Whole'
    BY <1>1, <1>2, NextOK DEF DistinctNames, TreeShaped, OwnDocuments, Mixes
  <2>2. Homes'
    BY <1>1, StepHomes DEF Traversal, Plain
  <2> QED  BY <1>2, <1>3, <1>5, <2>1, <2>2 DEF Unique, Plain
<1>8. CASE Step /\ ~Answer
  <2>1. stack # <<>>
    BY <1>8 DEF Step, RejectDirective, ReturnIndexed, Include, ReportMissing, LoadFails, RefResolved, Load,
           LoadMixin, ReturnScalar, FollowDirective, OpenSeq, OpenMap, OpenGraph, Descend, ReplaceKid,
           SpliceKids, Finish, Overflow, Running, Returned
  <2>2. Around(F)
    BY <1>1, <1>2, <1>4, <2>1 DEF Around
  <2> QED  BY <1>1, <1>2, <1>5, <1>6, <1>7, <1>8, <2>2, StepCalls, StepMapped, StepComplete
<1>9. CASE Answer \/ UNCHANGED vars \/ \E url \in Requests : Request(url)
  <2>1. UNCHANGED <<web, heap, idx, broken>>
    BY <1>9 DEF Answer, vars, Request, objects, world
  <2>2. \/ UNCHANGED <<stack, ret>>
        \/ stack = <<>> /\ stack' = <<>> /\ ret' = NoRet
        \/ /\ stack = <<>> /\ ret' = NoRet
           /\ \E url, base : stack' = <<RefFrame("string", url, Text, base, {}, TRUE)>>
    BY <1>9 DEF Answer, vars, Request
  <2> QED  BY <1>1, <1>2, <1>4, <1>6, <1>7, <2>1, <2>2, IdleFields
<1> QED  BY <1>8, <1>9 DEF Next

LEMMA StepFields ==
    ASSUME NEW s, NEW F, Ground(s, F), Fields(F), [Next]_vars
    PROVE  \E G : Ground(s, G)' /\ Fields(G)'
<1>1. PICK G : G \subseteq F /\ Fresh(G)'
  BY StepUntouched DEF Ground, Unique
<1> QED  BY <1>1, StepKeeps

\* At first every object is as it was parsed.
LEMMA InitFields ==
    ASSUME Init, TreeShaped(web), OwnDocuments(web), ~Mixes,
           NEW s, DistinctNames(web, s), NEW F, F = DOMAIN heap
    PROVE  Ground(s, F) /\ Fields(F)
<1>1. Fresh(F) /\ Bodies
  BY InitFresh
<1>2. DOMAIN stack = {} /\ DOMAIN idx = {} /\ heap = web.heap /\ ret = NoRet /\ Whole
  BY InitOK DEF Init
<1>3. Indexed(s)
  <2>1. Scoped(s) /\ Bound(s)
    BY <1>2 DEF Scoped, Bound
  <2>2. Renames(s)
    BY <1>2 DEF Renames, Renamed
  <2> QED  BY <2>1, <2>2 DEF Indexed
<1>4. Homes
  BY InitHomes
<1>5. Fields(F)
  <2>1. Fixed /\ Raw(F) /\ Mapped
    BY <1>1, <1>2 DEF Fixed, Raw, Mapped, Written, Fresh, Untouched
  <2>2. Calls /\ Handed /\ Complete
    BY <1>2 DEF Calls, Handed, Complete
  <2> QED  BY <2>1, <2>2 DEF Fields
<1> QED  BY <1>1, <1>2, <1>3, <1>4, <1>5 DEF Ground, Unique, Plain

\* The inductive invariant: what the calls owe each other, on the objects that nothing has touched.
InOrder  == \E s, F : Ground(s, F) /\ Fields(F)
FieldInv == Whole /\ (Mixes \/ InOrder)

LEMMA FieldStep == FieldInv /\ [Next]_vars => FieldInv'
<1> SUFFICES ASSUME FieldInv, [Next]_vars PROVE FieldInv'
  OBVIOUS
<1>1. web' = web /\ Whole'
  BY SameWeb, NextOK DEF FieldInv
<1>2. CASE Mixes
  BY <1>1, <1>2 DEF FieldInv, Mixes
<1>3. CASE InOrder
  <2>1. PICK s, F : Ground(s, F) /\ Fields(F)
    BY <1>3 DEF InOrder
  <2>2. PICK G : Ground(s, G)' /\ Fields(G)'
    BY <2>1, StepFields
  <2>3. InOrder'
    BY <2>2 DEF InOrder
  <2> QED  BY <1>1, <2>3 DEF FieldInv
<1> QED  BY <1>2, <1>3 DEF FieldInv

LEMMA FieldInvariant ==
    ASSUME \A w \in Webs : TreeShaped(w) /\ OwnDocuments(w) /\ \E s : DistinctNames(w, s)
    PROVE  Spec => []FieldInv
<1>1. Init => FieldInv
  <2> SUFFICES ASSUME Init PROVE FieldInv
    OBVIOUS
  <2>1. TreeShaped(web) /\ OwnDocuments(web) /\ Whole
    BY InitOK DEF Init
  <2>2. PICK s : DistinctNames(web, s)
    BY DEF Init
  <2> QED  BY <2>1, <2>2, InitFields DEF FieldInv, InOrder
<1>2. FieldInv /\ [Next]_vars => FieldInv'
  BY FieldStep
<1> QED  BY <1>1, <1>2, PTL DEF Spec

\* In texts without aliases and mixins that give every identifier once, and their own, a map
\* that can be asked for has in each field what its text says, resolved, on every cycle of
\* imports; only a call that is still at it, or an exception, leaves a field as it was parsed,
\* and no field ever holds anything else.
THEOREM FieldsAsWritten ==
    ASSUME \A w \in Webs : TreeShaped(w) /\ OwnDocuments(w) /\ \E s : DistinctNames(w, s)
    PROVE  Spec => []FieldsResolved
<1>1. Spec => []FieldInv
  BY FieldInvariant
<1>2. FieldInv => FieldsResolved
  <2> SUFFICES ASSUME Whole, InOrder, NEW u \in DOMAIN idx, NEW a, a = idx[u], IsKind(a, {"map"})
               PROVE  /\ DOMAIN heap[a].kids = DOMAIN Written(a)
                      /\ \A i \in DOMAIN heap[a].kids :
                            \/ Resolved(a, i)
                            \/ heap[a].kids[i] = Written(a)[i] /\ (broken \/ InCall(a))
    BY DEF FieldInv, FieldsResolved, Resolved, Written
  <2>1. Plain /\ Mapped /\ Complete
    BY DEF InOrder, Ground, Unique, Fields
  <2>2. a \in DOMAIN heap /\ web.heap[a].kind = "map"
    BY <2>1 DEF IsKind, Whole, Index, Addrs, Plain, Bodies
  <2>3. ~broken => InCall(a) \/ Done(a)
    BY <2>1 DEF Complete, Settled
  <2> QED  BY <2>1, <2>2, <2>3 DEF Mapped, Done
<1> QED  BY <1>1, <1>2, PTL
----------------------------------------------------------------------------
(* The outermost call *)

\* The outermost call is the one for the URL that the application asked for.
Asked == stack # <<>> => /\ stack[1].fn = "resolve_ref" /\ stack[1].mode = "string"
                         /\ stack[1].url = result.url

\* A step of the calls in progress leaves the outermost one or ends it.
LEMMA OutermostCall ==
    ASSUME Whole, Asked, stack # <<>>, result' = result, NEW v, NEW f, NEW g,
           \/ Return(v)
           \/ /\ Become(f) \/ Invoke(f, g)
              /\ Top.fn # "resolve_all" => f.fn = Top.fn /\ f.mode = Top.mode /\ f.url = Top.url
    PROVE  Asked'
<1> DEFINE n == Len(stack)
<1>1. n \in Nat \ {0} /\ Outer = 1 .. n - 1 /\ stack[n] = Top
  BY StackAfter DEF Outer
<1> DEFINE Continues == Top.fn # "resolve_all" => f.fn = Top.fn /\ f.mode = Top.mode /\ f.url = Top.url
<1>2. SUFFICES ASSUME stack' # <<>>
               PROVE  stack'[1] = stack[1] \/ (stack[1] = Top /\ stack'[1] = f /\ Continues)
  BY DEF Asked
<1>3. CASE Return(v)
  <2>1. stack' = Front(stack) /\ Len(stack') = n - 1 /\ stack' \in Seq(Call)
        /\ \A i \in Outer : stack'[i] = stack[i]
    BY <1>3, StackAfter, PopStack DEF Return, Whole, Control
  <2> HIDE DEF n
  <2>2. n # 1
    BY <1>2, <2>1, EmptySeq
  <2> QED  BY <1>1, <2>1, <2>2
<1>4. CASE (Become(f) \/ Invoke(f, g)) /\ Continues
  <2>1. stack'[n] = f /\ \A i \in Outer : stack'[i] = stack[i]
    BY <1>4, StackAfter
  <2> HIDE DEF n
  <2>2. n = 1 \/ 1 \in Outer
    BY <1>1
  <2> QED  BY <1>1, <1>4, <2>1, <2>2
<1> QED  BY <1>3, <1>4

LEMMA StepAsked ==
    ASSUME Whole, Asked, Step, ~Answer
    PROVE  Asked'
<1>1. CASE \E status : Raise(status)
  BY <1>1 DEF Raise, Asked
<1>2. CASE (\E v : Return(v)) /\ result' = result /\ stack # <<>>
  BY <1>2, OutermostCall
<1>3. CASE FollowDirective \/ OpenSeq \/ OpenMap \/ OpenGraph \/ ReplaceKid \/ SpliceKids
  <2>1. /\ stack # <<>> /\ result' = result /\ Top.fn = "resolve_all" /\ \E f : Become(f)
    BY <1>3 DEF FollowDirective, OpenSeq, OpenMap, OpenGraph, ReplaceKid, SpliceKids, Running, Returned,
                Become
  <2> QED  BY <2>1, OutermostCall
<1>4. CASE Descend \/ Load \/ LoadMixin
  <2>1. PICK f, g : f = [Top EXCEPT !.at = "wait"] /\ Invoke(f, g)
    BY <1>4 DEF Descend, Load, LoadMixin
  <2>2. stack # <<>> /\ result' = result
    BY <1>4, <2>1 DEF Descend, Load, LoadMixin, Running, Invoke
  <2>3. Top \in Call
    BY <2>2, StackAfter
  <2>4. f.fn = Top.fn /\ f.mode = Top.mode /\ f.url = Top.url
    BY <2>1, <2>3 DEF Call, Frame
  <2> QED  BY <2>1, <2>2, <2>4, OutermostCall
<1> QED
  BY <1>1, <1>2, <1>3, <1>4
     DEF Step, RejectDirective, ReturnIndexed, Include, ReportMissing, LoadFails, RefResolved,
         ReturnScalar, Finish, Overflow, Running, Returned, Return

=============================================================================
