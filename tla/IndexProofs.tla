---------------------------- MODULE IndexProofs ----------------------------
(***************************************************************************)
(* Proofs about Loader.idx, for webs of texts without YAML aliases and     *)
(* without mixins that give every identifier once: whatever an import, a   *)
(* splice or a cycle does to the order in which objects are resolved, a    *)
(* URL has one object.                                                     *)
(***************************************************************************)
EXTENDS TraversalProofs

----------------------------------------------------------------------------
(* Names *)

\* The object of a document.
IsRoot(a) == \E d \in Docs : a = web.root[d]

\* A call resolves what is in an object below the base that the nesting gives it; a document
\* has a name when its resolution begins.
InScope(s, f) ==
    Traverses(f) =>
        /\ f.base = IF f.at = "enter" THEN s[f.node] ELSE BaseBelow(web, s, f.node)
        /\ f.at = "enter" /\ IsRoot(f.node) /\ heap[f.node].kind # "seq" => heap[f.node].id # NoUrl

\* Expanding an identifier, or adding one to a document without, keeps the name that it gives.
Renamed(s, a) ==
    IF web.heap[a].id = NoUrl
    THEN heap[a].id = NoUrl \/ \E d \in Docs : a = web.root[d] /\ heap[a].id = RootUrl(d)
    ELSE heap[a].id \in {web.heap[a].id, FullName(web, s, a)}

\* The inductive invariant: what the index has for a URL is the object of that URL.
Scoped(s)  == \A i \in DOMAIN stack : InScope(s, stack[i])
Renames(s) == \A a \in DOMAIN heap : Renamed(s, a)
Bound(s)   == \A u \in DOMAIN idx : idx[u] # Text => Bears(s, idx[u], u)
Indexed(s) == Scoped(s) /\ Renames(s) /\ Bound(s)

\* The same URL is never given to another object.
Stable == \A u \in DOMAIN idx : u \in DOMAIN idx' /\ idx[u] \in {Text, idx'[u]}

\* An absolute URL is not below anything.
LEMMA AbsoluteName ==
    ASSUME NEW u \in AbsUrl, NEW base
    PROVE  ExpandId(u, base) = u
  BY UrlAssumption DEF ExpandId, AbsUrl

LEMMA RootUrlOK ==
    ASSUME NEW d \in Docs
    PROVE  RootUrl(d) \in AbsUrl
  BY EmptySeq DEF RootUrl, AbsUrl

\* A web of texts that give every identifier once, and the bases of the objects.
Unique(s) == Plain /\ DistinctNames(web, s)

LEMMA Naming ==
    ASSUME NEW s, Unique(s)
    PROVE  /\ DOMAIN heap = DOMAIN web.heap /\ \A a \in DOMAIN heap : s[a] \in AbsUrl
           /\ \A a \in DOMAIN heap : heap[a].kind = web.heap[a].kind
           /\ \A d \in Docs : web.root[d] \in DOMAIN heap => s[web.root[d]] = RootUrl(d)
           /\ \A a \in DOMAIN heap : \A b \in Offspring(a) : s[b] = BaseBelow(web, s, a)
           /\ \A a \in DOMAIN heap : \A b \in Offspring(a) : ~IsRoot(b)
<1>1. ASSUME NEW a \in DOMAIN heap, NEW b \in Offspring(a), NEW d \in Docs PROVE b # web.root[d]
  BY <1>1 DEF Unique, Plain, Bodies, TreeShaped, Offspring
<1> QED  BY <1>1 DEF Unique, Plain, Bodies, DistinctNames, Offspring, RootUrl, IsRoot

\* The base of an object's name, and the name, are absolute.
LEMMA Absolute ==
    ASSUME NEW s, Unique(s), NEW a \in DOMAIN heap
    PROVE  /\ Based(heap[a], s[a]) = Based(web.heap[a], s[a]) /\ Based(heap[a], s[a]) \in AbsUrl
           /\ web.heap[a].id # NoUrl => FullName(web, s, a) \in AbsUrl
<1>1. heap[a] \in Node(Addrs) /\ s[a] \in AbsUrl /\ a \in DOMAIN web.heap
  BY Naming DEF Unique, Plain, Whole, Store
<1>2. heap[a].kind = web.heap[a].kind /\ heap[a].rebase = web.heap[a].rebase
  BY DEF Unique, Plain, Bodies
<1>3. Based(heap[a], s[a]) = Based(web.heap[a], s[a]) /\ Based(heap[a], s[a]) \in AbsUrl
  BY <1>1, <1>2 DEF Based, Node
<1>4. web.heap[a].id \in Url \union {NoUrl}
  <2>1. web.heap \in Seq(Node(0 .. Len(web.heap)))
    BY DEF Unique, Plain, Whole, Store, WebOK
  <2>2. web.heap[a] \in Node(0 .. Len(web.heap))
    BY <1>1, <2>1, ElementOfSeq, LenProperties
  <2> QED  BY <2>2 DEF Node
<1> QED  BY <1>3, <1>4, ExpandAbs DEF FullName

\* A URL has one object.
LEMMA OneBearer ==
    ASSUME NEW s, Unique(s), NEW a \in DOMAIN heap, NEW b \in DOMAIN heap, NEW u,
           Bears(s, a, u), Bears(s, b, u)
    PROVE  a = b
  BY Naming DEF Bears, Unique, DistinctNames

\* The identifier that the object in hand has now, below its base, is a URL of the object.
LEMMA NamedAtEntry ==
    ASSUME NEW s, Unique(s), Renames(s), NEW a \in DOMAIN heap, heap[a].id # NoUrl,
           heap[a].kind # "seq"
    PROVE  LET url == ExpandId(heap[a].id, Based(heap[a], s[a]))
           IN  /\ url \in AbsUrl /\ Bears(s, a, url)
               /\ heap[a].kind = "map" => url = BaseBelow(web, s, a)
               /\ web.heap[a].id # NoUrl => url = FullName(web, s, a)
               /\ web.heap[a].id = NoUrl => \E d \in Docs : a = web.root[d] /\ url = RootUrl(d)
<1>1. heap[a].id \in Url /\ heap[a].kind = web.heap[a].kind /\ Based(heap[a], s[a]) \in AbsUrl
  BY Naming, Absolute DEF Unique, Plain, Whole, Store, Node
<1>2. ExpandId(heap[a].id, Based(heap[a], s[a])) \in AbsUrl
  BY <1>1, ExpandAbs
<1>3. Renamed(s, a)
  BY DEF Renames
<1>4. CASE web.heap[a].id # NoUrl
  <2>1. Named(web, a) /\ FullName(web, s, a) \in AbsUrl
    BY <1>1, <1>4, Absolute DEF Named
  <2>2. ExpandId(heap[a].id, Based(heap[a], s[a])) = FullName(web, s, a)
    <3>1. CASE heap[a].id = web.heap[a].id
      BY <3>1, Absolute DEF FullName
    <3>2. CASE heap[a].id = FullName(web, s, a)
      BY <2>1, <3>2, AbsoluteName
    <3> QED  BY <1>3, <1>4, <3>1, <3>2 DEF Renamed
  <2> QED  BY <1>1, <1>2, <1>4, <2>1, <2>2 DEF Bears, UrlsOf, BaseBelow
<1>5. CASE web.heap[a].id = NoUrl
  <2>1. PICK d \in Docs : a = web.root[d] /\ heap[a].id = RootUrl(d)
    BY <1>3, <1>5 DEF Renamed
  <2>2. ExpandId(heap[a].id, Based(heap[a], s[a])) = RootUrl(d) /\ s[a] = RootUrl(d)
    BY <2>1, RootUrlOK, AbsoluteName, Naming
  <2> QED  BY <1>1, <1>2, <1>5, <2>1, <2>2 DEF Bears, UrlsOf, BaseBelow
<1> QED  BY <1>4, <1>5

----------------------------------------------------------------------------
(* The steps *)

\* What is written to the index is an object under its own URL, or a str under a new URL.
Fills(s) ==
    /\ DOMAIN idx \subseteq DOMAIN idx'
    /\ \A u \in DOMAIN idx' :
          \/ u \in DOMAIN idx /\ idx'[u] = idx[u]
          \/ u \notin DOMAIN idx /\ idx'[u] = Text
          \/ idx'[u] \in DOMAIN heap /\ Bears(s, idx'[u], u)

LEMMA FillsStable ==
    ASSUME NEW s, Unique(s), Bound(s), Fills(s), web' = web
    PROVE  Stable /\ Bound(s)'
<1>1. \A u \in DOMAIN idx : idx[u] \in DOMAIN heap \union {Text}
  BY DEF Unique, Plain, Whole, Index, Addrs
<1>2. ASSUME NEW u \in DOMAIN idx PROVE u \in DOMAIN idx' /\ idx[u] \in {Text, idx'[u]}
  <2>1. u \in DOMAIN idx'
    BY DEF Fills
  <2>2. CASE idx'[u] = idx[u] \/ idx[u] = Text
    BY <2>1, <2>2
  <2>3. CASE idx'[u] # idx[u] /\ idx[u] # Text
    <3>1. idx'[u] \in DOMAIN heap /\ Bears(s, idx'[u], u)
      BY <2>1, <2>3 DEF Fills
    <3>2. idx[u] \in DOMAIN heap /\ Bears(s, idx[u], u)
      BY <1>1, <2>3 DEF Bound
    <3> QED  BY <2>3, <3>1, <3>2, OneBearer
  <2> QED  BY <2>2, <2>3
<1>3. \A a, u : Bears(s, a, u)' <=> Bears(s, a, u)
  BY DEF Bears, UrlsOf, Named, FullName, Based
<1>4. ASSUME NEW u \in DOMAIN idx', idx'[u] # Text PROVE Bears(s, idx'[u], u)
  BY <1>4 DEF Fills, Bound
<1>5. Bound(s)'
  BY <1>3, <1>4 DEF Bound, Bears
<1> QED  BY <1>2, <1>5 DEF Stable

\* What is named keeps a name, and what has been parsed keeps its kind.
NamesKept == \A a \in DOMAIN heap : /\ heap'[a].kind = heap[a].kind
                                    /\ heap[a].id # NoUrl => heap'[a].id # NoUrl

\* The calls below the innermost one stay in their scopes.
LEMMA ScopesAfter ==
    ASSUME NEW s, Whole, Scoped(s), stack # <<>>, web' = web, NamesKept,
           NEW v, NEW status, NEW f, NEW g,
           \/ Return(v)
           \/ Raise(status)
           \/ Become(f) /\ InScope(s, f)'
           \/ Invoke(f, g) /\ InScope(s, f)' /\ InScope(s, g)'
    PROVE  Scoped(s)'
<1> DEFINE n == Len(stack)
<1>1. /\ n \in Nat \ {0} /\ Outer = 1 .. n - 1
      /\ \A i \in Outer : InScope(s, stack[i]) /\ stack[i] \in Call
  BY StackAfter DEF Outer, Scoped
<1>2. ASSUME NEW i \in Outer, stack'[i] = stack[i] PROVE InScope(s, stack[i])'
  <2>1. PICK c : c = stack[i] /\ c = stack'[i]
    BY <1>2
  <2>2. (Traverses(c) => c.node \in DOMAIN heap) /\ InScope(s, c)
    BY <1>1, <2>1, CallParts DEF Traverses, Addrs
  <2>3. BaseBelow(web, s, c.node)' = BaseBelow(web, s, c.node) /\ (IsRoot(c.node)' <=> IsRoot(c.node))
    BY DEF BaseBelow, FullName, Based, IsRoot
  <2>4. InScope(s, c)'
    BY <2>2, <2>3 DEF InScope, Traverses, NamesKept
  <2> QED  BY <2>1, <2>4 DEF InScope, Traverses
<1>3. CASE stack' = <<>>
  <2>1. DOMAIN stack' = {}
    BY <1>3
  <2> QED  BY <2>1 DEF Scoped
<1>4. CASE Return(v)
  <2>1. DOMAIN stack' = Outer /\ \A i \in Outer : stack'[i] = stack[i]
    BY <1>4, StackAfter DEF Return
  <2> QED  BY <1>2, <2>1 DEF Scoped
<1>5. CASE Become(f) /\ InScope(s, f)'
  <2>1. DOMAIN stack' = 1 .. n /\ stack'[n] = f /\ \A i \in Outer : stack'[i] = stack[i]
    BY <1>5, StackAfter
  <2> HIDE DEF n
  <2>2. \A i \in 1 .. n : i \in Outer \/ i = n
    BY <1>1
  <2>3. \A i \in DOMAIN stack' : stack'[i] = f => InScope(s, stack[i])'
    BY <1>5 DEF InScope, Traverses
  <2> QED  BY <1>2, <2>1, <2>2, <2>3 DEF Scoped
<1>6. CASE Invoke(f, g) /\ InScope(s, f)' /\ InScope(s, g)'
  <2>1. /\ DOMAIN stack' = 1 .. n + 1 /\ stack'[n] = f /\ stack'[n + 1] = g
        /\ \A i \in Outer : stack'[i] = stack[i]
    BY <1>6, StackAfter
  <2> HIDE DEF n
  <2>2. \A i \in 1 .. n + 1 : i \in Outer \/ i = n \/ i = n + 1
    BY <1>1
  <2>3. \A i \in DOMAIN stack' : stack'[i] = f \/ stack'[i] = g => InScope(s, stack[i])'
    BY <1>6 DEF InScope, Traverses
  <2> QED  BY <1>2, <2>1, <2>2, <2>3 DEF Scoped
<1> QED  BY <1>3, <1>4, <1>5, <1>6 DEF Raise

\* identity_links and _resolve_identifier, for the object in hand.
LEMMA IdentifiedNames ==
    ASSUME NEW s, Unique(s), Indexed(s), stack # <<>>, NEW K, Top.fn = "resolve_all",
           Top.at = "enter", IsKind(Top.node, K)
    PROVE  LET i == Identified(Top)
           IN  /\ Top.node \in DOMAIN heap /\ heap[Top.node].kind \in K
               /\ Top.base = s[Top.node]
               /\ i.base = BaseBelow(web, s, Top.node)
               /\ \A u \in DOMAIN i.idx :
                     \/ u \in DOMAIN idx /\ i.idx[u] = idx[u]
                     \/ i.idx[u] = Top.node /\ Bears(s, Top.node, u)
               /\ \A a \in DOMAIN heap :
                     \/ i.heap[a].id = heap[a].id
                     \/ /\ a = Top.node /\ heap[a].id # NoUrl /\ heap[a].kind # "seq"
                        /\ i.heap[a].id = ExpandId(heap[a].id, Based(heap[a], s[a]))
<1>1. Whole
  BY DEF Unique, Plain
<1>2. Traverses(Top) /\ Top.node \in DOMAIN heap /\ heap[Top.node].kind \in K
  BY <1>1, Traversing
<1>3. /\ Top.base = s[Top.node]
      /\ IsRoot(Top.node) /\ heap[Top.node].kind # "seq" => heap[Top.node].id # NoUrl
  BY <1>1, <1>2, StackAfter DEF Indexed, Scoped, InScope
<1>4. \A a \in DOMAIN heap : heap[a] \in Node(Addrs)
  BY <1>1 DEF Whole, Store
<1> DEFINE n    == heap[Top.node]
           base == Based(n, Top.base)
           url  == ExpandId(n.id, base)
<1>5. n.kind = web.heap[Top.node].kind /\ base = Based(web.heap[Top.node], s[Top.node])
  BY <1>2, <1>3, Naming, Absolute
<1>6. n.kind # "map" => base = BaseBelow(web, s, Top.node)
  <2> HIDE DEF base, n
  <2> QED  BY <1>5 DEF BaseBelow
<1>7. CASE n.kind # "seq" /\ n.id # NoUrl
  <2>1. Bears(s, Top.node, url) /\ (n.kind = "map" => url = BaseBelow(web, s, Top.node))
    BY <1>2, <1>3, <1>7, NamedAtEntry DEF Indexed
  <2>5. url = ExpandId(heap[Top.node].id, Based(heap[Top.node], s[Top.node]))
    BY <1>3
  <2>2. /\ Identified(Top).heap = [heap EXCEPT ![Top.node].id = url]
        /\ Identified(Top).idx = Bind(idx, url, Top.node)
        /\ Identified(Top).base = IF n.kind = "map" THEN url ELSE base
    BY <1>7 DEF Identified
  <2> HIDE DEF url, base
  <2>3. \A a \in DOMAIN heap : Identified(Top).heap[a].id = IF a = Top.node THEN url ELSE heap[a].id
    BY <1>2, <1>4, <2>2 DEF Node
  <2>4. \A u \in DOMAIN Identified(Top).idx :
            \/ u \in DOMAIN idx /\ Identified(Top).idx[u] = idx[u]
            \/ Identified(Top).idx[u] = Top.node /\ u = url
    BY <2>2 DEF Bind
  <2> QED  BY <1>2, <1>3, <1>6, <1>7, <2>1, <2>2, <2>3, <2>4, <2>5
<1>8. CASE ~(n.kind # "seq" /\ n.id # NoUrl)
  <2>1. /\ Identified(Top).heap = heap /\ Identified(Top).idx = idx
        /\ Identified(Top).base = base
    BY <1>8 DEF Identified
  <2>2. n.kind = "map" => base = BaseBelow(web, s, Top.node)
    <3>1. n.kind = "map" => ~IsRoot(Top.node) /\ web.heap[Top.node].id = NoUrl
      <4>1. Renamed(s, Top.node)
        BY <1>2 DEF Indexed, Renames
      <4>2. ASSUME n.kind = "map", web.heap[Top.node].id # NoUrl PROVE FALSE
        <5>1. FullName(web, s, Top.node) \in AbsUrl
          BY <1>2, <4>2, Absolute
        <5>2. NoUrl \notin AbsUrl
          BY AbsIsUrl
        <5> QED  BY <1>8, <4>1, <4>2, <5>1, <5>2 DEF Renamed
      <4> QED  BY <1>3, <1>8, <4>2
    <3> HIDE DEF base, n
    <3> QED  BY <1>5, <3>1 DEF BaseBelow, IsRoot
  <2> HIDE DEF n, base
  <2> QED  BY <1>2, <1>3, <1>6, <2>1, <2>2 DEF n
<1> QED  BY <1>7, <1>8

\* Expanding the identifier of the object in hand keeps its name.
LEMMA ExpandedRenames ==
    ASSUME NEW s, Unique(s), Renames(s), web' = web, DOMAIN heap' = DOMAIN heap,
           \A a \in DOMAIN heap :
               \/ heap'[a].id = heap[a].id
               \/ /\ heap[a].id # NoUrl /\ heap[a].kind # "seq"
                  /\ heap'[a].id = ExpandId(heap[a].id, Based(heap[a], s[a]))
               \/ \E d \in Docs : /\ a = web.root[d] /\ heap[a].id = NoUrl
                                  /\ heap'[a].id = RootUrl(d)
    PROVE  /\ Renames(s)'
           /\ \A a \in DOMAIN heap : heap[a].id # NoUrl => heap'[a].id # NoUrl
<1>0. NoUrl \notin AbsUrl
  BY AbsIsUrl
<1> SUFFICES ASSUME NEW a \in DOMAIN heap
             PROVE  Renamed(s, a)' /\ (heap[a].id # NoUrl => heap'[a].id # NoUrl)
  BY DEF Renames
<1>1. Renamed(s, a)
  BY DEF Renames
<1>2. CASE heap'[a].id = heap[a].id
  BY <1>1, <1>2 DEF Renamed, FullName, Based
<1>3. CASE /\ heap[a].id # NoUrl /\ heap[a].kind # "seq"
           /\ heap'[a].id = ExpandId(heap[a].id, Based(heap[a], s[a]))
  <2>1. PICK url : url = heap'[a].id
    OBVIOUS
  <2>2. /\ url \in AbsUrl
        /\ web.heap[a].id # NoUrl => url = FullName(web, s, a)
        /\ web.heap[a].id = NoUrl => \E d \in Docs : a = web.root[d] /\ url = RootUrl(d)
    BY <1>3, <2>1, NamedAtEntry
  <2> QED  BY <1>0, <2>1, <2>2 DEF Renamed, FullName, Based
<1>4. CASE \E d \in Docs : a = web.root[d] /\ heap[a].id = NoUrl /\ heap'[a].id = RootUrl(d)
  <2>1. web.heap[a].id = NoUrl
    <3>1. web.heap[a].id # NoUrl => FullName(web, s, a) # NoUrl
      BY <1>0, Absolute
    <3> QED  BY <1>1, <1>4, <3>1 DEF Renamed
  <2> QED  BY <1>4, <2>1 DEF Renamed
<1> QED  BY <1>2, <1>3, <1>4

\* The steps that write neither identifiers nor the index.
LEMMA SameNames ==
    ASSUME NEW s, Renames(s), Bound(s), web' = web, idx' = idx, DOMAIN heap' = DOMAIN heap,
           \A a \in DOMAIN heap : heap'[a].id = heap[a].id
    PROVE  Renames(s)' /\ Bound(s)' /\ Stable
<1>1. Renames(s)'
  BY DEF Renames, Renamed, FullName, Based
<1>2. Bound(s)'
  BY DEF Bound, Bears, UrlsOf, Named, FullName, Based
<1> QED  BY <1>1, <1>2 DEF Stable

LEMMA QuietIndexed ==
    ASSUME NEW s, Unique(s), Indexed(s),
           RejectDirective \/ ReturnIndexed \/ Include \/ ReportMissing \/ LoadFails \/ RefResolved
             \/ ReturnScalar \/ Finish \/ Overflow \/ FollowDirective
    PROVE  Indexed(s)' /\ Stable
<1>0. PICK f : f = DirectiveFrame(Top.node, IF IsKind(Top.node, {"mixin"}) THEN Top.base ELSE Top.file,
                                  Top.ns, Top.check)
  OBVIOUS
<1>1. /\ stack # <<>> /\ UNCHANGED <<web, heap, idx>>
      /\ (\E v : Return(v)) \/ (\E status : Raise(status)) \/ Become(f)
  BY <1>0 DEF RejectDirective, ReturnIndexed, Include, ReportMissing, LoadFails, RefResolved,
              ReturnScalar, Finish, Overflow, FollowDirective, Running, Returned, objects, world
<1>2. InScope(s, f)' /\ NamesKept
  BY <1>0, <1>1 DEF InScope, Traverses, DirectiveFrame, RefFrame, NamesKept
<1>3. Scoped(s)'
  BY <1>1, <1>2, ScopesAfter DEF Unique, Plain, Indexed
<1> QED  BY <1>1, <1>3, SameNames DEF Indexed

\* The loops go on below the base of the object in hand.
LEMMA LoopIndexed ==
    ASSUME NEW s, Unique(s), Indexed(s), OpenSeq \/ ReplaceKid \/ SpliceKids
    PROVE  Indexed(s)' /\ Stable
<1>1. /\ stack # <<>> /\ Top.fn = "resolve_all" /\ UNCHANGED <<web, idx>>
      /\ \E pos : Become([Top EXCEPT !.at = "iterate", !.pos = pos])
      /\ OpenSeq \/ Top.at = "wait"
  BY DEF OpenSeq, ReplaceKid, SpliceKids, Running, Returned, objects, world
<1>2. PICK f, pos : f = [Top EXCEPT !.at = "iterate", !.pos = pos] /\ Become(f)
  BY <1>1
<1>3. Whole /\ Top \in Call /\ InScope(s, Top)
  BY <1>1, StackAfter DEF Unique, Plain, Indexed, Scoped
<1>4. f.fn = Top.fn /\ f.at = "iterate" /\ f.node = Top.node /\ f.base = Top.base
  BY <1>2, <1>3 DEF Call, Frame
<1>5. f.base = BaseBelow(web, s, f.node) \/ ~Traverses(f)
  <2>1. CASE OpenSeq
    <3>1. Top.at = "enter" /\ IsKind(Top.node, {"seq"})
      BY <2>1 DEF OpenSeq, Running
    <3>2. Traverses(Top) /\ Top.node \in DOMAIN heap /\ heap[Top.node].kind = "seq"
      BY <1>1, <1>3, <3>1, Traversing
    <3>3. BaseBelow(web, s, Top.node) = s[Top.node]
      BY <3>2, Naming DEF BaseBelow, Based
    <3> QED  BY <1>3, <1>4, <3>1, <3>2, <3>3 DEF InScope
  <2>2. CASE Top.at = "wait"
    BY <1>3, <1>4, <2>2 DEF InScope, Traverses
  <2> QED  BY <1>1, <2>1, <2>2
<1>6. InScope(s, f)'
  BY <1>1, <1>4, <1>5 DEF InScope, Traverses, BaseBelow, FullName, Based
<1>7. /\ DOMAIN heap' = DOMAIN heap
      /\ \A a \in DOMAIN heap : heap'[a].id = heap[a].id /\ heap'[a].kind = heap[a].kind
  <2>1. CASE OpenSeq
    BY <2>1 DEF OpenSeq, objects
  <2>2. CASE ReplaceKid \/ SpliceKids
    <3>1. /\ Returned("resolve_all") /\ More(Top)
          /\ \E kids : heap' = [heap EXCEPT ![Top.node].kids = kids]
      BY <2>2 DEF ReplaceKid, SpliceKids
    <3>2. Top.node \in DOMAIN heap
      BY <1>3, <3>1, InLoop, CallParts, InHand
    <3> QED  BY <1>3, <3>1, <3>2, RefillHeap
  <2> QED  BY <2>1, <2>2
<1>8. Scoped(s)'
  BY <1>1, <1>2, <1>3, <1>6, <1>7, ScopesAfter DEF Indexed, NamesKept
<1> QED  BY <1>1, <1>7, <1>8, SameNames DEF Indexed

\* A map enters the index under its name, and its symbols where nothing has theirs.
LEMMA OpenMapIndexed ==
    ASSUME NEW s, Unique(s), Indexed(s), OpenMap
    PROVE  Indexed(s)' /\ Stable
<1>0. PICK i, f : /\ i = Identified(Top)
                  /\ f = [Top EXCEPT !.at = "iterate", !.pos = 1, !.base = i.base, !.ns = Scope(Top)]
  OBVIOUS
<1>1. /\ stack # <<>> /\ Top.fn = "resolve_all" /\ Top.at = "enter" /\ IsKind(Top.node, {"map"})
      /\ Become(f) /\ web' = web /\ idx' = Symbols(heap[Top.node], i.base, i.idx)
  BY <1>0 DEF OpenMap, Running, world
<1>2. Whole /\ Top \in Call
  BY <1>1, StackAfter DEF Unique, Plain
<1>3. /\ Top.node \in DOMAIN heap
      /\ i.base = BaseBelow(web, s, Top.node)
      /\ \A u \in DOMAIN i.idx : \/ u \in DOMAIN idx /\ i.idx[u] = idx[u]
                                 \/ i.idx[u] = Top.node /\ Bears(s, Top.node, u)
      /\ DOMAIN idx \subseteq DOMAIN i.idx
      /\ \A a \in DOMAIN heap : \/ i.heap[a].id = heap[a].id
                                \/ /\ heap[a].id # NoUrl /\ heap[a].kind # "seq"
                                   /\ i.heap[a].id = ExpandId(heap[a].id, Based(heap[a], s[a]))
  <2>1. DOMAIN idx \subseteq DOMAIN i.idx
    BY <1>0 DEF Identified, Bind
  <2> QED  BY <1>0, <1>1, <2>1, IdentifiedNames
<1>4. f.fn = Top.fn /\ f.at = "iterate" /\ f.node = Top.node /\ f.base = i.base
  BY <1>0, <1>2 DEF Call, Frame
<1>5. Renames(s)' /\ NamesKept
  <2>1. /\ DOMAIN heap' = DOMAIN heap
        /\ \A a \in DOMAIN heap : heap'[a].id = i.heap[a].id /\ heap'[a].kind = heap[a].kind
    BY <1>0, <1>2, OpenMapHeap DEF Unmoved
  <2> QED  BY <1>1, <1>3, <2>1, ExpandedRenames DEF Indexed, NamesKept
<1>6. Scoped(s)'
  <2>1. InScope(s, f)'
    BY <1>1, <1>3, <1>4 DEF InScope, BaseBelow, FullName, Based
  <2> QED  BY <1>1, <1>2, <1>5, <2>1, ScopesAfter DEF Indexed
<1>7. Fills(s)
  <2>1. /\ DOMAIN i.idx \subseteq DOMAIN idx'
        /\ \A u \in DOMAIN idx' : idx'[u] = IF u \in DOMAIN i.idx THEN i.idx[u] ELSE Text
    BY <1>1 DEF Symbols
  <2> QED  BY <1>3, <2>1 DEF Fills
<1> QED  BY <1>1, <1>5, <1>6, <1>7, FillsStable DEF Indexed

\* So does a map with $graph, whose list is below the base of the map.
LEMMA OpenGraphIndexed ==
    ASSUME NEW s, Unique(s), Indexed(s), NEW F, Fresh(F), OpenGraph
    PROVE  Indexed(s)' /\ Stable
<1>0. PICK list, f :
        /\ list = heap[Top.node].kids[1]
        /\ f = [Top EXCEPT !.at = "iterate", !.pos = 1, !.ns = Scope(Top),
                           !.base = Identified(Top).base, !.node = list]
  OBVIOUS
<1>1. /\ stack # <<>> /\ Top.fn = "resolve_all" /\ Top.at = "enter" /\ IsKind(Top.node, {"graph"})
      /\ Become(f) /\ web' = web /\ heap' = Identified(Top).heap /\ idx' = Identified(Top).idx
  BY <1>0 DEF OpenGraph, Running, world
<1>2. /\ Plain /\ Whole /\ Top \in Call /\ InPlace(F, Top) /\ Traverses(Top)
      /\ Top.node \in DOMAIN heap /\ heap[Top.node].kind = "graph"
      /\ DOMAIN heap[Top.node].kids = 1 .. Len(heap[Top.node].kids)
  BY <1>1, StackAfter, Traversing DEF Fresh, Unique, Plain
<1>3. /\ heap[Top.node].kids # <<>> /\ list \in DOMAIN heap /\ heap[list].kind = "seq"
      /\ heap[Top.node].kids \in Seq(Addrs)
  BY <1>0, <1>1, <1>2, Traversing DEF Whole, Store, WellFormed
<1>4. list \in Offspring(Top.node)
  <2>1. 1 \in DOMAIN heap[Top.node].kids /\ list # Text
    BY <1>2, <1>3, Shape, EmptySeq, LenProperties
  <2> QED  BY <1>0, <1>1, <1>2, <2>1 DEF InPlace, From, Ahead
<1>5. /\ Identified(Top).base = BaseBelow(web, s, Top.node)
      /\ \A u \in DOMAIN idx' : \/ u \in DOMAIN idx /\ idx'[u] = idx[u]
                                \/ idx'[u] = Top.node /\ Bears(s, Top.node, u)
      /\ DOMAIN idx \subseteq DOMAIN idx'
      /\ \A a \in DOMAIN heap : \/ heap'[a].id = heap[a].id
                                \/ /\ heap[a].id # NoUrl /\ heap[a].kind # "seq"
                                   /\ heap'[a].id = ExpandId(heap[a].id, Based(heap[a], s[a]))
  <2>1. DOMAIN idx \subseteq DOMAIN idx'
    BY <1>1 DEF Identified, Bind
  <2> QED  BY <1>1, <2>1, IdentifiedNames
<1>6. f.fn = Top.fn /\ f.at = "iterate" /\ f.node = list /\ f.base = Identified(Top).base
  BY <1>0, <1>2 DEF Call, Frame
<1>7. Renames(s)' /\ NamesKept
  <2>1. DOMAIN heap' = DOMAIN heap /\ \A a \in DOMAIN heap : heap'[a].kind = heap[a].kind
    BY <1>2, OpenGraphHeap DEF Unmoved
  <2> QED  BY <1>1, <1>5, <2>1, ExpandedRenames DEF Indexed, NamesKept
<1>8. Scoped(s)'
  <2>1. s[list] = BaseBelow(web, s, Top.node) /\ heap[list].kind = web.heap[list].kind
    BY <1>2, <1>3, <1>4, Naming
  <2>2. BaseBelow(web, s, list) = s[list]
    BY <1>3, <2>1 DEF BaseBelow, Based
  <2>3. f.base = BaseBelow(web, s, list)
    BY <1>5, <1>6, <2>1, <2>2
  <2>4. BaseBelow(web, s, list)' = BaseBelow(web, s, list)
    BY <1>1 DEF BaseBelow, FullName, Based
  <2>5. InScope(s, f)'
    BY <1>6, <2>3, <2>4 DEF InScope
  <2> QED  BY <1>1, <1>2, <1>7, <2>5, ScopesAfter DEF Indexed
<1>9. Fills(s)
  BY <1>2, <1>5 DEF Fills
<1> QED  BY <1>1, <1>7, <1>8, <1>9, FillsStable DEF Indexed

\* A child is below the base of the object that it is ahead in.
LEMMA DescendIndexed ==
    ASSUME NEW s, Unique(s), Indexed(s), NEW F, Fresh(F), Descend
    PROVE  Indexed(s)' /\ Stable
<1>0. PICK kid, f, g :
        /\ kid = Kids(Top)[Top.pos]
        /\ f = [Top EXCEPT !.at = "wait"]
        /\ g = IF Spliceable(Top) THEN DirectiveFrame(kid, Top.file, Top.ns, FALSE)
               ELSE AllFrame(kid, Top.base, Top.file, Top.ns, FALSE)
  OBVIOUS
<1>1. /\ stack # <<>> /\ Top.fn = "resolve_all" /\ Top.at = "iterate" /\ Top.pos \in DOMAIN Kids(Top)
      /\ Invoke(f, g) /\ UNCHANGED <<web, heap, idx>>
  BY <1>0 DEF Descend, Running, More, objects, world
<1>2. Whole /\ Top \in Call /\ InPlace(F, Top) /\ InScope(s, Top)
  BY <1>1, StackAfter DEF Fresh, Unique, Plain, Indexed, Scoped
<1>3. IsKind(Top.node, {"map", "seq"})
  BY <1>1, <1>2, CallParts
<1>4. /\ Traverses(Top) /\ Top.node \in DOMAIN heap /\ Top.pos \in Nat
      /\ Kids(Top) = heap[Top.node].kids
  BY <1>1, <1>2, <1>3, Traversing DEF Kids
<1>5. kid # Text => kid \in Offspring(Top.node)
  BY <1>0, <1>1, <1>2, <1>4 DEF InPlace, From, Ahead
<1>6. Top.base = BaseBelow(web, s, Top.node) /\ (kid # Text => s[kid] = Top.base /\ ~IsRoot(kid))
  BY <1>1, <1>2, <1>4, <1>5, Naming DEF InScope
<1>7. /\ f.fn = Top.fn /\ f.at = "wait" /\ f.node = Top.node /\ f.base = Top.base
  BY <1>0, <1>2 DEF Call, Frame
<1>8. Traverses(g) => g.at = "enter" /\ g.node = kid /\ kid # Text /\ g.base = Top.base
  BY <1>0 DEF Traverses, DirectiveFrame, RefFrame, AllFrame
<1>9. InScope(s, f)' /\ InScope(s, g)'
  BY <1>1, <1>6, <1>7, <1>8 DEF InScope, Traverses, IsRoot, BaseBelow, FullName, Based
<1>10. Scoped(s)'
  BY <1>1, <1>2, <1>9, ScopesAfter DEF Indexed, NamesKept
<1> QED  BY <1>1, <1>10, SameNames DEF Indexed

\* A document enters the index under its URL, and its root under its name.
LEMMA LoadIndexed ==
    ASSUME NEW s, Unique(s), Indexed(s), Load
    PROVE  Indexed(s)' /\ Stable
<1>0. PICK d, root, f, g :
        /\ d = DocUrl(Top.url) /\ root = web.root[Top.url.doc]
        /\ f = [Top EXCEPT !.at = "wait"]
        /\ g = AllFrame(root, d, d, Top.ns, Top.check)
  OBVIOUS
<1>1. /\ stack # <<>> /\ Top.fn = "resolve_ref" /\ Top \in Call /\ Top.url.doc \in Docs
      /\ Whole /\ web' = web
  BY TopRef DEF Load, Running, Unique, Plain, world
<1>2. /\ Unmoved /\ d \notin DOMAIN idx /\ d = RootUrl(Top.url.doc) /\ d \in AbsUrl
      /\ idx'[d] = root /\ root \in Addrs /\ DOMAIN idx \subseteq DOMAIN idx'
  BY <1>0, <1>1, LoadHeap
<1>3. Invoke(f, g)
  BY <1>0, <1>2 DEF Load
<1>4. root # Text => root \in DOMAIN heap /\ s[root] = d /\ Bears(s, root, d)
  BY <1>0, <1>1, <1>2, Naming DEF Addrs, Bears, UrlsOf
<1>5. /\ heap' = Parsed(d, root, TRUE).heap /\ idx' = Parsed(d, root, TRUE).idx
      /\ d.doc = Top.url.doc
  <2>1. d.doc = Top.url.doc
    BY <1>0, <1>1 DEF DocUrl, Call, Frame, AbsUrl
  <2>2. heap' = Fetched(Top).heap /\ idx' = Fetched(Top).idx /\ Top.mode # "mixin"
    BY DEF Load
  <2> QED  BY <1>0, <1>2, <2>1, <2>2 DEF Fetched
<1>6. /\ \A a \in DOMAIN heap : \/ heap'[a].id = heap[a].id
                                \/ a = root /\ heap[a].id = NoUrl /\ heap'[a].id = d
      /\ root # Text /\ heap[root].kind # "seq" => heap'[root].id # NoUrl
  <2>1. \A a \in DOMAIN heap : heap[a] \in Node(Addrs)
    BY <1>1 DEF Whole, Store
  <2>2. d # NoUrl
    BY <1>2, AbsIsUrl
  <2>3. CASE IsMapping(root) /\ heap[root].id = NoUrl
    <3>1. heap' = [heap EXCEPT ![root].id = d]
      BY <1>5, <2>3 DEF Parsed
    <3> QED  BY <1>4, <2>1, <2>2, <2>3, <3>1 DEF Node, IsMapping
  <2>4. CASE ~(IsMapping(root) /\ heap[root].id = NoUrl)
    <3>1. heap' = heap
      BY <1>5, <2>4 DEF Parsed
    <3> QED  BY <2>4, <3>1 DEF IsMapping
  <2> QED  BY <2>3, <2>4
<1>7. Renames(s)' /\ NamesKept
  <2>1. DOMAIN heap' = DOMAIN heap /\ \A a \in DOMAIN heap : heap'[a].kind = heap[a].kind
    BY <1>2 DEF Unmoved
  <2> QED  BY <1>0, <1>1, <1>2, <1>6, <2>1, ExpandedRenames DEF Indexed, NamesKept
<1>8. Scoped(s)'
  <2>1. InScope(s, f)'
    BY <1>0, <1>1 DEF InScope, Traverses, Call, Frame
  <2>2. g.fn = "resolve_all" /\ g.at = "enter" /\ g.node = root /\ g.base = d
    BY <1>0 DEF AllFrame
  <2>3. root # Text => heap'[root].kind = heap[root].kind
    BY <1>2, <1>4 DEF Unmoved
  <2>4. InScope(s, g)'
    BY <1>4, <1>6, <2>2, <2>3 DEF InScope, Traverses
  <2> QED  BY <1>1, <1>3, <1>7, <2>1, <2>4, ScopesAfter DEF Indexed
<1>9. Fills(s)
  <2>1. CASE IsMapping(root) /\ heap[root].id # NoUrl
    <3>1. PICK u : u = ExpandId(heap[root].id, d)
      OBVIOUS
    <3>2. Bears(s, root, u)
      <4>1. root \in DOMAIN heap /\ root # Text /\ heap[root].kind = web.heap[root].kind /\ heap[root].kind # "seq"
        BY <1>4, <2>1, Naming DEF IsMapping
      <4>2. Renamed(s, root)
        BY <4>1 DEF Indexed, Renames
      <4>3. CASE web.heap[root].id = NoUrl
        <5>1. PICK e \in Docs : root = web.root[e] /\ heap[root].id = RootUrl(e)
          BY <2>1, <4>2, <4>3 DEF Renamed
        <5>2. u = RootUrl(e)
          BY <3>1, <5>1, RootUrlOK, AbsoluteName
        <5> QED  BY <5>1, <5>2 DEF Bears, UrlsOf
      <4>4. CASE web.heap[root].id # NoUrl
        <5>1. Named(web, root) /\ FullName(web, s, root) \in AbsUrl
          BY <4>1, <4>4, Absolute DEF Named
        <5>2. CASE heap[root].id = web.heap[root].id
          <6>1. u = ExpandId(web.heap[root].id, RootUrl(Top.url.doc)) /\ root = web.root[Top.url.doc]
            BY <1>0, <1>2, <3>1, <5>2
          <6> QED  BY <1>1, <5>1, <6>1 DEF Bears, UrlsOf
        <5>3. CASE heap[root].id = FullName(web, s, root)
          BY <3>1, <5>1, <5>3, AbsoluteName DEF Bears, UrlsOf
        <5> QED  BY <4>2, <4>4, <5>2, <5>3 DEF Renamed
      <4> QED  BY <4>3, <4>4
    <3>3. \A v \in DOMAIN idx' : (v \in DOMAIN idx /\ idx'[v] = idx[v]) \/ (v \in {u, d} /\ idx'[v] = root)
      BY <1>5, <3>1 DEF Parsed, Bind
    <3> QED  BY <1>2, <1>4, <2>1, <3>2, <3>3 DEF Fills, IsMapping
  <2>2. CASE ~(IsMapping(root) /\ heap[root].id # NoUrl)
    <3>1. \A v \in DOMAIN idx' : (v \in DOMAIN idx /\ idx'[v] = idx[v]) \/ (v = d /\ idx'[v] = root)
      BY <1>5, <2>2 DEF Parsed, Bind
    <3> QED  BY <1>2, <1>4, <3>1 DEF Fills
  <2> QED  BY <2>1, <2>2
<1> QED  BY <1>1, <1>7, <1>8, <1>9, FillsStable DEF Indexed

----------------------------------------------------------------------------
(* The invariant *)

LEMMA StepIndexed ==
    ASSUME NEW s, Unique(s), Indexed(s), NEW F, Fresh(F), [Next]_vars
    PROVE  Indexed(s)' /\ Stable
<1>1. CASE RejectDirective \/ ReturnIndexed \/ Include \/ ReportMissing \/ LoadFails \/ RefResolved
             \/ ReturnScalar \/ Finish \/ Overflow \/ FollowDirective
  BY <1>1, QuietIndexed
<1>2. CASE OpenSeq \/ ReplaceKid \/ SpliceKids
  BY <1>2, LoopIndexed
<1>3. CASE OpenMap
  BY <1>3, OpenMapIndexed
<1>4. CASE OpenGraph
  BY <1>4, OpenGraphIndexed
<1>5. CASE Descend
  BY <1>5, DescendIndexed
<1>6. CASE Load
  BY <1>6, LoadIndexed
<1>7. CASE Answer \/ UNCHANGED vars
  <2>1. UNCHANGED <<web, heap, idx, stack>>
    BY <1>7 DEF Answer, vars, objects, world
  <2>2. Scoped(s)'
    BY <2>1 DEF Indexed, Scoped, InScope, Traverses, BaseBelow, FullName, Based, IsRoot
  <2> QED  BY <2>1, <2>2, SameNames DEF Indexed
<1>8. ASSUME NEW url \in Requests, Request(url) PROVE Indexed(s)' /\ Stable
  <2>0. PICK f : f = RefFrame("string", url, Text, DocUrl(url), {}, TRUE)
    OBVIOUS
  <2>1. /\ UNCHANGED <<web, heap, idx>> /\ DOMAIN stack' = {1} /\ stack'[1] = f
        /\ f.fn = "resolve_ref"
    BY <1>8, <2>0 DEF Request, objects, RefFrame
  <2>2. Scoped(s)'
    BY <2>1 DEF Scoped, InScope, Traverses
  <2> QED  BY <2>1, <2>2, SameNames DEF Indexed
<1> QED
  BY <1>1, <1>2, <1>3, <1>4, <1>5, <1>6, <1>7, <1>8, NoMixinCalls DEF Unique, Next, Step

\* The bases of the objects exist, and below them the index is right.
WellIndexed == \E s : DistinctNames(web, s) /\ Indexed(s)
IndexInv == Whole /\ TreeShaped(web) /\ (Mixes \/ (Traversal /\ WellIndexed))

LEMMA IndexInvariant ==
    ASSUME \A w \in Webs : TreeShaped(w) /\ \E s : DistinctNames(w, s)
    PROVE  Spec => []IndexInv
<1> USE DEF IndexInv, WellIndexed
<1>1. Init => IndexInv
  <2> SUFFICES ASSUME Init PROVE IndexInv
    OBVIOUS
  <2>1. TreeShaped(web) /\ Whole /\ Traversal
    BY InitOK, InitTraversal DEF Init
  <2>2. PICK s : DistinctNames(web, s)
    BY DEF Init
  <2>3. DOMAIN stack = {} /\ DOMAIN idx = {} /\ heap = web.heap
    BY DEF Init
  <2>4. Indexed(s)
    <3>1. Scoped(s) /\ Bound(s)
      BY <2>3 DEF Scoped, Bound
    <3>2. Renames(s)
      BY <2>3 DEF Renames, Renamed
    <3> QED  BY <3>1, <3>2 DEF Indexed
  <2> QED  BY <2>1, <2>2, <2>4
<1>2. IndexInv /\ [Next]_vars => IndexInv'
  <2> SUFFICES ASSUME IndexInv, [Next]_vars PROVE IndexInv'
    OBVIOUS
  <2>1. web' = web
    BY SameWeb
  <2>2. Whole' /\ TreeShaped(web)' /\ (Mixes' <=> Mixes)
    BY <2>1, NextOK DEF TreeShaped, Mixes
  <2>3. CASE Mixes
    BY <2>2, <2>3
  <2>4. CASE ~Mixes
    <3>1. PICK s : DistinctNames(web, s) /\ Indexed(s)
      BY <2>4
    <3>2. PICK F : Fresh(F)
      BY <2>4 DEF Traversal
    <3>3. Unique(s)
      BY <2>4, <3>1 DEF Unique, Plain, Traversal
    <3>4. Indexed(s)'
      BY <3>1, <3>2, <3>3, StepIndexed
    <3>5. DistinctNames(web, s)'
      BY <2>1, <3>1 DEF DistinctNames
    <3>6. Traversal'
      BY <2>4, StepTraversal
    <3> QED  BY <2>2, <3>4, <3>5, <3>6
  <2> QED  BY <2>3, <2>4
<1> QED  BY <1>1, <1>2, PTL DEF Spec

\* In texts that give every identifier once, and mix nothing in, what the index has for a URL is
\* the object that the texts give it: the one whose identifier it is below the objects around it,
\* or the document at that URL.  Imports and splices never rename an object.
THEOREM IndexedByName ==
    ASSUME \A w \in Webs : TreeShaped(w) /\ \E s : DistinctNames(w, s)
    PROVE  Spec => [](Mixes \/ \E s : DistinctNames(web, s) /\ Bound(s))
<1>1. Spec => []IndexInv
  BY IndexInvariant
<1>2. IndexInv => Mixes \/ \E s : DistinctNames(web, s) /\ Bound(s)
  BY DEF IndexInv, WellIndexed, Indexed
<1> QED  BY <1>1, <1>2, PTL

\* There the object of a URL never changes, except that an object takes the place of a symbol:
\* what an import yields does not depend on what was resolved before it.
THEOREM OneObject ==
    ASSUME \A w \in Webs : TreeShaped(w) /\ \E s : DistinctNames(w, s)
    PROVE  Spec => IndexStable
<1>1. Spec => []IndexInv
  BY IndexInvariant
<1>2. IndexInv /\ [Next]_vars
        => [~Mixes => \A u \in DOMAIN idx : u \in DOMAIN idx' /\ idx[u] \in {Text, idx'[u]}]_vars
  <2> SUFFICES ASSUME IndexInv, [Next]_vars, ~Mixes PROVE Stable
    BY DEF Stable
  <2>1. PICK s : DistinctNames(web, s) /\ Indexed(s)
    BY DEF IndexInv, WellIndexed
  <2>2. PICK F : Fresh(F)
    BY DEF IndexInv, Traversal
  <2>3. Unique(s)
    BY <2>1 DEF Unique, Plain, IndexInv, Traversal
  <2> QED  BY <2>1, <2>2, <2>3, StepIndexed
<1> QED  BY <1>1, <1>2, PTL DEF Spec, IndexStable

\* With the bases that the nesting gives, and every call beside the document in hand.
BaseInv == /\ Whole /\ TreeShaped(web) /\ OwnDocuments(web) /\ DistinctNames(web, Bases(web))
           /\ Mixes \/ (Traversal /\ Homes /\ Indexed(Bases(web)))

LEMMA StepBases == BaseInv /\ [Next]_vars => BaseInv'
<1> SUFFICES ASSUME BaseInv, [Next]_vars PROVE BaseInv'
  OBVIOUS
<1>1. web' = web
  BY SameWeb
<1>2. /\ Whole' /\ TreeShaped(web)' /\ OwnDocuments(web)' /\ DistinctNames(web, Bases(web))'
      /\ Mixes' <=> Mixes
  BY <1>1, NextOK DEF BaseInv, Mixes
<1>3. CASE Mixes
  BY <1>2, <1>3 DEF BaseInv
<1>4. CASE ~Mixes
  <2>1. PICK s : s = Bases(web)
    OBVIOUS
  <2>2. PICK F : Fresh(F)
    BY <1>4 DEF BaseInv, Traversal
  <2>3. Unique(s) /\ Indexed(s)
    BY <1>4, <2>1 DEF Unique, Plain, BaseInv, Traversal
  <2>4. Indexed(s)'
    BY <2>2, <2>3, StepIndexed
  <2>5. Traversal' /\ Homes'
    BY <1>4, StepTraversal, StepHomes DEF BaseInv
  <2>6. s = Bases(web)'
    BY <1>1, <2>1
  <2> QED  BY <1>2, <2>4, <2>5, <2>6 DEF BaseInv
<1> QED  BY <1>3, <1>4

\* In texts without aliases and mixins that give every identifier once, every object is resolved
\* below the base that its text gives it, which is that of the names and the $base around it, and
\* its imports are looked for beside its own document, wherever imports and splices carry it.
THEOREM ResolvedAtHome ==
    ASSUME \A w \in Webs : TreeShaped(w) /\ OwnDocuments(w) /\ DistinctNames(w, Bases(w))
    PROVE  Spec => []OwnBase
<1>1. Init => BaseInv
  <2> SUFFICES ASSUME Init PROVE BaseInv
    OBVIOUS
  <2>1. TreeShaped(web) /\ OwnDocuments(web) /\ DistinctNames(web, Bases(web))
    BY DEF Init
  <2>2. Whole /\ Traversal /\ Homes
    BY <2>1, InitOK, InitTraversal, InitHomes
  <2>3. PICK s : s = Bases(web)
    OBVIOUS
  <2>4. Scoped(s) /\ Bound(s) /\ Renames(s)
    BY DEF Init, Scoped, Bound, Renames, Renamed
  <2> QED  BY <2>1, <2>2, <2>3, <2>4 DEF BaseInv, Indexed
<1>2. BaseInv => OwnBase
  BY DEF BaseInv, OwnBase, Indexed, Scoped, InScope, Homes, AtHome, Traverses
<1> QED  BY <1>1, <1>2, StepBases, PTL DEF Spec

=============================================================================
