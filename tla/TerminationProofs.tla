------------------------- MODULE TerminationProofs -------------------------
(***************************************************************************)
(* Proofs about how long a call of the application takes in RefResolver,   *)
(* for webs of texts without YAML aliases and without mixins: every step   *)
(* of resolve_ref and resolve_all uses up some of what was written.        *)
(***************************************************************************)
EXTENDS TraversalProofs

----------------------------------------------------------------------------
(* What is left to do *)

\* The place of a child, counted from the end: what a loop has put in before it does not move it.
Place(a, i) == <<a, Len(heap[a].kids) - i + 1>>

\* The places of a from this child on are in W.
Due(W, a, from) == \A i \in DOMAIN heap[a].kids : i >= from => Place(a, i) \in W

\* W has the places that are left to the calls, and those in the objects that are untouched.
Owed(F, W) ==
    /\ \A a \in F : Due(W, a, 1)
    /\ \A i \in DOMAIN stack : Traverses(stack[i]) => Due(W, stack[i].node, From(stack[i]))

\* How many steps a call takes at most until it returns, loops or waits, and one for a new call.
Turns(f) ==
    IF f.at # "enter" THEN 0
    ELSE IF f.fn = "resolve_ref" THEN 3
    ELSE IF IsKind(f.node, Directives) THEN 4
    ELSE IF f.node = Text THEN 0
    ELSE 1

Pending == IF ret # NoRet THEN 1 ELSE IF stack = <<>> THEN 0 ELSE Turns(Top)

\* A bound on the steps that the call of the application has left.
Remaining(F, W) == 4 * (Cardinality(W) + Cardinality(F)) + 2 * Len(stack) + Pending

\* The inductive invariant: what a call has done and what it has left is not more than was written.
Paid == \E F, W : /\ Fresh(F)
                  /\ W \subseteq Values
                  /\ Owed(F, W)
                  /\ steps + Remaining(F, W) <= StepLimit

\* A step leaves one step less to do.
Pays(F, W) == \E G, V : /\ Fresh(G)'
                        /\ V \subseteq W
                        /\ Owed(G, V)'
                        /\ Remaining(G, V)' \in 0 .. Remaining(F, W) - 1

----------------------------------------------------------------------------
(* Sizes *)

LEMMA FiniteTexts ==
    ASSUME Whole
    PROVE  /\ Len(web.heap) \in Nat
           /\ IsFiniteSet(DOMAIN web.heap) /\ Cardinality(DOMAIN web.heap) = Len(web.heap)
           /\ IsFiniteSet(Values) /\ Cardinality(Values) \in Nat
<1> DEFINE n == Len(web.heap)
           D == DOMAIN web.heap
<1>1. web.heap \in Seq(Node(0 .. n)) /\ n \in Nat /\ D = 1 .. n
  BY LenProperties DEF Whole, Store, WebOK
<1>2. IsFiniteSet(D) /\ Cardinality(D) = n
  <2>1. /\ IsFiniteSet(1 .. n)
        /\ Cardinality(1 .. n) = IF 1 > n THEN 0 ELSE n - 1 + 1
    BY <1>1, FS_Interval
  <2> HIDE DEF n
  <2> QED  BY <1>1, <2>1
<1> DEFINE places == [a \in D |-> {a} \X DOMAIN web.heap[a].kids]
           all    == {places[a] : a \in D}
<1>3. ASSUME NEW a \in D PROVE IsFiniteSet(places[a])
  <2>1. web.heap[a].kids \in Seq(0 .. n)
    <3>1. web.heap[a] \in Node(0 .. n)
      BY <1>1, ElementOfSeq
    <3> QED  BY <3>1 DEF Node
  <2>2. DOMAIN web.heap[a].kids = 1 .. Len(web.heap[a].kids) /\ Len(web.heap[a].kids) \in Nat
    BY <2>1, LenProperties
  <2>3. IsFiniteSet(DOMAIN web.heap[a].kids)
    BY <2>2, FS_Interval
  <2>4. IsFiniteSet({a})
    BY FS_Singleton
  <2> QED  BY <2>3, <2>4, FS_Product
<1>4. Values = UNION all
  BY DEF Values
<1> HIDE DEF places, n
<1>5. IsFiniteSet(all)
  <2>1. places \in Surjection(D, all)
    BY DEF Surjection, places
  <2> QED  BY <1>2, <2>1, FS_Surjection
<1>6. IsFiniteSet(UNION all)
  <2>1. \A s \in all : IsFiniteSet(s)
    BY <1>3
  <2> HIDE DEF all
  <2> QED  BY <1>5, <2>1, FS_UNION
<1> HIDE DEF all
<1> QED  BY <1>1, <1>2, <1>4, <1>6, FS_CardinalityType DEF n

\* Both sets are finite, and never larger than what was written.
LEMMA Sizes ==
    ASSUME Plain, NEW F, Fresh(F), NEW W, W \subseteq Values
    PROVE  /\ IsFiniteSet(F) /\ Cardinality(F) \in Nat /\ Cardinality(F) <= Len(web.heap)
           /\ IsFiniteSet(W) /\ Cardinality(W) \in Nat /\ Cardinality(W) <= Cardinality(Values)
<1>1. F \subseteq DOMAIN web.heap
  BY DEF Fresh, Untouched, Plain, Bodies
<1> QED  BY <1>1, FiniteTexts, FS_Subset, FS_CardinalityType DEF Plain

\* The stack after a step, and what is pending on it.
LEMMA StackSizes ==
    ASSUME Whole, stack # <<>>
    PROVE  /\ Len(stack) \in Nat \ {0} /\ Pending \in 0 .. 4
           /\ \A v : Return(v) /\ v # NoRet => Len(stack') = Len(stack) - 1 /\ Pending' = 1
           /\ \A status : Raise(status) => Len(stack') = 0 /\ Pending' = 0
           /\ \A f : Become(f) => Len(stack') = Len(stack) /\ Pending' = Turns(f)'
           /\ \A f, g : Invoke(f, g) => Len(stack') = Len(stack) + 1 /\ Pending' = Turns(g)'
<1> DEFINE low == Front(stack)
           n   == Len(stack) - 1
<1>1. n \in Nat /\ Len(stack) = n + 1 /\ low \in Seq(Call) /\ Len(low) = n
  BY PopStack DEF Whole, Control
<1>2. Pending \in 0 .. 4
  BY DEF Pending, Turns
<1>3. ASSUME NEW v, Return(v), v # NoRet PROVE Len(stack') = n /\ Pending' = 1
  BY <1>1, <1>3 DEF Return, Pending
<1>4. ASSUME NEW status, Raise(status) PROVE Len(stack') = 0 /\ Pending' = 0
  BY <1>4 DEF Raise, Pending
<1>5. ASSUME NEW f, Become(f) PROVE Len(stack') = n + 1 /\ Pending' = Turns(f)'
  <2>1. stack' = Append(low, f) /\ ret' = NoRet
    BY <1>5 DEF Become
  <2> HIDE DEF low, n
  <2>2. Len(stack') = n + 1 /\ stack' # <<>> /\ stack'[n + 1] = f
    BY <1>1, <2>1
  <2> QED  BY <2>1, <2>2 DEF Pending, Top, Last, Turns
<1>6. ASSUME NEW f, NEW g, Invoke(f, g) PROVE Len(stack') = n + 2 /\ Pending' = Turns(g)'
  <2>1. stack' = Append(Append(low, f), g) /\ ret' = NoRet
    BY <1>6 DEF Invoke
  <2> HIDE DEF low, n
  <2>2. Len(stack') = n + 2 /\ stack' # <<>> /\ stack'[n + 2] = g
    BY <1>1, <2>1
  <2> QED  BY <2>1, <2>2 DEF Pending, Top, Last, Turns
<1> HIDE DEF n
<1> QED  BY <1>1, <1>2, <1>3, <1>4, <1>5, <1>6

----------------------------------------------------------------------------
(* What a step leaves *)

\* A step that takes places of the object in hand out of W, and objects out of F.
LEMMA OwedAfter ==
    ASSUME Plain, stack # <<>>, NEW F, Fresh(F), NEW W, Owed(F, W),
           NEW G, G \subseteq F, NEW V, V \subseteq W,
           \A p \in W \ V : Holds(Top) /\ p[1] = Top.node,
           \A a \in DOMAIN heap : a # Top.node \/ ~Holds(Top) => heap'[a].kids = heap[a].kids,
           NEW v, NEW status, NEW f, NEW g,
           \/ Return(v)
           \/ Raise(status)
           \/ Become(f) /\ (Traverses(f) => Due(V, f.node, From(f))')
           \/ Invoke(f, g) /\ (Traverses(f) => Due(V, f.node, From(f))')
                           /\ (Traverses(g) => Due(V, g.node, From(g))')
    PROVE  Owed(G, V)'
<1> DEFINE n == Len(stack)
<1>1. /\ n \in Nat \ {0} /\ Outer = 1 .. n - 1 /\ stack[n] = Top /\ Top \in Call
      /\ \A i \in Outer : i \in DOMAIN stack /\ i < n /\ stack[i] \in Call
      /\ n \in DOMAIN stack
  BY StackAfter DEF Plain, Outer
<1>2. /\ F \subseteq DOMAIN heap
      /\ Holds(Top) => Top.node \notin F
      /\ \A i \in Outer : Traverses(stack[i]) =>
            /\ stack[i].node \in DOMAIN heap
            /\ Holds(Top) => stack[i].node # Top.node
  BY <1>1, CallParts DEF Fresh, Untouched, InPlace, Apart, Holds, Traverses, Addrs
<1>3. ASSUME NEW a \in DOMAIN heap, a # Top.node \/ ~Holds(Top), NEW from, Due(W, a, from)
      PROVE  Due(V, a, from)'
  <2>1. heap'[a].kids = heap[a].kids
    BY <1>3
  <2>2. \A i : Place(a, i)' = Place(a, i) /\ Place(a, i)[1] = a
    BY <2>1 DEF Place
  <2> QED  BY <1>3, <2>1, <2>2 DEF Due
<1>4. \A a \in G : Due(V, a, 1)'
  BY <1>2, <1>3 DEF Owed
<1>5. ASSUME NEW i \in Outer, stack'[i] = stack[i], Traverses(stack[i])
      PROVE  Due(V, stack[i].node, From(stack[i]))'
  <2> DEFINE h == stack[i]
  <2>1. Due(W, h.node, From(h)) /\ h.node \in DOMAIN heap /\ (h.node # Top.node \/ ~Holds(Top))
    BY <1>1, <1>2, <1>5 DEF Owed
  <2>2. stack'[i] = h
    BY <1>5
  <2> HIDE DEF h
  <2>3. Due(V, h.node, From(h))'
    BY <1>3, <2>1, <2>2 DEF From, h
  <2> QED  BY <2>3 DEF h
<1>6. \A i \in Outer : stack'[i] = stack[i] =>
          (Traverses(stack[i]) => Due(V, stack[i].node, From(stack[i])))'
  BY <1>5 DEF Traverses
<1>7. CASE stack' = <<>>
  <2>1. DOMAIN stack' = {}
    BY <1>7
  <2> QED  BY <1>4, <2>1 DEF Owed
<1>8. CASE Return(v)
  <2>1. DOMAIN stack' = Outer /\ \A i \in Outer : stack'[i] = stack[i]
    BY <1>8, StackAfter DEF Plain, Return
  <2> QED  BY <1>4, <1>6, <2>1 DEF Owed
<1>9. CASE Become(f) /\ (Traverses(f) => Due(V, f.node, From(f))')
  <2>1. DOMAIN stack' = 1 .. n /\ stack'[n] = f /\ \A i \in Outer : stack'[i] = stack[i]
    BY <1>9, StackAfter DEF Plain
  <2> HIDE DEF n
  <2>2. \A i \in DOMAIN stack' : i \in Outer \/ i = n
    BY <1>1, <2>1
  <2>3. \A i \in DOMAIN stack' : stack'[i] = f =>
            (Traverses(stack[i]) => Due(V, stack[i].node, From(stack[i])))'
    BY <1>9 DEF Traverses, From
  <2> QED  BY <1>4, <1>6, <2>1, <2>2, <2>3 DEF Owed
<1>10. CASE Invoke(f, g) /\ (Traverses(f) => Due(V, f.node, From(f))')
                         /\ (Traverses(g) => Due(V, g.node, From(g))')
  <2>1. /\ DOMAIN stack' = 1 .. n + 1 /\ stack'[n] = f /\ stack'[n + 1] = g
        /\ \A i \in Outer : stack'[i] = stack[i]
    BY <1>10, StackAfter DEF Plain
  <2> HIDE DEF n
  <2>2. \A i \in DOMAIN stack' : i \in Outer \/ i = n \/ i = n + 1
    BY <1>1, <2>1
  <2>3. \A i \in DOMAIN stack' : stack'[i] = f \/ stack'[i] = g =>
            (Traverses(stack[i]) => Due(V, stack[i].node, From(stack[i])))'
    BY <1>10 DEF Traverses, From
  <2> QED  BY <1>4, <1>6, <2>1, <2>2, <2>3 DEF Owed
<1> QED  BY <1>7, <1>8, <1>9, <1>10 DEF Raise

----------------------------------------------------------------------------
(* The steps *)

\* A call that is over, or an exception, leaves fewer calls.
LEMMA LeavePays ==
    ASSUME Plain, NEW F, Fresh(F), NEW W, W \subseteq Values, Owed(F, W),
           stack # <<>>, UNCHANGED <<web, heap, idx>>,
           NEW v, NEW status, (Return(v) /\ v # NoRet) \/ Raise(status)
    PROVE  Pays(F, W)
<1>1. Fresh(F)'
  BY LeaveFresh
<1>2. Owed(F, W)'
  BY OwedAfter
<1>3. /\ Len(stack) \in Nat \ {0} /\ Pending \in 0 .. 4
      /\ \/ Len(stack') = Len(stack) - 1 /\ Pending' = 1
         \/ Len(stack') = 0 /\ Pending' = 0
  BY StackSizes DEF Plain
<1>4. Remaining(F, W)' \in 0 .. Remaining(F, W) - 1
  <2>1. PICK n : n = 4 * (Cardinality(W) + Cardinality(F)) /\ n \in Nat
    BY Sizes
  <2>2. /\ Remaining(F, W) = n + 2 * Len(stack) + Pending
        /\ Remaining(F, W)' = n + 2 * Len(stack') + Pending'
    BY <2>1 DEF Remaining
  <2> QED  BY <1>3, <2>1, <2>2
<1> QED  BY <1>1, <1>2, <1>4 DEF Pays

\* The call in hand goes on, with fewer steps to take until it loops.
LEMMA BecomePays ==
    ASSUME Plain, NEW F, Fresh(F), NEW W, W \subseteq Values, Owed(F, W),
           stack # <<>>, NEW G, G \subseteq F, Fresh(G)',
           \A a \in DOMAIN heap : a # Top.node \/ ~Holds(Top) => heap'[a].kids = heap[a].kids,
           NEW f, Become(f), Traverses(f) => Due(W, f.node, From(f))',
           Turns(f)' + 1 <= Pending
    PROVE  Pays(F, W)
<1>1. Owed(G, W)'
  BY OwedAfter
<1>2. Len(stack) \in Nat /\ Pending \in 0 .. 4 /\ Len(stack') = Len(stack) /\ Pending' = Turns(f)'
  BY StackSizes DEF Plain
<1>3. Turns(f)' \in Nat
  BY DEF Turns
<1>4. /\ Cardinality(F) \in Nat /\ Cardinality(W) \in Nat
      /\ Cardinality(G) \in Nat /\ Cardinality(G) <= Cardinality(F)
  BY Sizes, FS_Subset, FS_CardinalityType
<1> DEFINE w == Cardinality(W)
           b == Cardinality(F)
           c == Cardinality(G)
           l == Len(stack)
           p == Pending
           t == Turns(f)'
<1>5. /\ w \in Nat /\ b \in Nat /\ c \in Nat /\ l \in Nat /\ p \in Nat /\ t \in Nat
      /\ c <= b /\ t + 1 <= p
  BY <1>2, <1>3, <1>4
<1> DEFINE after  == 4 * (w + c) + 2 * l + t
           before == 4 * (w + b) + 2 * l + p
<1>6. Remaining(G, W)' = after /\ Remaining(F, W) = before
  BY <1>2 DEF Remaining
<1> HIDE DEF w, b, c, l, p, t
<1>7. after \in 0 .. before - 1
  BY <1>5
<1> HIDE DEF after, before
<1>8. Remaining(G, W)' \in 0 .. Remaining(F, W) - 1
  BY <1>6, <1>7
<1> QED  BY <1>1, <1>8 DEF Pays

\* A new call has been paid for with the object it takes up or the place it is at.
LEMMA InvokePays ==
    ASSUME Plain, NEW F, Fresh(F), NEW W, W \subseteq Values, Owed(F, W),
           stack # <<>>, UNCHANGED web, NEW m, Fresh(F \ {m})',
           NEW V, V \subseteq W, \A p \in W \ V : Holds(Top) /\ p[1] = Top.node,
           \A a \in DOMAIN heap : heap'[a].kids = heap[a].kids,
           NEW f, NEW g, Invoke(f, g), Traverses(f) => Due(V, f.node, From(f))',
           Traverses(g) => Due(V, g.node, From(g))',
           NEW spent \in {0, 1}, Cardinality(V) \in Nat, Cardinality(V) = Cardinality(W) - spent,
           NEW used \in {0, 1}, used = 1 => m \in F,
           Turns(g)' + 3 <= Pending + 4 * (spent + used)
    PROVE  Pays(F, W)
<1>0. PICK G : G = F \ {m}
  OBVIOUS
<1>1. Owed(G, V)'
  <2>1. G \subseteq F
    BY <1>0
  <2> QED  BY <2>1, OwedAfter
<1>2. Len(stack) \in Nat /\ Pending \in 0 .. 4 /\ Len(stack') = Len(stack) + 1 /\ Pending' = Turns(g)'
  BY StackSizes DEF Plain
<1>3. Turns(g)' \in Nat
  BY DEF Turns
<1>4. Cardinality(F) \in Nat /\ Cardinality(W) \in Nat /\ IsFiniteSet(F)
  BY Sizes
<1>5. /\ Cardinality(G) \in Nat
      /\ Cardinality(G) = IF m \in F THEN Cardinality(F) - 1 ELSE Cardinality(F)
  BY <1>0, <1>4, FS_RemoveElement, FS_CardinalityType
<1>6. Cardinality(G) <= Cardinality(F) - used
  BY <1>4, <1>5
<1> DEFINE w == Cardinality(W)
           v == Cardinality(V)
           b == Cardinality(F)
           c == Cardinality(G)
           l == Len(stack)
           p == Pending
           t == Turns(g)'
<1>7. /\ w \in Nat /\ v \in Nat /\ b \in Nat /\ c \in Nat /\ l \in Nat /\ p \in Nat /\ t \in Nat
  BY <1>2, <1>3, <1>4, <1>5
<1>8. /\ spent \in Nat /\ used \in Nat /\ c <= b - used /\ v = w - spent
      /\ t + 3 <= p + 4 * (spent + used)
  BY <1>6
<1> DEFINE after  == 4 * (v + c) + 2 * (l + 1) + t
           before == 4 * (w + b) + 2 * l + p
<1>9. Remaining(G, V)' = after /\ Remaining(F, W) = before
  BY <1>2 DEF Remaining
<1> HIDE DEF w, v, b, c, l, p, t
<1>10. 4 * (v + c) + 2 * (l + 1) + t \in 0 .. 4 * (w + b) + 2 * l + p - 1
  BY ONLY <1>7, <1>8
<1>11. after \in 0 .. before - 1
  BY <1>7, <1>10
<1> HIDE DEF after, before
<1>12. Remaining(G, V)' \in 0 .. Remaining(F, W) - 1
  BY <1>9, <1>11
<1> QED  BY <1>0, <1>1, <1>12 DEF Pays

\* The steps that end a call.
LEMMA QuietPays ==
    ASSUME Plain, NEW F, Fresh(F), NEW W, W \subseteq Values, Owed(F, W),
           RejectDirective \/ ReturnIndexed \/ Include \/ ReportMissing \/ LoadFails \/ RefResolved
             \/ ReturnScalar \/ Finish \/ Overflow
    PROVE  Pays(F, W)
<1>1. /\ stack # <<>> /\ UNCHANGED <<web, heap, idx>> /\ Top \in Call
  BY TopOK DEF RejectDirective, ReturnIndexed, Include, ReportMissing, LoadFails, RefResolved,
         ReturnScalar, Finish, Overflow, Running, Returned, objects, world, Plain, Whole
<1>2. \A a \in Addrs : a # NoRet /\ Unwrap(a) # NoRet
  <2>1. NoRet \notin Addrs
    BY DEF Plain, Whole, Store, Addrs, NoRet, Text
  <2> QED  BY <2>1, UnwrapOK DEF Plain, Whole
<1>3. CASE RejectDirective \/ ReportMissing \/ LoadFails \/ Overflow
  <2>1. \E status : Raise(status)
    BY <1>3 DEF RejectDirective, ReportMissing, LoadFails, Overflow
  <2> QED  BY <1>1, <2>1, LeavePays
<1>4. CASE ReturnIndexed
  <2>1. idx[Top.url] \in Addrs
    BY <1>4 DEF ReturnIndexed, Hit, Plain, Whole, Index
  <2>2. (\E v : Return(v) /\ v # NoRet) \/ (\E status : Raise(status))
    BY <1>2, <1>4, <2>1 DEF ReturnIndexed
  <2> QED  BY <1>1, <2>2, LeavePays
<1>5. CASE Include \/ ReturnScalar
  <2>1. (\E v : Return(v) /\ v # NoRet) \/ (\E status : Raise(status))
    BY <1>5 DEF Include, ReturnScalar, Text, NoRet
  <2> QED  BY <1>1, <2>1, LeavePays
<1>6. CASE RefResolved
  <2>1. ret \in Addrs /\ \A u \in DOMAIN idx : idx[u] \in Addrs
    BY <1>6 DEF RefResolved, Returned, Plain, Whole, Control, Index
  <2>2. (\E v : Return(v) /\ v # NoRet) \/ (\E status : Raise(status))
    BY <1>2, <1>6, <2>1 DEF RefResolved
  <2> QED  BY <1>1, <2>2, LeavePays
<1>7. CASE Finish
  <2>1. Top.node \in Addrs
    BY <1>1, CallParts
  <2>2. (\E v : Return(v) /\ v # NoRet) \/ (\E status : Raise(status))
    BY <1>2, <1>7, <2>1 DEF Finish
  <2> QED  BY <1>1, <2>2, LeavePays
<1> QED  BY <1>3, <1>4, <1>5, <1>6, <1>7

\* What is in hand before a loop, or to be followed.
LEMMA EnterPending ==
    ASSUME stack # <<>>, ret = NoRet, Top.fn = "resolve_all", Top.at = "enter"
    PROVE  /\ IsKind(Top.node, Directives) => Pending = 4
           /\ ~IsKind(Top.node, Directives) /\ Top.node # Text => Pending = 1
  BY DEF Pending, Turns

\* A loop has the places of its object before it.
LEMMA OpenPays ==
    ASSUME Plain, NEW F, Fresh(F), NEW W, W \subseteq Values, Owed(F, W),
           OpenSeq \/ OpenMap \/ OpenGraph
    PROVE  Pays(F, W)
<1>1. /\ stack # <<>> /\ ret = NoRet /\ Top.fn = "resolve_all" /\ Top.at = "enter"
      /\ IsKind(Top.node, {"map", "seq", "graph"})
  BY DEF OpenSeq, OpenMap, OpenGraph, Running, IsKind
<1>2. /\ Top \in Call /\ Traverses(Top) /\ Top.node # Text /\ From(Top) = 1
      /\ DOMAIN heap[Top.node].kids = 1 .. Len(heap[Top.node].kids)
      /\ Len(heap[Top.node].kids) \in Nat /\ heap[Top.node].kids \in Seq(Addrs)
      /\ InPlace(F, Top) /\ Due(W, Top.node, 1)
  <2>1. /\ Traverses(Top) /\ From(Top) = 1
        /\ DOMAIN heap[Top.node].kids = 1 .. Len(heap[Top.node].kids)
        /\ Len(heap[Top.node].kids) \in Nat /\ heap[Top.node].kids \in Seq(Addrs)
    BY <1>1, Traversing DEF From, Plain
  <2>2. Len(stack) \in DOMAIN stack /\ stack[Len(stack)] = Top /\ Top \in Call
    BY <1>1, StackAfter DEF Plain
  <2>3. InPlace(F, Top) /\ Due(W, Top.node, 1)
    BY <2>1, <2>2 DEF Owed, Fresh
  <2> QED  BY <1>1, <2>1, <2>2, <2>3 DEF IsKind
<1>3. Pending = 1
  <2>1. ~IsKind(Top.node, Directives)
    BY <1>1 DEF IsKind, Directives
  <2> QED  BY <1>1, <1>2, <2>1, EnterPending
<1>4. Unmoved
  BY OpenMapHeap, OpenGraphHeap DEF OpenSeq, objects, world, Unmoved, Plain
<1>5. \A a : Due(W, a, 1) /\ a \in DOMAIN heap => Due(W, a, 1)'
  BY <1>4 DEF Unmoved, Due, Place
<1>6. PICK f : /\ Become(f) /\ f.fn = "resolve_all" /\ f.at = "iterate" /\ f.pos = 1
               /\ \/ ~OpenGraph /\ f.node = Top.node
                  \/ OpenGraph /\ f.node = heap[Top.node].kids[1]
  <2>1. CASE OpenSeq
    <3>1. PICK f : f = [Top EXCEPT !.at = "iterate", !.pos = 1]
      OBVIOUS
    <3>2. Become(f) /\ ~OpenGraph
      BY <2>1, <3>1 DEF OpenSeq, OpenGraph, IsKind
    <3>3. f.fn = "resolve_all" /\ f.at = "iterate" /\ f.pos = 1 /\ f.node = Top.node
      BY <1>1, <1>2, <3>1 DEF Call, Frame
    <3> QED  BY <3>2, <3>3
  <2>2. CASE OpenMap
    <3>1. PICK f : f = [Top EXCEPT !.at = "iterate", !.pos = 1, !.base = Identified(Top).base,
                                   !.ns = Scope(Top)]
      OBVIOUS
    <3>2. Become(f) /\ ~OpenGraph
      BY <2>2, <3>1 DEF OpenMap, OpenGraph, IsKind
    <3>3. f.fn = "resolve_all" /\ f.at = "iterate" /\ f.pos = 1 /\ f.node = Top.node
      BY <1>1, <1>2, <3>1 DEF Call, Frame
    <3> QED  BY <3>2, <3>3
  <2>3. CASE OpenGraph
    <3>1. PICK f : f = [Top EXCEPT !.at = "iterate", !.pos = 1, !.ns = Scope(Top),
                                   !.base = Identified(Top).base, !.node = heap[Top.node].kids[1]]
      OBVIOUS
    <3>2. Become(f)
      BY <2>3, <3>1 DEF OpenGraph
    <3>3. f.fn = "resolve_all" /\ f.at = "iterate" /\ f.pos = 1 /\ f.node = heap[Top.node].kids[1]
      BY <1>1, <1>2, <3>1 DEF Call, Frame
    <3> QED  BY <2>3, <3>2, <3>3
  <2> QED  BY <2>1, <2>2, <2>3
<1>7. f.node \in DOMAIN heap /\ Due(W, f.node, 1)
  <2>1. CASE ~OpenGraph
    BY <1>1, <1>2, <1>6, <2>1, Traversing DEF Plain
  <2>2. CASE OpenGraph
    <3>1. heap[Top.node].kind = "graph" /\ Top.node \in DOMAIN heap
      BY <1>1, <2>2, Traversing DEF OpenGraph, IsKind, Plain
    <3>2. heap[Top.node].kids # <<>> /\ f.node \in DOMAIN heap
      BY <1>6, <2>2, <3>1 DEF Plain, Whole, Store, WellFormed
    <3>3. 1 \in DOMAIN heap[Top.node].kids /\ f.node # Text
      BY <1>2, <3>2, Shape, EmptySeq, LenProperties
    <3>4. f.node \in F
      BY <1>2, <1>6, <2>2, <3>3 DEF InPlace, Ahead
    <3> QED  BY <3>2, <3>4 DEF Owed
  <2> QED  BY <2>1, <2>2
<1>8. (Traverses(f) => Due(W, f.node, From(f))') /\ Turns(f)' = 0
  BY <1>5, <1>6, <1>7 DEF From, Turns
<1>9. PICK G : G \subseteq F /\ Fresh(G)'
  BY OpenSeqFresh, OpenMapFresh, OpenGraphFresh
<1>10. \A a \in DOMAIN heap : a # Top.node \/ ~Holds(Top) => heap'[a].kids = heap[a].kids
  BY <1>4 DEF Unmoved
<1> QED  BY <1>1, <1>3, <1>6, <1>8, <1>9, <1>10, BecomePays

LEMMA FollowDirectivePays ==
    ASSUME Plain, NEW F, Fresh(F), NEW W, W \subseteq Values, Owed(F, W), FollowDirective
    PROVE  Pays(F, W)
<1>1. PICK f : f = DirectiveFrame(Top.node, IF IsKind(Top.node, {"mixin"}) THEN Top.base ELSE Top.file,
                                  Top.ns, Top.check)
  OBVIOUS
<1>2. /\ stack # <<>> /\ ret = NoRet /\ Top.fn = "resolve_all" /\ Top.at = "enter"
      /\ IsKind(Top.node, Directives) /\ Become(f) /\ heap' = heap
  BY <1>1 DEF FollowDirective, Running, objects
<1>3. ~Traverses(f) /\ Turns(f)' = 3
  BY <1>1 DEF DirectiveFrame, RefFrame, Traverses, Turns
<1>4. Pending = 4
  BY <1>2, EnterPending
<1>5. Fresh(F)'
  BY FollowDirectiveFresh
<1> QED  BY <1>2, <1>3, <1>4, <1>5, BecomePays

\* The place of the child is behind the loop, and the child, if it is an object, in hand.
LEMMA DescendPays ==
    ASSUME Plain, NEW F, Fresh(F), NEW W, W \subseteq Values, Owed(F, W), Descend
    PROVE  Pays(F, W)
<1>0. PICK kid, f, g, a, pos :
        /\ kid = Kids(Top)[Top.pos] /\ a = Top.node /\ pos = Top.pos
        /\ f = [Top EXCEPT !.at = "wait"]
        /\ g = IF Spliceable(Top) THEN DirectiveFrame(kid, Top.file, Top.ns, FALSE)
               ELSE AllFrame(kid, Top.base, Top.file, Top.ns, FALSE)
  OBVIOUS
<1>1. /\ stack # <<>> /\ Top.fn = "resolve_all" /\ Top.at = "iterate" /\ pos \in DOMAIN Kids(Top)
      /\ Invoke(f, g) /\ UNCHANGED <<web, heap>>
  BY <1>0 DEF Descend, Running, More, objects, world
<1>2. /\ Top \in Call /\ Len(stack) \in DOMAIN stack /\ stack[Len(stack)] = Top
  BY <1>1, StackAfter DEF Plain
<1>3. IsKind(a, {"map", "seq"})
  BY <1>0, <1>1, <1>2, CallParts
<1>4. /\ Traverses(Top) /\ Holds(Top) /\ a \in DOMAIN heap /\ pos \in Nat /\ From(Top) = pos
      /\ Len(heap[a].kids) \in Nat /\ DOMAIN heap[a].kids = 1 .. Len(heap[a].kids)
      /\ Kids(Top) = heap[a].kids
  BY <1>0, <1>1, <1>3, Traversing DEF Plain, Kids, From
<1>5. Ahead(F, a, pos) /\ Due(W, a, pos)
  BY <1>0, <1>2, <1>4 DEF Fresh, InPlace, Owed
<1>6. f.fn = Top.fn /\ f.at = "wait" /\ f.node = a /\ From(f) = pos + 1
  BY <1>0, <1>2 DEF Call, Frame, From
<1>7. PICK place, V : place = Place(a, pos) /\ V = W \ {place}
  OBVIOUS
<1>8. place \in W /\ place[1] = a /\ V \subseteq W /\ \A p \in W \ V : p[1] = Top.node
  <2>1. Place(a, pos) \in W
    BY <1>1, <1>4, <1>5 DEF Due
  <2>2. Place(a, pos)[1] = a
    BY DEF Place
  <2>3. \A p \in W \ V : p = place
    BY <1>7
  <2> QED  BY <1>0, <1>7, <2>1, <2>2, <2>3
<1>9. Cardinality(V) = Cardinality(W) - 1 /\ Cardinality(V) \in Nat
  BY <1>7, <1>8, Sizes, FS_RemoveElement, FS_CardinalityType
<1>10. Due(V, f.node, From(f))'
  <2>1. ASSUME NEW i \in DOMAIN heap[a].kids, i >= pos + 1
        PROVE  Place(a, i) \in V
    <3>1. Place(a, i) \in W
      BY <1>4, <1>5, <2>1 DEF Due
    <3>2. Place(a, i) # Place(a, pos)
      <4>1. Len(heap[a].kids) - i + 1 # Len(heap[a].kids) - pos + 1
        BY <1>4, <2>1
      <4> QED  BY <4>1 DEF Place
    <3> QED  BY <1>7, <3>1, <3>2
  <2> QED  BY <1>1, <1>6, <2>1 DEF Due, Place, From
<1>11. kid # Text => kid \in F /\ kid # a
  <2>1. a \notin F
    BY <1>0, <1>2, <1>4 DEF Fresh, InPlace
  <2> QED  BY <1>0, <1>1, <1>4, <1>5, <2>1 DEF Ahead
<1>12. /\ Traverses(g) => kid # Text /\ g.node = kid /\ g.at = "enter"
       /\ Turns(g)' \in 0 .. 4 /\ (kid = Text => Turns(g)' = 0)
  <2>1. Spliceable(Top) => kid # Text
    BY <1>0 DEF Spliceable, IsKind
  <2> QED  BY <1>0, <2>1 DEF DirectiveFrame, RefFrame, AllFrame, Traverses, Turns, IsKind
<1>13. Traverses(g) => Due(V, g.node, From(g))'
  <2> SUFFICES ASSUME Traverses(g) PROVE Due(V, kid, 1)'
    BY <1>12 DEF From
  <2>1. kid \in F /\ kid # a /\ Due(W, kid, 1)
    BY <1>11, <1>12 DEF Owed
  <2>2. \A i : Place(kid, i) # place
    BY <1>8, <2>1 DEF Place
  <2> QED  BY <1>1, <1>7, <2>1, <2>2 DEF Due, Place
<1>14. Fresh(F \ {kid})'
  BY <1>0, DescendFresh
<1>15. PICK used \in {0, 1} : used = IF kid = Text THEN 0 ELSE 1
  OBVIOUS
<1>16. Turns(g)' + 3 <= Pending + 4 * (1 + used)
  <2>1. Pending \in 0 .. 4
    BY <1>1, StackSizes DEF Plain
  <2> QED  BY <1>12, <1>15, <2>1
<1>17. \A p \in W \ V : Holds(Top) /\ p[1] = Top.node
  BY <1>4, <1>8
<1>18. (Traverses(f) => Due(V, f.node, From(f))') /\ (used = 1 => kid \in F)
  BY <1>10, <1>11, <1>15
<1>19. \A b \in DOMAIN heap : heap'[b].kids = heap[b].kids
  BY <1>1
<1>20. /\ stack # <<>> /\ UNCHANGED web /\ V \subseteq W /\ Invoke(f, g) /\ 1 \in {0, 1}
       /\ Cardinality(V) \in Nat /\ Cardinality(V) = Cardinality(W) - 1
  BY <1>1, <1>8, <1>9
<1>21. used \in {0, 1}
  OBVIOUS
<1> QED
  BY ONLY Plain, Fresh(F), W \subseteq Values, Owed(F, W), <1>13, <1>14, <1>16, <1>17, <1>18, <1>19,
          <1>20, <1>21, InvokePays

\* A loop goes on behind what was written into its object: the places after it are where they were.
LEMMA RefillPays ==
    ASSUME Plain, NEW F, Fresh(F), NEW W, W \subseteq Values, Owed(F, W),
           Returned("resolve_all"), More(Top), Fresh(F)',
           NEW kids \in Seq(Addrs), NEW pos \in Nat, NEW shift \in Int,
           Len(kids) = Len(Kids(Top)) + shift,
           \A j \in DOMAIN kids : j >= pos =>
               j - shift \in DOMAIN Kids(Top) /\ j - shift > Top.pos,
           heap' = [heap EXCEPT ![Top.node].kids = kids],
           Become([Top EXCEPT !.at = "iterate", !.pos = pos])
    PROVE  Pays(F, W)
<1>0. PICK f, a : f = [Top EXCEPT !.at = "iterate", !.pos = pos] /\ a = Top.node
  OBVIOUS
<1>1. /\ stack # <<>> /\ Top.fn = "resolve_all" /\ Top.at = "wait" /\ Top \in Call
      /\ IsKind(a, {"map", "seq"}) /\ Kids(Top) = heap[a].kids /\ ret # NoRet
  BY <1>0, InLoop DEF Returned, Plain
<1>2. /\ Traverses(Top) /\ Holds(Top) /\ a \in DOMAIN heap /\ Top.pos \in Nat
      /\ From(Top) = Top.pos + 1
      /\ Len(heap[a].kids) \in Nat /\ DOMAIN heap[a].kids = 1 .. Len(heap[a].kids)
  BY <1>0, <1>1, Traversing DEF Plain, From
<1>3. Due(W, a, Top.pos + 1)
  <2>1. Len(stack) \in DOMAIN stack /\ stack[Len(stack)] = Top
    BY <1>1, StackAfter DEF Plain
  <2> QED  BY <1>0, <1>2, <2>1 DEF Owed
<1>4. f.at = "iterate" /\ f.pos = pos /\ f.node = a /\ Become(f)
  BY <1>0, <1>1 DEF Call, Frame
<1>5. heap'[a].kids = kids /\ \A b \in DOMAIN heap : b # a => heap'[b].kids = heap[b].kids
  BY <1>0, <1>2, RefillHeap DEF Plain
<1>6. ASSUME NEW j \in DOMAIN kids, j >= pos
      PROVE  <<a, Len(kids) - j + 1>> \in W
  <2>1. /\ j - shift \in DOMAIN heap[a].kids /\ j - shift >= Top.pos + 1
        /\ Len(heap[a].kids) - (j - shift) + 1 = Len(kids) - j + 1
    <3>1. j \in Nat /\ Len(kids) \in Nat
      BY LenProperties
    <3>2. Len(kids) = Len(heap[a].kids) + shift
      BY <1>1
    <3>3. Len(heap[a].kids) - (j - shift) + 1 = Len(kids) - j + 1
      BY <1>2, <3>1, <3>2
    <3>4. j - shift \in DOMAIN heap[a].kids /\ j - shift > Top.pos
      BY <1>1, <1>6
    <3> QED  BY <1>2, <3>1, <3>3, <3>4
  <2>2. Place(a, j - shift) \in W
    BY <1>3, <2>1 DEF Due
  <2> QED  BY <2>1, <2>2 DEF Place
<1>7. Due(W, f.node, From(f))'
  BY <1>4, <1>5, <1>6 DEF Due, Place, From
<1>8. Pending = 1 /\ Turns(f)' = 0
  BY <1>1, <1>4 DEF Pending, Turns
<1>9. \A b \in DOMAIN heap : b # Top.node \/ ~Holds(Top) => heap'[b].kids = heap[b].kids
  BY <1>0, <1>2, <1>5
<1> QED  BY <1>1, <1>4, <1>7, <1>8, <1>9, BecomePays

LEMMA ReplaceKidPays ==
    ASSUME Plain, NEW F, Fresh(F), NEW W, W \subseteq Values, Owed(F, W), ReplaceKid
    PROVE  Pays(F, W)
<1>1. /\ Returned("resolve_all") /\ More(Top)
      /\ Become([Top EXCEPT !.at = "iterate", !.pos = Top.pos + 1])
      /\ heap' = [heap EXCEPT ![Top.node].kids = [Kids(Top) EXCEPT ![Top.pos] = ret]]
  BY DEF ReplaceKid, Kids
<1> DEFINE kids == [Kids(Top) EXCEPT ![Top.pos] = ret]
<1>2. /\ kids \in Seq(Addrs) /\ Top.pos \in Nat /\ DOMAIN kids = DOMAIN Kids(Top)
      /\ DOMAIN kids \subseteq Nat
  BY <1>1, InLoop, LenProperties, SeqDef DEF Plain
<1>3. Len(kids) = Len(Kids(Top)) + 0
  <2>1. /\ Len(kids) \in Nat /\ DOMAIN kids = 1 .. Len(kids)
        /\ Len(Kids(Top)) \in Nat /\ DOMAIN Kids(Top) = 1 .. Len(Kids(Top))
    BY <1>1, <1>2, InLoop, LenProperties DEF Plain
  <2>2. ASSUME NEW m \in Nat, NEW n \in Nat, 1 .. m = 1 .. n PROVE m = n
    <3>1. m = 0 \/ m \in 1 .. m
      OBVIOUS
    <3>2. n = 0 \/ n \in 1 .. n
      OBVIOUS
    <3>3. (m = 0 \/ m \in 1 .. n) /\ (n = 0 \/ n \in 1 .. m)
      BY <2>2, <3>1, <3>2
    <3> QED  BY <3>3
  <2>3. Len(kids) = Len(Kids(Top))
    <3> HIDE DEF kids
    <3> QED  BY <1>2, <2>1, <2>2
  <2> HIDE DEF kids
  <2> QED  BY <2>1, <2>3
<1> HIDE DEF kids
<1>4. \A j \in DOMAIN kids : j >= Top.pos + 1 => j - 0 \in DOMAIN Kids(Top) /\ j - 0 > Top.pos
  BY <1>2
<1>5. /\ heap' = [heap EXCEPT ![Top.node].kids = kids] /\ Top.pos + 1 \in Nat /\ 0 \in Int
      /\ Fresh(F)'
  BY <1>1, <1>2, ReplaceKidFresh DEF kids
<1> QED  BY <1>1, <1>2, <1>3, <1>4, <1>5, RefillPays

LEMMA SpliceKidsPays ==
    ASSUME Plain, NEW F, Fresh(F), NEW W, W \subseteq Values, Owed(F, W), SpliceKids
    PROVE  Pays(F, W)
<1>1. Returned("resolve_all") /\ More(Top)
  BY DEF SpliceKids
<1> DEFINE kids == Kids(Top)
           new  == IF ret = Top.node THEN <<>> ELSE heap[ret].kids
           all  == SubSeq(kids, 1, Top.pos - 1) \o new \o SubSeq(kids, Top.pos + 1, Len(kids))
<1>2. ret \in DOMAIN heap
  BY <1>1, InLoop, InHand DEF SpliceKids, Splices, Plain
<1>3. heap[ret].kids \in Seq(Addrs)
  BY <1>2 DEF Plain, Whole, Store, Node
<1>4. new \in Seq(Addrs) /\ Len(new) \in Nat
  BY <1>3, EmptySeq, LenProperties
<1>5. kids \in Seq(Addrs) /\ Len(kids) \in Nat /\ Top.pos \in 1 .. Len(kids)
  BY <1>1, InLoop DEF Plain
<1>6. /\ heap' = [heap EXCEPT ![Top.node].kids = all] /\ Fresh(F)'
      /\ Become([Top EXCEPT !.at = "iterate", !.pos = Top.pos + Len(new)])
  BY SpliceKidsFresh DEF SpliceKids, After
<1> HIDE DEF new
<1>7. /\ all \in Seq(Addrs) /\ Len(all) = Len(kids) + (Len(new) - 1)
      /\ \A j \in DOMAIN all : j >= Top.pos + Len(new) =>
            j - (Len(new) - 1) \in DOMAIN kids /\ j - (Len(new) - 1) > Top.pos
  BY <1>4, <1>5, SplicedTail
<1>8. Top.pos + Len(new) \in Nat /\ Len(new) - 1 \in Int
  BY <1>4, <1>5
<1> HIDE DEF all
<1> QED  BY <1>1, <1>6, <1>7, <1>8, RefillPays

\* A document that is loaded is paid for with its root.
LEMMA LoadPays ==
    ASSUME Plain, NEW F, Fresh(F), NEW W, W \subseteq Values, Owed(F, W), Load
    PROVE  Pays(F, W)
<1>0. PICK d, root, f, g :
        /\ d = DocUrl(Top.url) /\ root = web.root[Top.url.doc]
        /\ f = [Top EXCEPT !.at = "wait"]
        /\ g = AllFrame(root, d, d, Top.ns, Top.check)
  OBVIOUS
<1>1. /\ stack # <<>> /\ ret = NoRet /\ Top.fn = "resolve_ref" /\ Top.at = "enter" /\ Top \in Call
      /\ Top.url.doc \in Docs
  BY TopRef DEF Load, Running, Plain
<1>2. /\ Unmoved /\ d \notin DOMAIN idx /\ d = RootUrl(Top.url.doc)
      /\ idx'[d] = root /\ root \in Addrs
  BY <1>0, LoadHeap DEF Plain
<1>3. Invoke(f, g)
  BY <1>0, <1>2 DEF Load
<1>4. ~Traverses(f)
  BY <1>0, <1>1 DEF Call, Frame, Traverses
<1>5. root # Text => root \in F
  <2>1. root # NoText
    BY <1>2 DEF Addrs, Plain, Whole, Store, NoText, Text
  <2> QED  BY <1>0, <1>1, <1>2, <2>1 DEF Fresh, Untouched
<1>6. Traverses(g) => Due(W, g.node, From(g))'
  <2> SUFFICES ASSUME Traverses(g) PROVE Due(W, root, 1)'
    BY <1>0 DEF AllFrame, From
  <2>1. root \in F /\ Due(W, root, 1)
    BY <1>0, <1>5 DEF AllFrame, Traverses, Owed
  <2>2. heap'[root].kids = heap[root].kids
    BY <1>2, <2>1 DEF Unmoved, Fresh, Untouched
  <2> QED  BY <2>1, <2>2 DEF Due, Place
<1>7. Fresh(F \ {root})'
  BY <1>0, LoadFresh
<1>8. PICK used \in {0, 1} : used = IF root = Text THEN 0 ELSE 1
  OBVIOUS
<1>9. Turns(g)' + 3 <= Pending + 4 * (0 + used)
  <2>1. Pending = 3
    BY <1>1 DEF Pending, Turns
  <2>2. Turns(g)' \in 0 .. 4 /\ (root = Text => Turns(g)' = 0)
    BY <1>0 DEF AllFrame, Turns, IsKind
  <2> QED  BY <1>8, <2>1, <2>2
<1>10. /\ stack # <<>> /\ UNCHANGED web /\ W \subseteq W /\ 0 \in {0, 1} /\ used \in {0, 1}
       /\ \A p \in W \ W : Holds(Top) /\ p[1] = Top.node
       /\ \A b \in DOMAIN heap : heap'[b].kids = heap[b].kids
       /\ Traverses(f) => Due(W, f.node, From(f))'
       /\ used = 1 => root \in F
  BY <1>1, <1>2, <1>4, <1>5, <1>8 DEF Unmoved
<1>11. Cardinality(W) \in Nat /\ Cardinality(W) = Cardinality(W) - 0
  <2>1. Cardinality(W) \in Nat
    BY Sizes
  <2> QED  BY <2>1
<1> QED
  BY ONLY Plain, Fresh(F), W \subseteq Values, Owed(F, W), <1>3, <1>6, <1>7, <1>9, <1>10, <1>11,
          InvokePays

\* The answer to the application is the last step of a call.
LEMMA AnswerPays ==
    ASSUME Plain, NEW F, Fresh(F), NEW W, W \subseteq Values, Owed(F, W), Answer
    PROVE  Pays(F, W)
<1>1. /\ stack = <<>> /\ ret # NoRet /\ ret' = NoRet /\ UNCHANGED <<web, heap, idx, stack>>
  BY DEF Answer, objects, world
<1>2. Fresh(F)'
  BY <1>1, IdleFresh
<1>3. Owed(F, W)'
  BY <1>1 DEF Owed, Due, Place, From
<1>4. Pending = 1 /\ Pending' = 0 /\ Len(stack) = 0 /\ Len(stack') = 0
  BY <1>1 DEF Pending
<1>5. Remaining(F, W)' \in 0 .. Remaining(F, W) - 1
  <2>1. Cardinality(F) \in Nat /\ Cardinality(W) \in Nat
    BY Sizes
  <2> QED  BY <1>4, <2>1 DEF Remaining
<1> QED  BY <1>2, <1>3, <1>5 DEF Pays

LEMMA StepPays ==
    ASSUME Plain, NEW F, Fresh(F), NEW W, W \subseteq Values, Owed(F, W), Step
    PROVE  Pays(F, W)
<1>1. CASE RejectDirective \/ ReturnIndexed \/ Include \/ ReportMissing \/ LoadFails \/ RefResolved
             \/ ReturnScalar \/ Finish \/ Overflow
  BY <1>1, QuietPays
<1>2. CASE OpenSeq \/ OpenMap \/ OpenGraph
  BY <1>2, OpenPays
<1>3. CASE FollowDirective
  BY <1>3, FollowDirectivePays
<1>4. CASE Descend
  BY <1>4, DescendPays
<1>5. CASE ReplaceKid
  BY <1>5, ReplaceKidPays
<1>6. CASE SpliceKids
  BY <1>6, SpliceKidsPays
<1>7. CASE Load
  BY <1>7, LoadPays
<1>8. CASE Answer
  BY <1>8, AnswerPays
<1> QED  BY <1>1, <1>2, <1>3, <1>4, <1>5, <1>6, <1>7, <1>8, NoMixinCalls DEF Step

----------------------------------------------------------------------------
(* The invariant *)

LEMMA LimitOK ==
    ASSUME Plain, NEW F, Fresh(F), NEW W, W \subseteq Values
    PROVE  /\ StepLimit \in Nat /\ Remaining(F, W) \in Nat
           /\ 4 * (Cardinality(W) + Cardinality(F)) + 5 <= StepLimit
<1>1. /\ Cardinality(Values) \in Nat /\ Len(web.heap) \in Nat
      /\ Cardinality(F) \in Nat /\ Cardinality(F) <= Len(web.heap)
      /\ Cardinality(W) \in Nat /\ Cardinality(W) <= Cardinality(Values)
  BY FiniteTexts, Sizes DEF Plain
<1>2. Len(stack) \in Nat /\ Pending \in Nat
  BY LenProperties DEF Plain, Whole, Control, Pending, Turns
<1>3. StepLimit \in Nat /\ 4 * (Cardinality(W) + Cardinality(F)) + 5 <= StepLimit
  BY <1>1 DEF StepLimit
<1>4. Remaining(F, W) \in Nat
  BY <1>1, <1>2 DEF Remaining
<1> QED  BY <1>3, <1>4

\* Whatever was left undone is there for the next call of the application.
LEMMA RequestPaid ==
    ASSUME Plain, Paid, NEW url, Request(url)
    PROVE  Paid'
<1>1. PICK F, W : Fresh(F) /\ W \subseteq Values /\ Owed(F, W)
  BY DEF Paid
<1>2. PICK f : f = RefFrame("string", url, Text, DocUrl(url), {}, TRUE)
  OBVIOUS
<1>3. /\ UNCHANGED <<web, heap, idx>> /\ steps' = 0
      /\ stack' = <<f>> /\ ret' = NoRet
      /\ f.fn = "resolve_ref" /\ f.at = "enter"
  BY <1>2 DEF Request, objects, RefFrame
<1>4. Fresh(F)'
  BY <1>1, RequestFresh
<1>5. Owed(F, W)'
  <2>1. \A a \in F : Due(W, a, 1)'
    BY <1>1, <1>3 DEF Owed, Due, Place
  <2>2. \A i \in DOMAIN stack' : ~Traverses(stack'[i])
    BY <1>3 DEF Traverses
  <2> QED  BY <2>1, <2>2 DEF Owed, Traverses
<1>6. Len(stack') = 1 /\ Pending' = 3
  BY <1>3 DEF Pending, Turns, Top, Last
<1>7. /\ 4 * (Cardinality(W) + Cardinality(F)) + 5 <= StepLimit /\ StepLimit \in Nat
      /\ Cardinality(W) \in Nat /\ Cardinality(F) \in Nat
  BY <1>1, LimitOK, Sizes
<1>8. StepLimit' = StepLimit /\ Values' = Values
  BY <1>3 DEF StepLimit, Values
<1>9. (steps + Remaining(F, W) <= StepLimit)'
  BY <1>3, <1>6, <1>7, <1>8 DEF Remaining
<1> QED  BY <1>1, <1>4, <1>5, <1>8, <1>9 DEF Paid

LEMMA StepPaid ==
    ASSUME Plain, steps \in Nat, Paid, [Next]_vars
    PROVE  Paid'
<1>1. web' = web
  BY SameWeb
<1>2. StepLimit' = StepLimit /\ Values' = Values
  BY <1>1 DEF StepLimit, Values
<1>3. PICK F, W : /\ Fresh(F) /\ W \subseteq Values /\ Owed(F, W)
                  /\ steps + Remaining(F, W) <= StepLimit
  BY DEF Paid
<1>4. StepLimit \in Nat /\ Remaining(F, W) \in Nat
  BY <1>3, LimitOK
<1>5. CASE Step
  <2>1. PICK G, V : /\ Fresh(G)' /\ V \subseteq W /\ Owed(G, V)'
                    /\ Remaining(G, V)' \in 0 .. Remaining(F, W) - 1
    BY <1>3, <1>5, StepPays DEF Pays
  <2>2. steps' \in {steps, steps + 1}
    BY <1>5 DEF Step
  <2>3. (steps + Remaining(G, V) <= StepLimit)'
    BY <1>2, <1>3, <1>4, <2>1, <2>2
  <2> QED  BY <1>2, <1>3, <2>1, <2>3 DEF Paid
<1>6. CASE \E url \in Requests : Request(url)
  BY <1>6, RequestPaid
<1>7. CASE UNCHANGED vars
  <2>1. UNCHANGED <<web, heap, idx, stack, ret, steps>>
    BY <1>7 DEF vars
  <2>2. Fresh(F)'
    BY <1>3, <2>1, IdleFresh
  <2>3. Owed(F, W)'
    BY <1>3, <2>1 DEF Owed, Due, Place, From
  <2>4. Remaining(F, W)' = Remaining(F, W)
    BY <2>1 DEF Remaining, Pending, Turns, Top, IsKind
  <2> QED  BY <1>2, <1>3, <2>1, <2>2, <2>3, <2>4 DEF Paid
<1> QED  BY <1>5, <1>6, <1>7 DEF Next

\* At first nothing is done, and everything that was written is left.
LEMMA InitPaid ==
    ASSUME Init, TreeShaped(web), ~Mixes
    PROVE  Paid
<1>1. Plain
  BY InitOK, InitTraversal DEF Plain, Traversal
<1>2. PICK F : Fresh(F)
  BY InitTraversal DEF Traversal
<1>3. Owed(F, Values)
  <2>1. ASSUME NEW a \in F, NEW i \in DOMAIN heap[a].kids
        PROVE  Place(a, i) \in Values
    <3>1. a \in DOMAIN heap /\ heap = web.heap
      BY <1>2, <2>1 DEF Fresh, Untouched, Init
    <3>2. heap[a].kids \in Seq(Addrs)
      BY <1>1, <3>1 DEF Plain, Whole, Store, Node
    <3>3. /\ DOMAIN heap[a].kids = 1 .. Len(heap[a].kids) /\ Len(heap[a].kids) \in Nat
      BY <3>2, LenProperties
    <3>4. Len(heap[a].kids) - i + 1 \in DOMAIN web.heap[a].kids
      <4>1. Len(heap[a].kids) - i + 1 \in DOMAIN heap[a].kids
        BY <3>3
      <4> QED  BY <3>1, <4>1
    <3> QED  BY <3>1, <3>4 DEF Place, Values
  <2>2. DOMAIN stack = {}
    BY DEF Init
  <2> QED  BY <2>1, <2>2 DEF Owed, Due
<1>4. Len(stack) = 0 /\ Pending = 0 /\ steps = 0
  BY DEF Init, Pending
<1>5. /\ 4 * (Cardinality(Values) + Cardinality(F)) + 5 <= StepLimit /\ StepLimit \in Nat
      /\ Cardinality(Values) \in Nat /\ Cardinality(F) \in Nat
  BY <1>1, <1>2, LimitOK, Sizes
<1>6. steps + Remaining(F, Values) <= StepLimit
  BY <1>4, <1>5 DEF Remaining
<1> QED  BY <1>2, <1>3, <1>6 DEF Paid

\* In texts without aliases and without mixins a call of the application takes no more than four
\* steps for each object and each value that was written, and five more: neither the recursion of
\* resolve_ref and resolve_all nor a loop over a list that grows while it is traversed goes on for
\* ever, through every import cycle and whatever earlier calls and exceptions left half resolved.
\* (One step may not end, the splice of a list into itself, which the model leaves out: Endless.)
THEOREM EveryCallIsShort ==
    ASSUME \A w \in Webs : TreeShaped(w)
    PROVE  Spec => []CallsAreShort
<1> DEFINE Inv == /\ Whole /\ TreeShaped(web) /\ steps \in Nat
                  /\ Mixes \/ (Bodies /\ Paid)
<1>1. Init => Inv
  <2> SUFFICES ASSUME Init PROVE Inv
    OBVIOUS
  <2>1. TreeShaped(web) /\ steps \in Nat
    BY DEF Init
  <2>2. Whole /\ Bodies
    BY <2>1, InitOK, InitTraversal DEF Traversal
  <2> QED  BY <2>1, <2>2, InitPaid
<1>2. Inv /\ [Next]_vars => Inv'
  <2> SUFFICES ASSUME Inv, [Next]_vars PROVE Inv'
    OBVIOUS
  <2>1. web' = web
    BY SameWeb
  <2>2. Whole' /\ TreeShaped(web)' /\ (Mixes' <=> Mixes) /\ steps' \in Nat
    BY <2>1, NextOK, Ticks DEF TreeShaped, Mixes
  <2>3. ~Mixes => Bodies'
    BY BodiesKept DEF Plain, Paid
  <2>4. ~Mixes => Paid'
    BY StepPaid DEF Plain
  <2> QED  BY <2>2, <2>3, <2>4
<1>3. Inv => CallsAreShort
  <2> SUFFICES ASSUME Inv, ~Mixes PROVE steps <= StepLimit
    BY DEF CallsAreShort
  <2>1. PICK F, W : Fresh(F) /\ W \subseteq Values /\ steps + Remaining(F, W) <= StepLimit
    BY DEF Paid
  <2>2. StepLimit \in Nat /\ Remaining(F, W) \in Nat
    BY <2>1, LimitOK DEF Plain
  <2> QED  BY <2>1, <2>2
<1> QED  BY <1>1, <1>2, <1>3, PTL DEF Spec

=============================================================================
