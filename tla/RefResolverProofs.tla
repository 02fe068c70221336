------------------------- MODULE RefResolverProofs -------------------------
(***************************************************************************)
(* Proofs about RefResolver, for every set of documents, every web and     *)
(* every bound.                                                            *)
(***************************************************************************)
EXTENDS RefResolver, SequenceTheorems, TLAPS

----------------------------------------------------------------------------
(* Sequences: what pushing and popping a call does to a stack over F. *)

\* Popping the innermost call leaves a stack of the calls below it.
LEMMA PopStack ==
    ASSUME NEW F, NEW s \in Seq(F), s # <<>>
    PROVE  /\ Len(s) \in Nat \ {0}
           /\ Last(s) \in F
           /\ Front(s) \in Seq(F)
           /\ Len(Front(s)) = Len(s) - 1
           /\ \A i \in 1 .. Len(s) - 1 : Front(s)[i] = s[i]
<1>1. Len(s) \in Nat \ {0}
  BY EmptySeq
<1>2. \A i \in 1 .. Len(s) : s[i] \in F
  BY ElementOfSeq
<1>3. Last(s) \in F
  BY <1>1, <1>2 DEF Last
<1> DEFINE n == Len(s) - 1
<1>4. n \in Nat /\ 1 \in Int /\ n \in Int /\ \A i \in 1 .. n : s[i] \in F
  BY <1>1, <1>2
<1>5. /\ Front(s) \in Seq(F)
      /\ Len(Front(s)) = n
      /\ \A i \in 1 .. n : Front(s)[i] = s[i]
  <2> HIDE DEF n
  <2>1. /\ SubSeq(s, 1, n) \in Seq(F)
        /\ Len(SubSeq(s, 1, n)) = (IF 1 <= n THEN n - 1 + 1 ELSE 0)
        /\ \A i \in 1 .. n - 1 + 1 : SubSeq(s, 1, n)[i] = s[1 + i - 1]
    BY <1>4, SubSeqProperties
  <2>2. Len(SubSeq(s, 1, n)) = n
    BY <1>4, <2>1
  <2>3. n - 1 + 1 = n /\ \A i \in 1 .. n : 1 + i - 1 = i
    BY <1>4
  <2>4. \A i \in 1 .. n : SubSeq(s, 1, n)[i] = s[i]
    BY <2>1, <2>3
  <2>5. Front(s) = SubSeq(s, 1, n)
    BY DEF Front, n
  <2> QED  BY <2>1, <2>2, <2>4, <2>5
<1> QED  BY <1>1, <1>3, <1>5

\* Replacing the innermost call, and calling from it, keep a stack a stack over F.
LEMMA PushStack ==
    ASSUME NEW F, NEW s \in Seq(F), s # <<>>, NEW f \in F, NEW g \in F
    PROVE  /\ Append(Front(s), f) \in Seq(F)
           /\ Append(Append(Front(s), f), g) \in Seq(F)
  BY PopStack, AppendProperties

\* The outermost call alone is a stack.
LEMMA OneCall ==
    ASSUME NEW F, NEW f \in F
    PROVE  <<f>> \in Seq(F)
  OBVIOUS

----------------------------------------------------------------------------
(* URLs *)

\* A relative identifier or reference becomes absolute below an absolute base.
LEMMA ExpandAbs ==
    ASSUME NEW u \in Url, NEW base \in AbsUrl
    PROVE  /\ ExpandId(u, base) \in AbsUrl
           /\ ExpandRef(u, base) \in AbsUrl
           /\ DocUrl(base) \in AbsUrl
<1>1. /\ u.frag \in Seq(Names) /\ base.frag \in Seq(Names)
      /\ base.doc \in Docs /\ (u.doc # Here => u.doc \in Docs)
      /\ u = [doc |-> u.doc, frag |-> u.frag]
      /\ base = [doc |-> base.doc, frag |-> base.frag]
  BY DEF Url, AbsUrl
<1>2. base.frag \o u.frag \in Seq(Names)
  BY <1>1, ConcatProperties
<1>3. ExpandId(u, base) \in AbsUrl
  BY <1>1, <1>2 DEF ExpandId, AbsUrl
<1>4. ExpandRef(u, base) \in AbsUrl
  BY <1>1 DEF ExpandRef, AbsUrl
<1>5. DocUrl(base) \in AbsUrl
  BY <1>1, EmptySeq DEF DocUrl, AbsUrl
<1> QED  BY <1>3, <1>4, <1>5

\* Every absolute URL is a URL, and NoUrl is none.
LEMMA AbsIsUrl == AbsUrl \subseteq Url /\ NoUrl \notin AbsUrl
  BY UrlAssumption DEF Url, AbsUrl

----------------------------------------------------------------------------
(* StoreOK, taken apart into what the stack, the store, the index and the counters owe it. *)

Call == {f \in Frame(Addrs) : FrameOK(f)}

Control == /\ stack \in Seq(Call)
           /\ ret \in {NoRet} \union Addrs
           /\ result \in Results
           /\ broken \in BOOLEAN

Store == /\ WebOK(web)
         /\ heap \in [DOMAIN heap -> Node(Addrs)]
         /\ DOMAIN web.heap \subseteq DOMAIN heap /\ DOMAIN heap \subseteq 1 .. space
         /\ space \in Nat
         /\ WellFormed(heap)

Index == DOMAIN idx \subseteq AbsUrl /\ \A u \in DOMAIN idx : idx[u] \in Addrs

Counters == /\ notes \subseteq {"import", "include"} \X AbsUrl
            /\ calls \in 0 .. MaxCalls
            /\ faults \in 0 .. MaxFaults
            /\ fetched \in [Docs -> Nat]

\* The objects of the store stay, and none changes its kind.
Kept == /\ DOMAIN heap \subseteq DOMAIN heap'
        /\ \A a \in DOMAIN heap : heap'[a].kind = heap[a].kind

\* The parts together are the invariant.
LEMMA Parts == StoreOK <=> Control /\ Store /\ Index /\ Counters /\ steps \in Nat
<1>1. ASSUME stack \in Seq(Frame(Addrs)), FramesOK
      PROVE  stack \in Seq(Call)
  <2>1. /\ Len(stack) \in Nat
        /\ stack \in [1 .. Len(stack) -> Frame(Addrs)]
        /\ DOMAIN stack = 1 .. Len(stack)
    BY <1>1, LenProperties
  <2>2. stack \in [1 .. Len(stack) -> Call]
    BY <2>1, <1>1 DEF FramesOK, Call
  <2> QED  BY <2>1, <2>2, SeqDef
<1>2. ASSUME stack \in Seq(Call)
      PROVE  stack \in Seq(Frame(Addrs)) /\ FramesOK
  <2>1. Call \subseteq Frame(Addrs)
    BY DEF Call
  <2>2. stack \in Seq(Frame(Addrs))
    BY <1>2, <2>1, SeqMonotonic
  <2>3. \A i \in DOMAIN stack : stack[i] \in Call
    BY <1>2, LenProperties, ElementOfSeq
  <2> QED  BY <2>2, <2>3 DEF FramesOK, Call
<1> QED
  BY <1>1, <1>2 DEF StoreOK, TypeOK, Control, Store, Index, Counters

\* What holds of a call, an address or a result still holds while objects are kept.
LEMMA KeptCalls ==
    ASSUME Store, Kept
    PROVE  /\ Addrs \subseteq Addrs'
           /\ Call \subseteq Call'
           /\ Results \subseteq Results'
           /\ \A a \in Addrs : \A K : IsKind(a, K) => IsKind(a, K)'
<1>1. Addrs \subseteq Addrs'
  BY DEF Kept, Addrs
<1>2. \A a \in Addrs : \A K : IsKind(a, K) => IsKind(a, K)'
  BY DEF Kept, Addrs, IsKind
<1>3. Results \subseteq Results'
  BY <1>1 DEF Results
<1>4. ASSUME NEW f \in Call PROVE f \in Call'
  <2>1. f \in Frame(Addrs) /\ FrameOK(f)
    BY DEF Call
  <2>2. f.node \in Addrs
    BY <2>1 DEF Frame
  <2>3. f \in Frame(Addrs)'
    BY <2>1, <1>1 DEF Frame
  <2>4. FrameOK(f)'
    BY <2>1, <2>2, <1>2 DEF FrameOK
  <2> QED  BY <2>3, <2>4 DEF Call
<1> QED  BY <1>1, <1>2, <1>3, <1>4

----------------------------------------------------------------------------
(* Returns, exceptions and calls *)

LEMMA ReturnOK ==
    ASSUME Control, Store, Kept, stack # <<>>, NEW v \in Addrs', Return(v)
    PROVE  Control'
<1>1. stack' \in Seq(Call)
  BY PopStack DEF Return, Control
<1>2. stack' \in Seq(Call')
  BY <1>1, KeptCalls, SeqMonotonic
<1> QED  BY <1>2, KeptCalls DEF Control, Return

LEMMA RaiseOK ==
    ASSUME Control, Store, Kept,
           NEW status \in {"invalid", "crash", "overflow"}, Raise(status)
    PROVE  Control'
<1>1. result.url \in AbsUrl \union {NoUrl}
  BY DEF Control, Results
<1>2. result' \in Results'
  BY <1>1 DEF Raise, Results, Addrs
<1> QED  BY <1>2, EmptySeq DEF Control, Raise

LEMMA BecomeOK ==
    ASSUME Control, Store, Kept, stack # <<>>, NEW f \in Call', Become(f)
    PROVE  Control'
<1>1. stack \in Seq(Call')
  BY KeptCalls, SeqMonotonic DEF Control
<1>2. stack' \in Seq(Call')
  BY <1>1, PushStack DEF Become
<1> QED  BY <1>2, KeptCalls DEF Control, Become

LEMMA InvokeOK ==
    ASSUME Control, Store, Kept, stack # <<>>, NEW f \in Call', NEW g \in Call', Invoke(f, g)
    PROVE  Control'
<1>1. stack \in Seq(Call')
  BY KeptCalls, SeqMonotonic DEF Control
<1>2. stack' \in Seq(Call')
  BY <1>1, PushStack DEF Invoke
<1> QED  BY <1>2, KeptCalls DEF Control, Invoke

\* The innermost call is a call.
LEMMA TopOK ==
    ASSUME Control, stack # <<>>
    PROVE  Top \in Call
  BY PopStack DEF Control, Top

----------------------------------------------------------------------------
(* New calls *)

LEMMA RefFrameOK ==
    ASSUME NEW mode \in Modes, NEW url \in AbsUrl, NEW node \in Addrs, NEW base \in AbsUrl,
           NEW ns \in SUBSET Namespaces, NEW check \in BOOLEAN,
           mode # "string" => IsKind(node, Directives)
    PROVE  RefFrame(mode, url, node, base, ns, check) \in Call
  BY DEF RefFrame, Call, Frame, FrameOK

LEMMA AllFrameOK ==
    ASSUME NEW node, NEW base \in AbsUrl, NEW file \in AbsUrl,
           NEW ns \in SUBSET Namespaces, NEW check \in BOOLEAN
    PROVE  /\ node \in Addrs => AllFrame(node, base, file, ns, check) \in Call
           /\ node \in Addrs' => AllFrame(node, base, file, ns, check) \in Call'
  BY DEF AllFrame, Call, Frame, FrameOK, Modes

\* A directive node has an argument, and the reference it makes is absolute.
LEMMA DirectiveFrameOK ==
    ASSUME Store, NEW node \in Addrs, IsKind(node, Directives), NEW base \in AbsUrl,
           NEW ns \in SUBSET Namespaces, NEW check \in BOOLEAN
    PROVE  DirectiveFrame(node, base, ns, check) \in Call
<1>1. node \in DOMAIN heap /\ heap[node].kind \in Directives
  BY DEF IsKind, Addrs
<1>2. heap[node] \in Node(Addrs) /\ heap[node].ref # NoUrl
  BY <1>1 DEF Store, WellFormed
<1>3. heap[node].ref \in Url
  BY <1>2 DEF Node
<1>4. ExpandRef(heap[node].ref, base) \in AbsUrl
  BY <1>3, ExpandAbs
<1>5. heap[node].kind \in Modes
  BY <1>1 DEF Modes
<1> QED  BY <1>4, <1>5, RefFrameOK DEF DirectiveFrame

\* What a call has in hand.
LEMMA CallParts ==
    ASSUME NEW f \in Call
    PROVE  /\ f.mode \in Modes /\ f.url \in AbsUrl /\ f.node \in Addrs /\ f.pos \in Nat
           /\ f.base \in AbsUrl /\ f.file \in AbsUrl /\ f.ns \in SUBSET Namespaces
           /\ f.check \in BOOLEAN
           /\ f.fn = "resolve_all" /\ f.at # "enter" => IsKind(f.node, {"map", "seq"})
           /\ f.fn = "resolve_ref" /\ f.mode # "string" => IsKind(f.node, Directives)
  BY DEF Call, Frame, FrameOK

\* A call that waits for another, or goes on with its loop.
LEMMA AdvanceOK ==
    ASSUME NEW f \in Call, NEW at \in {"wait", "iterate"}, NEW pos \in Nat,
           f.fn = "resolve_all" => IsKind(f.node, {"map", "seq"})
    PROVE  /\ [f EXCEPT !.at = at] \in Call
           /\ [f EXCEPT !.at = at, !.pos = pos] \in Call
  BY DEF Call, Frame, FrameOK

\* A container in hand is an object of the store.
LEMMA InHand ==
    ASSUME NEW a \in Addrs, NEW K, IsKind(a, K)
    PROVE  a \in DOMAIN heap /\ heap[a].kind \in K
  BY DEF IsKind, Addrs

\* $graph stands for the list below it.
LEMMA UnwrapOK ==
    ASSUME Store, NEW a \in Addrs
    PROVE  Unwrap(a) \in Addrs
<1>1. CASE IsKind(a, {"graph"})
  <2>1. a \in DOMAIN heap /\ heap[a].kind = "graph"
    BY <1>1, InHand
  <2>2. heap[a].kids[1] \in DOMAIN heap
    BY <2>1 DEF Store, WellFormed
  <2> QED  BY <1>1, <2>2 DEF Unwrap, Addrs
<1>2. CASE ~IsKind(a, {"graph"})
  BY <1>2 DEF Unwrap
<1> QED  BY <1>1, <1>2

\* A step that leaves the objects alone keeps them.
LEMMA SameObjects ==
    ASSUME Store, UNCHANGED <<web, heap, space>>
    PROVE  Store' /\ Kept
<1>1. Addrs' = Addrs
  BY DEF Addrs
<1>2. Store'
  BY <1>1 DEF Store, WebOK, WellFormed
<1> QED  BY <1>2 DEF Kept

\* So does the index, when it is left alone and objects are kept.
LEMMA SameIndex ==
    ASSUME Store, Index, Kept, UNCHANGED idx
    PROVE  Index'
  BY KeptCalls DEF Index

----------------------------------------------------------------------------
(* The steps that leave the store and the index alone *)

Whole == Control /\ Store /\ Index /\ Counters

\* Nothing but the calls changes.
LEMMA Undisturbed ==
    ASSUME Whole, UNCHANGED <<objects, fetcher, world>>
    PROVE  Store' /\ Kept /\ Index' /\ Counters'
<1>1. UNCHANGED <<web, heap, space, idx, notes, calls, faults, fetched>>
  BY DEF objects, fetcher, world
<1>2. Store' /\ Kept
  BY <1>1, SameObjects DEF Whole
<1>3. Index'
  BY <1>1, <1>2, SameIndex DEF Whole
<1> QED  BY <1>1, <1>2, <1>3 DEF Whole, Counters

LEMMA InitOK == Init => Whole
<1> SUFFICES ASSUME Init PROVE Whole
  OBVIOUS
<1>1. WebOK(web)
  BY WebAssumption DEF Init
<1>2. /\ web.heap \in Seq(Node(0 .. Len(web.heap)))
      /\ DOMAIN web.heap = 1 .. Len(web.heap)
      /\ Len(web.heap) \in Nat
  BY <1>1, LenProperties DEF WebOK
<1>3. Addrs = 0 .. Len(web.heap)
  BY <1>2 DEF Init, Addrs, Text
<1>4. Store
  BY <1>1, <1>2, <1>3, ElementOfSeq DEF Store, Init, WebOK
<1>5. Control
  BY EmptySeq DEF Control, Init, Idle, Results, Addrs
<1>6. Index
  BY DEF Index, Init
<1>7. Counters
  BY BoundAssumption DEF Counters, Init
<1> QED  BY <1>4, <1>5, <1>6, <1>7 DEF Whole

LEMMA RequestOK ==
    ASSUME Whole, NEW url \in Requests, Request(url)
    PROVE  Whole'
<1>1. url \in AbsUrl /\ DocUrl(url) \in AbsUrl
  BY RequestAssumption, AbsIsUrl, ExpandAbs
<1>2. UNCHANGED <<web, heap, space, idx, notes, faults, fetched, ret, broken>>
  BY DEF Request, objects, fetcher
<1>3. Store' /\ Kept
  BY <1>2, SameObjects DEF Whole
<1>4. Index'
  BY <1>2, <1>3, SameIndex DEF Whole
<1>5. calls' \in 0 .. MaxCalls
  BY BoundAssumption DEF Request, Whole, Counters
<1>6. Counters'
  BY <1>2, <1>5 DEF Whole, Counters
<1>7. Addrs' = Addrs
  BY <1>2 DEF Addrs
<1>8. RefFrame("string", url, Text, DocUrl(url), {}, TRUE) \in Call'
  BY <1>1, <1>3, RefFrameOK, KeptCalls DEF Whole, Modes, Addrs
<1>9. stack' \in Seq(Call')
  BY <1>8, OneCall DEF Request
<1>10. result' \in Results'
  BY <1>1 DEF Request, Idle, Results, Addrs
<1>11. Control'
  BY <1>2, <1>7, <1>9, <1>10 DEF Whole, Control
<1> QED  BY <1>3, <1>4, <1>6, <1>11 DEF Whole

LEMMA AnswerOK ==
    ASSUME Whole, Answer
    PROVE  Whole'
<1>1. Store' /\ Kept /\ Index' /\ Counters'
  BY Undisturbed DEF Answer
<1>2. ret \in Addrs' /\ result.url \in AbsUrl \union {NoUrl}
  BY <1>1, KeptCalls DEF Answer, Whole, Control, Results
<1>3. result' \in Results'
  BY <1>2 DEF Answer, Results
<1>4. stack' \in Seq(Call')
  BY <1>1, KeptCalls, SeqMonotonic DEF Answer, Whole, Control
<1> QED  BY <1>1, <1>3, <1>4 DEF Answer, Whole, Control

\* The steps that only return a value or raise, and those that only call.
LEMMA LeaveOK ==
    ASSUME Whole, UNCHANGED <<objects, fetcher, world>>, NEW v \in Addrs, stack # <<>>,
           NEW status \in {"invalid", "crash", "overflow"},
           Return(v) \/ Raise(status)
    PROVE  Whole'
<1>1. Store' /\ Kept /\ Index' /\ Counters'
  BY Undisturbed
<1>2. v \in Addrs'
  BY <1>1, KeptCalls DEF Whole
<1>3. Control'
  BY <1>1, <1>2, ReturnOK, RaiseOK DEF Whole
<1> QED  BY <1>1, <1>3 DEF Whole

LEMMA ReturnsOK ==
    ASSUME Whole,
           RejectDirective \/ ReturnIndexed \/ ReportMissing \/ RefResolved \/ ReturnScalar
             \/ Finish \/ Overflow
    PROVE  Whole'
<1>1. Text \in Addrs
  BY DEF Addrs
<1>2. CASE RejectDirective
  BY <1>1, <1>2, LeaveOK DEF RejectDirective, Running
<1>3. CASE ReturnIndexed
  <2>1. idx[Top.url] \in Addrs
    BY <1>3 DEF ReturnIndexed, Hit, Whole, Index
  <2>2. Unwrap(idx[Top.url]) \in Addrs
    BY <2>1, UnwrapOK DEF Whole
  <2>3. Return(Unwrap(idx[Top.url])) \/ Raise("invalid")
    BY <1>3 DEF ReturnIndexed
  <2> QED  BY <1>3, <2>2, <2>3, LeaveOK DEF ReturnIndexed, Running
<1>4. CASE ReportMissing
  BY <1>1, <1>4, LeaveOK DEF ReportMissing, Running
<1>5. CASE RefResolved
  <2>1. ret \in Addrs /\ stack # <<>>
    BY <1>5 DEF RefResolved, Returned, Whole, Control
  <2>2. CASE Top.mode = "mixin"
    BY <1>5, <2>1, <2>2, UnwrapOK, LeaveOK DEF RefResolved, Whole
  <2>3. CASE Top.mode # "mixin" /\ Top.url \in DOMAIN idx
    <3>1. idx[Top.url] \in Addrs
      BY <2>3 DEF Whole, Index
    <3>2. Unwrap(idx[Top.url]) \in Addrs
      BY <3>1, UnwrapOK DEF Whole
    <3>3. Return(Unwrap(idx[Top.url]))
      BY <1>5, <2>3 DEF RefResolved
    <3> QED  BY <1>5, <2>1, <3>2, <3>3, LeaveOK DEF RefResolved
  <2>4. CASE Top.mode # "mixin" /\ Top.url \notin DOMAIN idx
    BY <1>1, <1>5, <2>1, <2>4, LeaveOK DEF RefResolved
  <2> QED  BY <2>2, <2>3, <2>4
<1>6. CASE ReturnScalar
  BY <1>1, <1>6, LeaveOK DEF ReturnScalar, Running
<1>7. CASE Finish
  <2>1. stack # <<>> /\ Top.node \in Addrs
    BY <1>7, TopOK, CallParts DEF Finish, Running, Whole
  <2>2. Return(Top.node) \/ Raise("crash") \/ Raise("invalid")
    BY <1>7 DEF Finish
  <2>3. UNCHANGED <<objects, fetcher, world>>
    BY <1>7 DEF Finish
  <2> QED  BY <2>1, <2>2, <2>3, LeaveOK
<1>8. CASE Overflow
  <2>1. Control'
    BY <1>8, Undisturbed, RaiseOK DEF Overflow, Whole
  <2> QED  BY <1>8, <2>1, Undisturbed DEF Overflow, Whole
<1> QED  BY <1>2, <1>3, <1>4, <1>5, <1>6, <1>7, <1>8

\* A call in the middle of resolve_ref is there for its reference; its document's URL is one.
LEMMA TopRef ==
    ASSUME Whole, stack # <<>>
    PROVE  /\ Top \in Call /\ Top.url \in AbsUrl /\ DocUrl(Top.url) \in AbsUrl
           /\ Top.url.doc \in Docs /\ DocUrl(Top.url).doc \in Docs
<1>1. Top \in Call /\ Top.url \in AbsUrl
  BY TopOK, CallParts DEF Whole
<1>2. DocUrl(Top.url) \in AbsUrl
  BY <1>1, AbsIsUrl, ExpandAbs
<1> QED  BY <1>1, <1>2 DEF AbsUrl

LEMMA UnavailableOK ==
    ASSUME Whole, NEW d, Unavailable(d)
    PROVE  faults' \in 0 .. MaxFaults
  BY BoundAssumption DEF Unavailable, Whole, Counters

LEMMA IncludeOK ==
    ASSUME Whole, Include
    PROVE  Whole'
<1>1. stack # <<>> /\ Text \in Addrs
  BY DEF Include, Running, Addrs
<1>2. UNCHANGED <<web, heap, space, idx, fetched, calls>>
  BY DEF Include, world
<1>3. Store' /\ Kept
  BY <1>2, SameObjects DEF Whole
<1>4. Index'
  BY <1>2, <1>3, SameIndex DEF Whole
<1>5. notes' \subseteq {"import", "include"} \X AbsUrl
  BY <1>1, TopRef DEF Include, Whole, Counters
<1>6. faults' \in 0 .. MaxFaults
  BY UnavailableOK DEF Include, Retrieved, Whole, Counters
<1>7. Counters'
  BY <1>2, <1>5, <1>6 DEF Whole, Counters
<1>8. Return(Text) \/ Raise("invalid")
  BY DEF Include
<1>9. Text \in Addrs'
  BY DEF Addrs
<1>10. Control'
  BY <1>1, <1>3, <1>8, <1>9, ReturnOK, RaiseOK DEF Whole
<1> QED  BY <1>3, <1>4, <1>7, <1>10 DEF Whole

LEMMA LoadFailsOK ==
    ASSUME Whole, LoadFails
    PROVE  Whole'
<1>2. UNCHANGED <<web, heap, space, idx, notes, fetched, calls>>
  BY DEF LoadFails, world, objects
<1>3. Store' /\ Kept
  BY <1>2, SameObjects DEF Whole
<1>4. Index'
  BY <1>2, <1>3, SameIndex DEF Whole
<1>5. Counters'
  BY <1>2, UnavailableOK DEF LoadFails, Whole, Counters
<1>6. Control'
  BY <1>3, RaiseOK DEF LoadFails, Whole
<1> QED  BY <1>3, <1>4, <1>5, <1>6 DEF Whole

LEMMA FollowDirectiveOK ==
    ASSUME Whole, FollowDirective
    PROVE  Whole'
<1>1. Store' /\ Kept /\ Index' /\ Counters'
  BY Undisturbed DEF FollowDirective
<1>2. stack # <<>> /\ Top \in Call
  BY TopOK DEF FollowDirective, Running, Whole
<1> DEFINE base == IF IsKind(Top.node, {"mixin"}) THEN Top.base ELSE Top.file
<1>3. base \in AbsUrl /\ IsKind(Top.node, Directives)
  BY <1>2, CallParts DEF FollowDirective
<1> HIDE DEF base
<1>4. DirectiveFrame(Top.node, base, Top.ns, Top.check) \in Call
  BY <1>2, <1>3, CallParts, DirectiveFrameOK DEF Whole
<1>5. DirectiveFrame(Top.node, base, Top.ns, Top.check) \in Call'
  BY <1>1, <1>4, KeptCalls DEF Whole
<1>6. Become(DirectiveFrame(Top.node, base, Top.ns, Top.check))
  BY DEF FollowDirective, base
<1>7. Control'
  BY <1>1, <1>2, <1>5, <1>6, BecomeOK DEF Whole
<1> QED  BY <1>1, <1>7 DEF Whole

LEMMA OpenSeqOK ==
    ASSUME Whole, OpenSeq
    PROVE  Whole'
<1>1. Store' /\ Kept /\ Index' /\ Counters'
  BY Undisturbed DEF OpenSeq
<1>2. stack # <<>> /\ Top \in Call
  BY TopOK DEF OpenSeq, Running, Whole
<1>3. IsKind(Top.node, {"map", "seq"})
  BY DEF OpenSeq, IsKind
<1>4. [Top EXCEPT !.at = "iterate", !.pos = 1] \in Call
  BY <1>2, <1>3, AdvanceOK
<1>5. [Top EXCEPT !.at = "iterate", !.pos = 1] \in Call'
  BY <1>1, <1>4, KeptCalls DEF Whole
<1>6. Control'
  BY <1>1, <1>2, <1>5, BecomeOK DEF OpenSeq, Whole
<1> QED  BY <1>1, <1>6 DEF Whole

\* The items of a container in hand are objects of the store, or scalars.
LEMMA KidsOK ==
    ASSUME Store, NEW f \in Call, IsKind(f.node, {"map", "seq"})
    PROVE  /\ f.node \in DOMAIN heap /\ heap[f.node] \in Node(Addrs)
           /\ heap[f.node].kind \in {"map", "seq"}
           /\ Kids(f) \in Seq(Addrs)
           /\ DOMAIN Kids(f) = 1 .. Len(Kids(f)) /\ Len(Kids(f)) \in Nat
           /\ \A i \in DOMAIN Kids(f) : Kids(f)[i] \in Addrs
<1>1. f.node \in DOMAIN heap /\ heap[f.node].kind \in {"map", "seq"}
  BY CallParts, InHand
<1>2. heap[f.node] \in Node(Addrs)
  BY <1>1 DEF Store
<1>3. Kids(f) \in Seq(Addrs)
  BY <1>2 DEF Node, Kids
<1> QED  BY <1>1, <1>2, <1>3, LenProperties, ElementOfSeq

LEMMA DescendOK ==
    ASSUME Whole, Descend
    PROVE  Whole'
<1>1. Store' /\ Kept /\ Index' /\ Counters'
  BY Undisturbed DEF Descend
<1>2. stack # <<>> /\ Top \in Call /\ Top.fn = "resolve_all" /\ Top.at = "iterate"
  BY TopOK DEF Descend, Running, Whole
<1>3. IsKind(Top.node, {"map", "seq"})
  BY <1>2, CallParts
<1> DEFINE kid == Kids(Top)[Top.pos]
           callee == IF Spliceable(Top) THEN DirectiveFrame(kid, Top.file, Top.ns, FALSE)
                     ELSE AllFrame(kid, Top.base, Top.file, Top.ns, FALSE)
<1>4. kid \in Addrs
  BY <1>2, <1>3, KidsOK DEF Descend, More, Whole
<1>5. Spliceable(Top) => IsKind(kid, Directives)
  BY DEF Spliceable, IsKind, Directives
<1>6. Top.file \in AbsUrl /\ Top.base \in AbsUrl /\ Top.ns \in SUBSET Namespaces
  BY <1>2, CallParts
<1>7. callee \in Call
  <2> HIDE DEF kid
  <2>1. Spliceable(Top) => DirectiveFrame(kid, Top.file, Top.ns, FALSE) \in Call
    BY <1>4, <1>5, <1>6, DirectiveFrameOK DEF Whole
  <2>2. AllFrame(kid, Top.base, Top.file, Top.ns, FALSE) \in Call
    BY <1>4, <1>6, AllFrameOK
  <2> QED  BY <2>1, <2>2
<1>8. [Top EXCEPT !.at = "wait"] \in Call
  BY <1>2, <1>3, AdvanceOK
<1>9. Invoke([Top EXCEPT !.at = "wait"], callee)
  BY DEF Descend
<1> HIDE DEF callee
<1>10. callee \in Call' /\ [Top EXCEPT !.at = "wait"] \in Call'
  BY <1>1, <1>7, <1>8, KeptCalls DEF Whole
<1>11. Control'
  BY <1>1, <1>2, <1>9, <1>10, InvokeOK DEF Whole
<1> QED  BY <1>1, <1>11 DEF Whole

----------------------------------------------------------------------------
(* The steps that rewrite an object *)

\* What a store is, of any function from addresses to objects.
HeapOK(h) == h \in [DOMAIN h -> Node(DOMAIN h \union {Text})] /\ WellFormed(h)

\* An object may change its fields, not its kind; a $graph keeps its list.
LEMMA UpdateHeap ==
    ASSUME NEW h, HeapOK(h), NEW a \in DOMAIN h, NEW n \in Node(DOMAIN h \union {Text}),
           n.kind = h[a].kind, n.kind \in Directives => n.ref # NoUrl,
           n.kind = "graph" => n.kids # <<>> /\ n.kids[1] = h[a].kids[1]
    PROVE  LET g == [h EXCEPT ![a] = n]
           IN  HeapOK(g) /\ DOMAIN g = DOMAIN h /\ \A b \in DOMAIN h : g[b].kind = h[b].kind
<1> DEFINE g == [h EXCEPT ![a] = n]
<1>1. /\ DOMAIN g = DOMAIN h /\ g[a] = n /\ \A b \in DOMAIN h \ {a} : g[b] = h[b]
      /\ g \in [DOMAIN h -> Node(DOMAIN h \union {Text})]
  BY DEF HeapOK
<1> HIDE DEF g
<1>2. \A b \in DOMAIN h : g[b].kind = h[b].kind
  BY <1>1
<1>3. WellFormed(g)
  <2> SUFFICES ASSUME NEW b \in DOMAIN h
               PROVE  /\ g[b].kind = "graph" =>
                            g[b].kids # <<>> /\ g[b].kids[1] \in DOMAIN h /\ g[g[b].kids[1]].kind = "seq"
                      /\ g[b].kind \in Directives => g[b].ref # NoUrl
    BY <1>1 DEF WellFormed
  <2>1. /\ h[b].kind = "graph" =>
              h[b].kids # <<>> /\ h[b].kids[1] \in DOMAIN h /\ h[h[b].kids[1]].kind = "seq"
        /\ h[b].kind \in Directives => h[b].ref # NoUrl
    BY DEF HeapOK, WellFormed
  <2>2. CASE b = a
    BY <1>1, <1>2, <2>1, <2>2
  <2>3. CASE b # a
    BY <1>1, <1>2, <2>1, <2>3
  <2> QED  BY <2>2, <2>3
<1> QED  BY <1>1, <1>2, <1>3 DEF HeapOK, g

\* A step that makes a good store of the old one keeps its objects.
LEMMA NewStore ==
    ASSUME Store, HeapOK(heap'), UNCHANGED web, DOMAIN heap \subseteq DOMAIN heap',
           DOMAIN heap' \subseteq 1 .. space', space' \in Nat,
           \A a \in DOMAIN heap : heap'[a].kind = heap[a].kind
    PROVE  Store' /\ Kept
<1>1. heap' \in [DOMAIN heap' -> Node(Addrs')]
  BY DEF HeapOK, Addrs
<1>2. WellFormed(heap)'
  BY DEF HeapOK, WellFormed
<1> QED  BY <1>1, <1>2 DEF Store, WebOK, WellFormed, Kept

LEMMA UpdateNode ==
    ASSUME Store, NEW a \in DOMAIN heap, NEW n \in Node(Addrs),
           n.kind = heap[a].kind, n.kind \in Directives => n.ref # NoUrl,
           n.kind = "graph" => n.kids = heap[a].kids,
           heap' = [heap EXCEPT ![a] = n], UNCHANGED <<web, space>>
    PROVE  Store' /\ Kept
<1>1. HeapOK(heap) /\ Addrs = DOMAIN heap \union {Text}
  BY DEF Store, HeapOK, Addrs
<1>2. n.kind = "graph" => n.kids # <<>> /\ n.kids[1] = heap[a].kids[1]
  BY DEF Store, WellFormed
<1>3. /\ HeapOK(heap') /\ DOMAIN heap' = DOMAIN heap
      /\ \A b \in DOMAIN heap : heap'[b].kind = heap[b].kind
  BY <1>1, <1>2, UpdateHeap
<1> QED  BY <1>3, NewStore DEF Store

\* A container whose items are replaced.
LEMMA RefillOK ==
    ASSUME Whole, stack # <<>>, IsKind(Top.node, {"map", "seq"}),
           NEW kids \in Seq(Addrs), NEW pos \in Nat,
           heap' = [heap EXCEPT ![Top.node].kids = kids],
           Become([Top EXCEPT !.at = "iterate", !.pos = pos]),
           UNCHANGED <<space, idx, notes, fetcher, world>>
    PROVE  Whole'
<1>1. Top \in Call /\ Top.node \in DOMAIN heap /\ heap[Top.node] \in Node(Addrs)
      /\ heap[Top.node].kind \in {"map", "seq"}
  BY TopOK, KidsOK DEF Whole
<1> DEFINE n == [heap[Top.node] EXCEPT !.kids = kids]
<1>2. /\ n \in Node(Addrs) /\ n.kind = heap[Top.node].kind
      /\ n.kind \notin Directives /\ n.kind # "graph"
  BY <1>1 DEF Node, Directives
<1>3. heap' = [heap EXCEPT ![Top.node] = n]
  OBVIOUS
<1> HIDE DEF n
<1>4. UNCHANGED <<web, space, idx, notes, calls, faults, fetched>>
  BY DEF fetcher, world
<1>5. Store' /\ Kept
  BY <1>1, <1>2, <1>3, <1>4, UpdateNode DEF Whole
<1>6. Index' /\ Counters'
  BY <1>4, <1>5, SameIndex DEF Whole, Counters
<1>7. [Top EXCEPT !.at = "iterate", !.pos = pos] \in Call'
  BY <1>1, <1>5, AdvanceOK, KeptCalls DEF Whole
<1>8. Control'
  BY <1>5, <1>7, BecomeOK DEF Whole
<1> QED  BY <1>5, <1>6, <1>8 DEF Whole

\* The loop of a call that waits is over the items of a container, and it is at one of them.
LEMMA InLoop ==
    ASSUME Whole, Returned("resolve_all"), More(Top)
    PROVE  /\ stack # <<>> /\ Top \in Call /\ IsKind(Top.node, {"map", "seq"})
           /\ ret \in Addrs
           /\ Kids(Top) \in Seq(Addrs) /\ Len(Kids(Top)) \in Nat
           /\ Top.pos \in 1 .. Len(Kids(Top))
           /\ Kids(Top) = heap[Top.node].kids
<1>1. stack # <<>> /\ Top \in Call /\ ret \in Addrs
  BY TopOK DEF Returned, Whole, Control
<1>2. IsKind(Top.node, {"map", "seq"})
  BY <1>1, CallParts DEF Returned
<1> QED  BY <1>1, <1>2, KidsOK DEF More, Whole, Kids

LEMMA ReplaceKidOK ==
    ASSUME Whole, ReplaceKid
    PROVE  Whole'
<1>1. Returned("resolve_all") /\ More(Top)
  BY DEF ReplaceKid
<1> DEFINE kids == [Kids(Top) EXCEPT ![Top.pos] = ret]
<1>2. kids \in Seq(Addrs)
  BY <1>1, InLoop, LenProperties, SeqDef
<1>3. heap' = [heap EXCEPT ![Top.node].kids = kids]
  BY DEF ReplaceKid, Kids
<1>4. Top.pos + 1 \in Nat
  BY <1>1, InLoop
<1>5. Become([Top EXCEPT !.at = "iterate", !.pos = Top.pos + 1])
  BY DEF ReplaceKid
<1>6. UNCHANGED <<space, idx, notes, fetcher, world>>
  BY DEF ReplaceKid
<1> QED  BY <1>1, <1>2, <1>3, <1>4, <1>5, <1>6, InLoop, RefillOK

LEMMA SpliceKidsOK ==
    ASSUME Whole, SpliceKids
    PROVE  Whole'
<1>1. Returned("resolve_all") /\ More(Top)
  BY DEF SpliceKids
<1> DEFINE kids == Kids(Top)
           new  == IF ret = Top.node THEN <<>> ELSE heap[ret].kids
           all  == SubSeq(kids, 1, Top.pos - 1) \o new \o SubSeq(kids, Top.pos + 1, Len(kids))
<1>2. ret \in DOMAIN heap
  BY <1>1, InLoop, InHand DEF SpliceKids, Splices
<1>3. heap[ret].kids \in Seq(Addrs)
  BY <1>2 DEF Whole, Store, Node
<1>4. new \in Seq(Addrs) /\ Len(new) \in Nat
  BY <1>3, EmptySeq, LenProperties
<1>5. kids \in Seq(Addrs) /\ Len(kids) \in Nat /\ Top.pos \in 1 .. Len(kids)
  BY <1>1, InLoop
<1> HIDE DEF kids, new
<1>6. \A m, k \in Int : 1 <= m /\ k <= Len(kids) => SubSeq(kids, m, k) \in Seq(Addrs)
  <2> TAKE m, k \in Int
  <2> HAVE 1 <= m /\ k <= Len(kids)
  <2>1. \A i \in m .. k : kids[i] \in Addrs
    BY <1>5, ElementOfSeq
  <2> QED  BY <2>1, SubSeqProperties
<1>7. /\ SubSeq(kids, 1, Top.pos - 1) \in Seq(Addrs)
      /\ SubSeq(kids, Top.pos + 1, Len(kids)) \in Seq(Addrs)
  BY <1>5, <1>6
<1>8. all \in Seq(Addrs)
  BY <1>4, <1>7, ConcatProperties
<1>9. Top.pos + Len(new) \in Nat
  BY <1>4, <1>5
<1>10. /\ heap' = [heap EXCEPT ![Top.node].kids = all]
       /\ Become([Top EXCEPT !.at = "iterate", !.pos = Top.pos + Len(new)])
  BY DEF SpliceKids, After, kids, new
<1>11. UNCHANGED <<space, idx, notes, fetcher, world>>
  BY DEF SpliceKids
<1> HIDE DEF all
<1> QED  BY <1>1, <1>8, <1>9, <1>10, <1>11, InLoop, RefillOK

\* Identifying an object changes its identifier, and binds the index to it.
LEMMA IdentifiedOK ==
    ASSUME Whole, NEW f \in Call, f.node \in DOMAIN heap
    PROVE  /\ Identified(f).base \in AbsUrl
           /\ DOMAIN Identified(f).idx \subseteq AbsUrl
           /\ \A u \in DOMAIN Identified(f).idx : Identified(f).idx[u] \in Addrs
           /\ \E x \in Url \union {NoUrl} : Identified(f).heap = [heap EXCEPT ![f.node].id = x]
<1> DEFINE n   == heap[f.node]
           base == Based(n, f.base)
           url == ExpandId(n.id, base)
<1>1. /\ n \in Node(Addrs) /\ n.id \in Url \union {NoUrl}
      /\ heap = [heap EXCEPT ![f.node].id = n.id]
  BY DEF Whole, Store, Node
<1>2. base \in AbsUrl /\ f.node \in Addrs
  BY <1>1, CallParts DEF Based, Node
<1>3. Index
  BY DEF Whole
<1>4. CASE n.kind # "seq" /\ n.id # NoUrl
  <2>1. url \in AbsUrl /\ url \in Url
    BY <1>1, <1>2, <1>4, ExpandAbs, AbsIsUrl
  <2>2. Identified(f) = [heap |-> [heap EXCEPT ![f.node].id = url],
                         idx  |-> Bind(idx, url, f.node),
                         base |-> IF n.kind = "map" THEN url ELSE base]
    BY <1>4 DEF Identified
  <2> HIDE DEF url, base
  <2>3. Identified(f).heap = [heap EXCEPT ![f.node].id = url] /\ Identified(f).base \in AbsUrl
    BY <2>1, <2>2, <1>2
  <2>4. Identified(f).idx = Bind(idx, url, f.node)
    BY <2>2
  <2>5. /\ DOMAIN Bind(idx, url, f.node) \subseteq AbsUrl
        /\ \A u \in DOMAIN Bind(idx, url, f.node) : Bind(idx, url, f.node)[u] \in Addrs
    BY <1>2, <1>3, <2>1 DEF Bind, Index
  <2> QED  BY <2>1, <2>3, <2>4, <2>5
<1>5. CASE ~(n.kind # "seq" /\ n.id # NoUrl)
  <2>1. Identified(f) = [heap |-> heap, idx |-> idx, base |-> base]
    BY <1>5 DEF Identified
  <2>2. Identified(f).heap = heap /\ Identified(f).idx = idx /\ Identified(f).base = base
    BY <2>1
  <2>3. DOMAIN idx \subseteq AbsUrl /\ \A u \in DOMAIN idx : idx[u] \in Addrs
    BY <1>3 DEF Index
  <2>4. \E x \in Url \union {NoUrl} : heap = [heap EXCEPT ![f.node].id = x]
    BY <1>1
  <2> HIDE DEF n, url, base
  <2> QED  BY <1>2, <2>2, <2>3, <2>4
<1> QED  BY <1>4, <1>5

\* The namespaces in force below an object.
LEMMA ScopeOK ==
    ASSUME Whole, NEW f \in Call, f.node \in DOMAIN heap
    PROVE  Scope(f) \in SUBSET Namespaces
  BY CallParts DEF Scope, Whole, Store, Node

\* Symbols are indexed below the base URL.
LEMMA SymbolsOK ==
    ASSUME Store, NEW n \in Node(Addrs), NEW base \in AbsUrl, NEW index,
           DOMAIN index \subseteq AbsUrl, \A u \in DOMAIN index : index[u] \in Addrs
    PROVE  /\ DOMAIN Symbols(n, base, index) \subseteq AbsUrl
           /\ \A u \in DOMAIN Symbols(n, base, index) : Symbols(n, base, index)[u] \in Addrs
<1>1. n.syms \subseteq Seq(Names)
  BY DEF Node
<1>2. \A t \in n.syms : [base EXCEPT !.frag = @ \o t] \in AbsUrl
  <2> TAKE t \in n.syms
  <2>1. base.frag \in Seq(Names) /\ t \in Seq(Names) /\ base.doc \in Docs
    BY <1>1 DEF AbsUrl
  <2>2. base.frag \o t \in Seq(Names)
    BY <2>1, ConcatProperties
  <2> QED  BY <2>2 DEF AbsUrl
<1>3. Text \in Addrs
  BY DEF Addrs
<1> QED  BY <1>2, <1>3 DEF Symbols

LEMMA OpenMapOK ==
    ASSUME Whole, OpenMap
    PROVE  Whole'
<1>1. stack # <<>> /\ Top \in Call /\ Top.node \in DOMAIN heap /\ heap[Top.node].kind = "map"
  BY TopOK, CallParts, InHand DEF OpenMap, Running, Whole
<1> DEFINE i  == Identified(Top)
           ns == Scope(Top)
           o  == heap[Top.node]
<1>2. /\ i.base \in AbsUrl /\ DOMAIN i.idx \subseteq AbsUrl
      /\ \A u \in DOMAIN i.idx : i.idx[u] \in Addrs
  BY <1>1, IdentifiedOK
<1>3. PICK x \in Url \union {NoUrl} : i.heap = [heap EXCEPT ![Top.node].id = x]
  BY <1>1, IdentifiedOK
<1>4. ns \in SUBSET Namespaces
  BY <1>1, ScopeOK
<1>5. /\ heap' = Normalized(i.heap, Top.node, i.base, ns)
      /\ idx' = Symbols(o, i.base, i.idx)
      /\ Become([Top EXCEPT !.at = "iterate", !.pos = 1, !.base = i.base, !.ns = ns])
      /\ UNCHANGED <<web, space, notes, calls, faults, fetched>>
  BY DEF OpenMap, fetcher, world
<1> HIDE DEF i, ns
<1> DEFINE n == [o EXCEPT !.id = x, !.links = {ExpandRef(l, i.base) : l \in o.links},
                          !.bound = o.bound \union (o.uses \intersect ns)]
<1>6. o \in Node(Addrs) /\ \A l \in o.links : ExpandRef(l, i.base) \in Url
  <2>1. o \in Node(Addrs) /\ o.links \subseteq Url
    BY <1>1 DEF Whole, Store, Node
  <2> QED  BY <2>1, <1>2, ExpandAbs, AbsIsUrl
<1>7. heap' = [heap EXCEPT ![Top.node] = n]
  <2> DEFINE p     == i.heap[Top.node]
             links == {ExpandRef(l, i.base) : l \in p.links}
             bound == p.bound \union (p.uses \intersect ns)
  <2>1. p = [o EXCEPT !.id = x] /\ p.links = o.links /\ p.bound = o.bound /\ p.uses = o.uses
    BY <1>1, <1>3, <1>6 DEF Node
  <2>2. links = {ExpandRef(l, i.base) : l \in o.links}
    BY <2>1
  <2>3. heap' = [[i.heap EXCEPT ![Top.node].links = links] EXCEPT ![Top.node].bound = bound]
    BY <1>1, <1>3, <1>5, <2>1 DEF Normalized, Node
  <2>4. n = [[[o EXCEPT !.id = x] EXCEPT !.links = links] EXCEPT !.bound = bound]
    BY <1>6, <2>1, <2>2 DEF Node
  <2> HIDE DEF links, bound, n
  <2> QED  BY <1>1, <1>3, <2>1, <2>3, <2>4
<1>8. n \in Node(Addrs) /\ n.kind = "map"
  BY ZenonT(60), <1>1, <1>4, <1>6 DEF Node
<1> HIDE DEF n
<1>9. Store' /\ Kept
  BY <1>1, <1>5, <1>7, <1>8, UpdateNode DEF Whole, Directives
<1>10. Index'
  BY <1>2, <1>5, <1>6, <1>9, SymbolsOK, KeptCalls DEF Index, Whole
<1>11. Counters'
  BY <1>5 DEF Whole, Counters
<1>12. [Top EXCEPT !.at = "iterate", !.pos = 1, !.base = i.base, !.ns = ns] \in Call
  BY <1>1, <1>2, <1>4 DEF Call, Frame, FrameOK, OpenMap, IsKind
<1>13. Control'
  BY <1>1, <1>5, <1>9, <1>12, BecomeOK, KeptCalls DEF Whole
<1> QED  BY <1>9, <1>10, <1>11, <1>13 DEF Whole

LEMMA OpenGraphOK ==
    ASSUME Whole, OpenGraph
    PROVE  Whole'
<1>1. /\ stack # <<>> /\ Top \in Call /\ Top.node \in DOMAIN heap
      /\ heap[Top.node].kind = "graph" /\ Top.fn = "resolve_all"
  BY TopOK, CallParts, InHand DEF OpenGraph, Running, Whole
<1> DEFINE i    == Identified(Top)
           ns   == Scope(Top)
           base == i.base
           list == heap[Top.node].kids[1]
<1>2. /\ DOMAIN i.idx \subseteq AbsUrl
      /\ \A u \in DOMAIN i.idx : i.idx[u] \in Addrs
      /\ base \in AbsUrl
  BY <1>1, IdentifiedOK
<1>3. PICK x \in Url \union {NoUrl} : i.heap = [heap EXCEPT ![Top.node].id = x]
  BY <1>1, IdentifiedOK
<1>4. ns \in SUBSET Namespaces
  BY <1>1, ScopeOK
<1>5. list \in DOMAIN heap /\ heap[list].kind = "seq"
  BY <1>1 DEF Whole, Store, WellFormed
<1>6. /\ heap' = i.heap
      /\ idx' = i.idx
      /\ Become([Top EXCEPT !.at = "iterate", !.pos = 1, !.ns = ns, !.base = base, !.node = list])
      /\ UNCHANGED <<web, space, notes, calls, faults, fetched>>
  BY DEF OpenGraph, fetcher, world
<1> HIDE DEF i, ns, base
<1> DEFINE n == [heap[Top.node] EXCEPT !.id = x]
<1>7. n \in Node(Addrs) /\ n.kind = "graph" /\ n.kids = heap[Top.node].kids
  BY ZenonT(60), <1>1 DEF Node, Whole, Store
<1>8. heap' = [heap EXCEPT ![Top.node] = n]
  BY <1>3, <1>6
<1> HIDE DEF n
<1>9. Store' /\ Kept
  BY <1>1, <1>6, <1>7, <1>8, UpdateNode DEF Whole, Directives
<1>10. Index'
  BY <1>2, <1>6, <1>9, KeptCalls DEF Index, Whole
<1>11. Counters'
  BY <1>6 DEF Whole, Counters
<1>12. list \in Addrs /\ IsKind(list, {"map", "seq"})
  BY <1>5 DEF IsKind, Addrs, Whole, Store, Text
<1> HIDE DEF list
<1>13. [Top EXCEPT !.at = "iterate", !.pos = 1, !.ns = ns, !.base = base, !.node = list] \in Call
  BY <1>1, <1>2, <1>4, <1>12 DEF Call, Frame, FrameOK
<1>14. Control'
  BY <1>1, <1>6, <1>9, <1>13, BecomeOK, KeptCalls DEF Whole
<1> QED  BY <1>9, <1>10, <1>11, <1>14 DEF Whole

----------------------------------------------------------------------------
(* The steps that load a document *)

\* What an index must be.
IndexOf(f) == DOMAIN f \subseteq AbsUrl /\ \A u \in DOMAIN f : f[u] \in Addrs

LEMMA BindOK ==
    ASSUME NEW f, IndexOf(f), NEW u \in AbsUrl, NEW v \in Addrs
    PROVE  IndexOf(Bind(f, u, v)) /\ u \in DOMAIN Bind(f, u, v) /\ Bind(f, u, v)[u] = v
  BY DEF IndexOf, Bind

\* A document that can be retrieved has a root in the store.
LEMMA RootOK ==
    ASSUME Whole, NEW d \in Docs, web.root[d] # NoText
    PROVE  web.root[d] \in Addrs
<1>1. web.root[d] \in 0 .. Len(web.heap) /\ web.heap \in Seq(Node(0 .. Len(web.heap)))
  BY DEF Whole, Store, WebOK
<1>2. DOMAIN web.heap = 1 .. Len(web.heap) /\ Len(web.heap) \in Nat
  BY <1>1, LenProperties
<1> QED  BY <1>1, <1>2 DEF Whole, Store, Addrs, Text

\* fetch() indexes the document, and perhaps the object that its root is.
LEMMA ParsedOK ==
    ASSUME Whole, NEW d \in AbsUrl, NEW a \in Addrs, NEW inject \in BOOLEAN
    PROVE  /\ IndexOf(Parsed(d, a, inject).idx)
           /\ d \in DOMAIN Parsed(d, a, inject).idx
           /\ \/ Parsed(d, a, inject).heap = heap
              \/ inject /\ a \in DOMAIN heap
                    /\ Parsed(d, a, inject).heap = [heap EXCEPT ![a].id = d]
<1>1. IndexOf(idx)
  BY DEF Whole, Index, IndexOf
<1> DEFINE named == inject /\ IsMapping(a)
           anon  == named /\ heap[a].id = NoUrl
           idx1  == IF named /\ ~anon THEN Bind(idx, ExpandId(heap[a].id, d), a) ELSE idx
<1>2. named => a \in DOMAIN heap
  BY DEF IsMapping, Addrs
<1>3. IndexOf(idx1)
  <2>1. CASE named /\ ~anon
    <3>1. heap[a].id \in Url
      BY <1>2, <2>1 DEF Whole, Store, Node
    <3>2. ExpandId(heap[a].id, d) \in AbsUrl
      BY <3>1, ExpandAbs
    <3> QED  BY <1>1, <2>1, <3>2, BindOK
  <2>2. CASE ~(named /\ ~anon)
    BY <1>1, <2>2
  <2> QED  BY <2>1, <2>2
<1>4. Parsed(d, a, inject) = [heap |-> IF anon THEN [heap EXCEPT ![a].id = d] ELSE heap,
                              idx  |-> Bind(idx1, d, a)]
  BY DEF Parsed
<1> HIDE DEF idx1
<1>5. IndexOf(Bind(idx1, d, a)) /\ d \in DOMAIN Bind(idx1, d, a)
  BY <1>3, BindOK
<1>6. Parsed(d, a, inject).idx = Bind(idx1, d, a)
  BY <1>4
<1> QED  BY <1>2, <1>4, <1>5, <1>6

\* The document of a reference that is loaded is in the index and in the store.
LEMMA FetchedOK ==
    ASSUME Whole, stack # <<>>, Retrieve(DocUrl(Top.url))
    PROVE  /\ IndexOf(Fetched(Top).idx)
           /\ DocUrl(Top.url) \in DOMAIN Fetched(Top).idx
           /\ \/ Fetched(Top).heap = heap
              \/ Top.mode # "mixin" /\ \E a \in DOMAIN heap :
                    Fetched(Top).heap = [heap EXCEPT ![a].id = DocUrl(Top.url)]
           /\ faults' \in 0 .. MaxFaults /\ fetched' \in [Docs -> Nat]
<1> DEFINE d == DocUrl(Top.url)
<1>1. d \in AbsUrl /\ d.doc \in Docs
  BY TopRef
<1> HIDE DEF d
<1>2. CASE d \in DOMAIN idx
  <2>1. Fetched(Top) = [heap |-> heap, idx |-> idx]
    BY <1>2 DEF Fetched, d
  <2>2. UNCHANGED fetcher
    BY <1>2 DEF Retrieve, d
  <2> QED  BY <1>2, <2>1, <2>2 DEF Whole, Index, IndexOf, Counters, fetcher, d
<1>3. CASE d \notin DOMAIN idx
  <2>1. Fetched(Top) = Parsed(d, web.root[d.doc], Top.mode # "mixin")
    BY <1>3 DEF Fetched, d
  <2>2. /\ web.root[d.doc] # NoText /\ UNCHANGED faults
        /\ fetched' = [fetched EXCEPT ![d.doc] = @ + 1]
    BY <1>3 DEF Retrieve, Retrieved, d
  <2>3. web.root[d.doc] \in Addrs
    BY <1>1, <2>2, RootOK
  <2>4. faults' \in 0 .. MaxFaults /\ fetched' \in [Docs -> Nat]
    <3>1. faults \in 0 .. MaxFaults /\ fetched \in [Docs -> Nat]
      BY DEF Whole, Counters
    <3>2. fetched[d.doc] + 1 \in Nat
      BY <1>1, <3>1
    <3> QED  BY <1>1, <2>2, <3>1, <3>2
  <2> DEFINE inject == Top.mode # "mixin"
             a      == web.root[d.doc]
             parsed == Parsed(d, a, inject)
  <2>5. inject \in BOOLEAN /\ a \in Addrs /\ Fetched(Top) = parsed
    BY <2>1, <2>3
  <2> HIDE DEF inject, a
  <2>7. /\ IndexOf(parsed.idx) /\ d \in DOMAIN parsed.idx
        /\ \/ parsed.heap = heap
           \/ inject /\ a \in DOMAIN heap /\ parsed.heap = [heap EXCEPT ![a].id = d]
    BY <1>1, <2>5, ParsedOK, Zenon
  <2> HIDE DEF parsed
  <2>6. /\ IndexOf(Fetched(Top).idx) /\ d \in DOMAIN Fetched(Top).idx
        /\ \/ Fetched(Top).heap = heap
           \/ Top.mode # "mixin" /\ web.root[d.doc] \in DOMAIN heap
                 /\ Fetched(Top).heap = [heap EXCEPT ![web.root[d.doc]].id = d]
    BY <2>5, <2>7 DEF inject, a
  <2> QED  BY <2>4, <2>6 DEF d
<1> QED  BY <1>2, <1>3

\* Giving an object an identifier.
LEMMA RenameOK ==
    ASSUME Store, UNCHANGED <<web, space>>, NEW x \in AbsUrl,
           heap' = heap \/ \E a \in DOMAIN heap : heap' = [heap EXCEPT ![a].id = x]
    PROVE  Store' /\ Kept
<1>1. CASE heap' = heap
  BY <1>1, SameObjects
<1>2. ASSUME NEW a \in DOMAIN heap, heap' = [heap EXCEPT ![a].id = x]
      PROVE  Store' /\ Kept
  <2> DEFINE n == [heap[a] EXCEPT !.id = x]
  <2>1. heap[a] \in Node(Addrs) /\ x \in Url
    BY AbsIsUrl DEF Store
  <2>2. /\ n \in Node(Addrs) /\ n.kind = heap[a].kind /\ n.kids = heap[a].kids
        /\ n.ref = heap[a].ref
    BY <2>1 DEF Node
  <2>3. heap' = [heap EXCEPT ![a] = n]
    BY <1>2
  <2>4. n.kind \in Directives => n.ref # NoUrl
    BY <2>2 DEF Store, WellFormed
  <2> HIDE DEF n
  <2> QED  BY <2>2, <2>3, <2>4, UpdateNode
<1> QED  BY <1>1, <1>2

LEMMA LoadOK ==
    ASSUME Whole, Load
    PROVE  Whole'
<1>1. stack # <<>> /\ Top.fn = "resolve_ref" /\ Retrieve(DocUrl(Top.url))
  BY DEF Load, Running
<1> DEFINE d == DocUrl(Top.url)
<1>2. Top \in Call /\ Top.url \in AbsUrl /\ d \in AbsUrl
  BY <1>1, TopRef
<1>3. /\ UNCHANGED <<web, space, calls>> /\ heap' = Fetched(Top).heap /\ idx' = Fetched(Top).idx
      /\ notes' = IF Top.mode = "import" THEN notes \union {<<"import", Top.url>>} ELSE notes
      /\ Invoke([Top EXCEPT !.at = "wait"], AllFrame(idx'[d], d, d, Top.ns, Top.check))
  BY DEF Load, world
<1>4. Store' /\ Kept
  BY <1>1, <1>2, <1>3, FetchedOK, RenameOK DEF Whole
<1>5. IndexOf(idx') /\ d \in DOMAIN idx'
  BY <1>1, <1>3, FetchedOK
<1>6. Index' /\ idx'[d] \in Addrs'
  BY <1>4, <1>5, KeptCalls DEF Index, IndexOf, Whole
<1>7. Counters'
  BY <1>1, <1>2, <1>3, FetchedOK DEF Whole, Counters
<1>8. [Top EXCEPT !.at = "wait"] \in Call'
  BY <1>1, <1>2, <1>4, AdvanceOK, KeptCalls DEF Whole
<1> HIDE DEF d
<1>9. AllFrame(idx'[d], d, d, Top.ns, Top.check) \in Call'
  BY <1>2, <1>6, AllFrameOK, CallParts
<1>10. Control'
  BY <1>1, <1>3, <1>4, <1>8, <1>9, InvokeOK DEF Whole
<1> QED  BY <1>4, <1>6, <1>7, <1>10 DEF Whole

\* The copies lie above all objects and are like them, but for the objects they refer to.
LEMMA CopiedOK ==
    ASSUME Store, NEW seen \in SUBSET DOMAIN heap
    PROVE  LET c == Copied(heap, seen)
           IN  /\ HeapOK(c) /\ DOMAIN heap \subseteq DOMAIN c
               /\ DOMAIN c \subseteq 1 .. 2 * space
               /\ \A a \in DOMAIN heap : c[a] = heap[a]
               /\ \A a \in Addrs : Above(a, seen) \in DOMAIN c \union {Text}
               /\ \A a \in DOMAIN heap : Above(a, seen) \in DOMAIN c
<1> DEFINE new     == {b + space : b \in seen}
           c == [a \in DOMAIN heap \union new |->
                    IF a \in DOMAIN heap THEN heap[a] ELSE Copy(heap[a - space], seen)]
<1>1. /\ DOMAIN heap \subseteq 1 .. space /\ space \in Nat /\ WellFormed(heap)
      /\ \A a \in DOMAIN heap : heap[a] \in Node(Addrs)
  BY DEF Store
<1>2. /\ \A b \in seen : b \in DOMAIN heap /\ b \in 1 .. space
      /\ \A b \in seen : b + space \in new /\ b + space \notin DOMAIN heap
                        /\ b + space - space = b /\ b + space \in 1 .. 2 * space
      /\ \A a \in new : a \notin DOMAIN heap /\ a - space \in seen /\ a \in 1 .. 2 * space
  BY <1>1
<1>3. Copied(heap, seen) = c
  BY DEF Copied
<1>4. /\ DOMAIN c = DOMAIN heap \union new /\ \A a \in DOMAIN heap : c[a] = heap[a]
      /\ \A b \in seen : c[b + space] = Copy(heap[b], seen)
      /\ \A a \in new : \E b \in seen : a = b + space
  <2>1. ASSUME NEW b \in seen
        PROVE  c[b + space] = Copy(heap[b], seen)
    <3>0. b + space \in new /\ b + space \notin DOMAIN heap /\ b + space - space = b
      BY <1>2
    <3>1. PICK a \in Int : a = b + space
      BY <1>1, <1>2
    <3>2. a \in new /\ a \notin DOMAIN heap /\ a - space = b
      <4>1. b \in Int /\ space \in Int
        BY <1>1, <1>2
      <4> HIDE DEF c, new
      <4> QED  BY <3>0, <3>1, <4>1
    <3>3. c[a] = Copy(heap[a - space], seen)
      BY <3>2
    <3> HIDE DEF c
    <3> QED  BY <3>1, <3>2, <3>3
  <2> QED  BY <1>2, <2>1
<1> DEFINE all == DOMAIN heap \union new \union {Text}
<1>5. /\ \A a \in Addrs : Above(a, seen) \in all
      /\ \A a \in DOMAIN heap : Above(a, seen) \in DOMAIN heap \union new
  BY <1>2 DEF Above, Addrs
<1>6. Addrs \subseteq all
  BY DEF Addrs
<1> HIDE DEF c, new, all
<1>7. \A b \in seen : /\ Copy(heap[b], seen) \in Node(all) /\ Copy(heap[b], seen).kind = heap[b].kind
                      /\ Copy(heap[b], seen).ref = heap[b].ref
                      /\ heap[b].kids # <<>> => /\ Copy(heap[b], seen).kids # <<>>
                                               /\ Copy(heap[b], seen).kids[1] = Above(heap[b].kids[1], seen)
  <2> TAKE b \in seen
  <2> DEFINE n == heap[b]
             kids == [i \in DOMAIN n.kids |-> Above(n.kids[i], seen)]
  <2>1. n \in Node(Addrs) /\ n.kids \in Seq(Addrs)
    BY <1>1, <1>2 DEF Node
  <2>2. Len(n.kids) \in Nat /\ DOMAIN n.kids = 1 .. Len(n.kids)
        /\ \A i \in 1 .. Len(n.kids) : n.kids[i] \in Addrs
    BY <2>1, LenProperties, ElementOfSeq
  <2>3. kids \in [1 .. Len(n.kids) -> all]
    BY <2>2, <1>5
  <2>4. kids \in Seq(all)
    BY <2>2, <2>3, SeqDef
  <2>5. n.kids # <<>> => Len(n.kids) > 0
    BY <2>1, <2>2, EmptySeq
  <2>6. n.kids # <<>> => kids # <<>> /\ kids[1] = Above(n.kids[1], seen)
    BY <2>2, <2>3, <2>5
  <2> HIDE DEF kids
  <2>7. [n EXCEPT !.kids = kids] \in Node(all)
    BY <2>1, <2>4 DEF Node
  <2>8. [n EXCEPT !.kids = kids].kids = kids /\ [n EXCEPT !.kids = kids].kind = n.kind
        /\ [n EXCEPT !.kids = kids].ref = n.ref
    BY <2>1 DEF Node
  <2>9. Copy(heap[b], seen) = [n EXCEPT !.kids = kids]
    BY DEF Copy, kids
  <2> QED  BY <2>6, <2>7, <2>8, <2>9
<1>8. \A a \in DOMAIN heap : heap[a] \in Node(all)
  <2> TAKE a \in DOMAIN heap
  <2>1. heap[a] \in Node(Addrs)
    BY <1>1
  <2>2. heap[a].kids \in Seq(all)
    BY <2>1, <1>6, SeqMonotonic DEF Node
  <2> QED  BY <2>1, <2>2 DEF Node
<1>9. c \in [DOMAIN c -> Node(DOMAIN c \union {Text})]
  <2>1. \A a \in DOMAIN c : c[a] \in Node(all)
    BY <1>2, <1>4, <1>7, <1>8
  <2> QED  BY <2>1, <1>4 DEF all, c
<1>10. WellFormed(c)
  <2>0. \A a \in DOMAIN heap : Above(a, seen) \in DOMAIN c /\ c[Above(a, seen)].kind = heap[a].kind
    <3> TAKE a \in DOMAIN heap
    <3>1. CASE a \in seen
      <4>1. Above(a, seen) = a + space
        BY <3>1 DEF Above
      <4>2. c[a + space] = Copy(heap[a], seen)
        BY <1>2, <1>4, <3>1
      <4> QED  BY <4>1, <4>2, <1>2, <1>4, <1>7, <3>1
    <3>2. CASE a \notin seen
      BY <3>2, <1>4 DEF Above
    <3> QED  BY <3>1, <3>2
  <2> SUFFICES ASSUME NEW a \in DOMAIN c
               PROVE  /\ c[a].kind = "graph" =>
                            c[a].kids # <<>> /\ c[a].kids[1] \in DOMAIN c /\ c[c[a].kids[1]].kind = "seq"
                      /\ c[a].kind \in Directives => c[a].ref # NoUrl
    BY DEF WellFormed
  <2>1. CASE a \in DOMAIN heap
    BY <2>1, <1>1, <1>4 DEF WellFormed
  <2>2. CASE a \in new
    <3>1. PICK b \in seen : b \in DOMAIN heap /\ c[a] = Copy(heap[b], seen)
      BY <2>2, <1>2, <1>4
    <3>2. /\ heap[b].kind = "graph" =>
                heap[b].kids # <<>> /\ heap[b].kids[1] \in DOMAIN heap /\ heap[heap[b].kids[1]].kind = "seq"
          /\ heap[b].kind \in Directives => heap[b].ref # NoUrl
      BY <3>1, <1>1 DEF WellFormed
    <3> QED  BY <3>1, <3>2, <1>7, <2>0
  <2> QED  BY <2>1, <2>2, <1>4
<1>11. DOMAIN c \subseteq 1 .. 2 * space
  <2>1. \A a \in DOMAIN heap : a \in 1 .. 2 * space
    BY <1>1
  <2> QED  BY <1>2, <1>4, <2>1
<1>12. HeapOK(c)
  BY <1>9, <1>10 DEF HeapOK
<1> QED  BY <1>3, <1>4, <1>5, <1>11, <1>12 DEF all

\* What is appended to a list leaves its items where they are.
LEMMA Appended ==
    ASSUME NEW A, NEW s \in Seq(A), NEW t \in Seq(A)
    PROVE  /\ s \o t \in Seq(A)
           /\ s # <<>> => s \o t # <<>> /\ (s \o t)[1] = s[1]
<1>1. Len(s) \in Nat /\ Len(t) \in Nat /\ (s # <<>> => Len(s) # 0)
  BY LenProperties, EmptySeq
<1>2. s \o t \in Seq(A) /\ Len(s \o t) = Len(s) + Len(t)
  BY ConcatProperties
<1>3. s # <<>> => 1 \in 1 .. Len(s) + Len(t) /\ 1 <= Len(s)
  BY <1>1
<1>4. s # <<>> => (s \o t)[1] = s[1]
  BY <1>3, ConcatProperties
<1>5. s # <<>> => Len(s \o t) # 0
  BY <1>1, <1>2
<1> QED  BY <1>2, <1>4, <1>5, EmptySeq

\* doc.update(mixin) keeps the kind of the document, and the list of a $graph.
LEMMA UpdatedOK ==
    ASSUME NEW A, NEW n \in Node(A), NEW m \in Node(A)
    PROVE  /\ Updated(n, m) \in Node(A) /\ Updated(n, m).kind = n.kind
           /\ Updated(n, m).ref = n.ref
           /\ n.kids # <<>> => Updated(n, m).kids # <<>> /\ Updated(n, m).kids[1] = n.kids[1]
<1>1. n.kids \in Seq(A) /\ m.kids \in Seq(A)
  BY DEF Node
<1> DEFINE kids == n.kids \o m.kids
<1>2. kids \in Seq(A)
  BY <1>1, Appended
<1>5. n.kids # <<>> => kids # <<>> /\ kids[1] = n.kids[1]
  BY <1>1, Appended
<1>6. Updated(n, m).kids = kids
  BY DEF Updated, Node
<1> HIDE DEF kids
<1>7. Updated(n, m) = [n EXCEPT !.id = IF m.id # NoUrl THEN m.id ELSE n.id,
                                !.rebase = IF m.rebase # NoUrl THEN m.rebase ELSE n.rebase,
                                !.kids = kids, !.links = n.links \union m.links]
  BY <1>6 DEF Updated, kids
<1>8. Updated(n, m) \in Node(A) /\ Updated(n, m).kind = n.kind /\ Updated(n, m).ref = n.ref
  BY ZenonT(60), <1>2, <1>7 DEF Node
<1> QED  BY <1>5, <1>6, <1>8

LEMMA LoadMixinOK ==
    ASSUME Whole, LoadMixin
    PROVE  Whole'
<1>1. /\ stack # <<>> /\ Top.fn = "resolve_ref" /\ Top.mode = "mixin"
      /\ Retrieve(DocUrl(Top.url))
  BY DEF LoadMixin, Running
<1> DEFINE d    == DocUrl(Top.url)
           seen == Reached(heap, idx'[d])
           new  == Above(idx'[d], seen)
           copy == Copied(heap, seen)
           base == Top.base
<1>2. Top \in Call /\ Top.url \in AbsUrl /\ d \in AbsUrl
  BY <1>1, TopRef
<1>3. /\ UNCHANGED <<web, notes, calls>> /\ idx' = Fetched(Top).idx /\ space' = 2 * space
      /\ heap' = IF IsMapping(idx'[d])
                 THEN [copy EXCEPT ![new] = Updated(copy[new], heap[Top.node])]
                 ELSE copy
      /\ Invoke([Top EXCEPT !.at = "wait"], AllFrame(new, base, d, Top.ns, Top.check))
  BY DEF LoadMixin, world
<1>4. IndexOf(idx') /\ d \in DOMAIN idx'
  BY <1>1, <1>3, FetchedOK
<1>5. seen \in SUBSET DOMAIN heap /\ Store
  BY DEF Reached, Whole
<1> HIDE DEF seen
<1>6. /\ HeapOK(copy) /\ DOMAIN heap \subseteq DOMAIN copy /\ DOMAIN copy \subseteq 1 .. 2 * space
      /\ \A a \in DOMAIN heap : copy[a] = heap[a]
      /\ \A a \in Addrs : Above(a, seen) \in DOMAIN copy \union {Text}
      /\ \A a \in DOMAIN heap : Above(a, seen) \in DOMAIN copy
  BY <1>5, CopiedOK
<1>7. idx'[d] \in Addrs /\ new \in DOMAIN copy \union {Text}
      /\ (IsMapping(idx'[d]) => new \in DOMAIN copy)
  BY <1>4, <1>6 DEF IndexOf, IsMapping, Addrs
<1>8. Top.node \in DOMAIN heap
  BY <1>1, <1>2, CallParts, InHand
<1> HIDE DEF copy, new, d, base
<1>9. /\ HeapOK(heap') /\ DOMAIN heap' = DOMAIN copy
      /\ \A a \in DOMAIN heap : heap'[a].kind = heap[a].kind
  <2>1. CASE IsMapping(idx'[d])
    <3> DEFINE A == DOMAIN copy \union {Text}
               n == copy[new]
               m == heap[Top.node]
    <3>1. n \in Node(A) /\ m \in Node(A) /\ new \in DOMAIN copy
      <4>1. new \in DOMAIN copy /\ Top.node \in DOMAIN copy /\ copy[Top.node] = m
        BY <1>6, <1>7, <1>8, <2>1
      <4> QED  BY <4>1, <1>6 DEF HeapOK
    <3>2. heap' = [copy EXCEPT ![new] = Updated(n, m)]
      BY <1>3, <2>1
    <3>3. /\ Updated(n, m) \in Node(A) /\ Updated(n, m).kind = n.kind
          /\ Updated(n, m).ref = n.ref
          /\ n.kids # <<>> => Updated(n, m).kids # <<>> /\ Updated(n, m).kids[1] = n.kids[1]
      BY <3>1, UpdatedOK
    <3>4. /\ n.kind \in Directives => n.ref # NoUrl
          /\ n.kind = "graph" => n.kids # <<>>
      BY <1>6, <3>1 DEF HeapOK, WellFormed
    <3>5. /\ HeapOK(heap') /\ DOMAIN heap' = DOMAIN copy
          /\ \A b \in DOMAIN copy : heap'[b].kind = copy[b].kind
      BY <1>6, <3>1, <3>2, <3>3, <3>4, UpdateHeap
    <3> QED  BY <1>6, <3>5
  <2>2. CASE ~IsMapping(idx'[d])
    BY <1>3, <1>6, <2>2
  <2> QED  BY <2>1, <2>2
<1>10. space' \in Nat
  BY <1>3, <1>5 DEF Store
<1>11. Store' /\ Kept
  BY <1>3, <1>5, <1>6, <1>9, <1>10, NewStore
<1>12. Index'
  BY <1>4, <1>11, <1>5, KeptCalls DEF Index, IndexOf
<1>13. Counters'
  BY <1>1, <1>3, FetchedOK DEF Whole, Counters
<1>14. new \in Addrs'
  BY <1>7, <1>9 DEF Addrs
<1>15. [Top EXCEPT !.at = "wait"] \in Call'
  BY <1>1, <1>2, <1>5, <1>11, AdvanceOK, KeptCalls
<1>16. AllFrame(new, base, d, Top.ns, Top.check) \in Call'
  BY <1>2, <1>14, AllFrameOK, CallParts DEF base
<1>17. Control'
  BY <1>1, <1>3, <1>11, <1>15, <1>16, InvokeOK DEF Whole
<1> QED  BY <1>11, <1>12, <1>13, <1>17 DEF Whole

----------------------------------------------------------------------------
(* Every step *)

LEMMA NextOK == Whole /\ [Next]_vars => Whole'
<1> SUFFICES ASSUME Whole, [Next]_vars PROVE Whole'
  OBVIOUS
<1>1. CASE Step
  BY <1>1, IncludeOK, LoadOK, LoadMixinOK, LoadFailsOK, AnswerOK, FollowDirectiveOK, OpenSeqOK,
     OpenMapOK, OpenGraphOK, DescendOK, ReplaceKidOK, SpliceKidsOK, ReturnsOK DEF Step
<1>2. ASSUME NEW url \in Requests, Request(url) PROVE Whole'
  BY <1>2, RequestOK
<1>3. CASE UNCHANGED vars
  <2>1. UNCHANGED <<web, heap, space, idx, notes, stack, ret, result, calls, faults, fetched, broken>>
    BY <1>3 DEF vars
  <2>2. Store' /\ Kept
    BY <2>1, SameObjects DEF Whole
  <2>3. Index'
    BY <2>1, <2>2, SameIndex DEF Whole
  <2>4. Control'
    BY <2>1, <2>2, KeptCalls, SeqMonotonic DEF Whole, Control
  <2> QED  BY <2>1, <2>2, <2>3, <2>4 DEF Whole, Counters
<1> QED  BY <1>1, <1>2, <1>3 DEF Next

\* The history of a call's steps.
LEMMA Ticks ==
    ASSUME steps \in Nat, [Next]_vars
    PROVE  steps' \in Nat
<1>1. CASE Step
  <2>1. steps' = steps \/ steps' = steps + 1
    BY <1>1 DEF Step
  <2> QED  BY <2>1
<1>2. CASE \E url \in Requests : Request(url)
  BY <1>2 DEF Request
<1>3. CASE UNCHANGED vars
  BY <1>3 DEF vars
<1> QED  BY <1>1, <1>2, <1>3 DEF Next

\* resolve_ref and resolve_all, whatever they import, splice and mix in and however often they
\* are interrupted by an exception, leave a store of well-formed objects, an index into it, and
\* calls that have a container or a directive in hand where the code takes one for granted.
THEOREM StoreSafe == Spec => []StoreOK
<1>1. Init => Whole /\ steps \in Nat
  BY InitOK DEF Init
<1>2. Whole /\ steps \in Nat /\ [Next]_vars => Whole' /\ (steps \in Nat)'
  BY NextOK, Ticks
<1>3. Whole /\ steps \in Nat => StoreOK
  BY Parts DEF Whole
<1> QED  BY <1>1, <1>2, <1>3, PTL DEF Spec

----------------------------------------------------------------------------
(* Documents are loaded once *)

\* A document that is being resolved is in the index, and is being resolved by one call.
Loads == /\ \A i \in DOMAIN stack : Loading(i) => DocUrl(stack[i].url) \in DOMAIN idx
         /\ NoReentrantLoad

\* A document that was retrieved is in the index.
Fetches == \A d \in Docs : fetched[d] = 0 \/ (fetched[d] = 1 /\ RootUrl(d) \in DOMAIN idx)

\* The index only grows, and no call begins to resolve a document.
Grows     == DOMAIN idx \subseteq DOMAIN idx'
NoNewLoad == \A i \in DOMAIN stack' :
                Loading(i)' => i \in DOMAIN stack /\ Loading(i) /\ stack'[i].url = stack[i].url

LEMMA QuietLoads ==
    ASSUME Loads, Grows, NoNewLoad
    PROVE  Loads'
  BY DEF Loads, Grows, NoNewLoad, NoReentrantLoad

\* A call that is not a load in waiting.
Quiet(f) == ~(f.fn = "resolve_ref" /\ f.at = "wait" /\ f.mode # "mixin")

LEMMA QuietSteps ==
    ASSUME Whole, stack # <<>>, NEW v, NEW status, NEW f, NEW g,
           \/ Return(v)
           \/ Raise(status)
           \/ Become(f) /\ Quiet(f)
           \/ Invoke(f, g) /\ Quiet(f) /\ Quiet(g)
    PROVE  NoNewLoad
<1> DEFINE n == Len(stack) - 1
           low == Front(stack)
<1>1. /\ n \in Nat /\ Len(stack) = n + 1 /\ low \in Seq(Call) /\ Len(low) = n
      /\ \A i \in 1 .. n : low[i] = stack[i]
      /\ DOMAIN stack = 1 .. n + 1 /\ DOMAIN low = 1 .. n
  BY PopStack, LenProperties DEF Whole, Control
<1> HIDE DEF n, low
<1>2. CASE Return(v)
  <2>1. stack' = low
    BY <1>2 DEF Return, low
  <2> QED  BY <1>1, <2>1 DEF NoNewLoad, Loading
<1>3. CASE Raise(status)
  BY <1>3 DEF Raise, NoNewLoad
<1>4. CASE Become(f) /\ Quiet(f)
  <2>1. stack' = Append(low, f)
    BY <1>4 DEF Become, low
  <2>2. DOMAIN stack' = 1 .. n + 1 /\ stack'[n + 1] = f /\ \A i \in 1 .. n : stack'[i] = low[i]
    BY <1>1, <2>1
  <2> QED  BY <1>1, <1>4, <2>2 DEF NoNewLoad, Loading, Quiet
<1>5. CASE Invoke(f, g) /\ Quiet(f) /\ Quiet(g)
  <2>1. stack' = Append(Append(low, f), g)
    BY <1>5 DEF Invoke, low
  <2>2. /\ DOMAIN stack' = 1 .. n + 2 /\ stack'[n + 2] = g /\ stack'[n + 1] = f
        /\ \A i \in 1 .. n : stack'[i] = low[i]
    BY <1>1, <2>1
  <2>3. \A i \in 1 .. n + 2 : i \in 1 .. n \/ i = n + 1 \/ i = n + 2
    BY <1>1
  <2> QED  BY <1>1, <1>5, <2>2, <2>3 DEF NoNewLoad, Loading, Quiet
<1> QED  BY <1>2, <1>3, <1>4, <1>5

\* The steps that neither load nor touch what was fetched.
LEMMA QuietFetches ==
    ASSUME Fetches, Grows, UNCHANGED fetched
    PROVE  Fetches'
  BY DEF Fetches, Grows

\* What retrieving a document adds to the index, and that it was not there before.
LEMMA RetrieveFetches ==
    ASSUME Whole, Fetches, stack # <<>>, Retrieve(DocUrl(Top.url)), idx' = Fetched(Top).idx
    PROVE  Grows /\ Fetches' /\ DocUrl(Top.url) \in DOMAIN idx'
<1> DEFINE d == DocUrl(Top.url)
<1>1. d \in AbsUrl /\ d.doc \in Docs /\ d = RootUrl(d.doc) /\ fetched \in [Docs -> Nat]
  BY TopRef DEF DocUrl, RootUrl, AbsUrl, Whole, Counters
<1>2. d \in DOMAIN idx'
  BY FetchedOK
<1> HIDE DEF d
<1>3. CASE d \in DOMAIN idx
  <2>1. idx' = idx /\ UNCHANGED fetched
    BY <1>3 DEF Fetched, Retrieve, fetcher, d
  <2> QED  BY <1>2, <2>1, QuietFetches DEF Grows, d
<1>4. CASE d \notin DOMAIN idx
  <2>1. /\ idx' = Parsed(d, web.root[d.doc], Top.mode # "mixin").idx
        /\ fetched' = [fetched EXCEPT ![d.doc] = @ + 1]
    BY <1>4 DEF Fetched, Retrieve, d
  <2>2. Grows
    BY <2>1 DEF Grows, Parsed, Bind
  <2>3. fetched[d.doc] = 0
    BY <1>1, <1>4 DEF Fetches
  <2>4. fetched'[d.doc] = 1 /\ \A e \in Docs \ {d.doc} : fetched'[e] = fetched[e]
    BY <1>1, <2>1, <2>3
  <2>5. \A e \in Docs : fetched'[e] = 0 \/ (fetched'[e] = 1 /\ RootUrl(e) \in DOMAIN idx')
    BY <1>1, <1>2, <2>2, <2>4 DEF Fetches, Grows
  <2> QED  BY <1>2, <2>2, <2>5 DEF Fetches, d
<1> QED  BY <1>3, <1>4

\* Identifying an object and indexing its symbols only adds to the index.
LEMMA IndexGrows ==
    ASSUME NEW f, NEW n, NEW base
    PROVE  /\ DOMAIN idx \subseteq DOMAIN Identified(f).idx
           /\ DOMAIN idx \subseteq DOMAIN Symbols(n, base, Identified(f).idx)
  BY DEF Identified, Symbols, Bind

\* The frames of new calls are quiet: they have not loaded anything yet.
LEMMA NewCallsQuiet ==
    ASSUME NEW mode, NEW url, NEW node, NEW base, NEW file, NEW ns, NEW check
    PROVE  /\ Quiet(RefFrame(mode, url, node, base, ns, check))
           /\ Quiet(AllFrame(node, base, file, ns, check))
           /\ Quiet(DirectiveFrame(node, base, ns, check))
  BY DEF Quiet, RefFrame, AllFrame, DirectiveFrame

\* A call of resolve_all is quiet, whatever it does; one of resolve_ref for a mixin too.
LEMMA LoopsQuiet ==
    ASSUME NEW f \in Call, f.fn = "resolve_all" \/ f.mode = "mixin"
    PROVE  \A at, pos, base, ns, node :
              /\ Quiet([f EXCEPT !.at = at])
              /\ Quiet([f EXCEPT !.at = at, !.pos = pos])
              /\ Quiet([f EXCEPT !.at = at, !.pos = pos, !.base = base, !.ns = ns])
              /\ Quiet([f EXCEPT !.at = at, !.pos = pos, !.ns = ns, !.base = base, !.node = node])
  BY DEF Quiet, Call, Frame

Once == Loads /\ Fetches

\* The steps that load nothing.
LEMMA QuietOnce ==
    ASSUME Once, Grows, NoNewLoad, UNCHANGED fetched
    PROVE  Once'
  BY QuietLoads, QuietFetches DEF Once

LEMMA LoadOnce ==
    ASSUME Whole, Once, Load
    PROVE  Once'
<1> DEFINE d == DocUrl(Top.url)
           f == [Top EXCEPT !.at = "wait"]
           g == AllFrame(idx'[d], d, d, Top.ns, Top.check)
           n == Len(stack) - 1
           low == Front(stack)
<1>1. /\ stack # <<>> /\ Top.fn = "resolve_ref" /\ Top.mode # "mixin" /\ Retrieve(d)
      /\ idx' = Fetched(Top).idx /\ Invoke(f, g) /\ d \notin DOMAIN idx
  BY DEF Load, Running, Missing
<1>2. Grows /\ Fetches' /\ d \in DOMAIN idx'
  BY <1>1, RetrieveFetches DEF Once
<1>3. f.url = Top.url /\ Quiet(g)
  BY <1>1, TopRef, NewCallsQuiet DEF Call, Frame
<1>4. /\ n \in Nat /\ Len(stack) = n + 1 /\ low \in Seq(Call) /\ Len(low) = n
      /\ \A i \in 1 .. n : low[i] = stack[i]
      /\ DOMAIN stack = 1 .. n + 1 /\ DOMAIN low = 1 .. n
  BY SMTT(30), <1>1, PopStack, LenProperties DEF Whole, Control
<1>5. stack' = Append(Append(low, f), g)
  BY <1>1 DEF Invoke
<1> HIDE DEF d, f, g, n, low
<1>6. /\ DOMAIN stack' = 1 .. n + 2 /\ stack'[n + 2] = g /\ stack'[n + 1] = f
      /\ \A i \in 1 .. n : stack'[i] = stack[i]
  BY <1>4, <1>5
<1>7. \A i \in 1 .. n : Loading(i)' => Loading(i) /\ stack'[i].url = stack[i].url
  BY <1>6 DEF Loading
<1>8. \A i \in 1 .. n + 2 : Loading(i)' => i \in 1 .. n \/ i = n + 1
  BY <1>3, <1>4, <1>6 DEF Loading, Quiet
<1>9. \A i \in 1 .. n : Loading(i)' => DocUrl(stack'[i].url) \in DOMAIN idx
  BY <1>4, <1>7 DEF Once, Loads
<1>10. DocUrl(stack'[n + 1].url) = d
  BY <1>3, <1>6 DEF d
<1>11. \A i \in DOMAIN stack' : Loading(i)' => DocUrl(stack'[i].url) \in DOMAIN idx'
  BY <1>2, <1>6, <1>8, <1>9, <1>10 DEF Grows
<1>12. ASSUME NEW i \in DOMAIN stack', NEW j \in DOMAIN stack', i < j, Loading(i)', Loading(j)'
       PROVE  DocUrl(stack'[i].url) # DocUrl(stack'[j].url)
  <2>1. i \in 1 .. n
    BY <1>4, <1>6, <1>8, <1>12
  <2>2. CASE j \in 1 .. n
    <3>1. i \in DOMAIN stack /\ j \in DOMAIN stack
      BY <1>4, <2>1, <2>2
    <3> QED  BY <1>7, <1>12, <2>1, <2>2, <3>1 DEF Once, Loads, NoReentrantLoad
  <2>3. CASE j = n + 1
    BY <1>1, <1>9, <1>10, <1>12, <2>1, <2>3
  <2> QED  BY <1>6, <1>8, <1>12, <2>2, <2>3
<1>13. NoReentrantLoad'
  BY <1>12 DEF NoReentrantLoad
<1> QED  BY <1>2, <1>11, <1>13 DEF Once, Loads

LEMMA StepOnce == Whole /\ Once /\ [Next]_vars => Once'
<1> SUFFICES ASSUME Whole, Once, [Next]_vars PROVE Once'
  OBVIOUS
<1>1. ASSUME idx' = idx PROVE Grows
  BY <1>1 DEF Grows
<1>2. CASE RejectDirective \/ ReturnIndexed \/ ReportMissing \/ RefResolved \/ ReturnScalar
             \/ Finish \/ Include \/ LoadFails
  <2>1. /\ stack # <<>> /\ UNCHANGED <<idx, fetched>>
        /\ (\E v : Return(v)) \/ (\E status : Raise(status))
    BY <1>2 DEF RejectDirective, ReturnIndexed, ReportMissing, RefResolved, ReturnScalar, Finish,
                Include, LoadFails, Running, Returned, objects, fetcher
  <2> QED  BY <1>1, <2>1, QuietSteps, QuietOnce
<1>3. CASE Overflow
  <2>1. NoNewLoad /\ UNCHANGED <<idx, fetched>>
    BY <1>3 DEF Overflow, Raise, NoNewLoad, objects, fetcher
  <2> QED  BY <1>1, <2>1, QuietOnce
<1>4. CASE Answer
  BY <1>1, <1>4, QuietOnce DEF Answer, objects, fetcher, NoNewLoad, Loading
<1>5. CASE FollowDirective
  BY <1>1, <1>5, NewCallsQuiet, QuietSteps, QuietOnce DEF FollowDirective, Running, objects, fetcher
<1>6. CASE OpenSeq \/ ReplaceKid \/ SpliceKids
  <2>1. stack # <<>> /\ Top.fn = "resolve_all" /\ UNCHANGED <<idx, fetched>>
        /\ \E pos : Become([Top EXCEPT !.at = "iterate", !.pos = pos])
    BY <1>6 DEF OpenSeq, ReplaceKid, SpliceKids, Running, Returned, objects, fetcher
  <2>2. PICK pos : Become([Top EXCEPT !.at = "iterate", !.pos = pos])
    BY <2>1
  <2>3. Quiet([Top EXCEPT !.at = "iterate", !.pos = pos])
    BY <2>1, TopRef, LoopsQuiet
  <2> QED  BY <1>1, <2>1, <2>2, <2>3, QuietSteps, QuietOnce
<1>7. CASE OpenMap
  <2>1. /\ stack # <<>> /\ Top.fn = "resolve_all" /\ UNCHANGED fetched /\ Grows
        /\ \E base, ns : Become([Top EXCEPT !.at = "iterate", !.pos = 1, !.base = base, !.ns = ns])
    BY <1>7, IndexGrows DEF OpenMap, Running, fetcher, Grows
  <2>2. PICK base, ns : Become([Top EXCEPT !.at = "iterate", !.pos = 1, !.base = base, !.ns = ns])
    BY <2>1
  <2>3. Quiet([Top EXCEPT !.at = "iterate", !.pos = 1, !.base = base, !.ns = ns])
    BY <2>1, TopRef, LoopsQuiet
  <2> QED  BY <2>1, <2>2, <2>3, QuietSteps, QuietOnce
<1>8. CASE OpenGraph
  <2>1. /\ stack # <<>> /\ Top.fn = "resolve_all" /\ UNCHANGED fetched /\ Grows
        /\ \E node, ns, base : Become([Top EXCEPT !.at = "iterate", !.pos = 1, !.ns = ns, !.base = base, !.node = node])
    BY <1>8, IndexGrows DEF OpenGraph, Running, fetcher, Grows
  <2>2. PICK node, ns, base : Become([Top EXCEPT !.at = "iterate", !.pos = 1, !.ns = ns, !.base = base, !.node = node])
    BY <2>1
  <2>3. Quiet([Top EXCEPT !.at = "iterate", !.pos = 1, !.ns = ns, !.base = base, !.node = node])
    BY <2>1, TopRef, LoopsQuiet
  <2> QED  BY <2>1, <2>2, <2>3, QuietSteps, QuietOnce
<1>9. CASE Descend
  <2>1. /\ stack # <<>> /\ Top.fn = "resolve_all" /\ UNCHANGED <<idx, fetched>>
        /\ \E g : Invoke([Top EXCEPT !.at = "wait"], g) /\ Quiet(g)
    BY <1>9, NewCallsQuiet DEF Descend, Running, objects, fetcher
  <2>2. Quiet([Top EXCEPT !.at = "wait"])
    BY <2>1, TopRef, LoopsQuiet
  <2> QED  BY <1>1, <2>1, <2>2, QuietSteps, QuietOnce
<1>10. CASE Load
  BY <1>10, LoadOnce
<1>11. CASE LoadMixin
  <2>1. /\ stack # <<>> /\ Top.mode = "mixin" /\ Retrieve(DocUrl(Top.url))
        /\ idx' = Fetched(Top).idx
        /\ \E g : Invoke([Top EXCEPT !.at = "wait"], g) /\ Quiet(g)
    BY <1>11, NewCallsQuiet DEF LoadMixin, Running
  <2>2. Quiet([Top EXCEPT !.at = "wait"])
    BY <2>1, TopRef, LoopsQuiet
  <2>3. Grows /\ Fetches'
    BY <2>1, RetrieveFetches DEF Once
  <2>4. NoNewLoad
    BY <2>1, <2>2, QuietSteps
  <2> QED  BY <2>3, <2>4, QuietLoads DEF Once
<1>12. ASSUME NEW url \in Requests, Request(url) PROVE Once'
  <2>1. UNCHANGED <<idx, fetched>>
    BY <1>12 DEF Request, objects, fetcher
  <2>2. NoNewLoad
    BY <1>12 DEF Request, RefFrame, NoNewLoad, Loading
  <2> QED  BY <1>1, <2>1, <2>2, QuietOnce
<1>13. CASE UNCHANGED vars
  BY <1>1, <1>13, QuietOnce DEF vars, NoNewLoad, Loading
<1> QED
  BY <1>2, <1>3, <1>4, <1>5, <1>6, <1>7, <1>8, <1>9, <1>10, <1>11, <1>12, <1>13 DEF Next, Step

LEMMA InitOnce == Init => Once
  BY DEF Init, Once, Loads, Fetches, NoReentrantLoad

LEMMA OnceInvariant == Spec => []Once
<1>1. Init => Whole /\ Once
  BY InitOK, InitOnce
<1>2. Whole /\ Once /\ [Next]_vars => (Whole /\ Once)'
  BY NextOK, StepOnce
<1> QED  BY <1>1, <1>2, PTL DEF Spec

\* A document that is being resolved is never loaded again below itself: every import cycle,
\* of any length and through any mixture of maps, lists and $graph documents, ends at the index.
THEOREM CyclesEnd == Spec => []NoReentrantLoad
<1>1. Once => NoReentrantLoad
  BY DEF Once, Loads
<1> QED  BY <1>1, OnceInvariant, PTL

\* A document is retrieved and parsed at most once in the life of a loader.
THEOREM FetchOnce == Spec => []FetchedOnce
<1>1. Once => FetchedOnce
  BY DEF Once, Fetches, FetchedOnce
<1> QED  BY <1>1, OnceInvariant, PTL

(***************************************************************************)
(* RefResolver implements DocumentLoads, for every web and every bound.    *)
(* The invariants above are what the mapping needs: a document that was    *)
(* retrieved is in the index (so a load is a first reading), and it is     *)
(* pending in one call (so a return ends it).                              *)
(***************************************************************************)

Statuses == {"invalid", "crash", "overflow"}

----------------------------------------------------------------------------
(* What the operations on the stack do to the documents that are being resolved *)

\* While there is a call on the stack, the application's call is running.
LEMMA CallRuns ==
    stack # <<>> => CallStatus = "running"
  BY DEF CallStatus

\* A pending load is one of a document.
LEMMA LoadingDocs ==
    ASSUME Whole
    PROVE  BeingResolved \subseteq Docs
<1>1. \A i \in DOMAIN stack : stack[i] \in Call
  BY LenProperties, ElementOfSeq DEF Whole, Control
<1>2. \A i \in DOMAIN stack : stack[i].url \in AbsUrl
  BY <1>1, CallParts
<1> QED  BY <1>2 DEF BeingResolved, AbsUrl

\* The stack below the innermost call, and that call itself.
LEMMA StackParts ==
    ASSUME Whole, stack # <<>>
    PROVE  \E n \in Nat :
              /\ DOMAIN stack = 1 .. n + 1 /\ stack[n + 1] = Top
              /\ Front(stack) \in Seq(Call) /\ DOMAIN Front(stack) = 1 .. n /\ Len(Front(stack)) = n
              /\ \A i \in 1 .. n : Front(stack)[i] = stack[i]
<1> DEFINE n == Len(stack) - 1
<1>1. /\ n \in Nat /\ Len(stack) = n + 1 /\ Front(stack) \in Seq(Call) /\ Len(Front(stack)) = n
      /\ \A i \in 1 .. n : Front(stack)[i] = stack[i]
      /\ DOMAIN stack = 1 .. n + 1 /\ DOMAIN Front(stack) = 1 .. n
  BY PopStack, LenProperties DEF Whole, Control
<1>2. stack[n + 1] = Top
  BY <1>1 DEF Top, Last
<1> QED  BY <1>1, <1>2

\* Calls and returns that are no loads leave the pending documents alone.
LEMMA QuietStack ==
    ASSUME Whole, stack # <<>>, Quiet(Top), NEW v \in Addrs, NEW f, NEW g,
           \/ Return(v)
           \/ Become(f) /\ Quiet(f)
           \/ Invoke(f, g) /\ Quiet(f) /\ Quiet(g)
    PROVE  BeingResolved' = BeingResolved /\ CallStatus = "running" /\ CallStatus' = "running"
<1>1. PICK n \in Nat :
              /\ DOMAIN stack = 1 .. n + 1 /\ stack[n + 1] = Top
              /\ Front(stack) \in Seq(Call) /\ DOMAIN Front(stack) = 1 .. n /\ Len(Front(stack)) = n
              /\ \A i \in 1 .. n : Front(stack)[i] = stack[i]
  BY StackParts
<1> DEFINE low == Front(stack)
           Lower == {stack[i].url.doc : i \in {j \in 1 .. n : Loading(j)}}
<1>2. BeingResolved = Lower
  BY <1>1 DEF BeingResolved, Loading, Quiet
<1>3. v # NoRet
  BY DEF Whole, Store, Addrs, NoRet, Text
<1> HIDE DEF low, Lower
<1>4. CASE Return(v)
  <2>1. stack' = low /\ ret' # NoRet
    BY <1>3, <1>4 DEF Return, low
  <2>2. BeingResolved' = Lower
    BY <1>1, <2>1 DEF BeingResolved, Loading, Lower, low
  <2> QED  BY <1>2, <2>1, <2>2 DEF CallStatus
<1>5. CASE Become(f) /\ Quiet(f)
  <2>1. stack' = Append(low, f)
    BY <1>5 DEF Become, low
  <2>2. DOMAIN stack' = 1 .. n + 1 /\ stack'[n + 1] = f /\ \A i \in 1 .. n : stack'[i] = stack[i]
    BY <1>1, <2>1 DEF low
  <2>3. BeingResolved' = Lower
    BY <1>1, <1>5, <2>2 DEF BeingResolved, Loading, Quiet, Lower
  <2>4. stack' # <<>>
    BY <2>2
  <2> QED  BY <1>2, <2>3, <2>4 DEF CallStatus
<1>6. CASE Invoke(f, g) /\ Quiet(f) /\ Quiet(g)
  <2>1. stack' = Append(Append(low, f), g)
    BY <1>6 DEF Invoke, low
  <2>2. /\ DOMAIN stack' = 1 .. n + 2 /\ stack'[n + 1] = f /\ stack'[n + 2] = g
        /\ \A i \in 1 .. n : stack'[i] = stack[i]
    BY <1>1, <2>1 DEF low
  <2>3. \A i \in 1 .. n + 2 : i \in 1 .. n \/ i = n + 1 \/ i = n + 2
    BY <1>1
  <2>4. BeingResolved' = Lower
    BY <1>1, <1>6, <2>2, <2>3 DEF BeingResolved, Loading, Quiet, Lower
  <2>5. stack' # <<>>
    BY <2>2
  <2> QED  BY <1>2, <2>4, <2>5 DEF CallStatus
<1> QED  BY <1>4, <1>5, <1>6

\* An exception leaves nothing pending, and the application's call has failed.
LEMMA RaiseStack ==
    ASSUME stack # <<>>, NEW status \in Statuses, Raise(status)
    PROVE  BeingResolved' = {} /\ CallStatus = "running" /\ CallStatus' = "failed"
<1>1. stack' = <<>> /\ ret' = NoRet /\ result'.status \in Statuses
  BY DEF Raise
<1>2. result'.status \notin {"none", "ok"}
  BY <1>1 DEF Statuses
<1> QED  BY <1>1, <1>2 DEF BeingResolved, CallStatus

\* The call that resolves a document starts to wait for it.
LEMMA LoadStack ==
    ASSUME Whole, stack # <<>>, Quiet(Top), NEW f, NEW g,
           Invoke(f, g), ~Quiet(f), Quiet(g), f.url = Top.url
    PROVE  /\ BeingResolved' = BeingResolved \union {Top.url.doc}
           /\ CallStatus = "running" /\ CallStatus' = "running"
<1>1. PICK n \in Nat :
              /\ DOMAIN stack = 1 .. n + 1 /\ stack[n + 1] = Top
              /\ Front(stack) \in Seq(Call) /\ DOMAIN Front(stack) = 1 .. n /\ Len(Front(stack)) = n
              /\ \A i \in 1 .. n : Front(stack)[i] = stack[i]
  BY StackParts
<1> DEFINE low == Front(stack)
           Lower == {stack[i].url.doc : i \in {j \in 1 .. n : Loading(j)}}
<1>2. BeingResolved = Lower
  BY <1>1 DEF BeingResolved, Loading, Quiet
<1>3. stack' = Append(Append(low, f), g)
  BY DEF Invoke, low
<1> HIDE DEF low, Lower
<1>4. /\ DOMAIN stack' = 1 .. n + 2 /\ stack'[n + 1] = f /\ stack'[n + 2] = g
      /\ \A i \in 1 .. n : stack'[i] = stack[i]
  BY <1>1, <1>3 DEF low
<1>5. \A i \in 1 .. n + 2 : i \in 1 .. n \/ i = n + 1 \/ i = n + 2
  BY <1>1
<1>6. /\ n + 1 \in DOMAIN stack' /\ Loading(n + 1)' /\ ~Loading(n + 2)'
      /\ \A i \in 1 .. n : i \in DOMAIN stack' /\ Loading(i)' = Loading(i)
  BY <1>1, <1>4, <1>5 DEF Loading, Quiet
<1>7. BeingResolved' = Lower \union {Top.url.doc}
  BY <1>4, <1>5, <1>6 DEF BeingResolved, Lower
<1>8. stack' # <<>>
  BY <1>4
<1> QED  BY <1>2, <1>7, <1>8 DEF CallStatus

\* The call that has resolved a document returns; no other call was resolving it.
LEMMA EndStack ==
    ASSUME Whole, NoReentrantLoad, stack # <<>>, ~Quiet(Top), NEW v \in Addrs, Return(v)
    PROVE  /\ Top.url.doc \in BeingResolved
           /\ BeingResolved' = BeingResolved \ {Top.url.doc}
           /\ CallStatus = "running" /\ CallStatus' = "running"
<1>1. PICK n \in Nat :
              /\ DOMAIN stack = 1 .. n + 1 /\ stack[n + 1] = Top
              /\ Front(stack) \in Seq(Call) /\ DOMAIN Front(stack) = 1 .. n /\ Len(Front(stack)) = n
              /\ \A i \in 1 .. n : Front(stack)[i] = stack[i]
  BY StackParts
<1> DEFINE low == Front(stack)
           Lower == {stack[i].url.doc : i \in {j \in 1 .. n : Loading(j)}}
<1>2. Loading(n + 1) /\ n + 1 \in DOMAIN stack
  BY <1>1 DEF Loading, Quiet
<1>3. BeingResolved = Lower \union {Top.url.doc}
  BY <1>1, <1>2 DEF BeingResolved
<1>4. ASSUME NEW i \in 1 .. n, Loading(i)
      PROVE  stack[i].url.doc # Top.url.doc
  <2>1. i \in DOMAIN stack /\ i < n + 1 /\ n + 1 \in DOMAIN stack
    BY <1>1
  <2>2. DocUrl(stack[i].url) # DocUrl(stack[n + 1].url)
    BY <1>2, <1>4, <2>1 DEF NoReentrantLoad
  <2>3. stack[i] \in Call /\ Top \in Call
    BY <2>1, TopOK, LenProperties, ElementOfSeq DEF Whole, Control
  <2>4. stack[i].url \in AbsUrl /\ Top.url \in AbsUrl
    BY <2>3, CallParts
  <2> QED  BY <1>1, <2>2, <2>4 DEF DocUrl, AbsUrl
<1>5. Top.url.doc \notin Lower
  BY <1>4
<1>6. v # NoRet
  BY DEF Whole, Store, Addrs, NoRet, Text
<1>7. stack' = low /\ ret' # NoRet
  BY <1>6 DEF Return, low
<1> HIDE DEF Lower
<1>8. BeingResolved' = Lower
  BY <1>1, <1>7 DEF BeingResolved, Loading, Lower
<1> QED  BY <1>3, <1>5, <1>7, <1>8 DEF CallStatus

----------------------------------------------------------------------------
(* The steps *)

\* The steps of the abstract loader, over what RefResolver makes of its variables.
LEMMA Stutters ==
    ASSUME UNCHANGED fetched, BeingResolved' = BeingResolved, CallStatus' = CallStatus
    PROVE  [Promise!Next]_(Promise!loads)
  BY DEF Promise!loads, Read

LEMMA Fails ==
    ASSUME UNCHANGED fetched, BeingResolved' = {}, CallStatus = "running", CallStatus' = "failed"
    PROVE  Promise!Next
  BY DEF Promise!Next, Promise!Fail, Read

\* A step that is no load and ends none is one that the abstract loader does not see.
LEMMA QuietStep ==
    ASSUME Whole, stack # <<>>, Quiet(Top), UNCHANGED fetched, NEW v \in Addrs, NEW f, NEW g,
           \/ Return(v)
           \/ Become(f) /\ Quiet(f)
           \/ Invoke(f, g) /\ Quiet(f) /\ Quiet(g)
    PROVE  [Promise!Next]_(Promise!loads)
<1>1. BeingResolved' = BeingResolved /\ CallStatus = "running" /\ CallStatus' = "running"
  BY QuietStack
<1> QED  BY <1>1, Stutters

LEMMA RaiseStep ==
    ASSUME stack # <<>>, UNCHANGED fetched, NEW status \in Statuses, Raise(status)
    PROVE  Promise!Next
  BY RaiseStack, Fails

\* A call that has just begun, or is in a loop, is not waiting for a load.
LEMMA RunningQuiet ==
    ASSUME NEW fn, NEW at \in {"enter", "iterate"}, Running(fn, at)
    PROVE  stack # <<>> /\ Quiet(Top)
  BY DEF Running, Quiet

\* What the calls return is a value of the store.
LEMMA ReturnValues ==
    ASSUME Whole, ReturnIndexed \/ Include \/ ReturnScalar \/ Finish
    PROVE  /\ stack # <<>> /\ Quiet(Top) /\ UNCHANGED fetched
           /\ (\E v \in Addrs : Return(v)) \/ (\E status \in Statuses : Raise(status))
<1>1. Text \in Addrs /\ "invalid" \in Statuses /\ "crash" \in Statuses
  BY DEF Addrs, Statuses
<1>2. CASE ReturnIndexed
  <2>1. idx[Top.url] \in Addrs
    BY <1>2 DEF ReturnIndexed, Hit, Whole, Index
  <2>2. Unwrap(idx[Top.url]) \in Addrs
    BY <2>1, UnwrapOK DEF Whole
  <2> QED  BY <1>1, <1>2, <2>2, RunningQuiet DEF ReturnIndexed, fetcher
<1>3. CASE Include
  BY <1>1, <1>3, RunningQuiet DEF Include
<1>4. CASE ReturnScalar
  BY <1>1, <1>4, RunningQuiet DEF ReturnScalar, fetcher
<1>5. CASE Finish
  <2>1. stack # <<>> /\ Quiet(Top)
    BY <1>5, RunningQuiet DEF Finish
  <2>2. Top.node \in Addrs
    BY <2>1, TopOK, CallParts DEF Whole
  <2> QED  BY <1>1, <1>5, <2>1, <2>2 DEF Finish, fetcher
<1> QED  BY <1>2, <1>3, <1>4, <1>5

\* The return of a call of resolve_ref that was waiting: the end of a load, or of a mixin.
LEMMA ResolvedStep ==
    ASSUME Whole, Once, RefResolved
    PROVE  [Promise!Next]_(Promise!loads)
<1>1. stack # <<>> /\ UNCHANGED fetched /\ Top.fn = "resolve_ref" /\ Top.at = "wait" /\ ret \in Addrs
  BY DEF RefResolved, Returned, fetcher, Whole, Control
<1>2. CASE Raise("invalid")
  BY <1>1, <1>2, RaiseStep DEF Statuses
<1>3. CASE Top.mode = "mixin"
  <2>1. Return(Unwrap(ret)) /\ Unwrap(ret) \in Addrs /\ Quiet(Top)
    BY <1>1, <1>3, UnwrapOK DEF RefResolved, Whole, Quiet
  <2> QED  BY <1>1, <2>1, QuietStep
<1>4. CASE Top.mode # "mixin" /\ Top.url \in DOMAIN idx
  <2>1. idx[Top.url] \in Addrs
    BY <1>4 DEF Whole, Index
  <2>2. Return(Unwrap(idx[Top.url])) /\ Unwrap(idx[Top.url]) \in Addrs /\ ~Quiet(Top)
    BY <1>1, <1>4, <2>1, UnwrapOK DEF RefResolved, Whole, Quiet
  <2>3. /\ Top.url.doc \in BeingResolved
        /\ BeingResolved' = BeingResolved \ {Top.url.doc}
        /\ CallStatus = "running" /\ CallStatus' = "running"
    BY <1>1, <2>2, EndStack DEF Once, Loads
  <2>4. Top.url.doc \in Docs /\ Promise!End(Top.url.doc)
    BY <1>1, <2>3, TopRef DEF Promise!End, Read
  <2> QED  BY <2>4 DEF Promise!Next
<1> QED  BY <1>2, <1>3, <1>4 DEF RefResolved

\* What retrieving a document adds to what was read, and that it was not read before.
LEMMA ReadGrows ==
    ASSUME Whole, Once, stack # <<>>, Retrieve(DocUrl(Top.url))
    PROVE  LET d == Top.url.doc
           IN  \/ DocUrl(Top.url) \in DOMAIN idx /\ UNCHANGED fetched
               \/ DocUrl(Top.url) \notin DOMAIN idx /\ d \notin Read /\ Read' = Read \union {d}
<1> DEFINE d == Top.url.doc
<1>1. d \in Docs /\ DocUrl(Top.url) = RootUrl(d) /\ DocUrl(Top.url).doc = d
  BY TopRef DEF DocUrl, RootUrl, AbsUrl
<1>2. fetched \in [Docs -> Nat]
  BY DEF Whole, Counters
<1> HIDE DEF d
<1>3. CASE DocUrl(Top.url) \in DOMAIN idx
  BY <1>3 DEF Retrieve, fetcher
<1>4. CASE DocUrl(Top.url) \notin DOMAIN idx
  <2>1. fetched' = [fetched EXCEPT ![d] = @ + 1]
    BY <1>1, <1>4 DEF Retrieve
  <2>2. fetched[d] = 0
    BY <1>1, <1>4 DEF Once, Fetches
  <2>3. fetched'[d] = 1 /\ \A e \in Docs \ {d} : fetched'[e] = fetched[e]
    BY <1>1, <1>2, <2>1, <2>2
  <2>4. d \notin Read /\ Read' = Read \union {d}
    BY <1>1, <2>2, <2>3 DEF Read
  <2> QED  BY <1>4, <2>4 DEF d
<1> QED  BY <1>3, <1>4

LEMMA LoadStep ==
    ASSUME Whole, Once, Load
    PROVE  Promise!Next
<1> DEFINE d == DocUrl(Top.url)
           f == [Top EXCEPT !.at = "wait"]
           g == AllFrame(idx'[d], d, d, Top.ns, Top.check)
<1>1. /\ stack # <<>> /\ Quiet(Top) /\ Top.fn = "resolve_ref" /\ Top.mode # "mixin"
      /\ Retrieve(d) /\ Invoke(f, g) /\ d \notin DOMAIN idx
  BY RunningQuiet DEF Load, Running, Missing
<1>2. f.url = Top.url /\ ~Quiet(f) /\ Quiet(g)
  BY <1>1, TopRef, NewCallsQuiet DEF Call, Frame, Quiet
<1> HIDE DEF f, g
<1>3. /\ BeingResolved' = BeingResolved \union {Top.url.doc}
      /\ CallStatus = "running" /\ CallStatus' = "running"
  BY <1>1, <1>2, LoadStack
<1>4. Top.url.doc \notin Read /\ Read' = Read \union {Top.url.doc}
  BY <1>1, ReadGrows
<1>5. Top.url.doc \in Docs /\ Promise!Begin(Top.url.doc)
  BY <1>1, <1>3, <1>4, TopRef DEF Promise!Begin
<1> QED  BY <1>5 DEF Promise!Next

LEMMA MixinStep ==
    ASSUME Whole, Once, LoadMixin
    PROVE  [Promise!Next]_(Promise!loads)
<1>1. /\ stack # <<>> /\ Quiet(Top) /\ Top.mode = "mixin" /\ Retrieve(DocUrl(Top.url))
      /\ \E g : Invoke([Top EXCEPT !.at = "wait"], g) /\ Quiet(g)
  BY RunningQuiet, NewCallsQuiet DEF LoadMixin
<1>2. Quiet([Top EXCEPT !.at = "wait"])
  BY <1>1, TopRef, LoopsQuiet
<1>3. Text \in Addrs
  BY DEF Addrs
<1>4. BeingResolved' = BeingResolved /\ CallStatus = "running" /\ CallStatus' = "running"
  BY <1>1, <1>2, <1>3, QuietStack
<1>5. CASE UNCHANGED fetched
  BY <1>4, <1>5, Stutters
<1>6. CASE Top.url.doc \notin Read /\ Read' = Read \union {Top.url.doc}
  <2>1. Top.url.doc \in Docs /\ Promise!Mix(Top.url.doc)
    BY <1>1, <1>4, <1>6, TopRef DEF Promise!Mix
  <2> QED  BY <2>1 DEF Promise!Next
<1> QED  BY <1>1, <1>5, <1>6, ReadGrows

\* The steps of resolve_all that go on with a call or make one.
LEMMA LoopSteps ==
    ASSUME Whole, FollowDirective \/ OpenSeq \/ OpenMap \/ OpenGraph \/ Descend
                    \/ ReplaceKid \/ SpliceKids
    PROVE  [Promise!Next]_(Promise!loads)
<1>1. stack # <<>> /\ Top.fn = "resolve_all" /\ UNCHANGED fetched
  BY DEF FollowDirective, OpenSeq, OpenMap, OpenGraph, Descend, ReplaceKid, SpliceKids,
         Running, Returned, objects, fetcher
<1>2. Quiet(Top) /\ Text \in Addrs
  BY <1>1 DEF Quiet, Addrs
<1>3. SUFFICES \E f, g : \/ Become(f) /\ Quiet(f)
                         \/ Invoke(f, g) /\ Quiet(f) /\ Quiet(g)
  BY <1>1, <1>2, QuietStep
<1>4. CASE FollowDirective
  BY <1>4, NewCallsQuiet DEF FollowDirective
<1>5. CASE OpenSeq \/ ReplaceKid \/ SpliceKids
  <2>1. \E pos : Become([Top EXCEPT !.at = "iterate", !.pos = pos])
    BY <1>5 DEF OpenSeq, ReplaceKid, SpliceKids
  <2> QED  BY <1>1, <2>1, TopRef, LoopsQuiet
<1>6. CASE OpenMap
  <2>1. \E base, ns : Become([Top EXCEPT !.at = "iterate", !.pos = 1, !.base = base, !.ns = ns])
    BY <1>6 DEF OpenMap
  <2>2. PICK base, ns : Become([Top EXCEPT !.at = "iterate", !.pos = 1, !.base = base, !.ns = ns])
    BY <2>1
  <2>3. Quiet([Top EXCEPT !.at = "iterate", !.pos = 1, !.base = base, !.ns = ns])
    BY <1>1, TopRef, LoopsQuiet
  <2> QED  BY <2>2, <2>3
<1>7. CASE OpenGraph
  <2>1. \E node, ns, base : Become([Top EXCEPT !.at = "iterate", !.pos = 1, !.ns = ns, !.base = base, !.node = node])
    BY <1>7 DEF OpenGraph
  <2>2. PICK node, ns, base : Become([Top EXCEPT !.at = "iterate", !.pos = 1, !.ns = ns, !.base = base, !.node = node])
    BY <2>1
  <2>3. Quiet([Top EXCEPT !.at = "iterate", !.pos = 1, !.ns = ns, !.base = base, !.node = node])
    BY <1>1, TopRef, LoopsQuiet
  <2> QED  BY <2>2, <2>3
<1>8. CASE Descend
  <2>1. \E g : Invoke([Top EXCEPT !.at = "wait"], g) /\ Quiet(g)
    BY <1>8, NewCallsQuiet DEF Descend
  <2> QED  BY <1>1, <2>1, TopRef, LoopsQuiet
<1> QED  BY <1>4, <1>5, <1>6, <1>7, <1>8

\* A call of the application begins, and ends with an answer.
LEMMA ApplicationSteps ==
    ASSUME Whole, Answer \/ \E url \in Requests : Request(url)
    PROVE  Promise!Next
<1>1. CASE Answer
  <2>1. /\ BeingResolved = {} /\ BeingResolved' = {} /\ UNCHANGED fetched
        /\ CallStatus = "running" /\ CallStatus' = "ok"
    BY <1>1 DEF Answer, BeingResolved, CallStatus, fetcher
  <2> QED  BY <2>1 DEF Promise!Next, Promise!Succeed, Read
<1>2. ASSUME NEW url \in Requests, Request(url) PROVE Promise!Next
  <2>1. /\ stack = <<>> /\ ret = NoRet /\ UNCHANGED fetched
        /\ stack' = <<RefFrame("string", url, Text, DocUrl(url), {}, TRUE)>>
    BY <1>2 DEF Request, fetcher
  <2>2. CallStatus # "running" /\ CallStatus' = "running"
    <3>1. result.status \in {"none", "ok"} => result.status # "running"
      OBVIOUS
    <3> QED  BY <2>1, <3>1 DEF CallStatus
  <2>3. BeingResolved = {} /\ BeingResolved' = {}
    BY <2>1 DEF BeingResolved, Loading, RefFrame
  <2> QED  BY <2>1, <2>2, <2>3 DEF Promise!Next, Promise!Ask, Read
<1> QED  BY <1>1, <1>2

LEMMA StepImplements ==
    Whole /\ Once /\ [Next]_vars => [Promise!Next]_(Promise!loads)
<1> SUFFICES ASSUME Whole, Once, [Next]_vars PROVE [Promise!Next]_(Promise!loads)
  OBVIOUS
<1>1. Text \in Addrs
  BY DEF Addrs
<1>2. CASE RejectDirective \/ ReportMissing \/ LoadFails
  <2>1. stack # <<>> /\ UNCHANGED fetched /\ Raise("invalid")
    BY <1>2 DEF RejectDirective, ReportMissing, LoadFails, Running, fetcher
  <2> QED  BY <2>1, RaiseStep DEF Statuses
<1>3. CASE Overflow
  BY <1>3, RaiseStep DEF Overflow, Statuses, fetcher
<1>4. CASE ReturnIndexed \/ Include \/ ReturnScalar \/ Finish
  BY <1>4, ReturnValues, QuietStep, RaiseStep
<1>5. CASE RefResolved
  BY <1>5, ResolvedStep
<1>6. CASE Load
  BY <1>6, LoadStep
<1>7. CASE LoadMixin
  BY <1>7, MixinStep
<1>8. CASE FollowDirective \/ OpenSeq \/ OpenMap \/ OpenGraph \/ Descend \/ ReplaceKid \/ SpliceKids
  BY <1>8, LoopSteps
<1>9. CASE Answer \/ \E url \in Requests : Request(url)
  BY <1>9, ApplicationSteps
<1>10. CASE UNCHANGED vars
  BY <1>10, Stutters DEF vars, BeingResolved, Loading, CallStatus
<1> QED
  BY <1>2, <1>3, <1>4, <1>5, <1>6, <1>7, <1>8, <1>9, <1>10 DEF Next, Step

\* Loader.resolve_ref and resolve_all read each document once and resolve it in one call at a
\* time, on every web of documents: every step of the recursion is a step of the abstract loader
\* or one that it does not see.
THEOREM Implements == Spec => KeepsPromise
<1>1. Init => Promise!Init
  BY DEF Init, Promise!Init, Read, BeingResolved, CallStatus, Idle
<1>2. Init => Whole /\ Once
  BY InitOK, InitOnce
<1>3. Whole /\ Once /\ [Next]_vars => (Whole /\ Once)'
  BY NextOK, StepOnce
<1> QED  BY <1>1, <1>2, <1>3, StepImplements, PTL DEF Spec, KeepsPromise, Promise!Spec

=============================================================================
