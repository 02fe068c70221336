------------------------ MODULE ResourceCacheProofs ------------------------
(***************************************************************************)
(* Proofs about ResourceCache, for any loaders, options, caches, schemas,  *)
(* outages and calls.                                                      *)
(***************************************************************************)
EXTENDS ResourceCache, SequenceTheorems, TLAPS

\* The first element and the rest of a sequence.
LEMMA HeadAndTail ==
    ASSUME NEW S, NEW s \in Seq(S), s # <<>>
    PROVE  /\ Head(s) \in S
           /\ Tail(s) \in Seq(S)
           /\ ToSet(s) \subseteq {Head(s)} \union ToSet(Tail(s))
<1>1. Len(s) \in Nat /\ Len(s) # 0 /\ DOMAIN s = 1 .. Len(s)
  BY EmptySeq
<1>2. Head(s) \in S /\ Tail(s) \in Seq(S) /\ Head(s) = s[1] /\ Len(Tail(s)) = Len(s) - 1
      /\ \A i \in 1 .. Len(Tail(s)) : Tail(s)[i] = s[i + 1]
  BY HeadTailProperties
<1>3. ASSUME NEW i \in 1 .. Len(s)
      PROVE  s[i] \in {Head(s)} \union ToSet(Tail(s))
  <2>1. CASE i = 1
    BY <1>2, <2>1
  <2>2. CASE i # 1
    <3>1. i - 1 \in 1 .. Len(Tail(s)) /\ (i - 1) + 1 = i
      BY <1>1, <1>2, <2>2
    <3>2. Tail(s)[i - 1] = s[i] /\ i - 1 \in DOMAIN Tail(s)
      BY <1>2, <3>1
    <3> QED  BY <3>2 DEF ToSet
  <2> QED  BY <2>1, <2>2
<1> QED  BY <1>1, <1>2, <1>3 DEF ToSet

----------------------------------------------------------------------------
(* The inductive invariant.  A call that is merging has something that is   *)
(* not in the cache's tables yet: what it has parsed lies in the cache      *)
(* already, and only the call itself holds the graph.                       *)

\* The list that is being merged is not in the table: its entry will replace none.
MergesNew == call.op = "graph" => SchemasOf[call.who] \notin DOMAIN merged[CacheOf[call.who]]

\* Only LoadingOptions keep merged graphs.
OptionsMerge == \A c \in Caches : (\A o \in Options : CacheOf[o] # c) => DOMAIN merged[c] = {}

Preset(l, u) == cache[CacheOf[l]][u] = "text"

\* What a loader has asked for is still to be looked at, or was dealt with.
InProgress ==
    call.op = "add" /\ Alone(call.who) =>
        \A u \in call.asked \ call.failed :
            u \in ToSet(call.todo) \/ u \in graph[call.who] \/ Preset(call.who, u)

ResultOK == result.op = "add" => result.who \in Loaders /\ result.asked \subseteq Urls

IInv ==
    /\ TypeOK /\ CacheIsEarned /\ NothingParsedInVain /\ AskedIsLoaded
    /\ MergesNew /\ OptionsMerge /\ InProgress /\ ResultOK

----------------------------------------------------------------------------
(* A step at a time. *)

LEMMA NothingAsked == ToSet(<< >>) = {}
<1>1. DOMAIN << >> = {}
  OBVIOUS
<1> QED  BY <1>1 DEF ToSet

LEMMA NoCallType ==
    /\ NoCall \in [op : {"idle", "add", "graph"}, who : Loaders \union Options \union {""},
                   todo : Seq(Urls), asked : SUBSET Urls, graph : SUBSET Urls, failed : SUBSET Urls]
    /\ NoCall.op = "idle"
<1>1. << >> \in Seq(Urls)
  OBVIOUS
<1> QED  BY <1>1 DEF NoCall

LEMMA Bounds == MaxOutages \in Nat /\ MaxCalls \in Nat
  BY CacheAssumption

LEMMA CountCall ==
    ASSUME Counted, calls < MaxCalls, calls' = calls + 1, outages' = outages
    PROVE  Counted'
  BY Bounds DEF Counted

LEMMA CountOutage ==
    ASSUME Counted, outages < MaxOutages, outages' = outages + 1, calls' = calls
    PROVE  Counted'
  BY Bounds DEF Counted

\* What is merged depends on what is merged and on the call in hand.
LEMMA SameMerged ==
    ASSUME NEW c \in Caches, graph' = graph, merged' = merged,
           call' = call \/ (call.op # "graph" /\ call'.op # "graph")
    PROVE  Merged(c)' = Merged(c)
  BY DEF Merged

LEMMA MergedGrows ==
    ASSUME NEW c \in Caches, merged' = merged, \A l \in Loaders : graph[l] \subseteq graph'[l],
           call'.op = call.op, call'.who = call.who, call.graph \subseteq call'.graph
    PROVE  Merged(c) \subseteq Merged(c)'
<1> DEFINE InHand == IF call.op = "graph" /\ CacheOf[call.who] = c THEN call.graph ELSE {}
<1>1. ASSUME NEW u, u \in InHand PROVE u \in Merged(c)'
  BY <1>1 DEF Merged
<1>2. ASSUME NEW l \in Loaders, CacheOf[l] = c, NEW u \in graph[l] PROVE u \in Merged(c)'
  BY <1>2 DEF Merged
<1>3. ASSUME NEW names \in DOMAIN merged[c], NEW u \in merged[c][names] PROVE u \in Merged(c)'
  BY <1>3 DEF Merged
<1>4. ASSUME NEW u \in Merged(c)
      PROVE  \/ u \in InHand
             \/ \E l \in Loaders : CacheOf[l] = c /\ u \in graph[l]
             \/ \E names \in DOMAIN merged[c] : u \in merged[c][names]
  BY <1>4 DEF Merged
<1> QED  BY <1>1, <1>2, <1>3, <1>4

LEMMA InitInv == Init => IInv
<1> SUFFICES ASSUME Init PROVE IInv
  OBVIOUS
<1> USE CacheAssumption
<1>0. << >> \in Tables /\ DOMAIN << >> = {}
  <2>1. << >> \in [{} -> SUBSET Urls] /\ {} \in SUBSET Lists
    OBVIOUS
  <2> QED  BY <2>1 DEF Tables
<1>1. TypeOK
  <2>1. cache \in [Caches -> [Urls -> Entries]]
    BY DEF Init, Entries
  <2>2. call \in [op : {"idle", "add", "graph"}, who : Loaders \union Options \union {""},
                  todo : Seq(Urls), asked : SUBSET Urls, graph : SUBSET Urls, failed : SUBSET Urls]
        /\ call.op = "idle"
    BY NoCallType DEF Init
  <2>3. Counted
    BY Bounds DEF Init, Counted
  <2> QED  BY <1>0, <2>1, <2>2, <2>3 DEF Init, TypeOK
<1>2. CacheIsEarned /\ NothingParsedInVain
  BY DEF Init, CacheIsEarned, NothingParsedInVain
<1>3. AskedIsLoaded /\ ResultOK
  BY DEF Init, AskedIsLoaded, ResultOK, NoResult
<1>4. MergesNew /\ OptionsMerge /\ InProgress
  BY <1>0 DEF Init, MergesNew, OptionsMerge, InProgress, NoCall
<1> QED  BY <1>1, <1>2, <1>3, <1>4 DEF IInv

\* A step of the network, or a call that changes neither the cache nor what is merged.
LEMMA ChangeInv == ASSUME IInv, NEW u \in Urls, Change(u) PROVE IInv'
<1>c. Counted'
  BY CountOutage DEF IInv, Change, TypeOK
<1>1. TypeOK'
  BY <1>c, CacheAssumption DEF IInv, TypeOK, Change
<1>2. CacheIsEarned' /\ NothingParsedInVain'
  BY DEF IInv, CacheIsEarned, NothingParsedInVain, Merged, Change
<1>3. AskedIsLoaded' /\ ResultOK'
  BY DEF IInv, AskedIsLoaded, ResultOK, Alone, Change
<1>4. MergesNew' /\ OptionsMerge' /\ InProgress'
  BY DEF IInv, MergesNew, OptionsMerge, InProgress, Alone, Preset, Change
<1> QED  BY <1>1, <1>2, <1>3, <1>4 DEF IInv

LEMMA LoadSchemaInv == ASSUME IInv, NEW c \in Caches, LoadSchema(c) PROVE IInv'
<1> USE DEF IInv, LoadSchema, Called, Idle
<1>0. /\ \A d \in Caches, u \in Urls :
            cache'[d][u] = cache[d][u] \/ (cache[d][u] = "none" /\ cache'[d][u] = "text")
      /\ cache' \in [Caches -> [Urls -> Entries]]
  BY DEF TypeOK, Entries
<1>c. Counted'
  BY CountCall DEF TypeOK
<1>1. TypeOK'
  BY <1>c, <1>0, CacheAssumption DEF TypeOK
<1>2. CacheIsEarned' /\ NothingParsedInVain'
  BY <1>0, SameMerged DEF CacheIsEarned, NothingParsedInVain
<1>3. AskedIsLoaded' /\ ResultOK'
  BY <1>0, CacheAssumption DEF AskedIsLoaded, ResultOK, Alone
<1>4. MergesNew' /\ OptionsMerge' /\ InProgress'
  BY DEF MergesNew, OptionsMerge, InProgress
<1> QED  BY <1>1, <1>2, <1>3, <1>4

LEMMA FetchTextInv == ASSUME IInv, NEW l \in Loaders, NEW u \in Urls, FetchText(l, u) PROVE IInv'
<1> USE DEF IInv, FetchText, Called, Idle, Returned
<1>c. Counted'
  BY CountCall DEF TypeOK
<1>1. TypeOK'
  BY <1>c, CacheAssumption DEF TypeOK
<1>2. CacheIsEarned' /\ NothingParsedInVain'
  BY SameMerged DEF CacheIsEarned, NothingParsedInVain
<1>3. AskedIsLoaded' /\ ResultOK'
  BY DEF AskedIsLoaded, ResultOK
<1>4. MergesNew' /\ OptionsMerge' /\ InProgress'
  BY DEF MergesNew, OptionsMerge, InProgress
<1> QED  BY <1>1, <1>2, <1>3, <1>4

LEMMA CheckExistsInv == ASSUME IInv, NEW l \in Loaders, NEW u \in Urls, CheckExists(l, u) PROVE IInv'
<1> USE DEF IInv, CheckExists, Called, Idle, Returned
<1>0. /\ \A d \in Caches, v \in Urls :
            cache'[d][v] = cache[d][v] \/ (cache'[d][v] = "exists" /\ v \in seen')
      /\ cache' \in [Caches -> [Urls -> Entries]]
      /\ seen \subseteq seen'
  BY CacheAssumption DEF TypeOK, Entries
<1>c. Counted'
  BY CountCall DEF TypeOK
<1>1. TypeOK'
  BY <1>c, <1>0, CacheAssumption DEF TypeOK
<1>2. CacheIsEarned' /\ NothingParsedInVain'
  BY <1>0, SameMerged DEF CacheIsEarned, NothingParsedInVain
<1>3. AskedIsLoaded' /\ ResultOK'
  BY DEF AskedIsLoaded, ResultOK
<1>4. MergesNew' /\ OptionsMerge' /\ InProgress'
  BY DEF MergesNew, OptionsMerge, InProgress
<1> QED  BY <1>1, <1>2, <1>3, <1>4

LEMMA AddSchemasInv ==
    ASSUME IInv, NEW l \in Loaders, NEW schemas \in Requested, AddSchemas(l, schemas)
    PROVE  IInv'
<1> USE DEF IInv, AddSchemas, Called, Idle, NoCall
<1>0. schemas \in Seq(Urls) /\ ToSet(schemas) \subseteq Urls
  BY CacheAssumption DEF ToSet
<1>c. Counted'
  BY CountCall DEF TypeOK
<1>1. TypeOK'
  BY <1>c, <1>0, CacheAssumption DEF TypeOK
<1>2. CacheIsEarned' /\ NothingParsedInVain'
  BY SameMerged DEF CacheIsEarned, NothingParsedInVain
<1>3. AskedIsLoaded' /\ ResultOK'
  BY DEF AskedIsLoaded, ResultOK, Alone
<1>4. MergesNew' /\ OptionsMerge' /\ InProgress'
  BY DEF MergesNew, OptionsMerge, InProgress
<1> QED  BY <1>1, <1>2, <1>3, <1>4

LEMMA GraphCachedInv == ASSUME IInv, NEW o \in Options, GraphCached(o) PROVE IInv'
<1> USE DEF IInv, GraphCached, Called, Idle, Returned
<1>c. Counted'
  BY CountCall DEF TypeOK
<1>1. TypeOK'
  BY <1>c, CacheAssumption DEF TypeOK
<1>2. CacheIsEarned' /\ NothingParsedInVain'
  BY SameMerged DEF CacheIsEarned, NothingParsedInVain
<1>3. AskedIsLoaded' /\ ResultOK'
  BY DEF AskedIsLoaded, ResultOK
<1>4. MergesNew' /\ OptionsMerge' /\ InProgress'
  BY DEF MergesNew, OptionsMerge, InProgress
<1> QED  BY <1>1, <1>2, <1>3, <1>4

LEMMA MergeGraphInv == ASSUME IInv, NEW o \in Options, MergeGraph(o) PROVE IInv'
<1> USE DEF IInv, MergeGraph, Called, Idle, NoCall
<1>0. Schemas(o) \in Seq(Urls) /\ ToSet(Schemas(o)) \subseteq Urls
  BY CacheAssumption DEF ToSet
<1>c. Counted'
  BY CountCall DEF TypeOK
<1>1. TypeOK'
  BY <1>c, <1>0, CacheAssumption DEF TypeOK
<1>2. CacheIsEarned' /\ NothingParsedInVain'
  BY DEF CacheIsEarned, NothingParsedInVain, Merged
<1>3. AskedIsLoaded' /\ ResultOK'
  BY DEF AskedIsLoaded, ResultOK, Alone
<1>4. MergesNew' /\ OptionsMerge' /\ InProgress'
  BY DEF MergesNew, OptionsMerge, InProgress
<1> QED  BY <1>1, <1>2, <1>3, <1>4

\* What the loops do to a call: its first schema is dealt with.
LEMMA NextSchema ==
    ASSUME IInv, Busy
    PROVE  /\ call.who \in Loaders \union Options /\ Here \in Caches /\ This \in Urls
           /\ Tail(call.todo) \in Seq(Urls)
           /\ ToSet(call.todo) \subseteq {This} \union ToSet(Tail(call.todo))
  BY HeadAndTail, CacheAssumption DEF IInv, TypeOK, Busy, Idle, Here, This

\* A step of add_schemas for a loader that is alone: what it asked for but for this schema is
\* as it was, and this one is dealt with.
LEMMA Progress ==
    ASSUME IInv, Busy, call' = [call EXCEPT !.todo = Tail(@), !.graph = call'.graph,
                                            !.failed = call'.failed],
           call.op = "add", Alone(call.who),
           call.failed \subseteq call'.failed,
           graph[call.who] \subseteq graph'[call.who],
           \A u \in Urls : cache[Here][u] = "text" => cache'[Here][u] = "text",
           This \in call'.failed \/ This \in graph'[call.who] \/ cache'[Here][This] = "text"
    PROVE  InProgress'
<1>1. /\ call'.who = call.who /\ call'.asked = call.asked /\ call'.todo = Tail(call.todo)
      /\ call.asked \subseteq Urls
  BY DEF IInv, TypeOK
<1>2. ASSUME NEW u \in call.asked \ call'.failed
      PROVE  u \in ToSet(Tail(call.todo)) \/ u \in graph'[call.who] \/ cache'[Here][u] = "text"
  <2>1. u \in Urls /\ u \in call.asked \ call.failed
    BY <1>1, <1>2
  <2>2. u \in ToSet(call.todo) \/ u \in graph[call.who] \/ cache[Here][u] = "text"
    BY <2>1 DEF IInv, InProgress, Preset, Here
  <2>3. u \in ToSet(call.todo) => u = This \/ u \in ToSet(Tail(call.todo))
    BY NextSchema
  <2> QED  BY <1>2, <2>1, <2>2, <2>3
<1> QED  BY <1>1, <1>2 DEF InProgress, Preset, Here

LEMMA SkipInv == ASSUME IInv, Skip PROVE IInv'
<1> USE DEF IInv, Skip
<1>0. Busy /\ Here \in Caches /\ This \in Urls /\ Tail(call.todo) \in Seq(Urls)
  BY NextSchema
<1>1. TypeOK'
  BY <1>0 DEF TypeOK, Counted
<1>2. CacheIsEarned' /\ NothingParsedInVain'
  <2>1. /\ call'.op = call.op /\ call'.who = call.who /\ call'.graph = call.graph
        /\ graph' = graph /\ merged' = merged /\ cache' = cache
    BY DEF TypeOK
  <2>2. \A c \in Caches : Merged(c) \subseteq Merged(c)'
    BY <2>1, MergedGrows
  <2> QED  BY <2>1, <2>2 DEF CacheIsEarned, NothingParsedInVain
<1>3. AskedIsLoaded' /\ ResultOK' /\ MergesNew' /\ OptionsMerge'
  BY DEF AskedIsLoaded, ResultOK, MergesNew, OptionsMerge, TypeOK
<1>4. InProgress'
  <2>1. SUFFICES ASSUME call.op = "add", Alone(call.who) PROVE InProgress'
    BY DEF InProgress, TypeOK
  <2>2. This \in graph[call.who] \/ cache[Here][This] = "text"
    <3>1. cache[Here][This] \in {"text", "graph"}
      <4>1. cache[Here][This] \in Entries
        BY <1>0 DEF TypeOK
      <4> QED  BY <4>1 DEF Wanted, Entries
    <3>2. CASE cache[Here][This] = "graph"
      <4>1. This \in Merged(Here) /\ call.who \in Loaders
        BY <1>0, <2>1, <3>2 DEF NothingParsedInVain, TypeOK
      <4>2. \A o \in Options : CacheOf[o] # Here
        BY <2>1, <4>1, CacheAssumption DEF Alone, Here
      <4>3. DOMAIN merged[Here] = {}
        BY <1>0, <4>2 DEF OptionsMerge
      <4>4. \A l \in Loaders : CacheOf[l] = Here => l = call.who
        BY <2>1, <4>1 DEF Alone, Here
      <4> QED  BY <2>1, <4>1, <4>3, <4>4 DEF Merged
    <3>3. CASE cache[Here][This] = "text"
      BY <3>3
    <3> QED  BY <3>1, <3>2, <3>3
  <2>3. /\ call' = [call EXCEPT !.todo = Tail(@), !.graph = call'.graph, !.failed = call'.failed]
        /\ call'.failed = call.failed /\ graph' = graph /\ cache' = cache
    BY DEF TypeOK
  <2> QED  BY <1>0, <2>1, <2>2, <2>3, Progress
<1> QED  BY <1>1, <1>2, <1>3, <1>4

\* A schema that cannot be retrieved or parsed.
LEMMA FailedInv ==
    ASSUME IInv, Busy, call' = [call EXCEPT !.todo = Tail(@), !.failed = @ \union {This}],
           seen \subseteq seen', seen' \subseteq Urls,
           UNCHANGED <<up, cache, merged, graph, result, outages, calls>>
    PROVE  IInv'
<1> USE DEF IInv
<1>0. Here \in Caches /\ This \in Urls /\ Tail(call.todo) \in Seq(Urls)
  BY NextSchema
<1>1. TypeOK'
  BY <1>0 DEF TypeOK, Counted
<1>2. CacheIsEarned' /\ NothingParsedInVain'
  <2>1. /\ call'.op = call.op /\ call'.who = call.who /\ call'.graph = call.graph
        /\ graph' = graph /\ merged' = merged /\ cache' = cache
    BY DEF TypeOK
  <2>2. \A c \in Caches : Merged(c) \subseteq Merged(c)'
    BY <2>1, MergedGrows
  <2> QED  BY <2>1, <2>2 DEF CacheIsEarned, NothingParsedInVain
<1>3. AskedIsLoaded' /\ ResultOK' /\ MergesNew' /\ OptionsMerge'
  BY DEF AskedIsLoaded, ResultOK, MergesNew, OptionsMerge, TypeOK
<1>4. InProgress'
  <2>1. SUFFICES ASSUME call.op = "add", Alone(call.who) PROVE InProgress'
    BY DEF InProgress, TypeOK
  <2>2. /\ call' = [call EXCEPT !.todo = Tail(@), !.graph = call'.graph, !.failed = call'.failed]
        /\ call'.failed = call.failed \union {This}
    BY DEF TypeOK
  <2> QED  BY <1>0, <2>1, <2>2, Progress
<1> QED  BY <1>1, <1>2, <1>3, <1>4

LEMMA MergeInv == ASSUME IInv, Merge PROVE IInv'
<1> USE DEF IInv, Merge
<1>0. /\ Busy /\ Here \in Caches /\ This \in Urls /\ Tail(call.todo) \in Seq(Urls)
      /\ call.who \in Loaders \union Options
  BY NextSchema
<1>1. /\ \A c \in Caches, u \in Urls :
            cache'[c][u] = cache[c][u] \/ (c = Here /\ u = This /\ cache'[c][u] = "graph")
      /\ cache' \in [Caches -> [Urls -> Entries]]
      /\ \A c \in Caches, u \in Urls : cache[c][u] = "text" => cache'[c][u] = "text"
  BY <1>0 DEF TypeOK, Entries, Wanted
<1>2. /\ call'.op = call.op /\ call'.who = call.who /\ call'.asked = call.asked
      /\ call'.failed = call.failed /\ call'.graph = call.graph \union {This}
      /\ call'.todo = Tail(call.todo)
  BY DEF TypeOK
<1>3. /\ graph' \in [Loaders -> SUBSET Urls]
      /\ \A l \in Loaders : graph[l] \subseteq graph'[l]
      /\ call.op = "add" => graph'[call.who] = graph[call.who] \union {This}
  BY <1>0 DEF TypeOK
<1>4. TypeOK'
  <2>1. call' \in [op : {"idle", "add", "graph"}, who : Loaders \union Options \union {""},
                   todo : Seq(Urls), asked : SUBSET Urls, graph : SUBSET Urls, failed : SUBSET Urls]
    BY <1>0 DEF TypeOK
  <2>2. seen' \subseteq Urls /\ Counted'
    BY <1>0 DEF TypeOK, Counted
  <2> QED  BY <1>1, <1>2, <1>3, <2>1, <2>2 DEF TypeOK
<1>5. CacheIsEarned'
  BY <1>1 DEF CacheIsEarned
<1>6. NothingParsedInVain'
  <2>1. \A c \in Caches : Merged(c) \subseteq Merged(c)'
    BY <1>2, <1>3, MergedGrows
  <2>2. This \in Merged(Here)'
    <3>1. CASE call.op = "add"
      <4>1. call.who \in Loaders /\ CacheOf[call.who] = Here /\ This \in graph'[call.who]
        BY <1>3, <3>1 DEF TypeOK, Here
      <4> QED  BY <1>2, <4>1 DEF Merged, Here
    <3>2. CASE call.op = "graph"
      BY <1>2, <3>2 DEF Merged, Here
    <3> QED  BY <1>0, <3>1, <3>2 DEF Busy, Idle, TypeOK
  <2>3. Here' = Here
    BY <1>2 DEF Here
  <2> QED  BY <1>1, <2>1, <2>2, <2>3 DEF NothingParsedInVain
<1>7. AskedIsLoaded' /\ ResultOK'
  BY <1>1, <1>3, CacheAssumption DEF AskedIsLoaded, ResultOK, Alone
<1>8. MergesNew' /\ OptionsMerge'
  BY <1>2, <1>3 DEF MergesNew, OptionsMerge
<1>9. InProgress'
  <2>1. SUFFICES ASSUME call.op = "add", Alone(call.who) PROVE InProgress'
    BY <1>2 DEF InProgress, Alone
  <2>2. call' = [call EXCEPT !.todo = Tail(@), !.graph = call'.graph, !.failed = call'.failed]
    BY DEF TypeOK
  <2>3. call.who \in Loaders /\ CacheOf[call.who] \in Caches
    BY <2>1, CacheAssumption DEF TypeOK
  <2> QED  BY <1>0, <1>1, <1>2, <1>3, <2>1, <2>2, <2>3, Progress
<1> QED  BY <1>4, <1>5, <1>6, <1>7, <1>8, <1>9

LEMMA ReturnInv == ASSUME IInv, Return PROVE IInv'
<1> USE DEF IInv, Return, Returned
<1>1. /\ call'.op = "idle" /\ call' = NoCall /\ call.op \in {"add", "graph"}
      /\ call.who \in Loaders \union Options /\ Here \in Caches
  BY CacheAssumption, NoCallType DEF TypeOK, Idle, Here
<1>0. /\ call' \in [op : {"idle", "add", "graph"}, who : Loaders \union Options \union {""},
                  todo : Seq(Urls), asked : SUBSET Urls, graph : SUBSET Urls, failed : SUBSET Urls]
      /\ Counted'
  <2>1. Counted'
    BY DEF TypeOK, Counted
  <2> QED  BY <1>1, <2>1, NoCallType
<1>2. CASE call.op = "add"
  <2>1. merged' = merged /\ call.who \in Loaders
    BY <1>2 DEF TypeOK
  <2>2. TypeOK'
    BY <1>0, <1>1, <2>1 DEF TypeOK
  <2>3. CacheIsEarned' /\ NothingParsedInVain'
    BY <1>1, <1>2, <2>1, SameMerged DEF CacheIsEarned, NothingParsedInVain
  <2>4. MergesNew' /\ OptionsMerge' /\ InProgress'
    BY <1>1, <2>1 DEF MergesNew, OptionsMerge, InProgress
  <2>5. ResultOK'
    BY <1>2, <2>1 DEF ResultOK, TypeOK
  <2>6. AskedIsLoaded'
    <3>1. /\ result'.who = call.who /\ result'.asked = call.asked /\ result'.failed = call.failed
          /\ graph' = graph /\ cache' = cache
      OBVIOUS
    <3>2. ToSet(call.todo) = {}
      BY NothingAsked
    <3> QED  BY <1>2, <3>1, <3>2 DEF AskedIsLoaded, InProgress, Alone, Preset
  <2> QED  BY <2>2, <2>3, <2>4, <2>5, <2>6
<1>3. CASE call.op = "graph"
  <2> DEFINE list == SchemasOf[call.who]
  <2>1. /\ call.who \in Options /\ call.graph \in SUBSET Urls /\ merged[Here] \in Tables
        /\ merged' = [merged EXCEPT ![Here] = Keep(merged[Here], list, call.graph)]
        /\ list \notin DOMAIN merged[Here] /\ list \in Lists
    BY <1>1, <1>3 DEF TypeOK, MergesNew, Here, Lists
  <2>2. /\ Keep(merged[Here], list, call.graph) \in Tables
        /\ \A names \in DOMAIN merged[Here] :
              Keep(merged[Here], list, call.graph)[names] = merged[Here][names]
        /\ Keep(merged[Here], list, call.graph)[list] = call.graph
        /\ DOMAIN Keep(merged[Here], list, call.graph) = DOMAIN merged[Here] \union {list}
    <3>1. PICK lists \in SUBSET Lists : merged[Here] \in [lists -> SUBSET Urls]
      BY <2>1 DEF Tables
    <3>2. Keep(merged[Here], list, call.graph) \in [lists \union {list} -> SUBSET Urls]
      BY <2>1, <3>1 DEF Keep
    <3>3. lists \union {list} \in SUBSET Lists
      BY <2>1
    <3> QED  BY <2>1, <3>1, <3>2, <3>3 DEF Keep, Tables
  <2> HIDE DEF list
  <2>3. TypeOK'
    <3>1. merged' \in [Caches -> Tables]
      BY <1>1, <2>1, <2>2 DEF TypeOK
    <3> QED  BY <1>0, <1>1, <3>1 DEF TypeOK
  <2>4. \A c \in Caches : Merged(c) \subseteq Merged(c)'
    <3>1. TAKE c \in Caches
    <3>2. DOMAIN merged[c] \subseteq DOMAIN merged'[c]
          /\ \A names \in DOMAIN merged[c] : merged'[c][names] = merged[c][names]
      BY <1>1, <2>1, <2>2 DEF TypeOK
    <3>3. ASSUME c = Here, NEW u \in call.graph PROVE u \in Merged(c)'
      <4>1. list \in DOMAIN merged'[c] /\ merged'[c][list] = call.graph
        BY <1>1, <2>1, <2>2, <3>3 DEF TypeOK
      <4> QED  BY <3>3, <4>1 DEF Merged
    <3>4. ASSUME NEW names \in DOMAIN merged[c], NEW u \in merged[c][names] PROVE u \in Merged(c)'
      BY <3>2, <3>4 DEF Merged
    <3>5. ASSUME NEW l \in Loaders, CacheOf[l] = c, NEW u \in graph[l] PROVE u \in Merged(c)'
      BY <3>5 DEF Merged
    <3>6. ASSUME NEW u \in Merged(c)
          PROVE  \/ c = Here /\ u \in call.graph
                 \/ \E l \in Loaders : CacheOf[l] = c /\ u \in graph[l]
                 \/ \E names \in DOMAIN merged[c] : u \in merged[c][names]
      BY <3>6 DEF Merged, Here
    <3> QED  BY <3>3, <3>4, <3>5, <3>6
  <2>5. CacheIsEarned' /\ NothingParsedInVain'
    BY <2>4 DEF CacheIsEarned, NothingParsedInVain
  <2>6. OptionsMerge'
    BY <1>1, <2>1 DEF OptionsMerge, TypeOK, Here
  <2>7. MergesNew' /\ InProgress'
    BY <1>1 DEF MergesNew, InProgress
  <2>8. AskedIsLoaded' /\ ResultOK'
    BY <1>3 DEF AskedIsLoaded, ResultOK
  <2> QED  BY <2>3, <2>5, <2>6, <2>7, <2>8
<1> QED  BY <1>1, <1>2, <1>3

LEMMA NextInv == IInv /\ [Next]_vars => IInv'
<1> SUFFICES ASSUME IInv, [Next]_vars PROVE IInv'
  OBVIOUS
<1>1. ASSUME NEW u \in Urls, Change(u) PROVE IInv'
  BY <1>1, ChangeInv
<1>2. ASSUME NEW c \in Caches, LoadSchema(c) PROVE IInv'
  BY <1>2, LoadSchemaInv
<1>3. ASSUME NEW l \in Loaders, NEW u \in Urls, FetchText(l, u) \/ CheckExists(l, u) PROVE IInv'
  BY <1>3, FetchTextInv, CheckExistsInv
<1>4. ASSUME NEW l \in Loaders, NEW schemas \in Requested, AddSchemas(l, schemas) PROVE IInv'
  BY <1>4, AddSchemasInv
<1>5. ASSUME NEW o \in Options, GraphCached(o) \/ MergeGraph(o) PROVE IInv'
  BY <1>5, GraphCachedInv, MergeGraphInv
<1>6. CASE Skip \/ Merge \/ Return
  BY <1>6, SkipInv, MergeInv, ReturnInv
<1>7. CASE Unavailable \/ Unparsed
  <2>1. This \in up /\ Unparsed => This \in Urls /\ seen \subseteq Urls
    BY DEF IInv, TypeOK
  <2> QED  BY <1>7, <2>1, FailedInv DEF Unavailable, Unparsed, IInv, TypeOK
<1>8. CASE UNCHANGED vars
  <2> USE <1>8 DEF IInv, vars
  <2>1. TypeOK' /\ CacheIsEarned'
    BY DEF TypeOK, Counted, CacheIsEarned
  <2>2. NothingParsedInVain'
    BY SameMerged DEF NothingParsedInVain
  <2>3. AskedIsLoaded' /\ ResultOK' /\ MergesNew' /\ OptionsMerge'
    BY DEF AskedIsLoaded, Alone, ResultOK, MergesNew, OptionsMerge
  <2>4. InProgress'
    BY DEF InProgress, Alone, Preset
  <2> QED  BY <2>1, <2>2, <2>3, <2>4
<1> QED  BY <1>1, <1>2, <1>3, <1>4, <1>5, <1>6, <1>7, <1>8 DEF Next, Step

LEMMA Invariant == Spec => []IInv
  BY InitInv, NextInv, PTL DEF Spec

----------------------------------------------------------------------------
(* What the cache promises. *)

\* The table of a cache holds texts, marks and graphs under URLs and merged graphs under lists
\* of schemas, and a call in hand belongs to the loader or the options that made it.
THEOREM Typed == Spec => []TypeOK
  BY Invariant, PTL DEF IInv

\* Whatever the loaders and options that share a cache do, and whenever resources come and
\* go, what is marked as existing or lies there as a graph was retrieved or seen: the marks of
\* check_exists and the graphs of add_schemas and LoadingOptions.graph are earned.
THEOREM Earned == Spec => []CacheIsEarned
  BY Invariant, PTL DEF IInv

\* Each graph in a cache is held by a loader with that cache, by a merged graph in it or by the
\* call in hand: what add_schemas and LoadingOptions.graph pass over is not lost.
THEOREM ParsedIsMerged == Spec => []NothingParsedInVain
  BY Invariant, PTL DEF IInv

\* A loader that shares its cache with nobody gets from add_schemas all that it asked for, but
\* for the failures it was warned of and the texts it was given.
THEOREM SchemasLoaded == Spec => []AskedIsLoaded
  BY Invariant, PTL DEF IInv

\* No step takes a text out of a cache that the application or load_schema put there.
THEOREM TextsStay == Spec => PresetTextStays
<1>1. ASSUME IInv, Next
      PROVE  \A c \in Caches, u \in Urls : cache[c][u] = "text" => cache'[c][u] = "text"
  <2> SUFFICES ASSUME NEW c \in Caches, NEW u \in Urls, cache[c][u] = "text"
               PROVE  cache'[c][u] = "text"
    OBVIOUS
  <2>1. CASE cache' = cache
    BY <2>1
  <2>2. ASSUME NEW d \in Caches, LoadSchema(d) PROVE cache'[c][u] = "text"
    BY <1>1, <2>2 DEF LoadSchema, IInv, TypeOK
  <2>3. ASSUME NEW l \in Loaders, NEW v \in Urls, CheckExists(l, v) PROVE cache'[c][u] = "text"
    BY <1>1, <2>3, CacheAssumption DEF CheckExists, IInv, TypeOK
  <2>4. CASE Merge
    BY <1>1, <2>4, NextSchema DEF Merge, Wanted, IInv, TypeOK
  <2> QED  BY <1>1, <2>1, <2>2, <2>3, <2>4
             DEF Next, Step, Change, FetchText, AddSchemas, GraphCached, MergeGraph, Skip,
                 Unavailable, Unparsed, Return
<1> QED  BY <1>1, Invariant, PTL DEF Spec, PresetTextStays
=============================================================================
