--------------------------- MODULE ResourceCache ---------------------------
(***************************************************************************)
(* The cache that fetchers, loaders and the options of generated parsers   *)
(* share: fetcher.py, Loader.add_schemas, LoadingOptions.graph, load_schema. *)
(*                                                                         *)
(* One dictionary holds, under a URL, the text an application or            *)
(* load_schema put there, True when a HEAD request succeeded, or the RDF    *)
(* graph of an external schema; and, under the hash of a list of schemas,   *)
(* the merged graph of LoadingOptions.  Who may skip work is decided by     *)
(* what lies there, whoever put it there.                                  *)
(*                                                                         *)
(* A loader and its SubLoaders have one graph and one cache and are one     *)
(* element of Loaders.  A graph is the set of the schemas merged into it.   *)
(***************************************************************************)
EXTENDS Integers, SequencesExt

CONSTANTS
    Urls,       \* URLs of external schemas and documents
    Http,       \* those that are fetched over http; the others are files
    NotRdf,     \* those whose text no RDF parser accepts
    Presets,    \* the texts that the application may put there: [Caches -> SUBSET Urls]
    Vocabulary, \* the texts that load_schema copies from the metaschema's cache
    Loaders,    \* loaders
    Options,    \* LoadingOptions
    Caches,     \* caches
    CacheOf,    \* the cache of each of them
    Requested,  \* the lists of schemas that add_schemas may be given
    SchemasOf,  \* what $schemas holds for each LoadingOptions: names, as they are written
    UrlOf,      \* what a name stands for in the file of a LoadingOptions: [Options -> [name -> URL]]
    MaxOutages, \* bounds how often a URL appears or disappears
    MaxCalls    \* bounds the calls of the application

Entries == {"none", "text", "exists", "graph"}

\* The URLs of $schemas.
Schemas(o) == [i \in DOMAIN SchemasOf[o] |-> UrlOf[o][SchemasOf[o][i]]]

ASSUME CacheAssumption ==
    /\ Http \subseteq Urls /\ NotRdf \subseteq Urls /\ Vocabulary \subseteq Urls
    /\ Presets \subseteq [Caches -> SUBSET Urls]
    /\ Loaders \intersect Options = {}
    /\ CacheOf \in [Loaders \union Options -> Caches]
    /\ Requested \subseteq Seq(Urls)
    /\ \A o \in Options : Schemas(o) \in Seq(Urls)
    /\ MaxOutages \in Nat /\ MaxCalls \in Nat

VARIABLES
    up,      \* what can be retrieved now
    cache,   \* cache[c][u]: what is in cache c under the URL u
    merged,  \* merged[c]: the graphs in cache c under the hash of a list
    graph,   \* Loader.graph
    call,    \* the call in hand: who, what is left, what was asked, what it has merged and missed
    result,  \* what the last call returned: an existence check, a text or a merged graph
    seen,    \* history: what was retrieved, or seen to exist, so far
    outages, calls

vars == <<up, cache, merged, graph, call, result, seen, outages, calls>>

NoCall == [op |-> "idle", who |-> "", todo |-> <<>>, asked |-> {}, graph |-> {}, failed |-> {}]
NoResult == [op |-> "none", who |-> "", asked |-> {}, graph |-> {}, failed |-> {}]

Init ==
    /\ up \in SUBSET Urls
    /\ \E preset \in Presets :
          cache = [c \in Caches |-> [u \in Urls |-> IF u \in preset[c] THEN "text" ELSE "none"]]
    /\ merged = [c \in Caches |-> << >>]
    /\ graph = [l \in Loaders |-> {}]
    /\ call = NoCall
    /\ result = NoResult
    /\ seen = {}
    /\ outages = 0
    /\ calls = 0

Idle == call.op = "idle"

(***************************************************************************)
(* The network and the file system.                                        *)
(***************************************************************************)
Change(u) ==
    /\ outages < MaxOutages
    /\ up' = IF u \in up THEN up \ {u} ELSE up \union {u}
    /\ outages' = outages + 1
    /\ UNCHANGED <<cache, merged, graph, call, result, seen, calls>>

----------------------------------------------------------------------------
(* The application's calls. *)

Called == Idle /\ calls < MaxCalls /\ calls' = calls + 1

Returned(op, who, asked, answer, failed) ==
    result' = [op |-> op, who |-> who, asked |-> asked, graph |-> answer, failed |-> failed]

\* load_schema: texts of the metaschema that are not in the caller's cache.
LoadSchema(c) ==
    /\ Called
    /\ cache' = [cache EXCEPT ![c] = [u \in Urls |->
                    IF u \in Vocabulary /\ @[u] = "none" THEN "text" ELSE @[u]]]
    /\ UNCHANGED <<up, merged, graph, call, result, seen, outages>>

\* fetch_text takes a text from the cache and puts none there.
FetchText(l, u) ==
    /\ Called
    /\ LET cached == cache[CacheOf[l]][u] = "text"
       IN  /\ Returned("text", l, {u}, IF cached \/ u \in up THEN {u} ELSE {}, {u} \ up)
           /\ seen' = IF ~cached /\ u \in up THEN seen \union {u} ELSE seen
    /\ UNCHANGED <<up, cache, merged, graph, call, outages>>

\* Mutant: the URL is marked before the request is made.
CheckExistsEagerly(l, u) ==
    /\ Called
    /\ LET c == CacheOf[l]
       IN  /\ Returned("exists", l, {u}, {u}, {})
           /\ cache' = IF u \in Http THEN [cache EXCEPT ![c][u] = "exists"] ELSE cache
    /\ UNCHANGED <<up, merged, graph, call, seen, outages>>

\* check_exists: anything under the URL counts; the answer for a file is not kept.
CheckExists(l, u) ==
    /\ Called
    /\ LET c      == CacheOf[l]
           cached == cache[c][u] # "none"
       IN  /\ Returned("exists", l, {u}, IF cached \/ u \in up THEN {u} ELSE {}, {u} \ up)
           /\ cache' = IF ~cached /\ u \in up /\ u \in Http
                       THEN [cache EXCEPT ![c][u] = "exists"] ELSE cache
           /\ seen' = IF ~cached /\ u \in up THEN seen \union {u} ELSE seen
    /\ UNCHANGED <<up, merged, graph, call, outages>>

AddSchemas(l, schemas) ==
    /\ Called
    /\ call' = [NoCall EXCEPT !.op = "add", !.who = l, !.todo = schemas, !.asked = ToSet(schemas)]
    /\ UNCHANGED <<up, cache, merged, graph, result, seen, outages>>

\* The property LoadingOptions.graph: no schemas, or a list that was merged before, by these
\* options or by others whose list reads the same.
GraphCached(o) ==
    /\ Called
    /\ SchemasOf[o] = <<>> \/ SchemasOf[o] \in DOMAIN merged[CacheOf[o]]
    /\ Returned("graph", o, ToSet(Schemas(o)),
                IF SchemasOf[o] = <<>> THEN {} ELSE merged[CacheOf[o]][SchemasOf[o]], {})
    /\ UNCHANGED <<up, cache, merged, graph, call, seen, outages>>

MergeGraph(o) ==
    /\ Called
    /\ SchemasOf[o] # <<>> /\ SchemasOf[o] \notin DOMAIN merged[CacheOf[o]]
    /\ call' = [NoCall EXCEPT !.op = "graph", !.who = o, !.todo = Schemas(o),
                              !.asked = ToSet(Schemas(o))]
    /\ UNCHANGED <<up, cache, merged, graph, result, seen, outages>>

----------------------------------------------------------------------------
(* The loop over the schemas, the same in add_schemas and in graph. *)

Busy == ~Idle /\ call.todo # <<>>

Here == CacheOf[call.who]
This == Head(call.todo)

\* Mutant: what was not parsed is looked at again, a text that was put there too.
WantedUnparsed == cache[Here][This] # "graph"

\* Mutant: whatever is in the cache is left alone.
WantedAbsent == cache[Here][This] = "none"

\* Only an absent entry or a mark is looked at: not a graph that somebody else parsed.
Wanted == cache[Here][This] \in {"none", "exists"}

Skip ==
    /\ Busy /\ ~Wanted
    /\ call' = [call EXCEPT !.todo = Tail(@)]
    /\ UNCHANGED <<up, cache, merged, graph, result, seen, outages, calls>>

\* Mutant: the request is made until it succeeds.
UnavailableAgain ==
    /\ Busy /\ Wanted /\ This \notin up
    /\ call' = [call EXCEPT !.failed = @ \union {This}]
    /\ UNCHANGED <<up, cache, merged, graph, result, seen, outages, calls>>

\* "Could not load extension schema": the next one is tried.
Unavailable ==
    /\ Busy /\ Wanted /\ This \notin up
    /\ call' = [call EXCEPT !.todo = Tail(@), !.failed = @ \union {This}]
    /\ UNCHANGED <<up, cache, merged, graph, result, seen, outages, calls>>

\* Every RDF format is tried; the text is not kept.
Unparsed ==
    /\ Busy /\ Wanted /\ This \in up /\ This \in NotRdf
    /\ call' = [call EXCEPT !.todo = Tail(@), !.failed = @ \union {This}]
    /\ seen' = seen \union {This}
    /\ UNCHANGED <<up, cache, merged, graph, result, outages, calls>>

\* Mutant: the graph is entered into the cache, and merged when the entry is new.
MergeNew ==
    /\ Busy /\ Wanted /\ This \in up /\ This \notin NotRdf
    /\ cache' = [cache EXCEPT ![Here][This] = "graph"]
    /\ call' = [call EXCEPT !.todo = Tail(@), !.graph = @ \union {This}]
    /\ graph' = IF call.op = "add" /\ cache[Here][This] = "none"
                THEN [graph EXCEPT ![call.who] = @ \union {This}] ELSE graph
    /\ seen' = seen \union {This}
    /\ UNCHANGED <<up, merged, result, outages, calls>>

Merge ==
    /\ Busy /\ Wanted /\ This \in up /\ This \notin NotRdf
    /\ cache' = [cache EXCEPT ![Here][This] = "graph"]
    /\ call' = [call EXCEPT !.todo = Tail(@), !.graph = @ \union {This}]
    /\ graph' = IF call.op = "add" THEN [graph EXCEPT ![call.who] = @ \union {This}] ELSE graph
    /\ seen' = seen \union {This}
    /\ UNCHANGED <<up, merged, result, outages, calls>>

\* A table with one more entry, or a new one under the old key.
Keep(table, key, val) ==
    [k \in DOMAIN table \union {key} |-> IF k = key THEN val ELSE table[k]]

\* add_schemas has returned; graph has, and what it returns is in the cache from now on.
Return ==
    /\ ~Idle /\ call.todo = <<>>
    /\ Returned(call.op, call.who, call.asked,
                IF call.op = "add" THEN graph[call.who] ELSE call.graph, call.failed)
    /\ merged' = IF call.op = "graph"
                 THEN [merged EXCEPT ![Here] = Keep(@, SchemasOf[call.who], call.graph)]
                 ELSE merged
    /\ call' = NoCall
    /\ UNCHANGED <<up, cache, graph, seen, outages, calls>>

----------------------------------------------------------------------------
\* The Python thread that runs the call.
Step == Skip \/ Unavailable \/ Unparsed \/ Merge \/ Return

Next ==
    \/ \E u \in Urls : Change(u)
    \/ \E c \in Caches : LoadSchema(c)
    \/ \E l \in Loaders, u \in Urls : FetchText(l, u) \/ CheckExists(l, u)
    \/ \E l \in Loaders, schemas \in Requested : AddSchemas(l, schemas)
    \/ \E o \in Options : GraphCached(o) \/ MergeGraph(o)
    \/ Step

\* Python runs the call in hand; nothing is assumed of the network or the application.
Spec == Init /\ [][Next]_vars /\ WF_vars(Step)

----------------------------------------------------------------------------
(* What the cache promises. *)

Lists  == {SchemasOf[o] : o \in Options}
Tables == UNION {[lists -> SUBSET Urls] : lists \in SUBSET Lists}

Counted == outages \in 0 .. MaxOutages /\ calls \in 0 .. MaxCalls

TypeOK ==
    /\ up \subseteq Urls /\ seen \subseteq Urls
    /\ cache \in [Caches -> [Urls -> Entries]]
    /\ merged \in [Caches -> Tables]
    /\ graph \in [Loaders -> SUBSET Urls]
    /\ call \in [op : {"idle", "add", "graph"}, who : Loaders \union Options \union {""},
                 todo : Seq(Urls), asked : SUBSET Urls, graph : SUBSET Urls, failed : SUBSET Urls]
    /\ call.op = "add" => call.who \in Loaders
    /\ call.op = "graph" => call.who \in Options
    /\ Counted

\* check_exists answers True for any entry, and add_schemas passes over a graph: so an entry
\* that no application put there stands for a resource that a request has really found, in
\* whatever order the loaders and options that share the cache came and went.
CacheIsEarned ==
    \A c \in Caches, u \in Urls : cache[c][u] \in {"exists", "graph"} => u \in seen

\* add_schemas and graph both pass over what is parsed: no graph lies in a cache that nobody
\* merged.  (Whoever merged it may be the only one to have it: what LoadingOptions parse, a
\* loader with that cache passes over.)
Merged(c) ==
    UNION ({graph[l] : l \in {l \in Loaders : CacheOf[l] = c}}
           \union {merged[c][names] : names \in DOMAIN merged[c]}
           \union {IF call.op = "graph" /\ CacheOf[call.who] = c THEN call.graph ELSE {}})
NothingParsedInVain ==
    \A c \in Caches, u \in Urls : cache[c][u] = "graph" => u \in Merged(c)

\* A loader whose cache is its own has, when add_schemas returns, the graph of each schema it
\* asked for, but for those it has warned of and those that are there as texts.
Alone(l) == \A x \in (Loaders \union Options) \ {l} : CacheOf[x] # CacheOf[l]
AskedIsLoaded ==
    result.op = "add" /\ Alone(result.who) =>
        \A u \in result.asked \ result.failed :
            u \in graph[result.who] \/ cache[CacheOf[result.who]][u] = "text"

\* A text that the application or load_schema gave takes the place of the resource: no
\* check_exists and no graph ever does away with it.
PresetTextStays ==
    [][\A c \in Caches, u \in Urls : cache[c][u] = "text" => cache'[c][u] = "text"]_vars

\* The loops of add_schemas and graph end, whatever cannot be retrieved or parsed.
EveryCallReturns == call.op # "idle" ~> call.op = "idle"

\* runtime.py:181: "Generate a merged rdflib.Graph from all entries in self.schemas."  What
\* graph returns is made of the schemas that the list of these options names.
GraphIsOfItsSchemas == result.op = "graph" => result.graph \subseteq result.asked
=============================================================================
