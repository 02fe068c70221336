--------------------------- MODULE Preprocessing ---------------------------
(***************************************************************************)
(* What a preprocessed document is, by the texts alone: no index, no order *)
(* of traversal.  The meaning of one object is stated in terms of the ones *)
(* that it refers to, and holds of everything that an answer contains.     *)
(***************************************************************************)
EXTENDS RefResolver

(***************************************************************************)
(* Texts that do not import each other in a circle: what an object contains *)
(* ranks below it, and what an import refers to, with the document of that *)
(* reference, ranks below the import.                                      *)
(***************************************************************************)
Acyclic(w, s, rank) ==
    /\ rank \in [DOMAIN w.heap -> Nat]
    /\ \A a \in DOMAIN w.heap : \A b \in ToSet(w.heap[a].kids) \ {Text} : rank[b] < rank[a]
    /\ \A a \in {b \in DOMAIN w.heap : w.heap[b].kind = "import"} :
            LET url == ExpandRef(w.heap[a].ref, RootUrl(w.heap[a].home))
            IN  \A b \in DOMAIN w.heap :
                    b = w.root[url.doc] \/ url \in UrlsOf(w, s, b) => rank[b] < rank[a]

\* A $graph document stands for its list.
Opened(a) == IF web.heap[a].kind = "graph" THEN web.heap[a].kids[1] ELSE a

\* u is a symbol of an enum, below the name of its object.
IsSymbol(s, u) ==
    \E a \in DOMAIN web.heap : \E t \in web.heap[a].syms :
        web.heap[a].kind = "map" /\ u = [BaseBelow(web, s, a) EXCEPT !.frag = @ \o t]

\* The URL u refers to the value v.
Denotes(s, u, v) ==
    IF v = Text THEN IsSymbol(s, u) \/ \E d \in Docs : u = RootUrl(d) /\ web.root[d] = Text
    ELSE \E a \in DOMAIN web.heap : Bears(s, a, u) /\ v = Opened(a)

\* The value that is written as k means v.
Means(s, k, v) ==
    IF k = Text THEN v = Text
    ELSE LET n   == web.heap[k]
             url == ExpandRef(n.ref, RootUrl(n.home))
         IN  CASE n.kind = "import"  -> Denotes(s, url, v)
               [] n.kind = "include" -> v = Text /\ web.root[url.doc] # NoText
               [] n.kind = "graph"   -> v = Opened(k)
               [] OTHER              -> v = k

\* A list that is imported as an item gives its items to the list a; else a value takes one place.
Spread(a, k, v) ==
    /\ web.heap[a].kind = "seq"
    /\ k # Text /\ web.heap[k].kind = "import"
    /\ v # Text /\ web.heap[v].kind = "seq"
Share(a, k, v) == IF Spread(a, k, v) THEN heap[v].kids ELSE <<v>>

\* The value v of what is written as k takes the places of a after from, up to to.
Placed(a, k, v, from, to) ==
    LET part == Share(a, k, v)
    IN  /\ to = from + Len(part)
        /\ \A j \in DOMAIN part : heap[a].kids[from + j] = part[j]

\* The values of a are those that its text means, in the same order.
KidsAsWritten(s, a) ==
    LET raw == web.heap[a].kids
        now == heap[a].kids
    IN  \E cut \in [0 .. Len(raw) -> 0 .. Len(now)] :
            /\ cut[0] = 0 /\ cut[Len(raw)] = Len(now)
            /\ \A i \in DOMAIN raw : \E v \in Addrs :
                  Means(s, raw[i], v) /\ Placed(a, raw[i], v, cut[i - 1], cut[i])

\* The identifier: the one in the text, expanded, or the URL of the document for its map.
Title(s, a) ==
    CASE Named(web, a) -> FullName(web, s, a)
      [] web.heap[a].id = NoUrl /\ web.root[web.heap[a].home] = a -> RootUrl(web.heap[a].home)
      [] OTHER -> NoUrl

AsWritten(s, a) ==
    /\ heap[a].kind \in {"map", "seq"}
    /\ heap[a].kind = "map" =>
          /\ heap[a].id = Title(s, a)
          /\ heap[a].links = {ExpandRef(l, BaseBelow(web, s, a)) : l \in web.heap[a].links}
    /\ KidsAsWritten(s, a)

\* What is included is nothing that has been parsed: no object of a document that was imported
\* or asked for has the URL of an $include, and no symbol has.
IncludedApart(s) ==
    \A a \in {b \in DOMAIN web.heap : web.heap[b].kind = "include"} :
        LET url == ExpandRef(web.heap[a].ref, RootUrl(web.heap[a].home))
        IN  /\ ~IsSymbol(s, url)
            /\ \A b \in DOMAIN web.heap : Bears(s, b, url) => fetched[web.heap[b].home] = 0

(***************************************************************************)
(* What a call returns is the preprocessed form of what it was asked for,   *)
(* in whatever order the application and the directives ask: the object of *)
(* this URL, and all that it contains, to any depth, with every $import     *)
(* replaced by the resolved value it refers to, every $include by a text,  *)
(* every imported list spliced, and every identifier and link expanded.    *)
(* The premises: no call has raised, nothing is mixed in, and what is      *)
(* included is not imported as well.  (The webs have no circles of imports, *)
(* see Acyclic.)                                                           *)
(***************************************************************************)
ResultIsPreprocessed ==
    ~Mixes /\ result.status = "ok" /\ ~broken /\ IncludedApart(Bases(web)) =>
        /\ Denotes(Bases(web), result.url, result.value)
        /\ \A a \in Reachable(heap, {result.value}) \ {Text} : AsWritten(Bases(web), a)

=============================================================================
