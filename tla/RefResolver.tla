---------------------------- MODULE RefResolver ----------------------------
(***************************************************************************)
(* The document preprocessor of schema_salad: Loader.resolve_ref,          *)
(* Loader.resolve_all and Loader.fetch (ref_resolver.py).                  *)
(*                                                                         *)
(* The three functions call one another recursively, rewrite the parsed    *)
(* documents in place and share one index, Loader.idx, from URL to Python  *)
(* object.  The model keeps exactly that: a store of objects that alias    *)
(* each other, the index, and the call stack as a variable, so that every  *)
(* half-finished document another call can see is a state.                 *)
(***************************************************************************)
EXTENDS Integers, SequencesExt

CONSTANTS
    Docs,       \* URLs without a fragment
    Names,      \* the segments of an identifier
    Namespaces, \* prefixes that a $namespaces section can declare
    Here,       \* the "document" of a reference that is still relative
    NoUrl,      \* a node without identifier, a node that is no directive
    Webs,       \* what the fetcher can find: a set of [heap |-> .., root |-> ..]
    Requests,   \* the URLs that the application asks for
    MaxCalls,   \* bound: how often the application calls resolve_ref
    MaxFaults,  \* bound: how many retrievals of an existing text fail
    MaxDepth    \* bound: Python's recursion limit, in frames

Url    == [doc : Docs \union {Here}, frag : Seq(Names)]
AbsUrl == [doc : Docs, frag : Seq(Names)]

\* Addresses of the store.  0 stands for every scalar: a str, and in a field None or a number.
Text    == 0
NoText  == -1       \* a document that cannot be retrieved
NoRet   == -1       \* no value is being returned

Kinds      == {"map", "graph", "seq", "import", "include", "mixin"}
Directives == {"import", "include", "mixin"}

(***************************************************************************)
(* A CommentedMap or CommentedSeq.  "graph" is a map with a $graph field,   *)
(* whose only child is the list; kids are field values or list items.      *)
(***************************************************************************)
Node(addrs) ==
    [kind     : Kinds,
     home     : Docs,                  \* the document it was parsed from
     id       : Url \union {NoUrl},    \* the identifier field
     ref      : Url \union {NoUrl},    \* the argument of a directive
     rebase   : AbsUrl \union {NoUrl}, \* $base
     kids     : Seq(addrs),
     links    : SUBSET Url,            \* the values of the url_fields
     syms     : SUBSET Seq(Names),     \* identity fields with a list: enum symbols
     declares : SUBSET Namespaces,       \* $namespaces
     uses     : SUBSET Namespaces,       \* prefixed terms in the fields
     bound    : SUBSET Namespaces]       \* those that were expanded

Modes == Directives \union {"string"}

Frame(addrs) ==
    [fn   : {"resolve_ref", "resolve_all"},
     at   : {"enter", "wait", "iterate"},
     mode : Modes,                     \* resolve_ref: the directive, or a plain str
     url  : AbsUrl,                    \* resolve_ref: the expanded reference
     node : addrs,                     \* the directive, or the container in hand
     pos  : Nat,                       \* resolve_all: the child in hand
     base : AbsUrl,                    \* base_url
     file : AbsUrl,                    \* file_base
     ns   : SUBSET Namespaces,           \* the namespaces of self (a SubLoader)
     check : BOOLEAN]                  \* checklinks

\* What the YAML parser and the shape of a document guarantee of a store.
WellFormed(h) ==
    \A a \in DOMAIN h :
        /\ h[a].kind = "graph" =>
              h[a].kids # <<>> /\ h[a].kids[1] \in DOMAIN h /\ h[h[a].kids[1]].kind = "seq"
        /\ h[a].kind \in Directives => h[a].ref # NoUrl

WebOK(w) ==
    LET addrs == 0 .. Len(w.heap)
    IN  /\ w.heap \in Seq(Node(addrs))
        /\ WellFormed(w.heap)
        /\ w.root \in [Docs -> {NoText} \union addrs]

\* A text without YAML aliases: every object has one place, in one document.
TreeShaped(w) ==
    /\ \A a, b \in DOMAIN w.heap :
            \A i \in DOMAIN w.heap[a].kids, j \in DOMAIN w.heap[b].kids :
                w.heap[a].kids[i] = w.heap[b].kids[j] /\ w.heap[a].kids[i] # Text => a = b /\ i = j
    /\ \A d \in Docs, a \in DOMAIN w.heap : w.root[d] # Text => w.root[d] \notin ToSet(w.heap[a].kids)
    /\ \A d, e \in Docs : d # e /\ w.root[d] = w.root[e] => w.root[d] \in {Text, NoText}

\* Every object belongs to the document it is written in.
OwnDocuments(w) ==
    /\ \A d \in Docs : w.root[d] \in DOMAIN w.heap => w.heap[w.root[d]].home = d
    /\ \A a \in DOMAIN w.heap :
            \A b \in ToSet(w.heap[a].kids) \ {Text} : w.heap[b].home = w.heap[a].home

ASSUME UrlAssumption    == NoUrl \notin Url /\ Here \notin Docs
ASSUME WebAssumption    == \A w \in Webs : WebOK(w)
ASSUME RequestAssumption == Requests \subseteq AbsUrl
ASSUME BoundAssumption  == MaxCalls \in Nat /\ MaxFaults \in Nat /\ MaxDepth \in Nat

VARIABLES
    web,        \* the texts the fetcher can find: the parsed objects and the documents' roots
    heap,       \* the objects as resolve_all has rewritten them, by address
    space,      \* the highest address in use
    idx,        \* Loader.idx, a partial function
    notes,      \* the "import:" and "include:" entries of Loader.idx
    stack,      \* the call stack, innermost call last
    ret,        \* the value the call that has just ended returned
    result,     \* how the last call of the application ended
    calls,      \* number of calls of the application so far
    faults,     \* number of failed retrievals so far
    fetched,    \* how often each document was retrieved and parsed
    broken,     \* history: a call of the application has raised an exception
    steps       \* history: how many steps the last call of the application has taken

vars == <<web, heap, space, idx, notes, stack, ret, result, calls, faults, fetched, broken, steps>>

Addrs == DOMAIN heap \union {Text}
DocUrl(u) == [u EXCEPT !.frag = <<>>]                       \* urldefrag(u)[0]
RootUrl(d) == [doc |-> d, frag |-> <<>>]
Bind(f, u, v) == [x \in DOMAIN f \union {u} |-> IF x = u THEN v ELSE f[x]]

\* expand_url(url, base, scoped_id=True): a relative identifier goes below the base.
ExpandId(id, base) ==
    IF id.doc = Here THEN [base EXCEPT !.frag = @ \o id.frag] ELSE id

\* expand_url(url, base): a relative reference is joined to the base's document.
ExpandRef(ref, base) ==
    IF ref.doc = Here THEN [ref EXCEPT !.doc = base.doc] ELSE ref

\* $base takes the place of the base URL, whatever that was, for the map that holds it.
Based(n, base) == IF n.kind \in {"map", "graph"} /\ n.rebase # NoUrl THEN n.rebase ELSE base

\* The URL of the identifier of a, where s[a] is the base around a, and the base of what is in a.
\* fetch() names the map of a document after it, if it has no name, and to that its $base is nothing.
Named(w, a)       == w.heap[a].kind # "seq" /\ w.heap[a].id # NoUrl
FullName(w, s, a) == ExpandId(w.heap[a].id, Based(w.heap[a], s[a]))
BaseBelow(w, s, a) ==
    IF w.heap[a].kind = "map" /\ w.heap[a].id # NoUrl THEN FullName(w, s, a)
    ELSE IF w.heap[a].kind = "map" /\ \E d \in Docs : a = w.root[d] THEN s[a]
    ELSE Based(w.heap[a], s[a])

\* The bases that the nesting of the objects gives them.
Bases(w) ==
    LET base[a \in DOMAIN w.heap] ==
            LET above == {b \in DOMAIN w.heap : a \in ToSet(w.heap[b].kids)}
            IN  IF above = {} THEN RootUrl(w.heap[a].home)
                ELSE LET b == CHOOSE b \in above : TRUE IN BaseBelow(w, base, b)
    IN  base

\* By its text, a has these URLs: that of the document whose root it is, and its identifier's,
\* for a root also below its document, where fetch() puts it.
UrlsOf(w, s, a) ==
    LET docs == {RootUrl(d) : d \in {e \in Docs : a = w.root[e]}}
    IN  docs \union
            IF Named(w, a) THEN {FullName(w, s, a)} \union {ExpandId(w.heap[a].id, d) : d \in docs}
            ELSE {}

\* Texts in which every identifier is given once: below the bases s that the nesting of the
\* objects gives them, no two objects have the same URL, nor an object and another document.
DistinctNames(w, s) ==
    /\ s \in [DOMAIN w.heap -> AbsUrl]
    /\ \A d \in Docs : w.root[d] \in DOMAIN w.heap => s[w.root[d]] = RootUrl(d)
    /\ \A a \in DOMAIN w.heap :
            \A b \in ToSet(w.heap[a].kids) \ {Text} : s[b] = BaseBelow(w, s, a)
    /\ \A a \in DOMAIN w.heap : \A u \in UrlsOf(w, s, a) :
            /\ \A b \in DOMAIN w.heap : u \in UrlsOf(w, s, b) => a = b
            /\ \A d \in Docs : u = RootUrl(d) => a = w.root[d]

\* By its text, a is the object of the URL u.
Bears(s, a, u) == u \in UrlsOf(web, s, a)

IsKind(a, kinds) == a # Text /\ heap[a].kind \in kinds
IsMapping(a)     == a # Text /\ heap[a].kind # "seq"

Children(h, a) == IF a = Text THEN {} ELSE ToSet(h[a].kids)

\* Everything that can be reached from S, S included, in as many steps as there are objects.
Reachable(h, S) ==
    LET Within[n \in 0 .. Cardinality(DOMAIN h)] ==
            IF n = 0 THEN S ELSE UNION {{a} \union Children(h, a) : a \in Within[n - 1]}
    IN  Within[Cardinality(DOMAIN h)]

Idle == [status |-> "none", url |-> NoUrl, value |-> Text]

Init ==
    /\ web \in Webs
    /\ heap = web.heap
    /\ space = Len(web.heap)
    /\ idx = << >>
    /\ notes = {}
    /\ stack = <<>>
    /\ ret = NoRet
    /\ result = Idle
    /\ calls = 0
    /\ faults = 0
    /\ fetched = [d \in Docs |-> 0]
    /\ broken = FALSE
    /\ steps = 0

----------------------------------------------------------------------------
(* Calls, returns and exceptions *)

Top == Last(stack)

\* The innermost call is in fn and at this point; no value is on its way to it.
Running(fn, at) ==
    /\ stack # <<>>
    /\ Len(stack) < MaxDepth
    /\ ret = NoRet
    /\ Top.fn = fn
    /\ Top.at = at

\* The call that the innermost one is waiting for has returned.
Returned(fn) ==
    /\ stack # <<>>
    /\ ret # NoRet
    /\ Top.fn = fn
    /\ Top.at = "wait"

Return(value) == stack' = Front(stack) /\ ret' = value /\ UNCHANGED <<result, broken>>
Become(f)     == stack' = Append(Front(stack), f) /\ ret' = NoRet /\ UNCHANGED <<result, broken>>
Invoke(f, g)  == /\ stack' = Append(Append(Front(stack), f), g)
                 /\ ret' = NoRet
                 /\ UNCHANGED <<result, broken>>

\* Every handler of resolve_all re-raises, so an exception unwinds the whole stack.
Raise(status) ==
    /\ stack' = <<>>
    /\ ret' = NoRet
    /\ result' = [status |-> status, url |-> result.url, value |-> Text]
    /\ broken' = TRUE

world   == <<web, calls>>
objects == <<heap, space, idx, notes>>
fetcher == <<faults, fetched>>

RefFrame(mode, url, node, base, ns, check) ==
    [fn |-> "resolve_ref", at |-> "enter", mode |-> mode, url |-> url, node |-> node,
     pos |-> 0, base |-> base, file |-> base, ns |-> ns, check |-> check]

AllFrame(node, base, file, ns, check) ==
    [fn |-> "resolve_all", at |-> "enter", mode |-> "string", url |-> base, node |-> node,
     pos |-> 0, base |-> base, file |-> file, ns |-> ns, check |-> check]

\* self.resolve_ref(node, base_url=base) for a directive.
DirectiveFrame(node, base, ns, check) ==
    RefFrame(heap[node].kind, ExpandRef(heap[node].ref, base), node, base, ns, check)

----------------------------------------------------------------------------
(* Loader.resolve_ref *)

\* The application asks for a document or a fragment of one.
Request(url) ==
    /\ stack = <<>>
    /\ ret = NoRet
    /\ calls < MaxCalls
    /\ stack' = <<RefFrame("string", url, Text, DocUrl(url), {}, TRUE)>>
    /\ calls' = calls + 1
    /\ result' = [Idle EXCEPT !.url = url]
    /\ steps' = 0
    /\ UNCHANGED <<objects, fetcher, web, ret, broken>>

\* "'$import' must be the only field", and an injected identifier is one too many.
Overfull(f) ==
    /\ f.mode \in {"import", "include"}
    /\ \/ heap[f.node].id # NoUrl \/ heap[f.node].rebase # NoUrl
       \/ heap[f.node].kids # <<>> \/ heap[f.node].links # {}

RejectDirective ==
    /\ Running("resolve_ref", "enter")
    /\ Overfull(Top)
    /\ Raise("invalid")
    /\ UNCHANGED <<objects, fetcher, world>>

Hit(f) == f.mode # "mixin" /\ f.url \in DOMAIN idx

\* (Mutant.) The whole $graph document is returned.
Wrapped(a) == a

\* A $graph document stands for its list.
Unwrap(a) == IF IsKind(a, {"graph"}) THEN heap[a].kids[1] ELSE a

\* A map is returned with the metadata of its document, which must be a map as well.
Usable(f) ==
    LET d == DocUrl(f.url)
    IN  IsMapping(idx[f.url]) /\ d \in DOMAIN idx => IsMapping(idx[d])

ReturnIndexed ==
    /\ Running("resolve_ref", "enter")
    /\ ~Overfull(Top)
    /\ Hit(Top)
    /\ IF Usable(Top) THEN Return(Unwrap(idx[Top.url])) ELSE Raise("invalid")
    /\ UNCHANGED <<objects, fetcher, world>>

\* fetch_text of a document that is there; a failure is one of the network or the disk.
Retrieved(d)  == web.root[d] # NoText /\ UNCHANGED faults
Unavailable(d) ==
    IF web.root[d] = NoText THEN UNCHANGED faults ELSE faults < MaxFaults /\ faults' = faults + 1

Include ==
    /\ Running("resolve_ref", "enter")
    /\ ~Overfull(Top)
    /\ ~Hit(Top)
    /\ Top.mode = "include"
    /\ notes' = notes \union {<<"include", Top.url>>}
    /\ \/ Retrieved(Top.url.doc) /\ Return(Text)
       \/ Unavailable(Top.url.doc) /\ Raise("invalid")
    /\ UNCHANGED <<heap, space, idx, fetched, world>>

Structured(f) == ~Overfull(f) /\ ~Hit(f) /\ f.mode # "include"

\* (Mutants.) The reference is looked up, not its document; directives are not checked.
MissingItself(f) == Structured(f) /\ f.mode # "mixin" /\ f.url \in DOMAIN idx
MissingInText(f) == Structured(f) /\ f.mode = "string" /\ DocUrl(f.url) \in DOMAIN idx

\* "If the base document is in the index, it was already loaded, so if we didn't
\* find the reference earlier then it must not exist."
Missing(f) == Structured(f) /\ f.mode # "mixin" /\ DocUrl(f.url) \in DOMAIN idx

ReportMissing ==
    /\ Running("resolve_ref", "enter")
    /\ Missing(Top)
    /\ Raise("invalid")
    /\ UNCHANGED <<objects, fetcher, world>>

\* fetch(): the parsed document enters the index, raw, before it is resolved.
\* Unless the document is mixed in, its map gets an identifier if it has none.
Parsed(d, a, inject) ==
    LET named == inject /\ IsMapping(a)
        anon  == named /\ heap[a].id = NoUrl
        idx1  == IF named /\ ~anon THEN Bind(idx, ExpandId(heap[a].id, d), a) ELSE idx
    IN  [heap |-> IF anon THEN [heap EXCEPT ![a].id = d] ELSE heap,
         idx  |-> Bind(idx1, d, a)]

Fetched(f) ==
    LET d == DocUrl(f.url)
    IN  IF d \in DOMAIN idx
        THEN [heap |-> heap, idx |-> idx]
        ELSE Parsed(d, web.root[d.doc], f.mode # "mixin")

\* (Mutant.) fetch() does not look into the index.
RetrieveAgain(d) == Retrieved(d.doc) /\ fetched' = [fetched EXCEPT ![d.doc] = @ + 1]

Retrieve(d) ==
    IF d \in DOMAIN idx
    THEN UNCHANGED fetcher
    ELSE Retrieved(d.doc) /\ fetched' = [fetched EXCEPT ![d.doc] = @ + 1]

Load ==
    /\ Running("resolve_ref", "enter")
    /\ Structured(Top)
    /\ ~Missing(Top)
    /\ Top.mode # "mixin"
    /\ Retrieve(DocUrl(Top.url))
    /\ heap' = Fetched(Top).heap
    /\ idx' = Fetched(Top).idx
    /\ notes' = IF Top.mode = "import" THEN notes \union {<<"import", Top.url>>} ELSE notes
    /\ LET d == DocUrl(Top.url)
       IN  Invoke([Top EXCEPT !.at = "wait"], AllFrame(idx'[d], d, d, Top.ns, Top.check))
    /\ UNCHANGED <<space, world>>


\* copy.deepcopy(doc): the copy of every object that doc reaches lies above all others.
Reached(h, doc) == Reachable(h, {doc}) \intersect DOMAIN h
Above(a, seen)  == IF a \in seen THEN a + space ELSE a
Copy(n, seen)   == [n EXCEPT !.kids = [i \in DOMAIN n.kids |-> Above(n.kids[i], seen)]]
Copied(h, seen) ==
    [a \in DOMAIN h \union {b + space : b \in seen} |->
        IF a \in DOMAIN h THEN h[a] ELSE Copy(h[a - space], seen)]

\* doc.update(mixin): the fields of the $mixin object override the document's; its values have
\* names that the document does not have.
Updated(n, mixin) ==
    [n EXCEPT !.id     = IF mixin.id # NoUrl THEN mixin.id ELSE n.id,
              !.rebase = IF mixin.rebase # NoUrl THEN mixin.rebase ELSE n.rebase,
              !.kids   = n.kids \o mixin.kids,
              !.links  = n.links \union mixin.links]

\* A mixed-in document is copied and resolved again at every use, below the
\* base URL of the document that uses it.
LoadMixin ==
    /\ Running("resolve_ref", "enter")
    /\ Structured(Top)
    /\ Top.mode = "mixin"
    /\ Retrieve(DocUrl(Top.url))
    /\ idx' = Fetched(Top).idx
    /\ LET d    == DocUrl(Top.url)
           seen == Reached(heap, idx'[d])
           new  == Above(idx'[d], seen)
           copy == Copied(heap, seen)
       IN  /\ heap' = IF IsMapping(idx'[d])
                      THEN [copy EXCEPT ![new] = Updated(copy[new], heap[Top.node])]
                      ELSE copy
           /\ Invoke([Top EXCEPT !.at = "wait"], AllFrame(new, Top.base, d, Top.ns, Top.check))
    /\ space' = 2 * space
    /\ UNCHANGED <<notes, world>>

\* (Mutant.) The URL is entered before the text is fetched.
LoadFailsMarked ==
    /\ Running("resolve_ref", "enter")
    /\ Structured(Top)
    /\ DocUrl(Top.url) \notin DOMAIN idx
    /\ Unavailable(Top.url.doc)
    /\ Raise("invalid")
    /\ idx' = Bind(idx, DocUrl(Top.url), Text)
    /\ UNCHANGED <<heap, space, notes, fetched, world>>

LoadFails ==
    /\ Running("resolve_ref", "enter")
    /\ Structured(Top)
    /\ DocUrl(Top.url) \notin DOMAIN idx
    /\ Unavailable(Top.url.doc)
    /\ Raise("invalid")
    /\ UNCHANGED <<objects, fetched, world>>

\* "Requested reference should be in the index now, otherwise it's a bad reference"
RefResolved ==
    /\ Returned("resolve_ref")
    /\ IF Top.mode = "mixin" THEN Return(Unwrap(ret))
       ELSE IF Top.url \in DOMAIN idx THEN Return(Unwrap(idx[Top.url]))
       ELSE Raise("invalid")
    /\ UNCHANGED <<objects, fetcher, world>>

\* resolve_ref returns to the application.
Answer ==
    /\ stack = <<>>
    /\ ret # NoRet
    /\ ret' = NoRet
    /\ result' = [status |-> "ok", url |-> result.url, value |-> ret]
    /\ UNCHANGED <<objects, fetcher, world, stack, broken>>

----------------------------------------------------------------------------
(* Loader.resolve_all *)

ReturnScalar ==
    /\ Running("resolve_all", "enter")
    /\ Top.node = Text
    /\ Return(Text)
    /\ UNCHANGED <<objects, fetcher, world>>

\* $import and $include are relative to the file, $mixin to the enclosing object.
FollowDirective ==
    /\ Running("resolve_all", "enter")
    /\ IsKind(Top.node, Directives)
    /\ LET base == IF IsKind(Top.node, {"mixin"}) THEN Top.base ELSE Top.file
       IN  Become(DirectiveFrame(Top.node, base, Top.ns, Top.check))
    /\ UNCHANGED <<objects, fetcher, world>>

\* The loader for a map that declares namespaces is a SubLoader: it has the context
\* of self and the new namespaces, but not those that self was given.
Scope(f) == IF heap[f.node].declares # {} THEN heap[f.node].declares ELSE f.ns

\* (Mutants.) The identifier is indexed as it is written, or below the document instead of the base.
IdentifiedRaw(f) ==
    LET n == heap[f.node]
    IN  IF n.kind # "seq" /\ n.id # NoUrl
        THEN [heap |-> heap, idx |-> Bind(idx, n.id, f.node), base |-> f.base]
        ELSE [heap |-> heap, idx |-> idx, base |-> f.base]

IdentifiedUnscoped(f) ==
    LET n    == heap[f.node]
        base == Based(n, f.base)
        url  == ExpandId(n.id, DocUrl(base))
    IN  IF n.kind # "seq" /\ n.id # NoUrl
        THEN [heap |-> [heap EXCEPT ![f.node].id = url],
              idx  |-> Bind(idx, url, f.node),
              base |-> IF n.kind = "map" THEN url ELSE base]
        ELSE [heap |-> heap, idx |-> idx, base |-> base]

\* $base, then identity_links, which holds the identifier fields too (add_context) and is indexed
\* first: the last object of an identifier wins.  _resolve_identifier then finds it indexed.
Identified(f) ==
    LET n    == heap[f.node]
        base == Based(n, f.base)
        url  == ExpandId(n.id, base)
    IN  IF n.kind # "seq" /\ n.id # NoUrl
        THEN [heap |-> [heap EXCEPT ![f.node].id = url],
              idx  |-> Bind(idx, url, f.node),
              base |-> IF n.kind = "map" THEN url ELSE base]
        ELSE [heap |-> heap, idx |-> idx, base |-> base]

\* _resolve_identity: a symbol is indexed as a str unless something has its URL.
Symbols(n, base, index) ==
    LET urls == {[base EXCEPT !.frag = @ \o s] : s \in n.syms}
    IN  [u \in DOMAIN index \union urls |-> IF u \in DOMAIN index THEN index[u] ELSE Text]

\* _normalize_fields and _resolve_uris: terms with a declared prefix and links.
Normalized(h, a, base, ns) ==
    [h EXCEPT ![a].links = {ExpandRef(l, base) : l \in @},
              ![a].bound = @ \union (h[a].uses \intersect ns)]

OpenSeq ==
    /\ Running("resolve_all", "enter")
    /\ IsKind(Top.node, {"seq"})
    /\ Become([Top EXCEPT !.at = "iterate", !.pos = 1])
    /\ UNCHANGED <<objects, fetcher, world>>

OpenMap ==
    /\ Running("resolve_all", "enter")
    /\ IsKind(Top.node, {"map"})
    /\ LET i  == Identified(Top)
           ns == Scope(Top)
       IN  /\ heap' = Normalized(i.heap, Top.node, i.base, ns)
           /\ idx' = Symbols(heap[Top.node], i.base, i.idx)
           /\ Become([Top EXCEPT !.at = "iterate", !.pos = 1, !.base = i.base, !.ns = ns])
    /\ UNCHANGED <<space, notes, fetcher, world>>

\* Of a map with $graph only the list is traversed, and it is what is returned.
OpenGraph ==
    /\ Running("resolve_all", "enter")
    /\ IsKind(Top.node, {"graph"})
    /\ heap' = Identified(Top).heap
    /\ idx' = Identified(Top).idx
    /\ Become([Top EXCEPT !.at = "iterate", !.pos = 1, !.ns = Scope(Top),
                          !.base = Identified(Top).base, !.node = heap[Top.node].kids[1]])
    /\ UNCHANGED <<space, notes, fetcher, world>>

Kids(f)  == heap[f.node].kids
More(f)  == f.pos \in DOMAIN Kids(f)

\* A list item that is an $import or $mixin goes to resolve_ref, and may be spliced.
Spliceable(f) == IsKind(f.node, {"seq"}) /\ IsKind(Kids(f)[f.pos], {"import", "mixin"})

Descend ==
    /\ Running("resolve_all", "iterate")
    /\ More(Top)
    /\ LET kid == Kids(Top)[Top.pos]
       IN  Invoke([Top EXCEPT !.at = "wait"],
                  IF Spliceable(Top)
                  THEN DirectiveFrame(kid, Top.file, Top.ns, FALSE)
                  ELSE AllFrame(kid, Top.base, Top.file, Top.ns, FALSE))
    /\ UNCHANGED <<objects, fetcher, world>>

Splices(f) == Spliceable(f) /\ IsKind(ret, {"seq"})

\* (Mutant.) The loop passes over the field after one that it has replaced.
ReplaceKidSkipping ==
    /\ Returned("resolve_all")
    /\ More(Top)
    /\ ~Splices(Top)
    /\ heap' = [heap EXCEPT ![Top.node].kids[Top.pos] = ret]
    /\ Become([Top EXCEPT !.at = "iterate", !.pos = @ + IF ret = Kids(Top)[@] THEN 1 ELSE 2])
    /\ UNCHANGED <<space, idx, notes, fetcher, world>>

\* document[key] = value
ReplaceKid ==
    /\ Returned("resolve_all")
    /\ More(Top)
    /\ ~Splices(Top)
    /\ heap' = [heap EXCEPT ![Top.node].kids[Top.pos] = ret]
    /\ Become([Top EXCEPT !.at = "iterate", !.pos = @ + 1])
    /\ UNCHANGED <<space, idx, notes, fetcher, world>>

\* The list splices itself: it grows while "for item in l" reads it.
Endless(f) == Splices(f) /\ ret = f.node /\ Len(Kids(f)) > 1

\* (Mutant.) The loop over the list does not skip what was inserted.
AfterNothing(f, inserted) == f.pos

\* The next item of a list is the one after those inserted, which are resolved already.
After(f, inserted) == f.pos + Len(inserted)

\* del document[i]; for item in l: document.insert(i, item)
SpliceKids ==
    /\ Returned("resolve_all")
    /\ More(Top)
    /\ Splices(Top)
    /\ ~Endless(Top)
    /\ LET kids == Kids(Top)
           new  == IF ret = Top.node THEN <<>> ELSE heap[ret].kids
       IN  /\ heap' = [heap EXCEPT ![Top.node].kids =
                          SubSeq(kids, 1, Top.pos - 1) \o new
                              \o SubSeq(kids, Top.pos + 1, Len(kids))]
           /\ Become([Top EXCEPT !.at = "iterate", !.pos = After(Top, new)])
    /\ UNCHANGED <<space, idx, notes, fetcher, world>>

Below(h, a)  == Reachable(h, Children(h, a))
Cyclic(h, a) == \E b \in Reachable(h, {a}) : b \in Below(h, b)

\* (Mutant.) A link to an object that was not loaded is an error.
LinkIndexed(u) == u \in DOMAIN idx

\* validate_link, for a field without scope: indexed, or check_exists finds the file.
LinkResolves(u) == u \in DOMAIN idx \/ (u.doc # Here /\ web.root[u.doc] # NoText)
LinksResolve(h, a) ==
    \A b \in Reachable(h, {a}) \ {Text} : \A u \in h[b].links : LinkResolves(u)

\* validate_links recurses into every value, without end if a value contains itself.
Finish ==
    /\ Running("resolve_all", "iterate")
    /\ ~More(Top)
    /\ \/ (Top.check => ~Cyclic(heap, Top.node) /\ LinksResolve(heap, Top.node))
             /\ Return(Top.node)
       \/ Top.check /\ Cyclic(heap, Top.node) /\ Raise("crash")
       \/ Top.check /\ ~Cyclic(heap, Top.node) /\ ~LinksResolve(heap, Top.node) /\ Raise("invalid")
    /\ UNCHANGED <<objects, fetcher, world>>

\* RecursionError, which no handler of resolve_all catches.
Overflow ==
    /\ stack # <<>>
    /\ Len(stack) = MaxDepth
    /\ ret = NoRet
    /\ Raise("overflow")
    /\ UNCHANGED <<objects, fetcher, world>>

----------------------------------------------------------------------------
\* Four steps for each object of the texts and for each value in one.  The counter stops above.
Values    == UNION {{a} \X DOMAIN web.heap[a].kids : a \in DOMAIN web.heap}
StepLimit == 4 * (Cardinality(Values) + Len(web.heap)) + 5

Step ==
    /\ \/ RejectDirective \/ ReturnIndexed \/ Include \/ ReportMissing
       \/ Load \/ LoadMixin \/ LoadFails \/ RefResolved \/ Answer
       \/ ReturnScalar \/ FollowDirective \/ OpenSeq \/ OpenMap \/ OpenGraph
       \/ Descend \/ ReplaceKid \/ SpliceKids \/ Finish \/ Overflow
    /\ steps' = IF steps > StepLimit THEN steps ELSE steps + 1

Next == Step \/ \E url \in Requests : Request(url)

Spec == Init /\ [][Next]_vars

\* The interpreter runs the pending call; that the application calls again is its choice.
FairSpec == Spec /\ WF_vars(Step)

----------------------------------------------------------------------------
(* What the preprocessor promises *)

Results == [status : {"none", "ok", "invalid", "crash", "overflow"},
            url : AbsUrl \union {NoUrl}, value : Addrs]

TypeOK ==
    /\ WebOK(web)
    /\ heap \in [DOMAIN heap -> Node(Addrs)]
    /\ DOMAIN web.heap \subseteq DOMAIN heap /\ DOMAIN heap \subseteq 1 .. space
    /\ space \in Nat
    /\ DOMAIN idx \subseteq AbsUrl
    /\ \A u \in DOMAIN idx : idx[u] \in Addrs
    /\ notes \subseteq {"import", "include"} \X AbsUrl
    /\ stack \in Seq(Frame(Addrs))
    /\ ret \in {NoRet} \union Addrs
    /\ result \in Results
    /\ calls \in 0 .. MaxCalls
    /\ faults \in 0 .. MaxFaults
    /\ fetched \in [Docs -> Nat]
    /\ broken \in BOOLEAN
    /\ steps \in Nat

\* A call of resolve_all is in a loop over a map or a list; one of resolve_ref for a
\* directive has the directive in hand.
FrameOK(f) ==
    /\ f.fn = "resolve_all" /\ f.at # "enter" => IsKind(f.node, {"map", "seq"})
    /\ f.fn = "resolve_ref" /\ f.mode # "string" => IsKind(f.node, Directives)

FramesOK == \A i \in DOMAIN stack : FrameOK(stack[i])

\* The store stays one that resolve_all can traverse, whatever it splices and copies.
StoreOK == TypeOK /\ WellFormed(heap) /\ FramesOK

Mixes == \E a \in DOMAIN web.heap : web.heap[a].kind = "mixin"

\* The calls of resolve_ref that have loaded a document and are resolving it.
Loading(i) == stack[i].fn = "resolve_ref" /\ stack[i].at = "wait" /\ stack[i].mode # "mixin"

(***************************************************************************)
(* A document that is being resolved is not loaded a second time below     *)
(* itself: an import cycle ends at the index, where resolve_ref finds the   *)
(* raw document that fetch() put there before resolve_all began.           *)
(***************************************************************************)
NoReentrantLoad ==
    \A i, j \in DOMAIN stack :
        i < j /\ Loading(i) /\ Loading(j) => DocUrl(stack[i].url) # DocUrl(stack[j].url)

\* A document is retrieved and parsed once in the life of a loader, whatever refers
\* to it, mixes it in, or asks again after an exception (fetch looks into idx first).
FetchedOnce == \A d \in Docs : fetched[d] <= 1

\* Without mixins (which traverse copies of objects that are resolved already), two calls
\* of resolve_all never traverse the same container at a time: the loops over
\* document.items() and document[i] would disturb each other.
NoSharedTraversal ==
    ~Mixes => \A i, j \in DOMAIN stack :
        /\ i < j
        /\ stack[i].fn = "resolve_all" /\ stack[i].at # "enter"
        /\ stack[j].fn = "resolve_all" /\ stack[j].at # "enter"
        => stack[i].node # stack[j].node

\* Without mixins, an object is only ever resolved below the base URL that its text gives it (the
\* names and the $base around it, its document), and its imports are looked for beside its
\* document, through any chain of imports, splices and cycles.
OwnBase ==
    ~Mixes => \A i \in DOMAIN stack :
        LET a == stack[i].node
        IN  stack[i].fn = "resolve_all" /\ a # Text =>
                /\ stack[i].base = IF stack[i].at = "enter" THEN Bases(web)[a]
                                   ELSE BaseBelow(web, Bases(web), a)
                /\ stack[i].file.doc = heap[a].home

\* The innermost resolve_ref is loading the document d.
LoadedNow(d) ==
    \E i \in DOMAIN stack :
        /\ stack[i].fn = "resolve_ref" /\ stack[i].mode # "mixin" /\ stack[i].url.doc = d
        /\ \A j \in DOMAIN stack : j > i => stack[j].fn = "resolve_all"


\* What is not parsed is not known: a retrieval that failed leaves nothing under the URL of its
\* document that a retry would take for the document.
RetryCanLoad == \A d \in Docs : RootUrl(d) \in DOMAIN idx => fetched[d] > 0

\* Where every identifier is given once and nothing is mixed in, the object of a URL never changes, except
\* that an object takes the place of a symbol: what an import yields does not depend
\* on what was resolved before it.
IndexStable ==
    [][~Mixes => \A u \in DOMAIN idx : u \in DOMAIN idx' /\ idx[u] \in {Text, idx'[u]}]_vars

\* A call is at the object a.
InCall(a) == \E i \in DOMAIN stack : stack[i].fn = "resolve_all" /\ stack[i].node = a

\* v is what the index has for u (a symbol is a str until an object has its URL).
Yields(u, v) == u \in DOMAIN idx /\ v \in {Text, Unwrap(idx[u])}

\* v is what the value k of a field becomes: a $graph document its list, a directive what its
\* reference yields in the document it is written in, anything else itself.
StandsFor(k, v) ==
    LET url == ExpandRef(heap[k].ref, [doc |-> heap[k].home, frag |-> <<>>])
    IN  CASE IsKind(k, {"graph"})   -> v = heap[k].kids[1]
          [] IsKind(k, {"import"})  -> Yields(url, v)
          [] IsKind(k, {"include"}) -> v = Text \/ Yields(url, v)
          [] OTHER                  -> v = k

\* Without mixins, a map that can be asked for has in each field what its text says,
\* resolved, even on a cycle of imports, unless a call is still at it or an exception cut
\* it short; and even then a field has nothing but its raw value or its resolved one.
FieldsResolved ==
    ~Mixes => \A a \in {idx[u] : u \in DOMAIN idx} :
        IsKind(a, {"map"}) =>
            LET raw == web.heap[a].kids
                now == heap[a].kids
            IN  /\ DOMAIN now = DOMAIN raw
                /\ \A i \in DOMAIN now :
                        \/ StandsFor(raw[i], now[i])
                        \/ now[i] = raw[i] /\ (broken \/ InCall(a))

\* An exception leaves nothing behind that a later call stumbles over: as long as
\* texts can be retrieved, import cycles end before Python's stack does.
NoOverflow == result.status = "overflow" => Mixes

\* Without mixins, a call takes a number of steps that grows only with what was written, however
\* the documents import each other, and whatever earlier calls and exceptions left.  (The splice of
\* a list into itself is a step that does not end: Endless.)
CallsAreShort == ~Mixes => steps <= StepLimit

\* resolve_ref returns or raises.  Fairness: the interpreter runs the pending call.
EveryCallEnds == (stack # <<>>) ~> (stack = <<>>)

\* The URLs of the objects of document d, from its text alone.
Anchors(d) ==
    {FullName(web, Bases(web), a) :
        a \in {b \in DOMAIN web.heap : Named(web, b) /\ web.heap[b].home = d}}

\* "If the base document is in the index, it was already loaded, so if we didn't find
\* the reference earlier then it must not exist" (ref_resolver.py, resolve_ref).
MissingMeansAbsent ==
    Running("resolve_ref", "enter") /\ Missing(Top) => Top.url \notin Anchors(Top.url.doc)

\* "The external imported document does not inherit the context of the importing
\* document" (metaschema/import_include.md): a prefix is expanded only in a document
\* that declares it.
ContextNotInherited ==
    \A a \in DOMAIN heap :
        heap[a].bound \subseteq
            UNION {web.heap[b].declares : b \in {c \in DOMAIN web.heap : web.heap[c].home = heap[a].home}}

----------------------------------------------------------------------------
(* The abstract specification that the preprocessor implements *)

\* The documents that were retrieved and parsed.
Read == {d \in Docs : fetched[d] > 0}

\* The documents that calls of resolve_ref have loaded and are resolving.
BeingResolved == {stack[i].url.doc : i \in {j \in DOMAIN stack : Loading(j)}}

CallStatus ==
    IF stack # <<>> \/ ret # NoRet THEN "running"
    ELSE IF result.status \in {"none", "ok"} THEN result.status
    ELSE "failed"

Promise == INSTANCE DocumentLoads
               WITH seen <- Read, pending <- BeingResolved, call <- CallStatus

(***************************************************************************)
(* Every step of the recursion of resolve_ref and resolve_all, on any web  *)
(* and through any failure, reads a document for the first time, ends the  *)
(* one pending load of a document, begins or ends a call with nothing left *)
(* pending, or does nothing that the abstract loader knows of.             *)
(***************************************************************************)
KeepsPromise == Promise!Spec

=============================================================================
