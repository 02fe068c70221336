-------------------------- MODULE MCResourceCache --------------------------
(* Small caches: one that is shared, and one that a loader has to itself. *)
EXTENDS ResourceCache

CONSTANTS u, v, m, l, alone, o, p, shared, own

MCUrls       == {u, v, m}
MCHttp       == {u, m}
MCNotRdf     == {m}
MCVocabulary == {m}
MCPresets    == {[c \in {shared, own} |-> {}], [c \in {shared, own} |-> {v}]}
MCCacheOf    == alone :> own @@ [x \in {l, o, p} |-> shared]
MCRequested  == {<<u>>, <<v, u>>, <<m, v>>}

\* One name in two directories.
MCSchemasOf  == [x \in {o, p} |-> <<"name">>]
MCUrlOf      == o :> ("name" :> u) @@ p :> ("name" :> v)
=============================================================================
