--------------------------- MODULE DocumentLoads ---------------------------
(***************************************************************************)
(* What a loader promises about the documents it loads, whatever they say: *)
(* each is read once in the loader's life, a document that refers to       *)
(* another waits for it and never for itself, and a call ends with nothing *)
(* left waiting.  The index, the objects and the call stack that RefResolver *)
(* needs for it do not occur here.                                         *)
(***************************************************************************)
CONSTANT Docs

VARIABLES
    seen,       \* the documents that were read
    pending,    \* of those, the ones whose objects are being resolved
    call        \* the application's last call: "none", "running", "ok", "failed"

loads == <<seen, pending, call>>

Init == seen = {} /\ pending = {} /\ call = "none"

Ask ==
    /\ call # "running"
    /\ call' = "running"
    /\ UNCHANGED <<seen, pending>>

\* A document is read for the first time, and its references are followed.
Begin(d) ==
    /\ call = "running"
    /\ d \notin seen
    /\ seen' = seen \union {d}
    /\ pending' = pending \union {d}
    /\ UNCHANGED call

\* A document is read for a copy of it; the document itself is not resolved.
Mix(d) ==
    /\ call = "running"
    /\ d \notin seen
    /\ seen' = seen \union {d}
    /\ UNCHANGED <<pending, call>>

End(d) ==
    /\ d \in pending
    /\ pending' = pending \ {d}
    /\ UNCHANGED <<seen, call>>

Succeed ==
    /\ call = "running"
    /\ pending = {}
    /\ call' = "ok"
    /\ UNCHANGED <<seen, pending>>

\* An exception abandons everything that is pending, and forgets nothing it has read.
Fail ==
    /\ call = "running"
    /\ call' = "failed"
    /\ pending' = {}
    /\ UNCHANGED seen

Next ==
    \/ Ask \/ Succeed \/ Fail
    \/ \E d \in Docs : Begin(d) \/ Mix(d) \/ End(d)

Spec == Init /\ [][Next]_loads
=============================================================================
