------------------------------ MODULE MCTrees ------------------------------
(***************************************************************************)
(* The webs of MCRefResolver without circles of imports: an object has a   *)
(* lower address than what it contains, and a document than what it        *)
(* imports.                                                                *)
(***************************************************************************)
EXTENDS MCRefResolver

\* What the theorem about preprocessed documents assumes of the texts.
ASSUME OrderAssumption ==
    \A w \in Webs : Acyclic(w, Bases(w), [a \in DOMAIN w.heap |-> Len(w.heap) - a])
=============================================================================
