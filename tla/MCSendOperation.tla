--------------------------- MODULE MCSendOperation ---------------------------
(* Instances of SendOperation for TLC. *)
EXTENDS SendOperation, TLC

(* Two operations, like two worker invocations, are interchangeable. *)
Interchangeable == Permutations(Ops) \union Permutations(Workers)
=============================================================================
