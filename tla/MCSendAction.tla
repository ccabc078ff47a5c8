---------------------------- MODULE MCSendAction ----------------------------
(* Instances of SendAction for TLC. *)
EXTENDS SendAction, TLC

(* Two sender invocations are interchangeable. *)
WorkerSymmetry == Permutations(Workers)
=============================================================================
