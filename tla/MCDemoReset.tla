---------------------------- MODULE MCDemoReset ----------------------------
(* Instances of DemoReset for TLC. *)
EXTENDS DemoReset, TLC

CONSTANTS r1, r2, r3, k1

(* Two invocations of one request, and one without a key. *)
MCKeyOf == [r \in Resets |-> IF r = r3 THEN None ELSE k1]

(* The two invocations of one request are interchangeable. *)
Symmetry == Permutations({r1, r2})
=============================================================================
