-------------------------- MODULE MCStartOperation --------------------------
(* Instances of StartOperation for TLC. *)
EXTENDS StartOperation, TLC

CONSTANTS r1, r2, r3, r4, k1, k2, m1, m2, m3, m4, c1, c2, c3, p1, jpeg, png

(* Two attempts of one request, the second with its batch shuffled, another *)
(* request under their key, and one under a key of its own.                  *)
Keyed  == r1 :> k1 @@ r2 :> k1 @@ r3 :> k1 @@ r4 :> k2
Bodies == r1 :> <<m1, m2>> @@ r2 :> <<m2, m1>> @@ r3 :> <<m3>> @@ r4 :> <<m4, m3>>

(* m3 contradicts m2 on its channel identifier; m1, m2 and m4 come with one *)
(* photo, of which m4 declares another type.                                *)
Spoken       == m1 :> c1 @@ m2 :> c2 @@ m3 :> c2 @@ m4 :> c3
Photographed == m1 :> p1 @@ m2 :> p1 @@ m3 :> None @@ m4 :> p1
Declared     == m1 :> jpeg @@ m2 :> jpeg @@ m3 :> jpeg @@ m4 :> png
=============================================================================
