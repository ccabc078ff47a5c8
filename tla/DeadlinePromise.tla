-------------------------- MODULE DeadlinePromise --------------------------
(***************************************************************************)
(* What a promise with a deadline is, with no schedules, deliveries or     *)
(* workers: it is made, its time comes, the people affected are asked      *)
(* once, and only they say that it was kept or missed (VERIFIED here).     *)
(* The steps are those of COMMITMENT_EDGES that some command takes.        *)
(***************************************************************************)
EXTENDS Naturals

CONSTANT Due           \* the logical instant of the deadline

VARIABLES status, now, asked

vars == <<status, now, asked>>

Init == status = "NONE" /\ now = 0 /\ asked = FALSE

Promise == status = "NONE" /\ status' = "PENDING" /\ UNCHANGED <<now, asked>>

(* Time only goes forward. *)
Pass == now' \in Nat /\ now' > now /\ UNCHANGED <<status, asked>>

(* Never before its time, and asking is part of falling due. *)
FallDue ==
    /\ status = "PENDING" /\ now >= Due /\ ~asked
    /\ status' = "DUE" /\ asked' = TRUE
    /\ UNCHANGED now

Verify ==
    /\ status = "DUE" /\ asked
    /\ status' = "VERIFIED"
    /\ UNCHANGED <<now, asked>>

Next == Promise \/ Pass \/ FallDue \/ Verify

Spec == Init /\ [][Next]_vars
=============================================================================
