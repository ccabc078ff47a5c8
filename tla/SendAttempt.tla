---------------------------- MODULE SendAttempt ----------------------------
(***************************************************************************)
(* What one approved execution promises, with no workers, fences, versions *)
(* or clocks: SES is called at most once, an outcome is recorded only when *)
(* it is what happened, and an outcome that is not known stays quarantined *)
(* until there is evidence of it.  The execution states are those of       *)
(* ACTION_EXECUTION_EDGES.                                                 *)
(***************************************************************************)
VARIABLES state, called, accepted

vars == <<state, called, accepted>>

Init == state = "APPROVED" /\ called = FALSE /\ accepted = FALSE

(* APPROVED -> SENDING: the authorization is consumed. *)
Start ==
    /\ state = "APPROVED"
    /\ state' = "SENDING"
    /\ UNCHANGED <<called, accepted>>

(* The one deliberate call.  It may come after the quarantine, never after  *)
(* a recorded success or failure.                                           *)
Call ==
    /\ state \in {"SENDING", "SEND_UNKNOWN"}
    /\ ~called
    /\ called' = TRUE
    /\ accepted' \in BOOLEAN
    /\ UNCHANGED state

RecordSent ==
    /\ state \in {"SENDING", "SEND_UNKNOWN"}
    /\ accepted
    /\ state' = "SENT"
    /\ UNCHANGED <<called, accepted>>

(* A quarantined attempt fails only once SES is known to have refused it.   *)
RecordFailed ==
    /\ state \in {"APPROVED", "SENDING", "SEND_UNKNOWN"}
    /\ ~accepted
    /\ state = "SEND_UNKNOWN" => called
    /\ state' = "FAILED"
    /\ UNCHANGED <<called, accepted>>

Quarantine ==
    /\ state = "SENDING"
    /\ state' = "SEND_UNKNOWN"
    /\ UNCHANGED <<called, accepted>>

Next == Start \/ Call \/ RecordSent \/ RecordFailed \/ Quarantine

Spec == Init /\ [][Next]_vars
=============================================================================
