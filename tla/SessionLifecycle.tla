-------------------------- MODULE SessionLifecycle --------------------------
(***************************************************************************)
(* What CloudChannel promises of its sessions to whoever uses it, without  *)
(* its threads: there is at most one session; its identifier is published  *)
(* before it can be used and while no other can; identifiers are never     *)
(* used twice; and a session that was dropped does not come back.          *)
(***************************************************************************)
EXTENDS Naturals

VARIABLES
    current,  \* the usable session, or None
    latest,   \* the identifier published last, or None
    pending   \* latest is published and not yet usable

vars == <<current, latest, pending>>

None == 0

Init == current = None /\ latest = None /\ pending = FALSE

(* A fresh identifier is published.                                        *)
Announce ==
    /\ current = None /\ ~pending
    /\ latest' \in Nat
    /\ latest' > latest
    /\ pending' = TRUE
    /\ UNCHANGED current

(* The session it names becomes usable.                                    *)
Install ==
    /\ pending
    /\ current' = latest
    /\ pending' = FALSE
    /\ UNCHANGED latest

(* The session is given up; its identifier stays published.                *)
Drop ==
    /\ current # None
    /\ current' = None
    /\ UNCHANGED <<latest, pending>>

Next == Announce \/ Install \/ Drop

Spec == Init /\ [][Next]_vars
=============================================================================
