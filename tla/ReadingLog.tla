----------------------------- MODULE ReadingLog -----------------------------
(***************************************************************************)
(* What the whole path promises of a device's readings, without processes, *)
(* connections or sessions: the cloud's log holds readings the gateway has *)
(* accepted, and between two restarts of the cloud each is newer than      *)
(* everything logged before it.                                            *)
(***************************************************************************)
EXTENDS Naturals

CONSTANT Reading   \* a set of records with a field seq

VARIABLES
    taken,  \* readings the gateway has accepted
    log     \* readings the cloud has accepted since it was started

vars == <<taken, log>>

Init == taken = {} /\ log = {}

Take(r) ==
    /\ taken' = taken \cup {r}
    /\ UNCHANGED log

Record(r) ==
    /\ r \in taken
    /\ \A q \in log : q.seq < r.seq
    /\ log' = log \cup {r}
    /\ UNCHANGED taken

Restart ==
    /\ log' = {}
    /\ UNCHANGED taken

Next == (\E r \in Reading : Take(r) \/ Record(r)) \/ Restart

Spec == Init /\ [][Next]_vars
=============================================================================
