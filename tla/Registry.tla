------------------------------ MODULE Registry ------------------------------
(* What preregistration promises: the settings are written down once, before    *)
(* any result, and every result is the result of those settings and stays as    *)
(* it is (the docstring of preregister, run_diar.py:676: "an existing file is   *)
(* never rewritten, so nothing can be added or changed after a test result is   *)
(* seen").                                                                       *)
CONSTANTS
    Settings,       \* the settings the dev grid can end with
    Results,        \* what can be published
    Nothing         \* not written, or not readable

VARIABLES
    registered,     \* the settings written down
    published       \* result |-> the settings it reports
vars == <<registered, published>>

Init ==
    /\ registered \in Settings \cup {Nothing}
    /\ published = [r \in Results |-> Nothing]

Register ==
    /\ registered = Nothing
    /\ registered' \in Settings
    /\ UNCHANGED published

Publish(r) ==
    /\ registered # Nothing
    /\ published[r] = Nothing
    /\ published' = [published EXCEPT ![r] = registered]
    /\ UNCHANGED registered

Next == Register \/ \E r \in Results : Publish(r)

Spec == Init /\ [][Next]_vars
=============================================================================
