--------------------------- MODULE LastClientExit ---------------------------
(***************************************************************************)
(* What the host promises about stopping on its own: it concludes that the *)
(* user has finished only after an editor window has been open and then,   *)
(* for Grace units of time without interruption, no window was attached    *)
(* and no work was held.  HostLifecycle implements it.                     *)
(***************************************************************************)
EXTENDS Naturals

CONSTANTS
    Actors,   \* whoever keeps the host up: editor windows and held work
    Clients,  \* the editor windows among them
    Grace

VARIABLES
    engaged,  \* actors attached or at work now
    opened,   \* an editor window has been attached
    quiet,    \* for how long nobody has been engaged, up to Grace
    gone      \* the host has concluded that the user has finished

vars == <<engaged, opened, quiet, gone>>

Init ==
    /\ engaged = {}
    /\ opened = FALSE
    /\ quiet = 0
    /\ gone = FALSE

Engage(a) ==
    /\ a \notin engaged
    /\ engaged' = engaged \cup {a}
    /\ opened' = (opened \/ a \in Clients)
    /\ quiet' = 0
    /\ UNCHANGED gone

Disengage(a) ==
    /\ a \in engaged
    /\ engaged' = engaged \ {a}
    /\ quiet' = 0
    /\ UNCHANGED <<opened, gone>>

Tick ==
    /\ opened /\ engaged = {} /\ quiet < Grace
    /\ quiet' = quiet + 1
    /\ UNCHANGED <<engaged, opened, gone>>

Conclude ==
    /\ opened /\ engaged = {} /\ quiet = Grace
    /\ gone' = TRUE
    /\ UNCHANGED <<engaged, opened, quiet>>

Next ==
    \/ \E a \in Actors : Engage(a) \/ Disengage(a)
    \/ Tick
    \/ Conclude

Spec == Init /\ [][Next]_vars

=============================================================================
