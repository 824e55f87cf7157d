---------------------------- MODULE SettingsStore ----------------------------
(***************************************************************************)
(* What the user of a device expects of its settings: a form changes them  *)
(* as a whole; what a form has set is kept, as far as it survives at all,  *)
(* and a restart at any time goes back to what was kept last; a reset goes *)
(* back to the defaults.  Meanwhile a form may be half applied to the      *)
(* settings in use, never to those that are kept.                          *)
(***************************************************************************)
CONSTANTS
    Values,      \* the settings there can be
    Default,     \* those of a new device
    Survivor     \* function: what is left of settings that were kept

VARIABLES
    inUse,     \* the settings the device works with
    kept,      \* those a restart goes back to
    target     \* {the settings a form asks for}, {} if no form is being applied

vars == <<inUse, kept, target>>

Init == inUse = Default /\ kept = Default /\ target = {}

Submit ==
    /\ target = {}
    /\ inUse' \in Values
    /\ \E v \in target' : target' = {v} /\ v \in Values
    /\ UNCHANGED kept

Apply ==
    /\ target # {}
    /\ inUse' \in Values
    /\ UNCHANGED <<kept, target>>

Keep ==
    /\ target = {inUse}
    /\ kept' = Survivor[inUse]
    /\ target' = {}
    /\ UNCHANGED inUse

Restart ==
    /\ inUse' = kept
    /\ target' = {}
    /\ UNCHANGED kept

Reset ==
    /\ inUse' = Default
    /\ kept' = Default
    /\ target' = {}

Next == Submit \/ Apply \/ Keep \/ Restart \/ Reset

Spec == Init /\ [][Next]_vars
=============================================================================
