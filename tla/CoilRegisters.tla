---------------------------- MODULE CoilRegisters ----------------------------
(***************************************************************************)
(* What a Modbus server promises about its coils: a write request is       *)
(* accepted one at a time, names a contiguous range of coils and a value   *)
(* for each; the coils it names take their values one after the other, in  *)
(* any order, and no other coil ever changes.  With another writer         *)
(* ("shared") a coil may also change by itself.                            *)
(***************************************************************************)
EXTENDS Naturals

CONSTANT Coils     \* coil numbers

VARIABLES
    coils,     \* the level of each coil
    shared,    \* there is another writer
    toSet,     \* the coils the running request has still to switch on
    toClear    \* those it has still to switch off

vars == <<coils, shared, toSet, toClear>>

Init ==
    /\ coils = [i \in Coils |-> FALSE]
    /\ shared \in BOOLEAN
    /\ toSet = {}
    /\ toClear = {}

Accept ==
    /\ toSet = {} /\ toClear = {}
    /\ \E first, last \in Coils : \E on \in SUBSET (first .. last) :
        /\ toSet' = on
        /\ toClear' = (first .. last) \ on
    /\ UNCHANGED <<coils, shared>>

SetCoil(i) ==
    /\ i \in toSet
    /\ coils' = [coils EXCEPT ![i] = TRUE]
    /\ toSet' = toSet \ {i}
    /\ UNCHANGED <<shared, toClear>>

ClearCoil(i) ==
    /\ i \in toClear
    /\ coils' = [coils EXCEPT ![i] = FALSE]
    /\ toClear' = toClear \ {i}
    /\ UNCHANGED <<shared, toSet>>

\* The other writer.
Disturb(i) ==
    /\ shared
    /\ coils' = [coils EXCEPT ![i] = ~coils[i]]
    /\ UNCHANGED <<shared, toSet, toClear>>

Next == Accept \/ \E i \in Coils : SetCoil(i) \/ ClearCoil(i) \/ Disturb(i)

Spec == Init /\ [][Next]_vars
=============================================================================
