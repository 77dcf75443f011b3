---------------------------- MODULE AssetRegister ----------------------------
(***************************************************************************)
(* What the configuration store promises, without slots or flash: one      *)
(* object with a generation.  A store either happens or does not; if the   *)
(* storage fails at the moment of commitment the caller is told that it    *)
(* failed, and the object may still surface at the next reset unless the   *)
(* next change begins before.                                              *)
(***************************************************************************)
EXTENDS Naturals

CONSTANTS Object, None, MaxGeneration

VARIABLES
    value,   \* the object in use
    shadow   \* the object that a reset would bring into use

regVars == <<value, shadow>>

Nothing == [gen |-> 0, object |-> None]

RegInit == value = Nothing /\ shadow = Nothing

Successors == {[gen |-> value.gen + 1, object |-> p] : p \in Object}

Store ==
    /\ value.gen < MaxGeneration
    /\ value' \in Successors
    /\ shadow' = value'

StoreInDoubt ==
    /\ value.gen < MaxGeneration
    /\ shadow' \in Successors
    /\ UNCHANGED value

Forget == shadow' = value /\ UNCHANGED value

Surface == value' = shadow /\ UNCHANGED shadow

RegNext == Forget \/ Surface \/ Store \/ StoreInDoubt

RegSpec == RegInit /\ [][RegNext]_regVars
==============================================================================
