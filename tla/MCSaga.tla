------------------------------- MODULE MCSaga --------------------------------
(***************************************************************************)
(* Instances of Saga for TLC.                                              *)
(***************************************************************************)
EXTENDS Saga, TLC

MCOneSlot == {[resource |-> "salon1", start |-> 1, blockedUntil |-> 3]}

MCSymmetry == Permutations(Requests)
=============================================================================
