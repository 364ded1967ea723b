---------------------------- MODULE MCStorefront -----------------------------
(***************************************************************************)
(* Instances of Storefront for TLC.                                        *)
(***************************************************************************)
EXTENDS Storefront, TLC

CONSTANTS v1, s1

\* All visits are of one salon and rated differently.
MCSalonOf == [v \in Visits |-> s1]
MCStars == [v \in Visits |-> IF v = v1 THEN 5 ELSE 2]

MCSymmetry == Permutations(Reviewers) \cup Permutations(OwnerCalls)
=============================================================================
