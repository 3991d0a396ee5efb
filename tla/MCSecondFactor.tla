--------------------------- MODULE MCSecondFactor ---------------------------
(***************************************************************************)
(* Small instances of SecondFactor for TLC.                                *)
(***************************************************************************)
EXTENDS SecondFactor, TLC

\* Requests are interchangeable.
RequestSymmetry == Permutations(Requests)
=============================================================================
