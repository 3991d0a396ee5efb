-------------------------- MODULE MCAccessControl --------------------------
(* Accounts and requests are interchangeable. *)
EXTENDS AccessControl, TLC

AccessSymmetry == Permutations(Users) \cup Permutations(Requests)
=============================================================================
