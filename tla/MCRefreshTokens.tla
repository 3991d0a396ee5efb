--------------------------- MODULE MCRefreshTokens ---------------------------
(***************************************************************************)
(* Small instances of RefreshTokens for TLC.                               *)
(***************************************************************************)
EXTENDS RefreshTokens, TLC

\* Users, tokens and requests are interchangeable.
RefreshSymmetry ==
    Permutations(Users) \cup Permutations(Tokens) \cup Permutations(Requests)
=============================================================================
