---------------------------- MODULE MCEmailCodes ----------------------------
(***************************************************************************)
(* Small instances of EmailCodes for TLC.                                  *)
(***************************************************************************)
EXTENDS EmailCodes, TLC

\* Requests are interchangeable, and so are accounts.
Symmetry == Permutations(Requests) \cup Permutations(Users)

\* Registration off, open, or with verification.
Policies ==
    {[enabled |-> FALSE, required |-> TRUE, allowed |-> Mails],
     [enabled |-> TRUE, required |-> FALSE, allowed |-> Mails],
     [enabled |-> TRUE, required |-> TRUE, allowed |-> Mails]}

\* In the last tick only behaviours with one code go on.
Horizon == now = MaxTime => drawn <= 1
=============================================================================
