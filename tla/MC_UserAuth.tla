---------------------------- MODULE MC_UserAuth ----------------------------
(***************************************************************************)
(* UserAuth for TLC: requests, emails and passwords are model values.      *)
(***************************************************************************)
EXTENDS UserAuth, TLC

\* Requests are interchangeable, and so are passwords and emails.
Symmetry == Permutations(Req) \union Permutations(Password) \union Permutations(Email)
=============================================================================
