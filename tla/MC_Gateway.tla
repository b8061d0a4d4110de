---------------------------- MODULE MC_Gateway -----------------------------
(***************************************************************************)
(* Gateway for TLC: requests are interchangeable model values.             *)
(***************************************************************************)
EXTENDS Gateway, TLC

Symmetry == Permutations(Req)
=============================================================================
