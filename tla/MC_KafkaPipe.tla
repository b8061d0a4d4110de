--------------------------- MODULE MC_KafkaPipe ----------------------------
(***************************************************************************)
(* KafkaPipe for TLC: senders and topics are model values.                 *)
(***************************************************************************)
EXTENDS KafkaPipe, TLC

\* Topics are interchangeable, and so are senders of the same kind.
Symmetry == Permutations(Topic) \union Permutations(Background) \union Permutations(Sender \ Background)
=============================================================================
