------------------------------ MODULE MC_WsHub ------------------------------
(***************************************************************************)
(* WsHub for TLC: connections and rooms are model values.                  *)
(***************************************************************************)
EXTENDS WsHub, TLC

\* Connections are interchangeable, and so are rooms.
Symmetry == Permutations(Conn) \union Permutations(Room)
=============================================================================
