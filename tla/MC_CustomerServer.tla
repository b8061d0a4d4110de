------------------------- MODULE MC_CustomerServer --------------------------
(***************************************************************************)
(* CustomerServer for TLC: the two routes of index.ts, and one with the    *)
(* kind of schemas index.ts declares, whose handler returns statusCodes of *)
(* every length; the handler of the last throws, or returns numbers no     *)
(* status is made of.  Numbers have an exponent from six digits on, and    *)
(* x | 0 leaves 16 bits.                                                   *)
(***************************************************************************)
EXTENDS CustomerServer, TLC

CONSTANTS c1, c2, health, resource, item, odd, id, text

MCConn == {c1, c2}
MCRoute == {health, resource, item, odd}
MCValue == {id, text}
MCWithParams == {item}
MCSchema == [r \in MCRoute |-> IF r = item THEN "body" :> {text} @@ "params" :> {id} @@ "query" :> {id}
                                           ELSE [p \in {} |-> {}]]
Whole(n) == [trunc |-> n, whole |-> TRUE]
Fraction(n) == [trunc |-> n, whole |-> FALSE]
MCExponent == 100000
MCTens == {10, 100}
MCWrap == 65536

\* Of -65436 x | 0 makes 100, of the fraction of 404 it makes 404: both are sent.
MCCode == [r \in MCRoute |->
             IF r = item THEN {Whole(n) : n \in {0, 4, 40, 404, 4040, 99999}} \union {Fraction(404), Fraction(1000)}
             ELSE IF r = odd THEN {Whole(-5), Whole(-65436), Fraction(0), Fraction(40), Whole(100000)}
             ELSE {NoCode}]
MCThrower == {odd}
=============================================================================
