--------------------------- MODULE MCSerialisation ---------------------------
(***************************************************************************)
(* Bytes of base four, written with two binary digits; addresses of one    *)
(* byte and deposits of three.  The names that may receive are empty, in   *)
(* hex, or beyond it; a byte 3 is no text, and JSON makes of it what is a  *)
(* name too.                                                               *)
(***************************************************************************)
EXTENDS Serialisation

CONSTANT MaxUnits   \* bound: the units of an amount

SomeKeys      == {<<1>>, <<2>>}
SomeReceivers == {<<>>, <<0, 1>>, <<2, 0, 2>>, <<2, 2>>, <<3>>, <<1, 3>>}
Replaced(to)  == FlattenSeq([i \in 1..Len(to) |-> IF to[i] = 3 THEN <<2, 2>> ELSE <<to[i]>>])
SomeJson      == [to \in SomeReceivers |-> Replaced(to)]
SomeHashes    == {<<0, 3>>, <<2, 0>>}
SomeNonces    == {0, 1, 4, 11, 15}

\* All the chain can hold, a whole NEAR being 27 of the smallest unit.
SomeAmounts ==
  {a \in [units : 0..MaxUnits, places : 0..Decimals] :
     a.units * Power(Ten, Decimals - a.places) < Power(Base, DepositWidth)}
=============================================================================
