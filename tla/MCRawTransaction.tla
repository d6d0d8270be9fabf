--------------------------- MODULE MCRawTransaction ---------------------------
(***************************************************************************)
(* An account with two addresses that sends one transfer and sweeps both,  *)
(* and one with a single address that sends two transfers.                 *)
(***************************************************************************)
EXTENDS RawTransaction, TLC

CONSTANTS first, second

OneTransfer  == {first}
OneAmount    == first :> 6
TwoTransfers == {first, second}
TwoAmounts   == (first :> 6) @@ (second :> 4)

\* The first address can pay the transfer or its sweep and not both.  21 is
\* shown as 22 and 17 as 18: both are rounded up.
TwoFunds == (1 :> 21) @@ (2 :> 17)
OneFunds == 1 :> 21
=============================================================================
