---------------------------- MODULE MCBatchExtract ----------------------------
(***************************************************************************)
(* Three calls of BatchExtractTransaction that overlap: a block of three   *)
(* transfers, one of a single transfer and an empty one.                   *)
(***************************************************************************)
EXTENDS BatchExtract, TLC

CONSTANTS scan, rescan, empty

ThreeCalls == {scan, rescan, empty}
ThreeSizes == (scan :> 3) @@ (rescan :> 1) @@ (empty :> 0)
=============================================================================
