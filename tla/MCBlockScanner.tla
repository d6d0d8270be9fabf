--------------------------- MODULE MCBlockScanner ---------------------------
(***************************************************************************)
(* Small block trees and environments for BlockScanner.                    *)
(***************************************************************************)
EXTENDS BlockScanner

(***************************************************************************)
(* ForkTree: no skipped heights, two branches that part after height 3, so *)
(* that a reorganisation replaces one to four blocks.                      *)
(*                                                                         *)
(*        3    4    5    6    7                                            *)
(*        a -- a -- a -- a -- a                                            *)
(*         \-- b -- b -- b -- b                                            *)
(***************************************************************************)
ForkBlock  == ({"a"} \X (3..7)) \cup ({"b"} \X (4..7))
ForkHeight == [b \in ForkBlock |-> b[2]]
ForkParent ==
  [b \in ForkBlock |->
     IF b[2] = 3 THEN NoBlock
     ELSE IF b[2] = 4 THEN <<"a", 3>> ELSE <<b[1], b[2] - 1>>]
ForkChain  ==
  [b \in ForkBlock |->
     {x \in ForkBlock : x[2] = 3 \/ (x[1] = b[1] /\ x[2] <= b[2])}]

(***************************************************************************)
(* SkipTree: branch a has no block of height 5.                            *)
(*                                                                         *)
(*        3    4    5    6    7                                            *)
(*        a -- a ------- a -- a                                            *)
(*              \-- b -- b -- b                                            *)
(***************************************************************************)
SkipBlock  == ({"a"} \X {3, 4, 6, 7}) \cup ({"b"} \X (5..7))
SkipHeight == [b \in SkipBlock |-> b[2]]
SkipParent ==
  [b \in SkipBlock |->
     CASE b[2] = 3 -> NoBlock
       [] b[2] = 5 \/ b = <<"a", 6>> -> <<"a", 4>>
       [] b[2] = 4 -> <<"a", 3>>
       [] OTHER -> <<b[1], b[2] - 1>>]
SkipChain  ==
  [b \in SkipBlock |->
     {x \in SkipBlock : x[2] <= b[2] /\ (x[2] <= 4 \/ x[1] = b[1])}]

(***************************************************************************)
(* TwigTree: the smallest fork, at the lowest heights.                     *)
(*                                                                         *)
(*        1    2    3                                                      *)
(*        a -- a -- a                                                      *)
(*         \-- b -- b                                                      *)
(***************************************************************************)
TwigBlock  == ({"a"} \X (1..3)) \cup ({"b"} \X (2..3))
TwigHeight == [b \in TwigBlock |-> b[2]]
TwigParent ==
  [b \in TwigBlock |->
     IF b[2] = 1 THEN NoBlock
     ELSE IF b[2] = 2 THEN <<"a", 1>> ELSE <<b[1], b[2] - 1>>]
TwigChain  ==
  [b \in TwigBlock |->
     {x \in TwigBlock : x[2] <= b[2] /\ (x[2] = 1 \/ x[1] = b[1])}]

\* How often the environment does what it may do.
Env(reorg, fetch, status, panic, notify, crash, pause, calls) ==
  [f \in Fault |->
     CASE f = "reorg"  -> reorg  [] f = "fetch" -> fetch
       [] f = "status" -> status [] f = "panic" -> panic
       [] f = "notify" -> notify [] f = "crash" -> crash
       [] f = "pause"  -> pause  [] f = "call"  -> calls]

\*                   reorg fetch status panic notify crash pause call
FaultEnvs     == {Env(2,    0,    1,     0,    0,     0,    0,    0),
                  Env(0,    3,    0,     0,    1,     1,    0,    0),
                  Env(1,    1,    0,     0,    0,     1,    0,    0),
                  Env(1,    1,    0,     0,    0,     0,    1,    0)}
CallEnvs      == {Env(1,    1,    0,     1,    1,     0,    0,    1)}
MissedEnvs    == {Env(1,    2,    0,     0,    0,     0,    0,    0)}
ReorgEnvs     == {Env(1,    0,    0,     0,    0,     0,    0,    0)}
RescanEnvs    == {Env(0,    0,    0,     0,    0,     0,    0,    1)}
RefuseEnvs    == {Env(0,    0,    0,     0,    2,     0,    0,    0)}
=============================================================================
