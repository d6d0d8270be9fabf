---------------------------- MODULE DecodePromise ----------------------------
(***************************************************************************)
(* What GetBlockByHeight promises the scanner, whatever the chain does     *)
(* meanwhile: a call fails as a whole, or it returns the plain transfers of*)
(* the block and no transaction that moves nothing, each with an amount    *)
(* that one of its Transfers moves, up to the rounding, and as succeeded   *)
(* only if it was one while the call ran.                                  *)
(*                                                                         *)
(* It does not promise all that a transaction of several Transfers moves,  *)
(* nor a transaction with a bare string after its Transfer.                *)
(***************************************************************************)
EXTENDS Integers

CONSTANTS
  Blocks,      \* the blocks: moves[p], the deposits the Transfers of the
               \* transaction at p move, and plain, those with one Transfer
  Grain        \* the unit deposits are rounded to

VARIABLES
  block,       \* the block that is asked for
  succeeded,   \* the transactions that succeeded, as the chain has it now
  seen,        \* ... at some time since the call began
  state,       \* of the call: "idle", "asked" or "answered"
  answer       \* answer[p]: what was returned of the transaction at p

vars == <<block, succeeded, seen, state, answer>>

Nothing == [p \in {} |-> 0]

Near(v, d) == 2 * v <= 2 * d + Grain /\ 2 * d <= 2 * v + Grain

Init ==
  /\ block \in Blocks
  /\ succeeded = {} /\ seen = {}
  /\ state = "idle"
  /\ answer = Nothing

Ask ==
  /\ state = "idle" /\ state' = "asked"
  /\ seen' = succeeded
  /\ answer' = Nothing
  /\ UNCHANGED <<block, succeeded>>

Fail ==
  /\ state = "asked" /\ state' = "idle"
  /\ UNCHANGED <<block, succeeded, seen, answer>>

Answer ==
  /\ state = "asked" /\ state' = "answered"
  /\ block.plain \subseteq DOMAIN answer' /\ DOMAIN answer' \subseteq DOMAIN block.moves
  /\ \A p \in DOMAIN answer' :
       /\ \E d \in block.moves[p] : d >= 0 /\ Near(answer'[p].value, d)
       /\ answer'[p].status = "1" => p \in seen
  /\ UNCHANGED <<block, succeeded, seen>>

Use ==
  /\ state = "answered" /\ state' = "idle"
  /\ UNCHANGED <<block, succeeded, seen, answer>>

\* The chain executes transactions and takes them back, whoever asks meanwhile.
Chain ==
  /\ seen' = seen \cup succeeded'
  /\ UNCHANGED <<block, state, answer>>

Next == Ask \/ Fail \/ Answer \/ Use \/ Chain

Spec == Init /\ [][Next]_vars
=============================================================================
