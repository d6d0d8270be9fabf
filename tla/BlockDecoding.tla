---------------------------- MODULE BlockDecoding ----------------------------
(***************************************************************************)
(* What the scanner makes of a block (near/blockscanner.go): the block, its*)
(* chunks one by one, each transaction's actions one by one, and for each  *)
(* transfer the transaction's status (GetBlockByHeight); then the data for *)
(* the accounts of the wallet (ExtractTransaction).                        *)
(*                                                                         *)
(* The loops are steps because the chain goes on meanwhile: a transaction's*)
(* outcome may be known at one call and not yet at another, and a          *)
(* reorganisation may take it back.  A block is a sequence of chunks, a    *)
(* chunk a sequence of transactions; the position <<c, t>> of a transaction*)
(* stands for its hash.                                                    *)
(***************************************************************************)
EXTENDS Integers, Sequences

CONSTANTS
  Blocks,     \* the blocks that may be decoded
  Account,    \* Account[x]: the wallet account of address x (BlockScanTargetFunc)
  NoAccount,  \* the address is none of the wallet's
  Grain       \* an amount is divided to 16 of the chain's 24 decimals

Address == DOMAIN Account

\* A deposit that decimal.NewFromString refuses, and one that is no string.
Garbled  == -1
NoString == -2

\* An action is a bare string ("CreateAccount"), an object with a Transfer, with
\* a Transfer that is no object itself, or with another kind of action.
Kind   == {"string", "transfer", "malformed", "other"}
Action == [kind : Kind, deposit : Nat \cup {Garbled, NoString}]
Tx     == [from : Address, to : Address, actions : Seq(Action)]

ASSUME DecodingAssumption ==
  /\ Blocks \subseteq Seq(Seq(Tx))
  /\ Grain \in Nat \ {0}

VARIABLES
  block,      \* the block behind the height that is asked for
  outcome,    \* outcome[p]: what became of the transaction at p, on the chain
  lately,     \* history: what had succeeded at some time since the call began
  pc,         \* where the call stands
  c, t, a,    \* the chunk, transaction and action the loops have reached
  hasTrans,   \* of the transaction: is there a transfer
  value,      \* ... and its deposit
  transfers,  \* transfers[p]: the TxTransfer of the transaction at p
  offered     \* the data the observers were given, over all calls

loops == <<c, t, a, hasTrans, value>>
vars  == <<block, outcome, lately, pc, loops, transfers, offered>>

PC == {"idle", "chunk", "tx", "action", "status", "extract"}

Positions(b) == UNION {{i} \X DOMAIN b[i] : i \in DOMAIN b}
TxAt(b, p)   == b[p[1]][p[2]]
Here         == <<c, t>>
Actions      == TxAt(block, Here).actions

\* decimal.Div rounds to 16 decimals, a half upwards.
Rounded(d) == ((2 * d + Grain) \div (2 * Grain)) * Grain

Nothing   == [p \in {} |-> 0]
Succeeded == {p \in Positions(block) : outcome[p] = "success"}
-----------------------------------------------------------------------------
(* GetBlockByHeight(height, true) *)

\* The "block" call; one that fails changes nothing.
GetBlock ==
  /\ pc = "idle" /\ pc' = "chunk"
  /\ c' = 1
  /\ transfers' = Nothing /\ lately' = Succeeded
  /\ UNCHANGED <<block, outcome, t, a, hasTrans, value, offered>>

\* The call returns an error and none of what it had found.
Fail ==
  /\ pc' = "idle" /\ transfers' = Nothing
  /\ UNCHANGED <<block, outcome, lately, loops, offered>>

GetTxByChunk ==
  /\ pc = "chunk" /\ c <= Len(block) /\ pc' = "tx"
  /\ t' = 1
  /\ UNCHANGED <<block, outcome, lately, c, a, hasTrans, value, transfers, offered>>

ChunkFails == pc = "chunk" /\ c <= Len(block) /\ Fail

LastChunk ==
  /\ pc = "chunk" /\ c > Len(block) /\ pc' = "extract"
  /\ UNCHANGED <<block, outcome, lately, loops, transfers, offered>>

NextTxCarrying ==                                     \* mutant: hasTrans kept
  /\ pc = "tx" /\ t <= Len(block[c]) /\ Actions # <<>> /\ pc' = "action"
  /\ a' = 1
  /\ UNCHANGED <<block, outcome, lately, c, t, hasTrans, value, transfers, offered>>
NextTx ==
  /\ pc = "tx" /\ t <= Len(block[c]) /\ Actions # <<>> /\ pc' = "action"
  /\ hasTrans' = FALSE /\ value' = 0 /\ a' = 1
  /\ UNCHANGED <<block, outcome, lately, c, t, transfers, offered>>

GoOn == pc' = "tx" /\ t' = t + 1 /\ UNCHANGED <<block, outcome, lately, c, a, hasTrans, value, offered>>

EmptyTx == pc = "tx" /\ t <= Len(block[c]) /\ Actions = <<>> /\ GoOn /\ UNCHANGED transfers

LastTx ==
  /\ pc = "tx" /\ t > Len(block[c]) /\ pc' = "chunk"
  /\ c' = c + 1
  /\ UNCHANGED <<block, outcome, lately, t, a, hasTrans, value, transfers, offered>>

\* The switch over the kinds of an action; "break" and "continue" both lead to
\* the next action.
Look(kinds) ==
  /\ pc = "action" /\ a <= Len(Actions) /\ Actions[a].kind \in kinds
  /\ a' = a + 1
  /\ UNCHANGED <<block, outcome, lately, pc, c, t, transfers, offered>>

StringAction   == Look({"string"}) /\ hasTrans' = FALSE /\ UNCHANGED value
TransferAction ==
  /\ Look({"transfer"}) /\ Actions[a].deposit # NoString
  /\ hasTrans' = TRUE /\ value' = Actions[a].deposit
OtherAction    == Look({"malformed", "other"}) /\ UNCHANGED <<hasTrans, value>>

\* The deposit is taken for a string unasked: the process ends, and the call with
\* it; the scanner starts again with nothing of it.
TransferPanics ==
  /\ pc = "action" /\ a <= Len(Actions)
  /\ Actions[a].kind = "transfer" /\ Actions[a].deposit = NoString
  /\ Fail

NoTransfer ==
  /\ pc = "action" /\ a > Len(Actions) /\ (~hasTrans \/ value = 0)
  /\ GoOn /\ UNCHANGED transfers

DepositFails == pc = "action" /\ a > Len(Actions) /\ hasTrans /\ value = Garbled /\ Fail

IsTransferUnread ==                              \* mutant: the parser's error dropped
  /\ pc = "action" /\ a > Len(Actions) /\ hasTrans /\ value # 0
  /\ pc' = "status"
  /\ UNCHANGED <<block, outcome, lately, loops, transfers, offered>>
IsTransfer ==
  /\ pc = "action" /\ a > Len(Actions) /\ hasTrans /\ value \notin {0, Garbled}
  /\ pc' = "status"
  /\ UNCHANGED <<block, outcome, lately, loops, transfers, offered>>

\* GetTxStatus: "1" for an outcome with SuccessValue whose fees can be added up;
\* "0" for every other outcome, for one that is not known, and for any error.
NotFailed == {"0"} \cup IF outcome[Here] # "failure" THEN {"1"} ELSE {}   \* mutant: SuccessValue not asked for
GetTxStatus == {"0"} \cup IF outcome[Here] = "success" THEN {"1"} ELSE {}

AddTransfer ==
  /\ pc = "status"
  /\ \E status \in GetTxStatus :
       transfers' = [p \in DOMAIN transfers \cup {Here} |->
                       IF p = Here THEN [value |-> Rounded(value), status |-> status]
                       ELSE transfers[p]]
  /\ GoOn
-----------------------------------------------------------------------------
(* ExtractTransaction *)

Entry(p, key, input, output) ==
  [at |-> p, key |-> key, input |-> input, output |-> output,
   value |-> transfers[p].value, status |-> transfers[p].status]

\* One account on both sides gets one entry with both.
BothSides(p) ==                                          \* mutant: one for each side
  {Entry(p, k, TRUE, FALSE) : k \in {Account[TxAt(block, p).from]} \ {NoAccount}}
    \cup {Entry(p, k, FALSE, TRUE) : k \in {Account[TxAt(block, p).to]} \ {NoAccount}}
ExtractTransaction(p) ==
  LET from == Account[TxAt(block, p).from]
      to   == Account[TxAt(block, p).to]
  IN IF from = to THEN {Entry(p, k, TRUE, TRUE) : k \in {from} \ {NoAccount}}
     ELSE {Entry(p, k, TRUE, FALSE) : k \in {from} \ {NoAccount}}
            \cup {Entry(p, k, FALSE, TRUE) : k \in {to} \ {NoAccount}}

\* BatchExtractTransaction of the block, which offers everything before it
\* returns (module BatchExtract).
BatchExtract ==
  /\ pc = "extract" /\ pc' = "idle"
  /\ offered' = offered \cup UNION {ExtractTransaction(p) : p \in DOMAIN transfers}
  /\ UNCHANGED <<block, outcome, lately, loops, transfers>>
-----------------------------------------------------------------------------
(* The chain *)

\* A transaction is executed; or a reorganisation takes its outcome back, so that
\* it is executed anew or, on the other branch, never.
Execute(p) ==
  /\ outcome[p] = "pending"
  /\ \E o \in {"success", "failure"} :
       /\ outcome' = [outcome EXCEPT ![p] = o]
       /\ lately'  = IF o = "success" THEN lately \cup {p} ELSE lately
  /\ UNCHANGED <<block, pc, loops, transfers, offered>>

TakeBack(p) ==
  /\ outcome[p] # "pending"
  /\ outcome' = [outcome EXCEPT ![p] = "pending"]
  /\ UNCHANGED <<block, lately, pc, loops, transfers, offered>>
-----------------------------------------------------------------------------
Init ==
  /\ block \in Blocks
  /\ outcome = [p \in Positions(block) |-> "pending"] /\ lately = {}
  /\ pc = "idle" /\ c = 1 /\ t = 1 /\ a = 1 /\ hasTrans = FALSE /\ value = 0
  /\ transfers = Nothing /\ offered = {}

GetBlockByHeight ==
  \/ GetBlock \/ GetTxByChunk \/ ChunkFails \/ LastChunk
  \/ NextTx \/ EmptyTx \/ LastTx
  \/ StringAction \/ TransferAction \/ TransferPanics \/ OtherAction
  \/ NoTransfer \/ DepositFails \/ IsTransfer \/ AddTransfer

Chain == \E p \in Positions(block) : Execute(p) \/ TakeBack(p)

Next == GetBlockByHeight \/ BatchExtract \/ Chain

Spec == Init /\ [][Next]_vars
-----------------------------------------------------------------------------
(* Properties *)

Outcome == {"pending", "success", "failure"}

TypeOK ==
  /\ block \in Blocks
  /\ outcome \in [Positions(block) -> Outcome] /\ lately \subseteq Positions(block)
  /\ pc \in PC
  /\ c \in 1..(Len(block) + 1) /\ t \in Nat \ {0} /\ a \in Nat \ {0}
  /\ pc \in {"tx", "action", "status"} => c <= Len(block) /\ t <= Len(block[c]) + 1
  /\ pc \in {"action", "status"} => t <= Len(block[c]) /\ a <= Len(Actions) + 1
  /\ hasTrans \in BOOLEAN
  /\ value \in Nat \cup {Garbled} /\ (pc = "status" => value \in Nat)
  /\ DOMAIN transfers \subseteq Positions(block)
  /\ transfers \in [DOMAIN transfers -> [value : Nat, status : {"0", "1"}]]
  /\ offered \subseteq [at : Positions(block), key : {Account[x] : x \in Address} \ {NoAccount},
                        input : BOOLEAN, output : BOOLEAN, value : Nat, status : {"0", "1"}]

\* What the chain makes of actions as: which are Transfers, what they move, and
\* whether there is just one, that moves something, with no bare string after it.
Transfers(as) == {i \in DOMAIN as : as[i].kind = "transfer"}
Moves(as)     == {as[i].deposit : i \in Transfers(as)} \ {0}
Plain(as)     ==
  \E i \in DOMAIN as :
    /\ Transfers(as) = {i} /\ as[i].deposit # 0
    /\ \A j \in DOMAIN as : j > i => as[j].kind # "string"

OnChain(b) == [moves |-> [p \in Positions(b) |-> Moves(TxAt(b, p).actions)],
               plain |-> {p \in Positions(b) : Plain(TxAt(b, p).actions)}]

\* The decoder keeps its promise to the scanner: a call that returns a block
\* returns no transaction that moves nothing, no amount that no Transfer of the
\* transaction moves, no plain transfer too few, and no success that was none at
\* any time of the call; whatever the other actions and transactions, and the
\* calls before it that failed halfway.
Promise == INSTANCE DecodePromise WITH
  Blocks    <- {OnChain(b) : b \in Blocks},
  block     <- OnChain(block),
  succeeded <- Succeeded,
  seen      <- lately,
  state     <- CASE pc = "idle" -> "idle" [] pc = "extract" -> "answered" [] OTHER -> "asked",
  answer    <- IF pc \in {"idle", "extract"} THEN transfers ELSE Nothing

BlockDecoded == Promise!Spec

\* A block that is returned comes with every transaction that contains a Transfer
\* of something, as the comment over GetTxByChunk and GetTxStatus has it.
TransfersFound ==
  pc = "extract" =>
    \A p \in Positions(block) : (\E d \in Moves(TxAt(block, p).actions) : d > 0) => p \in DOMAIN transfers

OwnSides ==
  \A e \in offered :
    /\ e.input  = (Account[TxAt(block, e.at).from] = e.key)
    /\ e.output = (Account[TxAt(block, e.at).to] = e.key)

AllSides ==
  pc = "idle" =>
    \A p \in DOMAIN transfers : \A x \in {TxAt(block, p).from, TxAt(block, p).to} :
      Account[x] # NoAccount =>
        \E e \in offered : /\ e.at = p /\ e.key = Account[x]
                           /\ e.status = transfers[p].status /\ e.value = transfers[p].value

\* An account gets one entry of a transfer, with the sides that are its own; and
\* once a call has returned the block, both sides' accounts have theirs.
SidesShown == OwnSides /\ AllSides
=============================================================================
