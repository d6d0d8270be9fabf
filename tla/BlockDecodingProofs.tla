------------------------- MODULE BlockDecodingProofs -------------------------
(***************************************************************************)
(* Theorems about the decoding of blocks, for every block: any number of   *)
(* chunks, transactions and actions, any accounts, whatever call fails.    *)
(***************************************************************************)
EXTENDS BlockDecoding, TLAPS

LEMMA Division ==
  ASSUME NEW n \in Nat, NEW k \in Nat \ {0}
  PROVE  /\ n \div k \in Nat
         /\ (n \div k) * k <= n
         /\ n < (n \div k) * k + k
  OBVIOUS

\* The rounding is by half a grain at most.
LEMMA RoundedNear ==
  ASSUME NEW d \in Nat
  PROVE  Rounded(d) \in Nat /\ Promise!Near(Rounded(d), d)
<1> DEFINE q == (2 * d + Grain) \div (2 * Grain)
<1>1. Grain \in Nat \ {0} /\ 2 * Grain \in Nat \ {0} /\ 2 * d + Grain \in Nat
  BY DecodingAssumption
<1>2. q \in Nat /\ q * (2 * Grain) <= 2 * d + Grain /\ 2 * d + Grain < q * (2 * Grain) + 2 * Grain
  BY <1>1, Division
<1> HIDE DEF q
<1>3. q * (2 * Grain) = 2 * (q * Grain) /\ q * Grain \in Nat
  BY <1>1, <1>2
<1>4. Rounded(d) = q * Grain
  BY DEF Rounded, q
<1> QED
  BY <1>1, <1>2, <1>3, <1>4 DEF Promise!Near
-----------------------------------------------------------------------------
(***************************************************************************)
(* Blocks.                                                                 *)
(***************************************************************************)
LEMMA Types ==
  ASSUME NEW b \in Blocks
  PROVE  /\ Len(b) \in Nat /\ DOMAIN b = 1..Len(b)
         /\ \A i \in 1..Len(b) :
              /\ Len(b[i]) \in Nat /\ DOMAIN b[i] = 1..Len(b[i])
              /\ \A j \in 1..Len(b[i]) : b[i][j] \in Tx
<1>1. b \in Seq(Seq(Tx))
  BY DecodingAssumption
<1> QED
  BY <1>1

LEMMA PositionsAre ==
  ASSUME NEW b \in Blocks
  PROVE  /\ \A i, j : <<i, j>> \in Positions(b) <=> i \in 1..Len(b) /\ j \in 1..Len(b[i])
         /\ \A p \in Positions(b) : /\ p = <<p[1], p[2]>>
                                    /\ p[1] \in 1..Len(b) /\ p[2] \in 1..Len(b[p[1]])
                                    /\ TxAt(b, p) \in Tx
  BY Types DEF Positions, TxAt

\* The actions of a transaction.
LEMMA ActionsAre ==
  ASSUME NEW x \in Tx
  PROVE  /\ Len(x.actions) \in Nat /\ DOMAIN x.actions = 1..Len(x.actions)
         /\ \A i \in 1..Len(x.actions) : x.actions[i] \in Action
         /\ x.from \in Address /\ x.to \in Address
  BY DEF Tx

\* What the chain makes of a block.
LEMMA OnChainIs ==
  ASSUME NEW b \in Blocks
  PROVE  /\ DOMAIN OnChain(b).moves = Positions(b)
         /\ \A p \in Positions(b) : OnChain(b).moves[p] = Moves(TxAt(b, p).actions)
         /\ OnChain(b).plain = {p \in Positions(b) : Plain(TxAt(b, p).actions)}
  BY DEF OnChain

\* What the accounts get of a transfer: one entry an account, with its sides.
LEMMA EntriesAre ==
  ASSUME NEW p, NEW e
  PROVE  e \in ExtractTransaction(p)
           <=> \E k \in {Account[TxAt(block, p).from], Account[TxAt(block, p).to]} \ {NoAccount} :
                 e = Entry(p, k, Account[TxAt(block, p).from] = k, Account[TxAt(block, p).to] = k)
<1> DEFINE from == Account[TxAt(block, p).from]
           to   == Account[TxAt(block, p).to]
<1>1. CASE from = to
  BY <1>1 DEF ExtractTransaction
<1>2. CASE from # to
  <2>1. e \in ExtractTransaction(p)
          <=> \/ \E k \in {from} \ {NoAccount} : e = Entry(p, k, TRUE, FALSE)
              \/ \E k \in {to} \ {NoAccount} : e = Entry(p, k, FALSE, TRUE)
    BY <1>2 DEF ExtractTransaction
  <2>2. ASSUME NEW k
        PROVE  /\ k = from => (from = k) = TRUE /\ (to = k) = FALSE
               /\ k = to => (from = k) = FALSE /\ (to = k) = TRUE
    BY <1>2
  <2> QED
    BY <2>1, <2>2
<1> QED
  BY <1>1, <1>2
-----------------------------------------------------------------------------
(* The types *)

LEMMA EntryTyped ==
  ASSUME TypeOK, NEW p \in DOMAIN transfers, NEW e \in ExtractTransaction(p)
  PROVE  e \in [at : Positions(block), key : {Account[x] : x \in Address} \ {NoAccount},
                input : BOOLEAN, output : BOOLEAN, value : Nat, status : {"0", "1"}]
<1> DEFINE from == Account[TxAt(block, p).from]
           to   == Account[TxAt(block, p).to]
<1>1. /\ p \in Positions(block)
      /\ TxAt(block, p).from \in Address
      /\ TxAt(block, p).to \in Address
      /\ transfers[p].value \in Nat
      /\ transfers[p].status \in {"0", "1"}
  BY PositionsAre, ActionsAre DEF TypeOK
<1>2. \E k \in {from, to} \ {NoAccount}, input, output \in BOOLEAN : e = Entry(p, k, input, output)
  BY DEF ExtractTransaction
<1>3. {from, to} \subseteq {Account[x] : x \in Address}
  BY <1>1
<1> HIDE DEF from, to
<1> QED
  BY <1>1, <1>2, <1>3 DEF Entry

LEMMA TypeInit == Init => TypeOK
<1> SUFFICES ASSUME Init PROVE TypeOK
  OBVIOUS
<1>1. block \in Blocks /\ Len(block) \in Nat
  BY Types DEF Init
<1>2. DOMAIN transfers = {} /\ transfers \in [DOMAIN transfers -> [value : Nat, status : {"0", "1"}]]
  BY DEF Init, Nothing
<1>3. outcome \in [Positions(block) -> Outcome]
  BY DEF Init, Outcome
<1>4. hasTrans \in BOOLEAN
  BY DEF Init
<1> QED
  BY <1>1, <1>2, <1>3, <1>4 DEF Init, TypeOK, PC

LEMMA TypeStep == TypeOK /\ [Next]_vars => TypeOK'
<1> SUFFICES ASSUME TypeOK, [Next]_vars PROVE TypeOK'
  OBVIOUS
<1> USE DEF TypeOK, PC, Outcome, Here, Actions, loops
<1>0. /\ Len(block) \in Nat
      /\ \A i \in 1..Len(block) : Len(block[i]) \in Nat
  BY Types
<1>1. CASE GetBlock
  BY <1>0, <1>1 DEF GetBlock, Nothing, Succeeded
<1>2. CASE GetTxByChunk
  BY <1>0, <1>2 DEF GetTxByChunk
<1>3. CASE ChunkFails \/ DepositFails \/ TransferPanics
  BY <1>0, <1>3 DEF ChunkFails, DepositFails, TransferPanics, Fail, Nothing
<1>4. CASE LastChunk
  BY <1>0, <1>4 DEF LastChunk
<1>5. CASE NextTx
  <2>1. Len(Actions) \in Nat /\ Here \in Positions(block)
    BY <1>0, <1>5, PositionsAre, ActionsAre DEF NextTx
  <2>2. hasTrans' \in BOOLEAN /\ Actions' = Actions /\ Here' = Here
    BY <1>5 DEF NextTx
  <2> QED
    BY <1>0, <1>5, <2>1, <2>2 DEF NextTx
<1>6. CASE EmptyTx \/ NoTransfer
  BY <1>0, <1>6 DEF EmptyTx, NoTransfer, GoOn
<1>7. CASE LastTx
  BY <1>0, <1>7 DEF LastTx
<1>8. CASE StringAction \/ TransferAction \/ OtherAction
  <2>1. Here \in Positions(block) /\ a \in 1..Len(Actions) /\ Len(Actions) \in Nat
    BY <1>0, <1>8, PositionsAre, ActionsAre DEF StringAction, TransferAction, OtherAction, Look
  <2>2. Actions[a].deposit \in Nat \cup {Garbled, NoString}
    BY <2>1, PositionsAre, ActionsAre DEF Action
  <2>3. hasTrans' \in BOOLEAN
    BY <1>8, Zenon DEF StringAction, TransferAction, OtherAction
  <2>4. /\ a' = a + 1 /\ value' \in Nat \cup {Garbled} /\ pc = "action"
        /\ UNCHANGED <<block, outcome, lately, pc, c, t, transfers, offered>>
    BY <1>8, <2>2 DEF StringAction, TransferAction, OtherAction, Look
  <2>5. Actions' = Actions
    BY <2>4
  <2> HIDE DEF Actions, Here
  <2> QED
    BY <1>0, <2>1, <2>3, <2>4, <2>5
<1>9. CASE IsTransfer
  BY <1>0, <1>9 DEF IsTransfer
<1>10. CASE AddTransfer
  <2>1. Here \in Positions(block)
    BY <1>0, <1>10, PositionsAre DEF AddTransfer
  <2>2. PICK status \in GetTxStatus :
          transfers' = [p \in DOMAIN transfers \cup {Here} |->
                          IF p = Here THEN [value |-> Rounded(value), status |-> status]
                          ELSE transfers[p]]
    BY <1>10 DEF AddTransfer
  <2>3. status \in {"0", "1"}
    BY DEF GetTxStatus
  <2>4. Rounded(value) \in Nat
    BY <1>10, RoundedNear DEF AddTransfer
  <2>5. DOMAIN transfers' = DOMAIN transfers \cup {Here}
    BY <2>2
  <2>6. transfers' \in [DOMAIN transfers' -> [value : Nat, status : {"0", "1"}]]
    BY <2>2, <2>3, <2>4, <2>5
  <2>7. hasTrans' \in BOOLEAN
    BY <1>10, Zenon DEF AddTransfer, GoOn
  <2>8. /\ pc = "status" /\ pc' = "tx" /\ t' = t + 1
        /\ UNCHANGED <<block, outcome, lately, c, a, value, offered>>
    BY <1>10 DEF AddTransfer, GoOn
  <2>9. DOMAIN transfers' \subseteq Positions(block)'
    BY <2>1, <2>5, <2>8
  <2>10. t + 1 \in Nat \ {0} /\ t + 1 <= Len(block[c]) + 1
    BY <1>0, <2>8
  <2> HIDE DEF Actions, Here
  <2> QED
    BY <1>0, <2>9, <2>10, <2>6, <2>7, <2>8
<1>11. CASE BatchExtract
  <2>1. offered' \subseteq [at : Positions(block), key : {Account[x] : x \in Address} \ {NoAccount},
                            input : BOOLEAN, output : BOOLEAN, value : Nat, status : {"0", "1"}]
    <3> SUFFICES ASSUME NEW p \in DOMAIN transfers, NEW e \in ExtractTransaction(p)
                 PROVE  e \in [at : Positions(block), key : {Account[x] : x \in Address} \ {NoAccount},
                               input : BOOLEAN, output : BOOLEAN, value : Nat, status : {"0", "1"}]
      BY <1>11 DEF BatchExtract
    <3> QED
      BY EntryTyped
  <2> QED
    BY <1>0, <1>11, <2>1 DEF BatchExtract
<1>12. CASE Chain
  BY <1>0, <1>12 DEF Chain, Execute, TakeBack
<1>13. CASE UNCHANGED vars
  BY <1>13 DEF vars
<1> QED
  BY <1>1, <1>2, <1>3, <1>4, <1>5, <1>6, <1>7, <1>8, <1>9, <1>10, <1>11, <1>12, <1>13
  DEF Next, GetBlockByHeight

\* The variables keep their types, for every block.
THEOREM TypeCorrect == Spec => []TypeOK
  BY TypeInit, TypeStep, PTL DEF Spec
-----------------------------------------------------------------------------
(* The decoding *)

\* What the loop over the actions knows of the ones it has looked at.
LookedAt ==
  /\ hasTrans => \E i \in 1..(a - 1) :
       /\ Actions[i].kind = "transfer" /\ Actions[i].deposit = value
       /\ \A j \in (i + 1)..(a - 1) : Actions[j].kind \notin {"string", "transfer"}
  /\ ~hasTrans => \A i \in 1..(a - 1) :
       Actions[i].kind = "transfer" =>
         \E j \in (i + 1)..(a - 1) : Actions[j].kind \in {"string", "transfer"}

\* The loops are past the transaction at p.
Past(p) == p[1] < c \/ (p[1] = c /\ pc # "chunk" /\ p[2] < t)

IsPlain(p) == p \in Positions(block) /\ Plain(TxAt(block, p).actions)

Faithful(p) ==
  /\ p \in Positions(block)
  /\ \E d \in Moves(TxAt(block, p).actions) : d >= 0 /\ Promise!Near(transfers[p].value, d)
  /\ transfers[p].status = "1" => p \in lately

DecodingInv ==
  /\ Succeeded \subseteq lately
  /\ \A p \in DOMAIN transfers : Faithful(p)
  /\ pc \in {"chunk", "tx", "action", "status"} =>
       \A p : IsPlain(p) /\ Past(p) => p \in DOMAIN transfers
  /\ pc = "extract" => \A p : IsPlain(p) => p \in DOMAIN transfers
  /\ pc = "action" => LookedAt
  /\ pc = "status" => value \in Moves(Actions)

LEMMA DecodingInit == Init => DecodingInv
  BY DEF Init, DecodingInv, Nothing, Succeeded

LEMMA HerePosition ==
  ASSUME TypeOK, pc \in {"tx", "action", "status"}, t <= Len(block[c])
  PROVE  /\ Here \in Positions(block) /\ Here[1] = c /\ Here[2] = t
         /\ Len(Actions) \in Nat /\ DOMAIN Actions = 1..Len(Actions)
         /\ \A i \in 1..Len(Actions) : Actions[i] \in Action
<1>1. Len(block) \in Nat /\ Len(block[c]) \in Nat
  BY Types DEF TypeOK
<1>2. Here \in Positions(block)
  BY <1>1, PositionsAre DEF TypeOK, Here
<1>3. TxAt(block, Here) \in Tx
  BY <1>2, PositionsAre DEF TypeOK
<1> QED
  BY <1>2, <1>3, ActionsAre DEF Here, Actions

\* A transaction the loop has looked at to the end and left out is no plain
\* transfer.
LEMMA LeftOut ==
  ASSUME TypeOK, DecodingInv, NoTransfer \/ EmptyTx
  PROVE  ~IsPlain(Here)
<1>1. pc \in {"tx", "action"} /\ t <= Len(block[c])
  BY DEF NoTransfer, EmptyTx, TypeOK
<1>2. Here \in Positions(block) /\ DOMAIN Actions = 1..Len(Actions) /\ Len(Actions) \in Nat
  BY <1>1, HerePosition
<1>3. ~Plain(Actions)
  <2>1. CASE EmptyTx
    BY <1>2, <2>1 DEF EmptyTx, Plain
  <2>2. CASE NoTransfer
    <3> SUFFICES ASSUME Plain(Actions) PROVE FALSE
      OBVIOUS
    <3>1. a - 1 = Len(Actions) /\ LookedAt
      BY <1>2, <2>2 DEF NoTransfer, TypeOK, DecodingInv
    <3>2. PICK i \in 1..Len(Actions) :
            /\ Transfers(Actions) = {i} /\ Actions[i].deposit # 0
            /\ \A j \in 1..Len(Actions) : j > i => Actions[j].kind # "string"
      BY <1>2 DEF Plain
    <3>3. /\ Actions[i].kind = "transfer"
          /\ \A j \in 1..Len(Actions) : Actions[j].kind = "transfer" => j = i
      BY <1>2, <3>2 DEF Transfers
    <3>4. CASE ~hasTrans
      BY <1>2, <3>1, <3>2, <3>3, <3>4 DEF LookedAt
    <3>5. CASE hasTrans /\ value = 0
      BY <1>2, <3>1, <3>2, <3>3, <3>5 DEF LookedAt
    <3> QED
      BY <2>2, <3>4, <3>5 DEF NoTransfer
  <2> QED
    BY <2>1, <2>2
<1> QED
  BY <1>2, <1>3 DEF IsPlain, Actions

LEMMA DecodingStep == TypeOK /\ DecodingInv /\ [Next]_vars => DecodingInv'
<1> SUFFICES ASSUME TypeOK, DecodingInv, [Next]_vars PROVE DecodingInv'
  OBVIOUS
<1> USE DEF loops
<1>0. /\ Len(block) \in Nat /\ block \in Blocks
      /\ \A i \in 1..Len(block) : Len(block[i]) \in Nat
      /\ \A p \in Positions(block) :
           /\ p = <<p[1], p[2]>> /\ p[1] \in 1..Len(block) /\ p[2] \in 1..Len(block[p[1]])
      /\ c \in Nat /\ t \in Nat
  BY Types, PositionsAre DEF TypeOK
<1>1. CASE GetBlock
  BY <1>0, <1>1 DEF GetBlock, DecodingInv, Past, Nothing, IsPlain, Succeeded
<1>2. CASE GetTxByChunk
  BY <1>0, <1>2 DEF GetTxByChunk, DecodingInv, Past, Faithful, IsPlain, Succeeded
<1>3. CASE ChunkFails \/ DepositFails \/ TransferPanics
  BY <1>3 DEF ChunkFails, DepositFails, TransferPanics, Fail, DecodingInv, Nothing, Succeeded
<1>4. CASE LastChunk
  BY <1>0, <1>4 DEF LastChunk, DecodingInv, Past, Faithful, IsPlain, Succeeded
<1>5. CASE NextTx
  BY <1>0, <1>5 DEF NextTx, DecodingInv, Past, Faithful, IsPlain, Succeeded, LookedAt, Actions, Here
<1>6. CASE EmptyTx \/ NoTransfer
  <2>1. \A p : IsPlain(p) /\ Past(p)' => Past(p) \/ p = Here
    BY <1>0, <1>6 DEF EmptyTx, NoTransfer, GoOn, Past, Here, IsPlain
  <2> QED
    BY <1>6, <2>1, LeftOut DEF EmptyTx, NoTransfer, GoOn, DecodingInv, Faithful, IsPlain, Succeeded
<1>7. CASE LastTx
  BY <1>0, <1>7 DEF LastTx, DecodingInv, Past, Faithful, IsPlain, Succeeded, TypeOK
<1>8. CASE StringAction \/ TransferAction \/ OtherAction
  <2>1. /\ a \in 1..Len(Actions) /\ a' = a + 1 /\ pc = "action" /\ pc' = "action" /\ LookedAt
        /\ Actions' = Actions
        /\ UNCHANGED <<block, outcome, lately, c, t, transfers>>
    <3>1. /\ pc = "action" /\ a <= Len(Actions) /\ a' = a + 1
          /\ UNCHANGED <<block, outcome, lately, pc, c, t, transfers>>
      BY <1>8 DEF StringAction, TransferAction, OtherAction, Look
    <3>2. Len(Actions) \in Nat /\ a \in Nat \ {0} /\ LookedAt
      BY <3>1, HerePosition DEF TypeOK, DecodingInv
    <3> QED
      BY <3>1, <3>2 DEF Actions, Here
  <2>2. LookedAt'
    <3>1. CASE StringAction
      BY <2>1, <3>1 DEF StringAction, Look, LookedAt
    <3>2. CASE TransferAction
      BY <2>1, <3>2 DEF TransferAction, Look, LookedAt
    <3>3. CASE OtherAction
      BY <2>1, <3>3 DEF OtherAction, Look, LookedAt
    <3> QED
      BY <1>8, <3>1, <3>2, <3>3
  <2>3. \A p : Past(p)' = Past(p)
    BY <2>1 DEF Past
  <2>4. \A p \in DOMAIN transfers : Faithful(p)'
    BY <2>1 DEF Faithful, DecodingInv
  <2> QED
    BY <2>1, <2>2, <2>3, <2>4 DEF DecodingInv, IsPlain, Succeeded
<1>9. CASE IsTransfer
  <2>1. /\ pc = "action" /\ hasTrans /\ value \notin {0, Garbled} /\ LookedAt
        /\ a - 1 = Len(Actions) /\ DOMAIN Actions = 1..Len(Actions) /\ Len(Actions) \in Nat
    BY <1>9, HerePosition DEF IsTransfer, DecodingInv, TypeOK
  <2>2. value \in Moves(Actions)
    BY <2>1 DEF LookedAt, Moves, Transfers
  <2>3. Actions' = Actions /\ value' = value
    BY <1>9 DEF IsTransfer, Actions, Here
  <2> QED
    BY <1>9, <2>2, <2>3 DEF IsTransfer, DecodingInv, Past, Faithful, IsPlain, Succeeded
<1>10. CASE AddTransfer
  <2>1. pc = "status" /\ pc' = "tx" /\ t' = t + 1 /\ UNCHANGED <<block, outcome, lately, c>>
    BY <1>10 DEF AddTransfer, GoOn
  <2>2. PICK status \in GetTxStatus :
          transfers' = [p \in DOMAIN transfers \cup {Here} |->
                          IF p = Here THEN [value |-> Rounded(value), status |-> status]
                          ELSE transfers[p]]
    BY <1>10 DEF AddTransfer
  <2>3. Here \in Positions(block) /\ value \in Moves(TxAt(block, Here).actions) /\ value \in Nat
    BY <1>0, <2>1, HerePosition DEF DecodingInv, TypeOK, Actions
  <2>4. DOMAIN transfers' = DOMAIN transfers \cup {Here}
    BY <2>2
  <2>5. ASSUME NEW p \in DOMAIN transfers'
        PROVE  Faithful(p)'
    <3>1. CASE p = Here
      <4>1. transfers'[p].value = Rounded(value) /\ transfers'[p].status = status
        BY <2>2, <2>4, <3>1
      <4> QED
        <5>1. Rounded(value) \in Nat /\ Promise!Near(Rounded(value), value)
          BY <2>3, RoundedNear
        <5>2. status = "1" => Here \in lately
          BY <2>3 DEF GetTxStatus, DecodingInv, Succeeded
        <5> QED
          BY <2>1, <2>3, <3>1, <4>1, <5>1, <5>2 DEF Faithful
    <3>2. CASE p # Here
      <4>1. transfers'[p] = transfers[p] /\ p \in DOMAIN transfers
        BY <2>2, <2>4, <3>2
      <4> QED
        BY <2>1, <4>1 DEF Faithful, DecodingInv
    <3> QED
      BY <3>1, <3>2
  <2>6. \A p : IsPlain(p) /\ Past(p)' => Past(p) \/ p = Here
    BY <1>0, <2>1 DEF Past, Here, IsPlain
  <2> QED
    BY <2>1, <2>3, <2>4, <2>5, <2>6 DEF DecodingInv, IsPlain, Succeeded
<1>11. CASE BatchExtract
  BY <1>11 DEF BatchExtract, DecodingInv, Faithful, IsPlain, Succeeded
<1>12. CASE Chain
  <2>1. UNCHANGED <<block, pc, c, t, a, hasTrans, value, transfers>> /\ lately \subseteq lately'
    BY <1>12 DEF Chain, Execute, TakeBack
  <2>2. Succeeded' \subseteq lately'
    <3> SUFFICES ASSUME NEW q \in Positions(block), outcome'[q] = "success"
                 PROVE  q \in lately'
      BY <2>1 DEF Succeeded
    <3>1. q \in lately \/ outcome[q] # "success"
      BY DEF DecodingInv, Succeeded
    <3> QED
      BY <1>12, <2>1, <3>1 DEF Chain, Execute, TakeBack, TypeOK
  <2>3. \A p \in DOMAIN transfers : Faithful(p)'
    BY <2>1 DEF DecodingInv, Faithful
  <2> QED
    BY <2>1, <2>2, <2>3 DEF DecodingInv, Past, IsPlain, LookedAt, Actions, Here
<1>13. CASE UNCHANGED vars
  BY <1>13 DEF vars, DecodingInv, Past, Faithful, IsPlain, Succeeded, LookedAt, Actions, Here
<1> QED
  BY <1>1, <1>2, <1>3, <1>4, <1>5, <1>6, <1>7, <1>8, <1>9, <1>10, <1>11, <1>12, <1>13
  DEF Next, GetBlockByHeight

LEMMA Decoding == Spec => [](TypeOK /\ DecodingInv)
<1>1. Init => TypeOK /\ DecodingInv
  BY TypeInit, DecodingInit
<1>2. (TypeOK /\ DecodingInv) /\ [Next]_vars => (TypeOK /\ DecodingInv)'
  BY TypeStep, DecodingStep
<1> QED
  BY <1>1, <1>2, PTL DEF Spec
-----------------------------------------------------------------------------
(* The refinement *)

LEMMA PromiseInit == Init => Promise!Init
  BY DEF Init, Promise!Init, Promise!Nothing, Nothing, Succeeded

LEMMA PromiseStep ==
  TypeOK /\ DecodingInv /\ DecodingInv' /\ [Next]_vars => [Promise!Next]_Promise!vars
<1> SUFFICES ASSUME TypeOK, DecodingInv, DecodingInv', [Next]_vars
             PROVE  [Promise!Next]_Promise!vars
  OBVIOUS
<1> USE DEF loops
<1>1. CASE GetBlock
  <2>1. Promise!Ask
    BY <1>1 DEF GetBlock, Promise!Ask, Promise!Nothing, Nothing, Succeeded
  <2> QED
    BY <2>1 DEF Promise!Next
<1>2. CASE ChunkFails \/ DepositFails \/ TransferPanics
  <2>1. Promise!Fail
    BY <1>2 DEF ChunkFails, DepositFails, TransferPanics, Fail, Promise!Fail, Nothing, Succeeded
  <2> QED
    BY <2>1 DEF Promise!Next
<1>3. CASE LastChunk
  <2>1. pc = "chunk" /\ pc' = "extract" /\ UNCHANGED <<block, outcome, lately, transfers>>
    BY <1>3 DEF LastChunk
  <2>2. \A p \in DOMAIN transfers : Faithful(p)
    BY DEF DecodingInv
  <2>3. OnChain(block).plain \subseteq DOMAIN transfers
    BY <2>1, OnChainIs DEF DecodingInv, IsPlain, TypeOK
  <2>4. DOMAIN transfers \subseteq DOMAIN OnChain(block).moves
    BY <2>2, OnChainIs DEF Faithful, TypeOK
  <2>5. ASSUME NEW p \in DOMAIN transfers
        PROVE  /\ \E d \in OnChain(block).moves[p] : d >= 0 /\ Promise!Near(transfers[p].value, d)
               /\ transfers[p].status = "1" => p \in lately
    BY <2>2, OnChainIs DEF Faithful, TypeOK
  <2>6. Promise!Answer
    BY <2>1, <2>3, <2>4, <2>5 DEF Promise!Answer, Succeeded
  <2> QED
    BY <2>6 DEF Promise!Next
<1>4. CASE BatchExtract
  <2>1. Promise!Use
    BY <1>4 DEF BatchExtract, Promise!Use, Succeeded
  <2> QED
    BY <2>1 DEF Promise!Next
<1>5. CASE Chain
  <2>1. UNCHANGED <<block, pc, transfers>>
    BY <1>5 DEF Chain, Execute, TakeBack
  <2>2. lately' = lately \cup Succeeded'
    <3>1. lately \subseteq lately' /\ Succeeded' \subseteq lately'
      BY <1>5 DEF Chain, Execute, TakeBack, DecodingInv
    <3>2. ASSUME NEW q \in lately', q \notin lately
          PROVE  q \in Succeeded'
      BY <1>5, <2>1, <3>2 DEF Chain, Execute, TakeBack, Succeeded, TypeOK
    <3> QED
      BY <3>1, <3>2
  <2>3. Promise!Chain
    BY <2>1, <2>2 DEF Promise!Chain
  <2> QED
    BY <2>3 DEF Promise!Next
<1>6. CASE \/ GetTxByChunk \/ NextTx \/ EmptyTx \/ LastTx \/ NoTransfer \/ IsTransfer
           \/ StringAction \/ TransferAction \/ OtherAction \/ AddTransfer
  <2>1. UNCHANGED <<block, outcome, lately>> /\ {pc, pc'} \subseteq {"chunk", "tx", "action", "status"}
    BY <1>6 DEF GetTxByChunk, NextTx, EmptyTx, LastTx, NoTransfer, IsTransfer, GoOn, Look,
                StringAction, TransferAction, OtherAction, AddTransfer
  <2> QED
    BY <2>1 DEF Promise!vars, Succeeded
<1>7. CASE UNCHANGED vars
  BY <1>7 DEF vars, Promise!vars, Succeeded
<1> QED
  BY <1>1, <1>2, <1>3, <1>4, <1>5, <1>6, <1>7 DEF Next, GetBlockByHeight

\* A call that returns a block returns its plain transfers, nothing that moves
\* nothing, amounts that were moved, and successes that were some, whatever fails
\* and whatever is taken back.
THEOREM AlwaysDecoded == Spec => BlockDecoded
<1>1. Spec => Promise!Init /\ [][Promise!Next]_Promise!vars
  BY Decoding, PromiseInit, PromiseStep, PTL DEF Spec
<1> QED
  BY <1>1 DEF BlockDecoded, Promise!Spec
-----------------------------------------------------------------------------
(* What the observers are told *)

LEMMA SidesStep ==
  ASSUME TypeOK, SidesShown, [Next]_vars
  PROVE  SidesShown'
<1> DEFINE From(p) == Account[TxAt(block, p).from]
           To(p)   == Account[TxAt(block, p).to]
           Right(e) == e.input = (From(e.at) = e.key) /\ e.output = (To(e.at) = e.key)
<1>1. CASE BatchExtract
  <2>1. pc = "extract" /\ UNCHANGED <<block, transfers>>
        /\ offered' = offered \cup UNION {ExtractTransaction(p) : p \in DOMAIN transfers}
    BY <1>1 DEF BatchExtract
  <2>2. ASSUME NEW e \in offered'
        PROVE  Right(e)
    <3>1. CASE e \in offered
      BY <3>1 DEF SidesShown, OwnSides
    <3>2. CASE e \notin offered
      <4>1. PICK p \in DOMAIN transfers : e \in ExtractTransaction(p)
        BY <2>1, <3>2
      <4>2. CASE From(p) = To(p)
        <5>1. e = Entry(p, From(p), TRUE, TRUE)
          BY <4>1, <4>2 DEF ExtractTransaction
        <5>2. e.at = p /\ e.key = From(p) /\ e.input = TRUE /\ e.output = TRUE
          BY <5>1 DEF Entry
        <5> QED
          BY <4>2, <5>2
      <4>3. CASE From(p) # To(p)
        <5>1. e = Entry(p, From(p), TRUE, FALSE) \/ e = Entry(p, To(p), FALSE, TRUE)
          BY <4>1, <4>3 DEF ExtractTransaction
        <5>2. /\ e.at = p
              /\ \/ e.key = From(p) /\ e.input = TRUE /\ e.output = FALSE
                 \/ e.key = To(p) /\ e.input = FALSE /\ e.output = TRUE
          BY <5>1 DEF Entry
        <5> QED
          BY <4>3, <5>2
      <4> QED
        BY <4>2, <4>3
    <3> QED
      BY <3>1, <3>2
  <2>3. ASSUME NEW p \in DOMAIN transfers, NEW k \in {From(p), To(p)} \ {NoAccount}
        PROVE  \E e \in offered' : /\ e.at = p /\ e.key = k
                                   /\ e.status = transfers[p].status /\ e.value = transfers[p].value
    <3>1. \E e \in ExtractTransaction(p) : e.at = p /\ e.key = k
                                          /\ e.status = transfers[p].status /\ e.value = transfers[p].value
      <4>1. \E input, output \in BOOLEAN : Entry(p, k, input, output) \in ExtractTransaction(p)
        <5>1. CASE From(p) = To(p)
          <6>1. Entry(p, k, TRUE, TRUE) \in ExtractTransaction(p)
            BY <2>3, <5>1 DEF ExtractTransaction
          <6> QED
            BY <6>1
        <5>2. CASE From(p) # To(p)
          <6>1. \/ Entry(p, k, TRUE, FALSE) \in ExtractTransaction(p)
                \/ Entry(p, k, FALSE, TRUE) \in ExtractTransaction(p)
            BY <2>3, <5>2 DEF ExtractTransaction
          <6> QED
            BY <6>1
        <5> QED
          BY <5>1, <5>2
      <4> QED
        BY <4>1 DEF Entry
    <3> QED
      BY <2>1, <3>1
  <2>4. OwnSides'
    BY <2>1, <2>2 DEF OwnSides
  <2>5. AllSides'
    BY <2>1, <2>3 DEF AllSides
  <2> QED
    BY <2>4, <2>5 DEF SidesShown
<1>2. CASE ChunkFails \/ DepositFails \/ TransferPanics
  BY <1>2 DEF ChunkFails, DepositFails, TransferPanics, Fail, Nothing, SidesShown, OwnSides, AllSides
<1>3. CASE Chain \/ UNCHANGED vars
  BY <1>3 DEF Chain, Execute, TakeBack, vars, SidesShown, OwnSides, AllSides
<1>4. CASE \/ GetBlock \/ GetTxByChunk \/ LastChunk \/ NextTx \/ EmptyTx \/ LastTx \/ NoTransfer
           \/ IsTransfer \/ StringAction \/ TransferAction \/ OtherAction \/ AddTransfer
  <2>1. pc' # "idle" /\ UNCHANGED <<block, offered>>
    BY <1>4 DEF GetBlock, GetTxByChunk, LastChunk, NextTx, EmptyTx, LastTx, NoTransfer, IsTransfer, GoOn,
                Look, StringAction, TransferAction, OtherAction, AddTransfer
  <2> QED
    BY <2>1 DEF SidesShown, OwnSides, AllSides
<1> QED
  BY <1>1, <1>2, <1>3, <1>4 DEF Next, GetBlockByHeight

\* An account sees its own sides of a transfer, all of them and in one entry.
THEOREM SidesAlwaysShown == Spec => []SidesShown
<1>1. Init => SidesShown
  BY DEF Init, SidesShown, OwnSides, AllSides, Nothing
<1>2. TypeOK /\ SidesShown /\ [Next]_vars => SidesShown'
  BY SidesStep
<1> QED
  BY <1>1, <1>2, TypeCorrect, PTL DEF Spec
=============================================================================
