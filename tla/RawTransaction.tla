---------------------------- MODULE RawTransaction ----------------------------
(***************************************************************************)
(* TransactionDecoder (near/tx_decode.go): raw transactions from create or *)
(* summary through sign and verify to submit, for calls that overlap, with *)
(* the accounts of the chain and a node that may lose or delay a broadcast *)
(* or its answer.                                                          *)
(*                                                                         *)
(* The decoder remembers nothing between two calls, and an error of submit *)
(* tells the wallet nothing about the broadcast.  So the wallet may ask at *)
(* any time for anything again: another raw transaction for a transfer, or *)
(* another sweep, whatever became of the ones before, or the submission of *)
(* one that it has submitted already.                                      *)
(*                                                                         *)
(* Amounts are in the chain's smallest unit.  GetAccountBalance divides to *)
(* 16 decimals of the chain's 24: Shown.  A call that returns an error     *)
(* leaves its raw transaction as it was and is no step, unless it has read *)
(* something before.                                                       *)
(***************************************************************************)
EXTENDS Integers

CONSTANTS
  Transfer,          \* the transfers asked for
  AddressCount,      \* the addresses of the account, in the order of the list
  Funds,             \* Funds[a]: what address a has at first
  Amount,            \* Amount[t]: what transfer t sends
  EstimateFees,      \* what the decoder expects a transfer to cost
  Charge,            \* what the node takes for one
  RetainedBalance,   \* what an address has to keep
  MinTransfer,       \* AddressRetainAmount: addresses with less are not swept
  Grain,             \* the unit of the balances the decoder is shown
  Gift,              \* what an address may receive
  MaxGifts,          \* bound: how often something is received
  MaxBuilds,         \* bound: how many raw transactions are built in all
  Overlap            \* whether the node executes while a transaction is built

Address == 1..AddressCount
Raw     == 1..MaxBuilds   \* the raw transactions, in the order they are built

\* The calls that build raw transactions: a CreateRawTransaction for each
\* transfer, and CreateSummaryRawTransaction.
Maker == Transfer \cup {"summary"}

ASSUME RawAssumption ==
  /\ AddressCount \in Nat
  /\ Funds \in [Address -> Nat]
  /\ Amount \in [Transfer -> Nat \ {0}]
  /\ EstimateFees \in Nat /\ Charge \in 0..EstimateFees
  /\ RetainedBalance \in Nat /\ MinTransfer \in Nat
  /\ Grain \in Nat \ {0}
  /\ Gift \in Nat \ {0} /\ MaxGifts \in Nat /\ MaxBuilds \in Nat
  /\ Overlap \in BOOLEAN
  /\ "summary" \notin Transfer

VARIABLES
  balance,   \* balance[a]: on the chain
  nonce,     \* nonce[a]: of the access key of a, on the chain
  gifts,     \* how often something was received
  built,     \* how many raw transactions were built
  raw,       \* raw[i]: RawHex and Signatures of the i-th of them
  call,      \* call[m]: where building call m stands
  wire,      \* the broadcasts: each may be lost, or arrive late, or again
  submitted, \* those with TxID and IsSubmit: a submission was answered
  paid       \* paid[i]: how often it was executed

chain == <<balance, nonce, gifts, paid>>
vars  == <<chain, built, raw, call, wire, submitted>>

\* RawHex is the JSON in hex, the signed bytes in hex, those in base64.  A summary
\* call that is not done keeps what it has built to itself.
Form   == {"none", "pending", "json", "signed", "base64"}
NoRaw  == [form |-> "none", from |-> 0, nonce |-> 0, amount |-> 0]
Idle   == [at |-> "idle", i |-> 0, amount |-> 0]

\* The balance as GetAccountBalance shows it: rounded, a half upwards.
Shown(a) == ((2 * balance[a] + Grain) \div (2 * Grain)) * Grain
-----------------------------------------------------------------------------
(* Building *)

MoveTo(m, at, i, amount) ==
  /\ call' = [call EXCEPT ![m] = [at |-> at, i |-> i, amount |-> amount]]
  /\ UNCHANGED <<chain, wire, submitted>>

\* A raw transaction more, with the nonce the chain has for its address now.
CountedNonce(a) ==                                  \* mutant: counts what was built
  nonce[a] + built + 1
NextNonce(a) == nonce[a] + 1

Add(form, a, amount) ==
  /\ built < MaxBuilds
  /\ built' = built + 1
  /\ raw' = [raw EXCEPT ![built + 1] =
       [form |-> form, from |-> a, nonce |-> NextNonce(a), amount |-> amount]]
  /\ UNCHANGED <<chain, wire, submitted>>

\* Nothing in the code asks whether the transfer was built or paid before.
Begin(t) ==
  /\ call[t] = Idle
  /\ MoveTo(t, "balance", 1, 0)
  /\ UNCHANGED <<built, raw>>

\* CreateRawTransaction looks for the first address with enough.  A balance that
\* cannot be read is as good as none.
EnoughForFees(t, a) == Shown(a) >= Amount[t] + EstimateFees      \* mutant: keeps nothing
Enough(t, a) == Shown(a) >= Amount[t] + EstimateFees + RetainedBalance

TakeAddress(t) ==
  /\ call[t].at = "balance" /\ call[t].i \in Address /\ Enough(t, call[t].i)
  /\ MoveTo(t, "nonce", call[t].i, Amount[t])
  /\ UNCHANGED <<built, raw>>

SkipAddress(t) ==
  /\ call[t].at = "balance" /\ call[t].i \in Address
  /\ MoveTo(t, "balance", call[t].i + 1, 0)
  /\ UNCHANGED <<built, raw>>

NoAddress(t) ==
  /\ call[t].at = "balance" /\ call[t].i \notin Address
  /\ MoveTo(t, "idle", 0, 0)
  /\ UNCHANGED <<built, raw>>

\* createRawTransaction for a transfer; reading the nonce or the reference block
\* may fail.
Build(t) ==
  /\ call[t].at = "nonce"
  /\ Add("json", call[t].i, call[t].amount)
  /\ call' = [call EXCEPT ![t] = Idle]

BuildFails(t) ==
  /\ call[t].at = "nonce"
  /\ MoveTo(t, "idle", 0, 0)
  /\ UNCHANGED <<built, raw>>

\* CreateSummaryRawTransaction sweeps one address after the other, into raw
\* transactions of its own.
BeginSummary ==
  /\ call["summary"] = Idle
  /\ MoveTo("summary", "balance", 1, 0)
  /\ UNCHANGED <<built, raw>>

SweepAmount(a) == Shown(a) - RetainedBalance - EstimateFees
WorthAnything(a) == Shown(a) >= MinTransfer                     \* mutant: may be nothing
Worth(a) == Shown(a) >= MinTransfer /\ Shown(a) > 0 /\ SweepAmount(a) > 0

TakeSweep ==
  /\ call["summary"].at = "balance" /\ call["summary"].i \in Address
  /\ Worth(call["summary"].i)
  /\ MoveTo("summary", "nonce", call["summary"].i, SweepAmount(call["summary"].i))
  /\ UNCHANGED <<built, raw>>

SkipSweep ==
  /\ call["summary"].at = "balance" /\ call["summary"].i \in Address
  /\ MoveTo("summary", "balance", call["summary"].i + 1, 0)
  /\ UNCHANGED <<built, raw>>

BuildSweep ==
  /\ call["summary"].at = "nonce"
  /\ Add("pending", call["summary"].i, call["summary"].amount)
  /\ call' = [call EXCEPT !["summary"] = [at |-> "balance", i |-> @.i + 1, amount |-> 0]]

\* What the call has built becomes the wallet's, or is lost with the call.
Settle(form) ==
  raw' = [i \in Raw |-> IF raw[i].form = "pending" THEN [raw[i] EXCEPT !.form = form] ELSE raw[i]]

\* One address that fails fails the call.
SummaryFails ==
  /\ call["summary"].at = "nonce"
  /\ Settle("none")
  /\ MoveTo("summary", "idle", 0, 0)
  /\ UNCHANGED built

SummaryReturns ==
  /\ call["summary"].at = "balance" /\ call["summary"].i \notin Address
  /\ Settle("json")
  /\ MoveTo("summary", "idle", 0, 0)
  /\ UNCHANGED built
-----------------------------------------------------------------------------
(* Signing, verifying, submitting: in whatever order the wallet calls *)

\* Only the JSON can be decoded, so that a second signature is refused.  (What the
\* JSON does to the contents is in module Serialisation.)
Sign(i) ==
  /\ raw[i].form = "json"
  /\ raw' = [raw EXCEPT ![i].form = "signed"]
  /\ UNCHANGED <<chain, built, call, wire, submitted>>

\* Without a signature, or when it is base64 already, it is refused.
Verify(i) ==
  /\ raw[i].form = "signed"
  /\ raw' = [raw EXCEPT ![i].form = "base64"]
  /\ UNCHANGED <<chain, built, call, wire, submitted>>

\* What is sent is what was built.
SentAnew(i) ==                                      \* mutant: a nonce of its own
  [raw |-> i, from |-> raw[i].from, nonce |-> NextNonce(raw[i].from), amount |-> raw[i].amount]
Sent(i) ==
  [raw |-> i, from |-> raw[i].from, nonce |-> raw[i].nonce, amount |-> raw[i].amount]

\* The node decodes base64 and nothing else; it refuses a hex string as it is.
\* The call returns when the node answers (Execute) or, at any time, with an error
\* that leaves the raw transaction as it was; the wallet may submit it again.
Submit(i) ==
  /\ raw[i].form = "base64"
  /\ wire' = wire \cup {Sent(i)}
  /\ UNCHANGED <<chain, built, raw, call, submitted>>
-----------------------------------------------------------------------------
(* The chain *)

Valid(m) == m.nonce > nonce[m.from] /\ balance[m.from] >= m.amount + Charge

\* The node executes a broadcast that is valid and refuses any other; the answer
\* may get lost, or come too late.
Execute(m) ==
  /\ Valid(m)
  /\ Overlap \/ \A k \in Maker : call[k].at = "idle"
  /\ balance' = [balance EXCEPT ![m.from] = @ - m.amount - Charge]
  /\ nonce' = [nonce EXCEPT ![m.from] = m.nonce]
  /\ paid' = [paid EXCEPT ![m.raw] = @ + 1]
  /\ submitted' \in {submitted, submitted \cup {m.raw}}
  /\ UNCHANGED <<gifts, built, raw, call, wire>>

Receive(a) ==
  /\ gifts < MaxGifts
  /\ gifts' = gifts + 1
  /\ balance' = [balance EXCEPT ![a] = @ + Gift]
  /\ UNCHANGED <<nonce, paid, built, raw, call, wire, submitted>>
-----------------------------------------------------------------------------
Init ==
  /\ balance = Funds
  /\ nonce = [a \in Address |-> 0]
  /\ gifts = 0
  /\ built = 0
  /\ raw = [i \in Raw |-> NoRaw]
  /\ call = [m \in Maker |-> Idle]
  /\ wire = {}
  /\ submitted = {}
  /\ paid = [i \in Raw |-> 0]

Create(t) == Begin(t) \/ TakeAddress(t) \/ SkipAddress(t) \/ NoAddress(t) \/ Build(t) \/ BuildFails(t)

Summary == BeginSummary \/ TakeSweep \/ SkipSweep \/ BuildSweep \/ SummaryFails \/ SummaryReturns

Node == (\E m \in wire : Execute(m)) \/ \E a \in Address : Receive(a)

Next ==
  \/ \E t \in Transfer : Create(t)
  \/ Summary
  \/ \E i \in Raw : Sign(i) \/ Verify(i) \/ Submit(i)
  \/ Node

Spec == Init /\ [][Next]_vars
-----------------------------------------------------------------------------
(* Properties *)

\* The variables have their types; nobody sweeps nothing.
TypeOK ==
  /\ balance \in [Address -> Nat] /\ nonce \in [Address -> Nat]
  /\ gifts \in 0..MaxGifts
  /\ built \in 0..MaxBuilds
  /\ raw \in [Raw -> [form : Form, from : Address \cup {0}, nonce : Nat, amount : Nat]]
  /\ call \in [Maker -> [at : {"idle", "balance", "nonce"}, i : 0..(AddressCount + 1), amount : Nat]]
  /\ wire \subseteq [raw : Raw, from : Address, nonce : Nat, amount : Nat \ {0}]
  /\ submitted \subseteq Raw
  /\ paid \in [Raw -> Nat]

\* A payment leaves the address what it must keep, up to the rounding of the
\* balance the decoder was shown (the error of CreateRawSimpleTransaction: "an
\* address required to retain at least ...").
Reserve == RetainedBalance - Grain \div 2

RetainedKept ==
  [][\A a \in Address : balance'[a] < balance[a] => balance'[a] >= Reserve]_vars

\* Whatever was built or sent and may still be executed carries the very next
\* nonce, and its address can pay for it and keep what it must.  So of several
\* built from the same balance one at most is executed.
Covered ==
  \A m \in wire \cup {Sent(i) : i \in {j \in Raw : raw[j].form # "none"}} :
    m.nonce > nonce[m.from] =>
      /\ m.nonce = nonce[m.from] + 1
      /\ balance[m.from] >= m.amount + EstimateFees + Reserve

\* The raw transactions of an address that may still be executed.
Open(a) ==
  {[raw |-> i, amount |-> raw[i].amount] :
     i \in {j \in 1..built : raw[j].from = a /\ raw[j].nonce > nonce[a]}}

\* A raw transaction is paid once at most, as it was built, however often it is
\* submitted; and when one is paid, those built before it or beside it from the
\* same address never will be: a transfer built again from that address is paid
\* again only when it was built after the payment.
Promise == INSTANCE Payments WITH
  Address <- Address, Raw <- Raw, Funds <- Funds, Fees <- EstimateFees,
  balance <- balance, paid <- paid,
  built <- 1..built, open <- [a \in Address |-> Open(a)]
PaymentsKept == Promise!Spec
=============================================================================
