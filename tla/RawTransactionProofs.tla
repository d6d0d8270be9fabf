------------------------- MODULE RawTransactionProofs -------------------------
(***************************************************************************)
(* Theorems about the transaction decoder, for every account, any          *)
(* transfers, any balances and bounds: its types, that it keeps the        *)
(* promise of module Payments, and, as long as nothing is executed while a *)
(* transaction is being built, that whatever may still be executed can be  *)
(* paid and leaves its address the reserve.                                *)
(***************************************************************************)
EXTENDS RawTransaction, TLAPS

Record     == [form : Form, from : Address \cup {0}, nonce : Nat, amount : Nat]
CallRecord == [at : {"idle", "balance", "nonce"}, i : 0..(AddressCount + 1), amount : Nat]

\* What the types need to be inductive: whatever was built has an address and an
\* amount, a call that has chosen its address has both, and what was sent is what
\* was built.
Shape ==
  /\ \A i \in Raw : i <= built => raw[i].from \in Address /\ raw[i].amount > 0
  /\ \A i \in Raw : raw[i].form # "none" => i <= built
  /\ \A k \in Maker : call[k].at = "nonce" => call[k].i \in Address /\ call[k].amount > 0
  /\ \A m \in wire : m.raw <= built /\ m = Sent(m.raw)

Typed == TypeOK /\ Shape

\* A call that has chosen an address which can pay.
Chosen(c) ==
  /\ c.i \in Address /\ c.amount > 0
  /\ balance[c.i] >= c.amount + EstimateFees + Reserve

\* A step that builds nothing and leaves the chain alone.
Quiet ==
  /\ UNCHANGED <<chain, built, submitted>>
  /\ raw' \in [Raw -> Record]
  /\ \A i \in Raw : /\ raw'[i].from = raw[i].from /\ raw'[i].nonce = raw[i].nonce
                    /\ raw'[i].amount = raw[i].amount
                    /\ raw'[i].form # "none" => raw[i].form # "none"
  /\ \A m \in wire' : m \in wire \/ \E i \in Raw : raw[i].form # "none" /\ m = Sent(i)
  /\ call' \in [Maker -> CallRecord]
  /\ \A k \in Maker : call'[k].at = "nonce" => call'[k] = call[k] \/ Chosen(call'[k])

\* A step that builds a raw transaction, for a call that has chosen its address.
Adds(k, form, next) ==
  /\ call[k].at = "nonce" /\ next.at # "nonce"
  /\ Add(form, call[k].i, call[k].amount)
  /\ call' = [call EXCEPT ![k] = next]
-----------------------------------------------------------------------------
(* Balances as they are shown *)

LEMMA Division ==
  ASSUME NEW n \in Nat, NEW k \in Nat \ {0}
  PROVE  /\ n \div k \in Nat
         /\ (n \div k) * k <= n
         /\ n < (n \div k) * k + k
  OBVIOUS

LEMMA ReserveType == Grain \div 2 \in Nat /\ Reserve \in Int
<1>1. Grain \in Nat \ {0} /\ RetainedBalance \in Nat
  BY RawAssumption
<1>2. Grain \div 2 \in Nat
  BY <1>1, Division
<1> QED
  BY <1>1, <1>2 DEF Reserve

\* A balance is shown rounded, by half a grain at most.
LEMMA ShownNear ==
  ASSUME TypeOK, NEW a \in Address
  PROVE  /\ Shown(a) \in Nat
         /\ balance[a] >= Shown(a) - Grain \div 2
<1> DEFINE q == (2 * balance[a] + Grain) \div (2 * Grain)
<1>1. /\ Grain \in Nat \ {0} /\ 2 * Grain \in Nat \ {0}
      /\ balance[a] \in Nat /\ 2 * balance[a] + Grain \in Nat
  BY RawAssumption DEF TypeOK
<1>2. q \in Nat /\ q * (2 * Grain) <= 2 * balance[a] + Grain
  BY <1>1, Division
<1>3. Shown(a) = q * Grain
  BY DEF Shown
<1> HIDE DEF q
<1>4. q * (2 * Grain) = 2 * (q * Grain) /\ q * Grain \in Nat
  BY <1>1, <1>2
<1>5. Grain \div 2 \in Nat /\ Grain < (Grain \div 2) * 2 + 2
  BY <1>1, Division
<1> QED
  BY <1>1, <1>2, <1>3, <1>4, <1>5

\* So an address whose shown balance covers the amount, the fees and what it has
\* to keep can pay.
LEMMA ShownPays ==
  ASSUME TypeOK, NEW a \in Address, NEW amount \in Nat,
         Shown(a) >= amount + EstimateFees + RetainedBalance
  PROVE  balance[a] >= amount + EstimateFees + Reserve
<1>1. /\ EstimateFees \in Nat /\ RetainedBalance \in Nat /\ Grain \div 2 \in Nat
      /\ balance[a] \in Nat
  BY RawAssumption, ReserveType DEF TypeOK
<1> QED
  BY <1>1, ShownNear DEF Reserve
-----------------------------------------------------------------------------
(* The kinds of steps *)

LEMMA Names ==
  "summary" \in Maker /\ Transfer \subseteq Maker /\ AddressCount \in Nat
  BY RawAssumption DEF Maker

\* A step that moves a building call.
LEMMA MoveQuiet ==
  ASSUME Typed, NEW k \in Maker, NEW next \in CallRecord,
         next.at = "nonce" => Chosen(next),
         call' = [call EXCEPT ![k] = next],
         UNCHANGED <<chain, built, raw, wire, submitted>>
  PROVE  Quiet
<1>1. /\ call' \in [Maker -> CallRecord]
      /\ \A j \in Maker : call'[j] = IF j = k THEN next ELSE call[j]
  BY DEF Typed, TypeOK, CallRecord
<1>2. raw \in [Raw -> Record]
  BY DEF Typed, TypeOK, Record
<1> QED
  BY <1>1, <1>2 DEF Quiet

LEMMA CreateQuiet ==
  ASSUME Typed, NEW t \in Transfer,
         Begin(t) \/ TakeAddress(t) \/ SkipAddress(t) \/ NoAddress(t) \/ BuildFails(t)
  PROVE  Quiet
<1>0. /\ t \in Maker /\ AddressCount \in Nat /\ Amount[t] \in Nat /\ Amount[t] > 0
      /\ \A i \in Address : i \in 0..(AddressCount + 1) /\ i + 1 \in 0..(AddressCount + 1)
      /\ 0 \in 0..(AddressCount + 1) /\ 1 \in 0..(AddressCount + 1)
  BY Names, RawAssumption DEF Address
<1>1. UNCHANGED <<chain, built, raw, wire, submitted>>
  BY DEF Begin, TakeAddress, SkipAddress, NoAddress, BuildFails, MoveTo
<1>2. CASE TakeAddress(t)
  <2> DEFINE next == [at |-> "nonce", i |-> call[t].i, amount |-> Amount[t]]
  <2>1. /\ call[t].i \in Address /\ Shown(call[t].i) >= Amount[t] + EstimateFees + RetainedBalance
        /\ call' = [call EXCEPT ![t] = next]
    BY <1>2 DEF TakeAddress, Enough, MoveTo
  <2>2. next \in CallRecord
    BY <1>0, <2>1 DEF CallRecord
  <2>3. Chosen(next)
    BY <1>0, <2>1, ShownPays DEF Chosen, Typed
  <2> HIDE DEF next
  <2> QED
    BY <1>0, <1>1, <2>1, <2>2, <2>3, MoveQuiet
<1>3. CASE Begin(t) \/ SkipAddress(t) \/ NoAddress(t) \/ BuildFails(t)
  <2>1. PICK i \in 0..(AddressCount + 1), at \in {"idle", "balance"} :
          call' = [call EXCEPT ![t] = [at |-> at, i |-> i, amount |-> 0]]
    BY <1>0, <1>3 DEF Begin, SkipAddress, NoAddress, BuildFails, MoveTo
  <2> DEFINE next == [at |-> at, i |-> i, amount |-> 0]
  <2>2. next \in CallRecord /\ next.at # "nonce" /\ call' = [call EXCEPT ![t] = next]
    BY <2>1 DEF CallRecord
  <2> HIDE DEF next
  <2> QED
    BY <1>0, <1>1, <2>2, MoveQuiet
<1> QED
  BY <1>2, <1>3

LEMMA SummaryQuiet ==
  ASSUME Typed, BeginSummary \/ TakeSweep \/ SkipSweep
  PROVE  Quiet
<1>0. /\ "summary" \in Maker /\ AddressCount \in Nat
      /\ \A i \in Address : i \in 0..(AddressCount + 1) /\ i + 1 \in 0..(AddressCount + 1)
      /\ 1 \in 0..(AddressCount + 1)
  BY Names DEF Address
<1>1. UNCHANGED <<chain, built, raw, wire, submitted>>
  BY DEF BeginSummary, TakeSweep, SkipSweep, MoveTo
<1>2. CASE TakeSweep
  <2> DEFINE a == call["summary"].i
             next == [at |-> "nonce", i |-> a, amount |-> SweepAmount(a)]
  <2>1. a \in Address /\ SweepAmount(a) > 0 /\ call' = [call EXCEPT !["summary"] = next]
    BY <1>2 DEF TakeSweep, Worth, MoveTo
  <2>2. /\ Shown(a) \in Nat /\ RetainedBalance \in Nat /\ EstimateFees \in Nat
        /\ TypeOK
    BY <2>1, ShownNear, RawAssumption DEF Typed
  <2>3. SweepAmount(a) \in Nat /\ Shown(a) >= SweepAmount(a) + EstimateFees + RetainedBalance
    BY <2>1, <2>2 DEF SweepAmount
  <2>4. balance[a] >= SweepAmount(a) + EstimateFees + Reserve
    BY <2>1, <2>2, <2>3, ShownPays
  <2>5. next \in CallRecord /\ Chosen(next)
    BY <1>0, <2>1, <2>3, <2>4 DEF CallRecord, Chosen
  <2> HIDE DEF next
  <2> QED
    BY <1>0, <1>1, <2>1, <2>5, MoveQuiet
<1>3. CASE BeginSummary \/ SkipSweep
  <2>1. PICK i \in 0..(AddressCount + 1) :
          call' = [call EXCEPT !["summary"] = [at |-> "balance", i |-> i, amount |-> 0]]
    BY <1>0, <1>3 DEF BeginSummary, SkipSweep, MoveTo
  <2> DEFINE next == [at |-> "balance", i |-> i, amount |-> 0]
  <2>2. next \in CallRecord /\ next.at # "nonce" /\ call' = [call EXCEPT !["summary"] = next]
    BY <2>1 DEF CallRecord
  <2> HIDE DEF next
  <2> QED
    BY <1>0, <1>1, <2>2, MoveQuiet
<1> QED
  BY <1>2, <1>3

LEMMA SettleQuiet ==
  ASSUME Typed, SummaryFails \/ SummaryReturns
  PROVE  Quiet
<1>1. PICK form \in {"none", "json"} :
        raw' = [i \in Raw |-> IF raw[i].form = "pending" THEN [raw[i] EXCEPT !.form = form] ELSE raw[i]]
  BY DEF SummaryFails, SummaryReturns, Settle
<1>2. \A i \in Raw : raw[i] \in Record /\ [raw[i] EXCEPT !.form = form] \in Record
  BY DEF Typed, TypeOK, Record, Form
<1>3. /\ raw' \in [Raw -> Record]
      /\ \A i \in Raw : /\ raw'[i].from = raw[i].from /\ raw'[i].nonce = raw[i].nonce
                        /\ raw'[i].amount = raw[i].amount
                        /\ raw'[i].form # "none" => raw[i].form # "none"
  BY <1>1, <1>2 DEF Record
<1>4. UNCHANGED <<chain, built, wire, submitted>>
  BY DEF SummaryFails, SummaryReturns, MoveTo
<1>5. /\ call' \in [Maker -> CallRecord]
      /\ \A k \in Maker : call'[k].at = "nonce" => call'[k] = call[k]
  <2> DEFINE next == [at |-> "idle", i |-> 0, amount |-> 0]
  <2>1. call' = [call EXCEPT !["summary"] = next] /\ next \in CallRecord /\ next.at # "nonce"
    BY Names DEF SummaryFails, SummaryReturns, MoveTo, CallRecord
  <2> HIDE DEF next
  <2> QED
    BY <2>1 DEF Typed, TypeOK, CallRecord
<1> QED
  BY <1>3, <1>4, <1>5 DEF Quiet

LEMMA WalletQuiet ==
  ASSUME Typed, NEW i \in Raw, Sign(i) \/ Verify(i) \/ Submit(i)
  PROVE  Quiet
<1>1. /\ call \in [Maker -> CallRecord] /\ raw \in [Raw -> Record] /\ raw[i].form # "none"
      /\ UNCHANGED <<chain, built, call, submitted>>
  BY DEF Typed, TypeOK, CallRecord, Record, Sign, Verify, Submit
<1>2. CASE Sign(i) \/ Verify(i)
  <2>1. PICK form \in {"signed", "base64"} :
          raw' = [raw EXCEPT ![i] = [raw[i] EXCEPT !.form = form]] /\ wire' = wire
    BY <1>1, <1>2 DEF Sign, Verify
  <2>2. [raw[i] EXCEPT !.form = form] \in Record
    BY <1>1 DEF Record, Form
  <2> QED
    BY <1>1, <2>1, <2>2 DEF Quiet, Record
<1>3. CASE Submit(i)
  <2>1. raw' = raw /\ \A m \in wire' : m \in wire \/ m = Sent(i)
    BY <1>3 DEF Submit
  <2> QED
    BY <1>1, <2>1 DEF Quiet
<1> QED
  BY <1>2, <1>3

LEMMA BuildAdds ==
  ASSUME Typed, (\E t \in Transfer : Build(t)) \/ BuildSweep
  PROVE  \E k \in Maker, form \in Form, next \in CallRecord : Adds(k, form, next)
<1>0. AddressCount \in Nat /\ "summary" \in Maker /\ Transfer \subseteq Maker
  BY Names
<1>1. CASE \E t \in Transfer : Build(t)
  <2> PICK t \in Transfer : Build(t)
    BY <1>1
  <2>1. Idle \in CallRecord /\ Idle.at # "nonce" /\ "json" \in Form
    BY <1>0 DEF Idle, CallRecord, Form
  <2>2. Adds(t, "json", Idle)
    BY <2>1 DEF Build, Adds
  <2> QED
    BY <1>0, <2>1, <2>2
<1>2. CASE BuildSweep
  <2> DEFINE a == call["summary"].i
             next == [at |-> "balance", i |-> a + 1, amount |-> 0]
  <2>1. call["summary"].at = "nonce" /\ a \in Address
    BY <1>0, <1>2 DEF BuildSweep, Typed, Shape
  <2>2. next \in CallRecord /\ next.at # "nonce" /\ "pending" \in Form
    BY <1>0, <2>1 DEF CallRecord, Address, Form
  <2>3. call' = [call EXCEPT !["summary"] = next]
    BY <1>0, <1>2 DEF BuildSweep, Typed, TypeOK
  <2>4. Add("pending", a, call["summary"].amount)
    BY <1>2 DEF BuildSweep
  <2> HIDE DEF next
  <2>5. Adds("summary", "pending", next)
    BY <2>1, <2>2, <2>3, <2>4 DEF Adds
  <2> QED
    BY <1>0, <2>2, <2>5
<1> QED
  BY <1>1, <1>2

\* Every step builds something, or is the chain's, or is quiet.
LEMMA Kinds ==
  ASSUME Typed, [Next]_vars
  PROVE  \/ Quiet
         \/ \E k \in Maker, form \in Form, next \in CallRecord : Adds(k, form, next)
         \/ \E m \in wire : Execute(m)
         \/ \E a \in Address : Receive(a)
<1>1. \/ \E t \in Transfer : Begin(t) \/ TakeAddress(t) \/ SkipAddress(t) \/ NoAddress(t) \/ BuildFails(t)
      \/ (\E t \in Transfer : Build(t)) \/ BuildSweep
      \/ BeginSummary \/ TakeSweep \/ SkipSweep
      \/ SummaryFails \/ SummaryReturns
      \/ \E i \in Raw : Sign(i) \/ Verify(i) \/ Submit(i)
      \/ \E m \in wire : Execute(m)
      \/ \E a \in Address : Receive(a)
      \/ UNCHANGED vars
  BY Zenon DEF Next, Create, Summary, Node
<1>2. CASE UNCHANGED vars
  <2>1. raw \in [Raw -> Record] /\ call \in [Maker -> CallRecord]
    BY DEF Typed, TypeOK, Record, CallRecord
  <2> QED
    BY <1>2, <2>1 DEF Quiet, vars
<1> QED
  BY <1>1, <1>2, CreateQuiet, BuildAdds, SummaryQuiet, SettleQuiet, WalletQuiet
-----------------------------------------------------------------------------
(* The types *)

LEMMA TypeInit == Init => Typed
  BY RawAssumption DEF Init, Typed, TypeOK, Shape, Form, NoRaw, Idle, Raw

\* What a step that builds changes.
LEMMA AddChanges ==
  ASSUME Typed, NEW k \in Maker, NEW form \in Form, NEW next \in CallRecord, Adds(k, form, next)
  PROVE  LET new == [form |-> form, from |-> call[k].i, nonce |-> nonce[call[k].i] + 1,
                     amount |-> call[k].amount]
         IN /\ built \in Nat /\ built + 1 \in Raw /\ built' = built + 1
            /\ call[k].i \in Address /\ call[k].amount \in Nat /\ call[k].amount > 0
            /\ new \in Record
            /\ raw' \in [Raw -> Record]
            /\ \A i \in Raw : raw'[i] = IF i = built + 1 THEN new ELSE raw[i]
            /\ call' \in [Maker -> CallRecord]
            /\ \A j \in Maker : call'[j] = IF j = k THEN next ELSE call[j]
            /\ UNCHANGED <<balance, nonce, gifts, paid, wire, submitted>>
<1> DEFINE new == [form |-> form, from |-> call[k].i, nonce |-> nonce[call[k].i] + 1,
                   amount |-> call[k].amount]
<1>1. call[k].i \in Address /\ call[k].amount \in Nat /\ call[k].amount > 0
  BY DEF Adds, Typed, TypeOK, Shape
<1>2. built \in Nat /\ built + 1 \in Raw /\ built' = built + 1
  BY RawAssumption DEF Adds, Add, Typed, TypeOK, Raw
<1>3. new \in Record
  BY <1>1 DEF Typed, TypeOK, Record
<1>4. raw' = [raw EXCEPT ![built + 1] = new]
  BY DEF Adds, Add, NextNonce
<1>5. raw \in [Raw -> Record] /\ call \in [Maker -> CallRecord]
  BY DEF Typed, TypeOK, Record, CallRecord
<1>6. UNCHANGED <<balance, nonce, gifts, paid, wire, submitted>>
  BY DEF Adds, Add, chain
<1> HIDE DEF new
<1>7. raw' \in [Raw -> Record] /\ \A i \in Raw : raw'[i] = IF i = built + 1 THEN new ELSE raw[i]
  BY <1>2, <1>3, <1>4, <1>5
<1>8. call' \in [Maker -> CallRecord] /\ \A j \in Maker : call'[j] = IF j = k THEN next ELSE call[j]
  BY <1>5 DEF Adds
<1> QED
  BY <1>1, <1>2, <1>3, <1>6, <1>7, <1>8 DEF new

\* What an execution changes: of the address, a payment of what was built.
LEMMA ExecuteChanges ==
  ASSUME Typed, NEW m \in wire, Execute(m)
  PROVE  /\ m.raw \in Raw /\ m.raw <= built /\ m.from \in Address
         /\ m.nonce \in Nat /\ m.amount \in Nat /\ m.amount > 0
         /\ raw[m.raw].from = m.from /\ raw[m.raw].nonce = m.nonce /\ raw[m.raw].amount = m.amount
         /\ m.nonce > nonce[m.from]
         /\ Charge \in 0..EstimateFees /\ EstimateFees \in Nat
         /\ balance' = [balance EXCEPT ![m.from] = @ - m.amount - Charge]
         /\ balance' \in [Address -> Nat]
         /\ nonce' = [nonce EXCEPT ![m.from] = m.nonce] /\ nonce' \in [Address -> Nat]
         /\ paid' = [paid EXCEPT ![m.raw] = @ + 1] /\ paid' \in [Raw -> Nat]
         /\ submitted' \subseteq Raw
         /\ UNCHANGED <<gifts, built, raw, call, wire>>
<1>1. /\ m.raw \in Raw /\ m.from \in Address /\ m.nonce \in Nat /\ m.amount \in Nat /\ m.amount > 0
      /\ m.raw <= built /\ m = Sent(m.raw)
      /\ balance[m.from] \in Nat /\ nonce[m.from] \in Nat
      /\ Charge \in 0..EstimateFees /\ EstimateFees \in Nat
  BY RawAssumption DEF Typed, TypeOK, Shape
<1>2. raw[m.raw].from = m.from /\ raw[m.raw].nonce = m.nonce /\ raw[m.raw].amount = m.amount
  BY <1>1 DEF Sent
<1>3. m.nonce > nonce[m.from] /\ balance[m.from] >= m.amount + Charge
  BY DEF Execute, Valid
<1>4. balance[m.from] - m.amount - Charge \in Nat
  BY <1>1, <1>3
<1>5. /\ balance' = [balance EXCEPT ![m.from] = @ - m.amount - Charge]
      /\ nonce' = [nonce EXCEPT ![m.from] = m.nonce]
      /\ paid' = [paid EXCEPT ![m.raw] = @ + 1]
      /\ submitted' \in {submitted, submitted \cup {m.raw}}
      /\ UNCHANGED <<gifts, built, raw, call, wire>>
  BY DEF Execute
<1>6. balance' \in [Address -> Nat] /\ nonce' \in [Address -> Nat]
  BY <1>1, <1>4, <1>5 DEF Typed, TypeOK
<1>7. paid' \in [Raw -> Nat] /\ submitted' \subseteq Raw
  BY <1>1, <1>5 DEF Typed, TypeOK
<1> QED
  BY <1>1, <1>2, <1>3, <1>5, <1>6, <1>7

LEMMA TypeStep == Typed /\ [Next]_vars => Typed'
<1> SUFFICES ASSUME Typed, [Next]_vars PROVE Typed'
  OBVIOUS
<1>1. CASE Quiet
  <2>1. /\ UNCHANGED <<balance, nonce, gifts, paid, built, submitted>>
        /\ raw' \in [Raw -> Record] /\ call' \in [Maker -> CallRecord]
        /\ \A i \in Raw : Sent(i)' = Sent(i)
    BY <1>1 DEF Quiet, chain, Sent
  <2>2. \A m \in wire' : /\ m \in [raw : Raw, from : Address, nonce : Nat, amount : Nat \ {0}]
                         /\ m.raw <= built /\ m = Sent(m.raw)
    <3> SUFFICES ASSUME NEW m \in wire'
                 PROVE  /\ m \in [raw : Raw, from : Address, nonce : Nat, amount : Nat \ {0}]
                        /\ m.raw <= built /\ m = Sent(m.raw)
      OBVIOUS
    <3>1. CASE m \in wire
      BY <3>1 DEF Typed, TypeOK, Shape
    <3>2. CASE m \notin wire
      <4>1. PICK i \in Raw : raw[i].form # "none" /\ m = Sent(i)
        BY <1>1, <3>2 DEF Quiet
      <4>2. i <= built /\ raw[i].from \in Address /\ raw[i].amount > 0 /\ raw[i] \in Record
        BY <4>1 DEF Typed, TypeOK, Shape, Record
      <4> QED
        BY <4>1, <4>2 DEF Sent, Record
    <3> QED
      BY <3>1, <3>2
  <2>3. TypeOK'
    BY <2>1, <2>2 DEF Typed, TypeOK, Record, CallRecord
  <2>4. (/\ \A i \in Raw : i <= built => raw[i].from \in Address /\ raw[i].amount > 0
         /\ \A i \in Raw : raw[i].form # "none" => i <= built)'
    BY <1>1, <2>1 DEF Quiet, Typed, Shape
  <2>5. (\A k \in Maker : call[k].at = "nonce" => call[k].i \in Address /\ call[k].amount > 0)'
    BY <1>1 DEF Quiet, Chosen, Typed, Shape
  <2>6. (\A m \in wire : m.raw <= built /\ m = Sent(m.raw))'
    <3>1. \A m \in wire' : m.raw \in Raw
      BY <2>2
    <3> QED
      BY <2>1, <2>2, <3>1
  <2> QED
    BY <2>3, <2>4, <2>5, <2>6 DEF Typed, Shape
<1>2. CASE \E k \in Maker, form \in Form, next \in CallRecord : Adds(k, form, next)
  <2> PICK k \in Maker, form \in Form, next \in CallRecord : Adds(k, form, next)
    BY <1>2
  <2> DEFINE new == [form |-> form, from |-> call[k].i, nonce |-> nonce[call[k].i] + 1,
                     amount |-> call[k].amount]
  <2>1. /\ built \in Nat /\ built + 1 \in Raw /\ built' = built + 1
        /\ new.from \in Address /\ new.amount > 0
        /\ raw' \in [Raw -> Record]
        /\ \A i \in Raw : raw'[i] = IF i = built + 1 THEN new ELSE raw[i]
        /\ call' \in [Maker -> CallRecord]
        /\ \A j \in Maker : call'[j] = IF j = k THEN next ELSE call[j]
        /\ UNCHANGED <<balance, nonce, gifts, paid, wire, submitted>>
    BY AddChanges
  <2> HIDE DEF new
  <2>2. next.at # "nonce"
    BY DEF Adds
  <2>3. built' \in 0..MaxBuilds /\ \A i \in Raw : i \in Nat
    BY <2>1, RawAssumption DEF Raw
  <2>4. TypeOK'
    BY <2>1, <2>3 DEF Typed, TypeOK, Record, CallRecord
  <2>5. (/\ \A i \in Raw : i <= built => raw[i].from \in Address /\ raw[i].amount > 0
         /\ \A i \in Raw : raw[i].form # "none" => i <= built)'
    BY <2>1, <2>3 DEF Typed, Shape
  <2>6. (\A j \in Maker : call[j].at = "nonce" => call[j].i \in Address /\ call[j].amount > 0)'
    BY <2>1, <2>2 DEF Typed, Shape
  <2>7. (\A m \in wire : m.raw <= built /\ m = Sent(m.raw))'
    <3> SUFFICES ASSUME NEW m \in wire PROVE m.raw <= built' /\ m = Sent(m.raw)'
      BY <2>1
    <3>1. m.raw \in Raw /\ m.raw <= built /\ m = Sent(m.raw)
      BY DEF Typed, TypeOK, Shape
    <3> QED
      BY <2>1, <2>3, <3>1 DEF Sent
  <2> QED
    BY <2>4, <2>5, <2>6, <2>7 DEF Typed, Shape
<1>3. CASE \E m \in wire : Execute(m)
  <2> PICK m \in wire : Execute(m)
    BY <1>3
  <2>1. /\ balance' \in [Address -> Nat] /\ nonce' \in [Address -> Nat] /\ paid' \in [Raw -> Nat]
        /\ submitted' \subseteq Raw /\ UNCHANGED <<gifts, built, raw, call, wire>>
    BY ExecuteChanges
  <2> QED
    BY <2>1 DEF Typed, TypeOK, Shape, Sent
<1>4. CASE \E a \in Address : Receive(a)
  <2> PICK a \in Address : Receive(a)
    BY <1>4
  <2>1. /\ balance' \in [Address -> Nat] /\ gifts' \in 0..MaxGifts
        /\ UNCHANGED <<nonce, paid, built, raw, call, wire, submitted>>
    BY RawAssumption DEF Receive, Typed, TypeOK
  <2> QED
    BY <2>1 DEF Typed, TypeOK, Shape, Sent
<1> QED
  BY Kinds, <1>1, <1>2, <1>3, <1>4

\* The variables keep their types, for every account: in particular a balance
\* never goes below zero and nobody sends nothing.
THEOREM TypeCorrect == Spec => []TypeOK
<1>1. Init => Typed
  BY TypeInit
<1>2. Typed /\ [Next]_vars => Typed'
  BY TypeStep
<1>3. Typed => TypeOK
  BY DEF Typed
<1> QED
  BY <1>1, <1>2, <1>3, PTL DEF Spec
-----------------------------------------------------------------------------
(* What the module Payments promises *)

\* Nothing that was built is more than one ahead of the chain, whatever happened
\* since; so the execution of any of them leaves none that could follow it.
NextOnly == \A i \in Raw : i <= built => raw[i].nonce <= nonce[raw[i].from] + 1

\* What was paid is used up.
PaidUsed ==
  \A i \in Raw :
    \/ paid[i] = 0
    \/ paid[i] = 1 /\ i <= built /\ raw[i].nonce <= nonce[raw[i].from]

Counted == Typed /\ NextOnly /\ PaidUsed

\* What the built ones hold, with its types.
LEMMA BuiltHolds ==
  ASSUME Typed, NEW i \in Raw, i <= built
  PROVE  /\ raw[i].from \in Address /\ raw[i].nonce \in Nat
         /\ raw[i].amount \in Nat /\ raw[i].amount > 0
         /\ nonce[raw[i].from] \in Nat /\ balance[raw[i].from] \in Nat
  BY DEF Typed, TypeOK, Shape

LEMMA CountedInit == Init => Counted
<1> SUFFICES ASSUME Init PROVE Counted
  OBVIOUS
<1>1. Typed
  BY TypeInit
<1>2. built = 0 /\ \A i \in Raw : ~(i <= built) /\ paid[i] = 0
  BY DEF Init, Raw
<1> QED
  BY <1>1, <1>2 DEF Counted, NextOnly, PaidUsed

LEMMA CountedStep == Counted /\ [Next]_vars => Counted'
<1> SUFFICES ASSUME Counted, [Next]_vars PROVE Counted'
  OBVIOUS
<1>0. Typed /\ Typed'
  BY TypeStep DEF Counted
<1>1. CASE Quiet
  <2>1. /\ UNCHANGED <<nonce, paid, built>>
        /\ \A i \in Raw : raw'[i].from = raw[i].from /\ raw'[i].nonce = raw[i].nonce
    BY <1>1 DEF Quiet, chain
  <2> QED
    BY <1>0, <2>1 DEF Counted, NextOnly, PaidUsed
<1>2. CASE \E k \in Maker, form \in Form, next \in CallRecord : Adds(k, form, next)
  <2> PICK k \in Maker, form \in Form, next \in CallRecord : Adds(k, form, next)
    BY <1>2
  <2> DEFINE new == [form |-> form, from |-> call[k].i, nonce |-> nonce[call[k].i] + 1,
                     amount |-> call[k].amount]
  <2>1. /\ built \in Nat /\ built' = built + 1
        /\ new.nonce = nonce[new.from] + 1 /\ new.from \in Address
        /\ \A i \in Raw : raw'[i] = IF i = built + 1 THEN new ELSE raw[i]
        /\ UNCHANGED <<nonce, paid>>
    BY <1>0, AddChanges
  <2>2. \A i \in Raw : i \in Nat
    BY DEF Raw
  <2> HIDE DEF new
  <2>3. NextOnly'
    <3> SUFFICES ASSUME NEW i \in Raw, i <= built + 1
                 PROVE  raw'[i].nonce <= nonce[raw'[i].from] + 1
      BY <2>1 DEF NextOnly
    <3>1. CASE i = built + 1
      <4>1. nonce[new.from] \in Nat
        BY <1>0, <2>1 DEF Typed, TypeOK
      <4> QED
        BY <2>1, <3>1, <4>1
    <3>2. CASE i # built + 1
      BY <2>1, <2>2, <3>2 DEF Counted, NextOnly
    <3> QED
      BY <3>1, <3>2
  <2>4. PaidUsed'
    BY <2>1, <2>2 DEF Counted, PaidUsed
  <2> QED
    BY <1>0, <2>3, <2>4 DEF Counted
<1>3. CASE \E m \in wire : Execute(m)
  <2> PICK m \in wire : Execute(m)
    BY <1>3
  <2>1. /\ m.raw \in Raw /\ m.raw <= built /\ m.from \in Address /\ m.nonce \in Nat
        /\ raw[m.raw].from = m.from /\ raw[m.raw].nonce = m.nonce /\ m.nonce > nonce[m.from]
        /\ UNCHANGED <<built, raw>>
    BY <1>0, ExecuteChanges
  <2>2. \A a \in Address : nonce'[a] = IF a = m.from THEN m.nonce ELSE nonce[a]
    BY <1>0, ExecuteChanges DEF Typed, TypeOK
  <2>3. \A i \in Raw : paid'[i] = IF i = m.raw THEN paid[i] + 1 ELSE paid[i]
    BY <1>0, ExecuteChanges DEF Typed, TypeOK
  <2>4. \A a \in Address : nonce[a] \in Nat /\ nonce'[a] \in Nat /\ nonce'[a] >= nonce[a]
    BY <1>0, <2>1, <2>2 DEF Typed, TypeOK
  <2>5. NextOnly'
    <3> SUFFICES ASSUME NEW i \in Raw, i <= built
                 PROVE  raw[i].nonce <= nonce'[raw[i].from] + 1
      BY <2>1 DEF NextOnly
    <3>1. raw[i].from \in Address /\ raw[i].nonce \in Nat
      BY <1>0, BuiltHolds
    <3>2. raw[i].nonce <= nonce[raw[i].from] + 1
      BY DEF Counted, NextOnly
    <3> QED
      BY <2>4, <3>1, <3>2
  <2>6. PaidUsed'
    <3> SUFFICES ASSUME NEW i \in Raw
                 PROVE  \/ paid'[i] = 0
                        \/ paid'[i] = 1 /\ i <= built /\ raw[i].nonce <= nonce'[raw[i].from]
      BY <2>1 DEF PaidUsed
    <3>1. CASE i = m.raw
      <4>1. nonce[m.from] \in Nat
        BY <2>1, <2>4
      <4>2. paid[i] = 0
        BY <2>1, <3>1, <4>1 DEF Counted, PaidUsed
      <4> QED
        BY <2>1, <2>2, <2>3, <3>1, <4>2
    <3>2. CASE i # m.raw /\ paid[i] # 0
      <4>1. paid[i] = 1 /\ i <= built /\ raw[i].nonce <= nonce[raw[i].from]
        BY <3>2 DEF Counted, PaidUsed
      <4>2. raw[i].from \in Address /\ raw[i].nonce \in Nat
        BY <1>0, <4>1, BuiltHolds
      <4> QED
        BY <2>3, <2>4, <3>2, <4>1, <4>2
    <3>3. CASE i # m.raw /\ paid[i] = 0
      BY <2>3, <3>3
    <3> QED
      BY <3>1, <3>2, <3>3
  <2> QED
    BY <1>0, <2>5, <2>6 DEF Counted
<1>4. CASE \E a \in Address : Receive(a)
  <2>1. UNCHANGED <<nonce, paid, built, raw>>
    BY <1>4 DEF Receive
  <2> QED
    BY <1>0, <2>1 DEF Counted, NextOnly, PaidUsed
<1> QED
  BY <1>0, Kinds, <1>1, <1>2, <1>3, <1>4

\* No raw transaction is paid twice, however often it is submitted, after whatever
\* answers, and whatever else is built and executed meanwhile.
THEOREM PaidOnce == Spec => [](\A i \in Raw : paid[i] <= 1)
<1>1. Init => Counted
  BY CountedInit
<1>2. Counted /\ [Next]_vars => Counted'
  BY CountedStep
<1>3. Counted => \A i \in Raw : paid[i] <= 1
  BY DEF Counted, PaidUsed
<1> QED
  BY <1>1, <1>2, <1>3, PTL DEF Spec

\* The open ones of an address change with its nonce and with what is built.
LEMMA OpenSame ==
  ASSUME NEW a \in Address, UNCHANGED <<nonce, built>>, built \in 0..MaxBuilds,
         \A i \in Raw : /\ raw'[i].from = raw[i].from /\ raw'[i].nonce = raw[i].nonce
                        /\ raw'[i].amount = raw[i].amount
  PROVE  Open(a)' = Open(a)
<1>1. \A i \in 1..built : i \in Raw
  BY RawAssumption DEF Raw
<1> QED
  BY <1>1 DEF Open

LEMMA PromiseQuiet ==
  ASSUME Counted, Quiet
  PROVE  UNCHANGED <<balance, 1..built, [a \in Address |-> Open(a)], paid>>
<1>1. UNCHANGED <<balance, nonce, paid, built>> /\ built \in 0..MaxBuilds
  BY DEF Quiet, chain, Counted, Typed, TypeOK
<1>2. \A a \in Address : Open(a)' = Open(a)
  BY <1>1, OpenSame DEF Quiet
<1> QED
  BY <1>1, <1>2

LEMMA PromiseReceive ==
  ASSUME Counted, NEW a \in Address, Receive(a)
  PROVE  Promise!Receive(a)
<1>1. /\ balance' = [balance EXCEPT ![a] = @ + Gift] /\ UNCHANGED <<nonce, paid, built, raw>>
      /\ Gift \in Nat \ {0} /\ balance \in [Address -> Nat] /\ built \in 0..MaxBuilds
  BY RawAssumption DEF Receive, Counted, Typed, TypeOK
<1>2. balance'[a] > balance[a] /\ balance' = [balance EXCEPT ![a] = balance'[a]]
  BY <1>1
<1>3. \A b \in Address : Open(b)' = Open(b)
  BY <1>1, OpenSame
<1> QED
  BY <1>1, <1>2, <1>3 DEF Promise!Receive

LEMMA PromiseBuild ==
  ASSUME Counted, NEW k \in Maker, NEW form \in Form, NEW next \in CallRecord, Adds(k, form, next)
  PROVE  \E i \in Raw : Promise!Build(i)
<1> DEFINE new == [form |-> form, from |-> call[k].i, nonce |-> nonce[call[k].i] + 1,
                   amount |-> call[k].amount]
<1>1. /\ built \in Nat /\ built + 1 \in Raw /\ built' = built + 1
      /\ new.from \in Address /\ new.amount > 0 /\ new.nonce = nonce[new.from] + 1
      /\ \A i \in Raw : raw'[i] = IF i = built + 1 THEN new ELSE raw[i]
      /\ UNCHANGED <<balance, nonce, paid>>
  BY AddChanges DEF Counted
<1> HIDE DEF new
<1>a. PICK from \in Address : from = new.from
  BY <1>1
<1>b. PICK it : it = [raw |-> built + 1, amount |-> new.amount]
  OBVIOUS
<1>2. nonce[from] \in Nat
  BY DEF Counted, Typed, TypeOK
<1>3. \A i \in 1..(built + 1) : /\ i \in Raw
                                /\ raw'[i] = IF i = built + 1 THEN new ELSE raw[i]
                                /\ i # built + 1 => i \in 1..built
  <2>1. MaxBuilds \in Nat /\ built + 1 <= MaxBuilds
    BY <1>1, RawAssumption DEF Raw
  <2>2. \A i \in 1..(built + 1) : i \in Raw
    BY <1>1, <2>1 DEF Raw
  <2> QED
    BY <1>1, <2>2
<1>4. 1..built \subseteq 1..(built + 1) /\ built + 1 \in 1..(built + 1) /\ built + 1 \notin 1..built
  BY <1>1
<1>5. 1..built' = (1..built) \cup {built + 1}
  BY <1>1
<1>6. Open(from)' = Open(from) \cup {it}
  <2>1. ASSUME NEW x \in Open(from)' PROVE x \in Open(from) \cup {it}
    <3>1. PICK i \in 1..(built + 1) : /\ raw'[i].from = from /\ raw'[i].nonce > nonce[from]
                                      /\ x = [raw |-> i, amount |-> raw'[i].amount]
      BY <1>1, <2>1 DEF Open
    <3>2. CASE i = built + 1
      BY <1>b, <1>3, <3>1, <3>2
    <3>3. CASE i # built + 1
      BY <1>3, <3>1, <3>3 DEF Open
    <3> QED
      BY <3>2, <3>3
  <2>2. ASSUME NEW x \in Open(from) PROVE x \in Open(from)'
    <3>1. PICK i \in 1..built : /\ raw[i].from = from /\ raw[i].nonce > nonce[from]
                                /\ x = [raw |-> i, amount |-> raw[i].amount]
      BY <2>2 DEF Open
    <3>2. i \in 1..(built + 1) /\ raw'[i] = raw[i]
      BY <1>3, <1>4, <3>1
    <3> QED
      BY <1>1, <3>1, <3>2 DEF Open
  <2>3. it \in Open(from)'
    <3>1. raw'[built + 1] = new /\ new.nonce > nonce[from] /\ new.from = from
      BY <1>1, <1>a, <1>2, <1>3, <1>4
    <3> QED
      BY <1>1, <1>b, <1>4, <3>1 DEF Open
  <2> QED
    BY <2>1, <2>2, <2>3
<1>7. \A a \in Address : a # from => Open(a)' = Open(a)
  <2> SUFFICES ASSUME NEW a \in Address, a # from PROVE Open(a)' = Open(a)
    OBVIOUS
  <2>1. ASSUME NEW x \in Open(a)' PROVE x \in Open(a)
    <3>1. PICK i \in 1..(built + 1) : /\ raw'[i].from = a /\ raw'[i].nonce > nonce[a]
                                      /\ x = [raw |-> i, amount |-> raw'[i].amount]
      BY <1>1, <2>1 DEF Open
    <3>2. i # built + 1
      BY <1>a, <1>3, <3>1
    <3> QED
      BY <1>3, <3>1, <3>2 DEF Open
  <2>2. ASSUME NEW x \in Open(a) PROVE x \in Open(a)'
    <3>1. PICK i \in 1..built : /\ raw[i].from = a /\ raw[i].nonce > nonce[a]
                                /\ x = [raw |-> i, amount |-> raw[i].amount]
      BY <2>2 DEF Open
    <3>2. i \in 1..(built + 1) /\ raw'[i] = raw[i]
      BY <1>3, <1>4, <3>1
    <3> QED
      BY <1>1, <3>1, <3>2 DEF Open
  <2> QED
    BY <2>1, <2>2
<1>8. [a \in Address |-> Open(a)]' = [[a \in Address |-> Open(a)] EXCEPT ![from] = @ \cup {it}]
  BY <1>6, <1>7
<1>9. it \in [a \in Address |-> Open(a)]'[from]
  BY <1>6
<1>10. it.raw = built + 1 /\ it.amount > 0
  BY <1>1, <1>b
<1>11. built + 1 \in Raw /\ UNCHANGED <<balance, paid>>
  BY <1>1
<1>12. Promise!Build(built + 1)
  BY ZenonT(60), <1>4, <1>5, <1>8, <1>9, <1>10, <1>11 DEF Promise!Build
<1> QED
  BY <1>11, <1>12

LEMMA PromisePay ==
  ASSUME Counted, NEW m \in wire, Execute(m)
  PROVE  \E a \in Address : \E it \in [b \in Address |-> Open(b)][a] : Promise!Pay(a, it)
<1> DEFINE it == [raw |-> m.raw, amount |-> m.amount]
<1>1. /\ m.raw \in Raw /\ m.raw <= built /\ m.from \in Address
      /\ m.nonce \in Nat /\ m.amount \in Nat
      /\ raw[m.raw].from = m.from /\ raw[m.raw].nonce = m.nonce /\ raw[m.raw].amount = m.amount
      /\ m.nonce > nonce[m.from] /\ Charge \in 0..EstimateFees
      /\ balance' = [balance EXCEPT ![m.from] = @ - m.amount - Charge]
      /\ nonce' = [nonce EXCEPT ![m.from] = m.nonce]
      /\ paid' = [paid EXCEPT ![m.raw] = @ + 1]
      /\ UNCHANGED <<built, raw>>
  BY ExecuteChanges DEF Counted
<1>2. built \in 0..MaxBuilds /\ \A i \in 1..built : i \in Raw /\ i <= built
  BY RawAssumption DEF Raw, Counted, Typed, TypeOK
<1>3. m.raw \in 1..built
  BY <1>1, <1>2 DEF Raw
<1>4. it \in Open(m.from)
  BY <1>1, <1>3 DEF Open
<1>5. \A a \in Address : nonce'[a] = IF a = m.from THEN m.nonce ELSE nonce[a]
  BY <1>1 DEF Counted, Typed, TypeOK
<1>6. Open(m.from)' = {}
  <2> SUFFICES ASSUME NEW i \in 1..built, raw[i].from = m.from, raw[i].nonce > nonce'[m.from]
               PROVE  FALSE
    BY <1>1 DEF Open
  <2>1. raw[i].nonce \in Nat /\ nonce[m.from] \in Nat /\ raw[i].nonce <= nonce[m.from] + 1
    BY <1>2, BuiltHolds DEF Counted, NextOnly
  <2> QED
    BY <1>1, <1>5, <2>1
<1>7. \A a \in Address : a # m.from => Open(a)' = Open(a)
  BY <1>1, <1>5 DEF Open
<1> HIDE DEF it
<1>8. [a \in Address |-> Open(a)]' = [[a \in Address |-> Open(a)] EXCEPT ![m.from] = {}]
  BY <1>1, <1>6, <1>7
<1>9. it.raw = m.raw /\ it.amount = m.amount
  BY DEF it
<1>10. Promise!Pay(m.from, it)
  BY <1>1, <1>8, <1>9 DEF Promise!Pay
<1> QED
  BY <1>1, <1>4, <1>10

\* The decoder implements the promise of module Payments, also when the node
\* executes while something is being built: when a raw transaction is paid, those
\* of its address that were built before can never be, and it is not paid again.
THEOREM AlwaysKept == Spec => PaymentsKept
<1>1. Init => Counted /\ Promise!Init
  <2> SUFFICES ASSUME Init PROVE Counted /\ Promise!Init
    OBVIOUS
  <2>1. built = 0 /\ 1..0 = {}
    BY DEF Init
  <2>2. \A a \in Address : Open(a) = {}
    BY <2>1 DEF Open
  <2>3. balance = Funds /\ paid = [i \in Raw |-> 0]
    BY DEF Init
  <2> QED
    BY <2>1, <2>2, <2>3, CountedInit DEF Promise!Init
<1>2. Counted /\ [Next]_vars => Counted' /\ [Promise!Next]_(Promise!vars)
  <2> SUFFICES ASSUME Counted, [Next]_vars PROVE Counted' /\ [Promise!Next]_(Promise!vars)
    OBVIOUS
  <2>1. Typed
    BY DEF Counted
  <2>2. CASE Quiet
    BY <2>2, CountedStep, PromiseQuiet DEF Promise!vars
  <2>3. CASE \E k \in Maker, form \in Form, next \in CallRecord : Adds(k, form, next)
    BY <2>3, CountedStep, PromiseBuild DEF Promise!Next
  <2>4. CASE \E m \in wire : Execute(m)
    BY <2>4, CountedStep, PromisePay DEF Promise!Next
  <2>5. CASE \E a \in Address : Receive(a)
    BY <2>5, CountedStep, PromiseReceive DEF Promise!Next
  <2> QED
    BY <2>1, <2>2, <2>3, <2>4, <2>5, Kinds
<1> QED
  BY <1>1, <1>2, PTL DEF Spec, PaymentsKept, Promise!Spec
-----------------------------------------------------------------------------
(* What must be kept *)

\* Whatever was built and can still be executed has the next nonce and can be paid.
RawCovered ==
  \A i \in Raw : i <= built /\ raw[i].nonce > nonce[raw[i].from] =>
    /\ raw[i].nonce = nonce[raw[i].from] + 1
    /\ balance[raw[i].from] >= raw[i].amount + EstimateFees + Reserve

\* A call that has chosen its address can still be paid from it.
Building == \A k \in Maker : call[k].at = "nonce" => Chosen(call[k])

Funded == Typed /\ RawCovered /\ Building

LEMMA FundedInit == Init => Funded
<1> SUFFICES ASSUME Init PROVE Funded
  OBVIOUS
<1>1. \A i \in Raw : ~(i <= built)
  BY DEF Init, Raw
<1>2. \A k \in Maker : call[k].at # "nonce"
  BY DEF Init, Idle
<1> QED
  BY <1>1, <1>2, TypeInit DEF Funded, RawCovered, Building

\* An execution, while nothing is being built, leaves the rest covered and the
\* address what it must keep.
LEMMA ExecuteFunded ==
  ASSUME Funded, ~Overlap, NEW m \in wire, Execute(m)
  PROVE  /\ RawCovered' /\ Building'
         /\ \A a \in Address : balance'[a] < balance[a] => balance'[a] >= Reserve
<1>0. Typed /\ Reserve \in Int
  BY ReserveType DEF Funded
<1>1. /\ m.raw \in Raw /\ m.raw <= built /\ m.from \in Address
      /\ m.nonce \in Nat /\ m.amount \in Nat
      /\ raw[m.raw].from = m.from /\ raw[m.raw].nonce = m.nonce /\ raw[m.raw].amount = m.amount
      /\ m.nonce > nonce[m.from]
      /\ Charge \in 0..EstimateFees /\ EstimateFees \in Nat
      /\ UNCHANGED <<built, raw, call>>
  BY <1>0, ExecuteChanges
<1>2. /\ m.nonce = nonce[m.from] + 1
      /\ balance[m.from] >= m.amount + EstimateFees + Reserve
  BY <1>1 DEF Funded, RawCovered
<1>3. /\ \A a \in Address : nonce'[a] = IF a = m.from THEN m.nonce ELSE nonce[a]
      /\ \A a \in Address : a # m.from => balance'[a] = balance[a]
      /\ balance'[m.from] = balance[m.from] - m.amount - Charge
      /\ balance[m.from] \in Nat /\ nonce[m.from] \in Nat
      /\ \A a \in Address : balance[a] \in Nat
  BY <1>0, <1>1, ExecuteChanges DEF Typed, TypeOK
<1>4. RawCovered'
  <2> SUFFICES ASSUME NEW i \in Raw, i <= built, raw[i].nonce > nonce'[raw[i].from]
               PROVE  /\ raw[i].nonce = nonce'[raw[i].from] + 1
                      /\ balance'[raw[i].from] >= raw[i].amount + EstimateFees + Reserve
    BY <1>1 DEF RawCovered, Reserve
  <2>1. raw[i].from \in Address /\ raw[i].nonce \in Nat
    BY <1>0, BuiltHolds
  <2>2. raw[i].from # m.from
    <3> SUFFICES ASSUME raw[i].from = m.from PROVE FALSE
      OBVIOUS
    <3>1. raw[i].nonce > m.nonce
      BY <1>1, <1>3
    <3>2. raw[i].nonce > nonce[m.from]
      BY <1>1, <1>3, <2>1, <3>1
    <3>3. raw[i].nonce = nonce[m.from] + 1
      BY <3>2 DEF Funded, RawCovered
    <3> QED
      BY <1>2, <1>3, <3>1, <3>3
  <2> QED
    BY <1>3, <2>1, <2>2 DEF Funded, RawCovered
<1>5. Building'
  <2>1. \A k \in Maker : call'[k].at = "idle"
    BY <1>1 DEF Execute
  <2> QED
    BY <2>1 DEF Building
<1>6. \A a \in Address : balance'[a] < balance[a] => balance'[a] >= Reserve
  <2>1. balance'[m.from] >= Reserve
    BY <1>0, <1>1, <1>2, <1>3
  <2> QED
    BY <1>3, <2>1
<1> QED
  BY <1>4, <1>5, <1>6

\* Every step leaves everything covered, and every address it takes from the reserve.
LEMMA FundedStep ==
  ASSUME ~Overlap, Funded, [Next]_vars
  PROVE  /\ Funded'
         /\ \A a \in Address : balance'[a] < balance[a] => balance'[a] >= Reserve
<1>0. Typed /\ Typed' /\ Reserve \in Int /\ EstimateFees \in Nat
  BY TypeStep, ReserveType, RawAssumption DEF Funded
<1>1. \A a \in Address : balance[a] \in Nat
  BY <1>0 DEF Typed, TypeOK
<1>2. CASE Quiet
  <2>1. /\ UNCHANGED <<balance, nonce, built>>
        /\ \A i \in Raw : /\ raw'[i].from = raw[i].from /\ raw'[i].nonce = raw[i].nonce
                          /\ raw'[i].amount = raw[i].amount
    BY <1>2 DEF Quiet, chain
  <2>2. RawCovered'
    BY <2>1 DEF Funded, RawCovered, Reserve
  <2>3. \A k \in Maker : call'[k].at = "nonce" => Chosen(call'[k])
    BY <1>2 DEF Quiet, Funded, Building
  <2>4. Building'
    BY <2>1, <2>3 DEF Building, Chosen, Reserve
  <2> QED
    BY <1>0, <1>1, <2>1, <2>2, <2>4 DEF Funded
<1>3. CASE \E k \in Maker, form \in Form, next \in CallRecord : Adds(k, form, next)
  <2> PICK k \in Maker, form \in Form, next \in CallRecord : Adds(k, form, next)
    BY <1>3
  <2> DEFINE new == [form |-> form, from |-> call[k].i, nonce |-> nonce[call[k].i] + 1,
                     amount |-> call[k].amount]
  <2>1. /\ built \in Nat /\ built' = built + 1 /\ UNCHANGED <<balance, nonce>>
        /\ new.from = call[k].i /\ new.amount = call[k].amount /\ new.nonce = nonce[new.from] + 1
        /\ \A i \in Raw : raw'[i] = IF i = built + 1 THEN new ELSE raw[i]
        /\ \A j \in Maker : call'[j] = IF j = k THEN next ELSE call[j]
    BY <1>0, AddChanges
  <2> HIDE DEF new
  <2>2. call[k].at = "nonce" /\ next.at # "nonce"
    BY DEF Adds
  <2>3. balance[new.from] >= new.amount + EstimateFees + Reserve
    BY <2>1, <2>2 DEF Funded, Building, Chosen
  <2>4. RawCovered'
    <3> SUFFICES ASSUME NEW i \in Raw, i <= built + 1, raw'[i].nonce > nonce[raw'[i].from]
                 PROVE  /\ raw'[i].nonce = nonce[raw'[i].from] + 1
                        /\ balance[raw'[i].from] >= raw'[i].amount + EstimateFees + Reserve
      BY <2>1 DEF RawCovered, Reserve
    <3>1. CASE i = built + 1
      BY <2>1, <2>3, <3>1
    <3>2. CASE i # built + 1
      <4>1. i <= built /\ raw'[i] = raw[i]
        BY <2>1, <3>2 DEF Raw
      <4> QED
        BY <4>1 DEF Funded, RawCovered
    <3> QED
      BY <3>1, <3>2
  <2>5. Building'
    BY <2>1, <2>2 DEF Funded, Building, Chosen, Reserve
  <2> QED
    BY <1>0, <1>1, <2>1, <2>4, <2>5 DEF Funded
<1>4. CASE \E m \in wire : Execute(m)
  BY <1>0, <1>4, ExecuteFunded DEF Funded
<1>5. CASE \E a \in Address : Receive(a)
  <2> PICK a \in Address : Receive(a)
    BY <1>5
  <2>1. /\ balance' = [balance EXCEPT ![a] = @ + Gift] /\ UNCHANGED <<nonce, built, raw, call>>
        /\ Gift \in Nat \ {0} /\ balance \in [Address -> Nat]
    BY <1>0, RawAssumption DEF Receive, Typed, TypeOK
  <2>2. \A b \in Address : balance[b] \in Nat /\ balance'[b] \in Nat /\ balance'[b] >= balance[b]
    BY <2>1
  <2>3. RawCovered'
    <3> SUFFICES ASSUME NEW i \in Raw, i <= built, raw[i].nonce > nonce[raw[i].from]
                 PROVE  /\ raw[i].nonce = nonce[raw[i].from] + 1
                        /\ balance'[raw[i].from] >= raw[i].amount + EstimateFees + Reserve
      BY <2>1 DEF RawCovered, Reserve
    <3>1. /\ raw[i].nonce = nonce[raw[i].from] + 1
          /\ balance[raw[i].from] >= raw[i].amount + EstimateFees + Reserve
      BY DEF Funded, RawCovered
    <3>2. raw[i].from \in Address /\ raw[i].amount \in Nat
      BY <1>0, BuiltHolds
    <3> QED
      BY <1>0, <2>2, <3>1, <3>2
  <2>4. Building'
    <3> SUFFICES ASSUME NEW k \in Maker, call[k].at = "nonce"
                 PROVE  /\ call[k].i \in Address /\ call[k].amount > 0
                        /\ balance'[call[k].i] >= call[k].amount + EstimateFees + Reserve
      BY <2>1 DEF Building, Chosen, Reserve
    <3>1. /\ call[k].i \in Address /\ call[k].amount > 0
          /\ balance[call[k].i] >= call[k].amount + EstimateFees + Reserve
      BY DEF Funded, Building, Chosen
    <3>2. call[k].amount \in Nat
      BY <1>0 DEF Typed, TypeOK
    <3> QED
      BY <1>0, <2>2, <3>1, <3>2
  <2>5. \A b \in Address : ~(balance'[b] < balance[b])
    BY <2>2
  <2> QED
    BY <1>0, <2>3, <2>4, <2>5 DEF Funded
<1> QED
  BY <1>0, Kinds, <1>2, <1>3, <1>4, <1>5

\* When nothing is executed while a transaction is being built, whatever was built
\* or sent can be paid whenever it may still be executed.
THEOREM AlwaysCovered ==
  ASSUME ~Overlap
  PROVE  Spec => []Covered
<1>1. Init => Funded
  BY FundedInit
<1>2. Funded /\ [Next]_vars => Funded'
  BY FundedStep
<1>3. Funded => Covered
  <2> SUFFICES ASSUME Funded,
                      NEW m \in wire \cup {Sent(i) : i \in {j \in Raw : raw[j].form # "none"}},
                      m.nonce > nonce[m.from]
               PROVE  /\ m.nonce = nonce[m.from] + 1
                      /\ balance[m.from] >= m.amount + EstimateFees + Reserve
    BY DEF Covered
  <2>1. PICK i \in Raw : i <= built /\ m = Sent(i)
    BY DEF Funded, Typed, TypeOK, Shape
  <2> QED
    BY <2>1 DEF Sent, Funded, RawCovered
<1> QED
  BY <1>1, <1>2, <1>3, PTL DEF Spec

\* Under the same condition every payment leaves its address the reserve; without
\* it a payment may not, as the run raw_overlap shows.
THEOREM AlwaysRetained ==
  ASSUME ~Overlap
  PROVE  Spec => RetainedKept
<1>1. Init => Funded
  BY FundedInit
<1>2. /\ Funded /\ [Next]_vars => Funded'
      /\ Funded /\ [Next]_vars =>
           [\A a \in Address : balance'[a] < balance[a] => balance'[a] >= Reserve]_vars
  BY FundedStep
<1> QED
  BY <1>1, <1>2, PTL DEF Spec, RetainedKept
=============================================================================
