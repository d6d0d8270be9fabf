------------------------------- MODULE Payments -------------------------------
(***************************************************************************)
(* What the transaction decoder promises the owner of the wallet.  The raw *)
(* transactions built from one address compete: one of them may be paid,   *)
(* and then none of the others ever will be.  Nothing leaves an address    *)
(* otherwise, and nothing is paid that was not built, or not as it was     *)
(* built.                                                                  *)
(*                                                                         *)
(* It promises nothing about what a raw transaction was built for: a       *)
(* transfer that is built again after it was paid, or from another         *)
(* address, is paid again.                                                 *)
(***************************************************************************)
EXTENDS Integers

CONSTANTS
  Address,    \* the addresses of the account
  Raw,        \* the raw transactions that may be built
  Funds,      \* Funds[a]: what address a has at first
  Fees        \* the most a payment may cost

VARIABLES
  balance,    \* balance[a]: what address a has
  built,      \* the raw transactions that were built
  open,       \* open[a]: those of address a that may be paid, with their amounts
  paid        \* paid[i]: how often i was paid

vars == <<balance, built, open, paid>>

Init ==
  /\ balance = Funds
  /\ built = {}
  /\ open = [a \in Address |-> {}]
  /\ paid = [i \in Raw |-> 0]

Build(i) ==
  /\ i \notin built
  /\ built' = built \cup {i}
  /\ \E a \in Address : \E new \in open'[a] :
       /\ new.raw = i /\ new.amount > 0
       /\ open' = [open EXCEPT ![a] = @ \cup {new}]
  /\ UNCHANGED <<balance, paid>>

Pay(a, it) ==
  /\ open' = [open EXCEPT ![a] = {}]
  /\ paid' = [paid EXCEPT ![it.raw] = @ + 1]
  /\ \E fee \in 0..Fees : balance' = [balance EXCEPT ![a] = @ - it.amount - fee]
  /\ UNCHANGED built

Receive(a) ==
  /\ balance'[a] > balance[a]
  /\ balance' = [balance EXCEPT ![a] = balance'[a]]
  /\ UNCHANGED <<built, open, paid>>

Next ==
  \/ \E i \in Raw : Build(i)
  \/ \E a \in Address : Receive(a) \/ \E it \in open[a] : Pay(a, it)

Spec == Init /\ [][Next]_vars
=============================================================================
