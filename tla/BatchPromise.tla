----------------------------- MODULE BatchPromise -----------------------------
(***************************************************************************)
(* What BatchExtractTransaction promises its callers, for any number of    *)
(* calls at the same time: every transfer of the block is offered to the   *)
(* observers exactly once, the block's height is recorded for a rescan if  *)
(* an observer refuses one, and the call returns only after the last offer.*)
(***************************************************************************)
EXTENDS Naturals

CONSTANTS
  Batch,    \* the calls of BatchExtractTransaction
  Size      \* Size[b]: how many transfers the block of call b has

VARIABLES
  status,   \* status[b]: "idle", "running" or "returned"
  offered,  \* offered[b][i]: how often transfer i was offered to the observers
  refused   \* the calls whose height is recorded: an observer refused a transfer

vars == <<status, offered, refused>>

Transfers(b) == 1..Size[b]

Init ==
  /\ status = [b \in Batch |-> "idle"]
  /\ offered = [b \in Batch |-> [i \in Transfers(b) |-> 0]]
  /\ refused = {}

\* A call with no transfers returns at once.
Begin(b) ==
  /\ status[b] = "idle"
  /\ status' = [status EXCEPT ![b] = IF Size[b] = 0 THEN "returned" ELSE "running"]
  /\ UNCHANGED <<offered, refused>>

Offer(b, i) ==
  /\ status[b] = "running"
  /\ offered[b][i] = 0
  /\ offered' = [offered EXCEPT ![b][i] = 1]
  /\ refused' \in {refused, refused \cup {b}}
  /\ UNCHANGED status

Return(b) ==
  /\ status[b] = "running"
  /\ \A i \in Transfers(b) : offered[b][i] = 1
  /\ status' = [status EXCEPT ![b] = "returned"]
  /\ UNCHANGED <<offered, refused>>

Next ==
  \E b \in Batch : Begin(b) \/ Return(b) \/ \E i \in Transfers(b) : Offer(b, i)

Spec == Init /\ [][Next]_vars
=============================================================================
