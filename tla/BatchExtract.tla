----------------------------- MODULE BatchExtract -----------------------------
(***************************************************************************)
(* BatchExtractTransaction (near/blockscanner.go): the goroutines and the  *)
(* channels that take the transfers of one block to the observers.         *)
(*                                                                         *)
(*   extractWork --go--> extractor --producer--> extractRuntime --worker-->*)
(*   saveWork --newExtractDataNotify--> observers                          *)
(*                                                                         *)
(* producer and worker are unbuffered: a send and its receive are one step.*)
(* The scan task, its rescans and the callers of ScanBlock may be in it at *)
(* the same time; they share the tokens of extractingCH.                   *)
(*                                                                         *)
(* ExtractTransaction always succeeds and newExtractDataNotify always      *)
(* returns nil, so saveWork's branches for a failure are never taken and   *)
(* the call returns nil whatever the observers said.                       *)
(***************************************************************************)
EXTENDS Integers, Sequences, FiniteSets

CONSTANTS
  Batch,              \* the calls of BatchExtractTransaction
  Size,               \* Size[b]: len(txs) of call b
  MaxExtractingSize   \* the capacity of extractingCH

ASSUME BatchAssumption ==
  /\ Size \in [Batch -> Nat]
  /\ MaxExtractingSize \in Nat \ {0}

VARIABLES
  main,       \* main[b]: where the call itself stands
  spawned,    \* spawned[b]: the extractors extractWork has started
  tokens,     \* the tokens in extractingCH
  sending,    \* sending[b]: extractors that extract, or wait to send
  releasing,  \* releasing[b]: extractors that have sent and hold a token
  values,     \* values[b]: extractRuntime's queue
  saver,      \* saver[b]: where saveWork stands
  held,       \* held[b]: the transfer saveWork works on
  done,       \* done[b]: saveWork's counter
  quit,       \* quit[b]: how often quit was closed
  offered,    \* offered[b][i]: how often transfer i was offered to the observers
  refused     \* the calls whose height is recorded for a rescan

vars == <<main, spawned, tokens, sending, releasing, values, saver, held, done,
          quit, offered, refused>>

Transfers(b) == 1..Size[b]

\* Where the call stands: in extractRuntime, at the deferred closes, returned.
Main  == {"idle", "runtime", "closeWorker", "closeProducer", "returned"}
Saver == {"none", "receive", "notify", "count", "ended"}
-----------------------------------------------------------------------------
\* The call starts saveWork and extractWork and enters extractRuntime; with no
\* transfers it returns at once.
Begin(b) ==
  /\ main[b] = "idle"
  /\ IF Size[b] = 0
     THEN /\ main' = [main EXCEPT ![b] = "returned"]
          /\ UNCHANGED saver
     ELSE /\ main' = [main EXCEPT ![b] = "runtime"]
          /\ saver' = [saver EXCEPT ![b] = "receive"]
  /\ UNCHANGED <<spawned, tokens, sending, releasing, values, held, done, quit,
                 offered, refused>>

\* extractWork takes a token, then starts the next extractor.
FreeTokenLate == tokens <= MaxExtractingSize        \* mutant: one too many
FreeToken     == tokens < MaxExtractingSize

Spawn(b) ==
  /\ main[b] # "idle" /\ spawned[b] < Size[b]
  /\ FreeToken
  /\ tokens' = tokens + 1
  /\ spawned' = [spawned EXCEPT ![b] = @ + 1]
  /\ sending' = [sending EXCEPT ![b] = @ \cup {spawned[b] + 1}]
  /\ UNCHANGED <<main, releasing, values, saver, held, done, quit, offered, refused>>

\* An extractor has extracted transfer i and sends it; extractRuntime queues it.
Produce(b, i) ==
  /\ i \in sending[b] /\ main[b] = "runtime"
  /\ values' = [values EXCEPT ![b] = Append(@, i)]
  /\ sending' = [sending EXCEPT ![b] = @ \ {i}]
  /\ releasing' = [releasing EXCEPT ![b] = @ \cup {i}]
  /\ UNCHANGED <<main, spawned, tokens, saver, held, done, quit, offered, refused>>

\* The extractor takes a token back out and ends.
TakeTwo(n) == n - 2                                 \* mutant: taken out twice
TakeOne(n) == n - 1

Release(b, i) ==
  /\ i \in releasing[b]
  /\ tokens' = TakeOne(tokens)
  /\ releasing' = [releasing EXCEPT ![b] = @ \ {i}]
  /\ UNCHANGED <<main, spawned, sending, values, saver, held, done, quit, offered, refused>>

\* extractRuntime hands the head of its queue to saveWork.
KeepQueue(q) == q                                   \* mutant: "values[1:]" missing
Dequeue(q)   == Tail(q)

Consume(b) ==
  /\ main[b] = "runtime" /\ values[b] # <<>> /\ saver[b] = "receive"
  /\ held' = [held EXCEPT ![b] = Head(values[b])]
  /\ values' = [values EXCEPT ![b] = Dequeue(@)]
  /\ saver' = [saver EXCEPT ![b] = "notify"]
  /\ UNCHANGED <<main, spawned, tokens, sending, releasing, done, quit, offered, refused>>

\* newExtractDataNotify: the observers accept, or one refuses and the height is
\* recorded.
Notify(b) ==
  /\ saver[b] = "notify"
  /\ offered' = [offered EXCEPT ![b][held[b]] = @ + 1]
  /\ refused' \in {refused, refused \cup {b}}
  /\ saver' = [saver EXCEPT ![b] = "count"]
  /\ UNCHANGED <<main, spawned, tokens, sending, releasing, values, held, done, quit>>

\* done++, and quit is closed by the last.
LastOneEarly(b) == done[b] + 2 >= Size[b]           \* mutant: one too early
LastOneLate(b)  == done[b] = Size[b]                \* mutant: never reached
LastOne(b)      == done[b] + 1 = Size[b]

Count(b) ==
  /\ saver[b] = "count"
  /\ done' = [done EXCEPT ![b] = @ + 1]
  /\ quit' = [quit EXCEPT ![b] = IF LastOne(b) THEN @ + 1 ELSE @]
  /\ saver' = [saver EXCEPT ![b] = "receive"]
  /\ UNCHANGED <<main, spawned, tokens, sending, releasing, values, held, offered, refused>>

\* extractRuntime sees quit and returns.
Quit(b) ==
  /\ main[b] = "runtime" /\ quit[b] > 0
  /\ main' = [main EXCEPT ![b] = "closeWorker"]
  /\ UNCHANGED <<spawned, tokens, sending, releasing, values, saver, held, done,
                 quit, offered, refused>>

\* The deferred closes, last deferred first.
CloseWorker(b) ==
  /\ main[b] = "closeWorker"
  /\ main' = [main EXCEPT ![b] = "closeProducer"]
  /\ UNCHANGED <<spawned, tokens, sending, releasing, values, saver, held, done,
                 quit, offered, refused>>

CloseProducer(b) ==
  /\ main[b] = "closeProducer"
  /\ main' = [main EXCEPT ![b] = "returned"]
  /\ UNCHANGED <<spawned, tokens, sending, releasing, values, saver, held, done,
                 quit, offered, refused>>

\* saveWork's range over the worker channel ends when that is closed.
WorkerNeverClosed(b) == FALSE                       \* mutant: no close(worker)
WorkerClosed(b)      == main[b] \in {"closeProducer", "returned"}

SaverEnds(b) ==
  /\ saver[b] = "receive" /\ WorkerClosed(b)
  /\ saver' = [saver EXCEPT ![b] = "ended"]
  /\ UNCHANGED <<main, spawned, tokens, sending, releasing, values, held, done,
                 quit, offered, refused>>
-----------------------------------------------------------------------------
Init ==
  /\ main = [b \in Batch |-> "idle"]
  /\ spawned = [b \in Batch |-> 0]
  /\ tokens = 0
  /\ sending = [b \in Batch |-> {}]
  /\ releasing = [b \in Batch |-> {}]
  /\ values = [b \in Batch |-> <<>>]
  /\ saver = [b \in Batch |-> "none"]
  /\ held = [b \in Batch |-> 0]
  /\ done = [b \in Batch |-> 0]
  /\ quit = [b \in Batch |-> 0]
  /\ offered = [b \in Batch |-> [i \in Transfers(b) |-> 0]]
  /\ refused = {}

\* The goroutines of a call in progress.
Step(b) ==
  \/ Spawn(b) \/ Consume(b) \/ Notify(b) \/ Count(b)
  \/ Quit(b) \/ CloseWorker(b) \/ CloseProducer(b) \/ SaverEnds(b)
  \/ \E i \in Transfers(b) : Produce(b, i) \/ Release(b, i)

Finished ==
  \A b \in Batch : /\ main[b] = "returned" /\ saver[b] \in {"none", "ended"}
                   /\ sending[b] = {} /\ releasing[b] = {}

\* All the calls have come to an end.
Stop == Finished /\ UNCHANGED vars

Next == Stop \/ \E b \in Batch : Begin(b) \/ Step(b)

Spec == Init /\ [][Next]_vars

\* Every goroutine that can run runs; nobody must begin a call.
FairSpec == Spec /\ \A b \in Batch : WF_vars(Step(b))
-----------------------------------------------------------------------------
(* Properties *)

Types ==
  /\ main \in [Batch -> Main]
  /\ spawned \in [Batch -> Nat]
  /\ tokens \in Int
  /\ sending \in [Batch -> SUBSET Nat]
  /\ releasing \in [Batch -> SUBSET Nat]
  /\ values \in [Batch -> Seq(Nat)]
  /\ saver \in [Batch -> Saver]
  /\ held \in [Batch -> Nat]
  /\ done \in [Batch -> Nat]
  /\ quit \in [Batch -> Nat]
  /\ DOMAIN offered = Batch
  /\ \A b \in Batch : offered[b] \in [Transfers(b) -> Nat]
  /\ refused \subseteq Batch

\* The variables have their types, and no extractor takes a token out that it
\* did not put in: tokens is never negative.
TypeOK == Types /\ tokens >= 0

\* What a caller sees of a call.
status == [b \in Batch |-> CASE main[b] = "idle"     -> "idle"
                            [] main[b] = "returned" -> "returned"
                            [] OTHER                -> "running"]

Promise == INSTANCE BatchPromise

\* The calls keep the promise of BatchPromise: each transfer is offered exactly
\* once and no call returns before its last offer.
PromiseKept == Promise!Spec

\* Go panics on a send on a closed channel and on closing one twice.  When a
\* call gets to its deferred closes, all extractors have been started and have
\* sent, the queue is empty, saveWork is back at its receive; and quit has been
\* closed once.
ChannelsQuiet ==
  \A b \in Batch :
    /\ quit[b] <= 1
    /\ main[b] \in {"closeWorker", "closeProducer", "returned"} =>
         /\ spawned[b] = Size[b] /\ sending[b] = {} /\ values[b] = <<>>
         /\ saver[b] \in {"none", "receive", "ended"}

\* However many calls are in progress, no more extractors run at once than
\* extractingCH has room for.
ExtractorsBounded ==
  Cardinality(UNION {{b} \X (sending[b] \cup releasing[b]) : b \in Batch})
    <= MaxExtractingSize

\* A call that began returns, whatever other calls do with the tokens, and
\* leaves no goroutine and no token behind.
CallsReturn == \A b \in Batch : main[b] # "idle" ~> main[b] = "returned"
NothingLeft ==
  \A b \in Batch : main[b] = "returned" ~>
    saver[b] \in {"none", "ended"} /\ releasing[b] = {}
=============================================================================
