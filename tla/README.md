# near-adapter: models, checks and proofs

near-adapter (`src/`) connects the openwallet framework to the NEAR chain: it
follows the chain block by block and tells observers about the transfers of
wallet addresses, and it builds, signs, verifies and submits transfers. This
directory models its core in TLA+, checks it with TLC on small instances, and
proves the properties that hold for every instance with TLAPS.

## The system

| Part | Code | State it keeps | Operations | Hard because |
|---|---|---|---|---|
| Scan task | `near/blockscanner.go` 105-479, `near/blocksanner_db.go` | saved head, saved headers, unscan records (all in the BlockchainDAI, all survive a restart); currentHeight and currentHash in memory; the Scanning flag | ScanBlockTask (timer), SetRescanBlockHeight, ScanBlock, RescanFailedRecord, Run/Stop/Pause/Restart | the node reorganises between any two calls; every call may fail; several writes per block; callers in other goroutines |
| Batch extraction | `near/blockscanner.go` 480-603, 748-768 | the token channel `extractingCH`; per call three channels, a queue, counters | BatchExtractTransaction | goroutines, unbuffered channels, deferred closes, tokens shared by calls |
| Block decoding | `near/blockscanner.go` 605-746, 770-922; `near/model.go` | locals of one call | GetBlockByHeight, GetTxByChunk, GetTxStatus, ExtractTransaction | one call of the node per chunk and per transfer while the chain goes on and reorganises; any may fail; dropped errors; an unchecked assertion; which actions count |
| Raw transactions | `near/tx_decode.go` | the RawTransaction passed from step to step | create, sign, verify, submit, summary | RawHex changes its encoding at each step; nonce and balances age; a submission that fails says nothing about the broadcast |
| Serialisation | `neartransaction/`, `near/tx_decode.go` 140-232 | RawHex and KeySignature of one raw transaction | NewTransaction, Serialize, digest | byte order and widths; the bytes are put together twice, once to be hashed and once, after a passage through JSON, with the signature |
| Signer, addresses | `txsigner/`, `near/address_decode.go` | none | one library call each; hex of a key | - |
| RPC client | `near/api.go` | none | Get, Call, Call2 | may fail; `Get` returns nil with an error |
| Assembly | `near/manager.go`, `near/near.go`, `near/config.go`, `openwtester/` | configuration | wiring | - |

How they interact: a timer of the openwallet library calls ScanBlockTask while
the scanner is running. The task asks the RPC client for the node's height and
blocks, decodes each block to transfers, passes them to BatchExtractTransaction,
which offers them to the observers, then writes the head and the header to the
BlockchainDAI and notifies the observers of the block. The raw-transaction
decoder uses the same scanner object for balances, nonces, gas price and the
reference block. `near/contract_decoder.go` is commented out in full.

What makes each correct:

- *Scan task*: the saved head never runs ahead of extraction; no block between
  the starting point and the head is forgotten over forks, failures and crashes;
  observers end up with the blocks of one chain; the task catches up.
- *Batch extraction*: every transfer is offered once before the call returns; no
  send on a closed channel; no goroutine and no token is left behind.
- *Block decoding*: a block's transfers or an error, never half a block; no amount
  that nothing moves; a success only if it was one; every account is told its own
  sides.
- *Raw transactions*: each is paid once, and a payment voids those beside it; the
  retained balance is kept.
- *Serialisation*: what the node accepts it reads as it was asked for; it accepts
  what it should.

## Modules

| Module | Models |
|---|---|
| `BlockTree` | the blocks a node may serve: height, predecessor, chain; `Canonical` is the "block" call |
| `BlockScanner` | the scan task with everything around it: node, BlockchainDAI, observers, callers, process |
| `MCBlockScanner` | three block trees and the environments (budgets of faults) of the runs |
| `LeastNaturals` | induction, and what a recursive function on the naturals is, for the proofs |
| `BlockScannerProofs` | theorems about `BlockScanner`: types, what the head vouches for; facts about block trees |
| `BlockScannerForkProofs` | theorems about forks: they lose no block, and the saved head rises by links |
| `BlockScannerFaultProofs` | theorems about failures: they lose no block; what observers and headers hold |
| `BatchPromise` | what BatchExtractTransaction promises, in three actions |
| `BatchExtract` | how its goroutines and channels do it; implements `BatchPromise` |
| `MCBatchExtract` | three overlapping calls |
| `BatchExtractProofs` | theorems about `BatchExtract`, with the refinement |
| `DecodePromise` | what GetBlockByHeight promises, told from the chain's side: a block's plain transfers and nothing invented, or an error |
| `BlockDecoding` | its loops over chunks, transactions and actions, GetTxStatus, ExtractTransaction, with a chain that executes and reorganises; implements `DecodePromise` |
| `MCBlockDecoding` | blocks of every short sequence of actions; blocks of several chunks between four addresses |
| `BlockDecodingProofs` | theorems about `BlockDecoding`, with the refinement |
| `Payments` | what the transaction decoder promises: of the raw transactions open from an address one is paid, once, as it was built |
| `RawTransaction` | create, summary, sign, verify, submit, with the chain's accounts, a lossy node and a wallet that asks for anything again; implements `Payments` |
| `MCRawTransaction` | an account with two addresses and one transfer, one with one address and two |
| `RawTransactionProofs` | theorems about `RawTransaction`, with the refinement |
| `Serialisation` | the bytes of a transfer from creation, by way of JSON, to the node, which takes them apart again |
| `MCSerialisation` | small bases and widths, every amount that fits |
| `SerialisationProofs` | theorems about `Serialisation`: what the node accepts, and that it reads what was asked for |

How they compose: `BlockScanner!BatchExtract` is `BatchExtract` as one step,
which `BatchPromise` justifies; `BlockScanner!FetchError` and `Served` are
`BlockDecoding` as one step, which `DecodePromise` justifies (a call returns the
block as a whole or an error, and keeps nothing of a failed one);
`BlockDecoding!BatchExtract` again is `BatchExtract` as one step.
`RawTransaction` keeps the form of RawHex, `Serialisation` what is in it.

Each module holds, beside a definition, the *mutants* of it: the variants a
plausible mistake would have produced. They are marked `mutant`, no
specification uses them; they were substituted to see that each property fails
when the code is wrong.

### BlockScanner and the code

The state falls into the parts the code has: `head`, `local`, `unscan` are what
the BlockchainDAI keeps (SaveCurrentBlockHead, SaveLocalBlockHead,
SaveUnscanRecord), `cur`, `curHash`, `blk`, `forked`, `todo` the locals of
ScanBlockTask and of the rescans it calls, `scanning`, `call`, `arg` the flag
and the one exported call in progress, `tip` the node. A block stands for its
hash: comparing `currentHash` with `PrevHash` is `Linked`. Five variables are
history: `attempted` and `delivered` (what extraction was given, what every
observer accepted), `announced` (what an observer holds that adds new blocks and
drops forks), `starts` (the starting points somebody asked for) and `landings`
(the ones a fork took from the node).

`pc` is the point in the code the task has reached. One action is what the task
does from one point another party can observe or disturb to the next: an RPC, a
write to the BlockchainDAI, a notification. So a fork is five steps - fetch and
compare (`FetchForked`), adopt and save the head (`BackToLocal`, `BackToNode`,
`BackFailed`), save the header (`SaveBack`), notify (`AnnounceFork`) - and a
crash, a reorganisation or a call may come between any two. Details the actions
keep: a head of height 0 counts as none; heights are unsigned and wrap
(`Modulus`); the fork test deletes the record of the height below; a failed
fetch records its height and the loop goes on; records are deleted by height,
and those whose text starts with "[-5]No information" at the end of a task
(`Reason` says whether the node's errors may read so);
`RescanLastBlockCount` blocks are extracted again (0 in NewNearBlockScanner, 1
in `scan_calls`); the status call's transport failure panics (`StatusPanic`: line
838 logs the error and 841 reads the nil result).

Assumed of what is not in `src/`: the BlockchainDAI's writes are atomic and
succeed, and its header store has one header a height; the library's timer does
not start a task while one is running; blocks of a chain form a tree with
increasing heights; the store keys an unscan record by height and transaction, and
since the scanner names no transaction, a later record of a height replaces the
earlier (`SaveUnscanRecord`). The observers answer or refuse, they do not block.

### BatchExtract and the code

Per call: `main` is the caller's goroutine (extractRuntime and the deferred
closes), `spawned` extractWork, `sending` and `releasing` the extractors,
`saver` and `held` saveWork. A send on an unbuffered channel and its receive are
one step (`Produce`, `Consume`). ExtractTransaction sets Success to true
always and newExtractDataNotify returns nil always, so saveWork's failure
branches are dead and the call returns nil; `refused` says for which calls a
height was recorded. `BlockScanner!BatchExtract` is this component seen by the
task: one step, after which the data are delivered or the height is recorded;
`BatchPromise`, which `BatchExtract` implements, is why that is sound.

### BlockDecoding and the code

`pc`, `c`, `t`, `a` are the loops of GetBlockByHeight: chunks (783), transactions
(794), actions (802); `hasTrans` and `value` are its locals of these names. They
are steps because between two calls of the node the chain executes transactions
(`Execute`) and a reorganisation takes outcomes back (`TakeBack`), so that the
same block may be told with status "0" by one call and with "1" by the next, and
the other way round. `outcome` is the chain as it is now; `lately` is history,
what had succeeded at some time since the call began. `GetTxStatus` answers "1"
for an outcome with SuccessValue and "0" for a failure, for an unknown
transaction and for any error, which the code drops (823): hence the choice, also
after success.

Details the actions keep: `break` and `continue` in the switch both lead to the
next action, so the *last* bare string or Transfer decides what the transaction
is, and of several Transfers the last deposit counts; a transaction without
actions is skipped; a deposit of 0 is no transfer; a deposit that does not parse
fails the whole call, and so does a chunk that cannot be fetched; one that is no
string panics (805, `TransferPanics`), which ends the call as an error does, for
the restarted scanner has nothing of it; deposits are rounded to 16 of 24
decimals.

The promise is told from the chain's side and does not know the loop. `Moves` are
the deposits that a transaction's Transfers move, whichever and however many;
`Plain` are the transactions with one Transfer, of something, and no bare string
after it. `DecodePromise` asks of a returned block: every plain transfer is in it;
nothing is in it that moves nothing; each amount is one that a Transfer moves; and
a success was one while the call ran. It does *not* ask for more, because the code
does not do more: of several Transfers only one deposit is told, and a Transfer
before a bare string is left out (`TransfersFound` and the run `decode_left_out`
show it). Nor does it promise that a success told is still one later: the scanner
asks about heads that may be taken back, and it is the scan task's fork handling
that tells observers so (`AnnouncedOnChain`).

Left out: the fee, the wording of the data, and that the "block" call lists the
last chunk of a shard that added none to this block (see the hazards). Which block
is behind the height is chosen once for a behaviour: that another branch's block
may be there at the next call is `BlockScanner`'s subject.

### RawTransaction and the code

A raw transaction is the form of its RawHex (JSON in hex, signed bytes in hex,
base64) and the address, nonce and amount in it; each that is built is one of its
own, numbered in the order of building (`raw`, `built`). Building is not atomic: a
call reads the balances of the addresses one by one (`TakeAddress`,
`SkipAddress`), then the nonce and the reference block (`Build`, `BuildFails`);
`call` is where it stands, and the calls for several transfers and a summary
overlap. A summary call walks over the addresses in the same way, keeps what it
builds to itself (`pending`) and loses it when one address fails (`Settle`).
Signing, verifying and submitting may be called in any order; a call that only
returns an error is no step.

`balance`, `nonce` and `paid` are the chain, `wire` all that was ever broadcast:
each may be lost, or arrive late, or once more. The node executes a broadcast
whose nonce is above the key's and whose amount the address has. The answer of
`broadcast_tx_commit` may be lost or come too late, so that `Execute` sets TxID and
IsSubmit (`submitted`) or does not; in the second case lines 237-240 return an
error that is the same whether the transfer was executed, will be, or never will.
`Shown` is the division to 16 of 24 decimals, which rounds a half upwards.

Nothing is assumed of the wallet but that it changes no raw transaction itself: it
may ask at any time for another raw transaction for a transfer or another sweep,
whatever became of those before, since nothing in the code tells it or keeps it
from it, and may submit again what it has submitted. So nothing is claimed about a
*transfer* being paid once, which the code cannot promise: built again after its
payment, or from another address, it is paid again. What it does promise is about
raw transactions (`Payments`): each is paid once at most, as it was built, and the
payment voids every other one that is open from its address. A wallet that has got
an error and builds the transfer again is therefore safe as long as the first has
not been executed when the second is built and both are from one address.

Assumed of the node: a higher nonce than the key's is required, and it takes no
more than the decoder's estimate. The age of the reference block is left out: a
broadcast that expires is one that never arrives.

### Serialisation and the code

`rawHex`, `message` and `signed` are RawHex, KeySignature.Message and
KeySignature.Signature; `NewTransaction`, `Serialize`, `digest`, `Deposit` and
`AddressEncode` are the functions of these names, `Create`, `SignRawTransaction`,
`VerifyRawTransaction` and `SubmitRawTransaction` the calls of the wallet, each
failing unless RawHex has the form it reads. `Bytes` drops leading zeros as
big.Int does, `Deposit` turns the rest round and fills it up. `Power` and `Number`
are recursive functions rather than `^` and a fold, so that theorems reach them. A
signature is a sequence of one record, and none is `<<>>`. `Decode` is the
node (external): it reads the layout that the comment over Serialize quotes. The
bases and widths are constants (16, 32, 4, 8, 16, 10 and 24 in the code). SHA-256
and signatures are records, that is, without collisions; hex and base64 are tags,
since both can be undone exactly and whoever reads the wrong form fails.

JSON is not: the hash is over the bytes before json.Marshal (420), what is sent is
put together from what json.Unmarshal returned (161), and encoding/json replaces
every byte of a string that is no UTF-8 by U+FFFD. `Json` is the constant that says
what becomes of a receiver's name (the other fields are hex, numbers and byte
slices, which Go writes in base64). The destination is checked nowhere between
the wallet and the node. So a name that is not text is signed as one name and sent
as another; the node then finds that the signature is not of what it reads, and
refuses (`Accepted`). `NodeReadsAsked` is about whatever the node accepts,
`SignatureIsOfRead` says that it accepts every transfer to a name that is text.

## Runs

Trees: *Fork* (heights 3-7, two branches parting after 3), *Skip* (heights 3-7,
branch a without a block of height 5), *Twig* (heights 1-3, two branches parting
after 1). `Budgets` is a set of environments: each says how often the reorg, the
failing fetch, and so on may happen in a behaviour, and a behaviour stays within
one of them. Nothing else is bounded, since trees are finite. `Modulus` is 16, so
that a wrapped height is beyond every block.

| Run | Instance | Shows |
|---|---|---|
| `scan_faults` | Fork; 2 reorgs and 1 failing status; or 3 failed fetches, a refusal and a crash; or 1 reorg, 1 failed fetch and a crash or a pause | no block is lost at any moment by forks alone or by failures alone; the observers' blocks and the saved headers are on the head's chain; the head rises by links only; it reaches the node's height, records are worked off, a paused task ends |
| `scan_calls` | Twig; 1 reorg, fetch, panic, refusal, call; callers not careful; one last block extracted again | types; the head never runs ahead of extraction |
| `batch` | blocks of 3, 1 and 0 transfers, 2 tokens | `BatchPromise` is implemented; channels are quiet when closed; tokens bound the extractors; calls return and leave nothing behind |
| `decode` | every sequence of up to 3 of 8 actions; up to 2 chunks of up to 2 transactions between two wallet accounts and a stranger | `DecodePromise` is implemented; each account gets one entry with its own sides |
| `raw_payments` | two addresses; one transfer and sweeps of both, asked for at any time; up to 3 raw transactions in all; one payment received | `Payments` is implemented; whatever may still be executed has the next nonce and is covered, and the reserve is kept, if nothing executes while one is built |
| `serialise` | bytes of base 4, 3 bytes a deposit, every amount that fits, with 0 to 3 decimals; names empty, in hex, beyond it, and no text | what the node accepts it reads as it was asked for; it accepts every transfer to a name that is text |

Why the bounds are enough: a fork needs depth two for its task to fall back to a
header it saved itself, and three to go below its starting point; two failed
fetches in a row are what opens a gap wide enough to step over, and a third
follows it; the interesting crash windows lie between two writes of one block,
and one crash reaches each of them. Two tokens for a block of three transfers
are used up and waited for by itself and by the second call. Three actions are a
transfer with something before and after it, or two transfers and a string; two
chunks let the second fail after the first was decoded. Three builds let a transfer
be built, built again and swept away, or built once more after it was paid; an
address can pay the transfer or its sweep and not both, and the balances are odd,
so that they are rounded up (`Grain` 2). An outcome can be taken back and come
again as often as the chain likes. Deposits of 0 to 3 significant bytes fill the
field from empty to full.

Six runs show a disagreement between the code and its comments; they are the
project's findings:

- `scan_missed_fork`: two failed fetches in a row after a reorganisation. The
  next block looks like a fork two heights too high; no header is saved two
  below, so the task takes the node's block there as its new starting point and
  never extracts the new branch's blocks below it. The same line (297) loses a
  block after a crash between the two writes of a block (333, 334) and a fork
  of depth two: that is why `ForksLoseNothing` excludes crashes.
- `scan_stuck_fork`: a fork whose new branch skips the height two below. The
  fetch fails, the task ends without a new head, and so does every later task.
- `scan_rescan_race`: SetRescanBlockHeight during a task is overwritten by it.
- `scan_refused`: a refusal during a rescan is recorded and at once deleted.
- `raw_overlap`: a transfer executes between the read of the balance and the
  read of the nonce for the next one; the next one is valid and takes the
  address below the retained balance. `RetainedKept` and `Covered` hold with
  `Overlap = FALSE`: then every transfer built off a stale balance has a used
  nonce. `PaymentsKept` holds with either.
- `decode_left_out`: a Transfer of something is followed by a bare string, or by a
  Transfer of nothing, in one transaction; the block is returned without that
  transaction.

Beyond these, what is *not* claimed: anything about lost blocks when failed
fetches and reorganisations meet (the finding above); that no block is lost for a
moment, or that the headers stay on one chain, when heights are skipped (an
abandoned header of a skipped height stays, and a later fork may fall back to
it; it then backs up further); that the records of skipped heights are drained
(they are asked for again for ever); that a first start makes progress while the
block below the tip is skipped (`CatchUp` and `RecordsDrained` assume it is
not).

## Fairness

`BlockScanner!FairSpec`: weak fairness of the task (the timer starts it again
and again and a runnable goroutine runs), of an exported call in progress and of
`Boot` (a supervisor restarts the process). No fairness for the node, for
Resume, or for any fault; the liveness properties are conditional on the scanner
being left running. `BatchExtract!FairSpec`: weak fairness of each call's
goroutines; no call has to begin. The code's `select` has no fairness beyond
that and the properties need none.

## Proofs

The prover has no induction, and the library's induction theorems take an
operator it cannot instantiate. `LeastNaturals` gets round this: a nonempty set of
naturals has a least element (`LeastNatural`, from the well-foundedness of finite
sets under inclusion), so every induction here looks at the least counterexample.
`Recursion` uses it to show that a recursive definition of the form `IF k = 0
THEN a ELSE b * f[k - 1] + c[k]` has the function it describes.

For every block tree, budget and caller (`BlockTree!BlockAssumption`,
`BlockScanner!ConfigAssumption`; that all ancestors of a block are lower is
`AncestorsLow`, by induction from parents):

- `TypeCorrect`: `Spec => []TypeOK`. One step per action.
- `AdoptableAlwaysVouched`, `HeadAlwaysVouched`: every block of the saved head's
  chain was handed to extraction or lies at or below a starting point. The head
  alone is not inductive: the task adopts heads from the header store, from
  `curHash` by way of a linked block, and from `blk` between two writes.
  `AdoptableVouched` says all of these are vouched for, and that a block is
  extracted only when it is linked to `curHash`. That what is vouched for stays
  so is `VouchedStays` (the histories only grow); the steps that pick no header
  are `QuietStep`; the heart is `Extract`, where the chain of the block is the
  chain of `curHash` and the block itself.
- `ForksAlwaysLoseNothing`: `Spec => []ForksLoseNothing`, for every tree that
  skips no height and stays below the last of uint64 (`Contiguous`); with skipped
  heights it is false. `Lost = {}` follows from `AdoptableVouched` when every
  block a fork took from the node (`landings`) is at or below a starting point
  (`LandingsLow`). It is, because a fork goes to the node only where no header
  is saved, and every height up to the saved head and up to `curHash` has a
  saved header, is being saved, or is at or below a starting point
  (`HeadsKept`); and because a fork never falls back to a height above
  `curHash` (`Place`), which is where the missing failures and skips are needed:
  a failed fetch would raise `cur` alone. A header once saved is replaced, never
  removed (`SaveKeeps`), so kept heights stay kept (`KeptStays`); the node's tip
  never sinks (`TipRises`), so that a fetch is never beyond it.
- `HeadAlwaysRisesByLink`: `Spec => HeadRisesByLink`, for such a tree without a
  block of height 0 (a head of height 0 counts as none) and a careful caller;
  `scan_rescan_race` shows that the last is needed. Beside `Place`, the saved
  head is `curHash`, or the block before the one being saved, or none
  (`HeadPlace`); a call in progress is apart from any task (`CallsApart`), so
  that nobody moves the head under one. `RisesByLink` goes through the only
  steps that save a head. Crashes are allowed here.
- `FailuresAlwaysLoseNothing`: `Spec => []FailuresLoseNothing`, for any failed
  fetches, refusals, crashes, panics and calls while the node does not reorganise,
  skipped heights included. The invariant `FailureInv`: everything the adapter
  knows is on the node's chain (`OnNode`), so that no fork is real; the task
  stands at its last block, and every height between it and `cur` has a record
  (`Trail`) - hence the fork it does see, when a block was skipped or failed, is
  one it falls back from to a height already passed (`ForkAfterGap`); the saved
  head is not ahead of the task unless a caller set it (`HeadBehind`); and each
  block of the head's and of the task's chain is extracted, recorded or below a
  starting point (`AllCovered`). A fork deletes the record
  of the height below it, which lies above the block it falls back to, so that
  the task comes to it again. Hypothesis `Positive`, no block of height 0: a fork
  at height 2 falls back to 0, line 286 raises that to 1, the height whose record
  was just deleted, and the node's block there is adopted without being
  extracted. TLC finds this on a tree with a block of height 0; the chain's
  genesis is far above it. Hypothesis `NoneDeleted`, no error that reads "noInfo":
  a ScanBlock of a recorded height that fails with such a text replaces the record,
  and the end of the task deletes it (457-464). TLC finds this with three failed
  fetches and one call; the text is another chain's, and a NEAR node has no reason
  to use it.
- `AnnouncedAlwaysOnChain`, `LocalAlwaysOnChain`: for trees that skip no height
  (with skipped heights TLC finds an abandoned header, see above). The properties
  allow reorganisations, or failed fetches and crashes, not both, and the proof
  has a part for each. While the node does not reorganise, the saved head only
  climbs its chain, and observers hold a part of it (`RisingInv`). While nothing
  fails, the saved headers have no gap from their lowest to the head, each linked
  to the one below (`LocalGapless`), and what observers hold is saved, but for
  what a fork is just about to take back (`AnnouncedHeld`); together `Told`.

For any set of calls (infinite ones included), blocks of any length and any
number of tokens (`BatchExtract!BatchAssumption`):

- `KeepsPromise`: `Spec => PromiseKept`, the refinement of `BatchPromise`. The
  inductive invariant `CallsInvariant` has three parts for each call. `Places`:
  a transfer not yet offered is in exactly one place - not started, with its
  extractor, in the queue or in saveWork's hands; this is why none is offered
  twice. `Counts`: `done` is the number of transfers offered, so that `quit` is
  closed once and only after the last; it needs the cardinality of finite sets
  (`OfferedCounted`). `Phases`: the call leaves extractRuntime only after quit.
  Together they give `QuitMeansDone`, and with it the only step that matters to
  the refinement: when the call returns, everything was offered. Each action has
  a lemma for its own call; that it leaves the others alone is `OtherStep`.
- `ChannelsAlwaysQuiet`, from the same invariant.
- `ExtractorsAlwaysBounded`: `tokens` is the number of extractors that run
  (`TokenInv`). Only Spawn and Release change it.
- `TypeCorrect`: `Types` is inductive; that `tokens` is never negative, which
  `TypeOK` adds, needs the same count.

For any blocks, accounts and rounding (`BlockDecoding!DecodingAssumption`):

- `AlwaysDecoded`: `Spec => BlockDecoded`, the refinement of `DecodePromise`. The
  invariant `DecodingInv` follows the loops: within a transaction, `hasTrans` and
  `value` are what the last string or Transfer before `a` says (`LookedAt`), so that a
  value to be told is one that a Transfer moves, and a transaction that is left out
  is not plain (`LeftOut`); `transfers` holds, of the transactions before
  `<<c, t>>`, all plain ones and none that moves nothing, with an amount near
  (`RoundedNear`) one of its `Moves`, and a status "1" only of what is in `lately`.
  So what the call returns after the last chunk is what is promised.
- `SidesAlwaysShown`: entries of `ExtractTransaction` have the sides of their
  account; after BatchExtract all of them are offered.
- `TypeCorrect`: a garbled deposit never reaches `transfers`.

For any account, transfers, rounding and bounds (`RawTransaction!RawAssumption`):

- `TypeCorrect`, by way of `Typed`: what was built has an address and an amount.
- `PaidOnce`: no raw transaction is executed twice, whatever overlaps and whatever
  the wallet asks for again. `Counted` is the inductive invariant: no nonce built is
  more than one above the chain's (`NextOnly`), and what was paid has a used nonce
  (`PaidUsed`), since executing it used it; a broadcast is what was built (`Shape`).
- `AlwaysKept`: `Spec => PaymentsKept`, the refinement of `Payments`, with the same
  invariant and no condition. By `NextOnly` all that is open from an address has
  the same nonce, so that one execution closes it all (`PromisePay`); a build opens
  one (`PromiseBuild`), and nothing else changes what is open (`PromiseQuiet`).
- `AlwaysCovered`, `AlwaysRetained`: with `~Overlap`, whatever may still be executed
  can be paid by its address with the reserve left (`RawCovered`), and so can what a
  call is about to build (`Building`); together `Funded`. Each execution uses the
  nonce, so that every other transfer of the address is refused; this is where
  `~Overlap` is needed, and only here.

For any bases, widths, keys, names, blocks, nonces and amounts, and whatever JSON
makes of a name (`Serialisation!SerialisationAssumption`: each value fits its
field):

- `AskedAlwaysRead`: `Spec => []NodeReadsAsked`. `NumberRead`: what
  `LittleEndian` writes `Number` reads, since after `k` bytes from the top it has
  the quotient by the power that is left. `DepositIs`: dropping leading zeros,
  turning round and filling up is the same as `LittleEndian` of the full width.
  `AddressDecoded`: two hex digits a byte, and back. The layout is cut after each
  field (`Upto1` to `Unsigned`), and whoever holds the whole holds each part at
  its place (`HoldsParts`, `UnsignedHeld`); `Decoded` reads them. The invariant
  `FromAsked`: all that is ever made comes from what was asked for.
  What was sent decodes to what came back of the JSON (`AskRead`). That the node
  accepts it means that the hash over these bytes is the one over the bytes before
  the JSON; bytes that are the same are read the same (`ReadOneWay`), so the name
  is the one asked for (`AcceptedAsked`), though `Json` is any function.
- `SignatureAlwaysOfRead`: when the JSON leaves the name alone, both assemblies are
  of the same transaction; a signature stands behind the bytes it is of, and
  changes none of them.

Every invariant the passing runs check, and every action property and refinement,
is a theorem now. Only model-checked are the liveness properties, which are out of
the prover's reach, as is whatever needs ENABLED.

## Not modelled

The RPC client (its outcomes are the environment of the models); configuration
and assembly; AddressVerify (a regular expression without state); the unused
helpers of `neartransaction/tx_utils.go`; fees. Of the scanner:
GetBalanceByAddress and the other getters (they change nothing; their rounding is
`Shown`), errors of the BlockchainDAI (ignored by the code), several exported
calls at the same time (one at a time, `call`), a call that fails without any
effect, concurrent change of the observers' map (the library's).

## Plan

1. *Done*: `BlockTree`, `BlockScanner` with the theorems about the head and about
   forks; `BatchPromise`, `BatchExtract`; `Payments`, `RawTransaction`;
   `DecodePromise`, `BlockDecoding`; `Serialisation`.
2. *Done*: theorems for every safety property the passing runs check.
3. Next to prove: that `MissedFork` is the only way to lose a block, that is, what
   `ForksLoseNothing` becomes when fetches may fail and no two in a row do.
4. Next to model: several exported calls at the same time, and chunks carried
   over from an earlier block.
