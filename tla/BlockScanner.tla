---------------------------- MODULE BlockScanner ----------------------------
(***************************************************************************)
(* NearBlockScanner (near/blockscanner.go): the task that follows the      *)
(* chain of a NEAR node block by block, hands every block to extraction,   *)
(* records the heights it could not scan, backs up over forks and tells    *)
(* the observers which blocks it adopted and which it abandoned.           *)
(*                                                                         *)
(* Four parties act on the state:                                          *)
(*   - the scan task, one goroutine of a timer, step by step (pc);         *)
(*   - the node behind the RPC client, whose tip moves at any time;        *)
(*   - the callers of the exported methods, from goroutines of their own;  *)
(*   - the process, which may be killed and started again, or panic.       *)
(* What the BlockchainDAI keeps survives a restart, and so do the          *)
(* observers' records; the rest is memory.                                 *)
(*                                                                         *)
(* A step of the task ends where another party can see or disturb it: at   *)
(* a write to the BlockchainDAI, at a notification, at the next RPC.       *)
(***************************************************************************)
EXTENDS BlockTree

CONSTANTS
  Modulus,              \* 2^64: heights are uint64 and wrap
  RescanLastBlockCount, \* the scanner's field: re-extract that many last blocks
  Careful,              \* TRUE: exported methods are called on a stopped task only
  Reason,               \* what an unscan record may say: "noInfo", the text of an
                        \* error that RescanFailedRecord looks for at its end
                        \* ("[-5]No information ..."), and "retry", any other
  Budgets               \* bounds: b[f] for how often the environment does f, with
                        \* the other faults of the same b at most as often as it says

Fault == {"reorg", "fetch", "status", "panic", "notify", "crash", "pause", "call"}

ASSUME ConfigAssumption ==
  /\ Modulus \in Nat \ {0, 1}
  /\ \A b \in Block : Height[b] < Modulus
  /\ RescanLastBlockCount \in Nat
  /\ Careful \in BOOLEAN
  /\ "retry" \in Reason /\ Reason \subseteq {"noInfo", "retry"}
  /\ Budgets \subseteq [Fault -> Nat]

VARIABLES
  tip,        \* the node: its latest block
  head,       \* DAI: the saved scan position (SaveCurrentBlockHead)
  local,      \* DAI: the saved headers, at most one of each height
  unscan,     \* DAI: the records of heights to scan again
  pc,         \* where the task stands
  cur,        \* currentHeight
  curHash,    \* currentHash, as the block that has it
  blk,        \* the block being processed
  forked,     \* forkBlock: the local header to announce as abandoned, if any
  todo,       \* heights left to scan again in this task
  scanning,   \* bs.Scanning, with the timer: is the task due to run
  call, arg,  \* an exported method in progress in another goroutine
  attempted,  \* history: blocks handed to BatchExtractTransaction
  delivered,  \* history: blocks whose data every observer accepted
  announced,  \* observers: blocks announced as new and not as abandoned since
  starts,     \* history: starting points that were asked for
  landings,   \* history: starting points a fork took from the node
  spent       \* history: how often the environment did each fault

node    == tip
dai     == <<head, local, unscan>>
memory  == <<cur, curHash, blk, forked, todo>>
api     == <<scanning, call, arg>>
seen    == <<attempted, delivered>>
origins == <<starts, landings>>
history == <<seen, announced, origins>>
vars    == <<tip, dai, pc, memory, api, history, spent>>

Stopped == {"killed", "panicked"}
Running == pc \notin Stopped

PC == {"idle", "askTip", "fetchStart", "loop", "fetch", "extract", "saveHead",
       "saveLocal", "announce", "back", "saveBack", "announceFork",
       "lastBlocks", "rescan", "unrecord"} \cup Stopped

Call == {"none", "setHead", "extract", "announce"}
-----------------------------------------------------------------------------
Served(h) == Canonical(tip, h)

\* uint64 subtraction.
Minus(h, k) == IF h >= k THEN h - k ELSE Modulus + h - k

\* The height a fork at h falls back to: h - 2, and 1 for the "<= 0" test that
\* an unsigned height passes only at 0.
StepBackOne(h) == Minus(h, 1)                      \* mutant: one block only
StepBack(h) == IF Minus(h, 2) = 0 THEN 1 ELSE Minus(h, 2)

\* A head of height 0 counts as no record (GetScannedBlockHeader).
Recorded == head # NoBlock /\ Height[head] # 0

\* The block names the last one as its predecessor.
LinkedToAny(b) == TRUE                             \* mutant: not compared
Linked(b)      == Parent[b] = curHash

\* The header store has one header for a height: the last one saved.
LocalAt(h)         == {b \in local : Height[b] = h}
SaveLocalBeside(b) == local \cup {b}               \* mutant: kept beside the old
SaveLocal(b)       == {x \in local : Height[x] # Height[b]} \cup {b}

\* The local header a fork met at cur abandons.
ForkHeaderLow == LocalAt(Minus(cur, 2))             \* mutant: read after stepping back
ForkHeader    == LocalAt(cur - 1)

Record(h, r)   == [height |-> h, reason |-> r]
WithoutNone(h) == unscan                           \* mutant: nothing deleted
WithoutUpTo(h) == {r \in unscan : r.height > h}    \* mutant: all up to h deleted
Without(h)     == {r \in unscan : r.height # h}
UnscanHeights  == {r.height : r \in unscan}

\* The store keys a record by its height and its transaction, and the scanner names
\* no transaction: the last record of a height replaces the one before.
SaveUnscanRecord(h, r) == Without(h) \cup {Record(h, r)}

\* The heights of the loop "for i := currentHeight - count; i < currentHeight".
LastBlocks ==
  IF cur >= RescanLastBlockCount THEN (cur - RescanLastBlockCount)..(cur - 1) ELSE {}

\* The environment does f once more, within one of its budgets.
Spend(f) == /\ spent' = [spent EXCEPT ![f] = @ + 1]
            /\ \E b \in Budgets : \A g \in Fault : spent'[g] <= b[g]

\* GetBlockByHeight(h) returns an error: the node has no such block, or the
\* call fails (transport, node error, or one of the block's chunks).
FetchError(h) ==
  \/ Served(h) = {} /\ UNCHANGED spent
  \/ Served(h) # {} /\ Spend("fetch")

\* BatchExtractTransaction of block b: the data reach the observers, or an
\* observer fails on some and the height is recorded.  Either way the call
\* returns nil (module BatchExtract).
BatchExtract(b) ==
  /\ attempted' = attempted \cup {b}
  /\ \/ /\ delivered' = delivered \cup {b}
        /\ UNCHANGED <<unscan, spent>>
     \/ /\ Spend("notify")
        /\ unscan' = SaveUnscanRecord(Height[b], "retry")
        /\ UNCHANGED delivered

\* The task function returns; its local variables are gone.
Return ==
  /\ pc' = "idle"
  /\ cur' = 0 /\ curHash' = NoBlock /\ blk' = NoBlock
  /\ forked' = {} /\ todo' = {}
-----------------------------------------------------------------------------
(* The scan task: where it starts *)

\* ScanBlockTask begins at the saved head.
BeginAtHead ==
  /\ pc = "idle" /\ scanning /\ Recorded
  /\ cur' = Height[head]
  /\ curHash' = head
  /\ pc' = "loop"
  /\ UNCHANGED <<tip, dai, blk, forked, todo, api, history, spent>>

\* No saved head: the node's height is asked for ...
BeginAtTip ==
  /\ pc = "idle" /\ scanning /\ ~Recorded
  /\ pc' = "askTip"
  /\ UNCHANGED <<tip, dai, memory, api, history, spent>>

\* ... and the block before it is where scanning starts.
AskTip ==
  /\ pc = "askTip"
  /\ cur' = Minus(Height[tip], 1)
  /\ pc' = "fetchStart"
  /\ UNCHANGED <<tip, dai, curHash, blk, forked, todo, api, history, spent>>

FetchStart ==
  /\ pc = "fetchStart"
  /\ \E b \in Served(cur) :
       /\ curHash' = b
       /\ starts' = starts \cup {b}
  /\ pc' = "loop"
  /\ UNCHANGED <<tip, dai, cur, blk, forked, todo, api, seen, announced, landings, spent>>

FetchStartFailed ==
  /\ pc = "fetchStart" /\ FetchError(cur)
  /\ Return
  /\ UNCHANGED <<tip, dai, api, history>>

\* The status call answers with something that is no status: the task ends
\* (without a start) or leaves its loop.
StatusError ==
  /\ Spend("status")
  /\ \/ /\ pc = "askTip"
        /\ Return
     \/ /\ pc = "loop" /\ scanning
        /\ todo' = LastBlocks
        /\ pc' = "lastBlocks"
        /\ UNCHANGED <<cur, curHash, blk, forked>>
  /\ UNCHANGED <<tip, dai, api, history>>

\* The status call fails in transport: GetCurrentBlock logs the error and
\* dereferences the missing result.
StatusPanic ==
  /\ pc = "askTip" \/ (pc = "loop" /\ scanning)
  /\ Spend("panic")
  /\ pc' = "panicked"
  /\ UNCHANGED <<tip, dai, memory, api, history>>
-----------------------------------------------------------------------------
(* The scan task: the loop over new heights *)

\* Paused: the task ends at once.
LeavePausedLate ==                                 \* mutant: "continue" for "return"
  pc = "loop" /\ ~scanning /\ UNCHANGED vars

LeavePaused ==
  /\ pc = "loop" /\ ~scanning
  /\ Return
  /\ UNCHANGED <<tip, dai, api, history, spent>>

LeaveAtTip ==
  /\ pc = "loop" /\ scanning /\ cur >= Height[tip]
  /\ todo' = LastBlocks
  /\ pc' = "lastBlocks"
  /\ UNCHANGED <<tip, dai, cur, curHash, blk, forked, api, history, spent>>

NextHeight ==
  /\ pc = "loop" /\ scanning /\ cur < Height[tip]
  /\ cur' = cur + 1
  /\ pc' = "fetch"
  /\ UNCHANGED <<tip, dai, curHash, blk, forked, todo, api, history, spent>>

\* The height is recorded and the loop goes on to the next one.
FetchFailed ==
  /\ pc = "fetch" /\ FetchError(cur)
  /\ unscan' = SaveUnscanRecord(cur, "retry")
  /\ pc' = "loop"
  /\ UNCHANGED <<tip, head, local, memory, api, history>>

FetchLinked ==
  /\ pc = "fetch"
  /\ \E b \in Served(cur) :
       /\ Linked(b)
       /\ blk' = b
  /\ pc' = "extract"
  /\ UNCHANGED <<tip, dai, cur, curHash, forked, todo, api, history, spent>>

Extract ==
  /\ pc = "extract"
  /\ BatchExtract(blk)
  /\ curHash' = blk
  /\ pc' = "saveHead"
  /\ UNCHANGED <<tip, head, local, cur, blk, forked, todo, api, announced, origins>>

SaveHead ==
  /\ pc = "saveHead"
  /\ head' = blk
  /\ pc' = "saveLocal"
  /\ UNCHANGED <<tip, local, unscan, memory, api, history, spent>>

SaveLocalBlock ==
  /\ pc = "saveLocal"
  /\ local' = SaveLocal(blk)
  /\ pc' = "announce"
  /\ UNCHANGED <<tip, head, unscan, memory, api, history, spent>>

Announce ==
  /\ pc = "announce"
  /\ announced' = announced \cup {blk}
  /\ pc' = "loop"
  /\ UNCHANGED <<tip, dai, memory, api, seen, origins, spent>>
-----------------------------------------------------------------------------
(* The scan task: backing up over a fork *)

\* The block does not continue the local chain.
FetchForked ==
  /\ pc = "fetch"
  /\ \E b \in Served(cur) : ~Linked(b)
  /\ forked' = ForkHeader
  /\ unscan' = Without(cur - 1)
  /\ cur' = StepBack(cur)
  /\ pc' = "back"
  /\ UNCHANGED <<tip, head, local, curHash, blk, todo, api, history, spent>>

\* The new starting point is the local header two below ...
BackToLocal ==
  /\ pc = "back"
  /\ \E b \in LocalAt(cur) :
       /\ curHash' = b
       /\ head' = b
       /\ blk' = b
  /\ pc' = "saveBack"
  /\ UNCHANGED <<tip, local, unscan, cur, forked, todo, api, history, spent>>

\* ... or, when there is none, whatever block the node has at that height.
BackToNode ==
  /\ pc = "back" /\ LocalAt(cur) = {}
  /\ \E b \in Served(cur) :
       /\ curHash' = b
       /\ head' = b
       /\ blk' = b
       /\ landings' = landings \cup {b}
  /\ pc' = "saveBack"
  /\ UNCHANGED <<tip, local, unscan, cur, forked, todo, api, seen, announced, starts, spent>>

BackFailed ==
  /\ pc = "back" /\ LocalAt(cur) = {} /\ FetchError(cur)
  /\ todo' = LastBlocks
  /\ pc' = "lastBlocks"
  /\ UNCHANGED <<tip, dai, cur, curHash, blk, forked, api, history>>

SaveBack ==
  /\ pc = "saveBack"
  /\ local' = SaveLocal(blk)
  /\ pc' = "announceFork"
  /\ UNCHANGED <<tip, head, unscan, memory, api, history, spent>>

AnnounceFork ==
  /\ pc = "announceFork"
  /\ announced' = announced \ forked
  /\ pc' = "loop"
  /\ UNCHANGED <<tip, dai, memory, api, seen, origins, spent>>
-----------------------------------------------------------------------------
(* The scan task: scanning again before it ends *)

\* scanBlock(i) for the last heights, in ascending order.
RescanLast ==
  /\ pc = "lastBlocks"
  /\ \E i \in todo :
       /\ \A j \in todo : i <= j
       /\ todo' = todo \ {i}
       /\ \/ /\ \E b \in Served(i) : BatchExtract(b)
          \/ /\ FetchError(i)
             /\ \E r \in Reason : unscan' = SaveUnscanRecord(i, r)
             /\ UNCHANGED <<attempted, delivered>>
  /\ UNCHANGED <<tip, head, local, pc, cur, curHash, blk, forked, api, announced, origins>>

\* RescanFailedRecord reads the records once; height 0 is left out.
ListRecords ==
  /\ pc = "lastBlocks" /\ todo = {}
  /\ todo' = UnscanHeights \ {0}
  /\ pc' = "rescan"
  /\ UNCHANGED <<tip, dai, cur, curHash, blk, forked, api, history, spent>>

RescanRecord ==
  /\ pc = "rescan"
  /\ \E h \in todo : \E b \in Served(h) :
       /\ BatchExtract(b)
       /\ blk' = b
       /\ todo' = todo \ {h}
  /\ pc' = "unrecord"
  /\ UNCHANGED <<tip, head, local, cur, curHash, forked, api, announced, origins>>

Unrecord ==
  /\ pc = "unrecord"
  /\ unscan' = Without(Height[blk])
  /\ pc' = "rescan"
  /\ UNCHANGED <<tip, head, local, memory, api, history, spent>>

RescanFailed ==
  /\ pc = "rescan"
  /\ \E h \in todo : FetchError(h) /\ todo' = todo \ {h}
  /\ UNCHANGED <<tip, dai, pc, cur, curHash, blk, forked, api, history>>

\* DeleteUnscanRecordNotFindTX, and the end of the task.
EndTask ==
  /\ pc = "rescan" /\ todo = {}
  /\ unscan' = {r \in unscan : r.reason # "noInfo"}
  /\ Return
  /\ UNCHANGED <<tip, head, local, api, history, spent>>
-----------------------------------------------------------------------------
(* The exported methods, called from other goroutines *)

\* Run and Restart (BlockScannerBase).
Resume ==
  /\ Running /\ ~scanning
  /\ Careful => call = "none"
  /\ scanning' = TRUE
  /\ UNCHANGED <<tip, dai, pc, memory, call, arg, history, spent>>

\* Pause and Stop: a task that is running is not waited for.
Pause ==
  /\ Running /\ scanning
  /\ Spend("pause")
  /\ scanning' = FALSE
  /\ UNCHANGED <<tip, dai, pc, memory, call, arg, history>>

\* A careful caller calls while the task is stopped and has ended.
MayCall == /\ Running /\ call = "none"
           /\ Careful => ~scanning /\ pc = "idle"

\* SetRescanBlockHeight(Height[b] + 1) fetches b, then saves it as the head.
SetRescan ==
  /\ MayCall /\ Spend("call")
  /\ arg' \in Chain[tip]
  /\ call' = "setHead"
  /\ UNCHANGED <<tip, dai, pc, memory, scanning, history>>

SetRescanSave ==
  /\ Running /\ call = "setHead"
  /\ head' = arg
  /\ starts' = starts \cup {arg}
  /\ call' = "none"
  /\ UNCHANGED <<tip, local, unscan, pc, memory, scanning, arg, seen, announced, landings,
                 spent>>

\* ScanBlock(Height[b]) fetches b, extracts it, then announces it.
ScanBlock ==
  /\ MayCall /\ Spend("call")
  /\ arg' \in Chain[tip]
  /\ call' = "extract"
  /\ UNCHANGED <<tip, dai, pc, memory, scanning, history>>

ScanBlockExtract ==
  /\ Running /\ call = "extract"
  /\ BatchExtract(arg)
  /\ call' = "announce"
  /\ UNCHANGED <<tip, head, local, pc, memory, scanning, arg, announced, origins>>

\* ScanBlock(h) of a block the node does not return, for whatever reason,
\* records h and reports the error.
ScanBlockFailed ==
  /\ MayCall /\ Spend("call")
  /\ \E b \in Block, r \in Reason : unscan' = SaveUnscanRecord(Height[b], r)
  /\ UNCHANGED <<tip, head, local, pc, memory, api, history>>

ScanBlockAnnounce ==
  /\ Running /\ call = "announce"
  /\ announced' = announced \cup {arg}
  /\ call' = "none"
  /\ UNCHANGED <<tip, dai, pc, memory, scanning, arg, seen, origins, spent>>
-----------------------------------------------------------------------------
(* The node and the process *)

Grow ==
  /\ \E b \in Block : Parent[b] = tip /\ tip' = b
  /\ UNCHANGED <<dai, pc, memory, api, history, spent>>

\* The node switches to another fork that is at least as high.
Reorg ==
  /\ Spend("reorg")
  /\ \E b \in Block : /\ tip \notin Chain[b]
                      /\ Height[b] >= Height[tip]
                      /\ tip' = b
  /\ UNCHANGED <<dai, pc, memory, api, history>>

Kill ==
  /\ Running /\ Spend("crash")
  /\ pc' = "killed"
  /\ UNCHANGED <<tip, dai, memory, api, history>>

\* A new process: NewNearBlockScanner, nothing running.
Boot ==
  /\ pc \in Stopped
  /\ Return
  /\ scanning' = FALSE /\ call' = "none" /\ arg' = NoBlock
  /\ UNCHANGED <<tip, dai, history, spent>>
-----------------------------------------------------------------------------
Init ==
  /\ tip \in Block
  /\ head = NoBlock /\ local = {} /\ unscan = {}
  /\ pc = "idle" /\ cur = 0 /\ curHash = NoBlock /\ blk = NoBlock
  /\ forked = {} /\ todo = {}
  /\ scanning = FALSE /\ call = "none" /\ arg = NoBlock
  /\ attempted = {} /\ delivered = {} /\ announced = {}
  /\ starts = {} /\ landings = {}
  /\ spent = [f \in Fault |-> 0]

ScanBlockTask ==
  \/ BeginAtHead \/ BeginAtTip \/ AskTip \/ FetchStart \/ FetchStartFailed
  \/ StatusError \/ StatusPanic
  \/ LeavePaused \/ LeaveAtTip \/ NextHeight
  \/ FetchFailed \/ FetchLinked \/ Extract \/ SaveHead \/ SaveLocalBlock \/ Announce
  \/ FetchForked \/ BackToLocal \/ BackToNode \/ BackFailed \/ SaveBack \/ AnnounceFork
  \/ RescanLast \/ ListRecords \/ RescanRecord \/ Unrecord \/ RescanFailed \/ EndTask

CallStep == SetRescanSave \/ ScanBlockExtract \/ ScanBlockAnnounce

Caller == Resume \/ Pause \/ SetRescan \/ ScanBlock \/ ScanBlockFailed \/ CallStep

Next == ScanBlockTask \/ Caller \/ Grow \/ Reorg \/ Kill \/ Boot

Spec == Init /\ [][Next]_vars

\* The timer starts the task again and again and the Go scheduler runs every
\* goroutine that can run; a supervisor starts a process that died.  Nothing
\* obliges the node to grow, nor a caller to resume.
Fairness == WF_vars(ScanBlockTask) /\ WF_vars(CallStep) /\ WF_vars(Boot)

FairSpec == Spec /\ Fairness
-----------------------------------------------------------------------------
(* Properties *)

TypeOK ==
  /\ tip \in Block
  /\ head \in Block \cup {NoBlock}
  /\ local \subseteq Block
  /\ \A b, c \in local : Height[b] = Height[c] => b = c
  /\ unscan \subseteq [height : 0..(Modulus - 1), reason : Reason]
  /\ pc \in PC
  /\ cur \in 0..(Modulus - 1)
  /\ curHash \in Block \cup {NoBlock}
  /\ blk \in Block \cup {NoBlock}
  /\ pc \in {"extract", "saveHead", "saveLocal", "announce", "saveBack", "unrecord"}
       => blk \in Block
  /\ forked \subseteq Block
  /\ todo \subseteq 0..(Modulus - 1)
  /\ scanning \in BOOLEAN
  /\ call \in Call
  /\ arg \in Block \cup {NoBlock}
  /\ call # "none" => arg \in Block
  /\ attempted \subseteq Block /\ delivered \subseteq attempted
  /\ announced \subseteq Block
  /\ starts \subseteq Block /\ landings \subseteq Block
  /\ spent \in [Fault -> Nat]

Origins == starts \cup landings

\* Block b is vouched for: it and every ancestor were handed to extraction, or
\* lie at or below a starting point.
Vouched(b) ==
  \A a \in Chain[b] : a \in attempted \/ \E s \in Origins : a \in Chain[s]

\* The saved head never runs ahead of extraction: whatever the node, the
\* callers and the crashes do, every block of the chain below the saved head
\* was handed to BatchExtractTransaction, or lies at or below a block the scan
\* was started from (first start, SetRescanBlockHeight, the block a fork took
\* from the node).
HeadVouched == head # NoBlock => Vouched(head)

\* What makes it so: every header the task may adopt is vouched for - the saved
\* ones a fork falls back to, the one the next block is compared with, the one
\* being saved - and a block is handed to extraction only when it continues
\* the block before it.
AdoptableVouched ==
  /\ HeadVouched
  /\ \A b \in local : Vouched(b)
  /\ curHash # NoBlock => Vouched(curHash)
  /\ pc = "extract" => Linked(blk)
  /\ pc \in {"saveHead", "saveLocal", "saveBack"} => Vouched(blk)

\* The blocks of the saved head's chain that no one will ever extract: not
\* handed to extraction, not recorded for a rescan, and above every starting
\* point that was asked for.
Lost ==
  IF head = NoBlock THEN {}
  ELSE {b \in Chain[head] : /\ b \notin attempted
                            /\ Height[b] \notin UnscanHeights
                            /\ \A s \in starts : Height[s] < Height[b]}

\* The environment did none of the faults fs so far.
None(fs) == \A f \in fs : spent[f] = 0

\* However the node reorganises and whoever calls, no block between the first
\* starting point and the saved head is forgotten, not even for a moment, as long
\* as no fetch fails and the process is not killed.
ForksLoseNothing == None({"fetch", "crash"}) => Lost = {}

\* ... and neither do failed fetches, refusals and crashes, while the node does
\* not reorganise.  (With errors that read "noInfo" it may: such a record replaces
\* the one of a failed fetch, and is deleted.)
FailuresLoseNothing == None({"reorg"}) => Lost = {}

\* No block of the node's chain is forgotten once the task has come to its end.
NoBlockForgotten == pc = "idle" /\ head \in Chain[tip] => Lost = {}

\* A fork meets no failed fetch and no crash.
Apart == None({"reorg"}) \/ None({"fetch", "crash"})

\* Outside the windows of a write and its notification ...
Settled == pc \notin {"saveLocal", "announce", "saveBack", "announceFork"} \cup Stopped

\* ... an observer that adds what is announced as new and drops what is
\* announced as a fork holds blocks of the saved head's chain only, as long as
\* the task alone announces.
AnnouncedOnChain ==
  Settled /\ Apart /\ None({"call"}) /\ head # NoBlock => announced \subseteq Chain[head]

\* ... and the saved headers up to the saved head, which a fork falls back to,
\* are blocks of its chain, as long as nobody moves the head.
LocalOnChain ==
  Settled /\ Apart /\ None({"call"}) /\ head # NoBlock
    => \A b \in local : Height[b] <= Height[head] => b \in Chain[head]

\* The saved head rises only to a child of the head before it, whatever fork the
\* node answers from and wherever the process dies: no block is stepped over,
\* unless a fetch failed or somebody chose another starting point.
HeadRises == head # NoBlock /\ head' # NoBlock /\ Height[head'] > Height[head]

HeadRisesByLink ==
  [][None({"fetch"}) /\ HeadRises => Parent[head'] = head \/ head' \in starts']_vars

\* What an observer refused stays recorded for a rescan until it is accepted.
RefusedIsRecorded ==
  head # NoBlock =>
    \A b \in Chain[head] \cap attempted : b \in delivered \/ Height[b] \in UnscanHeights

\* While the scanner is left running the saved head reaches the node's height.
CatchUp ==
  <>[](scanning /\ Served(Minus(Height[tip], 1)) # {})
    => <>[](head # NoBlock /\ Height[head] = Height[tip])

\* ... and every recorded height is scanned again and forgotten.
RecordsDrained ==
  <>[](scanning /\ Served(Minus(Height[tip], 1)) # {}) => <>[](unscan = {})

\* A paused scanner's task ends, even in the middle of a long catch-up.
PauseEndsTask == ~scanning ~> (scanning \/ pc \in {"idle"} \cup Stopped)
=============================================================================
