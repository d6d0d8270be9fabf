------------------------- MODULE BlockScannerProofs -------------------------
(***************************************************************************)
(* Theorems about NearBlockScanner for every block tree, every bound on    *)
(* faults and every caller.                                                *)
(***************************************************************************)
EXTENDS BlockScanner, LeastNaturals

(* The blocks of a chain, by induction on heights *)

\* The lowest block of a set of blocks.
LEMMA LowestBlock ==
  ASSUME NEW B \in SUBSET Block, B # {}
  PROVE  \E b \in B : \A c \in B : Height[b] <= Height[c]
<1> DEFINE S == {Height[b] : b \in B}
<1>1. S \in SUBSET Nat /\ S # {}
  BY BlockAssumption
<1>2. PICK m \in S : \A k \in S : m <= k
  BY <1>1, LeastNatural
<1> QED
  BY <1>2

\* A block's parent is lower and has the rest of its chain.
LEMMA ParentLow ==
  ASSUME NEW b \in Block, NEW a \in Chain[b], a # b
  PROVE  /\ Parent[b] \in Block /\ a \in Chain[Parent[b]]
         /\ Height[Parent[b]] < Height[b]
         /\ Chain[b] = {b} \cup Chain[Parent[b]]
  BY BlockAssumption

\* An ancestor is never higher, and lower unless it is the block itself.
LEMMA AncestorsLow ==
  ASSUME NEW b \in Block, NEW a \in Chain[b]
  PROVE  /\ a \in Block /\ Height[a] \in Nat /\ Height[b] \in Nat
         /\ Height[a] <= Height[b]
         /\ a # b => Height[a] < Height[b]
<1> DEFINE Bad == {c \in Block : \E x \in Chain[c] : Height[x] > Height[c]}
<1>1. Bad = {}
  <2> SUFFICES ASSUME Bad # {} PROVE FALSE
    OBVIOUS
  <2>1. PICK c \in Bad : \A d \in Bad : Height[c] <= Height[d]
    BY LowestBlock
  <2>2. PICK x \in Chain[c] : Height[x] > Height[c]
    BY <2>1
  <2>3. x # c /\ c \in Block /\ x \in Block /\ Height[x] \in Nat /\ Height[c] \in Nat
    BY <2>1, <2>2, BlockAssumption
  <2>4. /\ Parent[c] \in Block /\ x \in Chain[Parent[c]] /\ Height[Parent[c]] < Height[c]
        /\ Height[Parent[c]] \in Nat
    BY <2>2, <2>3, ParentLow, BlockAssumption
  <2> QED
    BY <2>1, <2>2, <2>3, <2>4
<1>2. \A c \in Block : \A x \in Chain[c] : x \in Block /\ Height[x] \in Nat /\ Height[x] <= Height[c]
  BY <1>1, BlockAssumption
<1>3. a # b => Height[a] < Height[b]
  BY <1>2, ParentLow, BlockAssumption
<1> QED
  BY <1>2, <1>3, BlockAssumption

\* The chain of an ancestor is part of the chain.
LEMMA ChainOfAncestor ==
  ASSUME NEW b \in Block, NEW a \in Chain[b]
  PROVE  Chain[a] \subseteq Chain[b]
<1> DEFINE Bad == {c \in Block : \E x \in Chain[c] : ~(Chain[x] \subseteq Chain[c])}
<1>1. Bad = {}
  <2> SUFFICES ASSUME Bad # {} PROVE FALSE
    OBVIOUS
  <2>1. PICK c \in Bad : \A d \in Bad : Height[c] <= Height[d]
    BY LowestBlock
  <2>2. PICK x \in Chain[c] : ~(Chain[x] \subseteq Chain[c])
    BY <2>1
  <2>3. x # c /\ c \in Block
    BY <2>1, <2>2
  <2>4. /\ Parent[c] \in Block /\ x \in Chain[Parent[c]] /\ Height[Parent[c]] < Height[c]
        /\ Chain[c] = {c} \cup Chain[Parent[c]]
        /\ Height[Parent[c]] \in Nat /\ Height[c] \in Nat
    BY <2>2, <2>3, ParentLow, BlockAssumption
  <2>5. Parent[c] \notin Bad
    BY <2>1, <2>4
  <2> QED
    BY <2>2, <2>4, <2>5
<1> QED
  BY <1>1

\* Of two blocks of a chain the one that is not higher is the other's ancestor;
\* in particular a chain has one block of a height.
LEMMA ChainOrdered ==
  ASSUME NEW t \in Block, NEW x \in Chain[t], NEW y \in Chain[t], Height[x] <= Height[y]
  PROVE  x \in Chain[y] /\ (Height[x] = Height[y] => x = y)
<1> DEFINE Bad == {c \in Block : \E v, w \in Chain[c] : Height[v] <= Height[w] /\ v \notin Chain[w]}
<1>1. Bad = {}
  <2> SUFFICES ASSUME Bad # {} PROVE FALSE
    OBVIOUS
  <2>1. PICK c \in Bad : \A d \in Bad : Height[c] <= Height[d]
    BY LowestBlock
  <2>2. PICK v \in Chain[c], w \in Chain[c] : Height[v] <= Height[w] /\ v \notin Chain[w]
    BY <2>1
  <2>3. c \in Block /\ v \in Block /\ w \in Block /\ w # c
    BY <2>1, <2>2, BlockAssumption
  <2>4. /\ Parent[c] \in Block /\ w \in Chain[Parent[c]] /\ Height[Parent[c]] < Height[c]
        /\ Height[Parent[c]] \in Nat /\ Height[c] \in Nat
    BY <2>2, <2>3, ParentLow, BlockAssumption
  <2>5. v # c
    BY <2>2, <2>3, AncestorsLow
  <2>6. v \in Chain[Parent[c]]
    BY <2>2, <2>3, <2>5, ParentLow
  <2>7. Parent[c] \notin Bad
    BY <2>1, <2>4
  <2> QED
    BY <2>2, <2>4, <2>6, <2>7
<1>2. y \in Block /\ x \in Chain[y]
  BY <1>1, BlockAssumption
<1> QED
  BY <1>2, AncestorsLow

\* A block of a chain whose parent is not the block x below it leaves a height
\* between them for its parent.
LEMMA BetweenUnlinked ==
  ASSUME NEW t \in Block, NEW x \in Chain[t], NEW y \in Chain[t],
         Height[x] < Height[y], Parent[y] # x
  PROVE  Height[x] + 2 <= Height[y]
<1>1. x \in Block /\ y \in Block /\ Height[x] \in Nat /\ Height[y] \in Nat /\ x # y
  BY AncestorsLow
<1>2. x \in Chain[y]
  BY <1>1, ChainOrdered
<1>3. Parent[y] \in Block /\ x \in Chain[Parent[y]] /\ Height[Parent[y]] < Height[y]
  BY <1>1, <1>2, ParentLow
<1>4. Height[x] < Height[Parent[y]] /\ Height[Parent[y]] \in Nat
  BY <1>3, AncestorsLow
<1> QED
  BY <1>1, <1>3, <1>4
-----------------------------------------------------------------------------
\* Everything a step can be.
LEMMA Steps ==
  ASSUME Next
  PROVE  \/ BeginAtHead \/ BeginAtTip \/ AskTip \/ FetchStart \/ FetchStartFailed
         \/ StatusError \/ StatusPanic
         \/ LeavePaused \/ LeaveAtTip \/ NextHeight
         \/ FetchFailed \/ FetchLinked \/ Extract
         \/ SaveHead \/ SaveLocalBlock \/ Announce
         \/ FetchForked \/ BackToLocal \/ BackToNode \/ BackFailed
         \/ SaveBack \/ AnnounceFork
         \/ RescanLast \/ ListRecords \/ RescanRecord \/ Unrecord \/ RescanFailed
         \/ EndTask
         \/ Resume \/ Pause \/ SetRescan \/ ScanBlock \/ ScanBlockFailed
         \/ SetRescanSave \/ ScanBlockExtract \/ ScanBlockAnnounce
         \/ Grow \/ Reorg \/ Kill \/ Boot
  BY Zenon DEF Next, ScanBlockTask, Caller, CallStep

\* The last blocks to scan again are below the current height.
LEMMA LastBlocksBelow ==
  ASSUME cur \in 0..(Modulus - 1)
  PROVE  LastBlocks \subseteq 0..(Modulus - 1)
<1>1. CASE cur >= RescanLastBlockCount
  <2>1. LastBlocks = (cur - RescanLastBlockCount)..(cur - 1)
    BY <1>1 DEF LastBlocks
  <2>2. cur \in Nat /\ RescanLastBlockCount \in Nat /\ Modulus \in Nat /\ cur <= Modulus - 1
    BY ConfigAssumption
  <2> QED
    BY <1>1, <2>1, <2>2
<1>2. CASE ~(cur >= RescanLastBlockCount)
  BY <1>2 DEF LastBlocks
<1> QED
  BY <1>1, <1>2

LEMMA TypeInit == Init => TypeOK
<1> SUFFICES ASSUME Init PROVE TypeOK
  OBVIOUS
<1>1. scanning \in BOOLEAN
  BY Zenon DEF Init
<1> QED
  BY <1>1, BlockAssumption, ConfigAssumption DEF Init, TypeOK, PC, Stopped, Call

LEMMA TypeStep == TypeOK /\ [Next]_vars => TypeOK'
<1> SUFFICES ASSUME TypeOK, [Next]_vars PROVE TypeOK'
  OBVIOUS
<1> USE BlockAssumption, ConfigAssumption DEF TypeOK, dai, memory, api, seen, origins, history
<1>1. CASE BeginAtHead
  BY <1>1 DEF BeginAtHead, Recorded, PC, Stopped, Call, Fault
<1>2. CASE BeginAtTip
  BY <1>2 DEF BeginAtTip, PC, Stopped, Call, Fault
<1>3. CASE AskTip
  BY <1>3 DEF AskTip, Minus, PC, Stopped, Call, Fault
<1>4. CASE FetchStart
  BY <1>4 DEF FetchStart, Served, Canonical, PC, Stopped, Call, Fault
<1>5. CASE FetchStartFailed
  BY <1>5 DEF FetchStartFailed, FetchError, Spend, Return, PC, Stopped, Call, Fault
<1>6. CASE StatusError
  BY <1>6, LastBlocksBelow DEF StatusError, Spend, Return, PC, Stopped, Call, Fault
<1>7. CASE StatusPanic
  BY <1>7 DEF StatusPanic, Spend, PC, Stopped, Call, Fault
<1>8. CASE LeavePaused
  BY <1>8 DEF LeavePaused, Return, PC, Stopped, Call, Fault
<1>9. CASE LeaveAtTip
  BY <1>9, LastBlocksBelow DEF LeaveAtTip, PC, Stopped, Call, Fault
<1>10. CASE NextHeight
  BY <1>10 DEF NextHeight, PC, Stopped, Call, Fault
<1>11. CASE FetchFailed
  BY <1>11 DEF FetchFailed, FetchError, Spend, SaveUnscanRecord, Without, Record, PC, Stopped, Call, Fault
<1>12. CASE FetchLinked
  BY <1>12 DEF FetchLinked, Served, Canonical, PC, Stopped, Call, Fault
<1>13. CASE Extract
  BY <1>13 DEF Extract, BatchExtract, SaveUnscanRecord, Without, Record, Spend, PC, Stopped, Call, Fault
<1>14. CASE SaveHead
  BY <1>14 DEF SaveHead, PC, Stopped, Call, Fault
<1>15. CASE SaveLocalBlock
  BY <1>15 DEF SaveLocalBlock, SaveLocal, PC, Stopped, Call, Fault
<1>16. CASE Announce
  BY <1>16 DEF Announce, PC, Stopped, Call, Fault
<1>17. CASE FetchForked
  BY <1>17 DEF FetchForked, ForkHeader, LocalAt, Without, StepBack, Minus, PC, Stopped, Call, Fault
<1>18. CASE BackToLocal
  BY <1>18 DEF BackToLocal, LocalAt, PC, Stopped, Call, Fault
<1>19. CASE BackToNode
  BY <1>19 DEF BackToNode, Served, Canonical, PC, Stopped, Call, Fault
<1>20. CASE BackFailed
  BY <1>20, LastBlocksBelow DEF BackFailed, FetchError, Spend, PC, Stopped, Call, Fault
<1>21. CASE SaveBack
  BY <1>21 DEF SaveBack, SaveLocal, PC, Stopped, Call, Fault
<1>22. CASE AnnounceFork
  BY <1>22 DEF AnnounceFork, PC, Stopped, Call, Fault
<1>23. CASE RescanLast
  BY <1>23 DEF RescanLast, BatchExtract, FetchError, Spend, SaveUnscanRecord, Without, Record, Served, Canonical, PC, Stopped, Call, Fault
<1>24. CASE ListRecords
  BY <1>24 DEF ListRecords, UnscanHeights, PC, Stopped, Call, Fault
<1>25. CASE RescanRecord
  BY <1>25 DEF RescanRecord, BatchExtract, Spend, SaveUnscanRecord, Without, Record, Served, Canonical, PC, Stopped, Call, Fault
<1>26. CASE Unrecord
  BY <1>26 DEF Unrecord, Without, PC, Stopped, Call, Fault
<1>27. CASE RescanFailed
  BY <1>27 DEF RescanFailed, FetchError, Spend, PC, Stopped, Call, Fault
<1>28. CASE EndTask
  BY <1>28 DEF EndTask, Return, PC, Stopped, Call, Fault
<1>29. CASE Resume
  BY <1>29 DEF Resume, PC, Stopped, Call, Fault
<1>30. CASE Pause
  <2>1. scanning' \in BOOLEAN
    BY <1>30, Zenon DEF Pause
  <2> QED
    BY <1>30, <2>1 DEF Pause, Spend, PC, Stopped, Call, Fault
<1>31. CASE SetRescan
  BY <1>31 DEF SetRescan, Spend, PC, Stopped, Call, Fault
<1>32. CASE ScanBlock
  BY <1>32 DEF ScanBlock, Spend, PC, Stopped, Call, Fault
<1>33. CASE ScanBlockFailed
  BY <1>33 DEF ScanBlockFailed, Spend, SaveUnscanRecord, Without, Record, PC, Stopped, Call, Fault
<1>34. CASE SetRescanSave
  BY <1>34 DEF SetRescanSave, PC, Stopped, Call, Fault
<1>35. CASE ScanBlockExtract
  BY <1>35 DEF ScanBlockExtract, BatchExtract, Spend, SaveUnscanRecord, Without, Record, PC, Stopped, Call, Fault
<1>36. CASE ScanBlockAnnounce
  BY <1>36 DEF ScanBlockAnnounce, PC, Stopped, Call, Fault
<1>37. CASE Grow
  BY <1>37 DEF Grow, PC, Stopped, Call, Fault
<1>38. CASE Reorg
  BY <1>38 DEF Reorg, Spend, PC, Stopped, Call, Fault
<1>39. CASE Kill
  BY <1>39 DEF Kill, Spend, PC, Stopped, Call, Fault
<1>40. CASE Boot
  <2>1. scanning' \in BOOLEAN
    BY <1>40, Zenon DEF Boot
  <2> QED
    BY <1>40, <2>1 DEF Boot, Return, PC, Stopped, Call, Fault
<1>41. CASE UNCHANGED vars
  BY <1>41 DEF vars
<1> QED
  BY Steps, <1>1, <1>2, <1>3, <1>4, <1>5, <1>6, <1>7, <1>8, <1>9, <1>10, <1>11, <1>12, <1>13, <1>14, <1>15, <1>16, <1>17, <1>18, <1>19, <1>20, <1>21, <1>22, <1>23, <1>24, <1>25, <1>26, <1>27, <1>28, <1>29, <1>30, <1>31, <1>32, <1>33, <1>34, <1>35, <1>36, <1>37, <1>38, <1>39, <1>40, <1>41

\* The types hold in every reachable state: the saved head and the headers are
\* blocks, one header a height, and no height ever leaves uint64.
THEOREM TypeCorrect == Spec => []TypeOK
  BY TypeInit, TypeStep, PTL DEF Spec
-----------------------------------------------------------------------------
(* The saved head is vouched for *)

LEMMA HistoryGrows ==
  ASSUME TypeOK, [Next]_vars
  PROVE  attempted \subseteq attempted' /\ starts \subseteq starts' /\ landings \subseteq landings'
<1> USE DEF dai, memory, api, seen, origins, history
<1>1. CASE \/ BeginAtHead \/ FetchStart \/ FetchLinked \/ Extract \/ SaveHead
           \/ SaveLocalBlock \/ BackToLocal \/ BackToNode \/ SaveBack \/ SetRescanSave
  BY <1>1 DEF BeginAtHead, FetchStart, FetchLinked, Extract, SaveHead, SaveLocalBlock, BackToLocal, BackToNode, SaveBack, SetRescanSave, BatchExtract
<1>2. CASE \/ BeginAtTip \/ AskTip \/ FetchStartFailed \/ StatusError
           \/ StatusPanic \/ LeavePaused \/ LeaveAtTip \/ NextHeight \/ FetchFailed
           \/ Announce \/ FetchForked \/ BackFailed \/ AnnounceFork \/ RescanLast
           \/ ListRecords
  BY <1>2 DEF BeginAtTip, AskTip, FetchStartFailed, StatusError, StatusPanic, LeavePaused, LeaveAtTip, NextHeight, FetchFailed, Announce, FetchForked, BackFailed, AnnounceFork, RescanLast, ListRecords, BatchExtract
<1>3. CASE \/ RescanRecord \/ Unrecord \/ RescanFailed \/ EndTask \/ Resume
           \/ Pause \/ SetRescan \/ ScanBlock \/ ScanBlockFailed
           \/ ScanBlockExtract \/ ScanBlockAnnounce \/ Grow \/ Reorg \/ Kill
           \/ Boot
  BY <1>3 DEF RescanRecord, Unrecord, RescanFailed, EndTask, Resume, Pause, SetRescan, ScanBlock, ScanBlockFailed, ScanBlockExtract, ScanBlockAnnounce, Grow, Reorg, Kill, Boot, BatchExtract
<1>4. CASE UNCHANGED vars
  BY <1>4 DEF vars
<1> QED
  BY Steps, <1>1, <1>2, <1>3, <1>4

\* What is vouched for stays vouched for.
LEMMA VouchedStays ==
  ASSUME TypeOK, [Next]_vars, NEW b, Vouched(b)
  PROVE  Vouched(b)'
  BY HistoryGrows DEF Vouched, Origins

\* A step that saves no header, and picks none to save, keeps the invariant.
LEMMA QuietStep ==
  ASSUME TypeOK, AdoptableVouched, [Next]_vars,
         UNCHANGED <<head, local>>,
         \/ UNCHANGED <<pc, curHash, blk>>
         \/ /\ curHash' \in {curHash, NoBlock}
            /\ pc' \notin {"extract", "saveHead", "saveLocal", "saveBack"}
  PROVE  AdoptableVouched'
<1>1. HeadVouched'
  BY VouchedStays DEF AdoptableVouched, HeadVouched
<1>2. (\A b \in local : Vouched(b))'
  BY VouchedStays DEF AdoptableVouched
<1>3. (curHash # NoBlock => Vouched(curHash))'
  BY VouchedStays DEF AdoptableVouched
<1>4. (pc = "extract" => Linked(blk))'
  BY DEF AdoptableVouched, Linked
<1>5. (pc \in {"saveHead", "saveLocal", "saveBack"} => Vouched(blk))'
  BY VouchedStays DEF AdoptableVouched
<1> QED
  BY <1>1, <1>2, <1>3, <1>4, <1>5 DEF AdoptableVouched

LEMMA VouchedStep ==
  ASSUME TypeOK, AdoptableVouched, [Next]_vars
  PROVE  AdoptableVouched'
<1> USE DEF dai, memory, api, seen, origins, history
<1>0. \A b : Vouched(b) => Vouched(b)'
  BY VouchedStays
<1>1. CASE BeginAtHead
  BY <1>0, <1>1 DEF BeginAtHead, Recorded, AdoptableVouched, HeadVouched
<1>2. CASE FetchStart
  <2>1. curHash' \in Origins'
    BY <1>2 DEF FetchStart, Origins
  <2>2. Vouched(curHash)'
    BY <2>1 DEF Vouched
  <2> QED
    BY <1>0, <1>2, <2>2 DEF FetchStart, AdoptableVouched, HeadVouched
<1>3. CASE FetchLinked
  BY <1>0, <1>3 DEF FetchLinked, Linked, AdoptableVouched, HeadVouched
<1>4. CASE Extract
  <2>1. blk \in Block /\ Linked(blk) /\ blk' = blk /\ curHash' = blk /\ blk \in attempted'
    BY <1>4 DEF Extract, BatchExtract, AdoptableVouched, TypeOK
  <2>2. Chain[blk] = {blk} \cup IF curHash = NoBlock THEN {} ELSE Chain[curHash]
    BY <2>1, BlockAssumption DEF Linked
  <2>3. Vouched(blk)'
    <3> SUFFICES ASSUME NEW a \in Chain[blk]
                 PROVE  a \in attempted' \/ \E s \in Origins' : a \in Chain[s]
      BY <2>1 DEF Vouched
    <3>1. CASE a = blk
      BY <2>1, <3>1
    <3>2. CASE curHash # NoBlock /\ a \in Chain[curHash]
      <4>1. \A c \in Chain[curHash] : c \in attempted \/ \E s \in Origins : c \in Chain[s]
        BY <3>2 DEF AdoptableVouched, Vouched
      <4> QED
        BY <3>2, <4>1, HistoryGrows DEF Origins
    <3> QED
      BY <2>2, <3>1, <3>2
  <2> QED
    BY <1>0, <1>4, <2>1, <2>3 DEF Extract, AdoptableVouched, HeadVouched
<1>5. CASE SaveHead \/ SaveLocalBlock \/ SaveBack
  <2>1. Vouched(blk)' /\ blk' = blk
    <3>1. Vouched(blk)
      BY <1>5 DEF SaveHead, SaveLocalBlock, SaveBack, AdoptableVouched
    <3> QED
      BY <1>5, <3>1, VouchedStays DEF SaveHead, SaveLocalBlock, SaveBack
  <2> QED
    BY <1>0, <1>5, <2>1 DEF SaveHead, SaveLocalBlock, SaveBack, SaveLocal,
                            AdoptableVouched, HeadVouched
<1>6. CASE BackToLocal
  BY <1>0, <1>6 DEF BackToLocal, LocalAt, AdoptableVouched, HeadVouched
<1>7. CASE BackToNode
  <2>1. PICK b \in Served(cur) : /\ curHash' = b /\ head' = b /\ blk' = b
                                 /\ landings' = landings \cup {b}
    BY <1>7 DEF BackToNode
  <2>2. Vouched(b)'
    BY <2>1 DEF Vouched, Origins
  <2> QED
    BY <1>0, <1>7, <2>1, <2>2 DEF BackToNode, AdoptableVouched, HeadVouched
<1>8. CASE SetRescanSave
  <2>1. head' = arg /\ Vouched(head)'
    BY <1>8 DEF SetRescanSave, Vouched, Origins
  <2>2. pc' = pc /\ curHash' = curHash /\ blk' = blk /\ local' = local
    BY <1>8 DEF SetRescanSave
  <2>3. (pc \in {"saveHead", "saveLocal", "saveBack"} => Vouched(blk))'
    BY <2>2, VouchedStays DEF AdoptableVouched
  <2>4. (pc = "extract" => Linked(blk))'
    BY <2>2 DEF AdoptableVouched, Linked
  <2> QED
    BY <1>0, <2>1, <2>2, <2>3, <2>4 DEF AdoptableVouched, HeadVouched
<1>9. CASE \/ BeginAtTip \/ AskTip \/ FetchStartFailed \/ StatusError
           \/ StatusPanic \/ LeavePaused \/ LeaveAtTip \/ NextHeight \/ FetchFailed
           \/ Announce
  BY QuietStep, <1>9 DEF BeginAtTip, AskTip, FetchStartFailed, StatusError,
                         StatusPanic, LeavePaused, LeaveAtTip, NextHeight,
                         FetchFailed, Announce, Return
<1>10. CASE \/ FetchForked \/ BackFailed \/ AnnounceFork \/ RescanLast
            \/ ListRecords \/ RescanRecord \/ Unrecord \/ RescanFailed \/ EndTask
            \/ Resume
  BY QuietStep, <1>10 DEF FetchForked, BackFailed, AnnounceFork, RescanLast,
                          ListRecords, RescanRecord, Unrecord, RescanFailed,
                          EndTask, Resume, Return
<1>11. CASE \/ Pause \/ SetRescan \/ ScanBlock \/ ScanBlockFailed
            \/ ScanBlockExtract \/ ScanBlockAnnounce \/ Grow \/ Reorg \/ Kill
            \/ Boot
  BY QuietStep, <1>11 DEF Pause, SetRescan, ScanBlock, ScanBlockFailed,
                          ScanBlockExtract, ScanBlockAnnounce, Grow, Reorg, Kill,
                          Boot, Return
<1>12. CASE UNCHANGED vars
  BY QuietStep, <1>12 DEF vars
<1> QED
  BY Steps, <1>1, <1>2, <1>3, <1>4, <1>5, <1>6, <1>7, <1>8, <1>9, <1>10, <1>11, <1>12

LEMMA VouchedInit == Init => AdoptableVouched
  BY DEF Init, AdoptableVouched, HeadVouched

\* Every header the task may adopt - the saved head, the saved headers a fork
\* falls back to, the block being saved - is vouched for in every reachable
\* state of every block tree, whatever fails and whoever calls.
THEOREM AdoptableAlwaysVouched == Spec => []AdoptableVouched
<1>1. Init => TypeOK /\ AdoptableVouched
  BY TypeInit, VouchedInit
<1>2. (TypeOK /\ AdoptableVouched) /\ [Next]_vars => (TypeOK /\ AdoptableVouched)'
  BY TypeStep, VouchedStep
<1> QED
  BY <1>1, <1>2, PTL DEF Spec

\* The saved head never runs ahead of extraction.
THEOREM HeadAlwaysVouched == Spec => []HeadVouched
<1>1. AdoptableVouched => HeadVouched
  BY DEF AdoptableVouched
<1> QED
  BY <1>1, AdoptableAlwaysVouched, PTL
=============================================================================
