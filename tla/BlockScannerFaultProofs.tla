----------------------- MODULE BlockScannerFaultProofs -----------------------
(***************************************************************************)
(* What failed fetches, refusals, crashes and callers do while the node    *)
(* keeps its fork: they lose no block (FailuresLoseNothing), for every tree*)
(* of blocks, the heights it skips included, if the cleanup after a rescan *)
(* finds nothing to delete.  And what observers and the                    *)
(* saved headers hold: blocks of the head's chain (AnnouncedOnChain,       *)
(* LocalOnChain), through reorganisations too when nothing fails.          *)
(***************************************************************************)
EXTENDS BlockScannerForkProofs

\* Everything the adapter knows is on the node's chain.
OnNode ==
  ({head, curHash, blk, arg} \ {NoBlock}) \cup local \cup announced \subseteq Chain[tip]

Retried(h)      == Record(h, "retry") \in unscan
StartedAbove(b) == \E s \in starts : Height[b] <= Height[s]

\* Block b was extracted, will be, or was not asked for.
Covered(b) == b \in attempted \/ Retried(Height[b]) \/ StartedAbove(b)

Following == {"loop", "fetch", "extract", "saveHead", "saveLocal", "announce",
              "back", "saveBack", "announceFork"}

\* The task stands at its last block, and every height it passed since is
\* recorded to be scanned again.
Trail ==
  /\ pc \in Following => curHash \in Block
  /\ pc \in {"loop", "back"} =>
       Height[curHash] <= cur /\ \A h \in (Height[curHash] + 1)..cur : Retried(h)
  /\ pc = "fetch" =>
       Height[curHash] < cur /\ \A h \in (Height[curHash] + 1)..(cur - 1) : Retried(h)
  /\ pc = "extract" => Height[blk] = cur /\ Height[curHash] < cur
  /\ pc \in {"saveHead", "saveLocal", "announce", "saveBack", "announceFork"} =>
       curHash = blk /\ cur = Height[blk]
  /\ pc = "unrecord" => blk \in attempted

\* The saved head is not ahead of the task, unless a caller set it.
SetByCall == ~None({"call"}) /\ StartedAbove(head)

HeadBehind ==
  head # NoBlock =>
    /\ pc \in {"askTip", "fetchStart"} => SetByCall
    /\ pc \in Following => Height[head] <= Height[curHash] \/ SetByCall

AllCovered == \A b \in {head, curHash} \ {NoBlock} : \A a \in Chain[b] : Covered(a)

\* The cleanup after a rescan deletes none of the records.
NoneDeleted == "noInfo" \notin Reason

FailureInv ==
  /\ None({"reorg"}) /\ (None({"call"}) \/ NoneDeleted) => OnNode /\ Trail /\ HeadBehind
  /\ None({"reorg"}) /\ NoneDeleted => AllCovered
-----------------------------------------------------------------------------
\* While the node does not reorganise its chain only grows.
LEMMA ChainGrows ==
  ASSUME TypeOK, [Next]_vars, ~Reorg
  PROVE  Chain[tip] \subseteq Chain[tip']
<1>1. CASE Grow
  <2>1. tip \in Block /\ tip' \in Block /\ Parent[tip'] = tip /\ tip # NoBlock
    BY <1>1, BlockAssumption DEF Grow, TypeOK
  <2> QED
    BY <2>1, BlockAssumption
<1> QED
  BY <1>1, TipMoves

LEMMA OnNodeStep ==
  ASSUME TypeOK, [Next]_vars, ~Reorg, OnNode
  PROVE  OnNode'
<1> DEFINE Known == ({head, curHash, blk, arg} \ {NoBlock}) \cup local \cup announced
<1> USE DEF dai, memory, api, seen, origins, history
<1>1. CASE \/ BeginAtHead \/ BeginAtTip \/ AskTip \/ FetchStart \/ FetchStartFailed
           \/ StatusError \/ StatusPanic \/ LeavePaused \/ LeaveAtTip \/ NextHeight
           \/ FetchFailed \/ FetchLinked
  <2>1. Known' \subseteq Known \cup Chain[tip]
    BY <1>1 DEF BeginAtHead, BeginAtTip, AskTip, FetchStart, FetchStartFailed,
                StatusError, StatusPanic, LeavePaused, LeaveAtTip, NextHeight,
                FetchFailed, FetchLinked, Served, Canonical, Return
  <2> QED
    BY <2>1, ChainGrows DEF OnNode
<1>2. CASE \/ Extract \/ SaveHead \/ SaveLocalBlock \/ Announce \/ FetchForked
           \/ BackToLocal \/ BackToNode \/ BackFailed \/ SaveBack \/ AnnounceFork
  <2>1. Known' \subseteq Known \cup Chain[tip]
    BY <1>2, BlockAssumption
    DEF Extract, SaveHead, SaveLocalBlock, Announce, FetchForked,
        BackToLocal, BackToNode, BackFailed, SaveBack, AnnounceFork,
        Served, Canonical, LocalAt, SaveLocal, TypeOK
  <2> QED
    BY <2>1, ChainGrows DEF OnNode
<1>3. CASE \/ RescanLast \/ ListRecords \/ RescanRecord \/ Unrecord \/ RescanFailed
           \/ EndTask \/ Resume \/ Pause \/ SetRescan \/ ScanBlock \/ ScanBlockFailed
           \/ SetRescanSave \/ ScanBlockExtract \/ ScanBlockAnnounce \/ Grow \/ Kill
           \/ Boot
  <2>1. Known' \subseteq Known \cup Chain[tip]
    BY <1>3, BlockAssumption
    DEF RescanLast, ListRecords, RescanRecord, Unrecord, RescanFailed, EndTask,
        Resume, Pause, SetRescan, ScanBlock, ScanBlockFailed, SetRescanSave,
        ScanBlockExtract, ScanBlockAnnounce, Grow, Kill, Boot, Return,
        Served, Canonical, TypeOK
  <2> QED
    BY <2>1, ChainGrows DEF OnNode
<1>4. CASE UNCHANGED vars
  BY <1>4, ChainGrows DEF vars, OnNode
<1> QED
  BY Steps, <1>1, <1>2, <1>3, <1>4
-----------------------------------------------------------------------------
\* Two steps delete a record of a failed scan, and two may replace it by one that
\* the cleanup deletes.
LEMMA RetriedStays ==
  ASSUME [Next]_vars, NEW h, Retried(h)
  PROVE  \/ Retried(h)'
         \/ FetchForked /\ h = cur - 1
         \/ Unrecord /\ h = Height[blk]
         \/ (RescanLast \/ ScanBlockFailed) /\ ~NoneDeleted
<1> USE DEF dai, memory, api, seen, origins, history
<1>1. CASE \/ BeginAtHead \/ BeginAtTip \/ AskTip \/ FetchStart \/ FetchStartFailed
           \/ StatusError \/ StatusPanic \/ LeavePaused \/ LeaveAtTip \/ NextHeight
           \/ FetchFailed \/ FetchLinked \/ Extract
  BY <1>1 DEF BeginAtHead, BeginAtTip, AskTip, FetchStart, FetchStartFailed,
              StatusError, StatusPanic, LeavePaused, LeaveAtTip, NextHeight,
              FetchFailed, FetchLinked, Extract, BatchExtract, SaveUnscanRecord, Without,
              Record, Retried
<1>2. CASE \/ SaveHead \/ SaveLocalBlock \/ Announce \/ BackToLocal
           \/ BackToNode \/ BackFailed \/ SaveBack \/ AnnounceFork
           \/ ListRecords \/ RescanRecord \/ RescanFailed \/ EndTask
  BY <1>2 DEF SaveHead, SaveLocalBlock, Announce, BackToLocal, BackToNode,
              BackFailed, SaveBack, AnnounceFork, ListRecords, RescanRecord,
              RescanFailed, EndTask, BatchExtract, SaveUnscanRecord, Without, Retried,
              Record
<1>3. CASE FetchForked \/ Unrecord
  BY <1>3 DEF FetchForked, Unrecord, Without, Retried, Record
<1>4. CASE \/ Resume \/ Pause \/ SetRescan \/ ScanBlock \/ SetRescanSave
           \/ ScanBlockExtract \/ ScanBlockAnnounce \/ Grow \/ Reorg
           \/ Kill \/ Boot
  BY <1>4 DEF Resume, Pause, SetRescan, ScanBlock, SetRescanSave, ScanBlockExtract,
              ScanBlockAnnounce, Grow, Reorg, Kill, Boot,
              BatchExtract, SaveUnscanRecord, Without, Record, Retried
<1>5. CASE RescanLast \/ ScanBlockFailed
  BY <1>5, ConfigAssumption DEF RescanLast, ScanBlockFailed, BatchExtract,
              SaveUnscanRecord, Without, Record, Retried, NoneDeleted
<1>6. CASE UNCHANGED vars
  BY <1>6 DEF vars, Retried
<1> QED
  BY Steps, <1>1, <1>2, <1>3, <1>4, <1>5, <1>6

\* A block that does not continue the task's last one, on the same chain, comes
\* after at least one height that was passed.
LEMMA ForkAfterGap ==
  ASSUME TypeOK, Positive, OnNode, Trail, FetchForked
  PROVE  /\ curHash \in Block /\ Height[curHash] \in Nat /\ cur \in Nat
         /\ Height[curHash] > 0 /\ Height[curHash] + 2 <= cur
         /\ cur' = cur - 2
<1>1. PICK b \in Served(cur) : Parent[b] # curHash
  BY DEF FetchForked, Linked
<1>2. /\ curHash \in Chain[tip] /\ b \in Chain[tip] /\ Height[b] = cur /\ tip \in Block
      /\ curHash \in Block /\ Height[curHash] < cur /\ cur \in Nat /\ Height[curHash] \in Nat
  BY <1>1, BlockAssumption
  DEF FetchForked, Trail, Following, OnNode, Served, Canonical, TypeOK
<1>3. Height[curHash] + 2 <= cur /\ Height[curHash] > 0
  BY <1>1, <1>2, BetweenUnlinked DEF Positive
<1>4. cur' = cur - 2
  BY <1>2, <1>3 DEF FetchForked, StepBack, Minus
<1> QED
  BY <1>2, <1>3, <1>4

\* No other step of the task deletes a record it needs.
LEMMA PassedStays ==
  ASSUME [Next]_vars, pc \in Following, ~FetchForked, ScanBlockFailed => NoneDeleted,
         NEW h, Retried(h)
  PROVE  Retried(h)'
  BY RetriedStays DEF Following, Unrecord, RescanLast

LEMMA TrailStep ==
  ASSUME TypeOK, Positive, [Next]_vars, OnNode, Trail, ScanBlockFailed => NoneDeleted
  PROVE  Trail'
<1> USE DEF dai, memory, api, seen, origins, history
<1>1. CASE BeginAtHead
  BY <1>1, BlockAssumption DEF BeginAtHead, Recorded, Trail, Following, TypeOK
<1>2. CASE FetchStart
  BY <1>2, BlockAssumption DEF FetchStart, Served, Canonical, Trail, Following, TypeOK
<1>3. CASE NextHeight
  <2>1. /\ pc = "loop" /\ pc' = "fetch" /\ cur' = cur + 1 /\ curHash' = curHash
        /\ curHash \in Block /\ Height[curHash] <= cur
        /\ \A h \in (Height[curHash] + 1)..cur : Retried(h)
    BY <1>3 DEF NextHeight, Trail, Following
  <2>2. cur \in Nat /\ Height[curHash] \in Nat /\ cur' - 1 = cur
    BY <2>1, BlockAssumption DEF TypeOK
  <2>3. \A h \in (Height[curHash] + 1)..cur : Retried(h)'
    BY <1>3, <2>1, PassedStays DEF Following, NextHeight, FetchForked
  <2> QED
    BY <2>1, <2>2, <2>3 DEF Trail, Following
<1>4. CASE FetchFailed
  <2>1. /\ pc = "fetch" /\ pc' = "loop" /\ cur' = cur /\ curHash' = curHash
        /\ curHash \in Block /\ Height[curHash] < cur
        /\ \A h \in (Height[curHash] + 1)..(cur - 1) : Retried(h)
        /\ unscan' = SaveUnscanRecord(cur, "retry")
    BY <1>4 DEF FetchFailed, Trail, Following
  <2>2. cur \in Nat /\ Height[curHash] \in Nat
    BY <2>1, BlockAssumption DEF TypeOK
  <2>3. \A h \in (Height[curHash] + 1)..cur : Retried(h)'
    <3>1. \A h : Retried(h) => Retried(h)'
      BY <2>1 DEF Retried, SaveUnscanRecord, Without, Record
    <3>2. Retried(cur)'
      BY <2>1 DEF Retried, SaveUnscanRecord, Record
    <3> QED
      BY <2>1, <2>2, <3>1, <3>2
  <2> QED
    BY <2>1, <2>2, <2>3 DEF Trail, Following
<1>5. CASE FetchLinked
  BY <1>5, BlockAssumption DEF FetchLinked, Served, Canonical, Trail, Following, TypeOK
<1>6. CASE Extract
  BY <1>6 DEF Extract, Trail, Following, TypeOK
<1>7. CASE SaveHead \/ SaveLocalBlock \/ SaveBack
  BY <1>7 DEF SaveHead, SaveLocalBlock, SaveBack, Trail, Following
<1>8. CASE Announce \/ AnnounceFork
  <2>1. pc' = "loop" /\ curHash' = curHash /\ cur' = cur /\ curHash \in Block /\ cur = Height[curHash]
    BY <1>8 DEF Announce, AnnounceFork, Trail, Following
  <2>2. Height[curHash] \in Nat
    BY <2>1, BlockAssumption
  <2> QED
    BY <2>1, <2>2 DEF Trail, Following
<1>9. CASE FetchForked
  <2>1. /\ pc = "fetch" /\ pc' = "back" /\ curHash' = curHash /\ curHash \in Block
        /\ \A h \in (Height[curHash] + 1)..(cur - 1) : Retried(h)
    BY <1>9 DEF FetchForked, Trail, Following
  <2>2. /\ Height[curHash] \in Nat /\ cur \in Nat /\ Height[curHash] + 2 <= cur /\ cur' = cur - 2
    BY <1>9, ForkAfterGap
  <2>3. ASSUME NEW h \in (Height[curHash] + 1)..cur'
        PROVE  Retried(h)'
    <3>1. h \in (Height[curHash] + 1)..(cur - 1) /\ h # cur - 1
      BY <2>2
    <3>2. ~Unrecord /\ ~RescanLast
      BY <2>1 DEF Unrecord, RescanLast
    <3> QED
      BY <2>1, <3>1, <3>2, RetriedStays
  <2> QED
    BY <2>1, <2>2, <2>3 DEF Trail, Following
<1>10. CASE BackToLocal \/ BackToNode
  BY <1>10, BlockAssumption
  DEF BackToLocal, BackToNode, LocalAt, Served, Canonical, Trail, Following, TypeOK
<1>11. CASE RescanRecord
  BY <1>11 DEF RescanRecord, BatchExtract, Trail, Following
<1>12. CASE \/ BeginAtTip \/ AskTip \/ FetchStartFailed \/ StatusError \/ StatusPanic
            \/ LeavePaused \/ LeaveAtTip \/ BackFailed \/ RescanLast \/ ListRecords
            \/ Unrecord \/ RescanFailed \/ EndTask \/ Kill \/ Boot
  BY <1>12 DEF BeginAtTip, AskTip, FetchStartFailed, StatusError, StatusPanic,
               LeavePaused, LeaveAtTip, BackFailed, RescanLast, ListRecords,
               Unrecord, RescanFailed, EndTask, Kill, Boot, Stopped, Return, Trail, Following
<1>13. CASE \/ Resume \/ Pause \/ SetRescan \/ ScanBlock \/ ScanBlockFailed
            \/ SetRescanSave \/ ScanBlockExtract \/ ScanBlockAnnounce \/ Grow \/ Reorg
            \/ UNCHANGED vars
  <2>1. UNCHANGED <<pc, cur, curHash, blk>>
    BY <1>13
    DEF Resume, Pause, SetRescan, ScanBlock, ScanBlockFailed, SetRescanSave,
        ScanBlockExtract, ScanBlockAnnounce, Grow, Reorg, vars
  <2>2. ~FetchForked /\ attempted \subseteq attempted'
    BY <1>13, <2>1, HistoryGrows DEF FetchForked
  <2>3. pc \in Following => \A h : Retried(h) => Retried(h)'
    BY <2>2, PassedStays
  <2> QED
    BY <2>1, <2>2, <2>3 DEF Trail, Following
<1> QED
  BY Steps, <1>1, <1>2, <1>3, <1>4, <1>5, <1>6, <1>7, <1>8, <1>9, <1>10, <1>11, <1>12, <1>13

LEMMA HeadBehindStep ==
  ASSUME TypeOK, Positive, [Next]_vars, CallsApart, Trail, HeadBehind
  PROVE  HeadBehind'
<1> USE DEF dai, memory, api, seen, origins, history
<1>0. head' = head /\ SetByCall => SetByCall'
  BY HistoryGrows, FaultsCounted DEF SetByCall, StartedAbove, Fault
<1>1. CASE BeginAtHead
  BY <1>1, BlockAssumption DEF BeginAtHead, Recorded, HeadBehind, Following, TypeOK
<1>2. CASE BeginAtTip
  BY <1>2 DEF BeginAtTip, Recorded, HeadBehind, Following, Positive, TypeOK
<1>3. CASE AskTip \/ FetchStart
  BY <1>0, <1>3 DEF AskTip, FetchStart, HeadBehind, Following
<1>4. CASE Extract
  <2>1. /\ curHash \in Block /\ Height[curHash] < Height[blk] /\ curHash' = blk /\ blk \in Block
        /\ head' = head /\ pc' = "saveHead" /\ pc = "extract"
    BY <1>4 DEF Extract, Trail, Following, TypeOK
  <2>2. head # NoBlock => Height[head] <= Height[curHash] \/ SetByCall
    BY <2>1 DEF HeadBehind, Following
  <2> QED
    BY <1>0, <2>1, <2>2, BlockAssumption DEF HeadBehind, Following, TypeOK
<1>5. CASE SaveHead \/ BackToLocal \/ BackToNode
  <2>1. head' = curHash' /\ head' \in Block \cup {NoBlock} /\ pc' \in {"saveLocal", "saveBack"}
    BY <1>5, TypeStep DEF SaveHead, BackToLocal, BackToNode, Trail, TypeOK
  <2> QED
    BY <2>1, BlockAssumption DEF HeadBehind, Following
<1>6. CASE SetRescanSave
  <2>1. head' = arg /\ arg \in starts' /\ arg \in Block
    BY <1>6 DEF SetRescanSave, TypeOK
  <2>2. ~None({"call"})'
    BY <1>6, FaultsCounted DEF SetRescanSave, CallsApart, Fault
  <2> QED
    BY <2>1, <2>2, BlockAssumption DEF HeadBehind, SetByCall, StartedAbove
<1>7. CASE \/ FetchStartFailed \/ StatusError \/ StatusPanic \/ LeavePaused \/ LeaveAtTip
           \/ NextHeight \/ FetchFailed \/ FetchLinked \/ SaveLocalBlock \/ Announce
           \/ FetchForked \/ BackFailed \/ SaveBack \/ AnnounceFork
  BY <1>0, <1>7
  DEF FetchStartFailed, StatusError, StatusPanic, LeavePaused, LeaveAtTip, NextHeight,
      FetchFailed, FetchLinked, SaveLocalBlock, Announce, FetchForked, BackFailed,
      SaveBack, AnnounceFork, Return, HeadBehind, Following
<1>8. CASE \/ RescanLast \/ ListRecords \/ RescanRecord \/ Unrecord \/ RescanFailed
           \/ EndTask \/ Kill \/ Boot
  BY <1>8
  DEF RescanLast, ListRecords, RescanRecord, Unrecord, RescanFailed, EndTask, Kill,
      Boot, Return, Stopped, HeadBehind, Following
<1>9. CASE \/ Resume \/ Pause \/ SetRescan \/ ScanBlock \/ ScanBlockFailed
           \/ ScanBlockExtract \/ ScanBlockAnnounce \/ Grow \/ Reorg \/ UNCHANGED vars
  BY <1>0, <1>9
  DEF Resume, Pause, SetRescan, ScanBlock, ScanBlockFailed, ScanBlockExtract,
      ScanBlockAnnounce, Grow, Reorg, vars, HeadBehind
<1> QED
  BY Steps, <1>1, <1>2, <1>3, <1>4, <1>5, <1>6, <1>7, <1>8, <1>9

\* What was covered stays so, unless the record of the height below a fork went.
LEMMA CoveredStays ==
  ASSUME TypeOK, [Next]_vars, NoneDeleted, OnNode, Trail, NEW a \in Chain[tip], Covered(a),
         FetchForked => Height[a] # cur - 1
  PROVE  Covered(a)'
<1>1. attempted \subseteq attempted' /\ starts \subseteq starts'
  BY HistoryGrows
<1>2. CASE Unrecord /\ Height[a] = Height[blk]
  <2>1. blk \in attempted /\ blk \in Block /\ blk \in Chain[tip] /\ tip \in Block
    BY <1>2, BlockAssumption DEF Unrecord, Trail, OnNode, TypeOK
  <2>2. a = blk
    BY <1>2, <2>1, ChainOrdered, AncestorsLow
  <2> QED
    BY <1>1, <2>1, <2>2 DEF Covered
<1>3. Retried(Height[a]) => Retried(Height[a])' \/ (Unrecord /\ Height[a] = Height[blk])
  BY RetriedStays
<1> QED
  BY <1>1, <1>2, <1>3 DEF Covered, StartedAbove

\* ... which is above the saved head and the task's last block.
LEMMA ChainsStayCovered ==
  ASSUME TypeOK, Positive, [Next]_vars, NoneDeleted, OnNode, Trail, HeadBehind, AllCovered,
         NEW b \in {head, curHash} \ {NoBlock}
  PROVE  \A a \in Chain[b] : Covered(a)'
<1> SUFFICES ASSUME NEW a \in Chain[b] PROVE Covered(a)'
  OBVIOUS
<1>1. /\ tip \in Block /\ b \in Block /\ b \in Chain[tip] /\ a \in Chain[tip] /\ Covered(a)
      /\ Height[a] <= Height[b] /\ Height[a] \in Nat /\ Height[b] \in Nat
  BY ChainOfAncestor, AncestorsLow DEF OnNode, AllCovered, TypeOK
<1>2. CASE ~FetchForked
  BY <1>1, <1>2, CoveredStays
<1>3. CASE FetchForked
  <2>1. Height[curHash] + 2 <= cur /\ Height[curHash] \in Nat /\ cur \in Nat /\ pc \in Following
    BY <1>3, ForkAfterGap DEF FetchForked, Following
  <2>2. CASE Height[b] <= Height[curHash]
    BY <1>1, <2>1, <2>2, CoveredStays
  <2>3. CASE StartedAbove(b)
    <3>1. StartedAbove(a)
      BY <1>1, <2>3, BlockAssumption DEF StartedAbove, TypeOK
    <3> QED
      BY <3>1, HistoryGrows DEF Covered, StartedAbove
  <2> QED
    BY <2>1, <2>2, <2>3, BlockAssumption DEF HeadBehind, SetByCall
<1> QED
  BY <1>2, <1>3

LEMMA AllCoveredStep ==
  ASSUME TypeOK, AdoptableVouched, Positive, [Next]_vars, ~Reorg, NoneDeleted,
         OnNode, Trail, HeadBehind, AllCovered
  PROVE  AllCovered'
<1> USE DEF dai, memory, api, seen, origins, history
<1>0. \A b \in {head, curHash} \ {NoBlock} : \A a \in Chain[b] : Covered(a)'
  BY ChainsStayCovered
<1>1. CASE head' \in {head, curHash, NoBlock} /\ curHash' \in {head, curHash, NoBlock}
  BY <1>0, <1>1 DEF AllCovered
<1>2. CASE FetchStart \/ SetRescanSave
  <2>1. PICK s \in Block : /\ s \in starts' /\ head' \in {head, s} /\ curHash' \in {curHash, s}
    BY <1>2, BlockAssumption DEF FetchStart, SetRescanSave, Served, Canonical, TypeOK
  <2>2. \A a \in Chain[s] : Covered(a)'
    BY <2>1, AncestorsLow DEF Covered, StartedAbove
  <2> QED
    BY <1>0, <2>1, <2>2 DEF AllCovered
<1>3. CASE Extract
  <2>1. /\ blk \in Block /\ Parent[blk] = curHash /\ curHash # NoBlock /\ curHash' = blk
        /\ head' = head /\ blk \in attempted'
    BY <1>3, BlockAssumption
    DEF Extract, BatchExtract, AdoptableVouched, Linked, Trail, Following, TypeOK
  <2>2. Chain[blk] = {blk} \cup Chain[curHash]
    BY <2>1, BlockAssumption
  <2>3. \A a \in Chain[blk] : Covered(a)'
    BY <1>0, <2>1, <2>2 DEF Covered
  <2> QED
    BY <1>0, <2>1, <2>3 DEF AllCovered
<1>4. CASE SaveHead
  BY <1>1, <1>4 DEF SaveHead, Trail
<1>5. CASE BackToLocal \/ BackToNode
  <2>1. PICK b \in Chain[tip] : curHash' = b /\ head' = b /\ Height[b] = cur
    BY <1>5, BlockAssumption DEF BackToLocal, BackToNode, LocalAt, Served, Canonical, OnNode
  <2>2. /\ pc = "back" /\ curHash \in Block /\ curHash \in Chain[tip] /\ tip \in Block
        /\ Height[curHash] <= cur /\ cur \in Nat /\ Height[curHash] \in Nat
        /\ \A h \in (Height[curHash] + 1)..cur : Retried(h)
    BY <1>5, BlockAssumption DEF BackToLocal, BackToNode, Trail, Following, OnNode, TypeOK
  <2>3. ASSUME NEW a \in Chain[b]
        PROVE  Covered(a)'
    <3>1. a \in Chain[tip] /\ Height[a] \in Nat /\ Height[a] <= cur
      BY <2>1, <2>2, ChainOfAncestor, AncestorsLow
    <3>2. CASE Height[a] <= Height[curHash]
      <4>1. a \in Chain[curHash]
        BY <2>2, <3>1, <3>2, ChainOrdered
      <4> QED
        BY <1>0, <2>2, <4>1, BlockAssumption
    <3>3. CASE Height[a] > Height[curHash]
      <4>1. Retried(Height[a]) /\ ~FetchForked
        BY <2>2, <3>1, <3>3 DEF FetchForked
      <4> QED
        BY <3>1, <4>1, CoveredStays DEF Covered
    <3> QED
      BY <2>2, <3>1, <3>2, <3>3
  <2> QED
    BY <2>1, <2>3 DEF AllCovered
<1>6. CASE \/ BeginAtHead \/ BeginAtTip \/ AskTip \/ FetchStartFailed \/ StatusError
           \/ StatusPanic \/ LeavePaused \/ LeaveAtTip \/ NextHeight \/ FetchFailed
           \/ FetchLinked \/ SaveLocalBlock \/ Announce \/ FetchForked
  BY <1>1, <1>6 DEF BeginAtHead, BeginAtTip, AskTip, FetchStartFailed, StatusError,
                    StatusPanic, LeavePaused, LeaveAtTip, NextHeight, FetchFailed,
                    FetchLinked, SaveLocalBlock, Announce, FetchForked, Return
<1>7. CASE \/ BackFailed \/ SaveBack \/ AnnounceFork \/ RescanLast \/ ListRecords
           \/ RescanRecord \/ Unrecord \/ RescanFailed \/ EndTask \/ Resume \/ Pause
  BY <1>1, <1>7 DEF BackFailed, SaveBack, AnnounceFork, RescanLast, ListRecords,
                    RescanRecord, Unrecord, RescanFailed, EndTask, Resume, Pause, Return
<1>8. CASE \/ SetRescan \/ ScanBlock \/ ScanBlockFailed \/ ScanBlockExtract
           \/ ScanBlockAnnounce \/ Grow \/ Kill \/ Boot \/ UNCHANGED vars
  BY <1>1, <1>8 DEF SetRescan, ScanBlock, ScanBlockFailed, ScanBlockExtract,
                    ScanBlockAnnounce, Grow, Kill, Boot, Return, vars
<1> QED
  BY Steps, <1>2, <1>3, <1>4, <1>5, <1>6, <1>7, <1>8
-----------------------------------------------------------------------------
LEMMA FailureInit == Init => FailureInv
  BY DEF Init, FailureInv, OnNode, Trail, HeadBehind, AllCovered, Following

\* A call that fails is a call.
LEMMA FailedCalls ==
  ASSUME TypeOK, ScanBlockFailed
  PROVE  ~None({"call"})'
  BY DEF ScanBlockFailed, Spend, None, TypeOK, Fault

LEMMA FailureStep ==
  ASSUME TypeOK, AdoptableVouched, CallsApart, Positive, [Next]_vars, FailureInv
  PROVE  FailureInv'
<1>1. ASSUME None({"reorg"})', None({"call"})' \/ NoneDeleted
      PROVE  (OnNode /\ Trail /\ HeadBehind)'
  <2>1. OnNode /\ Trail /\ HeadBehind /\ ~Reorg
    BY <1>1, FaultsCounted DEF Fault, FailureInv
  <2>2. ScanBlockFailed => NoneDeleted
    BY <1>1, FailedCalls
  <2> QED
    BY <2>1, <2>2, OnNodeStep, TrailStep, HeadBehindStep
<1>2. ASSUME None({"reorg"})', NoneDeleted
      PROVE  AllCovered'
  <2>1. OnNode /\ Trail /\ HeadBehind /\ AllCovered /\ ~Reorg
    BY <1>2, FaultsCounted DEF Fault, FailureInv
  <2> QED
    BY <1>2, <2>1, AllCoveredStep
<1> QED
  BY <1>1, <1>2 DEF FailureInv, NoneDeleted

\* However often fetches fail, observers refuse, the process is killed and
\* whoever calls, no block between the first starting point and the saved head is
\* forgotten, not even for a moment, as long as the node does not reorganise:
\* each was extracted or is recorded to be scanned again.  Heights may be skipped.
\* The errors of the node do not begin with the text that RescanFailedRecord takes
\* for a transaction that is not found.
THEOREM FailuresAlwaysLoseNothing ==
  ASSUME Positive, NoneDeleted
  PROVE  Spec => []FailuresLoseNothing
<1> DEFINE Inv == TypeOK /\ AdoptableVouched /\ CallsApart /\ FailureInv
<1>1. Init => Inv
  BY TypeInit, VouchedInit, FailureInit DEF Init, CallsApart
<1>2. Inv /\ [Next]_vars => Inv'
  BY TypeStep, VouchedStep, CallsApartStep, FailureStep
<1>3. Inv => FailuresLoseNothing
  <2> SUFFICES ASSUME Inv, None({"reorg"}), head # NoBlock, NEW b \in Chain[head],
                      b \notin attempted, Height[b] \notin UnscanHeights
               PROVE  \E s \in starts : ~(Height[s] < Height[b])
    BY DEF FailuresLoseNothing, Lost
  <2>1. Covered(b) /\ b \in Block
    BY BlockAssumption DEF FailureInv, AllCovered, TypeOK
  <2>2. ~Retried(Height[b])
    BY DEF Retried, Record, UnscanHeights
  <2> QED
    BY <2>1, <2>2, BlockAssumption DEF Covered, StartedAbove, TypeOK
<1> QED
  BY <1>1, <1>2, <1>3, PTL DEF Spec
-----------------------------------------------------------------------------
(* What the header store and the observers hold: without reorganisations *)

\* The saved head never sinks, so what was announced stays on its chain.
HeadThere == pc \in {"saveLocal", "announce", "saveBack", "announceFork"} => head = curHash

AnnouncedBelow == announced # {} => head # NoBlock /\ announced \subseteq Chain[head]

RisingInv == None({"reorg", "call"}) => HeadThere /\ AnnouncedBelow

LEMMA HeadThereStep ==
  ASSUME [Next]_vars, call = "none", Trail, HeadThere
  PROVE  HeadThere'
<1> USE DEF dai, memory, api, seen, origins, history
<1>1. CASE SaveHead
  BY <1>1 DEF SaveHead, Trail, HeadThere
<1>2. CASE BackToLocal \/ BackToNode \/ SaveLocalBlock \/ SaveBack \/ Announce \/ AnnounceFork
  BY <1>2 DEF BackToLocal, BackToNode, SaveLocalBlock, SaveBack, Announce, AnnounceFork,
              HeadThere
<1>3. CASE \/ BeginAtHead \/ BeginAtTip \/ AskTip \/ FetchStart \/ FetchStartFailed
           \/ StatusError \/ StatusPanic \/ LeavePaused \/ LeaveAtTip \/ NextHeight
           \/ FetchFailed \/ FetchLinked \/ Extract \/ FetchForked \/ BackFailed
           \/ RescanLast \/ ListRecords \/ RescanRecord \/ Unrecord \/ RescanFailed
           \/ EndTask \/ Kill \/ Boot
  BY <1>3
  DEF BeginAtHead, BeginAtTip, AskTip, FetchStart, FetchStartFailed,
      StatusError, StatusPanic, LeavePaused, LeaveAtTip, NextHeight,
      FetchFailed, FetchLinked, Extract, FetchForked, BackFailed, RescanLast,
      ListRecords, RescanRecord, Unrecord, RescanFailed, EndTask, Kill, Boot,
      Return, HeadThere
<1>4. CASE \/ Resume \/ Pause \/ SetRescan \/ ScanBlock \/ ScanBlockFailed
           \/ SetRescanSave \/ ScanBlockExtract \/ ScanBlockAnnounce \/ Grow \/ Reorg
           \/ UNCHANGED vars
  BY <1>4
  DEF Resume, Pause, SetRescan, ScanBlock, ScanBlockFailed, SetRescanSave,
      ScanBlockExtract, ScanBlockAnnounce, Grow, Reorg, vars, HeadThere
<1> QED
  BY Steps, <1>1, <1>2, <1>3, <1>4

\* The steps that announce.
LEMMA AnnounceMoves ==
  ASSUME [Next]_vars
  PROVE  announced' = announced \/ Announce \/ AnnounceFork \/ ScanBlockAnnounce
<1> USE DEF dai, memory, api, seen, origins, history
<1>1. CASE \/ BeginAtHead \/ BeginAtTip \/ AskTip \/ FetchStart \/ FetchStartFailed
           \/ StatusError \/ StatusPanic \/ LeavePaused \/ LeaveAtTip \/ NextHeight
           \/ FetchFailed \/ FetchLinked \/ Extract
  BY <1>1 DEF BeginAtHead, BeginAtTip, AskTip, FetchStart, FetchStartFailed,
              StatusError, StatusPanic, LeavePaused, LeaveAtTip, NextHeight,
              FetchFailed, FetchLinked, Extract
<1>2. CASE \/ SaveHead \/ SaveLocalBlock \/ FetchForked \/ BackToLocal
           \/ BackToNode \/ BackFailed \/ SaveBack \/ RescanLast
           \/ ListRecords \/ RescanRecord \/ Unrecord \/ RescanFailed \/ EndTask
  BY <1>2 DEF SaveHead, SaveLocalBlock, FetchForked, BackToLocal, BackToNode,
              BackFailed, SaveBack, RescanLast, ListRecords, RescanRecord, Unrecord,
              RescanFailed, EndTask
<1>3. CASE \/ Resume \/ Pause \/ SetRescan \/ ScanBlock \/ ScanBlockFailed
           \/ SetRescanSave \/ ScanBlockExtract \/ Grow \/ Reorg \/ Kill \/ Boot
  BY <1>3 DEF Resume, Pause, SetRescan, ScanBlock, ScanBlockFailed, SetRescanSave,
              ScanBlockExtract, Grow, Reorg, Kill, Boot
<1>4. CASE UNCHANGED vars
  BY <1>4 DEF vars
<1> QED
  BY Steps, <1>1, <1>2, <1>3, <1>4

\* A head the task saves has the one before it on its chain.
LEMMA HeadClimbs ==
  ASSUME TypeOK, [Next]_vars, call = "none", None({"call"}), OnNode, Trail, HeadBehind,
         head # NoBlock
  PROVE  head' # NoBlock /\ Chain[head] \subseteq Chain[head']
<1>1. head \in Block /\ head \in Chain[tip] /\ tip \in Block /\ Height[head] \in Nat
  BY BlockAssumption DEF OnNode, TypeOK
<1>2. CASE SaveHead \/ BackToLocal \/ BackToNode
  <2>1. /\ head' \in Chain[tip] /\ head' # NoBlock /\ curHash \in Block
        /\ Height[curHash] <= Height[head'] /\ pc \in Following
    BY <1>2, BlockAssumption
    DEF SaveHead, BackToLocal, BackToNode, Trail, Following, OnNode, LocalAt, Served,
        Canonical, TypeOK
  <2>2. Height[head] <= Height[curHash]
    BY <2>1 DEF HeadBehind, SetByCall
  <2>3. head \in Chain[head'] /\ head' \in Block
    BY <1>1, <2>1, <2>2, ChainOrdered, AncestorsLow, BlockAssumption
  <2> QED
    BY <2>1, <2>3, ChainOfAncestor
<1>3. CASE head' = head
  BY <1>3
<1> QED
  BY <1>2, <1>3, HeadMoves DEF SetRescanSave

LEMMA AnnouncedBelowStep ==
  ASSUME TypeOK, [Next]_vars, call = "none", None({"call"}), OnNode, Trail, HeadBehind,
         HeadThere, AnnouncedBelow
  PROVE  AnnouncedBelow'
<1>1. CASE Announce
  <2>1. /\ announced' = announced \cup {head} /\ head \in Block /\ head' = head
        /\ head # NoBlock
    BY <1>1, BlockAssumption DEF Announce, HeadThere, Trail, Following, dai
  <2> QED
    BY <2>1, BlockAssumption DEF AnnouncedBelow
<1>2. CASE announced' \subseteq announced
  BY <1>2, HeadClimbs DEF AnnouncedBelow
<1> QED
  BY <1>1, <1>2, AnnounceMoves DEF AnnounceFork, ScanBlockAnnounce

LEMMA RisingStep ==
  ASSUME TypeOK, [Next]_vars, CallsApart, FailureInv, RisingInv
  PROVE  RisingInv'
<1> SUFFICES ASSUME None({"reorg", "call"})' PROVE (HeadThere /\ AnnouncedBelow)'
  BY DEF RisingInv
<1>1. None({"reorg", "call"}) /\ None({"reorg"}) /\ None({"call"})
  BY FaultsCounted DEF Fault, None
<1>2. /\ OnNode /\ Trail /\ HeadBehind /\ HeadThere /\ AnnouncedBelow /\ call = "none"
  BY <1>1 DEF FailureInv, RisingInv, CallsApart
<1> QED
  BY <1>1, <1>2, HeadThereStep, AnnouncedBelowStep
-----------------------------------------------------------------------------
(* ... and with reorganisations, but without failed fetches and crashes *)

\* Observers hold saved headers only, and none is saved before the first head.
Held == /\ head = NoBlock => local = {}
        /\ announced \subseteq local

\* The saved headers go on without a gap from the lowest to the saved head, on its
\* chain; the head's own is the last to be saved.
Top == IF pc = "saveLocal" THEN Height[head] - 1 ELSE Height[head]

LocalGapless ==
  head # NoBlock =>
    /\ \A b \in local : Height[b] <= Top => b \in Chain[head]
    /\ \A h, k \in 0..Top : h <= k /\ LocalAt(h) # {} => LocalAt(k) # {}
    /\ pc = "announce" => head \in local

\* The one block a fork abandons is the one above the header it falls back to.
Abandoned == IF pc \in {"saveBack", "announceFork"} THEN forked ELSE {}

AnnouncedHeld ==
  head # NoBlock =>
    /\ announced \subseteq Chain[head] \cup Abandoned
    /\ pc = "back" => \A a \in announced : Height[a] <= cur \/ a \in forked

Told == Held /\ LocalGapless /\ AnnouncedHeld

ToldInv == None({"fetch", "crash", "call"}) => Told

\* A child is one height above its parent.
LEMMA NextOfParent ==
  ASSUME Contiguous, NEW b \in Block, Parent[b] # NoBlock
  PROVE  /\ Height[b] = Height[Parent[b]] + 1 /\ Parent[b] \in Block
         /\ Chain[b] = {b} \cup Chain[Parent[b]]
<1>1. /\ Parent[b] \in Block /\ Height[Parent[b]] < Height[b]
      /\ Height[b] \in Nat /\ Height[Parent[b]] \in Nat
      /\ Chain[b] = {b} \cup Chain[Parent[b]]
  BY BlockAssumption
<1>2. PICK x \in Chain[b] : Height[x] = Height[b] - 1
  <2>1. Height[b] - 1 \in Height[Parent[b]]..Height[b]
    BY <1>1
  <2> QED
    BY <1>1, <2>1 DEF Contiguous, Canonical
<1>3. Height[x] <= Height[Parent[b]]
  BY <1>1, <1>2, AncestorsLow
<1> QED
  BY <1>1, <1>2, <1>3

\* A step that saves and announces nothing, outside the windows of a save.
LEMMA ToldQuiet ==
  ASSUME Told, UNCHANGED <<head, local, announced>>,
         \/ UNCHANGED <<pc, cur, forked>>
         \/ /\ pc \notin {"saveLocal", "saveBack", "announceFork"}
            /\ pc' \notin {"saveLocal", "announce", "back", "saveBack", "announceFork"}
  PROVE  Told'
  BY DEF Told, Held, LocalGapless, AnnouncedHeld, Top, Abandoned, LocalAt

LEMMA SaveHeadTold ==
  ASSUME Contiguous, TypeOK, Place, HeadPlace, Told, SaveHead
  PROVE  Told'
<1> USE DEF dai, memory, api, seen, origins, history
<1>1. /\ blk \in Block /\ head' = blk /\ local' = local /\ announced' = announced
      /\ pc = "saveHead" /\ pc' = "saveLocal" /\ blk # NoBlock /\ Height[blk] \in Nat
  BY BlockAssumption DEF SaveHead, TypeOK
<1>2. CASE head = NoBlock
  BY <1>1, <1>2 DEF Told, Held, LocalGapless, AnnouncedHeld, LocalAt
<1>3. CASE head # NoBlock
  <2>1. /\ head = Parent[blk] /\ Height[blk] = Height[head] + 1
        /\ Chain[blk] = {blk} \cup Chain[head]
    BY <1>1, <1>3, NextOfParent DEF HeadPlace
  <2>2. Top' = Height[head] /\ Top = Height[head] /\ \A h : LocalAt(h)' = LocalAt(h)
    BY <1>1, <1>3, <2>1, BlockAssumption DEF Top, LocalAt, TypeOK
  <2>3. Held'
    BY <1>1 DEF Told, Held
  <2>4. LocalGapless'
    BY <1>1, <1>3, <2>1, <2>2 DEF Told, LocalGapless
  <2>5. AnnouncedHeld'
    BY <1>1, <1>3, <2>1 DEF Told, AnnouncedHeld, Abandoned
  <2> QED
    BY <2>3, <2>4, <2>5 DEF Told
<1> QED
  BY <1>2, <1>3

LEMMA SaveLocalTold ==
  ASSUME TypeOK, Place, HeadPlace, Told, SaveLocalBlock \/ SaveBack
  PROVE  Told'
<1> USE DEF dai, memory, api, seen, origins, history
<1>1. /\ head \in Block /\ head # NoBlock /\ head = blk /\ head' = head
      /\ local' = {x \in local : Height[x] # Height[head]} \cup {head}
      /\ announced' = announced /\ forked' = forked /\ Height[head] \in Nat
  BY BlockAssumption DEF SaveLocalBlock, SaveBack, SaveLocal, Place, HeadPlace, TypeOK
<1>2. /\ \A b \in local : b \in Block /\ Height[b] \in Nat
      /\ local \subseteq Block
  BY BlockAssumption DEF TypeOK
<1>3. Top' = Height[head]
  BY <1>1 DEF SaveLocalBlock, SaveBack, Top
<1>4. \A b \in local : Height[b] < Height[head] => b \in Chain[head]
  BY <1>1, <1>2 DEF Told, LocalGapless, Top
<1>5. \A a \in announced : Height[a] = Height[head] => a = head
  <2> SUFFICES ASSUME NEW a \in announced, Height[a] = Height[head] PROVE a = head
    OBVIOUS
  <2>1. a \in local /\ (a \in Chain[head] \/ (pc = "saveBack" /\ Height[a] <= Top))
    BY <1>1 DEF SaveLocalBlock, SaveBack, Told, Held, AnnouncedHeld, Abandoned, Top
  <2>2. a \in Chain[head]
    BY <1>1, <2>1 DEF Told, LocalGapless
  <2> QED
    BY <1>1, <2>2, AncestorsLow
<1>6. Held'
  BY <1>1, <1>5 DEF Told, Held
<1>7. LocalGapless'
  <2>1. ASSUME NEW h \in 0..Height[head], NEW k \in 0..Height[head], h <= k, LocalAt(h)' # {}
        PROVE  LocalAt(k)' # {}
    <3>1. CASE k = Height[head]
      BY <1>1, <3>1 DEF LocalAt
    <3>2. CASE k # Height[head]
      <4>1. k \in 0..Top /\ h \in 0..Top /\ LocalAt(h) # {}
        BY <1>1, <3>2, <2>1 DEF LocalAt, Top
      <4>2. LocalAt(k) # {}
        BY <1>1, <2>1, <4>1 DEF Told, LocalGapless
      <4> QED
        BY <1>1, <3>2, <4>2 DEF LocalAt
    <3> QED
      BY <3>1, <3>2
  <2>2. head \in Chain[head]
    BY <1>1, BlockAssumption
  <2>3. \A b \in local' : Height[b] <= Height[head] => b \in Chain[head]
    BY <1>1, <1>2, <1>4, <2>2
  <2> QED
    BY <1>1, <1>3, <2>1, <2>3 DEF LocalGapless
<1>8. AnnouncedHeld'
  BY <1>1 DEF SaveLocalBlock, SaveBack, Told, AnnouncedHeld, Abandoned
<1> QED
  BY <1>6, <1>7, <1>8 DEF Told

LEMMA AnnounceTold ==
  ASSUME TypeOK, Place, HeadPlace, Told, Announce \/ AnnounceFork
  PROVE  Told'
<1> USE DEF dai, memory, api, seen, origins, history
<1>1. /\ head' = head /\ head \in Block /\ head # NoBlock /\ local' = local
      /\ pc' = "loop" /\ pc \in {"announce", "announceFork"}
  BY BlockAssumption DEF Announce, AnnounceFork, Place, HeadPlace, TypeOK
<1>2. Top' = Top /\ \A h : LocalAt(h)' = LocalAt(h)
  BY <1>1 DEF Top, LocalAt
<1>3. announced' \subseteq Chain[head] \cup {head} /\ announced' \subseteq local
  <2>1. CASE Announce
    BY <1>1, <2>1 DEF Announce, Place, HeadPlace, Told, Held, LocalGapless, AnnouncedHeld, Abandoned
  <2>2. CASE AnnounceFork
    BY <1>1, <2>2 DEF AnnounceFork, Told, Held, AnnouncedHeld, Abandoned
  <2> QED
    BY <2>1, <2>2
<1>4. head \in Chain[head]
  BY <1>1, BlockAssumption
<1> QED
  BY <1>1, <1>2, <1>3, <1>4 DEF Told, Held, LocalGapless, AnnouncedHeld, Abandoned

\* A fork abandons the saved head's header and keeps what is announced below it.
LEMMA ForkTold ==
  ASSUME Positive, TypeOK, Place, HeadPlace, Told, FetchForked
  PROVE  Told'
<1> USE DEF dai, memory, api, seen, origins, history
<1>1. /\ head' = head /\ local' = local /\ announced' = announced /\ pc = "fetch" /\ pc' = "back"
      /\ forked' = LocalAt(cur - 1) /\ curHash \in Block /\ cur = Height[curHash] + 1
      /\ cur' = StepBack(cur) /\ Height[curHash] \in Nat /\ Height[curHash] > 0
  BY BlockAssumption DEF FetchForked, ForkHeader, Place, Positive
<1>2. cur' >= cur - 2
  BY <1>1 DEF StepBack, Minus
<1>3. ASSUME head # NoBlock, NEW a \in announced
      PROVE  Height[a] <= cur' \/ a \in forked'
  <2>1. head = curHash /\ a \in local /\ a \in Chain[head]
    BY <1>1, <1>3 DEF HeadPlace, Told, Held, AnnouncedHeld, Abandoned
  <2>2. Height[a] \in Nat /\ Height[a] <= cur - 1
    BY <1>1, <2>1, AncestorsLow
  <2>3. CASE Height[a] = cur - 1
    BY <1>1, <2>1, <2>3 DEF LocalAt
  <2>4. CASE Height[a] < cur - 1
    <3>1. cur' \in Nat
      BY TypeOK, <1>1, <1>2, ConfigAssumption DEF StepBack, Minus, TypeOK
    <3> QED
      BY <1>1, <1>2, <2>2, <2>4, <3>1
  <2> QED
    BY <1>1, <2>2, <2>3, <2>4
<1> QED
  BY <1>1, <1>3 DEF Told, Held, LocalGapless, AnnouncedHeld, Top, Abandoned, LocalAt

LEMMA BackTold ==
  ASSUME Contiguous, TypeOK, Place, HeadPlace, Told, BackToLocal \/ BackToNode
  PROVE  Told'
<1> USE DEF dai, memory, api, seen, origins, history
<1>1. PICK b \in Block :
        /\ head' = b /\ Height[b] = cur /\ cur \in Nat
        /\ b \in local \/ LocalAt(cur) = {}
  BY BlockAssumption DEF BackToLocal, BackToNode, LocalAt, Served, Canonical, TypeOK
<1>2. /\ local' = local /\ announced' = announced /\ forked' = forked /\ pc = "back"
      /\ pc' = "saveBack" /\ curHash \in Block /\ Height[curHash] \in Nat /\ b # NoBlock
      /\ \A h : LocalAt(h)' = LocalAt(h)
  BY BlockAssumption DEF BackToLocal, BackToNode, Place, LocalAt
<1>3. CASE head = NoBlock
  BY <1>1, <1>2, <1>3 DEF Told, Held, LocalGapless, AnnouncedHeld, LocalAt
<1>4. CASE head # NoBlock
  <2>1. head = curHash /\ Height[b] <= Height[head] /\ head \in Block /\ Top = Height[head]
    BY <1>1, <1>2, <1>4, BlockAssumption, ConfigAssumption
    DEF HeadPlace, Place, Contiguous, Top
  <2>2. \A x \in local : x \in Block /\ Height[x] \in Nat
    BY BlockAssumption DEF TypeOK
  <2>3. \A x \in local : Height[x] <= cur => x \in Chain[b]
    <3> SUFFICES ASSUME NEW x \in local, Height[x] <= cur PROVE x \in Chain[b]
      OBVIOUS
    <3>1. LocalAt(Height[x]) # {} /\ Height[x] \in 0..Top /\ cur \in 0..Top
      BY <1>1, <1>2, <2>1, <2>2 DEF LocalAt
    <3>2. LocalAt(cur) # {}
      BY <1>4, <3>1 DEF Told, LocalGapless
    <3>3. b \in Chain[head] /\ x \in Chain[head]
      BY <1>1, <1>2, <1>4, <2>1, <2>2, <3>2 DEF Told, LocalGapless
    <3> QED
      BY <1>1, <2>1, <3>3, ChainOrdered
  <2>4. Held'
    BY <1>1, <1>2 DEF Told, Held
  <2>5. LocalGapless'
    <3>1. Top' = cur /\ 0..cur \subseteq 0..Top
      BY <1>1, <1>2, <2>1 DEF Top
    <3> QED
      BY <1>1, <1>2, <1>4, <2>3, <3>1 DEF Told, LocalGapless
  <2>6. AnnouncedHeld'
    BY <1>1, <1>2, <1>4, <2>3 DEF Told, Held, AnnouncedHeld, Abandoned
  <2> QED
    BY <2>4, <2>5, <2>6 DEF Told
<1> QED
  BY <1>3, <1>4

LEMMA ToldStep ==
  ASSUME Contiguous, Positive, TypeOK, [Next]_vars, RiseInv, ToldInv
  PROVE  ToldInv'
<1> SUFFICES ASSUME None({"fetch", "crash", "call"})' PROVE Told'
  BY DEF ToldInv
<1> USE DEF dai, memory, api, seen, origins, history
<1>0. Place /\ HeadPlace /\ Told /\ call = "none" /\ ~Kill
  <2>1. None({"fetch", "crash", "call"}) /\ ~Kill
    BY FaultsCounted DEF Fault
  <2>2. None({"fetch"}) /\ None({"call"})
    BY <2>1 DEF None
  <2> QED
    BY <2>1, <2>2 DEF RiseInv, PlaceInv, CallsApart, TaskAlone, ToldInv
<1>1. CASE SaveHead \/ SaveLocalBlock \/ SaveBack
  BY <1>0, <1>1, SaveHeadTold, SaveLocalTold
<1>2. CASE Announce \/ AnnounceFork
  BY <1>0, <1>2, AnnounceTold
<1>3. CASE FetchForked \/ BackToLocal \/ BackToNode
  BY <1>0, <1>3, ForkTold, BackTold
<1>4. CASE \/ BeginAtHead \/ BeginAtTip \/ AskTip \/ FetchStart \/ FetchStartFailed
           \/ StatusError \/ StatusPanic \/ LeavePaused \/ LeaveAtTip \/ NextHeight
           \/ FetchFailed \/ FetchLinked \/ Extract
  BY <1>0, <1>4, ToldQuiet
  DEF BeginAtHead, BeginAtTip, AskTip, FetchStart, FetchStartFailed, StatusError,
      StatusPanic, LeavePaused, LeaveAtTip, NextHeight, FetchFailed, FetchLinked,
      Extract, Return
<1>5. CASE \/ BackFailed \/ RescanLast \/ ListRecords \/ RescanRecord \/ Unrecord
           \/ RescanFailed \/ EndTask \/ Boot
  BY <1>0, <1>5, ToldQuiet
  DEF BackFailed, RescanLast, ListRecords, RescanRecord, Unrecord, RescanFailed,
      EndTask, Boot, Stopped, Return
<1>6. CASE \/ Resume \/ Pause \/ SetRescan \/ ScanBlock \/ ScanBlockFailed
           \/ SetRescanSave \/ ScanBlockExtract \/ ScanBlockAnnounce \/ Grow \/ Reorg
           \/ UNCHANGED vars
  BY <1>0, <1>6, ToldQuiet
  DEF Resume, Pause, SetRescan, ScanBlock, ScanBlockFailed, SetRescanSave,
      ScanBlockExtract, ScanBlockAnnounce, Grow, Reorg, vars
<1> QED
  BY <1>0, Steps, <1>1, <1>2, <1>3, <1>4, <1>5, <1>6
-----------------------------------------------------------------------------
HoldInv ==
  /\ TypeOK /\ AdoptableVouched /\ RiseInv
  /\ FailureInv /\ RisingInv /\ ToldInv

LEMMA HoldInit == Init => HoldInv
<1> SUFFICES ASSUME Init PROVE HoldInv
  OBVIOUS
<1>1. TypeOK /\ AdoptableVouched /\ PlaceInv /\ FailureInv
  BY TypeInit, VouchedInit, ForkInit, FailureInit DEF ForkInv
<1>2. CallsApart /\ HeadPlace /\ HeadThere /\ AnnouncedBelow
  BY DEF Init, CallsApart, HeadPlace, HeadThere, AnnouncedBelow
<1>3. Told
  BY DEF Init, Told, Held, LocalGapless, AnnouncedHeld
<1> QED
  BY <1>1, <1>2, <1>3 DEF HoldInv, RiseInv, RisingInv, ToldInv

LEMMA HoldStep ==
  ASSUME Contiguous, Positive, HoldInv, [Next]_vars
  PROVE  HoldInv'
<1>1. TypeOK' /\ AdoptableVouched' /\ PlaceInv' /\ CallsApart'
  BY TypeStep, VouchedStep, PlaceStep, CallsApartStep DEF HoldInv, RiseInv
<1>2. RiseInv'
  BY <1>1, HeadPlaceStep DEF HoldInv, RiseInv
<1>3. FailureInv' /\ RisingInv' /\ ToldInv'
  BY FailureStep, RisingStep, ToldStep DEF HoldInv, RiseInv
<1> QED
  BY <1>1, <1>2, <1>3 DEF HoldInv

\* Whether the node reorganises or fetches fail and the process dies, but not both,
\* the observers hold blocks of the saved head's chain only, outside the windows
\* between a write and its notification, as long as no height is skipped and the
\* task alone announces.
THEOREM AnnouncedAlwaysOnChain ==
  ASSUME Contiguous, Positive
  PROVE  Spec => []AnnouncedOnChain
<1>1. HoldInv => AnnouncedOnChain
  <2> SUFFICES ASSUME HoldInv, Settled, Apart, None({"call"}), head # NoBlock
               PROVE  announced \subseteq Chain[head]
    BY DEF AnnouncedOnChain
  <2>1. CASE None({"reorg"})
    BY <2>1 DEF HoldInv, RisingInv, AnnouncedBelow, None
  <2>2. CASE None({"fetch", "crash"})
    BY <2>2 DEF HoldInv, ToldInv, Told, AnnouncedHeld, Abandoned, Settled, None
  <2> QED
    BY <2>1, <2>2 DEF Apart
<1> QED
  BY <1>1, HoldInit, HoldStep, PTL DEF Spec

\* Under the same conditions the saved headers up to the saved head, to which a
\* fork falls back, are blocks of its chain.
THEOREM LocalAlwaysOnChain ==
  ASSUME Contiguous, Positive
  PROVE  Spec => []LocalOnChain
<1>1. HoldInv => LocalOnChain
  <2> SUFFICES ASSUME HoldInv, Settled, Apart, None({"call"}), head # NoBlock,
                      NEW b \in local, Height[b] <= Height[head]
               PROVE  b \in Chain[head]
    BY DEF LocalOnChain
  <2>1. CASE None({"reorg"})
    <3>1. tip \in Block /\ head \in Chain[tip] /\ b \in Chain[tip]
      BY <2>1 DEF HoldInv, FailureInv, OnNode, TypeOK
    <3> QED
      BY <3>1, ChainOrdered
  <2>2. CASE None({"fetch", "crash"})
    BY <2>2 DEF HoldInv, ToldInv, Told, LocalGapless, Top, Settled, None
  <2> QED
    BY <2>1, <2>2 DEF Apart
<1> QED
  BY <1>1, HoldInit, HoldStep, PTL DEF Spec
=============================================================================
