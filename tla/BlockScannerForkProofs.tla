----------------------- MODULE BlockScannerForkProofs -----------------------
(***************************************************************************)
(* What forks do, for every tree of blocks that skips no height and any    *)
(* number of reorganisations of any depth at any moment: they lose no block*)
(* (ForksLoseNothing), and the saved head rises by links (HeadRisesByLink).*)
(***************************************************************************)
EXTENDS BlockScannerProofs

\* No fork skips a height, and heights stay below the last of uint64.
Contiguous ==
  /\ \A b, t \in Block : \A h \in Height[b]..Height[t] : Canonical(t, h) # {}
  /\ \A b \in Block : Height[b] < Modulus - 1

\* No block has height 0, which the adapter takes for "no record" and below which
\* a fork falls back to 1.
Positive == \A b \in Block : Height[b] > 0

\* A height is kept when a fork that falls back to it finds a saved header there,
\* or a starting point at or above it, below which nothing is to be extracted.
Kept(h) == (\E s \in starts : h <= Height[s]) \/ LocalAt(h) # {}

\* ... or when its header is just being saved.
Pending(h) == pc \in {"saveHead", "saveLocal"} /\ h = Height[blk]

KeptBelow(b) == \A h \in 0..Height[b] : Kept(h) \/ Pending(h)

\* The task is where its last block is: a fork never falls back to a height above.
Place ==
  /\ pc \in {"loop", "fetch", "extract", "saveHead", "saveLocal", "announce",
             "back", "saveBack", "announceFork"} => curHash \in Block
  /\ pc \in {"loop", "announce", "announceFork"} => cur = Height[curHash]
  /\ pc = "fetch" => cur = Height[curHash] + 1 /\ cur <= Height[tip]
  /\ pc = "extract" => cur = Height[curHash] + 1 /\ Height[blk] = cur
  /\ pc \in {"saveHead", "saveLocal", "announce", "saveBack"} =>
       curHash = blk /\ cur = Height[blk]
  /\ pc = "back" => cur <= Height[curHash] \/ cur = Modulus - 1

LandingsLow == \A l \in landings : \E s \in starts : Height[l] <= Height[s]

HeadsKept ==
  /\ head # NoBlock => KeptBelow(head)
  /\ curHash # NoBlock => KeptBelow(curHash)

PlaceInv == None({"fetch"}) => Place

ForkInv == PlaceInv /\ (None({"fetch", "crash"}) => HeadsKept /\ LandingsLow)
-----------------------------------------------------------------------------
\* Faults are counted, never forgotten.
LEMMA FaultsCounted ==
  ASSUME TypeOK, [Next]_vars, NEW fs \in SUBSET Fault, None(fs)'
  PROVE  /\ None(fs)
         /\ "crash" \in fs => ~Kill
         /\ "reorg" \in fs => ~Reorg
         /\ "call" \in fs => ~SetRescan /\ ~ScanBlock
         /\ "fetch" \in fs => \A h : FetchError(h) => Served(h) = {}
<1> USE DEF Fault, dai, memory, api, seen, origins, history
<1>1. spent \in [Fault -> Nat] /\ \A f \in fs : spent'[f] = 0
  BY DEF TypeOK, None
<1>2. \A f \in Fault : Spend(f) => f \notin fs /\ None(fs)
  BY <1>1 DEF Spend, None
<1>3. \A h : FetchError(h) => (Served(h) = {} /\ spent' = spent) \/ Spend("fetch")
  BY DEF FetchError
<1>4. /\ "crash" \in fs => ~Kill
      /\ "reorg" \in fs => ~Reorg
      /\ "call" \in fs => ~SetRescan /\ ~ScanBlock
  BY <1>2 DEF Kill, Reorg, SetRescan, ScanBlock
<1>5. spent' = spent \/ \E f \in Fault : Spend(f)
  <2>1. CASE \/ BeginAtHead \/ BeginAtTip \/ AskTip \/ FetchStart \/ FetchStartFailed
             \/ StatusError \/ StatusPanic \/ LeavePaused \/ LeaveAtTip \/ NextHeight
             \/ FetchFailed \/ FetchLinked \/ Extract
    BY <1>3, <2>1 DEF BeginAtHead, BeginAtTip, AskTip, FetchStart, FetchStartFailed,
                      StatusError, StatusPanic, LeavePaused, LeaveAtTip, NextHeight,
                      FetchFailed, FetchLinked, Extract, BatchExtract
  <2>2. CASE \/ SaveHead \/ SaveLocalBlock \/ Announce \/ FetchForked \/ BackToLocal
             \/ BackToNode \/ BackFailed \/ SaveBack \/ AnnounceFork \/ RescanLast
             \/ ListRecords \/ RescanRecord \/ Unrecord \/ RescanFailed \/ EndTask
    BY <1>3, <2>2 DEF SaveHead, SaveLocalBlock, Announce, FetchForked, BackToLocal,
                      BackToNode, BackFailed, SaveBack, AnnounceFork, RescanLast,
                      ListRecords, RescanRecord, Unrecord, RescanFailed, EndTask,
                      BatchExtract
  <2>3. CASE \/ Resume \/ Pause \/ SetRescan \/ ScanBlock \/ ScanBlockFailed
             \/ SetRescanSave \/ ScanBlockExtract \/ ScanBlockAnnounce \/ Grow \/ Reorg
             \/ Kill \/ Boot
    BY <2>3 DEF Resume, Pause, SetRescan, ScanBlock, ScanBlockFailed, SetRescanSave,
                ScanBlockExtract, ScanBlockAnnounce, Grow, Reorg, Kill, Boot, BatchExtract
  <2>4. CASE UNCHANGED vars
    BY <2>4 DEF vars
  <2> QED
    BY Steps, <2>1, <2>2, <2>3, <2>4
<1>6. None(fs)
  BY <1>1, <1>2, <1>5 DEF None
<1> QED
  BY <1>2, <1>3, <1>4, <1>6

\* Only the node moves its tip.
LEMMA TipMoves ==
  ASSUME [Next]_vars
  PROVE  tip' = tip \/ Grow \/ Reorg
<1> USE DEF dai, memory, api, seen, origins, history
<1>1. CASE \/ BeginAtHead \/ BeginAtTip \/ AskTip \/ FetchStart \/ FetchStartFailed
           \/ StatusError \/ StatusPanic \/ LeavePaused \/ LeaveAtTip \/ NextHeight
           \/ FetchFailed \/ FetchLinked \/ Extract
  BY <1>1 DEF BeginAtHead, BeginAtTip, AskTip, FetchStart, FetchStartFailed,
              StatusError, StatusPanic, LeavePaused, LeaveAtTip, NextHeight,
              FetchFailed, FetchLinked, Extract
<1>2. CASE \/ SaveHead \/ SaveLocalBlock \/ Announce \/ FetchForked \/ BackToLocal
           \/ BackToNode \/ BackFailed \/ SaveBack \/ AnnounceFork \/ RescanLast
           \/ ListRecords \/ RescanRecord \/ Unrecord \/ RescanFailed \/ EndTask
  BY <1>2 DEF SaveHead, SaveLocalBlock, Announce, FetchForked, BackToLocal,
              BackToNode, BackFailed, SaveBack, AnnounceFork, RescanLast,
              ListRecords, RescanRecord, Unrecord, RescanFailed, EndTask
<1>3. CASE \/ Resume \/ Pause \/ SetRescan \/ ScanBlock \/ ScanBlockFailed
           \/ SetRescanSave \/ ScanBlockExtract \/ ScanBlockAnnounce \/ Kill \/ Boot
  BY <1>3 DEF Resume, Pause, SetRescan, ScanBlock, ScanBlockFailed, SetRescanSave,
              ScanBlockExtract, ScanBlockAnnounce, Kill, Boot
<1>4. CASE UNCHANGED vars
  BY <1>4 DEF vars
<1> QED
  BY Steps, <1>1, <1>2, <1>3, <1>4

\* The node's tip never sinks.
LEMMA TipRises ==
  ASSUME TypeOK, [Next]_vars
  PROVE  Height[tip] <= Height[tip'] /\ Height[tip] \in Nat /\ Height[tip'] \in Nat
<1> USE DEF dai, memory, api, seen, origins, history
<1>1. tip \in Block /\ tip' \in Block
  BY TypeStep DEF TypeOK
<1>2. CASE Grow
  <2>1. Parent[tip'] = tip /\ Parent[tip'] # NoBlock /\ tip \in Chain[tip]
    BY <1>1, <1>2, BlockAssumption DEF Grow
  <2> QED
    BY <1>1, <2>1, BlockAssumption
<1>3. CASE Reorg
  BY <1>1, <1>3, BlockAssumption DEF Reorg
<1>4. CASE tip' = tip
  BY <1>1, <1>4, BlockAssumption
<1> QED
  BY <1>2, <1>3, <1>4, TipMoves
-----------------------------------------------------------------------------
\* Saving a header keeps a header at every height that had one.
LEMMA SaveKeeps ==
  ASSUME TypeOK, NEW b \in Block, local' = SaveLocal(b), NEW h
  PROVE  /\ LocalAt(h) # {} => LocalAt(h)' # {}
         /\ h = Height[b] => LocalAt(h)' # {}
  BY DEF SaveLocal, LocalAt, TypeOK

\* A height that is kept stays kept, and the one being saved becomes so.
LEMMA KeptStays ==
  ASSUME TypeOK, [Next]_vars, ~Kill, NEW h
  PROVE  /\ Kept(h) => Kept(h)'
         /\ Pending(h) => Kept(h)' \/ Pending(h)'
<1> USE DEF dai, memory, api, seen, origins, history
<1>0. starts \subseteq starts'
  BY HistoryGrows
<1>1. CASE SaveLocalBlock \/ SaveBack
  <2>1. /\ blk \in Block /\ local' = SaveLocal(blk)
        /\ h = Height[blk] => LocalAt(h)' # {}
    BY <1>1, SaveKeeps DEF SaveLocalBlock, SaveBack, TypeOK
  <2> QED
    BY <1>0, <2>1, SaveKeeps DEF Kept, Pending
<1>2. CASE /\ local' = local
           /\ pc \in {"saveHead", "saveLocal"} => pc' \in {"saveHead", "saveLocal"} /\ blk' = blk
  BY <1>0, <1>2 DEF Kept, Pending, LocalAt
<1>3. \/ SaveLocalBlock \/ SaveBack
      \/ /\ local' = local
         /\ pc \in {"saveHead", "saveLocal"} => pc' \in {"saveHead", "saveLocal"} /\ blk' = blk
  <2>1. CASE \/ BeginAtHead \/ BeginAtTip \/ AskTip \/ FetchStart \/ FetchStartFailed
             \/ StatusError \/ StatusPanic \/ LeavePaused \/ LeaveAtTip \/ NextHeight
             \/ FetchFailed \/ FetchLinked \/ Extract
    BY <2>1 DEF BeginAtHead, BeginAtTip, AskTip, FetchStart, FetchStartFailed,
                StatusError, StatusPanic, LeavePaused, LeaveAtTip, NextHeight,
                FetchFailed, FetchLinked, Extract
  <2>2. CASE \/ SaveHead \/ Announce \/ FetchForked \/ BackToLocal
             \/ BackToNode \/ BackFailed \/ AnnounceFork \/ RescanLast
             \/ ListRecords \/ RescanRecord \/ Unrecord \/ RescanFailed \/ EndTask
    BY <2>2 DEF SaveHead, Announce, FetchForked, BackToLocal,
                BackToNode, BackFailed, AnnounceFork, RescanLast,
                ListRecords, RescanRecord, Unrecord, RescanFailed, EndTask
  <2>3. CASE \/ Resume \/ Pause \/ SetRescan \/ ScanBlock \/ ScanBlockFailed
             \/ SetRescanSave \/ ScanBlockExtract \/ ScanBlockAnnounce \/ Grow \/ Reorg \/ Boot
    BY <2>3 DEF Resume, Pause, SetRescan, ScanBlock, ScanBlockFailed, SetRescanSave,
                ScanBlockExtract, ScanBlockAnnounce, Grow, Reorg, Boot, Stopped
  <2>4. CASE UNCHANGED vars
    BY <2>4 DEF vars
  <2> QED
    BY Steps, <2>1, <2>2, <2>3, <2>4
<1> QED
  BY <1>1, <1>2, <1>3

LEMMA KeptBelowStays ==
  ASSUME TypeOK, [Next]_vars, ~Kill, NEW b, KeptBelow(b)
  PROVE  KeptBelow(b)'
  BY KeptStays DEF KeptBelow

\* Below a starting point everything is kept, and below a kept height too.
LEMMA StartKept ==
  ASSUME TypeOK, NEW b \in Block, b \in starts
  PROVE  KeptBelow(b)
  BY BlockAssumption DEF KeptBelow, Kept

LEMMA LowerKept ==
  ASSUME NEW b \in Block, NEW c \in Block, KeptBelow(c), Height[b] <= Height[c]
  PROVE  KeptBelow(b)
  BY BlockAssumption DEF KeptBelow
-----------------------------------------------------------------------------
LEMMA LandingsLowStep ==
  ASSUME Contiguous, TypeOK, [Next]_vars, None({"fetch", "crash"})', ForkInv
  PROVE  LandingsLow'
<1> USE DEF dai, memory, api, seen, origins, history
<1>0. None({"fetch", "crash"}) /\ ~Kill /\ Place /\ HeadsKept /\ LandingsLow
  <2>1. None({"fetch", "crash"}) /\ ~Kill
    BY FaultsCounted DEF Fault
  <2> QED
    BY <2>1 DEF ForkInv, PlaceInv, None
<1>1. CASE landings' = landings
  BY <1>0, <1>1, HistoryGrows DEF LandingsLow
<1>2. CASE BackToNode
  <2>1. PICK b \in Served(cur) : landings' = landings \cup {b} /\ starts' = starts
    BY <1>2 DEF BackToNode
  <2>2. /\ curHash \in Block /\ KeptBelow(curHash) /\ LocalAt(cur) = {} /\ ~Pending(cur)
        /\ b \in Block /\ Height[b] = cur /\ cur \in Nat
        /\ cur <= Height[curHash] \/ cur = Modulus - 1
    BY <1>0, <1>2, BlockAssumption
    DEF BackToNode, Place, HeadsKept, Pending, Served, Canonical, TypeOK
  <2>3. cur <= Height[curHash]
    BY <2>2, ConfigAssumption, BlockAssumption DEF Contiguous
  <2>4. Kept(cur)
    BY <2>2, <2>3, BlockAssumption DEF KeptBelow
  <2> QED
    BY <1>0, <2>1, <2>2, <2>4 DEF LandingsLow, Kept
<1>3. landings' = landings \/ BackToNode
  <2>1. CASE \/ BeginAtHead \/ BeginAtTip \/ AskTip \/ FetchStart \/ FetchStartFailed
             \/ StatusError \/ StatusPanic \/ LeavePaused \/ LeaveAtTip \/ NextHeight
             \/ FetchFailed \/ FetchLinked \/ Extract
    BY <2>1 DEF BeginAtHead, BeginAtTip, AskTip, FetchStart, FetchStartFailed,
                StatusError, StatusPanic, LeavePaused, LeaveAtTip, NextHeight,
                FetchFailed, FetchLinked, Extract
  <2>2. CASE \/ SaveHead \/ SaveLocalBlock \/ Announce \/ FetchForked \/ BackToLocal
             \/ BackFailed \/ SaveBack \/ AnnounceFork \/ RescanLast
             \/ ListRecords \/ RescanRecord \/ Unrecord \/ RescanFailed \/ EndTask
    BY <2>2 DEF SaveHead, SaveLocalBlock, Announce, FetchForked, BackToLocal,
                BackFailed, SaveBack, AnnounceFork, RescanLast,
                ListRecords, RescanRecord, Unrecord, RescanFailed, EndTask
  <2>3. CASE \/ Resume \/ Pause \/ SetRescan \/ ScanBlock \/ ScanBlockFailed
             \/ SetRescanSave \/ ScanBlockExtract \/ ScanBlockAnnounce \/ Grow \/ Reorg
             \/ Kill \/ Boot
    BY <2>3 DEF Resume, Pause, SetRescan, ScanBlock, ScanBlockFailed, SetRescanSave,
                ScanBlockExtract, ScanBlockAnnounce, Grow, Reorg, Kill, Boot
  <2>4. CASE UNCHANGED vars
    BY <2>4 DEF vars
  <2> QED
    BY Steps, <2>1, <2>2, <2>3, <2>4
<1> QED
  BY <1>1, <1>2, <1>3

LEMMA HeadsKeptStep ==
  ASSUME Contiguous, TypeOK, [Next]_vars, None({"fetch", "crash"})', ForkInv
  PROVE  HeadsKept'
<1> USE DEF dai, memory, api, seen, origins, history
<1>0. None({"fetch", "crash"}) /\ ~Kill /\ Place /\ HeadsKept /\ LandingsLow
  <2>1. None({"fetch", "crash"}) /\ ~Kill
    BY FaultsCounted DEF Fault
  <2> QED
    BY <2>1 DEF ForkInv, PlaceInv, None
<1>1. CASE head' \in {head, curHash, NoBlock} /\ curHash' \in {curHash, head, NoBlock}
  BY <1>0, <1>1, KeptBelowStays DEF HeadsKept
<1>2. CASE FetchStart
  <2>1. TypeOK' /\ curHash' \in Block /\ curHash' \in starts' /\ head' = head
    BY <1>2, TypeStep DEF FetchStart, Served, Canonical, TypeOK
  <2>2. KeptBelow(curHash)'
    BY <2>1, BlockAssumption DEF KeptBelow, Kept, TypeOK
  <2> QED
    BY <1>0, <2>1, <2>2, KeptBelowStays DEF HeadsKept
<1>3. CASE Extract
  <2>1. /\ blk \in Block /\ curHash \in Block /\ Height[blk] = Height[curHash] + 1
        /\ KeptBelow(curHash) /\ pc' = "saveHead" /\ blk' = blk /\ curHash' = blk
        /\ head' = head
    BY <1>0, <1>3, BlockAssumption DEF Extract, Place, HeadsKept, TypeOK
  <2>2. KeptBelow(curHash)'
    <3> SUFFICES ASSUME NEW h \in 0..Height[blk] PROVE (Kept(h) \/ Pending(h))'
      BY <2>1 DEF KeptBelow
    <3>1. CASE h = Height[blk]
      BY <2>1, <3>1 DEF Pending
    <3>2. CASE h # Height[blk]
      <4>1. h \in 0..Height[curHash]
        BY <2>1, <3>2, BlockAssumption
      <4> QED
        BY <1>0, <2>1, <4>1, KeptStays DEF KeptBelow
    <3> QED
      BY <3>1, <3>2
  <2> QED
    BY <1>0, <2>1, <2>2, KeptBelowStays DEF HeadsKept
<1>4. CASE SaveHead
  <2>1. head' = curHash /\ curHash' = curHash
    BY <1>0, <1>4 DEF SaveHead, Place
  <2> QED
    BY <1>1, <2>1
<1>5. CASE BackToLocal \/ BackToNode
  <2>1. PICK b \in Block : curHash' = b /\ head' = b /\ Height[b] = cur
    BY <1>5, BlockAssumption DEF BackToLocal, BackToNode, LocalAt, Served, Canonical, TypeOK
  <2>2. curHash \in Block /\ KeptBelow(curHash) /\ (cur <= Height[curHash] \/ cur = Modulus - 1)
    BY <1>0, <1>5, BlockAssumption DEF BackToLocal, BackToNode, Place, HeadsKept
  <2>3. Height[b] <= Height[curHash]
    BY <2>1, <2>2, ConfigAssumption, BlockAssumption DEF Contiguous
  <2>4. KeptBelow(b)
    BY <2>1, <2>2, <2>3, LowerKept
  <2> QED
    BY <1>0, <2>1, <2>4, KeptBelowStays DEF HeadsKept
<1>6. CASE SetRescanSave
  <2>1. TypeOK' /\ arg \in Block /\ head' = arg /\ arg \in starts' /\ curHash' = curHash
    BY <1>6, TypeStep DEF SetRescanSave, TypeOK
  <2>2. KeptBelow(head)'
    BY <2>1, BlockAssumption DEF KeptBelow, Kept, TypeOK
  <2> QED
    BY <1>0, <2>1, <2>2, KeptBelowStays DEF HeadsKept
<1>7. CASE \/ BeginAtHead \/ BeginAtTip \/ AskTip \/ FetchStartFailed \/ StatusError
           \/ StatusPanic \/ LeavePaused \/ LeaveAtTip \/ NextHeight \/ FetchFailed
           \/ FetchLinked \/ SaveLocalBlock \/ Announce \/ FetchForked
  BY <1>1, <1>7 DEF BeginAtHead, BeginAtTip, AskTip, FetchStartFailed, StatusError,
                    StatusPanic, LeavePaused, LeaveAtTip, NextHeight, FetchFailed,
                    FetchLinked, SaveLocalBlock, Announce, FetchForked, Return
<1>8. CASE \/ BackFailed \/ SaveBack \/ AnnounceFork \/ RescanLast \/ ListRecords
           \/ RescanRecord \/ Unrecord \/ RescanFailed \/ EndTask \/ Resume \/ Pause
  BY <1>1, <1>8 DEF BackFailed, SaveBack, AnnounceFork, RescanLast, ListRecords,
                    RescanRecord, Unrecord, RescanFailed, EndTask, Resume, Pause, Return
<1>9. CASE \/ SetRescan \/ ScanBlock \/ ScanBlockFailed \/ ScanBlockExtract
           \/ ScanBlockAnnounce \/ Grow \/ Reorg \/ Boot \/ UNCHANGED vars
  BY <1>1, <1>9 DEF SetRescan, ScanBlock, ScanBlockFailed, ScanBlockExtract,
                    ScanBlockAnnounce, Grow, Reorg, Boot, Return, vars
<1> QED
  BY <1>0, Steps, <1>2, <1>3, <1>4, <1>5, <1>6, <1>7, <1>8, <1>9

\* A step of another party leaves the task where it is.
LEMMA PlaceQuiet ==
  ASSUME TypeOK, [Next]_vars, Place, UNCHANGED <<pc, cur, curHash, blk>>
  PROVE  Place'
  BY TipRises, BlockAssumption DEF Place, TypeOK

LEMMA PlaceStep ==
  ASSUME Contiguous, TypeOK, [Next]_vars, PlaceInv
  PROVE  PlaceInv'
<1> SUFFICES ASSUME None({"fetch"})' PROVE Place'
  BY DEF PlaceInv
<1> USE DEF dai, memory, api, seen, origins, history
<1>0. Place /\ \A h : FetchError(h) => Served(h) = {}
  BY FaultsCounted DEF Fault, PlaceInv
<1>1. CASE BeginAtHead
  BY <1>1, BlockAssumption DEF BeginAtHead, Recorded, Place, TypeOK
<1>2. CASE FetchStart
  BY <1>2, BlockAssumption DEF FetchStart, Served, Canonical, Place, TypeOK
<1>3. CASE NextHeight
  BY <1>0, <1>3, BlockAssumption DEF NextHeight, Place, TypeOK
<1>4. CASE FetchFailed
  <2>1. Served(cur) = {}
    BY <1>0, <1>4 DEF FetchFailed
  <2>2. curHash \in Block /\ tip \in Block /\ cur \in Height[curHash]..Height[tip]
    BY <1>0, <1>4, BlockAssumption DEF FetchFailed, Place, TypeOK
  <2> QED
    BY <2>1, <2>2 DEF Contiguous, Served
<1>5. CASE FetchLinked
  BY <1>0, <1>5, BlockAssumption DEF FetchLinked, Served, Canonical, Place, TypeOK
<1>6. CASE Extract
  BY <1>0, <1>6, BlockAssumption DEF Extract, Place, TypeOK
<1>7. CASE SaveHead \/ SaveLocalBlock \/ SaveBack
  BY <1>0, <1>7 DEF SaveHead, SaveLocalBlock, SaveBack, Place
<1>8. CASE Announce \/ AnnounceFork
  BY <1>0, <1>8 DEF Announce, AnnounceFork, Place
<1>9. CASE FetchForked
  <2>1. pc' = "back" /\ curHash' = curHash /\ curHash \in Block /\ cur = Height[curHash] + 1
    BY <1>0, <1>9 DEF FetchForked, Place
  <2>2. cur' = StepBack(cur)
    BY <1>9 DEF FetchForked
  <2>3. StepBack(cur) <= Height[curHash] \/ StepBack(cur) = Modulus - 1
    BY <2>1, BlockAssumption, ConfigAssumption DEF StepBack, Minus
  <2> QED
    BY <2>1, <2>2, <2>3 DEF Place
<1>10. CASE BackToLocal \/ BackToNode
  BY <1>10, BlockAssumption
  DEF BackToLocal, BackToNode, LocalAt, Served, Canonical, Place, TypeOK
<1>11. CASE \/ BeginAtTip \/ AskTip \/ FetchStartFailed \/ StatusError \/ StatusPanic
            \/ LeavePaused \/ LeaveAtTip \/ BackFailed \/ RescanLast \/ ListRecords
            \/ RescanRecord \/ Unrecord \/ RescanFailed \/ EndTask \/ Kill \/ Boot
  BY <1>11 DEF BeginAtTip, AskTip, FetchStartFailed, StatusError, StatusPanic,
               LeavePaused, LeaveAtTip, BackFailed, RescanLast, ListRecords,
               RescanRecord, Unrecord, RescanFailed, EndTask, Kill, Boot, Return, Place
<1>12. CASE \/ Resume \/ Pause \/ SetRescan \/ ScanBlock \/ ScanBlockFailed
            \/ SetRescanSave \/ ScanBlockExtract \/ ScanBlockAnnounce \/ Grow \/ Reorg
            \/ UNCHANGED vars
  BY <1>0, <1>12, PlaceQuiet
  DEF Resume, Pause, SetRescan, ScanBlock, ScanBlockFailed, SetRescanSave,
      ScanBlockExtract, ScanBlockAnnounce, Grow, Reorg, vars
<1> QED
  BY <1>0, Steps, <1>1, <1>2, <1>3, <1>4, <1>5, <1>6, <1>7, <1>8, <1>9, <1>10, <1>11, <1>12

LEMMA ForkInit == Init => ForkInv
  BY DEF Init, ForkInv, PlaceInv, Place, HeadsKept, LandingsLow

LEMMA ForkStep ==
  ASSUME Contiguous, TypeOK, [Next]_vars, ForkInv
  PROVE  ForkInv'
  BY PlaceStep, HeadsKeptStep, LandingsLowStep DEF ForkInv

\* What is vouched for, while every landing of a fork is at or below a starting
\* point, was extracted or is not asked for.
LEMMA NothingLost ==
  ASSUME TypeOK, AdoptableVouched, ForkInv
  PROVE  ForksLoseNothing
<1> SUFFICES ASSUME None({"fetch", "crash"}), head # NoBlock,
                    NEW b \in Chain[head], b \notin attempted
             PROVE  \E s \in starts : ~(Height[s] < Height[b])
  BY DEF ForksLoseNothing, Lost
<1>1. head \in Block /\ b \in Block /\ starts \subseteq Block /\ landings \subseteq Block
  BY BlockAssumption DEF TypeOK
<1>2. PICK s \in Origins : b \in Chain[s]
  BY DEF AdoptableVouched, HeadVouched, Vouched
<1>3. s \in Block /\ Height[b] <= Height[s]
  BY <1>1, <1>2, AncestorsLow DEF Origins
<1>4. CASE s \in starts
  BY <1>1, <1>3, <1>4, BlockAssumption
<1>5. CASE s \in landings
  <2>1. PICK t \in starts : Height[s] <= Height[t]
    BY <1>5 DEF ForkInv, LandingsLow
  <2> QED
    BY <1>1, <1>3, <2>1, BlockAssumption
<1> QED
  BY <1>2, <1>4, <1>5 DEF Origins

\* However the node reorganises, whoever calls and whatever the observers refuse,
\* no block between the first starting point and the saved head is forgotten, not
\* even for a moment, as long as no height is skipped, no fetch fails and the
\* process is not killed.
THEOREM ForksAlwaysLoseNothing ==
  ASSUME Contiguous
  PROVE  Spec => []ForksLoseNothing
<1>1. Init => TypeOK /\ AdoptableVouched /\ ForkInv
  BY TypeInit, VouchedInit, ForkInit
<1>2. (TypeOK /\ AdoptableVouched /\ ForkInv) /\ [Next]_vars
        => (TypeOK /\ AdoptableVouched /\ ForkInv)'
  BY TypeStep, VouchedStep, ForkStep
<1>3. TypeOK /\ AdoptableVouched /\ ForkInv => ForksLoseNothing
  BY NothingLost
<1> QED
  BY <1>1, <1>2, <1>3, PTL DEF Spec
-----------------------------------------------------------------------------
(* The saved head rises by links *)

\* A careful caller's call is in progress only while no task runs, and calls are
\* counted.
CallsApart ==
  /\ Careful => call = "none" \/ (pc = "idle" /\ ~scanning) \/ pc \in Stopped
  /\ None({"call"}) => call = "none"

\* No call moves the head under a running task.
TaskAlone == Careful \/ None({"call"})

\* The saved head is where the task is, or nowhere before its first block.
HeadPlace ==
  /\ pc \in {"askTip", "fetchStart"} => head = NoBlock
  /\ pc \in {"loop", "fetch", "extract", "back"} => head \in {curHash, NoBlock}
  /\ pc = "saveHead" => head \in {Parent[blk], NoBlock}
  /\ pc \in {"saveLocal", "announce", "saveBack", "announceFork"} => head = curHash

RiseInv == PlaceInv /\ CallsApart /\ (None({"fetch"}) /\ TaskAlone => HeadPlace)

LEMMA CallsApartStep ==
  ASSUME TypeOK, [Next]_vars, CallsApart
  PROVE  CallsApart'
<1> DEFINE Quiet == call = "none" \/ (pc = "idle" /\ ~scanning) \/ pc \in Stopped
<1> USE DEF dai, memory, api, seen, origins, history
<1>0. None({"call"})' => call = "none" /\ ~SetRescan /\ ~ScanBlock
  BY FaultsCounted DEF Fault, CallsApart
<1> SUFFICES /\ Careful /\ Quiet => Quiet'
             /\ call' = call \/ call' = "none" \/ call # "none" \/ SetRescan \/ ScanBlock
  BY <1>0 DEF CallsApart
<1>1. CASE \/ BeginAtHead \/ BeginAtTip \/ AskTip \/ FetchStart \/ FetchStartFailed
           \/ StatusError \/ StatusPanic \/ LeavePaused \/ LeaveAtTip \/ NextHeight
           \/ FetchFailed \/ FetchLinked \/ Extract
  BY <1>1 DEF BeginAtHead, BeginAtTip, AskTip, FetchStart, FetchStartFailed,
              StatusError, StatusPanic, LeavePaused, LeaveAtTip, NextHeight,
              FetchFailed, FetchLinked, Extract, Return, Stopped
<1>2. CASE \/ SaveHead \/ SaveLocalBlock \/ Announce \/ FetchForked \/ BackToLocal
           \/ BackToNode \/ BackFailed \/ SaveBack \/ AnnounceFork \/ RescanLast
           \/ ListRecords \/ RescanRecord \/ Unrecord \/ RescanFailed \/ EndTask
  BY <1>2 DEF SaveHead, SaveLocalBlock, Announce, FetchForked, BackToLocal,
              BackToNode, BackFailed, SaveBack, AnnounceFork, RescanLast,
              ListRecords, RescanRecord, Unrecord, RescanFailed, EndTask, Return, Stopped
<1>3. CASE \/ Resume \/ Pause \/ SetRescan \/ ScanBlock \/ ScanBlockFailed
           \/ SetRescanSave \/ ScanBlockExtract \/ ScanBlockAnnounce \/ Grow \/ Reorg
           \/ Kill \/ Boot
  BY <1>3 DEF Resume, Pause, SetRescan, ScanBlock, ScanBlockFailed, SetRescanSave,
              ScanBlockExtract, ScanBlockAnnounce, Grow, Reorg, Kill, Boot, MayCall,
              Running, Stopped
<1>4. CASE UNCHANGED vars
  BY <1>4 DEF vars
<1> QED
  BY Steps, <1>1, <1>2, <1>3, <1>4

LEMMA HeadPlaceStep ==
  ASSUME Positive, TypeOK, AdoptableVouched, [Next]_vars, RiseInv,
         (None({"fetch"}) /\ TaskAlone)'
  PROVE  HeadPlace'
<1> USE DEF dai, memory, api, seen, origins, history
<1>0. Place /\ HeadPlace /\ TaskAlone
  BY FaultsCounted DEF Fault, RiseInv, PlaceInv, TaskAlone
<1>1. CASE BeginAtHead \/ BeginAtTip
  BY <1>1 DEF BeginAtHead, BeginAtTip, Recorded, HeadPlace, Positive, TypeOK
<1>2. CASE AskTip \/ FetchStart
  BY <1>0, <1>2 DEF AskTip, FetchStart, HeadPlace
<1>3. CASE NextHeight \/ FetchFailed \/ FetchLinked \/ FetchForked
  BY <1>0, <1>3 DEF NextHeight, FetchFailed, FetchLinked, FetchForked, HeadPlace
<1>4. CASE Extract
  <2>1. Parent[blk] = curHash /\ blk' = blk /\ head' = head /\ pc = "extract" /\ pc' = "saveHead"
    BY <1>4 DEF Extract, AdoptableVouched, Linked
  <2> QED
    BY <1>0, <2>1 DEF HeadPlace
<1>5. CASE SaveHead
  BY <1>0, <1>5 DEF SaveHead, Place, HeadPlace
<1>6. CASE SaveLocalBlock \/ Announce \/ SaveBack \/ AnnounceFork
  BY <1>0, <1>6 DEF SaveLocalBlock, Announce, SaveBack, AnnounceFork, HeadPlace
<1>7. CASE BackToLocal \/ BackToNode
  BY <1>7 DEF BackToLocal, BackToNode, HeadPlace
<1>8. CASE SetRescanSave
  BY <1>0, <1>8 DEF SetRescanSave, RiseInv, CallsApart, TaskAlone, Running, HeadPlace
<1>9. CASE \/ FetchStartFailed \/ StatusError \/ StatusPanic \/ LeavePaused
           \/ LeaveAtTip \/ BackFailed \/ RescanLast \/ ListRecords \/ RescanRecord
           \/ Unrecord \/ RescanFailed \/ EndTask \/ Kill \/ Boot
  BY <1>9 DEF FetchStartFailed, StatusError, StatusPanic, LeavePaused, LeaveAtTip,
              BackFailed, RescanLast, ListRecords, RescanRecord, Unrecord,
              RescanFailed, EndTask, Kill, Boot, Return, HeadPlace
<1>10. CASE \/ Resume \/ Pause \/ SetRescan \/ ScanBlock \/ ScanBlockFailed
            \/ ScanBlockExtract \/ ScanBlockAnnounce \/ Grow \/ Reorg \/ UNCHANGED vars
  BY <1>0, <1>10 DEF Resume, Pause, SetRescan, ScanBlock, ScanBlockFailed,
                     ScanBlockExtract, ScanBlockAnnounce, Grow, Reorg, vars, HeadPlace
<1> QED
  BY Steps, <1>1, <1>2, <1>3, <1>4, <1>5, <1>6, <1>7, <1>8, <1>9, <1>10

\* The steps that move the saved head.
LEMMA HeadMoves ==
  ASSUME [Next]_vars
  PROVE  head' = head \/ SaveHead \/ BackToLocal \/ BackToNode \/ SetRescanSave
<1> USE DEF dai, memory, api, seen, origins, history
<1>1. CASE \/ BeginAtHead \/ BeginAtTip \/ AskTip \/ FetchStart \/ FetchStartFailed
           \/ StatusError \/ StatusPanic \/ LeavePaused \/ LeaveAtTip \/ NextHeight
           \/ FetchFailed \/ FetchLinked \/ Extract
  BY <1>1 DEF BeginAtHead, BeginAtTip, AskTip, FetchStart, FetchStartFailed,
              StatusError, StatusPanic, LeavePaused, LeaveAtTip, NextHeight,
              FetchFailed, FetchLinked, Extract
<1>2. CASE \/ SaveLocalBlock \/ Announce \/ FetchForked
           \/ BackFailed \/ SaveBack \/ AnnounceFork \/ RescanLast
           \/ ListRecords \/ RescanRecord \/ Unrecord \/ RescanFailed \/ EndTask
  BY <1>2 DEF SaveLocalBlock, Announce, FetchForked, BackFailed, SaveBack,
              AnnounceFork, RescanLast, ListRecords, RescanRecord, Unrecord,
              RescanFailed, EndTask
<1>3. CASE \/ Resume \/ Pause \/ SetRescan \/ ScanBlock \/ ScanBlockFailed
           \/ ScanBlockExtract \/ ScanBlockAnnounce \/ Grow \/ Reorg
           \/ Kill \/ Boot
  BY <1>3 DEF Resume, Pause, SetRescan, ScanBlock, ScanBlockFailed,
              ScanBlockExtract, ScanBlockAnnounce, Grow, Reorg, Kill, Boot
<1>4. CASE UNCHANGED vars
  BY <1>4 DEF vars
<1> QED
  BY Steps, <1>1, <1>2, <1>3, <1>4

\* The only steps that save a head above the one before it.
LEMMA RisesByLink ==
  ASSUME Contiguous, Careful, TypeOK, [Next]_vars, RiseInv, None({"fetch"}), HeadRises
  PROVE  Parent[head'] = head \/ head' \in starts'
<1> USE DEF dai, memory, api, seen, origins, history
<1>0. Place /\ HeadPlace /\ head \in Block /\ head # NoBlock /\ head' # head
  BY BlockAssumption DEF RiseInv, TaskAlone, PlaceInv, HeadRises, TypeOK
<1>1. CASE SaveHead
  BY <1>0, <1>1 DEF SaveHead, HeadPlace
<1>2. CASE BackToLocal \/ BackToNode
  <2>1. PICK b \in Block : head' = b /\ Height[b] = cur
    BY <1>2, BlockAssumption DEF BackToLocal, BackToNode, LocalAt, Served, Canonical, TypeOK
  <2>2. head = curHash /\ (cur <= Height[curHash] \/ cur = Modulus - 1)
    BY <1>0, <1>2 DEF BackToLocal, BackToNode, Place, HeadPlace
  <2> QED
    BY <1>0, <2>1, <2>2, BlockAssumption, ConfigAssumption DEF HeadRises, Contiguous
<1>3. CASE SetRescanSave
  BY <1>3 DEF SetRescanSave
<1> QED
  BY <1>0, <1>1, <1>2, <1>3, HeadMoves

\* Whatever fork the node answers from, whatever the observers refuse and wherever
\* the process dies, the saved head rises only to a child of the head before it
\* or to a starting point somebody chose, as long as no height is skipped, no
\* fetch fails and the exported methods are called on a stopped scanner.
THEOREM HeadAlwaysRisesByLink ==
  ASSUME Contiguous, Careful, Positive
  PROVE  Spec => HeadRisesByLink
<1> DEFINE Inv == TypeOK /\ AdoptableVouched /\ RiseInv
<1>1. Init => Inv
  BY TypeInit, VouchedInit, ForkInit
  DEF Init, ForkInv, RiseInv, CallsApart, HeadPlace
<1>2. Inv /\ [Next]_vars => Inv'
  BY TypeStep, VouchedStep, PlaceStep, CallsApartStep, HeadPlaceStep DEF RiseInv
<1>3. Inv /\ [Next]_vars
        => [None({"fetch"}) /\ HeadRises => Parent[head'] = head \/ head' \in starts']_vars
  BY RisesByLink
<1> QED
  BY <1>1, <1>2, <1>3, PTL DEF Spec, HeadRisesByLink
=============================================================================
