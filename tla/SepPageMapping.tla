-------------------------- MODULE SepPageMapping ---------------------------
(***************************************************************************)
(* The page-mapping FTL of src/simplessd/ftl/page_mapping.cc with hot/cold *)
(* separation on (FTL_HOT_COLD_SEPERATION = 1), grouping mode 0 and       *)
(* ioUnitInPage = 1, under both GC modes and every victim policy.          *)
(*                                                                         *)
(* The blocks are split by the constructor into a hot pool (indices below  *)
(* hotBlocksLimit) and a cold pool.  Each pool has its own free list, kept *)
(* sorted by erase count.  Three write cursors per channel are open:       *)
(*   lastHotFreeBlock   rewrites of data that sits in a HOT or COOL block  *)
(*   lastCoolFreeBlock  first writes, GC copies, refresh of non-COLD data  *)
(*   lastColdFreeBlock  refresh copies of data that sits in a COLD block   *)
(* hotWindow lists the active hot blocks in allocation order; hot GC takes *)
(* victims from its front.  coolDownWindow lists the latest COOL blocks;   *)
(* the one pushed out of it becomes COLD.  Cold GC is greedy over the full *)
(* non-HOT blocks.  Block::blockType travels with the Block object through *)
(* the free lists, so it is a per-block variable here; so does            *)
(* refreshedPageCount, which no allocator of this mode resets.             *)
(*                                                                         *)
(* As in PageMapping, each public operation is one action, a panic() stops *)
(* the simulator (`panicked`).  The refresh deadline, and the `age` ghost  *)
(* that PageMapping keeps for it, are not repeated here.                  *)
(***************************************************************************)
EXTENDS Naturals, Sequences, SequencesExt, FiniteSets, FlashBlock,
        RefreshScheduler

CONSTANTS
    TotalBlocks,        \* param.totalPhysicalBlocks
    HotBlocksLimit,     \* hotBlocksLimit = totalPhysicalBlocks * FTL_HOT_BLOCK_RATIO
    CooldownWindowSize, \* nCooldownBlocks = FTL_COOL_DOWN_WINDOW_SIZE
    PageCountToMaxPerf, \* param.pageCountToMaxPerf: cursors per kind
    LogicalPages,       \* number of host LPNs (0 .. LogicalPages - 1)
    GcThresholdPct,     \* FTL_GC_THRESHOLD_RATIO, in percent
    ReclaimBlock,       \* FTL_GC_RECLAIM_BLOCK
    BadBlockThreshold,  \* FTL_BAD_BLOCK_THRESHOLD
    InitEraseCount,     \* FTL_INITIAL_ERASE_COUNT
    MaxRefreshLayer,    \* FTL_REFRESH_MAX_LAYER_NUM
    RandomTweak,        \* FTL_USE_RANDOM_IO_TWEAK (bRandomTweak)
    GcMode,             \* FTL_GC_MODE: 0 (GC_MODE_0) or 1 (GC_MODE_1)
    ReclaimThresholdPct,\* FTL_GC_RECLAIM_THRESHOLD, in percent
    EvictPolicy,        \* FTL_GC_EVICT_POLICY, by name
    RecoParamPct,       \* FTL_GC_RECO_PARAM, in percent
    NoMapping           \* an LPN that has no entry in `table`

ASSUME PageCountToMaxPerf \in Nat \ {0}
ASSUME HotBlocksLimit \in Nat /\ HotBlocksLimit >= PageCountToMaxPerf
ASSUME TotalBlocks \in Nat /\ TotalBlocks - HotBlocksLimit >= 2 * PageCountToMaxPerf
ASSUME CooldownWindowSize \in Nat \ {0}
ASSUME GcThresholdPct \in 0 .. 100
ASSUME {ReclaimBlock, InitEraseCount, MaxRefreshLayer} \subseteq Nat
ASSUME BadBlockThreshold \in Nat /\ BadBlockThreshold > InitEraseCount
ASSUME RandomTweak \in BOOLEAN
ASSUME GcMode \in Nat /\ EvictPolicy \in STRING
ASSUME {ReclaimThresholdPct, RecoParamPct} \subseteq Nat

Blocks     == 0 .. TotalBlocks - 1
HotPool    == 0 .. HotBlocksLimit - 1
ColdPool   == HotBlocksLimit .. TotalBlocks - 1
Channels   == 0 .. PageCountToMaxPerf - 1
LPNs       == 0 .. LogicalPages - 1
LayerIDs   == Blocks \X Layers
BlockTypes == {"HOT", "COOL", "COLD"}      \* enum blockPoolType

VARIABLES
    blocks,             \* the key set of the `blocks` map: active blocks
    blockType,          \* Block::blockType of every block
    hotFreeBlocks,      \* the hot free list, head first
    coldFreeBlocks,     \* the cold free list, head first
    eraseCount,
    pageState,
    table,
    cursor,             \* [kind -> [channel -> block]]: lastHot/Cool/ColdFreeBlock
    cursorIndex,        \* [kind -> channel]: last*FreeBlockIndex
    cursorIOMap,        \* [kind -> BOOLEAN]: bit 0 of last*FreeBlockIOMap
    hotWindow,
    coolDownWindow,
    bReclaimMore,
    refreshQueues,
    checkedQueues,
    insertedLayerCheck,
    layerQueueNum,
    curQueue,
    refreshedPageCount, \* Block::refreshedPageCount of every block
    panicked

vars == <<blocks, blockType, hotFreeBlocks, coldFreeBlocks, eraseCount,
          pageState, table, cursor, cursorIndex, cursorIOMap, hotWindow,
          coolDownWindow, bReclaimMore, refreshQueues, checkedQueues,
          insertedLayerCheck, layerQueueNum, curQueue, refreshedPageCount,
          panicked>>

St == [blocks |-> blocks, blockType |-> blockType,
       hotFreeBlocks |-> hotFreeBlocks, coldFreeBlocks |-> coldFreeBlocks,
       eraseCount |-> eraseCount, pageState |-> pageState, table |-> table,
       cursor |-> cursor, cursorIndex |-> cursorIndex, cursorIOMap |-> cursorIOMap,
       hotWindow |-> hotWindow, coolDownWindow |-> coolDownWindow,
       bReclaimMore |-> bReclaimMore, refreshQueues |-> refreshQueues,
       checkedQueues |-> checkedQueues, insertedLayerCheck |-> insertedLayerCheck,
       layerQueueNum |-> layerQueueNum, curQueue |-> curQueue,
       refreshedPageCount |-> refreshedPageCount, panicked |-> panicked]

Holds(s) ==
    /\ blocks = s.blocks /\ blockType = s.blockType
    /\ hotFreeBlocks = s.hotFreeBlocks /\ coldFreeBlocks = s.coldFreeBlocks
    /\ eraseCount = s.eraseCount /\ pageState = s.pageState /\ table = s.table
    /\ cursor = s.cursor /\ cursorIndex = s.cursorIndex
    /\ cursorIOMap = s.cursorIOMap /\ hotWindow = s.hotWindow
    /\ coolDownWindow = s.coolDownWindow /\ bReclaimMore = s.bReclaimMore
    /\ refreshQueues = s.refreshQueues /\ checkedQueues = s.checkedQueues
    /\ insertedLayerCheck = s.insertedLayerCheck
    /\ layerQueueNum = s.layerQueueNum /\ curQueue = s.curQueue
    /\ refreshedPageCount = s.refreshedPageCount
    /\ panicked = s.panicked

Apply(t) ==
    /\ blocks' = t.blocks /\ blockType' = t.blockType
    /\ hotFreeBlocks' = t.hotFreeBlocks /\ coldFreeBlocks' = t.coldFreeBlocks
    /\ eraseCount' = t.eraseCount /\ pageState' = t.pageState /\ table' = t.table
    /\ cursor' = t.cursor /\ cursorIndex' = t.cursorIndex
    /\ cursorIOMap' = t.cursorIOMap /\ hotWindow' = t.hotWindow
    /\ coolDownWindow' = t.coolDownWindow /\ bReclaimMore' = t.bReclaimMore
    /\ refreshQueues' = t.refreshQueues /\ checkedQueues' = t.checkedQueues
    /\ insertedLayerCheck' = t.insertedLayerCheck
    /\ layerQueueNum' = t.layerQueueNum /\ curQueue' = t.curQueue
    /\ refreshedPageCount' = t.refreshedPageCount
    /\ panicked' = t.panicked

Ok(s) == s.panicked = "none"
Panic(s, msg) == [s EXCEPT !.panicked = msg]

\* The three cursor kinds, named after the vectors that hold them.
CursorKinds == {"lastHotFreeBlock", "lastCoolFreeBlock", "lastColdFreeBlock"}

\* hotFreeBlockRatio() < gcThreshold and coldFreeBlockRatio() < gcThreshold;
\* nHotFreeBlocks and nColdFreeBlocks always equal the list lengths.
HotRatioLow(s)  == Len(s.hotFreeBlocks) * 100 < GcThresholdPct * HotBlocksLimit
ColdRatioLow(s) == Len(s.coldFreeBlocks) * 100
                       < GcThresholdPct * (TotalBlocks - HotBlocksLimit)

-----------------------------------------------------------------------------
(* Free blocks and the write cursors.                                       *)

\* The position getHotFreeBlock and getColdFreeBlock take from a free list:
\* the first block on channel idx, else the head.
PickPos(fl, idx) ==
    LET hits == {i \in 1 .. Len(fl) : fl[i] % PageCountToMaxPerf = idx}
    IN  IF hits = {} THEN 1 ELSE Min(hits)

\* getHotFreeBlock(idx), its result stored into lastHotFreeBlock[idx]: the
\* block leaves the hot free list, joins `blocks` and the tail of hotWindow,
\* and becomes HOT.
GetHotFreeBlock(s, idx) ==
    LET fl == s.hotFreeBlocks
        b  == fl[PickPos(fl, idx)]
    IN  IF fl = <<>> THEN Panic(s, "No free block left")
        ELSE IF b \in s.blocks
        THEN Panic(s, "Get hot free block - already in block list")
        ELSE [s EXCEPT !.blocks = @ \cup {b},
                       !.hotFreeBlocks = RemoveAt(fl, PickPos(fl, idx)),
                       !.hotWindow = Append(@, b),
                       !.blockType[b] = "HOT",
                       !.cursor["lastHotFreeBlock"][idx] = b]

\* getColdFreeBlock(idx, queueInsert), its result stored into cursor kind k
\* at idx.  With queueInsert the block becomes COOL and joins the tail of
\* coolDownWindow; a full window first pushes its front block out, which
\* becomes COLD.  Without it the block becomes COLD.
GetColdFreeBlock(s, idx, queueInsert, k) ==
    LET fl    == s.coldFreeBlocks
        b     == fl[PickPos(fl, idx)]
        s1    == [s EXCEPT !.blocks = @ \cup {b},
                           !.coldFreeBlocks = RemoveAt(fl, PickPos(fl, idx)),
                           !.cursor[k][idx] = b]
        front == Head(s1.coolDownWindow)
        full  == Len(s1.coolDownWindow) >= CooldownWindowSize
        s2    == IF full
                 THEN [s1 EXCEPT !.blockType[front] = "COLD",
                                 !.coolDownWindow = Tail(@)]
                 ELSE s1
    IN  IF fl = <<>> THEN Panic(s, "No free cold block left")
        ELSE IF b \in s.blocks
        THEN Panic(s, "Get cold free block - already in block list")
        ELSE IF ~queueInsert THEN [s1 EXCEPT !.blockType[b] = "COLD"]
        ELSE IF full /\ front \notin s1.blocks
        THEN Panic(s1, "Corrupted. cool block lost")
        ELSE [s2 EXCEPT !.coolDownWindow = Append(@, b),
                        !.blockType[b] = "COOL"]

\* The allocation each getLast*FreeBlock makes when its block is full.
AllocFor(s, k, idx) ==
    CASE k = "lastHotFreeBlock"  -> GetHotFreeBlock(s, idx)
      [] k = "lastCoolFreeBlock" -> GetColdFreeBlock(s, idx, TRUE, k)
      [] k = "lastColdFreeBlock" -> GetColdFreeBlock(s, idx, FALSE, k)

\* getLastHotFreeBlock, getLastCoolFreeBlock and getLastColdFreeBlock(iomap):
\* advance the index of kind k (the io map always has bit 0 set), panic
\* "Corrupted" if the cursor block is not active, and replace it when full.
GetLastSepFreeBlock(s, k) ==
    LET advance == ~RandomTweak \/ s.cursorIOMap[k]
        idx == IF advance THEN (s.cursorIndex[k] + 1) % PageCountToMaxPerf
               ELSE s.cursorIndex[k]
        s1  == [s EXCEPT !.cursorIndex[k] = idx, !.cursorIOMap[k] = TRUE]
        cur == s1.cursor[k][idx]
    IN  IF cur \notin s1.blocks THEN Panic(s1, "Corrupted")
        ELSE IF IsFull(s1.pageState[cur])
        THEN [AllocFor(s1, k, idx) EXCEPT !.bReclaimMore = TRUE]
        ELSE s1

\* The block getLast*FreeBlock of kind k returned.
CurrentBlock(s, k) == s.cursor[k][s.cursorIndex[k]]

\* Block::write at getNextWritePageIndex() of that block, the mapping
\* update and setRefreshPeriod, as sepWriteInternal, sepDoGarbageCollection
\* and refreshPage do it.
WriteToCursor(s, k, lpn) ==
    LET b   == CurrentBlock(s, k)
        p   == NextWritePageIndex(s.pageState[b])
        err == WriteError(s.pageState[b], p)
    IN  IF err # "none" THEN Panic(s, err)
        ELSE SetRefreshPeriod(
                [s EXCEPT !.pageState[b] = WritePage(@, p, lpn),
                          !.table[lpn] = <<b, p>>],
                s.eraseCount[b], b, p % LayersPerBlock)


-----------------------------------------------------------------------------
(* Erase and garbage collection.                                            *)

\* The insert position of eraseInternal's reverse scan: after the last
\* block (from the tail) whose erase count is <= e, else at the head.
InsertPos(s, fl, e) ==
    LET le == {i \in 1 .. Len(fl) : s.eraseCount[fl[i]] <= e}
    IN  IF le = {} THEN 1 ELSE Max(le) + 1

\* The cursor-repair branch of sepEraseInternal for a COOL or COLD block b:
\* the first index of the cursor vector of b's kind that names b, if any.
StaleCursorIdx(s, k, b) ==
    {c \in Channels : s.cursor[k][c] = b /\ \A d \in 0 .. c - 1 : s.cursor[k][d] # b}

\* Mutant of Retired: the threshold test off by one.
RetiredLate(e) == e > BadBlockThreshold

\* "if (erasedCount < threshold)" fails: the block is retired.
Retired(e) == e >= BadBlockThreshold

\* Mutant of ReturnsToHotList: a COOL block taken for a hot one.
ReturnsToHotListWarm(type) == type # "COLD"

\* "if (blockType == HOT)": the erased block goes back to the hot list.
ReturnsToHotList(type) == type = "HOT"

\* sepEraseInternal(req).  The block type is read before the "No such
\* block" check (a dereference of end(), undefined; the model takes the
\* panic that follows it).  A block below the bad-block threshold goes back
\* to the free list of its pool at the reverse-scan position.  For a COOL or
\* COLD block that a cursor of its kind still names, the cursor is first
\* replaced by getColdFreeBlock(index, true), between the scan and the
\* emplace: when that call takes the very list node the scan stopped at,
\* the emplace runs on an erased iterator (undefined behaviour, recorded as
\* its own terminal outcome).
SepEraseInternal(s, b) ==
    LET e    == s.eraseCount[b] + 1
        type == s.blockType[b]
        s1   == [s EXCEPT !.pageState[b] = ErasedBlock, !.eraseCount[b] = e]
        hfl  == s.hotFreeBlocks
        cfl  == s.coldFreeBlocks
        pos  == InsertPos(s, cfl, e)
        k    == IF type = "COOL" THEN "lastCoolFreeBlock" ELSE "lastColdFreeBlock"
        c    == CHOOSE c \in StaleCursorIdx(s, k, b) : TRUE
        r    == PickPos(cfl, c)
        s2   == [GetColdFreeBlock(s1, c, TRUE, k) EXCEPT !.bReclaimMore = TRUE]
        InsertCold(t, at) == [t EXCEPT !.coldFreeBlocks = InsertAt(@, at, b),
                                       !.blocks = @ \ {b}]
    IN  IF b \notin s.blocks THEN Panic(s, "No such block")
        ELSE IF ValidPageCount(s.pageState[b]) # 0
        THEN Panic(s, "There are valid pages in victim block")
        ELSE IF Retired(e) THEN [s1 EXCEPT !.blocks = @ \ {b}]
        ELSE IF ReturnsToHotList(type)
        THEN [s1 EXCEPT !.hotFreeBlocks = InsertAt(hfl, InsertPos(s, hfl, e), b),
                        !.blocks = @ \ {b}]
        ELSE IF StaleCursorIdx(s, k, b) = {} THEN InsertCold(s1, pos)
        ELSE IF ~Ok(s2) THEN s2
        ELSE IF r = pos THEN Panic(s2, "emplace at an erased list iterator")
        ELSE InsertCold(s2, IF r < pos THEN pos - 1 ELSE pos)

\* Mutant of SepCopyPage: the new mapping keeps the source page index
\* ("mapping.second = pageIndex" for newPageIdx).
SepCopyPageSourceIndex(s, b, p, k, msg) ==
    LET lpn == s.pageState[b][p]
        s1  == GetLastSepFreeBlock(s, k)
        s2  == [s1 EXCEPT !.pageState[b] = Invalidate(@, p)]
        s3  == WriteToCursor(s2, k, lpn)
    IN  IF ~Ok(s1) THEN s1
        ELSE IF s2.table[lpn] = NoMapping THEN Panic(s2, msg)
        ELSE IF ~Ok(s3) THEN s3
        ELSE [s3 EXCEPT !.table[lpn] = <<@[1], p>>]

\* Mutant of SepCopyPage: the copy is written and mapped but its layer is
\* not enrolled (setRefreshPeriod left out, as sepHotWriteInternal does).
SepCopyPageNoEnrol(s, b, p, k, msg) ==
    LET lpn == s.pageState[b][p]
        s1  == GetLastSepFreeBlock(s, k)
        s2  == [s1 EXCEPT !.pageState[b] = Invalidate(@, p)]
        c   == CurrentBlock(s2, k)
        np  == NextWritePageIndex(s2.pageState[c])
    IN  IF ~Ok(s1) THEN s1
        ELSE IF s2.table[lpn] = NoMapping THEN Panic(s2, msg)
        ELSE IF WriteError(s2.pageState[c], np) # "none"
        THEN Panic(s2, WriteError(s2.pageState[c], np))
        ELSE [s2 EXCEPT !.pageState[c] = WritePage(@, np, lpn),
                        !.table[lpn] = <<c, np>>]

\* The copy loop of sepDoGarbageCollection and refreshPage for one valid
\* page p of block b: getLast*FreeBlock of kind k, invalidate the source,
\* look the LPN up (panic msg when it is missing), write it at the cursor.
SepCopyPage(s, b, p, k, msg) ==
    LET lpn == s.pageState[b][p]
        s1  == GetLastSepFreeBlock(s, k)
        s2  == [s1 EXCEPT !.pageState[b] = Invalidate(@, p)]
    IN  IF ~Ok(s1) THEN s1
        ELSE IF s2.table[lpn] = NoMapping THEN Panic(s2, msg)
        ELSE WriteToCursor(s2, k, lpn)

RECURSIVE SepCopyPages(_, _, _, _, _, _)
SepCopyPages(s, b, p, step, k, msg) ==
    IF p >= PagesInBlock \/ ~Ok(s) THEN s
    ELSE SepCopyPages(IF IsValidPage(s.pageState[b], p)
                      THEN SepCopyPage(s, b, p, k, msg) ELSE s,
                      b, p + step, step, k, msg)

RECURSIVE SepCopyVictims(_, _, _)
SepCopyVictims(s, list, i) ==
    IF i > Len(list) \/ ~Ok(s) THEN s
    ELSE IF list[i] \notin s.blocks THEN Panic(s, "Invalid block occured in GC")
    ELSE SepCopyVictims(SepCopyPages(s, list[i], 0, 1, "lastCoolFreeBlock",
                                     "Invalid mapping table entry"),
                        list, i + 1)

RECURSIVE SepEraseVictims(_, _, _)
SepEraseVictims(s, list, i) ==
    IF i > Len(list) \/ ~Ok(s) THEN s
    ELSE SepEraseVictims(SepEraseInternal(s, list[i]), list, i + 1)

\* sepDoGarbageCollection(list, ..., gcType): every valid page of every
\* victim goes to the cool cursor, then the victims are erased in order.
SepDoGarbageCollection(s, list) ==
    IF list = <<>> THEN s
    ELSE SepEraseVictims(SepCopyVictims(s, list, 1), list, 1)

\* The uint64 nBlocks of selectHotVictimBlock: FTL_GC_RECLAIM_BLOCK in
\* GC_MODE_0; in GC_MODE_1 hotBlocksLimit * t - nHotFreeBlocks converted to
\* uint64 (truncated above -1, undefined below: wrapped past any block count
\* on x86-64, 0 on AArch64); bReclaimMore adds one.
HotReclaimCounts(s) ==
    LET z    == HotBlocksLimit * ReclaimThresholdPct - 100 * Len(s.hotFreeBlocks)
        base == IF GcMode = 0 THEN {ReclaimBlock}
                ELSE IF z >= 0 THEN {z \div 100}
                ELSE IF z > -100 THEN {0}
                ELSE {0, TotalBlocks + 1}
    IN  {n + (IF s.bReclaimMore THEN 1 ELSE 0) : n \in base}

\* selectHotVictimBlock: the front MIN(nBlocks, hotWindow.size()) blocks
\* of hotWindow, full or not, one list per count a build can produce.
HotVictims(s) ==
    {SubSeq(s.hotWindow, 1, IF nb < Len(s.hotWindow) THEN nb ELSE Len(s.hotWindow))
        : nb \in HotReclaimCounts(s)}

\* The victims are popped from hotWindow and collected; a GC mode
\* config.hh does not define panics first.
HotGc(s) ==
    IF GcMode \notin {0, 1} THEN {Panic(s, "Invalid GC mode")}
    ELSE {SepDoGarbageCollection(
            [s EXCEPT !.bReclaimMore = FALSE,
                      !.hotWindow = SubSeq(@, Len(l) + 1, Len(@))], l)
            : l \in HotVictims(s)}

\* The uint64 nBlocks of selectColdVictimBlock, as the set of values a
\* build can produce: FTL_GC_RECLAIM_BLOCK in GC_MODE_0; in GC_MODE_1 the
\* float coldBlocksLimit * t - nColdFreeBlocks converted to uint64, which
\* truncates a value above -1 and is undefined below (x86-64 builds wrap it
\* to a count above any block count, AArch64 builds saturate it to 0).
\* bReclaimMore adds one.
ColdReclaimCounts(s) ==
    LET z    == (TotalBlocks - HotBlocksLimit) * ReclaimThresholdPct
                - 100 * Len(s.coldFreeBlocks)
        base == IF GcMode = 0 THEN {ReclaimBlock}
                ELSE IF z >= 0 THEN {z \div 100}
                ELSE IF z > -100 THEN {0}
                ELSE {0, TotalBlocks + 1}
    IN  {n + (IF s.bReclaimMore THEN 1 ELSE 0) : n \in base}

\* calculateColdVictimWeight: POLICY_GREEDY weighs by valid page count,
\* POLICY_RECO by valid - FTL_GC_RECO_PARAM * refreshedPageCount (scaled
\* by 100 here).
ColdWeight(s, b) ==
    IF EvictPolicy = "RECO"
    THEN 100 * ValidPageCount(s.pageState[b])
         - RecoParamPct * s.refreshedPageCount[b]
    ELSE ValidPageCount(s.pageState[b])

\* selectColdVictimBlock: the full non-HOT blocks, sorted by weight with
\* the unstable std::sort, so every lightest-first list of
\* MIN(nBlocks, candidates) blocks is possible.
ColdVictimLists(s) ==
    LET cands == {b \in s.blocks : s.blockType[b] # "HOT" /\ IsFull(s.pageState[b])}
        w(b)  == ColdWeight(s, b)
    IN  UNION {
          LET n == IF nb < Cardinality(cands) THEN nb ELSE Cardinality(cands)
          IN  {l \in [1 .. n -> cands] :
                /\ \A i, j \in 1 .. n : i < j => l[i] # l[j] /\ w(l[i]) <= w(l[j])
                /\ \A x \in cands \ Range(l) : \A i \in 1 .. n : w(l[i]) <= w(x)}
          : nb \in ColdReclaimCounts(s)}

\* The panics of selectColdVictimBlock: a GC mode config.hh does not
\* define, and any policy but GREEDY and RECO, which
\* calculateColdVictimWeight rejects after bReclaimMore was cleared.
ColdGcPanic(s) ==
    IF GcMode \notin {0, 1} THEN {Panic(s, "Invalid GC mode")}
    ELSE IF EvictPolicy \notin {"GREEDY", "RECO"}
    THEN {Panic([s EXCEPT !.bReclaimMore = FALSE],
                "Invalid cold victim evict policy")}
    ELSE {}

\* Mutant of ColdGc: the victims stay in coolDownWindow.
ColdGcKeepWindow(s) ==
    IF ColdGcPanic(s) # {} THEN ColdGcPanic(s)
    ELSE {SepDoGarbageCollection([s EXCEPT !.bReclaimMore = FALSE], l) :
             l \in ColdVictimLists(s)}

\* selectColdVictimBlock and sepDoGarbageCollection: a cold victim found in
\* coolDownWindow is erased from it (first match).
ColdGc(s) ==
    IF ColdGcPanic(s) # {} THEN ColdGcPanic(s)
    ELSE {SepDoGarbageCollection(
              [s EXCEPT !.bReclaimMore = FALSE,
                        !.coolDownWindow = FoldLeft(LAMBDA w, v : RemoveFirst(w, v), @, l)],
              l) : l \in ColdVictimLists(s)}

\* "if (coldFreeBlockRatio() < gcThreshold)" and the hot counterpart.
ColdGcIfNeeded(s) == IF ColdRatioLow(s) THEN ColdGc(s) ELSE {s}
HotGcIfNeeded(s)  == IF HotRatioLow(s) THEN HotGc(s) ELSE {s}


-----------------------------------------------------------------------------
(* Host operations.                                                         *)

\* The write part of sepWriteInternal: invalidate the old copy; data whose
\* old copy sits in a HOT or COOL block is rewritten at the hot cursor,
\* new data and data from a COLD block at the cool cursor.
SepWriteData(s, lpn) ==
    LET old == s.table[lpn]
        s1  == IF old = NoMapping THEN s
               ELSE [s EXCEPT !.pageState[old[1]] = Invalidate(@, old[2])]
        k   == IF old # NoMapping /\ s.blockType[old[1]] \in {"HOT", "COOL"}
               THEN "lastHotFreeBlock" ELSE "lastCoolFreeBlock"
        s2  == GetLastSepFreeBlock(s1, k)
    IN  IF ~Ok(s2) THEN s2 ELSE WriteToCursor(s2, k, lpn)

\* sepWriteInternal(req, tick, true): the write, then cold GC and hot GC,
\* each when its pool's free ratio tripped.
SepWriteInternal(s, lpn) ==
    LET s3 == SepWriteData(s, lpn)
    IN  IF ~Ok(s3) THEN {s3}
        ELSE UNION {IF Ok(c) THEN HotGcIfNeeded(c) ELSE {c} : c \in ColdGcIfNeeded(s3)}

\* Mutant of SepTrimInternal: the page is invalidated but the mapping kept.
SepTrimInternalKeepMapping(s, lpn) ==
    LET m == s.table[lpn]
    IN  IF m = NoMapping THEN s
        ELSE IF m[1] \notin s.blocks THEN Panic(s, "Block is not in use")
        ELSE [s EXCEPT !.pageState[m[1]] = Invalidate(@, m[2])]

\* trimInternal(req), shared by both modes.
SepTrimInternal(s, lpn) ==
    LET m == s.table[lpn]
    IN  IF m = NoMapping THEN s
        ELSE IF m[1] \notin s.blocks THEN Panic(s, "Block is not in use")
        ELSE [s EXCEPT !.pageState[m[1]] = Invalidate(@, m[2]),
                       !.table[lpn] = NoMapping]

\* format(range) with separation on: trim every mapped LPN of the range,
\* then sepDoGarbageCollection(list, ..., COLD) on exactly their blocks in
\* ascending order, whatever their pool, fullness or window.
SepFormatRange(s, range) ==
    LET hit  == {l \in range : s.table[l] # NoMapping}
        list == SetToSortSeq({s.table[l][1] : l \in hit}, <)
        locs == {s.table[l] : l \in hit}
        s1   == [s EXCEPT
                   !.pageState = [b \in Blocks |-> [p \in PageIdx |->
                        IF <<b, p>> \in locs THEN Invalidate(@[b], p)[p]
                        ELSE @[b][p]]],
                   !.table = [l \in LPNs |-> IF l \in hit THEN NoMapping ELSE @[l]]]
    IN  IF \E l \in hit : s.table[l][1] \notin s.blocks
        THEN Panic(s, "Block is not in use")
        ELSE SepDoGarbageCollection(s1, list)

-----------------------------------------------------------------------------
(* The periodic refresh event.                                              *)

\* refreshedPageCount is read only by the cold weights of POLICY_RECO;
\* under the other policies the model keeps it at 0.
TracksRefreshedCount == EvictPolicy = "RECO"

\* The copy loop of refreshPage for one layer of block b, to the cursor of
\* kind k, and one increment of b's refreshedPageCount per page copied.
SepRefreshLayer(s, b, layer, k) ==
    LET t      == SepCopyPages(s, b, layer, LayersPerBlock, k,
                               "Invalid mapping table entry, refresh failed")
        copied == {p \in PageIdx : p % LayersPerBlock = layer
                                   /\ s.pageState[b][p] # Dirty
                                   /\ t.pageState[b][p] = Dirty}
    IN  IF Ok(t) /\ TracksRefreshedCount
        THEN [t EXCEPT !.refreshedPageCount[b] = @ + Cardinality(copied)]
        ELSE t

\* The drain loop of refreshPage(queueNum) with separation on: the layer's
\* block type, read once before its page loop, picks the cold cursor for a
\* COLD block and the cool cursor otherwise.
RECURSIVE SepDrain(_, _, _)
SepDrain(s, q, i) ==
    IF i >= MaxRefreshLayer \/ s.checkedQueues[q] = <<>> \/ ~Ok(s) THEN s
    ELSE LET id == Head(s.checkedQueues[q])
             s1 == [s EXCEPT !.checkedQueues[q] = Tail(@)]
             s2 == [s1 EXCEPT !.insertedLayerCheck = @ \ {id}]
             k  == IF s.blockType[id[1]] = "COLD" THEN "lastColdFreeBlock"
                   ELSE "lastCoolFreeBlock"
         IN  IF q # s.layerQueueNum[id] THEN SepDrain(s1, q, i + 1)
             ELSE IF id \notin s.insertedLayerCheck
             THEN Panic(s1, "Corrupted layer check bitmap")
             ELSE IF id[1] \notin s.blocks THEN SepDrain(s2, q, i + 1)
             ELSE SepDrain(SepRefreshLayer(s2, id[1], id[2], k), q, i + 1)

\* refreshPage(queueNum) with separation on: cold GC if needed, the drain,
\* cold GC again if needed (hot GC is never run here).
SepRefreshPage(s, q) ==
    UNION {IF Ok(s2) THEN ColdGcIfNeeded(s2) ELSE {s2} :
           s2 \in {SepDrain(s1, q, 0) : s1 \in ColdGcIfNeeded(s)}}

\* Mutant of SepRefreshEventResults: the target queue is drained without
\* first swapping refreshQueues[t] into checkedQueues[t].
SepRefreshEventResultsNoSwap(s) ==
    LET t == (s.curQueue + 1) % NumQueues
    IN  {[s1 EXCEPT !.curQueue = t] : s1 \in SepRefreshPage(s, t)}

\* refresh_event(tick), as in PageMapping (without its ghost).
SepRefreshEventResults(s) ==
    LET t  == (s.curQueue + 1) % NumQueues
        s0 == [s EXCEPT !.checkedQueues[t] = s.refreshQueues[t],
                        !.refreshQueues[t] = s.checkedQueues[t]]
    IN  {[s1 EXCEPT !.curQueue = t] : s1 \in SepRefreshPage(s0, t)}

-----------------------------------------------------------------------------

\* The constructor with separation on: the hot pool's blocks on the hot
\* free list, the rest on the cold free list, in index order; then per
\* channel a hot cursor, a cool cursor (into coolDownWindow) and a cold one.
RECURSIVE SepAllocCursors(_, _)
SepAllocCursors(s, i) ==
    IF i >= PageCountToMaxPerf THEN s
    ELSE SepAllocCursors(
            GetColdFreeBlock(GetColdFreeBlock(GetHotFreeBlock(s, i),
                                              i, TRUE, "lastCoolFreeBlock"),
                             i, FALSE, "lastColdFreeBlock"), i + 1)

SepInitState ==
    SepAllocCursors(
        [blocks |-> {},
         blockType |-> [b \in Blocks |-> IF b \in HotPool THEN "HOT" ELSE "COLD"],
         hotFreeBlocks |-> [i \in 1 .. HotBlocksLimit |-> i - 1],
         coldFreeBlocks |-> [i \in 1 .. TotalBlocks - HotBlocksLimit |->
                                 HotBlocksLimit + i - 1],
         eraseCount |-> [b \in Blocks |-> InitEraseCount],
         pageState |-> [b \in Blocks |-> ErasedBlock],
         table |-> [l \in LPNs |-> NoMapping],
         cursor |-> [k \in CursorKinds |-> [c \in Channels |-> 0]],
         cursorIndex |-> [k \in CursorKinds |-> 0],
         cursorIOMap |-> [k \in CursorKinds |-> FALSE],
         hotWindow |-> <<>>, coolDownWindow |-> <<>>, bReclaimMore |-> FALSE,
         refreshQueues |-> [q \in Queues |-> <<>>],
         checkedQueues |-> [q \in Queues |-> <<>>],
         insertedLayerCheck |-> {},
         layerQueueNum |-> [id \in LayerIDs |-> 0], curQueue |-> 0,
         refreshedPageCount |-> [b \in Blocks |-> 0],
         panicked |-> "none"], 0)

Init == Holds(SepInitState)

Write(lpn) == Ok(St) /\ \E t \in SepWriteInternal(St, lpn) : Apply(t)

Trim(lpn) == Ok(St) /\ Apply(SepTrimInternal(St, lpn))

Format(range) == Ok(St) /\ Apply(SepFormatRange(St, range))

RefreshEvent == Ok(St) /\ \E t \in SepRefreshEventResults(St) : Apply(t)

LPNRanges == {{l \in LPNs : lo <= l /\ l <= hi} : lo, hi \in LPNs}

Next ==
    \/ \E l \in LPNs : Write(l)
    \/ \E l \in LPNs : Trim(l)
    \/ \E r \in LPNRanges : Format(r)
    \/ RefreshEvent

Spec == Init /\ [][Next]_vars

\* The tick of refresh_event (refreshCallCount++, line 382).  As in
\* PageMapping, only RefreshEvent changes curQueue, it does so in every
\* step it takes, and it is enabled exactly when no panic has happened, so
\* weak fairness of the tick is weak fairness of RefreshEvent: the event
\* initialize() schedules reschedules itself every period.
RefreshTick == Ok(St) /\ curQueue' = (curQueue + 1) % NumQueues

FairSpec == Spec /\ WF_curQueue(RefreshTick)

-----------------------------------------------------------------------------
(* Properties, stated of the states in which the simulator still runs.     *)

TypeOK ==
    /\ blocks \subseteq Blocks
    /\ blockType \in [Blocks -> BlockTypes]
    /\ hotFreeBlocks \in Seq(Blocks) /\ coldFreeBlocks \in Seq(Blocks)
    /\ eraseCount \in [Blocks -> InitEraseCount .. BadBlockThreshold]
    /\ pageState \in [Blocks -> [PageIdx -> LPNs \cup {Erased, Dirty}]]
    /\ table \in [LPNs -> (Blocks \X PageIdx) \cup {NoMapping}]
    /\ cursor \in [CursorKinds -> [Channels -> Blocks]]
    /\ cursorIndex \in [CursorKinds -> Channels]
    /\ cursorIOMap \in [CursorKinds -> BOOLEAN]
    /\ hotWindow \in Seq(Blocks) /\ coolDownWindow \in Seq(Blocks)
    /\ bReclaimMore \in BOOLEAN
    /\ refreshQueues \in [Queues -> Seq(LayerIDs)]
    /\ checkedQueues \in [Queues -> Seq(LayerIDs)]
    /\ insertedLayerCheck \subseteq LayerIDs
    /\ layerQueueNum \in [LayerIDs -> Queues]
    /\ curQueue \in Queues
    /\ refreshedPageCount \in [Blocks -> Nat]
    /\ panicked \in STRING

\* As in PageMapping, and as the allocation step of spec.md says, an
\* active block's refreshedPageCount counts only the refresh copies out of
\* its current life, so it never exceeds the block's Dirty pages.  It is
\* about getHotFreeBlock and getColdFreeBlock, which move a block out of a
\* free list without the setRefreshedPageCount(0) of getFreeBlock.
SepRefreshedCountCurrent ==
    Ok(St) =>
        \A b \in blocks :
            refreshedPageCount[b]
                <= Cardinality({p \in PageIdx : pageState[b][p] = Dirty})

\* The mapping table and the pages agree through hot and cold writes, both
\* GCs, format and the refresh drain: a mapped LPN points at a valid page
\* of an active block that holds it, and every valid page is the one its
\* LPN is mapped to.
SepMappingConsistent ==
    Ok(St) =>
        /\ \A l \in LPNs : table[l] # NoMapping =>
                /\ table[l][1] \in blocks
                /\ pageState[table[l][1]][table[l][2]] = l
        /\ \A b \in Blocks, p \in PageIdx : IsValidPage(pageState[b], p) =>
                /\ b \in blocks
                /\ table[pageState[b][p]] = <<b, p>>

\* One free list in the shape eraseInternal's reverse scan relies on.
SortedFreeList(fl, pool) ==
    /\ IsInjective(fl)
    /\ Range(fl) \subseteq pool \ blocks
    /\ \A i \in 1 .. Len(fl) : pageState[fl[i]] = ErasedBlock
    /\ \A i, j \in 1 .. Len(fl) : i < j => eraseCount[fl[i]] <= eraseCount[fl[j]]

\* getHotFreeBlock, getColdFreeBlock and sepEraseInternal (its cursor
\* repair included) keep the two pools apart and every block in one place:
\* each free list holds distinct, erased, inactive blocks of its own pool
\* sorted by erase count; exactly the hot pool's blocks are HOT; a block
\* neither active nor free has been retired.
PoolsConsistent ==
    Ok(St) =>
        /\ SortedFreeList(hotFreeBlocks, HotPool)
        /\ SortedFreeList(coldFreeBlocks, ColdPool)
        /\ \A b \in Blocks : blockType[b] = "HOT" <=> b \in HotPool
        /\ \A b \in Blocks \ (blocks \cup Range(hotFreeBlocks) \cup Range(coldFreeBlocks)) :
                eraseCount[b] >= BadBlockThreshold

\* Where a layer sits in the deques, as <<queue, position, deque>>.
Occurrences(id) ==
    LET At(qs, kind) ==
            UNION {{<<q, i, kind>> : i \in {i \in 1 .. Len(qs[q]) : qs[q][i] = id}} :
                   q \in Queues}
    IN  At(refreshQueues, "refresh") \cup At(checkedQueues, "checked")

\* As in PageMapping: every enrolled layer sits exactly once, in the queue
\* layerQueueNum names, and a layer that is not enrolled is in no queue,
\* now with the drain copying to the cool or the cold cursor.
RefreshQueuesConsistent ==
    Ok(St) =>
        \A id \in LayerIDs :
            IF id \in insertedLayerCheck
            THEN /\ Cardinality(Occurrences(id)) = 1
                 /\ \E i \in 1 .. Len(refreshQueues[layerQueueNum[id]]) :
                        refreshQueues[layerQueueNum[id]][i] = id
            ELSE Occurrences(id) = {}

\* Enrolment totality (spec: setRefreshPeriod is "called on every
\* successful host or GC/refresh write"): the layer of every valid page is
\* enrolled, so a later refresh event drains it.  Hot and cold writes, both
\* GCs and the drain, which clears a layer's bit and then copies its valid
\* pages to layers it enrols, keep every stored page under refresh.
PagesEnrolled ==
    Ok(St) =>
        \A b \in Blocks, p \in PageIdx :
            IsValidPage(pageState[b], p) =>
                <<b, p % LayersPerBlock>> \in insertedLayerCheck

\* Retention refresh reaches every stored page with separation on: a valid
\* page holding an LPN is eventually moved (by the drain, to the cool or
\* the cold cursor, or by cold or hot GC) or superseded, unless the
\* simulator has stopped on a panic.
SepPagesEventuallyRefreshed ==
    \A b \in Blocks, p \in PageIdx, l \in LPNs :
        (pageState[b][p] = l) ~> (pageState[b][p] # l \/ panicked # "none")

\* The windows follow the blocks: hotWindow lists exactly the active HOT
\* blocks and coolDownWindow exactly the active COOL ones, each once, and
\* coolDownWindow holds at most nCooldownBlocks.  selectHotVictimBlock and
\* selectColdVictimBlock rely on it when they take victims from them.
WindowsConsistent ==
    Ok(St) =>
        /\ IsInjective(hotWindow) /\ IsInjective(coolDownWindow)
        /\ Range(hotWindow) = {b \in blocks : blockType[b] = "HOT"}
        /\ Range(coolDownWindow) = {b \in blocks : blockType[b] = "COOL"}
        /\ Len(coolDownWindow) <= CooldownWindowSize

\* Every write cursor of every kind names an active block, so the "Sanity
\* check" of getLastHot/Cool/ColdFreeBlock (panic "Corrupted") never
\* fails: neither hot GC nor cold GC erases or retires a block a cursor is
\* still writing without the cursor being replaced.
SepCursorsActive ==
    Ok(St) => \A k \in CursorKinds, c \in Channels : cursor[k][c] \in blocks

\* sepEraseInternal never emplaces at a list node its own cursor repair
\* has just erased.
NoDanglingInsert == panicked # "emplace at an erased list iterator"

=============================================================================
