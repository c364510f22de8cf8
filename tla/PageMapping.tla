---------------------------- MODULE PageMapping ----------------------------
(***************************************************************************)
(* The page-mapping FTL of src/simplessd/ftl/page_mapping.cc with hot/cold *)
(* separation off (FTL_HOT_COLD_SEPERATION = 0), grouping mode 0 and      *)
(* ioUnitInPage = 1, under every GC mode and victim-selection policy.      *)
(*                                                                         *)
(* The FTL is event-serial: a host write, trim or format, or the periodic  *)
(* refresh_event, runs to completion before the next one starts.  Each     *)
(* public operation is therefore one action, and the loops inside it are   *)
(* RECURSIVE operators that fold over a record holding the whole state     *)
(* (the record St below, one field per variable).  A panic() ends the     *)
(* simulator: it is recorded in `panicked` and no action is enabled after  *)
(* it.                                                                     *)
(*                                                                         *)
(* `age` is a ghost variable: the number of refresh events (periods) that *)
(* have started since a page was written, capped at NumQueues.           *)
(***************************************************************************)
EXTENDS Naturals, Sequences, SequencesExt, FiniteSets, FlashBlock,
        RefreshScheduler

CONSTANTS
    TotalBlocks,        \* param.totalPhysicalBlocks
    PageCountToMaxPerf, \* param.pageCountToMaxPerf: number of write cursors
    LogicalPages,       \* number of host LPNs (0 .. LogicalPages - 1)
    GcThresholdPct,     \* FTL_GC_THRESHOLD_RATIO, in percent
    ReclaimBlock,       \* FTL_GC_RECLAIM_BLOCK
    BadBlockThreshold,  \* FTL_BAD_BLOCK_THRESHOLD
    InitEraseCount,     \* FTL_INITIAL_ERASE_COUNT
    MaxRefreshLayer,    \* FTL_REFRESH_MAX_LAYER_NUM
    RandomTweak,        \* FTL_USE_RANDOM_IO_TWEAK (bRandomTweak)
    GcMode,             \* FTL_GC_MODE: 0 (GC_MODE_0) or 1 (GC_MODE_1)
    ReclaimThresholdPct,\* FTL_GC_RECLAIM_THRESHOLD, in percent
    EvictPolicy,        \* FTL_GC_EVICT_POLICY, by name
    DChoiceParam,       \* FTL_GC_D_CHOICE_PARAM
    RecoParamPct,       \* FTL_GC_RECO_PARAM, in percent
    NoMapping           \* an LPN that has no entry in `table`

ASSUME PageCountToMaxPerf \in Nat \ {0}
ASSUME TotalBlocks \in Nat /\ TotalBlocks > PageCountToMaxPerf
ASSUME GcThresholdPct \in 0 .. 100
ASSUME {ReclaimBlock, InitEraseCount, MaxRefreshLayer} \subseteq Nat
ASSUME BadBlockThreshold \in Nat /\ BadBlockThreshold > InitEraseCount
ASSUME RandomTweak \in BOOLEAN
ASSUME GcMode \in Nat /\ EvictPolicy \in STRING
ASSUME {ReclaimThresholdPct, DChoiceParam, RecoParamPct} \subseteq Nat

\* The EVICT_POLICY values of config.hh.
Policies == {"GREEDY", "COST_BENEFIT", "RANDOM", "DCHOICE", "RECO"}

Blocks   == 0 .. TotalBlocks - 1
Channels == 0 .. PageCountToMaxPerf - 1
LPNs     == 0 .. LogicalPages - 1
LayerIDs == Blocks \X Layers

VARIABLES
    blocks,             \* the key set of the `blocks` map: active blocks
    freeBlocks,         \* the free list, head first
    eraseCount,         \* Block::eraseCount of every block
    pageState,          \* the page bitmaps and LPNs of every block
    table,              \* the mapping table: LPN -> <<block, page>>
    lastFreeBlock,      \* the write cursor of each channel
    lastFreeBlockIndex,
    lastFreeBlockIOMap, \* bit 0 of the io map (ioUnitInPage = 1)
    bReclaimMore,
    refreshQueues,
    checkedQueues,
    insertedLayerCheck,
    layerQueueNum,
    curQueue,           \* stat.refreshCallCount % FTL_REFRESH_FILTER_NUM
    refreshedPageCount, \* Block::refreshedPageCount of every block
    age,                \* ghost: refresh periods a page has been stored
    panicked            \* "none", or the message of the panic that stopped it

vars == <<blocks, freeBlocks, eraseCount, pageState, table, lastFreeBlock,
          lastFreeBlockIndex, lastFreeBlockIOMap, bReclaimMore, refreshQueues,
          checkedQueues, insertedLayerCheck, layerQueueNum, curQueue,
          refreshedPageCount, age, panicked>>

\* The whole state as one record, and the step that makes a record current.
St == [blocks |-> blocks, freeBlocks |-> freeBlocks, eraseCount |-> eraseCount,
       pageState |-> pageState, table |-> table, lastFreeBlock |-> lastFreeBlock,
       lastFreeBlockIndex |-> lastFreeBlockIndex,
       lastFreeBlockIOMap |-> lastFreeBlockIOMap, bReclaimMore |-> bReclaimMore,
       refreshQueues |-> refreshQueues, checkedQueues |-> checkedQueues,
       insertedLayerCheck |-> insertedLayerCheck, layerQueueNum |-> layerQueueNum,
       curQueue |-> curQueue, refreshedPageCount |-> refreshedPageCount,
       age |-> age, panicked |-> panicked]

Holds(s) ==
    /\ blocks = s.blocks /\ freeBlocks = s.freeBlocks
    /\ eraseCount = s.eraseCount /\ pageState = s.pageState
    /\ table = s.table /\ lastFreeBlock = s.lastFreeBlock
    /\ lastFreeBlockIndex = s.lastFreeBlockIndex
    /\ lastFreeBlockIOMap = s.lastFreeBlockIOMap
    /\ bReclaimMore = s.bReclaimMore /\ refreshQueues = s.refreshQueues
    /\ checkedQueues = s.checkedQueues
    /\ insertedLayerCheck = s.insertedLayerCheck
    /\ layerQueueNum = s.layerQueueNum /\ curQueue = s.curQueue
    /\ refreshedPageCount = s.refreshedPageCount
    /\ age = s.age /\ panicked = s.panicked

\* The step to the state t (TLC needs the primed variables spelled out).
Apply(t) ==
    /\ blocks' = t.blocks /\ freeBlocks' = t.freeBlocks
    /\ eraseCount' = t.eraseCount /\ pageState' = t.pageState
    /\ table' = t.table /\ lastFreeBlock' = t.lastFreeBlock
    /\ lastFreeBlockIndex' = t.lastFreeBlockIndex
    /\ lastFreeBlockIOMap' = t.lastFreeBlockIOMap
    /\ bReclaimMore' = t.bReclaimMore /\ refreshQueues' = t.refreshQueues
    /\ checkedQueues' = t.checkedQueues
    /\ insertedLayerCheck' = t.insertedLayerCheck
    /\ layerQueueNum' = t.layerQueueNum /\ curQueue' = t.curQueue
    /\ refreshedPageCount' = t.refreshedPageCount
    /\ age' = t.age /\ panicked' = t.panicked

Ok(s) == s.panicked = "none"
Panic(s, msg) == [s EXCEPT !.panicked = msg]

NoAge == [p \in PageIdx |-> 0]

\* freeBlockRatio() < gcThreshold; nFreeBlocks is always Len(freeBlocks).
FreeRatioLow(s) == Len(s.freeBlocks) * 100 < GcThresholdPct * TotalBlocks

-----------------------------------------------------------------------------
(* Free blocks and the write cursors.                                       *)

\* getFreeBlock(idx), stored into lastFreeBlock[idx] as both callers do:
\* the first free block on channel idx, else the head of the list; the
\* block starts its new life with refreshedPageCount 0.
GetFreeBlock(s, idx) ==
    LET fl   == s.freeBlocks
        hits == {i \in 1 .. Len(fl) : fl[i] % PageCountToMaxPerf = idx}
        pos  == IF hits = {} THEN 1 ELSE Min(hits)
    IN  IF fl = <<>> THEN Panic(s, "No free block left")
        ELSE IF fl[pos] \in s.blocks THEN Panic(s, "Corrupted")
        ELSE [s EXCEPT !.blocks = @ \cup {fl[pos]},
                       !.freeBlocks = RemoveAt(fl, pos),
                       !.lastFreeBlock[idx] = fl[pos],
                       !.refreshedPageCount[fl[pos]] = 0]

\* getLastFreeBlock(iomap).  Every io map it is given has bit 0 set, so
\* "(lastFreeBlockIOMap & iomap).any()" is lastFreeBlockIOMap and both
\* branches leave lastFreeBlockIOMap set.
GetLastFreeBlock(s) ==
    LET advance == ~RandomTweak \/ s.lastFreeBlockIOMap
        idx == IF advance THEN (s.lastFreeBlockIndex + 1) % PageCountToMaxPerf
               ELSE s.lastFreeBlockIndex
        s1  == [s EXCEPT !.lastFreeBlockIndex = idx, !.lastFreeBlockIOMap = TRUE]
        cur == s1.lastFreeBlock[idx]
    IN  IF cur \notin s1.blocks THEN Panic(s1, "Corrupted")
        ELSE IF IsFull(s1.pageState[cur])
        THEN [GetFreeBlock(s1, idx) EXCEPT !.bReclaimMore = TRUE]
        ELSE s1

\* The block getLastFreeBlock returned.
CurrentFreeBlock(s) == s.lastFreeBlock[s.lastFreeBlockIndex]

\* The tail shared by writeInternal, doGarbageCollection and refreshPage:
\* Block::write at getNextWritePageIndex() of the cursor block, the mapping
\* update, and setRefreshPeriod for the page's layer.
WriteToFreeBlock(s, lpn) ==
    LET b   == CurrentFreeBlock(s)
        p   == NextWritePageIndex(s.pageState[b])
        err == WriteError(s.pageState[b], p)
    IN  IF err # "none" THEN Panic(s, err)
        ELSE SetRefreshPeriod(
                [s EXCEPT !.pageState[b] = WritePage(@, p, lpn),
                          !.table[lpn] = <<b, p>>,
                          !.age[b][p] = 0],
                s.eraseCount[b], b, p % LayersPerBlock)

-----------------------------------------------------------------------------
(* Garbage collection and erase.                                            *)

\* Mutant of CopyPage: the page is copied but the mapping table keeps the
\* source location, which the victim's erase then wipes.
CopyPageNoRemap(s, b, p) ==
    LET lpn == s.pageState[b][p]
        s1  == GetLastFreeBlock(s)
        s2  == [s1 EXCEPT !.pageState[b] = Invalidate(@, p)]
        s3  == WriteToFreeBlock(s2, lpn)
    IN  IF ~Ok(s1) THEN s1
        ELSE IF s2.table[lpn] = NoMapping
        THEN Panic(s2, "Invalid mapping table entry")
        ELSE IF ~Ok(s3) THEN s3
        ELSE [s3 EXCEPT !.table[lpn] = s2.table[lpn]]

\* The body of the copy loops of doGarbageCollection and refreshPage for one
\* valid page p of block b: getLastFreeBlock, invalidate the source, look
\* the LPN up in the table, then write it to the free block.
CopyPage(s, b, p) ==
    LET lpn == s.pageState[b][p]
        s1  == GetLastFreeBlock(s)
        s2  == [s1 EXCEPT !.pageState[b] = Invalidate(@, p)]
    IN  IF ~Ok(s1) THEN s1
        ELSE IF s2.table[lpn] = NoMapping
        THEN Panic(s2, "Invalid mapping table entry")
        ELSE WriteToFreeBlock(s2, lpn)

\* "for (pageIndex = p; pageIndex < pagesInBlock; pageIndex += step)":
\* copy every page of b that is valid when the loop reaches it.
RECURSIVE CopyPages(_, _, _, _)
CopyPages(s, b, p, step) ==
    IF p >= PagesInBlock \/ ~Ok(s) THEN s
    ELSE CopyPages(IF IsValidPage(s.pageState[b], p) THEN CopyPage(s, b, p)
                   ELSE s,
                   b, p + step, step)

\* Mutant of EraseInternal: the reverse scan forgets the "iter++" and
\* inserts before the block it stopped at.
EraseInternalInsertBefore(s, b) ==
    LET e   == s.eraseCount[b] + 1
        fl  == s.freeBlocks
        le  == {i \in 1 .. Len(fl) : s.eraseCount[fl[i]] <= e}
        pos == IF le = {} THEN 1 ELSE Max(le)
        s1  == [s EXCEPT !.pageState[b] = ErasedBlock, !.eraseCount[b] = e,
                         !.blocks = @ \ {b}, !.age[b] = NoAge]
    IN  IF b \notin s.blocks THEN Panic(s, "No such block")
        ELSE IF ValidPageCount(s.pageState[b]) # 0
        THEN Panic(s, "There are valid pages in victim block")
        ELSE IF e < BadBlockThreshold
        THEN [s1 EXCEPT !.freeBlocks = InsertAt(fl, pos, b)]
        ELSE s1

\* Mutant of EraseInternal: a block is retired only above the threshold.
EraseInternalRetireLate(s, b) ==
    LET e   == s.eraseCount[b] + 1
        fl  == s.freeBlocks
        le  == {i \in 1 .. Len(fl) : s.eraseCount[fl[i]] <= e}
        pos == IF le = {} THEN 1 ELSE Max(le) + 1
        s1  == [s EXCEPT !.pageState[b] = ErasedBlock, !.eraseCount[b] = e,
                         !.blocks = @ \ {b}, !.age[b] = NoAge]
    IN  IF b \notin s.blocks THEN Panic(s, "No such block")
        ELSE IF ValidPageCount(s.pageState[b]) # 0
        THEN Panic(s, "There are valid pages in victim block")
        ELSE IF e <= BadBlockThreshold
        THEN [s1 EXCEPT !.freeBlocks = InsertAt(fl, pos, b)]
        ELSE s1

\* eraseInternal(req): erase the block, put it back into the free list after
\* the last block (from the tail) whose erase count is <= its own, or retire
\* it when it reached the bad-block threshold; drop it from `blocks`.
\* On an empty free list the reverse scan decrements end(); with libstdc++
\* both outcomes of the comparison it then makes insert at end(), which is
\* position 1 here.
EraseInternal(s, b) ==
    LET e   == s.eraseCount[b] + 1
        fl  == s.freeBlocks
        le  == {i \in 1 .. Len(fl) : s.eraseCount[fl[i]] <= e}
        pos == IF le = {} THEN 1 ELSE Max(le) + 1
        s1  == [s EXCEPT !.pageState[b] = ErasedBlock, !.eraseCount[b] = e,
                         !.blocks = @ \ {b}, !.age[b] = NoAge]
    IN  IF b \notin s.blocks THEN Panic(s, "No such block")
        ELSE IF ValidPageCount(s.pageState[b]) # 0
        THEN Panic(s, "There are valid pages in victim block")
        ELSE IF e < BadBlockThreshold
        THEN [s1 EXCEPT !.freeBlocks = InsertAt(fl, pos, b)]
        ELSE s1

RECURSIVE CopyVictims(_, _, _)
CopyVictims(s, list, i) ==
    IF i > Len(list) \/ ~Ok(s) THEN s
    ELSE IF list[i] \notin s.blocks THEN Panic(s, "Invalid block")
    ELSE CopyVictims(CopyPages(s, list[i], 0, 1), list, i + 1)

RECURSIVE EraseVictims(_, _, _)
EraseVictims(s, list, i) ==
    IF i > Len(list) \/ ~Ok(s) THEN s
    ELSE EraseVictims(EraseInternal(s, list[i]), list, i + 1)

\* doGarbageCollection(list): copy out every victim's valid pages first,
\* then erase the victims in list order.
DoGarbageCollection(s, list) == EraseVictims(CopyVictims(s, list, 1), list, 1)

\* The uint64 nBlocks of selectVictimBlock, as the set of values a build
\* can produce: FTL_GC_RECLAIM_BLOCK in GC_MODE_0; in GC_MODE_1 the float
\* totalPhysicalBlocks * t - nFreeBlocks converted to uint64, which
\* truncates a value above -1 and is undefined below: x86-64 builds wrap it
\* to a count above any block count (WrappedCount), AArch64 builds
\* saturate it to 0.  bReclaimMore adds pageCountToMaxPerf.
WrappedCount == TotalBlocks + 1

ReclaimCounts(s) ==
    LET z    == TotalBlocks * ReclaimThresholdPct - 100 * Len(s.freeBlocks)
        base == IF GcMode = 0 THEN {ReclaimBlock}
                ELSE IF z >= 0 THEN {z \div 100}
                ELSE IF z > -100 THEN {0}
                ELSE {0, WrappedCount}
    IN  {n + (IF s.bReclaimMore THEN PageCountToMaxPerf ELSE 0) : n \in base}

\* calculateVictimWeight: the full blocks, weighted by valid page count, or
\* under POLICY_RECO by valid - FTL_GC_RECO_PARAM * refreshedPageCount
\* (here scaled by 100).  POLICY_COST_BENEFIT weighs by access times the
\* model does not keep; VictimLists lets it rank the blocks in any order.
VictimCandidates(s) == {b \in s.blocks : IsFull(s.pageState[b])}

VictimWeight(s, b) ==
    IF EvictPolicy = "RECO"
    THEN 100 * ValidPageCount(s.pageState[b])
         - RecoParamPct * s.refreshedPageCount[b]
    ELSE ValidPageCount(s.pageState[b])

\* The first n entries of the weight vector of `pool` after std::sort,
\* which is not stable: n distinct blocks in nondecreasing weight, none
\* heavier than a block of the pool left out.
LightestLists(s, pool, n) ==
    LET w(b) == VictimWeight(s, b)
    IN  {l \in [1 .. n -> pool] :
            /\ \A i, j \in 1 .. n : i < j => l[i] # l[j] /\ w(l[i]) <= w(l[j])
            /\ \A c \in pool \ Range(l) : \A i \in 1 .. n : w(l[i]) <= w(c)}

\* randomRange of POLICY_RANDOM and POLICY_DCHOICE.
SampleSize(n) == IF EvictPolicy = "RANDOM" THEN n ELSE DChoiceParam * n

\* selectVictimBlock: the victim lists for every nBlocks the build can
\* compute.  The random policies first draw randomRange distinct
\* candidates (every such set is a possible draw), then sort those; the
\* others sort all candidates.  Either way MIN(nBlocks, size) are taken.
VictimLists(s) ==
    LET C == VictimCandidates(s)
        Take(pool, n) == IF n < Cardinality(pool) THEN n ELSE Cardinality(pool)
    IN  UNION {
          CASE EvictPolicy \in {"GREEDY", "RECO"} ->
                 LightestLists(s, C, Take(C, n))
            [] EvictPolicy = "COST_BENEFIT" ->
                 {l \in [1 .. Take(C, n) -> C] : IsInjective(l)}
            [] EvictPolicy \in {"RANDOM", "DCHOICE"} ->
                 UNION {LightestLists(s, S, Take(S, n)) :
                            S \in kSubset(SampleSize(n), C)}
          : n \in ReclaimCounts(s)}

\* How the sampling loop of the random policies fails: with no candidate,
\* dist(0, size - 1) spans all of uint64 and weight.at(idx) throws
\* std::out_of_range, which nothing catches; with fewer candidates than
\* randomRange every one is drawn and marked and the loop never ends.
SamplingFailures(s) ==
    LET k == Cardinality(VictimCandidates(s))
    IN  IF EvictPolicy \notin {"RANDOM", "DCHOICE"} THEN {}
        ELSE {IF k = 0 THEN "std::out_of_range in victim sampling"
              ELSE "victim sampling never ends" :
                  n \in {n \in ReclaimCounts(s) : SampleSize(n) > k}}

\* "if (freeBlockRatio() < gcThreshold) { selectVictimBlock;
\* doGarbageCollection }", as writeInternal and refreshPage run it;
\* selectVictimBlock clears bReclaimMore, and panics on a GC mode or
\* policy config.hh does not define.
GcIfNeeded(s) ==
    LET s1 == [s EXCEPT !.bReclaimMore = FALSE]
    IN  IF ~FreeRatioLow(s) THEN {s}
        ELSE IF GcMode \notin {0, 1} THEN {Panic(s, "Invalid GC mode")}
        ELSE IF EvictPolicy \notin Policies
        THEN {Panic(s1, "Invalid evict policy")}
        ELSE {DoGarbageCollection(s1, l) : l \in VictimLists(s)}
             \cup {Panic(s1, m) : m \in SamplingFailures(s)}

-----------------------------------------------------------------------------
(* Host operations.                                                         *)

\* Mutant of WriteInternal: the old copy of the LPN is not invalidated.
WriteInternalKeepOld(s, lpn) ==
    LET s2 == GetLastFreeBlock(s)
        s3 == WriteToFreeBlock(s2, lpn)
    IN  IF ~Ok(s2) THEN {s2}
        ELSE IF ~Ok(s3) THEN {s3}
        ELSE GcIfNeeded(s3)

\* writeInternal(req, tick, true): invalidate the old copy, write the LPN
\* at the cursor, enrol its layer, then GC if the free ratio tripped.
WriteInternal(s, lpn) ==
    LET old == s.table[lpn]
        s1  == IF old = NoMapping THEN s
               ELSE [s EXCEPT !.pageState[old[1]] = Invalidate(@, old[2])]
        s2  == GetLastFreeBlock(s1)
        s3  == WriteToFreeBlock(s2, lpn)
    IN  IF ~Ok(s2) THEN {s2}
        ELSE IF ~Ok(s3) THEN {s3}
        ELSE GcIfNeeded(s3)

\* trimInternal(req).
TrimInternal(s, lpn) ==
    LET m == s.table[lpn]
    IN  IF m = NoMapping THEN s
        ELSE IF m[1] \notin s.blocks THEN Panic(s, "Block is not in use")
        ELSE [s EXCEPT !.pageState[m[1]] = Invalidate(@, m[2]),
                       !.table[lpn] = NoMapping]

\* Block::invalidate on every <<block, page>> of locs.
InvalidateAll(ps, locs) ==
    [b \in DOMAIN ps |-> [p \in PageIdx |->
        IF <<b, p>> \in locs THEN Invalidate(ps[b], p)[p] ELSE ps[b][p]]]

\* format(range): trim every mapped LPN in the range, then GC exactly the
\* blocks those LPNs were on, in ascending block order, whether or not
\* they are full.
FormatRange(s, range) ==
    LET hit == {l \in range : s.table[l] # NoMapping}
        lost == {l \in hit : s.table[l][1] \notin s.blocks}
        list == SetToSortSeq({s.table[l][1] : l \in hit}, <)
        s1 == [s EXCEPT !.pageState = InvalidateAll(@, {s.table[l] : l \in hit}),
                        !.table = [l \in LPNs |-> IF l \in hit THEN NoMapping
                                                 ELSE @[l]]]
    IN  IF lost # {} THEN Panic(s, "Block is not in use")
        ELSE DoGarbageCollection(s1, list)

-----------------------------------------------------------------------------
(* The periodic refresh event.                                              *)

\* refreshedPageCount is read only by the weights of POLICY_RECO; under the
\* other policies no step depends on it and the model keeps it at 0.
TracksRefreshedCount == EvictPolicy = "RECO"

\* The copy loop of refreshPage for one layer of block b: CopyPages, and
\* one increment of b's refreshedPageCount per page copied, which is one
\* per page of the layer the loop turned from written to Dirty.
RefreshLayer(s, b, layer) ==
    LET t      == CopyPages(s, b, layer, LayersPerBlock)
        copied == {p \in PageIdx : p % LayersPerBlock = layer
                                   /\ s.pageState[b][p] # Dirty
                                   /\ t.pageState[b][p] = Dirty}
    IN  IF Ok(t) /\ TracksRefreshedCount
        THEN [t EXCEPT !.refreshedPageCount[b] = @ + Cardinality(copied)]
        ELSE t

\* The drain loop of refreshPage(queueNum), i counting loop iterations.
RECURSIVE Drain(_, _, _)
Drain(s, q, i) ==
    IF i >= MaxRefreshLayer \/ s.checkedQueues[q] = <<>> \/ ~Ok(s) THEN s
    ELSE LET id == Head(s.checkedQueues[q])
             s1 == [s EXCEPT !.checkedQueues[q] = Tail(@)]
             s2 == [s1 EXCEPT !.insertedLayerCheck = @ \ {id}]
         IN  IF q # s.layerQueueNum[id] THEN Drain(s1, q, i + 1)
             ELSE IF id \notin s.insertedLayerCheck
             THEN Panic(s1, "Corrupted layer check bitmap")
             ELSE IF id[1] \notin s.blocks THEN Drain(s2, q, i + 1)
             ELSE Drain(RefreshLayer(s2, id[1], id[2]), q, i + 1)

\* refreshPage(queueNum): GC if the free ratio tripped, drain up to
\* maxRefreshLayer layers of checkedQueues[queueNum], GC again if needed.
RefreshPage(s, q) ==
    UNION {GcIfNeeded(Drain(s1, q, 0)) : s1 \in GcIfNeeded(s)}

\* refresh_event(tick): the target queue (refreshCallCount + 1) % N swaps
\* its two deques, refreshPage(target) runs, and refreshCallCount is
\* incremented.  Before it, one more refresh period has passed for every
\* stored page.
RefreshEventResults(s) ==
    LET t  == (s.curQueue + 1) % NumQueues
        s0 == [s EXCEPT
                 !.checkedQueues[t] = s.refreshQueues[t],
                 !.refreshQueues[t] = s.checkedQueues[t],
                 !.age = [b \in Blocks |-> [p \in PageIdx |->
                            IF IsValidPage(s.pageState[b], p)
                            THEN IF @[b][p] < NumQueues THEN @[b][p] + 1
                                 ELSE NumQueues
                            ELSE 0]]]
    IN  {[s1 EXCEPT !.curQueue = t] : s1 \in RefreshPage(s0, t)}

-----------------------------------------------------------------------------

\* The constructor: every block on the free list in index order, then one
\* getFreeBlock per channel; initialize() creates the empty queues.
RECURSIVE AllocCursors(_, _)
AllocCursors(s, i) ==
    IF i >= PageCountToMaxPerf THEN s ELSE AllocCursors(GetFreeBlock(s, i), i + 1)

InitState ==
    AllocCursors(
        [blocks |-> {}, freeBlocks |-> [i \in 1 .. TotalBlocks |-> i - 1],
         eraseCount |-> [b \in Blocks |-> InitEraseCount],
         pageState |-> [b \in Blocks |-> ErasedBlock],
         table |-> [l \in LPNs |-> NoMapping],
         lastFreeBlock |-> [c \in Channels |-> 0], lastFreeBlockIndex |-> 0,
         lastFreeBlockIOMap |-> FALSE, bReclaimMore |-> FALSE,
         refreshQueues |-> [q \in Queues |-> <<>>],
         checkedQueues |-> [q \in Queues |-> <<>>],
         insertedLayerCheck |-> {},
         layerQueueNum |-> [id \in LayerIDs |-> 0], curQueue |-> 0,
         refreshedPageCount |-> [b \in Blocks |-> 0],
         age |-> [b \in Blocks |-> NoAge], panicked |-> "none"], 0)

Init == Holds(InitState)

Write(lpn) == Ok(St) /\ \E t \in WriteInternal(St, lpn) : Apply(t)

Trim(lpn) == Ok(St) /\ Apply(TrimInternal(St, lpn))

Format(range) == Ok(St) /\ Apply(FormatRange(St, range))

RefreshEvent == Ok(St) /\ \E t \in RefreshEventResults(St) : Apply(t)

\* The LPN ranges format can be given: slpn .. slpn + nlp - 1.
LPNRanges == {{l \in LPNs : lo <= l /\ l <= hi} : lo, hi \in LPNs}

Next ==
    \/ \E l \in LPNs : Write(l)
    \/ \E l \in LPNs : Trim(l)
    \/ \E r \in LPNRanges : Format(r)
    \/ RefreshEvent

Spec == Init /\ [][Next]_vars

\* The tick of refresh_event: refreshCallCount, and with it cur_queue,
\* advances.  Only RefreshEvent changes curQueue, and it does so in every
\* step it takes, so a <<RefreshTick>>_curQueue step is a RefreshEvent step
\* and RefreshTick is enabled exactly when RefreshEvent is (no panic yet).
RefreshTick == Ok(St) /\ curQueue' = (curQueue + 1) % NumQueues

\* initialize() allocates refreshEvent and reschedules it every refresh
\* period from its own handler, whatever the host does, so a refresh event
\* that stays enabled is eventually taken: weak fairness of the refresh
\* tick, which is weak fairness of RefreshEvent.  It is stated on the tick
\* because TLC evaluates ENABLED RefreshEvent through the whole recursive
\* drain.  Host requests get no fairness: the host may stop or repeat any
\* request forever.
RefreshFairness == WF_curQueue(RefreshTick)

FairSpec == Spec /\ RefreshFairness

-----------------------------------------------------------------------------
(* Properties.  A panic stops the simulator, so the safety properties are  *)
(* stated of the states in which it still runs.                            *)

Locations == Blocks \X PageIdx

TypeOK ==
    /\ blocks \subseteq Blocks
    /\ freeBlocks \in Seq(Blocks)
    /\ eraseCount \in [Blocks -> InitEraseCount .. BadBlockThreshold]
    /\ pageState \in [Blocks -> [PageIdx -> LPNs \cup {Erased, Dirty}]]
    /\ table \in [LPNs -> Locations \cup {NoMapping}]
    /\ lastFreeBlock \in [Channels -> Blocks]
    /\ lastFreeBlockIndex \in Channels
    /\ {lastFreeBlockIOMap, bReclaimMore} \subseteq BOOLEAN
    /\ refreshQueues \in [Queues -> Seq(LayerIDs)]
    /\ checkedQueues \in [Queues -> Seq(LayerIDs)]
    /\ insertedLayerCheck \subseteq LayerIDs
    /\ layerQueueNum \in [LayerIDs -> Queues]
    /\ curQueue \in Queues
    /\ refreshedPageCount \in [Blocks -> 0 .. PagesInBlock]
    /\ age \in [Blocks -> [PageIdx -> 0 .. NumQueues]]
    /\ panicked \in STRING

\* The mapping table and the blocks' page states describe the same data
\* after every write, trim, format, GC and refresh: a mapped LPN points at
\* a valid page of an active block that holds it, and every valid page is
\* the one its LPN is mapped to (so no LPN has two live copies).
MappingConsistent ==
    Ok(St) =>
        /\ \A l \in LPNs : table[l] # NoMapping =>
                /\ table[l][1] \in blocks
                /\ pageState[table[l][1]][table[l][2]] = l
        /\ \A b \in Blocks, p \in PageIdx : IsValidPage(pageState[b], p) =>
                /\ b \in blocks
                /\ table[pageState[b][p]] = <<b, p>>

\* getFreeBlock and eraseInternal keep every block in exactly one place:
\* the free list holds distinct, fully erased blocks that are not active,
\* in nondecreasing erase-count order, and a block that is neither active
\* nor free has been retired at the bad-block threshold.
FreePoolConsistent ==
    Ok(St) =>
        /\ IsInjective(freeBlocks)
        /\ Range(freeBlocks) \cap blocks = {}
        /\ \A i \in 1 .. Len(freeBlocks) : pageState[freeBlocks[i]] = ErasedBlock
        /\ \A i, j \in 1 .. Len(freeBlocks) :
                i < j => eraseCount[freeBlocks[i]] <= eraseCount[freeBlocks[j]]
        /\ \A b \in Blocks \ (blocks \cup Range(freeBlocks)) :
                eraseCount[b] >= BadBlockThreshold

\* Between refresh events every enrolled layer (insertedLayerCheck) sits
\* exactly once in the refresh queue layerQueueNum names and nowhere else,
\* and a layer that is not enrolled is in no queue: insertToQueue,
\* removeFromQueue and the drain of refreshPage never duplicate or lose one.
\* Where the layer sits in the deques, as <<queue, position, deque>>.
Occurrences(id) ==
    LET At(qs, kind) ==
            UNION {{<<q, i, kind>> : i \in {i \in 1 .. Len(qs[q]) : qs[q][i] = id}} :
                   q \in Queues}
    IN  At(refreshQueues, "refresh") \cup At(checkedQueues, "checked")

RefreshQueuesConsistent ==
    Ok(St) =>
        \A id \in LayerIDs :
            IF id \in insertedLayerCheck
            THEN /\ Cardinality(Occurrences(id)) = 1
                 /\ \E i \in 1 .. Len(refreshQueues[layerQueueNum[id]]) :
                        refreshQueues[layerQueueNum[id]][i] = id
            ELSE Occurrences(id) = {}

\* Every valid page is refreshed or moved before its predicted RBER exceeds
\* maxRBER: after the refresh events that have run, no valid page has been
\* stored for Horizon(eraseCount, layer) periods or more.
RefreshDeadline ==
    Ok(St) =>
        \A b \in blocks, p \in PageIdx :
            IsValidPage(pageState[b], p) =>
                age[b][p] < Horizon(eraseCount[b], p % LayersPerBlock)

\* Retention refresh reaches every stored page: whatever the host does, a
\* valid page holding an LPN is eventually moved (by refreshPage's drain or
\* by GC) or superseded, unless the simulator has stopped on a panic.  It
\* needs setRefreshPeriod to enrol every written layer, refresh_event to
\* visit every queue and the drain to copy every valid page of the layer.
PagesEventuallyRefreshed ==
    \A b \in Blocks, p \in PageIdx, l \in LPNs :
        (pageState[b][p] = l) ~> (pageState[b][p] # l \/ panicked # "none")

\* Every write cursor names an active block: the "Sanity check" of
\* getLastFreeBlock (panic "Corrupted") never fails, because no block is
\* erased while a cursor still points at it.
CursorsActive == Ok(St) => \A c \in Channels : lastFreeBlock[c] \in blocks

\* GC keeps enough free blocks for the FTL's own writes: neither a host
\* write nor a refresh copy runs getFreeBlock on an empty free list
\* (panic "No free block left") while no block has been retired.
FreeBlocksSuffice ==
    panicked = "No free block left" =>
        \E b \in Blocks : eraseCount[b] >= BadBlockThreshold

=============================================================================
