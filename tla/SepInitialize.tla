--------------------------- MODULE SepInitialize ----------------------------
(***************************************************************************)
(* PageMapping::initialize() with hot/cold separation on: the warm-up that *)
(* runs before the first refresh event, followed by the host operations    *)
(* and refresh events of SepPageMapping.                                   *)
(*                                                                         *)
(* Step 1 (filling) writes LPNs 0 .. WarmupPages - 1.  In the sequential   *)
(* filling modes the first ColdWarmupPages go through sepWriteInternal     *)
(* without GC and the rest through sepHotWriteInternal; in the random mode *)
(* every write goes through the unseparated writeInternal.  Step 2         *)
(* (invalidating) rewrites InvalidatePages LPNs through writeInternal in   *)
(* every mode.  writeInternal allocates through lastFreeBlock and the      *)
(* unseparated free list, which the constructor leaves unset when          *)
(* separation is on: every such write goes to block 0.                     *)
(***************************************************************************)
EXTENDS SepPageMapping

CONSTANTS
    FillingMode,        \* FTL_FILLING_MODE: 0 and 1 sequential, 2 random
    WarmupPages,        \* nPagesToWarmup
    ColdWarmupPages,    \* coldWarmup = nPagesToWarmup * coldRatio
    InvalidatePages     \* nPagesToInvalidate, after its adjustment

ASSUME FillingMode \in 0 .. 2
ASSUME WarmupPages \in 0 .. LogicalPages
ASSUME ColdWarmupPages \in 0 .. WarmupPages
ASSUME InvalidatePages \in 0 .. LogicalPages
ASSUME FillingMode = 1 /\ InvalidatePages > 0 => WarmupPages > 0

\* The undefined behaviour of getFreeBlock on the empty unseparated free
\* list: nFreeBlocks still counts every block, so the search starts at
\* freeBlocks.begin() = end(), reads a block index from the list sentinel,
\* moves a Block out of it and erases end().  No outcome of that is a
\* state the FTL can continue from; it ends the run like a panic.
EmptyFreeListUB == "getFreeBlock on the empty unseparated free list"

\* writeInternal(req, tick, false) on the separated state: invalidate the
\* old copy; getLastFreeBlock names lastFreeBlock[i] = 0 for every i, and
\* once block 0 is full getFreeBlock runs on the empty free list.  The
\* page is written and its layer enrolled.  nFreeBlocks is never
\* decremented, so freeBlockRatio() stays 1 and no GC follows.
UnsepWriteInternal(s, lpn) ==
    LET old == s.table[lpn]
        s1  == IF old = NoMapping THEN s
               ELSE [s EXCEPT !.pageState[old[1]] = Invalidate(@, old[2])]
        np  == NextWritePageIndex(s1.pageState[0])
    IN  IF 0 \notin s1.blocks THEN Panic(s1, "Corrupted")
        ELSE IF IsFull(s1.pageState[0]) THEN Panic(s1, EmptyFreeListUB)
        ELSE IF WriteError(s1.pageState[0], np) # "none"
        THEN Panic(s1, WriteError(s1.pageState[0], np))
        ELSE SetRefreshPeriod(
                [s1 EXCEPT !.pageState[0] = WritePage(@, np, lpn),
                           !.table[lpn] = <<0, np>>],
                s1.eraseCount[0], 0, np % LayersPerBlock)

\* sepWriteInternal(req, tick, false): the write, and a panic instead of
\* either GC.
SepWarmWriteInternal(s, lpn) ==
    LET s3 == SepWriteData(s, lpn)
    IN  IF ~Ok(s3) THEN s3
        ELSE IF ColdRatioLow(s3)
        THEN Panic(s3, "ftl: GC triggered while in initialization by cold")
        ELSE IF HotRatioLow(s3)
        THEN Panic(s3, "ftl: GC triggered while in initialization by hot")
        ELSE s3

\* sepHotWriteInternal(req, tick, false): new data, and data whose old copy
\* is HOT, is written at the hot cursor; the layer is not enrolled.
SepHotWriteInternal(s, lpn) ==
    LET old == s.table[lpn]
        s1  == IF old = NoMapping THEN s
               ELSE [s EXCEPT !.pageState[old[1]] = Invalidate(@, old[2])]
        s2  == GetLastSepFreeBlock(s1, "lastHotFreeBlock")
        b   == CurrentBlock(s2, "lastHotFreeBlock")
        np  == NextWritePageIndex(s2.pageState[b])
        s3  == [s2 EXCEPT !.pageState[b] = WritePage(@, np, lpn),
                          !.table[lpn] = <<b, np>>]
    IN  IF old # NoMapping /\ s.blockType[old[1]] # "HOT"
        THEN Panic(s1, "It cannot be cool or cold block")
        ELSE IF ~Ok(s2) THEN s2
        ELSE IF WriteError(s2.pageState[b], np) # "none"
        THEN Panic(s2, WriteError(s2.pageState[b], np))
        ELSE IF ColdRatioLow(s3)
        THEN Panic(s3, "ftl: Cold GC triggered while in hot block filling")
        ELSE IF HotRatioLow(s3)
        THEN Panic(s3, "ftl: Hot GC triggered while in hot block filling")
        ELSE s3

\* The write function a loop of initialize() calls.
WarmWrite(fn, s, lpn) ==
    CASE fn = "sepWriteInternal"    -> SepWarmWriteInternal(s, lpn)
      [] fn = "sepHotWriteInternal" -> SepHotWriteInternal(s, lpn)
      [] fn = "writeInternal"       -> UnsepWriteInternal(s, lpn)

\* One loop of initialize(): the writes of `lpns` in order; a panic ends it.
WarmLoop(fn, s, lpns) ==
    FoldLeft(LAMBDA t, l : IF Ok(t) THEN WarmWrite(fn, t, l) ELSE t, s, lpns)

\* The LPNs i, i + 1, ..., j - 1 of a sequential loop.
Ascending(i, j) == [k \in 1 .. j - i |-> i + k - 1]

\* Step 1: the LPN sequences the filling loop may write, one per outcome of
\* the random generator in mode 2, and its result.
FillSequences ==
    IF FillingMode \in {0, 1} THEN {Ascending(0, WarmupPages)}
    ELSE [1 .. WarmupPages -> LPNs]

Fill(s, lpns) ==
    IF FillingMode \in {0, 1}
    THEN WarmLoop("sepHotWriteInternal",
                  WarmLoop("sepWriteInternal", s,
                           Ascending(0, ColdWarmupPages)),
                  Ascending(ColdWarmupPages, WarmupPages))
    ELSE WarmLoop("writeInternal", s, lpns)

\* Step 2: sequential from LPN 0 in mode 0; uniform over the filled LPNs in
\* mode 1 and over all LPNs in mode 2.
InvalidateSequences ==
    CASE FillingMode = 0 -> {Ascending(0, InvalidatePages)}
      [] FillingMode = 1 -> [1 .. InvalidatePages -> 0 .. WarmupPages - 1]
      [] FillingMode = 2 -> [1 .. InvalidatePages -> LPNs]

\* The states initialize() can leave, from the constructor's.
Initialize(s) ==
    {WarmLoop("writeInternal", Fill(s, f), v) :
        f \in FillSequences, v \in InvalidateSequences}

WarmInit == \E t \in Initialize(SepInitState) : Holds(t)

WarmSpec == WarmInit /\ [][Next]_vars

=============================================================================
