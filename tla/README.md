# TLA+ models of the LGR page-mapping FTL

These modules model `src/simplessd/ftl/page_mapping.cc`, the SimpleSSD page-mapping flash translation layer. LGR extends it with layer-grouped retention refresh and hot/cold separation. The per-block state in `src/simplessd/ftl/common/block.cc` is modelled too.

## The system and its parts

| Part | Source | What it does |
|---|---|---|
| Block | `common/block.cc` | Per-page valid and erased bitmaps, an LPN back-pointer, sequential writes, and the erase count |
| Host operations | `page_mapping.cc` `write`, `trim`, `format`, `read` | Map logical pages (LPNs) to physical pages; trigger GC |
| Free pool and write cursors | `getFreeBlock`, `getLastFreeBlock`, `eraseInternal` | A free list kept sorted by erase count. One open block per parallel channel (`lastFreeBlock[]`). Blocks are retired at `badBlockThreshold` |
| Garbage collection | `selectVictimBlock`, `calculateVictimWeight`, `doGarbageCollection` | Picks full blocks under the configured GC mode and victim policy (greedy, cost-benefit, random, d-choice, RECO), copies their valid pages, and erases them |
| Refresh scheduler | `setRefreshPeriod`, `insertToQueue`, `removeFromQueue` | Every written layer (a block and a word-line layer) is enrolled in one of `num_queue` deques. The deque is chosen by the predicted time until the raw bit error rate (RBER) exceeds `maxRBER` |
| Refresh engine | `refresh_event`, `refreshPage` | A periodic event swaps the due deque into `checkedQueues`. It drains up to `maxRefreshLayer` layers and copies their valid pages elsewhere, with GC before and after |
| Hot/cold separation | `sep*`, `getHot/ColdFreeBlock`, `getLastHot/Cool/ColdFreeBlock`, `selectHot/ColdVictimBlock` | A hot pool and a cold pool with their own free lists, three cursor kinds, `hotWindow` and `coolDownWindow`, and separate hot and cold GC |

All of this runs on one simulator event loop. Host requests and refresh events never overlap, but they arrive in any order. The model's nondeterminism is therefore:

- which host operation or refresh event comes next;
- which of several equal-weight GC victims the unstable `std::sort` puts first;
- which candidates the random and d-choice policies draw;
- what the build makes of undefined behaviour (the float-to-uint64 conversion of `GC_MODE_1`).

## Modules

**`FlashBlock`** covers one block with one I/O unit per page.

- A page is `Erased`, `Dirty`, or the LPN it holds. This folds together the two bitmaps and the back-pointer.
- `WriteError` gives the two panics of `Block::write`.
- `Invalidate` is `Block::invalidate`, `ErasedBlock` is `Block::erase`, and `NextWritePageIndex` and `ValidPageCount` are the getters.

**`RefreshScheduler`** covers the refresh queues, as operators on an FTL state record.

- `SetRefreshPeriod` dispatches on `FTL_REFRESH_MODE` (`RefreshMode`):
  - mode 0 enrols the written layer with `InsertToQueue`, at the distance `Horizon` finds (the loop over `i`);
  - mode 1 (`SetRefreshPeriodNeighbours`) lets only the first layer of a group of `GroupingSize` enrol the group, by `InsertToQueue`, at the distance of the group's last layer;
  - modes 2 and 3 (`EnrolGroupUnchecked`) enrol the group of a layer not yet enrolled with the direct push `PushUnchecked`, which, like the code, never writes `layerQueueNum`. Mode 2's group is the same place in the three segments (`SegmentGroup`); mode 3's adds the two neighbours (`CrossGroup`). Their distance, `EccHorizon`, is against the literal 0.00032 (`EccExceeds`).
- The literals 64, 63 and 21 of the group shapes are `LayersPerBlock`, `LayersPerBlock - 1` and `SegmentStride`; an ASSUME keeps `LayersPerBlock = 3 * SegmentStride + 1` in modes 2 and 3.
- The error model lives outside `src/`. It is the constant predicate `RBERExceeds(i, ec, layer)`.
- `InsertToQueue` keeps the code's uint32 subtraction as `UIntSub`.
- `RemoveFromQueue` is `removeFromQueue`.

**`PageMapping`** is the FTL, and it extends both modules above. Its variables are the members of `PageMapping`:

| Variable | Code member |
|---|---|
| `blocks` | the key set of the `blocks` map |
| `freeBlocks` | the free list, in order |
| `eraseCount` | each block's erase count |
| `pageState` | each block's pages |
| `table` | the mapping table |
| `lastFreeBlock`, `lastFreeBlockIndex`, `lastFreeBlockIOMap`, `bReclaimMore` | the cursor state |
| `refreshQueues`, `checkedQueues`, `insertedLayerCheck`, `layerQueueNum` | the refresh queues |
| `curQueue` | `refreshCallCount % num_queue` |
| `refreshedPageCount` | `Block::refreshedPageCount` of every block, kept under `POLICY_RECO`, the only policy that reads it, and 0 otherwise |
| `panicked` | the message of the first `panic()`; a panic is terminal |
| `age` | a ghost: the number of refresh periods since each valid page was written (see `RefreshDeadline`) |

- Each handler is an operator from a state record to a state record, or to a set of them when the code has a choice. It covers the handler's whole body, every call that changes state included.
- Loops are RECURSIVE operators: `CopyPages`, `CopyVictims`, `EraseVictims`, `Drain`.
- The four actions are `Write(lpn)`, `Trim(lpn)`, `Format(range)` and `RefreshEvent`.
  - Each write runs `writeInternal` with its GC.
  - Each refresh event runs `refresh_event`. That includes `refreshPage` with its GC before and after, and the increment of `refreshCallCount` after the drain.
- `Init` is the constructor state with empty refresh queues.
- `VictimLists` is `selectVictimBlock` with `calculateVictimWeight`, under the constants `GcMode`, `EvictPolicy`, `ReclaimThresholdPct`, `DChoiceParam` and `RecoParamPct`:
  - `ReclaimCounts` is `nBlocks`. In `GC_MODE_1` it is `totalPhysicalBlocks * t - nFreeBlocks` converted to uint64. A value at or below -1 is undefined behaviour: x86-64 builds wrap it to a count above every block count (`WrappedCount`), AArch64 builds saturate it to 0;
  - GREEDY, RANDOM and DCHOICE weigh a full block by its valid pages, and RECO by `valid - λ × refreshedPageCount` (scaled by 100). COST_BENEFIT weighs by access times the model does not keep, so it may rank the candidates in any order;
  - `LightestLists` is the unstable sort followed by `MIN(nBlocks, size)`. The random policies first draw any `randomRange` distinct candidates (`kSubset`);
  - `SamplingFailures` are the two ways the sampling loop fails: `weight.at` throws on an empty vector, and the loop never ends when there are fewer candidates than `randomRange`. Both are terminal, like a panic;
  - `GcIfNeeded` panics on a GC mode or policy that `config.hh` does not define.
- `RefreshLayer` is the page loop of `refreshPage` for one layer. Under RECO it adds one to the source block's `refreshedPageCount` per page copied. `GetFreeBlock` resets the count, as line 845 does.

**`MCPageMapping`** instantiates the model for TLC. It defines the RBER predicate `MCRBERExceeds(i, ec, layer) == i >= MinHorizon /\ i + ec + layer >= RBERLimit`. This makes the predicted error grow with time, erase count and layer, the way the error model does.

**`PageStore`** extends `PageMapping` with a ghost variable, `request`: the request the last step served. `StoreSpec` is the workload of writes, trims, formats and refresh events, and `FairStoreSpec` adds `RefreshFairness`. `Readable` is the set of LPNs that `readInternal` would return data for. `PageStore` instantiates `LogicalStore` with `stored <- Readable`, `halted <- panicked # "none"` and the ranges `LPNRanges`. **`MCPageStore`** extends `MCPageMapping` and `PageStore`. The `core` run uses it.

**`SepPageMapping`** is the same FTL with `FTL_HOT_COLD_SEPERATION` on. It extends `FlashBlock` and `RefreshScheduler` and keeps the state-record style of `PageMapping`.

| Variable | Code member |
|---|---|
| `blockType` | `Block::blockType` of every block; it travels with the block through the free lists |
| `hotFreeBlocks`, `coldFreeBlocks` | the two free lists, in order. Blocks below `hotBlocksLimit` form the hot pool |
| `cursor[k][c]`, `cursorIndex[k]`, `cursorIOMap[k]` | `lastHotFreeBlock`, `lastCoolFreeBlock`, `lastColdFreeBlock` with their indices and io maps |
| `hotWindow`, `coolDownWindow` | the two deques of block indices |

The rest is as in `PageMapping`.

- `GetHotFreeBlock` and `GetColdFreeBlock` are `getHotFreeBlock` and `getColdFreeBlock(idx, queueInsert)`. With `queueInsert` the block becomes COOL and joins `coolDownWindow`, and a full window first turns its front block COLD.
- `GetLastSepFreeBlock(s, k)` covers the three `getLast*FreeBlock` functions, which differ only in the cursor kind.
- `SepWriteInternal` routes a rewrite of data in a HOT or COOL block to the hot cursor, and new data or data from a COLD block to the cool cursor. Then it runs cold GC and then hot GC, each when its pool's free ratio is below the threshold.
- `HotGc` takes the front `nBlocks` blocks of `hotWindow`, full or not, capped at the window's length. `HotReclaimCounts` is that `nBlocks`: `ReclaimBlock` in `GC_MODE_0`, and `hotBlocksLimit * t - nHotFreeBlocks` converted to uint64 in `GC_MODE_1`, with the same undefined-behaviour outcomes as the cold count. `bReclaimMore` adds one. `ColdGc` takes the lightest full non-HOT blocks, with every order the unstable sort allows, and removes its victims from `coolDownWindow`. `ColdReclaimCounts` is its `nBlocks` in either GC mode (`coldBlocksLimit * t - nColdFreeBlocks` in mode 1). `ColdWeight` is the GREEDY or RECO weight. `ColdGcPanic` covers every other policy: `calculateColdVictimWeight` panics "Invalid cold victim evict policy".
- `refreshedPageCount` is kept under RECO, as in `PageMapping`, and `SepRefreshLayer` increments it. No allocator of this mode resets it (see `SepRefreshedCountCurrent` under "Not modelled").
- `SepEraseInternal` returns a block to the free list of its type. For a COOL or COLD block that a cursor of its kind still names, it first runs the repair (`getColdFreeBlock(index, true)`). That repair runs between the reverse scan and the `emplace`, so the model tracks where the scan's iterator ends up. When the repair removes the very node the scan stopped at, the model records the undefined `emplace` as the terminal outcome "emplace at an erased list iterator".
- `SepFormatRange` is `format` with `sepDoGarbageCollection(list, ..., COLD)`. `SepRefreshPage` runs cold GC before and after the drain. The drain copies a COLD block's layer to the cold cursor and any other layer to the cool cursor.

The `age` ghost and `RefreshDeadline` are not repeated here. The refresh queues are the shared `RefreshScheduler` code, already checked in `core`, and `age` multiplies the larger state space.

**`SepStore`** extends `SepPageMapping` with a ghost variable, `request`: the request the last step served (`<<"write", lpn>>`, `<<"trim", lpn>>` or `<<"refresh">>`). Its `StoreSpec` is the host workload of writes, trims and refresh events. `Readable` is the set of LPNs that `readInternal` would return data for: LPNs mapped to a page that still holds them.

**`LogicalStore`** is the abstract specification, what the FTL promises the host.

- `stored` is a set of LPNs. `Write(k)` adds `k`, `Trim(k)` removes it, `Format(r)` removes the range, and `Maintain` (a refresh event) changes nothing.
- `Halt` (a panic) may leave anything, and nothing follows it.

`SepStore` instantiates it as `Store` with the refinement mapping `stored <- Readable`, `halted <- panicked # "none"`, `request <- request` and no format ranges. The ghost is needed because, without it, a GC step that lost an LPN would pass as an abstract `Trim`. The ghost lives in its own module because it triples the state space of `sep_core`.

**`MCSepStore`** extends `MCSepPageMapping` and `SepStore`. Under RECO, and with nothing to reset it, `refreshedPageCount` grows with every refresh copy, so `MCSepStore.cfg` bounds the search with the `CONSTRAINT` `RefreshedCountBound` (`MaxRefreshedCount = 2`).

**`MCSepPageMapping`** uses the same RBER stand-in. `NoFormatRanges` replaces `LPNRanges` in the violation runs about a workload without `format()`.

**`SepInitialize`** extends `SepPageMapping` with the warm-up of `initialize()` (lines 135–327) in separation mode. `WarmInit` is every state `initialize()` can leave from the constructor's, and `WarmSpec` continues with the host operations and refresh events of `SepPageMapping`.

- Step 1 in the sequential filling modes writes LPNs `0 .. ColdWarmupPages - 1` through `SepWarmWriteInternal`. That is `sepWriteInternal(req, tick, false)`, which panics where it would run GC. The remaining warm-up LPNs go through `SepHotWriteInternal`, which writes at the hot cursor and, like the code, enrols nothing.
- In random filling mode, and in step 2 of every mode, `initialize()` calls the unseparated `writeInternal`. With separation on, the constructor leaves `lastFreeBlock` at 0 and `freeBlocks` empty while `nFreeBlocks` counts every block. `UnsepWriteInternal` therefore writes to block 0 and enrols the layer. Once block 0 is full it ends in `EmptyFreeListUB`, the undefined behaviour of `getFreeBlock` on the empty list.
- The random generators become sets of LPN sequences (`FillSequences`, `InvalidateSequences`). The warm-up sizes are constants: `WarmupPages`, `ColdWarmupPages` and `InvalidatePages`, the last after its adjustment.

**`MCSepInitialize`** extends `MCSepPageMapping` and `SepInitialize`.

## Runs

The `PageMapping` runs all use the same geometry:

- 3 blocks of 2 pages, 1 layer per block;
- 1 channel and 2 LPNs;
- GC below 40% free blocks, 1 victim, bad blocks at 3 erases;
- 3 refresh queues, `maxRefreshLayer` 8, `bRandomTweak` off.

This is the smallest geometry where GC, block retirement, re-enrolment and every queue position all occur. `PageMapping` alone has about 51 000 distinct states. The pass run adds the `request` ghost of `PageStore`, for about 201 000 states and two minutes with both temporal properties. With 4 blocks and 3 LPNs the state space exceeds a million states.

| Run | cfg | Expect | What it shows |
|---|---|---|---|
| core | `MCPageStore.cfg` (module `MCPageStore`) | pass | See below |
| format_stale_cursor | `MCPageMapping_cursor.cfg` | violation of `CursorsActive` | See below |
| refresh_horizon_one | `MCPageMapping_horizon1.cfg` (`MinHorizon = 1`) | violation of `RefreshDeadline` | See below |
| drain_leftovers | `MCPageMapping_drain.cfg` (`maxRefreshLayer = 1`) | violation of `RefreshQueuesConsistent` | See below |
| refresh_segments_stuck | `MCPageMapping_segments.cfg` (mode 2) | violation of `PagesEventuallyRefreshed` | See below |
| refresh_exhausts_free_blocks | `MCPageMapping_exhaust.cfg` | violation of `FreeBlocksSuffice` | See below |

**core (pass)** shows these invariants hold under every interleaving:

- **`MappingConsistent`**: the mapping table and the physical pages agree, one to one.
- **`FreePoolConsistent`**:
  - the free list has no duplicates;
  - it is disjoint from the blocks in use;
  - it is fully erased and sorted by erase count;
  - every block that is neither in use nor free has been retired.
- **`RefreshQueuesConsistent`**: an enrolled layer is in exactly one deque, the one `layerQueueNum` names.
- **`RefreshDeadline`**: no valid page is older than its horizon, provided no layer needs a refresh within one period.

The run also checks one liveness property under `FairSpec`:

- **`PagesEventuallyRefreshed`**: a physical page that holds an LPN is eventually rewritten (refreshed, overwritten, trimmed or garbage-collected), or a panic stops the simulator. No page is left in a block that no refresh queue will ever reach.

It checks one refinement, under `FairStoreSpec`:

- **`PageImplementsLogicalStore`** (`Store!Spec` of `PageStore`): the FTL without separation implements `LogicalStore`, `format` included. A write makes its LPN readable, a trim makes exactly that LPN unreadable, and a format makes exactly its range unreadable. No GC, erase, retirement or refresh drain changes what the host can read. That includes format's GC of the partly written blocks its LPNs were on, which moves the pages of LPNs outside the range. A format that erases the cursor ends in a panic on the next write (`format_stale_cursor`), which the abstract `Halt` allows.

**format_stale_cursor.** `format()` garbage-collects the open cursor block. `eraseInternal` never replaces `lastFreeBlock`, so the next write panics "Corrupted".

**refresh_horizon_one.** `refreshCallCount` is incremented after the drain, so a layer enrolled during the event with horizon 1 goes into the deque just swapped out. It is refreshed NumQueues periods late.

**drain_leftovers.** Leftovers beyond `maxRefreshLayer` stay in `checkedQueues`, where `removeFromQueue` cannot find them. A re-enrolment then duplicates the layer.

**refresh_segments_stuck.** Grouping mode 2 with 4 layers (`SegmentStride = 1`, so 4 = 3 × 1 + 1) and one LPN. One host write enrols layers 0–2 of its block in queue 1 by the direct push, which never sets `layerQueueNum`; it stays 0. When queue 1 drains, `refreshPage` compares the queue with `layerQueueNum` (line 1234), skips the layers and leaves their check bits set. Mode 2 enrols only layers whose bit is clear, so the page is never refreshed again. Mode 3 shares the push. The same run with `RefreshMode = 1`, `LayersPerBlock = 2` and `GroupingSize = 2` shows mode 1's own gap: a page of the second layer written after its group drained is never enrolled, because only a group's first layer enrols it.

The uint32 subtraction in `insertToQueue` (line 649) can move an enrolled layer to a nearer deque, although spec §4.5 and the code comment say a horizon is never shortened. The wrap is what keeps a reused layer ID on time: the signed comparison (mutant `InsertToQueueSigned`) breaks `RefreshDeadline`.

**refresh_exhausts_free_blocks.** The drain copies without GC (the TODO in `refreshPage`) and re-copies pages that land in still-due layers. It empties the free list while no block is retired.


### Mutants

Each property of the pass run is broken by one plausible bug in the code it is about:

| Property | Mutant | What the mutant does |
|---|---|---|
| `TypeOK` | `EraseInternalRetireLate` | Retires a block one erase too late |
| `MappingConsistent` | `WriteInternalKeepOld` | Does not invalidate the old copy of an overwritten LPN |
| `FreePoolConsistent` | `EraseInternalInsertBefore` | Inserts before, not after, the last block with an equal erase count |
| `RefreshQueuesConsistent` | `RemoveFromQueueInChecked` | Searches the wrong deque |
| `RefreshDeadline` | `InsertToQueueSigned` | Does the subtraction in signed arithmetic, as spec §4.5 reads |
| `PagesEventuallyRefreshed` | `SetRefreshPeriodNoFallback` | Drops the `i == num_queue` fallback of `setRefreshPeriod`, so a layer whose horizon is the whole ring is never enrolled |

The last mutant matters. With the behaviour the spec describes, a layer ID reused after its block is erased keeps its old, late enrolment and misses its deadline. The unsigned wrap of the code is what saves it.

### Hot/cold separation runs

The `SepPageMapping` runs use 5 blocks of 2 pages, the first 2 of them hot. So the hot pool is a cursor plus one free block, and the cold pool is the cool cursor, the cold cursor and one free block. The other settings are:

- a cool-down window of 1, 1 channel and 2 LPNs;
- GC below 40% free in a pool, 1 victim, bad blocks at 2 erases (3 or 4 where noted);
- 2 refresh queues, `maxRefreshLayer` 8;
- `MinHorizon = 1`, `RBERLimit = 2`, so a layer is due after 1 or 2 periods depending on its erase count.

At this size hot GC, cold GC, window demotion, the cursor repair and retirement all happen within about ten steps. `sep_core` has about 228 000 distinct states. It takes about 30 seconds for the invariants and about two minutes with the liveness property. With 6 blocks, or with 3 queues, the state space passes a million states.

| Run | cfg | Expect | What it shows |
|---|---|---|---|
| sep_core | `MCSepPageMapping.cfg` | pass | See below |
| sep_windows | `MCSepStore.cfg` (no `format`) | pass | `WindowsConsistent`, `ImplementsLogicalStore` |
| sep_format_windows | `MCSepPageMapping_formatwin.cfg` | violation of `WindowsConsistent` | See below |
| sep_hot_gc_cursor | `MCSepPageMapping_hotgc.cfg` (no `format`, bad blocks at 4) | violation of `SepCursorsActive` | See below |
| sep_warmup_unenrolled | `MCSepInitialize.cfg` (GC below 30%, warm-up of 2 LPNs, 1 of them cold) | violation of `PagesEnrolled` | See below |
| sep_erase_dangling | `MCSepPageMapping_dangling.cfg` (bad blocks at 3) | violation of `NoDanglingInsert` | See below |

**sep_core (pass)** checks these invariants:

- **`SepMappingConsistent`**: as `MappingConsistent`, through both GCs and both refresh cursors.
- **`PoolsConsistent`**:
  - each free list is injective, erased, inactive, in its own pool and sorted by erase count;
  - exactly the hot pool's blocks are HOT;
  - a block that is neither active nor free is retired.
- **`RefreshQueuesConsistent`**: as in `core`.
- **`SepPagesEventuallyRefreshed`** (a `PROPERTY`, under `FairSpec`): every page holding an LPN is eventually moved, superseded or stopped by a panic. This is `PagesEventuallyRefreshed` of `core` with separation on. The drain copies to the cool or cold cursor, and cold GC runs before and after it.
- **`PagesEnrolled`**: the layer of every valid page is in `insertedLayerCheck`, so a later refresh event drains it. Host writes, both GCs and the drain must all enrol, and the drain clears a layer's bit before it copies the layer's pages to layers it enrols.

**sep_windows (pass)** checks the workload without `format`, with cold GC in `GC_MODE_1` (t = 0.7) under `POLICY_RECO` with λ = 1. Refreshed page counts up to 2 are explored, stale ones from earlier lives of a block included. The run has about 423 000 states and takes under a minute:

- **`WindowsConsistent`**: `hotWindow` lists exactly the active HOT blocks and `coolDownWindow` exactly the active COOL ones, each once, and the cool-down window never exceeds its size.
- **`ImplementsLogicalStore`** (`Store!Spec`, checked as a `PROPERTY`): the FTL refines `LogicalStore`. A write makes its LPN readable, and a trim makes exactly that LPN unreadable. No cold or hot GC, erase, retirement, cursor repair or refresh drain makes an LPN readable or unreadable. A GC that skips a valid page is caught by the code itself: `sepEraseInternal` panics "There are valid pages in victim block". What the refinement adds is a copy whose mapping and target page disagree.

**sep_format_windows.** `format` erases blocks without removing them from either window. The windows then name free blocks.

**sep_hot_gc_cursor.** The hot cursor fills, and `getLastHotFreeBlock` takes the last hot free block and sets `bReclaimMore`. Hot GC then takes two blocks from the front of `hotWindow`, the new cursor among them, and `sepEraseInternal` has no repair for HOT blocks. The next hot write would panic "Corrupted".

The same property also catches a cool cursor block that cold GC retires at the bad-block threshold. The repair sits inside `if (erasedCount < threshold)`, so the cursor is left naming a retired block. With bad blocks at 2, TLC finds that trace first.

**sep_warmup_unenrolled.** The warm-up writes LPN 0 through `sepWriteInternal`, which enrols it, and LPN 1 through `sepHotWriteInternal`, which does not. The initial state already violates `PagesEnrolled`: LPN 1 is valid in block 0, and layer `<<0, 0>>` is in no queue. The spec (4.5 and property 6) says every write enrols its layer. With `FTL_HOT_BLOCK_RATIO` 0.1, the last tenth of the warm-up data is never refreshed until the host rewrites it or GC copies it. GC is set below 30% here, because at 40% the first cold warm-up write already trips cold GC, and `initialize()` panics.

With `InvalidatePages = 2`, the same cfg reaches `EmptyFreeListUB` in every initial state. Step 2 fills block 0 through `writeInternal`, and the next write runs `getFreeBlock` on the empty list.

An earlier run, `sep_cold_cursor_cool`, found that the cold cursor repair allocates with `queueInsert = true` (line 2101). The cold cursor becomes a COOL block of `coolDownWindow`, against the comment "false if cold block refresh". The run was retired in favour of the warm-up run, whose finding persists into normal operation. Hazard 2101 records the divergence.

**sep_erase_dangling.** Format erases the cool cursor, and then the cold cursor. The second repair takes the head of the cold free list, which is the node the reverse scan stopped at because its erase count is higher. The `emplace` then uses an erased iterator.

| Property | Mutant | What the mutant does |
|---|---|---|
| `TypeOK` | `RetiredLate` | Retires a block one erase too late |
| `SepMappingConsistent` | `SepTrimInternalKeepMapping` | Trim invalidates the page but keeps the mapping |
| `PoolsConsistent` | `ReturnsToHotListWarm` | Returns COOL blocks to the hot free list |
| `RefreshQueuesConsistent` | `RemoveFromQueueInChecked` | As in `core` |
| `SepPagesEventuallyRefreshed` | `SepRefreshEventResultsNoSwap` | The refresh event drains `checkedQueues[t]` without first swapping `refreshQueues[t]` into it |
| `PagesEnrolled` | `SepCopyPageNoEnrol` | A GC or refresh copy is written and mapped without `setRefreshPeriod` |
| `WindowsConsistent` | `ColdGcKeepWindow` | Cold GC leaves its victims in `coolDownWindow` |
| `ImplementsLogicalStore` | `SepCopyPageSourceIndex` | Sets the new mapping's page to the source `pageIndex` rather than `newPageIdx` |

## Bounds and fairness

- **Counters are bounded by the geometry.**
  - Erase counts stop at `BadBlockThreshold`, because a block is retired there.
  - `age` is capped at `NumQueues`.
  - `curQueue` is kept modulo `NumQueues`.
- **The modulus.** `UIntModulus` is 65536. The operands of the uint32 subtraction are below `2*NumQueues`, so any modulus above `2*NumQueues + 24` decides `> 24` as 2^32 does.
- **Fairness.** `FairSpec` assumes weak fairness of `RefreshEvent` only.
  - `initialize()` allocates `refreshEvent`, and its handler reschedules itself every period, whatever the host does. A refresh event that stays enabled is therefore eventually taken.
  - Host requests get no fairness: the host may stop, or repeat one request forever.
  - `RefreshFairness` is `WF_curQueue(RefreshTick)`, where `RefreshTick` is the tick `Ok(St) /\ curQueue' = (curQueue + 1) % NumQueues` (line 382, `refreshCallCount++`). Only `RefreshEvent` changes `curQueue`, it does so in every step, and it is enabled exactly when no panic has happened, so this is weak fairness of `RefreshEvent`. TLC does not cache `LET` values inside `ENABLED`, and `ENABLED RefreshEvent` through the recursive drain made no progress; the tick's `ENABLED` is immediate.
  - `SepPageMapping` states the same fairness on its own tick, and `sep_core` uses its `FairSpec`. The other hot/cold runs check invariants only and use `Spec`.
- **Deadlock.** Deadlock checking is off because a `panic()` aborts the simulator. The model keeps the panic message and stops there. Without a panic, `RefreshEvent` is always enabled.

## Not modelled (yet)

- **Hot/cold separation.**
  - `SepRefreshedCountCurrent` states what spec.md says of allocation: it resets `refreshedPageCount`. Only `getFreeBlock` does; `getHotFreeBlock` and `getColdFreeBlock` never do. With `EvictPolicy = "RECO"` in `MCSepPageMapping.cfg`, TLC finds it violated in 5 states. A refresh event copies both pages out of cold block 2, GC erases the block, and a write allocates it again with a count of 2 and no Dirty page. RECO's cold weight then charges the block for refreshes of its earlier life. Every run slot holds a finding or a check the project keeps, so the hazard at line 2424 records this trace.
- **Grouping modes in the pass runs.** The pass runs use mode 0, the default; modes 1–3 fail `PagesEventuallyRefreshed`, so there is no mode in which to check them for safety that would add to `core`.
- **Bitset sizing.** `insertedLayerCheck` and `layerQueueNum` are sized `totalPhysicalBlocks * pagesInBlock / 8` (lines 190–198) but indexed up to `totalPhysicalBlocks * 64`. The model names a layer by a pair and has no such bound; the overflow needs fewer than 512 pages per block at sizes TLC cannot reach.
- **Policies and GC modes in the runs.** Every policy and both GC modes are modelled. `core` and `sep_core` run the default, GREEDY in `GC_MODE_0`; `sep_windows` runs cold GC under RECO in `GC_MODE_1`.
  - No run uses RANDOM or DCHOICE. The sampling loop never ends when `randomRange` exceeds the number of full blocks. In the instances TLC can explore, that happens at the third write of `core`'s geometry: `bReclaimMore` adds `pageCountToMaxPerf` while one block is full. A run would report the small geometry rather than the code.
  - The `GC_MODE_1` underflow (line 967) needs `FTL_GC_RECLAIM_THRESHOLD` below `FTL_GC_THRESHOLD_RATIO`, because GC runs only when `nFreeBlocks < gcThreshold * totalPhysicalBlocks`. The defaults are 0.1 and 0.05, and `sep_windows` uses 0.7 and 0.4.
  - COST_BENEFIT ranks in any order, because the model keeps no timestamps.
- **Warm-up.**
  - Without separation, the models start from the constructor state. The unseparated warm-up is `writeInternal` without GC, which `core` already checks.
  - The float arithmetic that sizes the warm-up (`nPagesToWarmup`, `coldWarmup`, and the `maxPagesBeforeGC` adjustment of `nPagesToInvalidate`) is replaced by constants. TLC has no floats.
  - There is no pass run from the warmed-up state. After the warm-up the model is `SepPageMapping`, whose operations `sep_core` checks from the constructor state. `MCSepInitialize.cfg` with the other four `sep_core` invariants passes, with 170 000 states in 18 s.
- **Other refresh work.** A refinement of `PageMapping` against an abstract "every page is refreshed before its RBER horizon" specification is planned.
- **Statistics.** Statistics, wear levelling and timing (`tick`, latencies, PAL requests) change nothing the FTL decides.
- **Reads.** `read` only updates timestamps.
- **Outside `src/`.** `Bitset` and the error model are defined outside `src/`. The error model is the `RBERExceeds` constant.
- **Legacy code.** Lines 2883–3101 of `page_mapping.cc` are commented out.
