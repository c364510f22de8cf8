-------------------------- MODULE RefreshScheduler --------------------------
(***************************************************************************)
(* The retention-refresh queues of PageMapping (page_mapping.cc):          *)
(* setRefreshPeriod in grouping modes 0-3, insertToQueue, removeFromQueue. *)
(*                                                                         *)
(* The operators act on a record s that holds, among the rest of the FTL   *)
(* state, the fields                                                       *)
(*   refreshQueues, checkedQueues  [Queues -> Seq(LayerIDs)]  (deques)     *)
(*   insertedLayerCheck            SUBSET LayerIDs            (the Bitset) *)
(*   layerQueueNum                 [LayerIDs -> Queues]                    *)
(*   curQueue                      stat.refreshCallCount % num_queue       *)
(* background_ratio is hard-coded to 1 (initialize), so                    *)
(* refreshCallCount / background_ratio % num_queue is exactly curQueue.   *)
(*                                                                         *)
(* A layer ID is block * 64 + layer in the code; here it is the pair      *)
(* <<block, layer>>, which is the same number decoded (layer < 64).        *)
(***************************************************************************)
EXTENDS Naturals, Sequences, SequencesExt

CONSTANTS
    NumQueues,        \* FTL_REFRESH_FILTER_NUM
    LayersPerBlock,   \* the literal 64 of "layerID = blockNum * 64 + ..."
    ReenrolSlack,     \* the literal 24 of "newQueue - oldQueue > 24"
    UIntModulus,      \* 2^32 in the code; see the ASSUME below
    RBERExceeds(_, _, _), \* RBERExceeds(i, ec, layer): errorModel.getRBER(
                          \*   refresh_period * i, ec, layer) > maxRBER
    EccExceeds(_, _, _),  \* the same against the literal 0.00032 of modes 2, 3
    RefreshMode,      \* FTL_REFRESH_MODE: 0 single layer, 1 neighbours,
                      \*   2 same place in the segments, 3 both
    GroupingSize,     \* FTL_REFRESH_GROUPING_SIZE, read by mode 1
    SegmentStride     \* the literal 21 of modes 2 and 3 (64 = 3 * 21 + 1)

ASSUME NumQueues \in Nat \ {0}
ASSUME LayersPerBlock \in Nat \ {0}
ASSUME ReenrolSlack \in Nat
\* Both operands of the uint32 subtraction in insertToQueue lie in
\* 0 .. 2*NumQueues - 1, so any modulus above 2*NumQueues + ReenrolSlack
\* gives the same outcome of "> ReenrolSlack" as 2^32 does.
ASSUME UIntModulus \in Nat /\ UIntModulus > 2 * NumQueues + ReenrolSlack
ASSUME RefreshMode \in Nat /\ GroupingSize \in Nat \ {0}
\* Modes 2 and 3 hard-code three segments of 21 layers and a last layer 63.
ASSUME SegmentStride \in Nat \ {0}
ASSUME RefreshMode \in {2, 3} => LayersPerBlock = 3 * SegmentStride + 1

Queues == 0 .. NumQueues - 1
Layers == 0 .. LayersPerBlock - 1

\* uint32_t subtraction a - b.
UIntSub(a, b) == (a - b) % UIntModulus

\* The loop "for (i = 1; i <= num_queue; i++)" of setRefreshPeriod: the
\* first i < num_queue at which the predicted RBER is too high (hits), or
\* num_queue.
FirstHit(hits) == IF hits = {} THEN NumQueues ELSE Min(hits)

\* The queue distance of modes 0 and 1, against maxRBER.
Horizon(ec, layer) ==
    FirstHit({i \in 1 .. NumQueues - 1 : RBERExceeds(i, ec, layer)})

\* The queue distance of modes 2 and 3, against 0.00032.
EccHorizon(ec, layer) ==
    FirstHit({i \in 1 .. NumQueues - 1 : EccExceeds(i, ec, layer)})

\* Mutant of RemoveFromQueue: the search runs over checkedQueues, the deque
\* refresh_event swapped out, instead of refreshQueues.
RemoveFromQueueInChecked(s, id) ==
    LET q == s.layerQueueNum[id]
    IN  [s EXCEPT !.checkedQueues[q] = RemoveFirst(@, id)]

\* removeFromQueue(layerID): drop the first occurrence of the layer from
\* refreshQueues[layerQueueNum[layerID]].  The "layer is lost" panic sits
\* inside the loop behind "iter == end", which the loop condition already
\* excludes, so a layer that is not there is silently left alone.
RemoveFromQueue(s, id) ==
    LET q == s.layerQueueNum[id]
    IN  [s EXCEPT !.refreshQueues[q] = RemoveFirst(@, id)]

\* Append the layer to refreshQueues[q] and record q as its queue.
PushToQueue(s, q, id) ==
    [s EXCEPT !.refreshQueues[q] = Append(@, id),
              !.layerQueueNum[id] = q]

\* Queue numbers at or before cur_queue are moved one round ahead.
Normalize(q, cur) == IF q <= cur THEN q + NumQueues ELSE q

\* Mutant of InsertToQueue: the subtraction done in signed arithmetic, as
\* spec 4.5 describes it, so a layer is never moved to a nearer queue.
InsertToQueueSigned(s, queueNum, id) ==
    LET q == queueNum % NumQueues
    IN  IF id \notin s.insertedLayerCheck
        THEN [PushToQueue(s, q, id) EXCEPT
                 !.insertedLayerCheck = @ \cup {id}]
        ELSE IF Normalize(q, s.curQueue)
                  - Normalize(s.layerQueueNum[id], s.curQueue) > ReenrolSlack
        THEN PushToQueue(RemoveFromQueue(s, id), q, id)
        ELSE s

\* insertToQueue(queueNum, layerID).
InsertToQueue(s, queueNum, id) ==
    LET q == queueNum % NumQueues
    IN  IF id \notin s.insertedLayerCheck
        THEN [PushToQueue(s, q, id) EXCEPT
                 !.insertedLayerCheck = @ \cup {id}]
        ELSE IF UIntSub(Normalize(q, s.curQueue),
                        Normalize(s.layerQueueNum[id], s.curQueue))
                > ReenrolSlack
        THEN PushToQueue(RemoveFromQueue(s, id), q, id)
        ELSE s

\* Mutant of SetRefreshPeriod: the loop without its "i == num_queue"
\* branch, so a layer whose RBER stays below maxRBER for num_queue - 1
\* periods is never enrolled.
SetRefreshPeriodNoFallback(s, ec, blk, layer) ==
    IF Horizon(ec, layer) = NumQueues THEN s
    ELSE InsertToQueue(s, s.curQueue + Horizon(ec, layer), <<blk, layer>>)

\* Mode 1: groupFirst + k for k < groupingSize, below layer 64.
NeighbourGroup(first) ==
    SelectSeq([k \in 1 .. GroupingSize |-> first + k - 1],
              LAMBDA l : l < LayersPerBlock)

\* Mode 1: only the first layer of a group enrols it, every layer of the
\* group by insertToQueue, at the distance the group's last layer needs.
SetRefreshPeriodNeighbours(s, ec, blk, layer) ==
    LET first == (layer \div GroupingSize) * GroupingSize
        last  == IF first + GroupingSize - 1 >= LayersPerBlock
                 THEN LayersPerBlock - 1 ELSE first + GroupingSize - 1
        q     == s.curQueue + Horizon(ec, last)
    IN  IF layer # first THEN s
        ELSE FoldLeft(LAMBDA t, l : InsertToQueue(t, q, <<blk, l>>),
                      s, NeighbourGroup(first))

\* The push of modes 2 and 3: a layer not yet enrolled is appended to
\* refreshQueues[q] and marked in insertedLayerCheck; layerQueueNum is
\* not written.
PushUnchecked(s, q, id) ==
    IF id \in s.insertedLayerCheck THEN s
    ELSE [s EXCEPT !.refreshQueues[q] = Append(@, id),
                   !.insertedLayerCheck = @ \cup {id}]

\* Modes 2 and 3: a layer not yet enrolled enrols its group, in the order
\* of the code's loops, at the distance the RBER of layer `at` needs.
EnrolGroupUnchecked(s, ec, blk, layer, group, at) ==
    LET q == (s.curQueue + EccHorizon(ec, at)) % NumQueues
    IN  IF <<blk, layer>> \in s.insertedLayerCheck THEN s
        ELSE FoldLeft(LAMBDA t, l : PushUnchecked(t, q, <<blk, l>>), s, group)

\* Mode 2: layer % 21 (63 alone) and the same place in the other segments.
SegmentFirst(layer) ==
    IF layer = LayersPerBlock - 1 THEN layer ELSE layer % SegmentStride
SegmentGroup(first) ==
    SelectSeq([k \in 1 .. 3 |-> first + (k - 1) * SegmentStride],
              LAMBDA l : l < LayersPerBlock)

\* Mode 3: three neighbours at the same place in each of the segments.
CrossFirst(layer) ==
    IF layer = LayersPerBlock - 1 THEN layer
    ELSE ((layer % SegmentStride) \div 3) * 3
CrossGroup(first) ==
    SelectSeq([i \in 1 .. 9 |-> first + ((i - 1) \div 3) * SegmentStride
                                       + ((i - 1) % 3)],
              LAMBDA l : l < LayersPerBlock)
CrossLast(first) ==
    IF first + 2 >= LayersPerBlock THEN LayersPerBlock - 1 ELSE first + 2

\* setRefreshPeriod(eraseCount, blockNum, layerNum) by FTL_REFRESH_MODE;
\* any other mode enrols nothing.
SetRefreshPeriod(s, ec, blk, layer) ==
    CASE RefreshMode = 0 ->
           InsertToQueue(s, s.curQueue + Horizon(ec, layer), <<blk, layer>>)
      [] RefreshMode = 1 -> SetRefreshPeriodNeighbours(s, ec, blk, layer)
      [] RefreshMode = 2 ->
           EnrolGroupUnchecked(s, ec, blk, layer,
               SegmentGroup(SegmentFirst(layer)), SegmentFirst(layer))
      [] RefreshMode = 3 ->
           EnrolGroupUnchecked(s, ec, blk, layer,
               CrossGroup(CrossFirst(layer)), CrossLast(CrossFirst(layer)))
      [] OTHER -> s

=============================================================================
