----------------------------- MODULE PageStore ------------------------------
(***************************************************************************)
(* PageMapping seen from the host: the FTL without hot/cold separation     *)
(* implements LogicalStore.  As in SepStore, a ghost variable, `request`,  *)
(* records the request each step served; here the host workload includes  *)
(* format(), whose GC of partly written blocks moves the pages of LPNs     *)
(* outside the formatted range.                                            *)
(***************************************************************************)
EXTENDS PageMapping

VARIABLE request        \* ghost: the request the last step served

storeVars == <<vars, request>>

StoreInit == Init /\ request = <<"none">>

StoreNext ==
    \/ \E l \in LPNs : Write(l) /\ request' = <<"write", l>>
    \/ \E l \in LPNs : Trim(l) /\ request' = <<"trim", l>>
    \/ \E r \in LPNRanges : Format(r) /\ request' = <<"format", r>>
    \/ RefreshEvent /\ request' = <<"refresh">>

StoreSpec == StoreInit /\ [][StoreNext]_storeVars

\* The refresh event keeps its weak fairness; the ghost does not change
\* which steps move curQueue.
FairStoreSpec == StoreSpec /\ RefreshFairness

\* The LPNs that readInternal returns data for: mapped to a page that
\* still holds them.
Readable ==
    {l \in LPNs : table[l] # NoMapping /\ pageState[table[l][1]][table[l][2]] = l}

\* The refinement mapping onto the host's view of the store.
Store == INSTANCE LogicalStore
            WITH Keys <- LPNs, Ranges <- LPNRanges,
                 stored <- Readable, halted <- panicked # "none"

\* The FTL implements a logical store: a write makes its LPN readable, a
\* trim makes exactly that LPN unreadable, a format exactly the LPNs of its
\* range, and no GC, erase, retirement or refresh drain (nor format's GC of
\* the blocks it touches) makes an LPN readable or unreadable, until a
\* panic stops the simulator.
PageImplementsLogicalStore == Store!Spec

=============================================================================
