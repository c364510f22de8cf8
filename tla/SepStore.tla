------------------------------ MODULE SepStore ------------------------------
(***************************************************************************)
(* SepPageMapping seen from the host: the FTL with hot/cold separation     *)
(* implements LogicalStore.  A ghost variable, `request`, records the      *)
(* request each step served, so that the refinement can tell a host trim  *)
(* from GC or refresh losing an LPN.  The host workload is writes, trims   *)
(* and refresh events; format() is left to the runs of SepPageMapping.    *)
(***************************************************************************)
EXTENDS SepPageMapping

VARIABLE request        \* ghost: the request the last step served

storeVars == <<vars, request>>

StoreInit == Init /\ request = <<"none">>

StoreNext ==
    \/ \E l \in LPNs : Write(l) /\ request' = <<"write", l>>
    \/ \E l \in LPNs : Trim(l) /\ request' = <<"trim", l>>
    \/ RefreshEvent /\ request' = <<"refresh">>

StoreSpec == StoreInit /\ [][StoreNext]_storeVars

\* The LPNs that readInternal returns data for: mapped to a page that
\* still holds them.
Readable ==
    {l \in LPNs : table[l] # NoMapping /\ pageState[table[l][1]][table[l][2]] = l}

\* The refinement mapping onto the host's view of the store.
Store == INSTANCE LogicalStore
            WITH Keys <- LPNs, Ranges <- {},
                 stored <- Readable, halted <- panicked # "none"

\* The FTL implements a logical store: every write makes its LPN readable,
\* every trim makes exactly that LPN unreadable, and no cold or hot GC,
\* erase, retirement, cursor repair or refresh drain makes an LPN readable
\* or unreadable, until a panic stops the simulator.
ImplementsLogicalStore == Store!Spec

=============================================================================
