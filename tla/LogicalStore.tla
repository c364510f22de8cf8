---------------------------- MODULE LogicalStore ----------------------------
(***************************************************************************)
(* What the FTL promises the host, whatever it does with blocks, cursors,  *)
(* GC and refresh underneath: a store of logical pages.  `stored` is the   *)
(* set of LPNs whose last written data the host can read back; `request`   *)
(* is the request the last step served.                                    *)
(*                                                                         *)
(*   write(lpn)     the LPN is stored afterwards;                          *)
(*   trim(lpn)      it is not;                                             *)
(*   format(range)  no LPN of the range is;                                *)
(*   refresh        the FTL's own maintenance (refresh_event, with the GC  *)
(*                  it runs) changes nothing the host can read.            *)
(*                                                                         *)
(* A panic() aborts the simulator, after which nothing is served: Halt     *)
(* may leave `stored` anything, and no step follows it.                    *)
(***************************************************************************)
CONSTANTS
    Keys,       \* the host LPNs
    Ranges      \* the LPN ranges a format() may name

VARIABLES stored, request, halted

Requests == {<<"none">>, <<"refresh">>} \cup ({"write", "trim"} \X Keys)
                \cup ({"format"} \X Ranges)

TypeOK ==
    /\ stored \subseteq Keys
    /\ request \in Requests
    /\ halted \in BOOLEAN

Init == stored = {} /\ request = <<"none">> /\ halted = FALSE

Serve(req, newStored) ==
    /\ ~halted
    /\ request' = req
    /\ stored' = newStored
    /\ UNCHANGED halted

Write(k)     == Serve(<<"write", k>>, stored \cup {k})
Trim(k)      == Serve(<<"trim", k>>, stored \ {k})
Format(r)    == Serve(<<"format", r>>, stored \ r)
Maintain     == Serve(<<"refresh">>, stored)

Halt ==
    /\ ~halted
    /\ halted' = TRUE
    /\ stored' \in SUBSET Keys
    /\ request' \in Requests

Next ==
    \/ \E k \in Keys : Write(k) \/ Trim(k)
    \/ \E r \in Ranges : Format(r)
    \/ Maintain
    \/ Halt

Spec == Init /\ [][Next]_<<stored, request, halted>>

=============================================================================
