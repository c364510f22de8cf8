--------------------------- MODULE MCPageMapping ---------------------------
(***************************************************************************)
(* Model-checking instance of PageMapping: three blocks of two pages, one  *)
(* write cursor, two host LPNs and three refresh queues.                   *)
(***************************************************************************)
EXTENDS PageMapping

\* A stand-in for errorModel.getRBER(refresh_period * i, ec, layer) >
\* maxRBER that grows with the retention time, the erase count and the
\* layer, as the retention model does.  No layer exceeds maxRBER within
\* fewer than MinHorizon periods.
CONSTANTS MinHorizon, RBERLimit

MCRBERExceeds(i, ec, layer) == i >= MinHorizon /\ i + ec + layer >= RBERLimit

=============================================================================
