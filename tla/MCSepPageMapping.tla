------------------------- MODULE MCSepPageMapping --------------------------
(***************************************************************************)
(* Model-checking instance of SepPageMapping: a hot pool and a cold pool   *)
(* of two-page blocks, one cursor per kind, two host LPNs and two          *)
(* refresh queues.                                                         *)
(***************************************************************************)
EXTENDS SepPageMapping

\* The same stand-in for errorModel.getRBER(...) > maxRBER as MCPageMapping.
CONSTANTS MinHorizon, RBERLimit

MCRBERExceeds(i, ec, layer) == i >= MinHorizon /\ i + ec + layer >= RBERLimit

\* A host workload without format() calls: write, trim and refresh only.
NoFormatRanges == {}

=============================================================================
