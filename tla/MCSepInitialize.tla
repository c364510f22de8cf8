------------------------- MODULE MCSepInitialize ---------------------------
(***************************************************************************)
(* Model-checking instance of SepInitialize: the geometry of              *)
(* MCSepPageMapping, warmed up by initialize() before the host operations. *)
(***************************************************************************)
EXTENDS MCSepPageMapping, SepInitialize

=============================================================================
