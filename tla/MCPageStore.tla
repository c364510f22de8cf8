---------------------------- MODULE MCPageStore -----------------------------
(***************************************************************************)
(* Model-checking instance of PageStore, with the constants and the RBER   *)
(* stand-in of MCPageMapping.                                              *)
(***************************************************************************)
EXTENDS MCPageMapping, PageStore

=============================================================================
