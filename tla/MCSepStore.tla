---------------------------- MODULE MCSepStore -----------------------------
(***************************************************************************)
(* Model-checking instance of SepStore, with the constants and the RBER    *)
(* stand-in of MCSepPageMapping.                                           *)
(***************************************************************************)
EXTENDS MCSepPageMapping, SepStore

\* With separation on no allocator resets refreshedPageCount, so under
\* POLICY_RECO it grows with every refresh copy out of a block, in all its
\* lives.  The search stops at states where a count passes this bound.
CONSTANT MaxRefreshedCount

RefreshedCountBound == \A b \in Blocks : refreshedPageCount[b] <= MaxRefreshedCount

=============================================================================
