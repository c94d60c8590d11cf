------------------------- MODULE MCShadowPortfolio -------------------------
(* ShadowPortfolio with a price on either side of each trigger, and zero. *)
EXTENDS ShadowPortfolio, TLC

Symmetry == Permutations(Trades) \cup Permutations(Tasks)
=============================================================================
