-------------------------- MODULE MCGenePromotion --------------------------
(* Model-checking instance of GenePromotion: genes, requests and readers are *)
(* interchangeable.                                                          *)
EXTENDS GenePromotion, TLC

Symmetry == Permutations(Gene) \cup Permutations(Promoter) \cup Permutations(Reader)
=============================================================================
