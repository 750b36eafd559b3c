------------------------ MODULE MCRecommendationRuns ------------------------
(***************************************************************************)
(* Instances of RecommendationRuns for TLC.                                *)
(***************************************************************************)
EXTENDS RecommendationRuns

CONSTANTS t1, t2, p1, p2, k1, k2, a1, a2, c1, c2
============================================================================
