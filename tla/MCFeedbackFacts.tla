--------------------------- MODULE MCFeedbackFacts ---------------------------
(***************************************************************************)
(* An instance of FeedbackFacts for TLC: two feedbacks on one resource.    *)
(***************************************************************************)
EXTENDS FeedbackFacts, TLC

CONSTANTS f1, f2, h1, o1

OneResource == (f1 :> h1) @@ (f2 :> h1)
=============================================================================
