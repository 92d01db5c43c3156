--------------------------- MODULE MCQualityReview ---------------------------
(* TLC instances of QualityReview. *)
EXTENDS QualityReview

CONSTANTS w1, w2
==============================================================================
