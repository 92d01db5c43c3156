--------------------------- MODULE MCOutputStream ---------------------------
(* TLC instances of OutputStream. *)
EXTENDS OutputStream, TLC

CONSTANTS l1, l2

(* The lanes are interchangeable: sound for the runs without liveness. *)
LaneSymmetry == Permutations(Lanes)
=============================================================================
