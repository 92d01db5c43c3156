---------------------------- MODULE MCCommentWake ----------------------------
(* TLC instances of CommentWake. *)
EXTENDS CommentWake, TLC

CONSTANTS c1, c2, h1, h2

Symmetry == Permutations(Handlers)
==============================================================================
