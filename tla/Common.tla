------------------------------- MODULE Common -------------------------------
(* What the component modules share, so that one run may hold several.     *)
EXTENDS Naturals, FiniteSets, Sequences

CONSTANT None       \* the absent value
=============================================================================
