--------------------------- MODULE MCDerivedState ---------------------------
(* DerivedState with two call ids: every log of up to MaxLen events.       *)
EXTENDS DerivedState

CONSTANTS c1, c2

TwoIds == {c1, c2}
SymmetricIds == Permutations(TwoIds)
=============================================================================
