--------------------------- MODULE MCHistoryPages ----------------------------
(* Instances of HistoryPages for TLC. *)
EXTENDS HistoryPages, TLC

CONSTANTS ann, bob, r1, r2

NameSymmetry == Permutations({ann, bob}) \cup Permutations({r1, r2})
=============================================================================
