--------------------------- MODULE MCSummaryPanel ----------------------------
(* The instance of SummaryPanel, and so of SummaryTicker, for TLC. *)
EXTENDS SummaryPanel, TLC

CONSTANTS r1, agent, ann, s1, s2

\* What clients send: what Number() makes nothing of, and a number off the limits.
Inputs == {NotANumber, 3601}

SlotSymmetry == Permutations({s1, s2})
=============================================================================
