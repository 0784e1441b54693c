--------------------------- MODULE MCChatDelivery ---------------------------
(* Instances of ChatDelivery for TLC. *)
EXTENDS ChatDelivery

CONSTANTS r1, r2, c1, c2

\* Both tabs in the room r1.
SameRoom == [c \in Clients |-> r1]
=============================================================================
