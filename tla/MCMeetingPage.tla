--------------------------- MODULE MCMeetingPage ---------------------------
(* Instances of MeetingPage for TLC. *)
EXTENDS MeetingPage

CONSTANTS t1, t2, ann

\* Both browsers are signed in to the same account.
SameUser == [t \in Tabs |-> ann]
=============================================================================
