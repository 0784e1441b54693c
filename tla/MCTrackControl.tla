--------------------------- MODULE MCTrackControl ---------------------------
(* Instances of TrackControl for TLC. *)
EXTENDS TrackControl

CONSTANTS ann, bob, h1, h2
=============================================================================
