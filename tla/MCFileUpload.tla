---------------------------- MODULE MCFileUpload -----------------------------
(* The instance of FileUpload for TLC: two rooms whose names look alike. *)
EXTENDS FileUpload, TLC

CONSTANTS r1, r2, u1, u2, u3

RoomsOf == u1 :> r1 @@ u2 :> r1 @@ u3 :> r2
Names == r1 :> "r_1" @@ r2 :> "r_1"
=============================================================================
