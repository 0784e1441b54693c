------------------------- MODULE MCConferenceAccess -------------------------
(* The instance of ConferenceAccess for TLC: who asks what, in which room. *)
EXTENDS ConferenceAccess

CONSTANTS r1, r2, ann, bob, p1, p2, p3, p4, p5, p6

\* Tokens and messages are about r1, the explicit creation about r2.
RoomsOf == [p \in Requests |-> IF p = p5 THEN r2 ELSE r1]

KindsOf == [p \in Requests |->
              CASE p \in {p1, p2, p6} -> "token"
                [] p \in {p3, p4}     -> "chat"
                [] p = p5             -> "create"]

\* ann asks twice for a token, as a page does whose effect runs again before it
\* has the first answer; p3 is hers too, the others are bob's.
Callers == [p \in Requests |-> IF p \in {p1, p3, p6} THEN ann ELSE bob]

\* Either ann asks for one token while bob writes and creates a room, or she asks
\* for two.
OneTokenOrTwo == {{p1, p2, p3, p4, p5}, {p1, p2, p3, p6}}
=============================================================================
