---------------------------- MODULE RequestReply ----------------------------
(***************************************************************************)
(* What a service that replies to requests promises to the rest of the     *)
(* system, whatever topics and retries stand between a request and its     *)
(* reply: only what was asked is answered, an answer is never withdrawn,   *)
(* and every request is answered in the end.  A request is any value.      *)
(* ContextPipeline implements this three times: questions to the AI,       *)
(* requests for a summary, and spoken lines with their transcripts.        *)
(***************************************************************************)
CONSTANT Requests       \* the requests that can be made

VARIABLES asked,        \* requests put to the service
          answered      \* requests with at least one published reply

vars == <<asked, answered>>

Init == asked = {} /\ answered = {}

Ask(q) ==
    /\ q \notin asked
    /\ asked' = asked \cup {q}
    /\ UNCHANGED answered

Answer(q) ==
    /\ q \in asked \ answered
    /\ answered' = answered \cup {q}
    /\ UNCHANGED asked

Next == \E q \in Requests : Ask(q) \/ Answer(q)

Safety == Init /\ [][Next]_vars

Spec == Safety /\ \A q \in Requests : WF_vars(Answer(q))
=============================================================================
