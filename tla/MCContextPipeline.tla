-------------------------- MODULE MCContextPipeline --------------------------
(* Instances of ContextPipeline for TLC: how many messages each topic gets,  *)
(* and how many things go wrong.                                             *)
EXTENDS ContextPipeline, TLC

\* The messages of each input topic: n[t] where n names t, none elsewhere.
Only(n) == [t \in Inputs |-> IF t \in DOMAIN n THEN n[t] ELSE 0]

\* A question and a line of speech, for the run where things go wrong.
QuestionAndLine == Only([aiReq |-> 1, voice |-> 1])
JustThese == {QuestionAndLine}

\* A question and either one of everything else or more chat than MaxHistory.
Requests == Only([aiReq |-> 1, sumReq |-> 1, file |-> 1, chat |-> 1])
LongChat == Only([aiReq |-> 1, chat |-> 3])
RequestsOrLongChat == {Requests, LongChat}
MostOfEach == [t \in Inputs |-> IF t = "chat" THEN 3 ELSE Requests[t]]

\* Chat and a question.
ChatAndQuestion == Only([chat |-> 2, aiReq |-> 1])
JustChatAndQuestion == {ChatAndQuestion}

\* No room is named anywhere: rooms may change places.
RoomSymmetry == Permutations(Rooms)

NoCrashes == [s \in Services |-> 0]
OneCrashEach == [s \in Services |-> 1]
MLinCrashes == [s \in Services |-> IF s = "MLin" THEN 1 ELSE 0]
=============================================================================
