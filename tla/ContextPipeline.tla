--------------------------- MODULE ContextPipeline ---------------------------
(***************************************************************************)
(* The two ML services, the Kafka topics between them and the backend, and *)
(* the conference context they share in Redis.                             *)
(*                                                                         *)
(* MLin (services/ml/MLin) consumes what is said, written and drawn in a   *)
(* conference and appends it to the context; MLout (services/ml/MLout)     *)
(* answers AI requests and summary requests from that context and also     *)
(* writes the dialogue back.  The context of a room is one JSON document   *)
(* under the key conference:{room}, and both services change it with a GET *)
(* followed, later, by a SET of the whole document.                        *)
(*                                                                         *)
(* Each service is one thread: poll a message, run its handler, call       *)
(* commit(msg), which only sends the commit.  produce() puts a message in  *)
(* the client's queue and returns.  A service that stops loses its queue   *)
(* and the commits that have not arrived, and is restarted by Docker.      *)
(*                                                                         *)
(* A handler is cut where another process can see or change something: at  *)
(* its GET and at its SET.  The GET that only builds a prompt, and the LLM *)
(* and VLM calls, change no state and belong to the step that follows.     *)
(* Texts are abstracted to the position of the message they come from.     *)
(***************************************************************************)
EXTENDS Integers, Sequences, FiniteSets, SequencesExt

CONSTANTS
    Rooms,           \* conference rooms
    MaxHistory,      \* MAX_HISTORY_LENGTH, entries kept by MLin (50)
    MaxDialogue,     \* entries kept by MLout of a dialogue (10)
    MaxLen,          \* bound: messages the backend and the agent publish, by topic
    Mixes,           \* bound: what is published together, by topic
    MaxCrashes,      \* bound: stops of each service
    MaxRedisFaults,  \* bound: Redis calls that raise
    MaxSendFaults    \* bound: produced messages lost or sent twice

Services == {"MLin", "MLout"}

\* The topics MLin records in the context, the field of the context being
\* named after the topic: conference.chat, .chat.ai.request,
\* .chat.ai.response, .boardcrop and .transcript.voice.
Recorded == {"chat", "aiReq", "aiResp", "board", "voice"}

\* The topics written outside the ML services.
Inputs == {"chat", "aiReq", "board", "voice", "file", "sumReq"}

\* The topics the ML services write: MLout's answers and summaries, MLin's
\* transcript.
Outputs == {"aiResp", "sumResp", "transcript"}

Topics == Inputs \cup Outputs

Subscribed == [MLin  |-> Recorded \cup {"file"},
               MLout |-> {"aiReq", "sumReq"}]

Produced == [MLin |-> {"transcript"}, MLout |-> {"aiResp", "sumResp"}]

ASSUME BoundsAssumption ==
    /\ MaxHistory \in Nat \ {0}
    /\ MaxDialogue \in Nat \ {0}
    /\ MaxLen \in [Inputs -> Nat]
    /\ Mixes \subseteq [Inputs -> Nat]
    /\ MaxCrashes \in [Services -> Nat]
    /\ MaxRedisFaults \in Nat
    /\ MaxSendFaults \in Nat

\* A message names its room and the position, in its topic of origin, of the
\* message it stems from: its own for an input, the request for an answer.
Positions == Nat \ {0}
Message == [room : Rooms, src : Positions]

Context == [Recorded -> Seq(Positions)]
EmptyContext == [t \in Recorded |-> <<>>]

None == "none"

VARIABLES
    log,          \* the messages of each topic, one partition each
    outbox,       \* produced by a service, not yet accepted by the broker
    ctx,          \* Redis: the context of each room
    mem,          \* the context a service has loaded and will save
    cur,          \* the topic of the message a service is handling
    done,         \* messages handled, by service and topic (its position)
    committed,    \* offsets the broker holds for each consumer group
    crashes, redisFaults, sendFaults   \* what has gone wrong so far

vars == <<log, outbox, ctx, mem, cur, done, committed,
          crashes, redisFaults, sendFaults>>

Init ==
    /\ log = [t \in Topics |-> <<>>]
    /\ outbox = [t \in Outputs |-> <<>>]
    /\ ctx = [r \in Rooms |-> EmptyContext]
    /\ mem = [s \in Services |-> EmptyContext]
    /\ cur = [s \in Services |-> None]
    /\ done = [s \in Services |-> [t \in Topics |-> 0]]
    /\ committed = [s \in Services |-> [t \in Topics |-> 0]]
    /\ crashes = [s \in Services |-> 0]
    /\ redisFaults = 0
    /\ sendFaults = 0

-----------------------------------------------------------------------------
(* Helpers *)

LastN(seq, n) ==
    IF Len(seq) <= n THEN seq ELSE SubSeq(seq, Len(seq) - n + 1, Len(seq))

\* _append_to_context and its copies: append, then keep the last n.
Remember(seq, x, n) == LastN(Append(seq, x), n)

\* The transcript keeps twice the history of the other fields.
Limit(t) == IF t = "voice" THEN 2 * MaxHistory ELSE MaxHistory

\* The message service s polls next from topic t.
Polled(s, t) == log[t][done[s][t] + 1]

\* poll() returns a message of t; the service is between two messages.
CanPoll(s, t) ==
    /\ cur[s] = None
    /\ t \in Subscribed[s]
    /\ done[s][t] < Len(log[t])

Produce(t, m) == outbox' = [outbox EXCEPT ![t] = Append(@, m)]

\* redis GET: a failed call yields an empty context, not an error.
Load(s, room) ==
    \/ /\ mem' = [mem EXCEPT ![s] = ctx[room]]
       /\ UNCHANGED redisFaults
    \/ /\ redisFaults < MaxRedisFaults
       /\ redisFaults' = redisFaults + 1
       /\ mem' = [mem EXCEPT ![s] = EmptyContext]

\* redis SET of the whole document: a failed call is only logged.
Save(room, c) ==
    \/ /\ ctx' = [ctx EXCEPT ![room] = c]
       /\ UNCHANGED redisFaults
    \/ /\ redisFaults < MaxRedisFaults
       /\ redisFaults' = redisFaults + 1
       /\ UNCHANGED ctx

\* The handler has returned: consumer.commit(msg) is sent and the next poll
\* continues after the message.
Handled(s, t) == done' = [done EXCEPT ![s][t] = @ + 1]

-----------------------------------------------------------------------------
(* Mutations: what some of the actions below would be with a plausible bug.  *)
(* No action uses them; each shows that a property below can fail.           *)

\* MLin loads one key for all rooms.
MLinLoadOneKey(t) ==
    /\ t \in Recorded
    /\ CanPoll("MLin", t)
    /\ Load("MLin", CHOOSE r \in Rooms : TRUE)
    /\ cur' = [cur EXCEPT !["MLin"] = t]
    /\ IF t = "voice" THEN Produce("transcript", Polled("MLin", t))
                      ELSE UNCHANGED outbox
    /\ UNCHANGED <<log, ctx, done, committed, crashes, sendFaults>>

\* MLin keeps as many messages of every kind as it keeps voice lines.
MLinSaveOneLimit(t) ==
    /\ t = cur["MLin"]
    /\ LET m == Polled("MLin", t)
       IN Save(m.room, [mem["MLin"] EXCEPT ![t] = Remember(@, m.src, 2 * MaxHistory)])
    /\ cur' = [cur EXCEPT !["MLin"] = None]
    /\ mem' = [mem EXCEPT !["MLin"] = EmptyContext]
    /\ Handled("MLin", t)
    /\ UNCHANGED <<log, outbox, committed, crashes, sendFaults>>

\* MLout leaves a request unanswered when the LLM call fails.
MLoutAnswerUnlessLLMFails ==
    /\ CanPoll("MLout", "aiReq")
    /\ Produce("aiResp", Polled("MLout", "aiReq")) \/ UNCHANGED outbox
    /\ Load("MLout", Polled("MLout", "aiReq").room)
    /\ cur' = [cur EXCEPT !["MLout"] = "aiReq"]
    /\ UNCHANGED <<log, ctx, done, committed, crashes, sendFaults>>

\* MLout adds the chat of its copy to the context instead of replacing it.
MLoutSaveMerged ==
    /\ cur["MLout"] = "aiReq"
    /\ LET m == Polled("MLout", "aiReq")
       IN Save(m.room,
               [mem["MLout"] EXCEPT
                  !["aiReq"]  = Remember(@, m.src, MaxDialogue),
                  !["chat"]   = LastN(ctx[m.room]["chat"] \o @, Limit("chat")),
                  !["aiResp"] = Remember(@, m.src, MaxDialogue)])
    /\ cur' = [cur EXCEPT !["MLout"] = None]
    /\ mem' = [mem EXCEPT !["MLout"] = EmptyContext]
    /\ Handled("MLout", "aiReq")
    /\ UNCHANGED <<log, outbox, committed, crashes, sendFaults>>

\* MLout sends the answer a second time after recording it.
MLoutSaveAndSend ==
    /\ cur["MLout"] = "aiReq"
    /\ LET m == Polled("MLout", "aiReq")
       IN /\ Save(m.room,
                  [mem["MLout"] EXCEPT !["aiReq"]  = Remember(@, m.src, MaxDialogue),
                                       !["aiResp"] = Remember(@, m.src, MaxDialogue)])
          /\ Produce("aiResp", m)
    /\ cur' = [cur EXCEPT !["MLout"] = None]
    /\ mem' = [mem EXCEPT !["MLout"] = EmptyContext]
    /\ Handled("MLout", "aiReq")
    /\ UNCHANGED <<log, committed, crashes, sendFaults>>

\* The offset committed is the message's own, not the next one's.
CommitOffByOne(s, t) ==
    /\ committed[s][t] + 1 < done[s][t]
    /\ committed' = [committed EXCEPT ![s][t] = @ + 1]
    /\ UNCHANGED <<log, outbox, ctx, mem, cur, done,
                   crashes, redisFaults, sendFaults>>

-----------------------------------------------------------------------------
(* The backend and the LiveKit agent: a message of room r on an input topic. *)
Publish(t, r) ==
    /\ Len(log[t]) < MaxLen[t]
    /\ \E n \in Mixes : Len(log[t]) < n[t] /\ \A u \in Inputs : Len(log[u]) <= n[u]
    /\ log' = [log EXCEPT ![t] = Append(@, [room |-> r, src |-> Len(@) + 1])]
    /\ UNCHANGED <<outbox, ctx, mem, cur, done, committed,
                   crashes, redisFaults, sendFaults>>

(* MLin, first half of a handler: poll, publish a spoken line at once, GET. *)
MLinLoad(t) ==
    /\ t \in Recorded
    /\ CanPoll("MLin", t)
    /\ Load("MLin", Polled("MLin", t).room)
    /\ cur' = [cur EXCEPT !["MLin"] = t]
    /\ IF t = "voice" THEN Produce("transcript", Polled("MLin", t))
                      ELSE UNCHANGED outbox
    /\ UNCHANGED <<log, ctx, done, committed, crashes, sendFaults>>

(* MLin, second half: append to the loaded copy, truncate, SET, commit. *)
MLinSave(t) ==
    /\ t = cur["MLin"]
    /\ LET m == Polled("MLin", t)
       IN Save(m.room, [mem["MLin"] EXCEPT ![t] = Remember(@, m.src, Limit(t))])
    /\ cur' = [cur EXCEPT !["MLin"] = None]
    /\ mem' = [mem EXCEPT !["MLin"] = EmptyContext]
    /\ Handled("MLin", t)
    /\ UNCHANGED <<log, outbox, committed, crashes, sendFaults>>

(* MLin, conference.chat.file: the handler is empty, the message committed. *)
MLinSkipFile ==
    /\ CanPoll("MLin", "file")
    /\ Handled("MLin", "file")
    /\ UNCHANGED <<log, outbox, ctx, mem, cur, committed,
                   crashes, redisFaults, sendFaults>>

(* MLout, an AI request: the prompt's GET and the LLM call, whose failure is *)
(* itself answered with a text; produce the answer, then GET a second time.  *)
MLoutAnswer ==
    /\ CanPoll("MLout", "aiReq")
    /\ Produce("aiResp", Polled("MLout", "aiReq"))
    /\ Load("MLout", Polled("MLout", "aiReq").room)
    /\ cur' = [cur EXCEPT !["MLout"] = "aiReq"]
    /\ UNCHANGED <<log, ctx, done, committed, crashes, sendFaults>>

(* MLout, the rest: append the request and the answer, SET, commit. *)
MLoutSave ==
    /\ cur["MLout"] = "aiReq"
    /\ LET m == Polled("MLout", "aiReq")
       IN Save(m.room,
               [mem["MLout"] EXCEPT !["aiReq"]  = Remember(@, m.src, MaxDialogue),
                                    !["aiResp"] = Remember(@, m.src, MaxDialogue)])
    /\ cur' = [cur EXCEPT !["MLout"] = None]
    /\ mem' = [mem EXCEPT !["MLout"] = EmptyContext]
    /\ Handled("MLout", "aiReq")
    /\ UNCHANGED <<log, outbox, committed, crashes, sendFaults>>

(* MLout, a summary request: GET, LLM, produce; the context is not written. *)
MLoutSummarize ==
    /\ CanPoll("MLout", "sumReq")
    /\ Produce("sumResp", Polled("MLout", "sumReq"))
    /\ Handled("MLout", "sumReq")
    /\ UNCHANGED <<log, ctx, mem, cur, committed,
                   crashes, redisFaults, sendFaults>>

-----------------------------------------------------------------------------
(* Kafka and Docker *)

\* The broker accepts the oldest message of a service's queue.
Deliver(t) ==
    /\ outbox[t] # <<>>
    /\ log' = [log EXCEPT ![t] = Append(@, Head(outbox[t]))]
    /\ outbox' = [outbox EXCEPT ![t] = Tail(@)]
    /\ UNCHANGED <<ctx, mem, cur, done, committed,
                   crashes, redisFaults, sendFaults>>

\* The broker accepts it but the acknowledgement is lost: the client, which
\* is not an idempotent producer, keeps the message and sends it again.
DeliverUnacknowledged(t) ==
    /\ outbox[t] # <<>>
    /\ sendFaults < MaxSendFaults
    /\ sendFaults' = sendFaults + 1
    /\ log' = [log EXCEPT ![t] = Append(@, Head(outbox[t]))]
    /\ UNCHANGED <<outbox, ctx, mem, cur, done, committed, crashes, redisFaults>>

\* The message expires in the queue, or never fitted into it (BufferError):
\* no delivery callback looks at it.
LoseProduced(t) ==
    /\ outbox[t] # <<>>
    /\ sendFaults < MaxSendFaults
    /\ sendFaults' = sendFaults + 1
    /\ outbox' = [outbox EXCEPT ![t] = Tail(@)]
    /\ UNCHANGED <<log, ctx, mem, cur, done, committed, crashes, redisFaults>>

\* An asynchronous commit reaches the broker.
CommitArrives(s, t) ==
    /\ committed[s][t] < done[s][t]
    /\ committed' = [committed EXCEPT ![s][t] = @ + 1]
    /\ UNCHANGED <<log, outbox, ctx, mem, cur, done,
                   crashes, redisFaults, sendFaults>>

\* A service stops (signal, consumer error, an exception out of MLout's loop)
\* and Docker starts it again from the committed offsets.
Crash(s) ==
    /\ crashes[s] < MaxCrashes[s]
    /\ crashes' = [crashes EXCEPT ![s] = @ + 1]
    /\ outbox' = [t \in Outputs |-> IF t \in Produced[s] THEN <<>> ELSE outbox[t]]
    /\ cur' = [cur EXCEPT ![s] = None]
    /\ mem' = [mem EXCEPT ![s] = EmptyContext]
    /\ done' = [done EXCEPT ![s] = committed[s]]
    /\ UNCHANGED <<log, ctx, committed, redisFaults, sendFaults>>

-----------------------------------------------------------------------------
MLin == MLinSkipFile \/ \E t \in Recorded : MLinLoad(t) \/ MLinSave(t)
MLout == MLoutAnswer \/ MLoutSave \/ MLoutSummarize

Next ==
    \/ \E t \in Inputs, r \in Rooms : Publish(t, r)
    \/ \E t \in Recorded : MLinLoad(t) \/ MLinSave(t)
    \/ MLinSkipFile
    \/ MLoutAnswer
    \/ MLoutSave
    \/ MLoutSummarize
    \/ \E t \in Outputs : Deliver(t) \/ DeliverUnacknowledged(t) \/ LoseProduced(t)
    \/ \E s \in Services, t \in Topics : CommitArrives(s, t)
    \/ \E s \in Services : Crash(s)

\* The loops of both services and the Kafka clients keep running; users need
\* not write, and nothing has to fail.  MLin drains every topic it is
\* subscribed to because each handler ends and each topic is finite.
Fairness ==
    /\ WF_vars(MLin)
    /\ WF_vars(MLout)
    /\ \A t \in Outputs : WF_vars(Deliver(t))
    /\ \A s \in Services, t \in Topics : WF_vars(CommitArrives(s, t))

Spec == Init /\ [][Next]_vars
FairSpec == Spec /\ Fairness

-----------------------------------------------------------------------------
(* Properties *)

Types ==
    /\ log \in [Topics -> Seq(Message)]
    /\ outbox \in [Outputs -> Seq(Message)]
    /\ ctx \in [Rooms -> Context]
    /\ mem \in [Services -> Context]
    /\ cur \in [Services -> Recorded \cup {None}]
    /\ done \in [Services -> [Topics -> Nat]]
    /\ committed \in [Services -> [Topics -> Nat]]
    /\ crashes \in [Services -> Nat]
    /\ redisFaults \in Nat
    /\ sendFaults \in Nat

OffsetsOrdered ==
    \A s \in Services, t \in Topics :
        committed[s][t] <= done[s][t] /\ done[s][t] <= Len(log[t])

HandlesNextMessage ==
    \A s \in Services : cur[s] # None =>
        cur[s] \in Subscribed[s] /\ done[s][cur[s]] < Len(log[cur[s]])

InputsNumbered ==
    \A t \in Inputs : \A i \in 1..Len(log[t]) : log[t][i].src = i

\* The state has the shape the services rely on: the offsets of a consumer
\* group are ordered committed <= handled <= written through every crash and
\* redelivery, and a service that holds a loaded context is handling a message
\* that exists.
TypeOK == Types /\ OffsetsOrdered /\ HandlesNextMessage /\ InputsNumbered

\* The position in its topic of the message an entry of field t stems from:
\* answers are derived from requests, every other field from its own topic.
Origin(t) == IF t = "aiResp" THEN "aiReq" ELSE t

\* No service leaks one conference into another: every entry remembered for a
\* room, in Redis or in a loaded copy about to be saved, stems from a message
\* of that room.  The loaded copy and the room it is saved to are two pieces
\* of state of a handler (_load_context, _save_context, get_context).
RoomsIsolated ==
    /\ \A r \in Rooms, t \in Recorded : \A i \in 1..Len(ctx[r][t]) :
          /\ ctx[r][t][i] \in 1..Len(log[Origin(t)])
          /\ log[Origin(t)][ctx[r][t][i]].room = r
    /\ \A s \in Services : cur[s] # None =>
          \A t \in Recorded : \A i \in 1..Len(mem[s][t]) :
             /\ mem[s][t][i] \in 1..Len(log[Origin(t)])
             /\ log[Origin(t)][mem[s][t][i]].room = Polled(s, cur[s]).room

StrictlyIncreasing(seq) == \A i, j \in 1..Len(seq) : i < j => seq[i] < seq[j]

\* Whatever MLout overwrites and whichever Redis call fails, the chat, the
\* board descriptions and the speech that reach a prompt are in the order they
\* were published and without repetition, as long as MLin has not restarted
\* (handle_chat, handle_boardcrop, handle_transcript_voice appending to a copy
\* that MLout may have put back).
HistoryInOrder ==
    crashes["MLin"] = 0 =>
        \A r \in Rooms : \A t \in {"chat", "board", "voice"} :
            StrictlyIncreasing(ctx[r][t])

\* The messages of room r MLin has handled on topic t.
HandledIn(r, t) == {i \in 1..done["MLin"][t] : log[t][i].room = r}

\* seq lists the last n members of S, or all if they are fewer, oldest first.
ListsLast(seq, S, n) ==
    /\ StrictlyIncreasing(seq) /\ ToSet(seq) \subseteq S /\ Len(seq) <= n
    /\ \A i \in S \ ToSet(seq) : Len(seq) = n /\ \A j \in 1..n : i < seq[j]

\* Nobody has asked the AI in room r, no Redis call failed and MLin has run on.
Quiet(r) ==
    /\ \A i \in 1..Len(log["aiReq"]) : log["aiReq"][i].room # r
    /\ redisFaults = 0
    /\ crashes["MLin"] = 0

\* As long as nobody asks the AI in a room and nothing fails, the context of the
\* room is exact, whatever goes on in others: the last entries MLin has handled,
\* of every kind, none missing.  It is the other writer, MLout, that makes it
\* lossy (see ChatKept).
HistoryExactWithoutAI ==
    \A r \in Rooms : Quiet(r) =>
        \A t \in {"chat", "board", "voice"} :
            ListsLast(ctx[r][t], HandledIn(r, t), Limit(t))

\* How long a list may grow: the dialogue is cut by both writers, each at a
\* limit of its own.
Bound(t) ==
    IF t \in {"aiReq", "aiResp"} /\ MaxDialogue > MaxHistory THEN MaxDialogue ELSE Limit(t)

\* A context stays short enough for a prompt, whichever of the two services
\* wrote it last, and whatever copy it had loaded.
ContextsBounded ==
    \A r \in Rooms : \A t \in Recorded : Len(ctx[r][t]) <= Bound(t)

\* The messages published to t, or waiting in a client to be.
Published(t) == ToSet(log[t]) \cup ToSet(outbox[t])

\* What service s has handled of topic t has its reply on topic reply,
\* published or about to be.
RepliedTo(s, t, reply) ==
    \A i \in 1..done[s][t] : log[t][i] \in Published(reply)

\* Nothing is passed over: unless the service was restarted or a producer lost
\* a message, every AI request and every summary request MLout has moved past
\* has its reply, and every voice line MLin has moved past is published as
\* transcript (llm_utils: an LLM failure is still answered; handlers: a failing
\* Redis call does not keep the line; main: commit only after the handler).
NothingPassedOver ==
    sendFaults = 0 =>
        /\ crashes["MLout"] = 0 => /\ RepliedTo("MLout", "aiReq", "aiResp")
                                   /\ RepliedTo("MLout", "sumReq", "sumResp")
        /\ crashes["MLin"] = 0 => RepliedTo("MLin", "voice", "transcript")

\* How often the i-th message of topic t was replied to on topic reply.
Copies(t, i, reply) == Cardinality({j \in 1..Len(log[reply]) : log[reply][j] = log[t][i]})

\* A question is answered and a voice line is transcribed at most once, plus
\* once for each restart of the service and each resent message.  In particular
\* MLout never answers its own answers, and MLin, which publishes a line before
\* it records it, publishes it again only if it was stopped.
RepliesBounded ==
    /\ \A i \in 1..Len(log["aiReq"]) :
          Copies("aiReq", i, "aiResp") <= 1 + crashes["MLout"] + sendFaults
    /\ \A i \in 1..Len(log["voice"]) :
          Copies("voice", i, "transcript") <= 1 + crashes["MLin"] + sendFaults

\* How often the i-th question is listed in a context, or its answer is.
Listed(r, t, i) == Cardinality({j \in 1..Len(ctx[r][t]) : ctx[r][t][j] = i})

\* MLout writes a question and its answer to the context (llm_utils), and MLin
\* writes each again when it reads its topic (handlers); while no service was
\* restarted and no message resent there is no third time, whichever copy of
\* the context was put back in between.
ListedTwice ==
    (sendFaults = 0 /\ \A s \in Services : crashes[s] = 0) =>
        \A r \in Rooms : \A t \in {"aiReq", "aiResp"} : \A i \in 1..Len(log["aiReq"]) :
            Listed(r, t, i) <= 2

\* The services do not stutter, on their topics or in the context.
RepeatsBounded == RepliesBounded /\ ListedTwice

\* Both consumer groups catch up and stay caught up, restarts included: no
\* message blocks a topic and the answers MLin reads back end.
EventuallyDrained ==
    <>[](\A s \in Services : \A t \in Subscribed[s] :
            committed[s][t] = Len(log[t]))

\* The services of RequestReply: the assistant answers questions,
Assistant == INSTANCE RequestReply
    WITH Requests <- [room : Rooms, src : 1..MaxLen["aiReq"]],
         asked    <- ToSet(log["aiReq"]),
         answered <- ToSet(log["aiResp"])

\* MLout writes the summaries that are asked for,
Summaries == INSTANCE RequestReply
    WITH Requests <- [room : Rooms, src : 1..MaxLen["sumReq"]],
         asked    <- ToSet(log["sumReq"]),
         answered <- ToSet(log["sumResp"])

\* and MLin publishes the lines that are spoken.
Scribe == INSTANCE RequestReply
    WITH Requests <- [room : Rooms, src : 1..MaxLen["voice"]],
         asked    <- ToSet(log["voice"]),
         answered <- ToSet(log["transcript"])

\* Nothing is replied to that was not asked or said, in the room it was, and no
\* reply is taken back: every step is a step of each abstract service or does
\* not change what it sees.
ImplementsServicesSafety == Assistant!Safety /\ Summaries!Safety /\ Scribe!Safety

\* Without restarts of MLout and lost messages every question and every summary
\* request is also answered.
ImplementsServices == Assistant!Spec /\ Summaries!Spec

-----------------------------------------------------------------------------
(* What the documents say and the code does not do *)

\* docs/mvp/architecture.md:54: MLin loads a chat message into the context.
\* Then, nothing having failed or restarted, the last chat message MLin has
\* handled in a room is in that room's context.
ChatKept ==
    (redisFaults = 0 /\ sendFaults = 0 /\ \A s \in Services : crashes[s] = 0) =>
        \A r \in Rooms : \A i \in HandledIn(r, "chat") :
            (\A j \in HandledIn(r, "chat") : j <= i) => i \in ToSet(ctx[r]["chat"])

=============================================================================
