---------------------------- MODULE AgentSessions ----------------------------
(***************************************************************************)
(* The LiveKit agent in one room (room_agent.py, entrypoint): a session    *)
(* that transcribes for each participant, the chat it overhears, and the   *)
(* events it hands to the Kafka producer.                                  *)
(*                                                                         *)
(* LiveKit calls start_participant_session in a task of its own whenever a *)
(* participant connects.  A session serves an identity: when its           *)
(* participant leaves deliberately LiveKit closes it, and the close event  *)
(* comes later; when the connection just breaks it waits for the identity  *)
(* to come back.  The agent is one asyncio process: an action is the code  *)
(* between two awaits.                                                     *)
(***************************************************************************)
EXTENDS Integers, Sequences, FiniteSets, SequencesExt

CONSTANTS
    Participants,  \* identities of participants
    ChatIds,       \* ids of chat messages sent in the room
    NoId,          \* what a packet without an id has
    MaxJoins,      \* bound: connections of participants
    MaxSpoken,     \* bound: utterances transcribed
    MaxPackets,    \* bound: chat packets received
    MaxFaults      \* bound: sessions that cannot start, events not queued

ASSUME AgentAssumption ==
    /\ NoId \notin ChatIds
    /\ {MaxJoins, MaxSpoken, MaxPackets, MaxFaults} \subseteq Nat

VARIABLES
    present,        \* participants in the room
    called,         \* calls of start_participant_session not run yet
    state,          \* the sessions created, numbered: whose, and where it is
    participant_sessions,  \* identity -> number of its session, 0: none
    room_speech_sequence,
    room_chat_sequence,
    seen_chat_ids,
    published,      \* events of each kind queued in the producer
    refused,        \* participants whose call found a session (for properties)
    joins, packets, faults

sequences == <<room_speech_sequence, room_chat_sequence, seen_chat_ids, published>>
vars == <<present, called, state, participant_sessions, sequences, refused,
          joins, packets, faults>>

Kinds == {"speech", "chat"}

Init ==
    /\ present = {}
    /\ called = [p \in Participants |-> 0]
    /\ state = << >>
    /\ participant_sessions = [p \in Participants |-> 0]
    /\ room_speech_sequence = 0 /\ room_chat_sequence = 0
    /\ seen_chat_ids = {} /\ published = [k \in Kinds |-> << >>]
    /\ refused = {}
    /\ joins = 0 /\ packets = 0 /\ faults = 0

-----------------------------------------------------------------------------
(* Helpers *)

Sessions == DOMAIN state

MoveTo(s, place) == state' = [state EXCEPT ![s].at = place]

\* participant_sessions.pop(participant.identity, None)
Pop(p) == participant_sessions' = [participant_sessions EXCEPT ![p] = 0]

Fault == faults < MaxFaults /\ faults' = faults + 1

\* publisher._produce: a full queue drops the event.
Queue(kind, event) ==
    \/ published' = [published EXCEPT ![kind] = Append(@, event)] /\ UNCHANGED faults
    \/ Fault /\ UNCHANGED published

-----------------------------------------------------------------------------
(* Mutations: actions below with a plausible bug (no action uses them). *)

\* A call that came while the connection was down is dropped.
StartRefused(p) ==
    /\ called[p] > 0
    /\ called' = [called EXCEPT ![p] = @ - 1]
    /\ IF participant_sessions[p] # 0
       THEN refused' = refused \cup {p} /\ UNCHANGED <<state, participant_sessions>>
       ELSE UNCHANGED <<state, participant_sessions, refused>>
    /\ UNCHANGED <<present, sequences, joins, packets, faults>>

\* A session that cannot start stays in the map.
StartFailsKeeping(s) ==
    /\ state[s].at = "starting"
    /\ Fault
    /\ MoveTo(s, "failed")
    /\ UNCHANGED <<present, called, participant_sessions, sequences, refused,
                   joins, packets>>

\* The ids looked at are not those kept: a packet is known by its number.
ChatPacketForgets(id) ==
    /\ packets < MaxPackets
    /\ packets' = packets + 1
    /\ IF id \in seen_chat_ids
       THEN UNCHANGED <<sequences, faults>>
       ELSE /\ UNCHANGED seen_chat_ids
            /\ room_chat_sequence' = room_chat_sequence + 1
            /\ Queue("chat", [from |-> id, sequence |-> room_chat_sequence + 1])
            /\ UNCHANGED room_speech_sequence
    /\ UNCHANGED <<present, called, state, participant_sessions, refused, joins>>

-----------------------------------------------------------------------------
(* LiveKit *)

\* A participant connects: the entrypoint is called.
Join(p) ==
    /\ p \notin present
    /\ joins < MaxJoins
    /\ joins' = joins + 1
    /\ present' = present \cup {p}
    /\ called' = [called EXCEPT ![p] = @ + 1]
    /\ UNCHANGED <<state, participant_sessions, sequences, refused, packets, faults>>

\* The participant leaves: a running session starts to close.
Leave(p) ==
    /\ p \in present
    /\ present' = present \ {p}
    /\ state' = [s \in Sessions |->
                    IF state[s].of = p /\ state[s].at = "running"
                    THEN [state[s] EXCEPT !.at = "closing"] ELSE state[s]]
    /\ UNCHANGED <<called, participant_sessions, sequences, refused, joins,
                   packets, faults>>

\* The connection breaks: the session stays.
Vanish(p) ==
    /\ p \in present
    /\ present' = present \ {p}
    /\ UNCHANGED <<called, state, participant_sessions, sequences, refused, joins,
                   packets, faults>>

-----------------------------------------------------------------------------
(* start_participant_session *)

\* Up to the await of session.start.
Start(p) ==
    /\ called[p] > 0
    /\ called' = [called EXCEPT ![p] = @ - 1]
    /\ IF participant_sessions[p] # 0
       THEN refused' = refused \cup {p} /\ UNCHANGED <<state, participant_sessions>>
       ELSE /\ state' = Append(state, [of |-> p, at |-> "starting"])
            /\ participant_sessions' = [participant_sessions EXCEPT ![p] = Len(state) + 1]
            /\ refused' = refused \ {p}
    /\ UNCHANGED <<present, sequences, joins, packets, faults>>

Started(s) ==
    /\ state[s].at = "starting"
    /\ MoveTo(s, "running")
    /\ UNCHANGED <<present, called, participant_sessions, sequences, refused,
                   joins, packets, faults>>

StartFails(s) ==
    /\ state[s].at = "starting"
    /\ Fault
    /\ MoveTo(s, "failed")
    /\ Pop(state[s].of)
    /\ UNCHANGED <<present, called, sequences, refused, joins, packets>>

\* on_close
Closed(s) ==
    /\ state[s].at = "closing"
    /\ MoveTo(s, "closed")
    /\ Pop(state[s].of)
    /\ UNCHANGED <<present, called, sequences, refused, joins, packets, faults>>

\* on_user_input_transcribed, final text: of a running session, or of one that
\* is closing and transcribes what it had heard.
Speak(s) ==
    /\ \/ state[s].at = "running" /\ state[s].of \in present
       \/ state[s].at = "closing"
    /\ room_speech_sequence < MaxSpoken
    /\ room_speech_sequence' = room_speech_sequence + 1
    /\ Queue("speech", [from |-> state[s].of,
                        sequence |-> room_speech_sequence + 1])
    /\ UNCHANGED <<present, called, state, participant_sessions, room_chat_sequence,
                   seen_chat_ids, refused, joins, packets>>

-----------------------------------------------------------------------------
\* on_data_received: a packet may come more than once.
ChatPacket(id) ==
    /\ packets < MaxPackets
    /\ packets' = packets + 1
    /\ IF id \in seen_chat_ids
       THEN UNCHANGED <<sequences, faults>>
       ELSE /\ seen_chat_ids' = seen_chat_ids \cup ({id} \ {NoId})
            /\ room_chat_sequence' = room_chat_sequence + 1
            /\ Queue("chat", [from |-> id, sequence |-> room_chat_sequence + 1])
            /\ UNCHANGED room_speech_sequence
    /\ UNCHANGED <<present, called, state, participant_sessions, refused, joins>>

-----------------------------------------------------------------------------
Next ==
    \/ \E p \in Participants : Join(p) \/ Leave(p) \/ Vanish(p) \/ Start(p)
    \/ \E s \in Sessions : Started(s) \/ StartFails(s) \/ Closed(s) \/ Speak(s)
    \/ \E id \in ChatIds \cup {NoId} : ChatPacket(id)

\* asyncio runs the tasks, sessions start, and closing ones close.
Fairness ==
    /\ \A p \in Participants : WF_vars(Start(p))
    /\ WF_vars(\E s \in Sessions : Started(s) \/ Closed(s))

Spec == Init /\ [][Next]_vars
FairSpec == Spec /\ Fairness

-----------------------------------------------------------------------------
(* Properties *)

Session == [of : Participants, at : {"starting", "running", "closing", "closed", "failed"}]
Event == [from : Participants \cup ChatIds \cup {NoId}, sequence : Nat \ {0}]

\* Every variable has its type; in particular a packet without an id never gets
\* the missing id among the seen ones (which would silence all such packets).
TypeOK ==
    /\ present \subseteq Participants
    /\ called \in [Participants -> Nat]
    /\ state \in Seq(Session)
    /\ participant_sessions \in [Participants -> 0 .. Len(state)]
    /\ room_speech_sequence \in Nat /\ room_chat_sequence \in Nat
    /\ seen_chat_ids \subseteq ChatIds
    /\ published \in [Kinds -> Seq(Event)]
    /\ refused \subseteq Participants
    /\ joins \in Nat /\ packets \in Nat /\ faults \in Nat

Live(s) == state[s].at \in {"starting", "running", "closing"}

\* The map holds exactly the sessions that have not ended, each under its own
\* identity: no session is forgotten while it transcribes, and none that ended
\* blocks the next.  So nobody is transcribed by two sessions at once.
MapIsLiveSessions ==
    /\ \A s \in Sessions : Live(s) => participant_sessions[state[s].of] = s
    /\ \A p \in Participants : participant_sessions[p] # 0 =>
          /\ participant_sessions[p] \in Sessions
          /\ state[participant_sessions[p]].of = p
          /\ Live(participant_sessions[p])

\* Across all sessions of the room the events of one kind carry increasing
\* numbers, even if some could not be queued.
SequencesIncrease ==
    \A k \in Kinds : \A i, j \in DOMAIN published[k] :
        i < j => published[k][i].sequence < published[k][j].sequence

\* A chat message with an id is queued at most once, however often it comes.
ChatOnce ==
    LET chat == published["chat"]
    IN \A i, j \in DOMAIN chat :
          chat[i].from = chat[j].from /\ chat[i].from # NoId => i = j

\* A participant who stays is heard in the end, unless a session cannot start
\* or the call came while the session of the visit before was still there.
EventuallyHeard ==
    \A p \in Participants :
        <>[](p \in present) =>
            <>[](\/ faults > 0 \/ p \in refused
                 \/ \E s \in Sessions : state[s] = [of |-> p, at |-> "running"])

=============================================================================
