------------------------- MODULE AgentSessionsProofs --------------------------
(***************************************************************************)
(* What the agent keeps for all participants, messages and numbers of      *)
(* connections, and what manageTrack of TrackControl keeps beside it.      *)
(* TrackControl takes only steps of AgentSessions or leaves it alone, so   *)
(* that it is kept with the callers as well.                               *)
(***************************************************************************)
EXTENDS TrackControl, TLAPS

\* The last number given to events of each kind.
LastOf(k) == IF k = "speech" THEN room_speech_sequence ELSE room_chat_sequence

\* Nothing queued has a number still to come.
NumbersGiven ==
    \A k \in Kinds : \A i \in DOMAIN published[k] : published[k][i].sequence <= LastOf(k)

\* Whatever is queued with an id is remembered.
QueuedIsSeen ==
    \A i \in DOMAIN published["chat"] :
        published["chat"][i].from \in seen_chat_ids \cup {NoId}

Inv ==
    /\ TypeOK
    /\ MapIsLiveSessions
    /\ NumbersGiven
    /\ SequencesIncrease
    /\ QueuedIsSeen
    /\ ChatOnce

-----------------------------------------------------------------------------
LEMMA InvInit == Init => Inv
<1> SUFFICES ASSUME Init PROVE Inv
  OBVIOUS
<1> USE DEF Init
<1>1. TypeOK
  BY DEF TypeOK, Kinds
<1>2. MapIsLiveSessions
  BY DEF MapIsLiveSessions, Sessions
<1>3. NumbersGiven /\ SequencesIncrease /\ QueuedIsSeen /\ ChatOnce
  BY DEF NumbersGiven, SequencesIncrease, QueuedIsSeen, ChatOnce, Kinds
<1> QED
  BY <1>1, <1>2, <1>3 DEF Inv

LEMMA SessionFacts ==
    ASSUME TypeOK
    PROVE  /\ Sessions = 1 .. Len(state) /\ Len(state) \in Nat
           /\ \A s \in Sessions : state[s] \in Session /\ state[s].of \in Participants
<1>1. state \in Seq(Session)
  BY DEF TypeOK
<1>2. Sessions = 1 .. Len(state) /\ Len(state) \in Nat
  BY <1>1 DEF Sessions
<1>3. \A s \in Sessions : state[s] \in Session
  BY <1>1, <1>2
<1> QED
  BY <1>2, <1>3 DEF Session

\* A session that moves to another place.
LEMMA MoveToFacts ==
    ASSUME TypeOK, NEW s \in Sessions,
           NEW place \in {"starting", "running", "closing", "closed", "failed"},
           MoveTo(s, place)
    PROVE  /\ state' \in Seq(Session) /\ Len(state') = Len(state)
           /\ Sessions' = Sessions
           /\ state'[s].at = place
           /\ \A x \in Sessions : /\ state'[x].of = state[x].of
                                  /\ x # s => state'[x] = state[x]
           /\ state[s].of \in Participants
<1>1. state \in Seq(Session) /\ state[s] \in Session
  BY DEF TypeOK, Sessions
<1>2. [state[s] EXCEPT !.at = place] \in Session
  BY <1>1 DEF Session
<1> QED
  BY <1>1, <1>2 DEF MoveTo, Sessions, Session

\* An event that is handed to the producer.
LEMMA QueueFacts ==
    ASSUME TypeOK, NEW k \in Kinds, NEW event \in Event, Queue(k, event)
    PROVE  /\ published' \in [Kinds -> Seq(Event)]
           /\ faults' \in Nat
           /\ \A x \in Kinds \ {k} : published'[x] = published[x]
           /\ \/ published'[k] = published[k]
              \/ published'[k] = Append(published[k], event)
<1>1. published \in [Kinds -> Seq(Event)] /\ faults \in Nat
  BY DEF TypeOK
<1>2. CASE published' = [published EXCEPT ![k] = Append(@, event)] /\ UNCHANGED faults
  <2>1. Append(published[k], event) \in Seq(Event)
    BY <1>1
  <2>2. \A x \in Kinds : published'[x] = IF x = k THEN Append(published[k], event) ELSE published[x]
    BY <1>1, <1>2
  <2>3. published' \in [Kinds -> Seq(Event)]
    BY <1>1, <1>2, <2>1
  <2> QED
    BY <1>1, <1>2, <2>2, <2>3
<1>3. CASE Fault /\ UNCHANGED published
  BY <1>1, <1>3 DEF Fault
<1> QED
  BY <1>2, <1>3 DEF Queue

\* One kind gets the next number, or its number and no event; the other is left
\* alone.
LEMMA NumberedQueue ==
    ASSUME TypeOK, NumbersGiven, SequencesIncrease, NEW k \in Kinds, NEW event \in Event,
           LastOf(k) \in Nat, event.sequence = LastOf(k) + 1, LastOf(k)' = LastOf(k) + 1,
           \A x \in Kinds \ {k} : published'[x] = published[x] /\ LastOf(x)' = LastOf(x),
           \/ published'[k] = published[k]
           \/ published'[k] = Append(published[k], event)
    PROVE  NumbersGiven' /\ SequencesIncrease'
<1> DEFINE old == published[k]
           new == published'[k]
<1>0. /\ old \in Seq(Event) /\ Len(old) \in Nat /\ DOMAIN old = 1 .. Len(old)
      /\ \A i \in DOMAIN old : old[i].sequence \in Nat
  <2>1. old \in Seq(Event)
    BY DEF TypeOK
  <2> HIDE DEF old
  <2>2. /\ Len(old) \in Nat /\ DOMAIN old = 1 .. Len(old)
        /\ \A i \in DOMAIN old : old[i] \in Event
    BY <2>1
  <2> QED
    BY <2>1, <2>2 DEF Event
<1>1. /\ \A i \in DOMAIN old : old[i].sequence <= LastOf(k)
      /\ \A i, j \in DOMAIN old : i < j => old[i].sequence < old[j].sequence
  BY DEF NumbersGiven, SequencesIncrease
<1>2. /\ \A i \in DOMAIN new : new[i].sequence <= LastOf(k)'
      /\ \A i, j \in DOMAIN new : i < j => new[i].sequence < new[j].sequence
  <2>1. CASE new = old
    BY <1>0, <1>1, <2>1
  <2>2. CASE new = Append(old, event)
    <3>1. /\ DOMAIN new = 1 .. Len(old) + 1
          /\ new[Len(old) + 1] = event
          /\ \A i \in DOMAIN old : new[i] = old[i]
      BY <1>0, <2>2
    <3> HIDE DEF old, new
    <3>2. ASSUME NEW i \in DOMAIN new PROVE new[i].sequence <= LastOf(k)'
      <4>1. CASE i \in DOMAIN old
        BY <1>0, <1>1, <3>1, <4>1
      <4>2. CASE i = Len(old) + 1
        BY <3>1, <4>2
      <4> QED
        BY <1>0, <3>1, <4>1, <4>2
    <3>3. ASSUME NEW i \in DOMAIN new, NEW j \in DOMAIN new, i < j
          PROVE  new[i].sequence < new[j].sequence
      <4>1. i \in DOMAIN old
        BY <1>0, <3>1, <3>3
      <4>2. CASE j \in DOMAIN old
        BY <1>1, <3>1, <3>3, <4>1, <4>2
      <4>3. CASE j = Len(old) + 1
        BY <1>0, <1>1, <3>1, <4>1, <4>3
      <4> QED
        BY <1>0, <3>1, <4>2, <4>3
    <3> QED
      BY <3>2, <3>3
  <2> QED
    BY <2>1, <2>2
<1> HIDE DEF old
<1>3. \A x \in Kinds \ {k} :
        /\ published'[x] = published[x] /\ LastOf(x)' = LastOf(x)
        /\ \A i \in DOMAIN published[x] : published[x][i].sequence <= LastOf(x)
        /\ \A i, j \in DOMAIN published[x] :
              i < j => published[x][i].sequence < published[x][j].sequence
  BY DEF NumbersGiven, SequencesIncrease
<1> QED
  BY <1>2, <1>3 DEF NumbersGiven, SequencesIncrease

\* Types.
LEMMA TypesStep == TypeOK /\ [Next]_vars => TypeOK'
<1> SUFFICES ASSUME TypeOK, [Next]_vars PROVE TypeOK'
  OBVIOUS
<1> USE DEF sequences, Fault
<1>0. participant_sessions \in [Participants -> 0 .. Len(state)] /\ Len(state) \in Nat
  BY DEF TypeOK
<1>1. ASSUME NEW p \in Participants, Join(p) PROVE TypeOK'
  BY <1>1 DEF Join, TypeOK
<1>2. ASSUME NEW p \in Participants, Leave(p) PROVE TypeOK'
  <2>1. \A s \in Sessions : state'[s] \in Session
    BY <1>2, SessionFacts DEF Leave, Session
  <2>2. state' = [s \in 1 .. Len(state) |-> state'[s]] /\ Len(state) \in Nat
    BY <1>2, SessionFacts DEF Leave
  <2>3. state' \in Seq(Session) /\ Len(state') = Len(state)
    BY <2>1, <2>2, SessionFacts
  <2> QED
    BY <1>0, <1>2, <2>3 DEF Leave, TypeOK
<1>3. ASSUME NEW p \in Participants, Vanish(p) PROVE TypeOK'
  BY <1>3 DEF Vanish, TypeOK
<1>4. ASSUME NEW p \in Participants, Start(p) PROVE TypeOK'
  <2>1. called' \in [Participants -> Nat]
    BY <1>4 DEF Start, TypeOK
  <2>2. CASE participant_sessions[p] # 0
    BY <1>0, <1>4, <2>1, <2>2 DEF Start, TypeOK
  <2>3. CASE participant_sessions[p] = 0
    <3>1. state' = Append(state, [of |-> p, at |-> "starting"])
      BY <1>4, <2>3 DEF Start
    <3>2. state' \in Seq(Session) /\ Len(state') = Len(state) + 1
      BY <3>1 DEF TypeOK, Session
    <3>3. participant_sessions' \in [Participants -> 0 .. Len(state')]
      BY <1>0, <1>4, <2>3, <3>2 DEF Start
    <3> QED
      BY <1>4, <2>1, <2>3, <3>2, <3>3 DEF Start, TypeOK
  <2> QED
    BY <2>2, <2>3
<1>5. ASSUME NEW s \in Sessions, Started(s) PROVE TypeOK'
  BY <1>0, <1>5, MoveToFacts DEF Started, TypeOK
<1>6. ASSUME NEW s \in Sessions, StartFails(s) PROVE TypeOK'
  <2>1. /\ state' \in Seq(Session) /\ Len(state') = Len(state)
        /\ state[s].of \in Participants
    BY <1>6, MoveToFacts DEF StartFails
  <2> QED
    BY <1>0, <1>6, <2>1 DEF StartFails, Pop, TypeOK
<1>7. ASSUME NEW s \in Sessions, Closed(s) PROVE TypeOK'
  <2>1. /\ state' \in Seq(Session) /\ Len(state') = Len(state)
        /\ state[s].of \in Participants
    BY <1>7, MoveToFacts DEF Closed
  <2> QED
    BY <1>0, <1>7, <2>1 DEF Closed, Pop, TypeOK
<1>8. ASSUME NEW s \in Sessions, Speak(s) PROVE TypeOK'
  <2>1. [from |-> state[s].of, sequence |-> room_speech_sequence + 1] \in Event
    <3>1. state[s].of \in Participants \cup ChatIds \cup {NoId}
      BY SessionFacts
    <3>2. room_speech_sequence + 1 \in Nat \ {0}
      BY DEF TypeOK
    <3> QED
      BY <3>1, <3>2 DEF Event
  <2>2. published' \in [Kinds -> Seq(Event)] /\ faults' \in Nat
    BY <1>8, <2>1, QueueFacts DEF Speak, Kinds
  <2> QED
    BY <1>8, <2>2 DEF Speak, TypeOK
<1>9. ASSUME NEW id \in ChatIds \cup {NoId}, ChatPacket(id) PROVE TypeOK'
  <2>1. CASE id \in seen_chat_ids
    BY <1>9, <2>1 DEF ChatPacket, TypeOK
  <2>2. CASE id \notin seen_chat_ids
    <3>1. [from |-> id, sequence |-> room_chat_sequence + 1] \in Event
      BY DEF TypeOK, Event
    <3>2. published' \in [Kinds -> Seq(Event)] /\ faults' \in Nat
      BY <1>9, <2>2, <3>1, QueueFacts DEF ChatPacket, Kinds
    <3>3. seen_chat_ids' \subseteq ChatIds
      BY <1>9, <2>2 DEF ChatPacket, TypeOK
    <3> QED
      BY <1>9, <2>2, <3>2, <3>3 DEF ChatPacket, TypeOK
  <2> QED
    BY <2>1, <2>2
<1>10. CASE UNCHANGED vars
  BY <1>10 DEF vars, TypeOK
<1> QED
  BY <1>1, <1>2, <1>3, <1>4, <1>5, <1>6, <1>7, <1>8, <1>9, <1>10 DEF Next

\* Sessions and the map: a session enters both at once and leaves both at once.
LEMMA MapStep == TypeOK /\ MapIsLiveSessions /\ [Next]_vars => MapIsLiveSessions'
<1> SUFFICES ASSUME TypeOK, MapIsLiveSessions, [Next]_vars PROVE MapIsLiveSessions'
  OBVIOUS
<1>0. /\ state \in Seq(Session) /\ Sessions = 1 .. Len(state) /\ Len(state) \in Nat
      /\ participant_sessions \in [Participants -> 0 .. Len(state)]
      /\ \A s \in Sessions : state[s].of \in Participants
  BY SessionFacts DEF TypeOK
<1>1. ASSUME NEW p \in Participants, Leave(p) PROVE MapIsLiveSessions'
  <2>1. /\ Sessions' = Sessions /\ participant_sessions' = participant_sessions
        /\ \A s \in Sessions : state'[s].of = state[s].of /\ (Live(s)' <=> Live(s))
    BY <1>0, <1>1 DEF Leave, Sessions, Session, Live
  <2> QED
    BY <2>1 DEF MapIsLiveSessions
<1>2. ASSUME NEW p \in Participants, Start(p) PROVE MapIsLiveSessions'
  <2>1. CASE participant_sessions[p] # 0
    BY <1>2, <2>1 DEF Start, MapIsLiveSessions, Sessions, Live
  <2>2. CASE participant_sessions[p] = 0
    <3> DEFINE n == Len(state) + 1
    <3>1. /\ state' = Append(state, [of |-> p, at |-> "starting"])
          /\ participant_sessions' = [participant_sessions EXCEPT ![p] = n]
      BY <1>2, <2>2 DEF Start
    <3>2. /\ Sessions' = Sessions \cup {n} /\ n \notin Sessions /\ n # 0
          /\ state'[n].of = p /\ state'[n].at = "starting"
          /\ \A s \in Sessions : state'[s] = state[s]
      BY <1>0, <3>1 DEF Sessions
    <3>3. \A s \in Sessions : Live(s) => state[s].of # p
      BY <1>0, <2>2 DEF MapIsLiveSessions
    <3> HIDE DEF n
    <3>4. ASSUME NEW s \in Sessions', Live(s)' PROVE participant_sessions'[state'[s].of] = s
      <4>1. CASE s = n
        BY <1>0, <3>1, <3>2, <4>1
      <4>2. CASE s # n
        <5>1. s \in Sessions /\ state'[s] = state[s] /\ Live(s)
          BY <3>2, <3>4, <4>2 DEF Live
        <5>2. state[s].of # p /\ state[s].of \in Participants /\ participant_sessions[state[s].of] = s
          BY <1>0, <3>3, <5>1 DEF MapIsLiveSessions
        <5> QED
          BY <1>0, <3>1, <5>1, <5>2
      <4> QED
        BY <4>1, <4>2
    <3>5. ASSUME NEW q \in Participants, participant_sessions'[q] # 0
          PROVE  /\ participant_sessions'[q] \in Sessions'
                 /\ state'[participant_sessions'[q]].of = q
                 /\ Live(participant_sessions[q])'
      BY <1>0, <3>1, <3>2, <3>5 DEF MapIsLiveSessions, Live
    <3> QED
      BY <3>4, <3>5 DEF MapIsLiveSessions
  <2> QED
    BY <2>1, <2>2
<1>3. ASSUME NEW s \in Sessions, Started(s) PROVE MapIsLiveSessions'
  <2>1. /\ Sessions' = Sessions /\ participant_sessions' = participant_sessions
        /\ \A x \in Sessions : state'[x].of = state[x].of /\ (Live(x)' <=> Live(x))
    <3>1. state[s].at = "starting" /\ MoveTo(s, "running") /\ participant_sessions' = participant_sessions
      BY <1>3 DEF Started
    <3>2. /\ Sessions' = Sessions
          /\ state'[s].at = "running"
          /\ \A x \in Sessions : /\ state'[x].of = state[x].of
                                 /\ x # s => state'[x] = state[x]
      BY <3>1, MoveToFacts
    <3>3. ASSUME NEW x \in Sessions
          PROVE  state'[x].of = state[x].of /\ (Live(x)' <=> Live(x))
      <4>1. CASE x = s
        BY <3>1, <3>2, <4>1 DEF Live
      <4>2. CASE x # s
        <5>1. state'[x] = state[x]
          BY <3>2, <4>2
        <5>2. (Live(x)' <=> Live(x))
          BY <5>1 DEF Live
        <5> QED
          BY <5>1, <5>2
      <4> QED
        BY <4>1, <4>2
    <3> QED
      BY <3>1, <3>2, <3>3
  <2> QED
    BY <2>1 DEF MapIsLiveSessions
<1>4. ASSUME NEW s \in Sessions, Pop(state[s].of), Live(s),
             MoveTo(s, "failed") \/ MoveTo(s, "closed")
      PROVE MapIsLiveSessions'
  <2>1. /\ Sessions' = Sessions /\ ~Live(s)'
        /\ \A x \in Sessions : /\ state'[x].of = state[x].of
                               /\ x # s => (Live(x)' <=> Live(x))
    BY <1>4, MoveToFacts DEF Live
  <2>2. /\ participant_sessions' = [participant_sessions EXCEPT ![state[s].of] = 0]
        /\ participant_sessions[state[s].of] = s
    BY <1>4 DEF Pop, MapIsLiveSessions
  <2>3. ASSUME NEW x \in Sessions', Live(x)' PROVE participant_sessions'[state'[x].of] = x
    <3>0. x # s
      BY <2>1, <2>3
    <3>1. x \in Sessions /\ x # s /\ Live(x) /\ state'[x].of = state[x].of
      BY <2>1, <2>3, <3>0 DEF Live
    <3>2. participant_sessions[state[x].of] = x /\ state[x].of \in Participants
      BY <1>0, <3>1 DEF MapIsLiveSessions
    <3>3. state[x].of # state[s].of
      BY <2>2, <3>1, <3>2
    <3> QED
      BY <1>0, <2>2, <3>1, <3>2, <3>3
  <2>4. ASSUME NEW q \in Participants, participant_sessions'[q] # 0
        PROVE  /\ participant_sessions'[q] \in Sessions'
               /\ state'[participant_sessions'[q]].of = q
               /\ Live(participant_sessions[q])'
    <3>1. q # state[s].of /\ participant_sessions'[q] = participant_sessions[q]
      BY <1>0, <2>2, <2>4
    <3>2. /\ participant_sessions[q] \in Sessions /\ state[participant_sessions[q]].of = q
          /\ Live(participant_sessions[q])
      BY <2>4, <3>1 DEF MapIsLiveSessions
    <3>3. participant_sessions[q] # s
      BY <3>1, <3>2
    <3>4. state'[participant_sessions[q]] = state[participant_sessions[q]]
      <4>1. CASE MoveTo(s, "failed")
        BY <3>2, <3>3, <4>1, MoveToFacts
      <4>2. CASE MoveTo(s, "closed")
        BY <3>2, <3>3, <4>2, MoveToFacts
      <4> QED
        BY <1>4, <4>1, <4>2
    <3> QED
      BY <2>1, <3>1, <3>2, <3>4 DEF Live
  <2> QED
    BY <2>3, <2>4 DEF MapIsLiveSessions
<1>5. CASE UNCHANGED <<state, participant_sessions>>
  BY <1>5 DEF MapIsLiveSessions, Sessions, Live
<1> QED
  BY <1>1, <1>2, <1>3, <1>4, <1>5 DEF Next, Join, Vanish, StartFails, Closed, Speak,
     ChatPacket, vars, Live

\* Numbers and ids of what is queued.
LEMMA QueuedStep ==
    Inv /\ TypeOK' /\ [Next]_vars =>
        NumbersGiven' /\ SequencesIncrease' /\ QueuedIsSeen' /\ ChatOnce'
<1> SUFFICES ASSUME Inv, TypeOK', [Next]_vars
             PROVE  NumbersGiven' /\ SequencesIncrease' /\ QueuedIsSeen' /\ ChatOnce'
  OBVIOUS
<1>0. /\ TypeOK /\ NumbersGiven /\ SequencesIncrease /\ QueuedIsSeen /\ ChatOnce
      /\ published \in [Kinds -> Seq(Event)]
      /\ \A k \in Kinds : published[k] \in Seq(Event)
      /\ room_speech_sequence \in Nat /\ room_chat_sequence \in Nat
      /\ "speech" \in Kinds /\ "chat" \in Kinds /\ Kinds = {"speech", "chat"}
  BY DEF Inv, TypeOK, Kinds
<1>1. ASSUME NEW s \in Sessions, Speak(s)
      PROVE  NumbersGiven' /\ SequencesIncrease' /\ QueuedIsSeen' /\ ChatOnce'
  <2> DEFINE event == [from |-> state[s].of, sequence |-> room_speech_sequence + 1]
  <2>1. event \in Event /\ event.sequence = room_speech_sequence + 1
    <3>1. state[s].of \in Participants \cup ChatIds \cup {NoId}
      BY <1>0, SessionFacts
    <3> QED
      BY <1>0, <3>1 DEF Event
  <2>2. /\ Queue("speech", event) /\ room_speech_sequence' = room_speech_sequence + 1
        /\ room_chat_sequence' = room_chat_sequence /\ seen_chat_ids' = seen_chat_ids
    BY <1>1 DEF Speak
  <2> HIDE DEF event
  <2>3. /\ published'["chat"] = published["chat"]
        /\ \/ published'["speech"] = published["speech"]
           \/ published'["speech"] = Append(published["speech"], event)
    BY <1>0, <2>1, <2>2, QueueFacts
  <2>4. QueuedIsSeen' /\ ChatOnce'
    BY <1>0, <2>2, <2>3 DEF QueuedIsSeen, ChatOnce
  <2>5. LastOf("speech")' = LastOf("speech") + 1 /\ LastOf("chat")' = LastOf("chat")
    BY <2>2 DEF LastOf
  <2>6. event.sequence = LastOf("speech") + 1 /\ LastOf("speech") \in Nat
    BY <1>0, <2>1 DEF LastOf
  <2> QED
    BY <1>0, <2>1, <2>3, <2>4, <2>5, <2>6, NumberedQueue
<1>2. ASSUME NEW id \in ChatIds \cup {NoId}, ChatPacket(id), id \notin seen_chat_ids
      PROVE  NumbersGiven' /\ SequencesIncrease' /\ QueuedIsSeen' /\ ChatOnce'
  <2> DEFINE event == [from |-> id, sequence |-> room_chat_sequence + 1]
  <2>1. event \in Event /\ event.sequence = room_chat_sequence + 1 /\ event.from = id
    BY <1>0 DEF Event
  <2>2. /\ Queue("chat", event) /\ room_chat_sequence' = room_chat_sequence + 1
        /\ room_speech_sequence' = room_speech_sequence
        /\ seen_chat_ids' = seen_chat_ids \cup ({id} \ {NoId})
    BY <1>2 DEF ChatPacket
  <2> HIDE DEF event
  <2>3. /\ published'["speech"] = published["speech"]
        /\ \/ published'["chat"] = published["chat"]
           \/ published'["chat"] = Append(published["chat"], event)
    BY <1>0, <2>1, <2>2, QueueFacts
  <2>4. QueuedIsSeen' /\ ChatOnce'
    <3>1. CASE published'["chat"] = published["chat"]
      BY <1>0, <2>2, <3>1 DEF QueuedIsSeen, ChatOnce
    <3>2. CASE published'["chat"] = Append(published["chat"], event)
      <4> DEFINE chat == published["chat"]
                 n == Len(chat) + 1
      <4>1. /\ chat \in Seq(Event) /\ Len(chat) \in Nat /\ DOMAIN chat = 1 .. Len(chat)
            /\ DOMAIN published'["chat"] = DOMAIN chat \cup {n} /\ n \notin DOMAIN chat
            /\ published'["chat"][n] = event
            /\ \A i \in DOMAIN chat : published'["chat"][i] = chat[i]
        BY <1>0, <2>1, <3>2
      <4>2. \A i \in DOMAIN chat : chat[i].from \in seen_chat_ids \cup {NoId}
        BY <1>0 DEF QueuedIsSeen
      <4>3. \A i, j \in DOMAIN chat : chat[i].from = chat[j].from /\ chat[i].from # NoId => i = j
        BY <1>0 DEF ChatOnce
      <4> HIDE DEF chat, n
      <4>4. QueuedIsSeen'
        BY <2>1, <2>2, <4>1, <4>2 DEF QueuedIsSeen
      <4>5. ChatOnce'
        <5>1. \A i \in DOMAIN chat : event.from # NoId => chat[i].from # event.from
          BY <1>2, <2>1, <4>2
        <5> QED
          BY <4>1, <4>3, <5>1 DEF ChatOnce
      <4> QED
        BY <4>4, <4>5
    <3> QED
      BY <2>3, <3>1, <3>2
  <2>5. LastOf("chat")' = LastOf("chat") + 1 /\ LastOf("speech")' = LastOf("speech")
    BY <2>2 DEF LastOf
  <2>6. event.sequence = LastOf("chat") + 1 /\ LastOf("chat") \in Nat
    BY <1>0, <2>1 DEF LastOf
  <2> QED
    BY <1>0, <2>1, <2>3, <2>4, <2>5, <2>6, NumberedQueue
<1>3. CASE UNCHANGED sequences
  BY <1>0, <1>3 DEF sequences, NumbersGiven, SequencesIncrease, QueuedIsSeen, ChatOnce, LastOf
<1> QED
  BY <1>1, <1>2, <1>3 DEF Next, Join, Leave, Vanish, Start, Started, StartFails, Closed,
     ChatPacket, vars

LEMMA Invariant == Spec => []Inv
<1>1. Inv /\ [Next]_vars => Inv'
  <2> SUFFICES ASSUME Inv, [Next]_vars PROVE Inv'
    OBVIOUS
  <2>1. TypeOK' /\ MapIsLiveSessions'
    BY TypesStep, MapStep DEF Inv
  <2> QED
    BY <2>1, QueuedStep DEF Inv
<1> QED
  BY InvInit, <1>1, PTL DEF Spec

-----------------------------------------------------------------------------
(* manageTrack *)

Muting == [at : {"muting"}, target : Participants, source : Sources, type : BOOLEAN,
           left : SUBSET Nat, clean : BOOLEAN]

TrackType ==
    /\ tracks \in [Participants -> SUBSET Track]
    /\ sids \in Nat
    /\ control \in [Callers -> {NoCall} \cup Muting]

\* A sid is one track's, and past ones are not given again.
SidsUnique ==
    \A p \in Participants : \A t, u \in tracks[p] :
        /\ t.sid = u.sid => t = u
        /\ t.sid <= sids

\* A call has read sids of its source only.
LeftMatches ==
    \A c \in Callers : At(c, "muting") =>
        \A sid \in control[c].left :
            /\ sid <= sids
            /\ \A t \in tracks[control[c].target] :
                  t.sid = sid => t.source = control[c].source

TrackInv ==
    /\ TrackType
    /\ SidsUnique
    /\ LeftMatches
    /\ ControlReachesAll

LEMMA MutingCalls ==
    ASSUME TrackType, NEW c \in Callers
    PROVE  /\ At(c, "muting") => control[c] \in Muting
           /\ At(c, "none") \/ At(c, "muting")
  BY DEF TrackType, At, Muting, NoCall

\* Setting a mute changes nothing else.
LEMMA SetMutedFacts ==
    ASSUME TrackType, NEW p \in Participants, NEW sid, NEW m \in BOOLEAN,
           SetMuted(p, sid, m)
    PROVE  /\ tracks' \in [Participants -> SUBSET Track]
           /\ \A q \in Participants \ {p} : tracks'[q] = tracks[q]
           /\ \A v \in tracks'[p] : \E t \in tracks[p] :
                 /\ v = IF t.sid = sid THEN [t EXCEPT !.muted = m] ELSE t
                 /\ v.sid = t.sid /\ v.source = t.source
                 /\ t.sid = sid => v.muted = m
                 /\ t.sid # sid => v = t
<1>1. tracks \in [Participants -> SUBSET Track] /\ tracks[p] \subseteq Track
  BY DEF TrackType
<1>2. tracks' = [tracks EXCEPT ![p] =
                    {IF t.sid = sid THEN [t EXCEPT !.muted = m] ELSE t : t \in tracks[p]}]
  BY DEF SetMuted
<1>3. ASSUME NEW t \in Track
      PROVE  LET v == IF t.sid = sid THEN [t EXCEPT !.muted = m] ELSE t
             IN /\ v \in Track /\ v.sid = t.sid /\ v.source = t.source
                /\ t.sid = sid => v.muted = m
                /\ t.sid # sid => v = t
  <2>1. CASE t.sid = sid
    BY <2>1 DEF Track
  <2>2. CASE t.sid # sid
    BY <2>2 DEF Track
  <2> QED
    BY <2>1, <2>2
<1>4. tracks'[p] = {IF t.sid = sid THEN [t EXCEPT !.muted = m] ELSE t : t \in tracks[p]}
  BY <1>1, <1>2
<1>5. tracks'[p] \subseteq Track
  BY <1>1, <1>3, <1>4
<1>6. \A q \in Participants \ {p} : tracks'[q] = tracks[q]
  BY <1>1, <1>2
<1>7. tracks' \in [Participants -> SUBSET Track]
  BY <1>1, <1>2, <1>4, <1>5
<1>8. ASSUME NEW v \in tracks'[p]
      PROVE  \E t \in tracks[p] :
                 /\ v = IF t.sid = sid THEN [t EXCEPT !.muted = m] ELSE t
                 /\ v.sid = t.sid /\ v.source = t.source
                 /\ t.sid = sid => v.muted = m
                 /\ t.sid # sid => v = t
  <2>1. PICK t \in tracks[p] : v = IF t.sid = sid THEN [t EXCEPT !.muted = m] ELSE t
    BY <1>4
  <2>2. t \in Track
    BY <1>1
  <2> QED
    BY <1>3, <2>1, <2>2
<1> QED
  BY <1>6, <1>7, <1>8

\* It keeps the sids apart.
LEMMA SetMutedUnique ==
    ASSUME TrackType, SidsUnique, NEW p \in Participants, NEW sid, NEW m \in BOOLEAN,
           SetMuted(p, sid, m), UNCHANGED sids
    PROVE  SidsUnique'
<1>1. ASSUME NEW v \in tracks'[p], NEW w \in tracks'[p]
      PROVE  (v.sid = w.sid => v = w) /\ v.sid <= sids
  <2>1. PICK t \in tracks[p] : /\ v = IF t.sid = sid THEN [t EXCEPT !.muted = m] ELSE t
                               /\ v.sid = t.sid
    BY SetMutedFacts
  <2>2. PICK u \in tracks[p] : /\ w = IF u.sid = sid THEN [u EXCEPT !.muted = m] ELSE u
                               /\ w.sid = u.sid
    BY SetMutedFacts
  <2>3. (t.sid = u.sid => t = u) /\ t.sid <= sids
    BY DEF SidsUnique
  <2> QED
    BY <2>1, <2>2, <2>3
<1>2. \A q \in Participants \ {p} : tracks'[q] = tracks[q]
  BY SetMutedFacts
<1> QED
  BY <1>1, <1>2 DEF SidsUnique

\* What a change of tracks does to the calls: `clean' goes, the rest stays.
LEMMA DisturbedFacts ==
    ASSUME TrackType, NEW p \in Participants, NEW source \in Sources, NEW cs
    PROVE  /\ Disturbed(p, source, cs) \in [Callers -> {NoCall} \cup Muting]
           /\ \A d \in Callers :
                 LET k == Disturbed(p, source, cs)[d]
                 IN /\ k.at = control[d].at
                    /\ At(d, "muting") => /\ k.target = control[d].target
                                          /\ k.source = control[d].source
                                          /\ k.type = control[d].type
                                          /\ k.left = control[d].left
                                          /\ k.clean => control[d].clean
                    /\ At(d, "muting") /\ k.clean =>
                          ~(d \in cs /\ k.target = p /\ k.source = source)
<1> DEFINE new == Disturbed(p, source, cs)
<1>1. ASSUME NEW d \in Callers
      PROVE  /\ new[d] \in {NoCall} \cup Muting
             /\ new[d].at = control[d].at
             /\ At(d, "muting") => /\ new[d].target = control[d].target
                                   /\ new[d].source = control[d].source
                                   /\ new[d].type = control[d].type
                                   /\ new[d].left = control[d].left
                                   /\ new[d].clean => control[d].clean
             /\ At(d, "muting") /\ new[d].clean =>
                   ~(d \in cs /\ new[d].target = p /\ new[d].source = source)
  <2>1. CASE d \in cs /\ At(d, "muting") /\ control[d].target = p /\ control[d].source = source
    <3>1. new[d] = [control[d] EXCEPT !.clean = FALSE] /\ control[d] \in Muting
      BY <2>1, MutingCalls DEF Disturbed
    <3> QED
      BY <3>1 DEF Muting
  <2>2. CASE ~(d \in cs /\ At(d, "muting") /\ control[d].target = p /\ control[d].source = source)
    <3>1. new[d] = control[d]
      BY <2>2 DEF Disturbed
    <3> QED
      BY <2>2, <3>1 DEF TrackType
  <2> QED
    BY <2>1, <2>2
<1>2. new = [d \in Callers |-> new[d]]
  BY DEF Disturbed
<1> HIDE DEF new
<1>3. new \in [Callers -> {NoCall} \cup Muting]
  BY <1>1, <1>2
<1> QED
  BY <1>1, <1>3 DEF new

-----------------------------------------------------------------------------
\* Each step of the callers and participants is a step of the agent or leaves it
\* alone.
LEMMA TrackStepIsAgentStep == [TrackNext]_allVars => [Next]_vars
<1>1. Agent => Next
  BY DEF Agent, Next
<1>2. ASSUME NEW p \in Participants, Depart(p) PROVE Next
  BY <1>2 DEF Depart, Next
<1>3. ASSUME NEW p \in Participants, NEW source \in Sources, Publish(p, source)
      PROVE UNCHANGED vars
  BY <1>3 DEF Publish, agentVars
<1>4. ASSUME NEW p \in Participants, NEW t \in tracks[p], Unpublish(p, t) \/ Toggle(p, t)
      PROVE UNCHANGED vars
  BY <1>4 DEF Unpublish, Toggle, agentVars
<1>5. ASSUME NEW c \in Callers, NEW p \in Participants, NEW source \in Sources,
             NEW type \in BOOLEAN, Call(c, p, source, type)
      PROVE UNCHANGED vars
  BY <1>5 DEF Call, agentVars
<1>6. ASSUME NEW c \in Callers, Finish(c) \/ \E sid \in 1..sids : MuteNext(c, sid)
      PROVE UNCHANGED vars
  BY <1>6 DEF Finish, MuteNext, agentVars
<1>7. UNCHANGED allVars => UNCHANGED vars
  BY DEF allVars, agentVars
<1> QED
  BY <1>1, <1>2, <1>3, <1>4, <1>5, <1>6, <1>7 DEF TrackNext

\* A new track, with a sid nobody has read yet.
LEMMA PublishStep ==
    ASSUME TrackInv, NEW p \in Participants, NEW source \in Sources, Publish(p, source)
    PROVE  TrackInv'
<1> DEFINE t0 == [sid |-> sids + 1, source |-> source, muted |-> FALSE]
<1>0. TrackType /\ SidsUnique /\ LeftMatches /\ ControlReachesAll
  BY DEF TrackInv
<1>1. t0 \in Track /\ t0.sid = sids + 1 /\ t0.source = source /\ sids \in Nat
  BY <1>0 DEF TrackType, Track
<1>2. /\ sids' = sids + 1
      /\ tracks' = [tracks EXCEPT ![p] = @ \cup {t0}]
      /\ control' = Disturbed(p, source, Callers)
  BY DEF Publish
<1> HIDE DEF t0
<1>3. TrackType'
  <2>1. tracks' \in [Participants -> SUBSET Track]
    BY <1>0, <1>1, <1>2 DEF TrackType
  <2> QED
    BY <1>0, <1>1, <1>2, <2>1, DisturbedFacts DEF TrackType
<1>4. \A q \in Participants : \A t \in tracks'[q] :
          \/ t \in tracks[q] /\ t.sid <= sids
          \/ q = p /\ t = t0
  BY <1>0, <1>2 DEF TrackType, SidsUnique
<1>5. \A q \in Participants : \A t \in tracks[q] : t.sid \in Nat
  BY <1>0 DEF TrackType, Track
<1>6. SidsUnique'
  <2>1. ASSUME NEW q \in Participants, NEW t \in tracks'[q], NEW u \in tracks'[q]
        PROVE  (t.sid = u.sid => t = u) /\ t.sid <= sids'
    <3>1. CASE t \in tracks[q] /\ u \in tracks[q]
      BY <1>0, <1>1, <1>2, <1>5, <3>1 DEF SidsUnique
    <3>2. CASE ~(t \in tracks[q] /\ u \in tracks[q])
      BY <1>1, <1>2, <1>4, <1>5, <3>2
    <3> QED
      BY <3>1, <3>2
  <2> QED
    BY <2>1 DEF SidsUnique
<1>7. ASSUME NEW c \in Callers, At(c, "muting")'
      PROVE  /\ At(c, "muting") /\ control[c] \in Muting
             /\ control'[c].target = control[c].target
             /\ control'[c].source = control[c].source
             /\ control'[c].type = control[c].type
             /\ control'[c].left = control[c].left
             /\ control'[c].clean => control[c].clean
             /\ control'[c].clean => ~(control[c].target = p /\ control[c].source = source)
  <2>1. At(c, "muting")
    BY <1>0, <1>2, <1>7, DisturbedFacts DEF At
  <2> QED
    BY <1>0, <1>2, <2>1, DisturbedFacts, MutingCalls
<1>8. LeftMatches'
  <2>1. ASSUME NEW c \in Callers, At(c, "muting")', NEW sid \in control'[c].left
        PROVE  /\ sid <= sids'
               /\ \A t \in tracks'[control'[c].target] :
                     t.sid = sid => t.source = control'[c].source
    <3>1. /\ sid \in control[c].left /\ sid \in Nat /\ sid <= sids
          /\ control[c].target \in Participants
          /\ \A t \in tracks[control[c].target] : t.sid = sid => t.source = control[c].source
      BY <1>0, <1>7, <2>1 DEF LeftMatches, Muting
    <3> QED
      BY <1>1, <1>2, <1>4, <1>7, <2>1, <3>1
  <2> QED
    BY <2>1 DEF LeftMatches
<1>9. ControlReachesAll'
  <2>1. ASSUME NEW c \in Callers, At(c, "muting")', control'[c].clean,
               NEW t \in tracks'[control'[c].target], t.source = control'[c].source
        PROVE  t.sid \in control'[c].left \/ t.muted = control'[c].type
    <3>1. control[c].target \in Participants
      BY <1>7, <2>1 DEF Muting
    <3>2. t \in tracks[control[c].target]
      BY <1>1, <1>4, <1>7, <2>1, <3>1
    <3> QED
      BY <1>0, <1>7, <2>1, <3>2 DEF ControlReachesAll
  <2> QED
    BY <2>1 DEF ControlReachesAll
<1> QED
  BY <1>3, <1>6, <1>8, <1>9 DEF TrackInv

\* Tracks that go.
LEMMA FewerTracksStep ==
    ASSUME TrackInv, \A q \in Participants : tracks'[q] \subseteq tracks[q],
           tracks' \in [Participants -> SUBSET Track], UNCHANGED <<sids, control>>
    PROVE  TrackInv'
<1>0. TrackType /\ SidsUnique /\ LeftMatches /\ ControlReachesAll
  BY DEF TrackInv
<1>1. TrackType'
  BY <1>0 DEF TrackType
<1>2. SidsUnique'
  BY <1>0 DEF SidsUnique
<1>3. \A c \in Callers : At(c, "muting") => control[c].target \in Participants
  BY <1>0, MutingCalls DEF Muting
<1>4. LeftMatches'
  BY <1>0, <1>3 DEF LeftMatches, At
<1>5. ControlReachesAll'
  BY <1>0, <1>3 DEF ControlReachesAll, At
<1> QED
  BY <1>1, <1>2, <1>4, <1>5 DEF TrackInv

\* The owner's own change of a mute.
LEMMA ToggleStep ==
    ASSUME TrackInv, NEW p \in Participants, NEW t0 \in tracks[p], Toggle(p, t0)
    PROVE  TrackInv'
<1>0. TrackType /\ SidsUnique /\ LeftMatches /\ ControlReachesAll
  BY DEF TrackInv
<1> DEFINE m == ~t0.muted
<1>1. t0 \in Track /\ t0.source \in Sources /\ m \in BOOLEAN
  BY <1>0 DEF TrackType, Track
<1>2. /\ SetMuted(p, t0.sid, m) /\ sids' = sids
      /\ control' = Disturbed(p, t0.source, Callers)
  BY DEF Toggle
<1> HIDE DEF m
<1>3. /\ tracks' \in [Participants -> SUBSET Track]
      /\ \A q \in Participants \ {p} : tracks'[q] = tracks[q]
      /\ \A v \in tracks'[p] : \E t \in tracks[p] :
            /\ v.sid = t.sid /\ v.source = t.source
            /\ t.sid # t0.sid => v = t
  BY <1>0, <1>1, <1>2, SetMutedFacts
<1>4. TrackType'
  BY <1>0, <1>1, <1>2, <1>3, DisturbedFacts DEF TrackType
<1>5. SidsUnique'
  BY <1>0, <1>1, <1>2, SetMutedUnique
<1>6. ASSUME NEW c \in Callers, At(c, "muting")'
      PROVE  /\ At(c, "muting") /\ control[c].target \in Participants
             /\ control'[c].target = control[c].target
             /\ control'[c].source = control[c].source
             /\ control'[c].type = control[c].type
             /\ control'[c].left = control[c].left
             /\ control'[c].clean => control[c].clean
             /\ control'[c].clean => ~(control[c].target = p /\ control[c].source = t0.source)
  <2>1. At(c, "muting")
    BY <1>0, <1>1, <1>2, <1>6, DisturbedFacts DEF At
  <2> QED
    BY <1>0, <1>1, <1>2, <2>1, DisturbedFacts, MutingCalls DEF Muting
<1>7. LeftMatches'
  <2>1. ASSUME NEW c \in Callers, At(c, "muting")', NEW sid \in control'[c].left,
               NEW v \in tracks'[control'[c].target], v.sid = sid
        PROVE  v.source = control'[c].source
    <3>1. PICK t \in tracks[control[c].target] : v.sid = t.sid /\ v.source = t.source
      BY <1>3, <1>6, <2>1
    <3> QED
      BY <1>0, <1>6, <2>1, <3>1 DEF LeftMatches
  <2>2. ASSUME NEW c \in Callers, At(c, "muting")', NEW sid \in control'[c].left
        PROVE  sid <= sids'
    BY <1>0, <1>2, <1>6, <2>2 DEF LeftMatches
  <2> QED
    BY <2>1, <2>2 DEF LeftMatches
<1>8. ControlReachesAll'
  <2>1. ASSUME NEW c \in Callers, At(c, "muting")', control'[c].clean,
               NEW v \in tracks'[control'[c].target], v.source = control'[c].source
        PROVE  v.sid \in control'[c].left \/ v.muted = control'[c].type
    <3>1. v \in tracks[control[c].target]
      <4>1. CASE control[c].target # p
        BY <1>3, <1>6, <2>1, <4>1
      <4>2. CASE control[c].target = p
        <5>1. PICK t \in tracks[p] : /\ v.sid = t.sid /\ v.source = t.source
                                     /\ t.sid # t0.sid => v = t
          BY <1>3, <1>6, <2>1, <4>2
        <5>2. t # t0
          BY <1>6, <2>1, <4>2, <5>1
        <5>3. t.sid # t0.sid
          BY <1>0, <5>2 DEF SidsUnique
        <5> QED
          BY <4>2, <5>1, <5>3
      <4> QED
        BY <4>1, <4>2
    <3> QED
      BY <1>0, <1>6, <2>1, <3>1 DEF ControlReachesAll
  <2> QED
    BY <2>1 DEF ControlReachesAll
<1> QED
  BY <1>4, <1>5, <1>7, <1>8 DEF TrackInv

\* A call reads its target's tracks.
LEMMA CallStep ==
    ASSUME TrackInv, NEW c \in Callers, NEW p \in Participants, NEW source \in Sources,
           NEW type \in BOOLEAN, Call(c, p, source, type)
    PROVE  TrackInv'
<1> DEFINE k == [at |-> "muting", target |-> p, source |-> source, type |-> type,
                 left |-> {t.sid : t \in TracksOf(p, source)}, clean |-> TRUE]
<1>0. TrackType /\ SidsUnique /\ LeftMatches /\ ControlReachesAll
  BY DEF TrackInv
<1>1. /\ control' = [control EXCEPT ![c] = k] /\ tracks' = tracks /\ sids' = sids
  BY DEF Call
<1>2. \A t \in tracks[p] : t.sid \in Nat
  BY <1>0 DEF TrackType, Track
<1>3. k \in Muting
  BY <1>2 DEF Muting, TracksOf
<1>4. /\ k.at = "muting" /\ k.target = p /\ k.source = source /\ k.type = type
      /\ k.left = {t.sid : t \in TracksOf(p, source)}
  OBVIOUS
<1> HIDE DEF k
<1>5. TrackType'
  BY <1>0, <1>1, <1>3 DEF TrackType
<1>6. SidsUnique'
  BY <1>0, <1>1 DEF SidsUnique
<1>7. control'[c] = k /\ \A d \in Callers \ {c} : control'[d] = control[d]
  BY <1>0, <1>1 DEF TrackType
<1>8. LeftMatches'
  <2>1. ASSUME NEW sid \in k.left
        PROVE  sid <= sids /\ \A t \in tracks[p] : t.sid = sid => t.source = source
    <3>1. PICK u \in tracks[p] : u.source = source /\ u.sid = sid
      BY <1>4, <2>1 DEF TracksOf
    <3> QED
      BY <1>0, <3>1 DEF SidsUnique
  <2> QED
    BY <1>0, <1>1, <1>4, <1>7, <2>1 DEF LeftMatches, At
<1>9. ControlReachesAll'
  <2>1. \A t \in tracks[p] : t.source = source => t.sid \in k.left
    BY <1>4 DEF TracksOf
  <2> QED
    BY <1>0, <1>1, <1>4, <1>7, <2>1 DEF ControlReachesAll, At
<1> QED
  BY <1>5, <1>6, <1>8, <1>9 DEF TrackInv

\* The call ends.
LEMMA EndStep ==
    ASSUME TrackInv, NEW c \in Callers, control' = [control EXCEPT ![c] = NoCall],
           UNCHANGED <<tracks, sids>>
    PROVE  TrackInv'
<1>0. TrackType /\ SidsUnique /\ LeftMatches /\ ControlReachesAll
  BY DEF TrackInv
<1>1. TrackType' /\ SidsUnique'
  BY <1>0 DEF TrackType, SidsUnique
<1>2. /\ ~At(c, "muting")'
      /\ \A d \in Callers \ {c} : control'[d] = control[d]
  BY <1>0 DEF TrackType, At, NoCall
<1>3. LeftMatches'
  BY <1>0, <1>2 DEF LeftMatches, At
<1>4. ControlReachesAll'
  BY <1>0, <1>2 DEF ControlReachesAll, At
<1> QED
  BY <1>1, <1>3, <1>4 DEF TrackInv

\* A call mutes or unmutes one of the tracks it has read.
LEMMA MuteStep ==
    ASSUME TrackInv, NEW c \in Callers, NEW sid, At(c, "muting"), sid \in control[c].left,
           SetMuted(control[c].target, sid, control[c].type), UNCHANGED sids,
           control' = [Disturbed(control[c].target, control[c].source, Opposed(c))
                          EXCEPT ![c].left = @ \ {sid}]
    PROVE  TrackInv'
<1> DEFINE p == control[c].target
           source == control[c].source
           m == control[c].type
           mid == Disturbed(p, source, Opposed(c))
<1>0. TrackType /\ SidsUnique /\ LeftMatches /\ ControlReachesAll
  BY DEF TrackInv
<1>1. control[c] \in Muting /\ p \in Participants /\ source \in Sources /\ m \in BOOLEAN
  BY <1>0, MutingCalls DEF Muting
<1>2. /\ mid \in [Callers -> {NoCall} \cup Muting]
      /\ \A d \in Callers :
            /\ mid[d].at = control[d].at
            /\ At(d, "muting") => /\ mid[d].target = control[d].target
                                  /\ mid[d].source = control[d].source
                                  /\ mid[d].type = control[d].type
                                  /\ mid[d].left = control[d].left
                                  /\ mid[d].clean => control[d].clean
            /\ At(d, "muting") /\ mid[d].clean =>
                  ~(d \in Opposed(c) /\ mid[d].target = p /\ mid[d].source = source)
  BY <1>0, <1>1, DisturbedFacts
<1>3. /\ tracks' \in [Participants -> SUBSET Track]
      /\ \A q \in Participants \ {p} : tracks'[q] = tracks[q]
      /\ \A v \in tracks'[p] : \E t \in tracks[p] :
            /\ v.sid = t.sid /\ v.source = t.source
            /\ t.sid = sid => v.muted = m
            /\ t.sid # sid => v = t
  BY <1>0, <1>1, SetMutedFacts
<1>4. SidsUnique'
  BY <1>0, <1>1, SetMutedUnique
<1>5. control' = [mid EXCEPT ![c].left = @ \ {sid}]
  OBVIOUS
<1>6. mid[c] \in Muting
  <2>1. mid[c].at = "muting"
    BY <1>2 DEF At
  <2> HIDE DEF mid
  <2> QED
    BY <1>2, <2>1 DEF NoCall
<1> HIDE DEF mid, p, source, m
<1>7. /\ control'[c] = [mid[c] EXCEPT !.left = @ \ {sid}]
      /\ \A d \in Callers \ {c} : control'[d] = mid[d]
      /\ control' = [d \in Callers |-> control'[d]]
  BY <1>2, <1>5
<1>8. /\ control'[c] \in Muting
      /\ control'[c].at = mid[c].at /\ control'[c].target = mid[c].target
      /\ control'[c].source = mid[c].source /\ control'[c].type = mid[c].type
      /\ control'[c].clean = mid[c].clean
      /\ control'[c].left = mid[c].left \ {sid}
  BY <1>6, <1>7 DEF Muting
<1>9. TrackType'
  <2>1. control' \in [Callers -> {NoCall} \cup Muting]
    BY <1>2, <1>7, <1>8
  <2> QED
    BY <1>0, <1>3, <2>1 DEF TrackType
<1>10. ASSUME NEW d \in Callers, At(d, "muting")'
       PROVE  /\ At(d, "muting") /\ control[d].target \in Participants
              /\ control'[d].target = control[d].target
              /\ control'[d].source = control[d].source
              /\ control'[d].type = control[d].type
              /\ control'[d].left \subseteq control[d].left
              /\ d # c => control'[d].left = control[d].left
              /\ control'[d].clean => control[d].clean
              /\ d # c /\ control'[d].clean /\ control[d].target = p
                    /\ control[d].source = source => control[d].type = m
  <2>1. CASE d = c
    <3>1. /\ mid[c].target = control[c].target /\ mid[c].source = control[c].source
          /\ mid[c].type = control[c].type /\ mid[c].left = control[c].left
          /\ mid[c].clean => control[c].clean
      BY <1>2
    <3> QED
      BY <1>1, <1>8, <2>1, <3>1 DEF p
  <2>2. CASE d # c
    <3>1. control'[d] = mid[d]
      BY <1>7, <2>2
    <3>2. control[d].at = "muting"
      BY <1>2, <1>10, <3>1 DEF At
    <3>3. At(d, "muting") /\ control[d].target \in Participants
      BY <1>0, <3>2, MutingCalls DEF Muting, At
    <3>4. /\ mid[d].target = control[d].target /\ mid[d].source = control[d].source
          /\ mid[d].type = control[d].type /\ mid[d].left = control[d].left
          /\ mid[d].clean => control[d].clean
          /\ mid[d].clean =>
                ~(d \in Opposed(c) /\ mid[d].target = p /\ mid[d].source = source)
      BY <1>2, <2>2, <3>3
    <3>5. d \notin Opposed(c) => control[d].type = m
      BY <3>3 DEF Opposed, m
    <3> QED
      BY <2>2, <3>1, <3>3, <3>4, <3>5
  <2> QED
    BY <2>1, <2>2
<1>11. LeftMatches'
  <2>1. ASSUME NEW d \in Callers, At(d, "muting")', NEW s \in control'[d].left,
               NEW v \in tracks'[control'[d].target], v.sid = s
        PROVE  v.source = control'[d].source
    <3>1. /\ At(d, "muting") /\ control[d].target \in Participants
          /\ s \in control[d].left
          /\ control'[d].source = control[d].source
          /\ v \in tracks'[control[d].target]
      BY <1>10, <2>1
    <3>2. PICK t \in tracks[control[d].target] : v.sid = t.sid /\ v.source = t.source
      BY <1>3, <3>1
    <3> QED
      BY <1>0, <2>1, <3>1, <3>2 DEF LeftMatches
  <2>2. ASSUME NEW d \in Callers, At(d, "muting")', NEW s \in control'[d].left
        PROVE  s <= sids'
    <3>1. At(d, "muting") /\ s \in control[d].left
      BY <1>10, <2>2
    <3> QED
      BY <1>0, <3>1 DEF LeftMatches
  <2> QED
    BY <2>1, <2>2 DEF LeftMatches
<1>12. \A t \in tracks[p] : t.sid = sid => t.source = source
  BY <1>0 DEF LeftMatches, p, source
<1>13. ControlReachesAll'
  <2>1. ASSUME NEW d \in Callers, At(d, "muting")', control'[d].clean,
               NEW v \in tracks'[control'[d].target], v.source = control'[d].source
        PROVE  v.sid \in control'[d].left \/ v.muted = control'[d].type
    <3>0. /\ At(d, "muting") /\ control[d].target \in Participants /\ control[d].clean
          /\ control'[d].target = control[d].target
          /\ v.source = control[d].source
          /\ control'[d].type = control[d].type
      BY <1>10, <2>1
    <3>1. CASE d = c
      <4>1. PICK t \in tracks[p] : /\ v.sid = t.sid /\ v.source = t.source
                                   /\ t.sid = sid => v.muted = m
                                   /\ t.sid # sid => v = t
        BY <1>3, <1>10, <2>1, <3>1 DEF p
      <4>2. CASE t.sid = sid
        BY <1>10, <2>1, <3>1, <4>1, <4>2 DEF m
      <4>3. CASE t.sid # sid
        <5>1. t.sid \in control[c].left \/ t.muted = control[c].type
          BY <1>0, <3>0, <3>1, <4>1 DEF ControlReachesAll, p
        <5>2. control'[c].left = control[c].left \ {sid}
          BY <1>2, <1>8
        <5> QED
          BY <1>10, <2>1, <3>1, <4>1, <4>3, <5>1, <5>2
      <4> QED
        BY <4>2, <4>3
    <3>2. CASE d # c
      <4>1. control'[d].left = control[d].left
        BY <1>10, <2>1, <3>2
      <4>2. CASE v \in tracks[control[d].target]
        <5>1. v.sid \in control[d].left \/ v.muted = control[d].type
          BY <1>0, <3>0, <4>2 DEF ControlReachesAll
        <5> QED
          BY <3>0, <4>1, <5>1
      <4>3. CASE v \notin tracks[control[d].target]
        <5>1. control[d].target = p
          BY <1>3, <3>0, <2>1, <4>3
        <5>2. PICK t \in tracks[p] : /\ v.sid = t.sid /\ v.source = t.source
                                     /\ t.sid = sid => v.muted = m
                                     /\ t.sid # sid => v = t
          BY <1>3, <3>0, <2>1, <5>1
        <5>3. t.sid = sid /\ v.source = source
          BY <1>12, <4>3, <5>1, <5>2
        <5>4. control[d].type = m
          BY <1>10, <2>1, <3>0, <3>2, <5>1, <5>3
        <5> QED
          BY <3>0, <5>2, <5>3, <5>4
      <4> QED
        BY <4>2, <4>3
    <3> QED
      BY <3>1, <3>2
  <2> QED
    BY <2>1 DEF ControlReachesAll
<1> QED
  BY <1>4, <1>9, <1>11, <1>13 DEF TrackInv

LEMMA TrackStep == TrackInv /\ [TrackNext]_allVars => TrackInv'
<1> SUFFICES ASSUME TrackInv, [TrackNext]_allVars PROVE TrackInv'
  OBVIOUS
<1>0. tracks \in [Participants -> SUBSET Track]
  BY DEF TrackInv, TrackType
<1>1. CASE UNCHANGED controlVars
  BY <1>0, <1>1, FewerTracksStep DEF controlVars
<1>2. CASE Agent
  BY <1>1, <1>2 DEF Agent
<1>3. ASSUME NEW p \in Participants, Depart(p) PROVE TrackInv'
  <2>1. /\ tracks' = [tracks EXCEPT ![p] = {}] /\ UNCHANGED <<sids, control>>
    BY <1>3 DEF Depart
  <2>2. /\ tracks' \in [Participants -> SUBSET Track]
        /\ \A q \in Participants : tracks'[q] \subseteq tracks[q]
    BY <1>0, <2>1
  <2> QED
    BY <2>1, <2>2, FewerTracksStep
<1>4. ASSUME NEW p \in Participants, NEW source \in Sources, Publish(p, source) PROVE TrackInv'
  BY <1>4, PublishStep
<1>5. ASSUME NEW p \in Participants, NEW t \in tracks[p], Unpublish(p, t) PROVE TrackInv'
  <2>1. /\ tracks' = [tracks EXCEPT ![p] = @ \ {t}] /\ UNCHANGED <<sids, control>>
    BY <1>5 DEF Unpublish
  <2>2. /\ tracks' \in [Participants -> SUBSET Track]
        /\ \A q \in Participants : tracks'[q] \subseteq tracks[q]
    BY <1>0, <2>1
  <2> QED
    BY <2>1, <2>2, FewerTracksStep
<1>6. ASSUME NEW p \in Participants, NEW t \in tracks[p], Toggle(p, t) PROVE TrackInv'
  BY <1>6, ToggleStep
<1>7. ASSUME NEW c \in Callers, NEW p \in Participants, NEW source \in Sources,
             NEW type \in BOOLEAN, Call(c, p, source, type)
      PROVE TrackInv'
  BY <1>7, CallStep
<1>8. ASSUME NEW c \in Callers, NEW sid \in 1..sids, MuteNext(c, sid) PROVE TrackInv'
  <2>1. At(c, "muting") /\ sid \in control[c].left /\ UNCHANGED sids
    BY <1>8 DEF MuteNext
  <2>2. \/ /\ SetMuted(control[c].target, sid, control[c].type)
           /\ control' = [Disturbed(control[c].target, control[c].source, Opposed(c))
                             EXCEPT ![c].left = @ \ {sid}]
        \/ control' = [control EXCEPT ![c] = NoCall] /\ UNCHANGED tracks
    BY <1>8 DEF MuteNext
  <2> QED
    BY <2>1, <2>2, MuteStep, EndStep
<1>9. ASSUME NEW c \in Callers, Finish(c) PROVE TrackInv'
  BY <1>9, EndStep DEF Finish
<1>10. CASE UNCHANGED allVars
  BY <1>1, <1>10 DEF allVars, controlVars
<1> QED
  BY <1>2, <1>3, <1>4, <1>5, <1>6, <1>7, <1>8, <1>9, <1>10 DEF TrackNext

LEMMA TrackInvariant == TrackSpec => []TrackInv
<1>1. TrackInit => TrackInv
  <2> SUFFICES ASSUME TrackInit PROVE TrackInv
    OBVIOUS
  <2>1. TrackType
    BY DEF TrackInit, TrackType
  <2>2. SidsUnique /\ LeftMatches /\ ControlReachesAll
    BY DEF TrackInit, SidsUnique, LeftMatches, ControlReachesAll, At, NoCall
  <2> QED
    BY <2>1, <2>2 DEF TrackInv
<1> QED
  BY <1>1, TrackStep, PTL DEF TrackSpec

\* A track of which p's mute changes in a step.
Scoped(p, t, u) ==
    \/ Toggle(p, t)
    \/ \E c \in Callers : /\ At(c, "muting")
                          /\ control[c].target = p
                          /\ control[c].source = t.source
                          /\ control[c].type = u.muted

LEMMA ScopeStep ==
    ASSUME TrackInv, [TrackNext]_allVars, NEW p \in Participants, NEW t \in tracks[p],
           NEW u \in tracks'[p], t.sid = u.sid, t.muted # u.muted
    PROVE  Scoped(p, t, u)
<1>0. /\ TrackType /\ SidsUnique /\ LeftMatches
      /\ tracks \in [Participants -> SUBSET Track]
      /\ u \notin tracks[p]
  BY DEF TrackInv, TrackType, SidsUnique
<1>1. ASSUME tracks'[p] \subseteq tracks[p] PROVE FALSE
  BY <1>0, <1>1
<1>2. ASSUME NEW q \in Participants, NEW source \in Sources, Publish(q, source) PROVE FALSE
  <2>1. /\ t.sid <= sids /\ t.sid \in Nat /\ sids \in Nat
    BY <1>0 DEF SidsUnique, TrackType, Track
  <2>2. u.sid = sids + 1
    BY <1>0, <1>2 DEF Publish
  <2> QED
    BY <2>1, <2>2
<1>3. ASSUME NEW q \in Participants, NEW t0 \in tracks[q], Toggle(q, t0)
      PROVE  Scoped(p, t, u)
  <2> DEFINE m == ~t0.muted
  <2>1. m \in BOOLEAN /\ SetMuted(q, t0.sid, m)
    BY <1>3 DEF Toggle
  <2> HIDE DEF m
  <2>2. p = q
    BY <1>0, <2>1, SetMutedFacts
  <2>3. PICK v \in tracks[q] : u.sid = v.sid /\ (v.sid # t0.sid => u = v)
    BY <1>0, <2>1, <2>2, SetMutedFacts
  <2>4. v.sid = t0.sid
    BY <1>0, <2>2, <2>3
  <2>5. t = t0
    BY <1>0, <2>2, <2>3, <2>4 DEF SidsUnique
  <2> QED
    BY <1>3, <2>2, <2>5 DEF Scoped
<1>4. ASSUME NEW c \in Callers, NEW sid \in 1..sids, MuteNext(c, sid)
      PROVE  Scoped(p, t, u)
  <2>1. /\ At(c, "muting") /\ sid \in control[c].left
        /\ control[c].target \in Participants /\ control[c].type \in BOOLEAN
    BY <1>0, <1>4, MutingCalls DEF MuteNext, Muting
  <2>2. SetMuted(control[c].target, sid, control[c].type)
    BY <1>1, <1>4 DEF MuteNext
  <2>3. p = control[c].target
    BY <1>0, <2>1, <2>2, SetMutedFacts
  <2>4. PICK v \in tracks[p] : /\ u.sid = v.sid
                               /\ v.sid = sid => u.muted = control[c].type
                               /\ v.sid # sid => u = v
    BY <1>0, <2>1, <2>2, <2>3, SetMutedFacts
  <2>5. v.sid = sid /\ t.sid = sid
    BY <1>0, <2>4
  <2>6. t.source = control[c].source
    BY <1>0, <2>1, <2>3, <2>5 DEF LeftMatches
  <2> QED
    BY <2>1, <2>3, <2>4, <2>5, <2>6 DEF Scoped
<1>5. ASSUME NEW q \in Participants, Depart(q) PROVE FALSE
  BY <1>0, <1>1, <1>5 DEF Depart
<1>6. ASSUME NEW q \in Participants, NEW t0 \in tracks[q], Unpublish(q, t0) PROVE FALSE
  BY <1>0, <1>1, <1>6 DEF Unpublish
<1>7. ASSUME UNCHANGED tracks PROVE FALSE
  BY <1>1, <1>7
<1> QED
  BY <1>2, <1>3, <1>4, <1>5, <1>6, <1>7
  DEF TrackNext, Agent, Call, Finish, allVars, controlVars

-----------------------------------------------------------------------------
(* Theorems *)

\* Participants, sessions, the map and the events have their types.
THEOREM TypeCorrect == Spec => []TypeOK
<1>1. Inv => TypeOK
  BY DEF Inv
<1> QED
  BY <1>1, Invariant, PTL

\* However calls, starts, failures and late close events interleave, the map
\* holds exactly the sessions that have not ended: one for an identity.
THEOREM OneSessionEach == Spec => []MapIsLiveSessions
<1>1. Inv => MapIsLiveSessions
  BY DEF Inv
<1> QED
  BY <1>1, Invariant, PTL

\* Events of a kind are queued with increasing numbers, and a chat message at
\* most once, whatever the producer drops and however often packets come.
THEOREM EventsInOrderOnce == Spec => [](SequencesIncrease /\ ChatOnce)
<1>1. Inv => SequencesIncrease /\ ChatOnce
  BY DEF Inv
<1> QED
  BY <1>1, Invariant, PTL

\* Callers and tracks leave the agent's steps as they are, so what is proved of
\* the agent is true beside them.
THEOREM TracksKeepTheAgent == TrackSpec => Spec
<1>1. TrackInit => Init
  BY DEF TrackInit
<1> QED
  BY <1>1, TrackStepIsAgentStep, PTL DEF TrackSpec, Spec

\* The loop of manageTrack misses no track of its source, unless somebody else
\* touches them meanwhile.
THEOREM LoopReachesAll == TrackSpec => []ControlReachesAll
<1>1. TrackInv => ControlReachesAll
  BY DEF TrackInv
<1> QED
  BY <1>1, TrackInvariant, PTL

\* A mute changes by its owner or by a call for this participant and source.
THEOREM MutesStayInScope == TrackSpec => ControlStaysInScope
<1>1. TrackInv /\ [TrackNext]_allVars =>
        [\A p \in Participants : \A t \in tracks[p], u \in tracks'[p] :
            t.sid = u.sid /\ t.muted # u.muted =>
              \/ Toggle(p, t)
              \/ \E c \in Callers : /\ At(c, "muting")
                                    /\ control[c].target = p
                                    /\ control[c].source = t.source
                                    /\ control[c].type = u.muted]_allVars
  BY ScopeStep DEF Scoped
<1> QED
  BY <1>1, TrackInvariant, PTL DEF TrackSpec, ControlStaysInScope

=============================================================================
