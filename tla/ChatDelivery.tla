---------------------------- MODULE ChatDelivery ----------------------------
(***************************************************************************)
(* How chat messages reach the archive, the other services and the screens *)
(* of a room: the message:send handler of ChatGateway, the consumer of the *)
(* topics the services answer on (KafkaConsumerService), the broadcasts of *)
(* both Socket.IO gateways, and the chat panel of a browser tab, which     *)
(* loads the history over HTTP and then connects its socket.               *)
(*                                                                         *)
(* Messages are numbered in the order of their createdAt, which the        *)
(* handler takes before it awaits PostgreSQL; the archive is read in that  *)
(* order.  A reply stands for an answer, a summary or a transcript line:   *)
(* all three are validated, saved and then broadcast in the same way, and  *)
(* one with a blank text (a transcript line may have it) is not shown.     *)
(* A failing call to PostgreSQL has no effect.  A message is emitted to    *)
(* Kafka without waiting for the broker (kafka-producer.service.ts): what  *)
(* happens to it from there on is not followed here.                       *)
(***************************************************************************)
EXTENDS Integers, Sequences, FiniteSets, SequencesExt

CONSTANTS
    Clients,      \* browser tabs
    Rooms,        \* rooms
    RoomOf,       \* the room each tab shows
    MaxMessages,  \* bound: messages and replies together
    MaxOpenings,  \* bound: times a tab opens the chat panel, together
    MaxDrops,     \* bound: connections lost
    MaxFaults,    \* bound: failing calls to PostgreSQL
    MaxRestarts   \* bound: restarts of the backend

ASSUME DeliveryAssumption ==
    /\ RoomOf \in [Clients -> Rooms]
    /\ {MaxMessages, MaxOpenings, MaxDrops, MaxFaults, MaxRestarts} \subseteq Nat

Services == "services"
ASSUME ServicesAssumption == Services \notin Clients

Ids == 1 .. MaxMessages

VARIABLES
    messages,   \* the messages and replies made so far; the index is the id
    work,       \* handleMessage calls: id -> what is awaited
    archive,    \* what is stored for each room, by createdAt
    kafka,      \* messages handed to the Kafka client, for the broker or not
    topic,      \* the topic of the replies
    position,   \* replies the consumer is past
    committed,  \* offset committed by the consumer group; -1: none yet
    busy,       \* what the consumer does with the reply after position
    tab,        \* where each chat panel is
    reply,      \* HTTP: the history under way to the tab
    queue,      \* Socket.IO: the events under way to the tab
    shown,      \* chatItems of the tab
    known,      \* the messages saved when the tab last joined (for properties)
    excused,    \* replies and messages a failure was seen to drop (same)
    openings, drops, faults, restarts

backend == <<messages, work, archive, kafka>>
consumer == <<topic, position, committed, busy>>
browser == <<tab, reply, queue, shown, known>>
bounds == <<openings, drops, faults, restarts>>
vars == <<backend, consumer, browser, excused, bounds>>

Init ==
    /\ messages = << >> /\ work = [m \in Ids |-> "none"]
    /\ archive = [r \in Rooms |-> << >>] /\ kafka = {}
    /\ topic = << >> /\ position = 0 /\ committed = -1 /\ busy = "idle"
    /\ tab = [c \in Clients |-> "closed"]
    /\ reply = [c \in Clients |-> << >>]
    /\ queue = [c \in Clients |-> << >>]
    /\ shown = [c \in Clients |-> << >>]
    /\ known = [c \in Clients |-> {}]
    /\ excused = {}
    /\ openings = 0 /\ drops = 0 /\ faults = 0 /\ restarts = 0

-----------------------------------------------------------------------------
(* Helpers *)

StoredIn(r) == ToSet(archive[r])
Saved == UNION {StoredIn(r) : r \in Rooms}

\* chatMessage.create (summaryEntry.create, transcriptEntry.create); histories
\* are read in the order of createdAt.
Store(m) ==
    LET r == messages[m].room
        earlier == {i \in DOMAIN archive[r] : archive[r][i] <= m}
    IN archive' = [archive EXCEPT ![r] = InsertAt(@, Cardinality(earlier) + 1, m)]

\* Mutation: the sender is left out of the broadcast (socket.to instead of server.to).
ToOthers(m) ==
    queue' = [c \in Clients |->
                 IF /\ tab[c] = "joined" /\ RoomOf[c] = messages[m].room
                    /\ messages[m].from # c
                 THEN Append(queue[c], m) ELSE queue[c]]

\* server.to(roomName).emit: to the sockets joined at that moment.
ToRoom(m) ==
    queue' = [c \in Clients |->
                 IF tab[c] = "joined" /\ RoomOf[c] = messages[m].room
                 THEN Append(queue[c], m) ELSE queue[c]]

Fault == faults < MaxFaults /\ faults' = faults + 1

\* The reply the consumer is at.
Current == topic[position + 1]

\* The consumer is through with its reply and goes on to the next.
Past ==
    /\ position' = position + 1
    /\ busy' = "idle"
    /\ UNCHANGED <<topic, committed>>

-----------------------------------------------------------------------------
(* Mutations: definitions with a plausible bug (nothing uses them). *)

\* A message is broadcast before it is saved.
ReceiveAndBroadcast(c) ==
    /\ tab[c] = "joined"
    /\ Len(messages) < MaxMessages
    /\ messages' = Append(messages, [room |-> RoomOf[c], from |-> c, valid |-> TRUE,
                                  blank |-> FALSE])
    /\ work' = [work EXCEPT ![Len(messages) + 1] = "save"]
    /\ queue' = [queue EXCEPT ![c] = Append(@, Len(messages) + 1)]
    /\ UNCHANGED <<archive, kafka, consumer, tab, reply, shown, known,
                   excused, bounds>>

\* joinedRooms is looked at again after the save.
BroadcastIfSenderStays(m) ==
    /\ work[m] = "send"
    /\ IF \E c \in Clients : c = messages[m].from /\ tab[c] = "joined"
       THEN ToRoom(m) /\ kafka' = kafka \cup {m}
       ELSE UNCHANGED <<queue, kafka>>
    /\ work' = [work EXCEPT ![m] = "none"]
    /\ UNCHANGED <<messages, archive, consumer, tab, reply, shown, known, excused, bounds>>

\* The offset of the reply being handled is committed with the others.
CommitAhead ==
    /\ position > 0 \/ busy # "idle"
    /\ committed' = IF busy = "idle" THEN position ELSE position + 1
    /\ committed # committed'
    /\ UNCHANGED <<backend, topic, position, busy, browser, excused, bounds>>

-----------------------------------------------------------------------------
(* handleMessage *)

\* The message arrives: its sender must have joined, its text must not be
\* empty (a rejected message changes nothing).  The event gets its time.
Receive(c) ==
    /\ tab[c] = "joined"
    /\ Len(messages) < MaxMessages
    /\ messages' = Append(messages, [room |-> RoomOf[c], from |-> c, valid |-> TRUE,
                                  blank |-> FALSE])
    /\ work' = [work EXCEPT ![Len(messages) + 1] = "save"]
    /\ UNCHANGED <<archive, kafka, consumer, browser, excused, bounds>>

SaveMessage(m) ==
    /\ work[m] = "save"
    /\ Store(m)
    /\ work' = [work EXCEPT ![m] = "send"]
    /\ UNCHANGED <<messages, kafka, consumer, browser, excused, bounds>>

\* The sender gets an exception; the message is gone.
SaveMessageFails(m) ==
    /\ work[m] = "save"
    /\ Fault
    /\ work' = [work EXCEPT ![m] = "none"]
    /\ excused' = excused \cup {m}
    /\ UNCHANGED <<messages, archive, kafka, consumer, browser,
                   openings, drops, restarts>>

\* Saved: tell the room and the Kafka client, whether the sender is still there
\* or not.  emit is not awaited; if the broker refuses, that is only logged.
BroadcastMessage(m) ==
    /\ work[m] = "send"
    /\ ToRoom(m)
    /\ kafka' = kafka \cup {m}
    /\ work' = [work EXCEPT ![m] = "none"]
    /\ UNCHANGED <<messages, archive, consumer, tab, reply, shown, known, excused, bounds>>

-----------------------------------------------------------------------------
(* KafkaConsumerService *)

\* A service publishes a reply.  Its content may be one the consumer's
\* validation rejects (an empty summary), or one that passes and is blank.
Answer(r, valid, blank) ==
    /\ Len(messages) < MaxMessages
    /\ blank => valid
    /\ messages' = Append(messages, [room |-> r, from |-> Services, valid |-> valid,
                                     blank |-> blank])
    /\ topic' = Append(topic, Len(messages) + 1)
    /\ UNCHANGED <<work, archive, kafka, position, committed, busy, browser,
                   excused, bounds>>

TakeReply ==
    /\ busy = "idle"
    /\ position < Len(topic)
    /\ messages[Current].valid
    /\ busy' = "save"
    /\ UNCHANGED <<backend, topic, position, committed, browser, excused, bounds>>

\* ValidationPipe throws and KafkaExceptionFilter logs: move past it.
RejectReply ==
    /\ busy = "idle"
    /\ position < Len(topic)
    /\ ~messages[Current].valid
    /\ Past
    /\ UNCHANGED <<backend, browser, excused, bounds>>

SaveReply ==
    /\ busy = "save"
    /\ Store(Current)
    /\ busy' = "send"
    /\ UNCHANGED <<messages, work, kafka, topic, position, committed, browser,
                   excused, bounds>>

\* The filter swallows this error too: the reply is not tried again.
SaveReplyFails ==
    /\ busy = "save"
    /\ Fault
    /\ Past
    /\ excused' = excused \cup {Current}
    /\ UNCHANGED <<backend, browser, openings, drops, restarts>>

BroadcastReply ==
    /\ busy = "send"
    /\ ToRoom(Current)
    /\ Past
    /\ UNCHANGED <<backend, tab, reply, shown, known, excused, bounds>>

\* Offsets are committed now and then.
Commit ==
    /\ position > committed
    /\ position > 0
    /\ committed' = position
    /\ UNCHANGED <<backend, topic, position, busy, browser, excused, bounds>>

-----------------------------------------------------------------------------
(* The chat panel *)

Open(c) ==
    /\ tab[c] = "closed"
    /\ openings < MaxOpenings
    /\ openings' = openings + 1
    /\ tab' = [tab EXCEPT ![c] = "loading"]
    /\ UNCHANGED <<backend, consumer, reply, queue, shown, known,
                   excused, drops, faults, restarts>>

\* The backend answers the history requests.
ReadHistory(c) ==
    /\ tab[c] = "loading"
    /\ reply' = [reply EXCEPT ![c] = archive[RoomOf[c]]]
    /\ tab' = [tab EXCEPT ![c] = "loaded"]
    /\ UNCHANGED <<backend, consumer, queue, shown, known, excused, bounds>>

\* loadHistory ends; the socket connects next.
ShowHistory(c) ==
    /\ tab[c] = "loaded"
    /\ shown' = [shown EXCEPT ![c] = reply[c]]
    /\ reply' = [reply EXCEPT ![c] = << >>]
    /\ tab' = [tab EXCEPT ![c] = "connecting"]
    /\ UNCHANGED <<backend, consumer, queue, known, excused, bounds>>

\* loadHistory fails; the socket connects all the same.
HistoryFails(c) ==
    /\ tab[c] \in {"loading", "loaded"}
    /\ Fault
    /\ reply' = [reply EXCEPT ![c] = << >>]
    /\ tab' = [tab EXCEPT ![c] = "connecting"]
    /\ UNCHANGED <<backend, consumer, queue, shown, known, excused,
                   openings, drops, restarts>>

\* The socket connects, or connects again, and its room:join is handled.
Join(c) ==
    /\ tab[c] \in {"connecting", "offline"}
    /\ tab' = [tab EXCEPT ![c] = "joined"]
    /\ known' = [known EXCEPT ![c] = Saved]
    /\ UNCHANGED <<backend, consumer, reply, queue, shown, excused, bounds>>

\* message:new, summary:new, transcript:new: the event is appended to what the
\* tab shows, unless its text is blank.
Show(c) ==
    /\ queue[c] # << >>
    /\ shown' = IF messages[Head(queue[c])].blank THEN shown
                ELSE [shown EXCEPT ![c] = Append(@, Head(queue[c]))]
    /\ queue' = [queue EXCEPT ![c] = Tail(@)]
    /\ UNCHANGED <<backend, consumer, tab, reply, known, excused, bounds>>

\* The connection breaks; the panel stays and the socket will reconnect.
Drop(c) ==
    /\ tab[c] = "joined"
    /\ drops < MaxDrops
    /\ drops' = drops + 1
    /\ tab' = [tab EXCEPT ![c] = "offline"]
    /\ queue' = [queue EXCEPT ![c] = << >>]
    /\ UNCHANGED <<backend, consumer, reply, shown, known, excused,
                   openings, faults, restarts>>

\* The panel goes: room:leave and disconnect; a late history is ignored.
Close(c) ==
    /\ tab[c] # "closed"
    /\ tab' = [tab EXCEPT ![c] = "closed"]
    /\ reply' = [reply EXCEPT ![c] = << >>]
    /\ queue' = [queue EXCEPT ![c] = << >>]
    /\ shown' = [shown EXCEPT ![c] = << >>]
    /\ UNCHANGED <<backend, consumer, known, excused, bounds>>

\* The backend restarts: handlers and sockets are gone, and the consumer
\* resumes at its committed offset, or at the end if there is none.
Restart ==
    /\ restarts < MaxRestarts
    /\ restarts' = restarts + 1
    /\ work' = [m \in Ids |-> "none"]
    /\ position' = IF committed = -1 THEN Len(topic) ELSE committed
    /\ busy' = "idle"
    /\ tab' = [c \in Clients |-> IF tab[c] = "joined" THEN "offline" ELSE tab[c]]
    /\ queue' = [c \in Clients |-> << >>]
    /\ excused' = excused \cup {m \in Ids : work[m] # "none"}
                 \cup (IF committed = -1 THEN ToSet(topic) ELSE {})
    /\ UNCHANGED <<messages, archive, kafka, topic, committed, reply, shown,
                   known, openings, drops, faults>>

-----------------------------------------------------------------------------
Consume == TakeReply \/ RejectReply \/ SaveReply \/ BroadcastReply

Next ==
    \/ \E c \in Clients :
          \/ Receive(c) \/ Open(c) \/ ReadHistory(c) \/ ShowHistory(c)
          \/ HistoryFails(c) \/ Join(c) \/ Show(c) \/ Drop(c) \/ Close(c)
    \/ \E m \in Ids : SaveMessage(m) \/ SaveMessageFails(m) \/ BroadcastMessage(m)
    \/ \E r \in Rooms, valid, blank \in BOOLEAN : Answer(r, valid, blank)
    \/ Consume \/ SaveReplyFails \/ Commit
    \/ Restart

\* PostgreSQL replies, the event loop and the consumer run, and events reach
\* connected browsers.
Fairness ==
    /\ \A m \in Ids : WF_vars(SaveMessage(m) \/ BroadcastMessage(m))
    /\ WF_vars(Consume)
    /\ \A c \in Clients : WF_vars(Show(c))

Spec == Init /\ [][Next]_vars
FairSpec == Spec /\ Fairness

-----------------------------------------------------------------------------
(* Properties *)

Message == [room : Rooms, from : Clients \cup {Services}, valid : BOOLEAN,
            blank : BOOLEAN]

\* The maps have the code's shape; the consumer works on a reply of the topic
\* and never resumes behind what it committed.
TypeOK ==
    /\ messages \in Seq(Message) /\ Len(messages) <= MaxMessages
    /\ work \in [Ids -> {"none", "save", "send"}]
    /\ archive \in [Rooms -> Seq(Ids)]
    /\ kafka \subseteq Ids
    /\ topic \in Seq(1 .. Len(messages))
    /\ position \in 0 .. Len(topic)
    /\ committed \in -1 .. position
    /\ busy \in {"idle", "save", "send"}
    /\ busy # "idle" => position < Len(topic)
    /\ tab \in [Clients -> {"closed", "loading", "loaded", "connecting",
                            "joined", "offline"}]
    /\ reply \in [Clients -> Seq(Ids)]
    /\ queue \in [Clients -> Seq(Ids)]
    /\ shown \in [Clients -> Seq(Ids)]
    /\ known \in [Clients -> SUBSET Ids]
    /\ excused \subseteq Ids
    /\ {openings, drops, faults, restarts} \subseteq Nat

\* What a tab shows or is about to show, and what was emitted to Kafka, is in
\* the archive: nothing seen during a meeting is missing when the room is opened
\* again, and the assistant never acts on a message that was not kept.
NothingUnsavedGetsOut ==
    /\ kafka \subseteq Saved
    /\ \A c \in Clients : ToSet(shown[c]) \cup ToSet(queue[c]) \subseteq Saved

\* Of what was saved since it joined, a connected tab misses nothing but blank
\* lines, its own messages included (the panel shows them only when they come
\* back).
NoGapWhileJoined ==
    \A c \in Clients : tab[c] = "joined" =>
        \A m \in StoredIn(RoomOf[c]) \ known[c] :
            \/ m \in ToSet(shown[c]) \cup ToSet(queue[c])
            \/ work[m] = "send"
            \/ busy = "send" /\ Current = m
            \/ messages[m].blank

\* A message that was saved is emitted to Kafka even if its sender leaves
\* meanwhile; only a restart can come between.  (That the broker gets it is not
\* claimed: handleMessage does not wait for that.)
SavedReachesServices ==
    \A m \in Saved : messages[m].from \in Clients =>
        m \in kafka \/ work[m] = "send" \/ m \in excused

\* The consumer is past a reply only if it was saved, or was invalid, or its
\* save failed, or it was published before a restart that found no committed
\* offset and so skipped to the end of the topic (the last two are `excused').
\* Restarts that resume at a committed offset skip nothing.
NoReplyPassedOver ==
    \A i \in 1 .. position :
        topic[i] \in Saved \cup excused \/ ~messages[topic[i]].valid

\* A message being saved is shown by every tab that stays connected to its
\* room, unless the save fails or the backend restarts.
ListenersServed ==
    \A m \in Ids, c \in Clients :
        work[m] = "save" /\ messages[m].room = RoomOf[c] /\ tab[c] = "joined" ~>
            m \in ToSet(shown[c]) \/ tab[c] # "joined" \/ m \in excused

=============================================================================
