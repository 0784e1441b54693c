-------------------------- MODULE ConferenceAccess --------------------------
(***************************************************************************)
(* How requests to the backend get at a conference: the token request that *)
(* lets a participant in (ConferenceService.generateToken), the explicit   *)
(* creation of a room, and the calls that record chat messages and other   *)
(* entries (ConferenceHistoryService).                                     *)
(*                                                                         *)
(* The backend is one Node process: a request runs undisturbed up to its   *)
(* next await, so an action is one call to PostgreSQL or LiveKit and what  *)
(* the code does with the reply.  PostgreSQL keeps roomName, conferenceId  *)
(* of a chat and (userId, conferenceId) of a membership unique; nothing in *)
(* the backend deletes a conference or a membership.  The creators of the rooms are in the *)
(* memory of the process.                                                  *)
(***************************************************************************)
EXTENDS Integers, FiniteSets

CONSTANTS
    Rooms,        \* room names
    Identities,   \* participant identities; of a signed-in user, the user id
    Requests,     \* the requests that reach the backend
    RoomOf,       \* the room each is about
    Kind,         \* what each asks: a kind of Kinds
    Caller,       \* the identity each comes from
    SignedIn,     \* the requests that carry a valid access token
    Together,     \* bound: the sets of requests that arrive in one behaviour
    MaxFaults,    \* bound: failing calls to PostgreSQL or LiveKit
    MaxRestarts   \* bound: restarts of the backend

\* A token; an explicit creation; a chat message to record; an entry of
\* another kind (transcript, summary, attachment) to record.
Kinds == {"token", "create", "chat", "entry"}

ASSUME RequestsAssumption ==
    /\ RoomOf \in [Requests -> Rooms]
    /\ Kind \in [Requests -> Kinds]
    /\ Caller \in [Requests -> Identities]
    /\ SignedIn \subseteq Requests
    /\ Together \subseteq SUBSET Requests
    /\ MaxFaults \in Nat
    /\ MaxRestarts \in Nat

ASSUME NobodyAssumption == "nobody" \notin Identities /\ "none" \notin Requests

None == "none"
Nobody == "nobody"

VARIABLES
    pc,           \* where each request is
    conferences,  \* Conference rows; the id is the request that created it
    chats,        \* ConferenceChat rows
    members,      \* ConferenceUser rows; the id is the request that created it
    records,      \* rows recorded by requests of kind chat and entry
    conf, chat,   \* the conference and the chat a request has obtained
    seen,         \* listRooms told the request that the room exists
    told,         \* the creator the request reports
    creators,     \* conferenceCreators
    tokens,       \* tokens issued
    live,         \* LiveKit: the room exists, with or without the agent
    ended,        \* rooms LiveKit has closed at least once (for properties)
    faults, faulty,  \* failed calls: their number, and their requests
    restarts

rows == <<conferences, chats, members, records>>
vars == <<pc, rows, conf, chat, seen, told, creators, tokens, live, ended,
          faults, faulty, restarts>>

Waiting == {"find", "create", "refind", "list", "listed", "member", "createMember",
            "createRoom", "findChat", "createChat", "refindChat", "insert"}
Settled == {"done", "failed", "lost"}

\* Where a request is about to write a membership.
Joining == {"member", "createMember"}

Init ==
    /\ pc = [p \in Requests |-> "idle"]
    /\ conferences = {} /\ chats = {} /\ members = {} /\ records = {}
    /\ conf = [p \in Requests |-> None]
    /\ chat = [p \in Requests |-> None]
    /\ seen = [p \in Requests |-> FALSE]
    /\ told = [p \in Requests |-> Nobody]
    /\ creators = [r \in Rooms |-> Nobody]
    /\ tokens = {}
    /\ live = [r \in Rooms |-> "no"]
    /\ ended = {}
    /\ faults = 0 /\ faulty = {}
    /\ restarts = 0

-----------------------------------------------------------------------------
(* Helpers *)

Goto(p, place) == pc' = [pc EXCEPT ![p] = place]

ConferencesOf(p) == {c \in conferences : c.room = RoomOf[p]}
ChatsOf(p) == {c \in chats : c.conf = conf[p]}
MembersOf(p) ==
    {m \in members : m.user = Caller[p] /\ \E c \in ConferencesOf(p) : m.conf = c.id}

\* Where a request goes on once it has its conference, and its chat.
WithConference(p) ==
    CASE Kind[p] = "token"  -> "list"
      [] Kind[p] = "create" -> "createRoom"
      [] Kind[p] = "chat"   -> "findChat"
      [] Kind[p] = "entry"  -> "insert"

\* The token, with the agent's dispatch if the room was not there.
Issue(p, creator) ==
    tokens' = tokens \cup {[req |-> p, creator |-> creator,
                            agent |-> ~seen[p], epoch |-> restarts]}

\* LiveKit creates the room unless it exists.
OpenRoom(r, kind) ==
    live' = IF live[r] = "no" THEN [live EXCEPT ![r] = kind] ELSE live

Fault(p) ==
    /\ faults < MaxFaults
    /\ faults' = faults + 1
    /\ faulty' = faulty \cup {p}

NoFault == UNCHANGED <<faults, faulty>>

-----------------------------------------------------------------------------
(* Mutations: actions below with a plausible bug (no action uses them). *)

\* The schema does not declare roomName unique.
InsertConferenceTwice(p) ==
    /\ pc[p] = "create"
    /\ conferences' = conferences \cup {[id |-> p, room |-> RoomOf[p]]}
    /\ conf' = [conf EXCEPT ![p] = p]
    /\ Goto(p, WithConference(p))
    /\ NoFault
    /\ UNCHANGED <<chats, members, records, chat, seen, told, creators,
                   tokens, live, ended, restarts>>

\* Every error of the insertion is thrown, P2002 included.
ConferenceConflictThrown(p) ==
    /\ pc[p] = "create"
    /\ ConferencesOf(p) # {}
    /\ Goto(p, "failed")
    /\ NoFault
    /\ UNCHANGED <<rows, conf, chat, seen, told, creators, tokens, live,
                   ended, restarts>>

\* A room that cannot be looked up is taken to exist.
ListFailsOpen(p) ==
    /\ pc[p] = "list"
    /\ Fault(p)
    /\ seen' = [seen EXCEPT ![p] = TRUE]
    /\ Goto(p, "listed")
    /\ UNCHANGED <<rows, conf, chat, told, creators, tokens, live, ended, restarts>>

\* Whoever asks becomes the creator.
AssignEveryCaller(p) ==
    /\ pc[p] = "listed"
    /\ creators' = [creators EXCEPT ![RoomOf[p]] = Caller[p]]
    /\ told' = [told EXCEPT ![p] = Caller[p]]
    /\ IF p \in SignedIn
       THEN Goto(p, "member") /\ UNCHANGED tokens
       ELSE Goto(p, "done") /\ Issue(p, Caller[p])
    /\ NoFault
    /\ UNCHANGED <<rows, conf, chat, seen, live, ended, restarts>>

\* The token is issued before the membership is written.
AssignAndIssue(p) ==
    /\ pc[p] = "listed"
    /\ LET r == RoomOf[p]
           creator == IF creators[r] = Nobody THEN Caller[p] ELSE creators[r]
       IN /\ creators' = [creators EXCEPT ![r] = creator]
          /\ told' = [told EXCEPT ![p] = creator]
          /\ Issue(p, creator)
          /\ Goto(p, IF p \in SignedIn THEN "member" ELSE "done")
    /\ NoFault
    /\ UNCHANGED <<rows, conf, chat, seen, live, ended, restarts>>

-----------------------------------------------------------------------------
(* getOrCreateConference *)

Arrive(p) ==
    /\ pc[p] = "idle"
    /\ \E s \in Together : {p} \cup {q \in Requests : pc[q] # "idle"} \subseteq s
    /\ Goto(p, "find")
    /\ UNCHANGED <<rows, conf, chat, seen, told, creators, tokens, live,
                   ended, faults, faulty, restarts>>

\* findUnique, the first time or after a conflict.
FindConference(p) ==
    /\ pc[p] \in {"find", "refind"}
    /\ \E c \in ConferencesOf(p) : conf' = [conf EXCEPT ![p] = c.id]
    /\ Goto(p, WithConference(p))
    /\ NoFault
    /\ UNCHANGED <<rows, chat, seen, told, creators, tokens, live, ended, restarts>>

MissConference(p) ==
    /\ pc[p] \in {"find", "refind"}
    /\ ConferencesOf(p) = {}
    /\ Goto(p, IF pc[p] = "find" THEN "create" ELSE "failed")
    /\ NoFault
    /\ UNCHANGED <<rows, conf, chat, seen, told, creators, tokens, live, ended, restarts>>

InsertConference(p) ==
    /\ pc[p] = "create"
    /\ ConferencesOf(p) = {}
    /\ conferences' = conferences \cup {[id |-> p, room |-> RoomOf[p]]}
    /\ conf' = [conf EXCEPT ![p] = p]
    /\ Goto(p, WithConference(p))
    /\ NoFault
    /\ UNCHANGED <<chats, members, records, chat, seen, told, creators,
                   tokens, live, ended, restarts>>

\* Somebody else inserted it since the lookup: error P2002, look again.
ConferenceConflict(p) ==
    /\ pc[p] = "create"
    /\ ConferencesOf(p) # {}
    /\ Goto(p, "refind")
    /\ NoFault
    /\ UNCHANGED <<rows, conf, chat, seen, told, creators, tokens, live, ended, restarts>>

-----------------------------------------------------------------------------
(* getOrCreateChat, and the rows recorded *)

FindChat(p) ==
    /\ pc[p] \in {"findChat", "refindChat"}
    /\ \E c \in ChatsOf(p) : chat' = [chat EXCEPT ![p] = c.id]
    /\ Goto(p, "insert")
    /\ NoFault
    /\ UNCHANGED <<rows, conf, seen, told, creators, tokens, live, ended, restarts>>

MissChat(p) ==
    /\ pc[p] \in {"findChat", "refindChat"}
    /\ ChatsOf(p) = {}
    /\ Goto(p, IF pc[p] = "findChat" THEN "createChat" ELSE "failed")
    /\ NoFault
    /\ UNCHANGED <<rows, conf, chat, seen, told, creators, tokens, live, ended, restarts>>

InsertChat(p) ==
    /\ pc[p] = "createChat"
    /\ ChatsOf(p) = {}
    /\ chats' = chats \cup {[id |-> p, conf |-> conf[p]]}
    /\ chat' = [chat EXCEPT ![p] = p]
    /\ Goto(p, "insert")
    /\ NoFault
    /\ UNCHANGED <<conferences, members, records, conf, seen, told, creators,
                   tokens, live, ended, restarts>>

ChatConflict(p) ==
    /\ pc[p] = "createChat"
    /\ ChatsOf(p) # {}
    /\ Goto(p, "refindChat")
    /\ NoFault
    /\ UNCHANGED <<rows, conf, chat, seen, told, creators, tokens, live, ended, restarts>>

\* saveChatMessage, saveTranscriptEntry, saveSummaryEntry, saveAttachment.
Record(p) ==
    /\ pc[p] = "insert"
    /\ records' = records \cup {[req |-> p, conf |-> conf[p], chat |-> chat[p]]}
    /\ Goto(p, "done")
    /\ NoFault
    /\ UNCHANGED <<conferences, chats, members, conf, chat, seen, told,
                   creators, tokens, live, ended, restarts>>

-----------------------------------------------------------------------------
(* generateToken *)

ListRooms(p) ==
    /\ pc[p] = "list"
    /\ seen' = [seen EXCEPT ![p] = live[RoomOf[p]] # "no"]
    /\ Goto(p, "listed")
    /\ NoFault
    /\ UNCHANGED <<rows, conf, chat, told, creators, tokens, live, ended, restarts>>

\* A network error: the room is taken not to exist.
ListFails(p) ==
    /\ pc[p] = "list"
    /\ Fault(p)
    /\ seen' = [seen EXCEPT ![p] = FALSE]
    /\ Goto(p, "listed")
    /\ UNCHANGED <<rows, conf, chat, told, creators, tokens, live, ended, restarts>>

\* Back from listRooms: assign the creator if there is none, then write the
\* membership of a signed-in user; a guest gets the token at once.
AssignCreator(p) ==
    /\ pc[p] = "listed"
    /\ LET r == RoomOf[p]
           creator == IF creators[r] = Nobody THEN Caller[p] ELSE creators[r]
       IN /\ creators' = [creators EXCEPT ![r] = creator]
          /\ told' = [told EXCEPT ![p] = creator]
          /\ IF p \in SignedIn
             THEN Goto(p, "member") /\ UNCHANGED tokens
             ELSE Goto(p, "done") /\ Issue(p, creator)
    /\ NoFault
    /\ UNCHANGED <<rows, conf, chat, seen, live, ended, restarts>>

\* ensureConferenceMembership looks the conference up again and upserts the row.
\* An upsert whose update is empty is not one statement of the database: Prisma
\* looks for the row, leaves it as it is if it is there, and creates it if not.
FindMember(p) ==
    /\ pc[p] = "member"
    /\ MembersOf(p) # {}
    /\ Issue(p, told[p])
    /\ Goto(p, "done")
    /\ NoFault
    /\ UNCHANGED <<rows, conf, chat, seen, told, creators, live, ended, restarts>>

MissMember(p) ==
    /\ pc[p] = "member"
    /\ MembersOf(p) = {}
    /\ Goto(p, "createMember")
    /\ NoFault
    /\ UNCHANGED <<rows, conf, chat, seen, told, creators, tokens, live, ended, restarts>>

InsertMember(p) ==
    /\ pc[p] = "createMember"
    /\ MembersOf(p) = {}
    /\ \E c \in ConferencesOf(p) :
          members' = members \cup
              {[id |-> p, user |-> Caller[p], conf |-> c.id,
                role |-> IF told[p] = Caller[p] THEN "host" ELSE "participant"]}
    /\ Issue(p, told[p])
    /\ Goto(p, "done")
    /\ NoFault
    /\ UNCHANGED <<conferences, chats, records, conf, chat, seen, told,
                   creators, live, ended, restarts>>

\* Another request of the user inserted it since: nobody catches this P2002.
MemberConflict(p) ==
    /\ pc[p] = "createMember"
    /\ MembersOf(p) # {}
    /\ Goto(p, "failed")
    /\ NoFault
    /\ UNCHANGED <<rows, conf, chat, seen, told, creators, tokens, live, ended, restarts>>

-----------------------------------------------------------------------------
(* createConference, LiveKit, failures *)

\* roomService.createRoom: no agent is dispatched.
CreateRoom(p) ==
    /\ pc[p] = "createRoom"
    /\ OpenRoom(RoomOf[p], "without agent")
    /\ Goto(p, "done")
    /\ NoFault
    /\ UNCHANGED <<rows, conf, chat, seen, told, creators, tokens, ended, restarts>>

\* A participant connects with a token: the first one opens the room, with
\* the agent if that token carries its dispatch.
Connect(t) ==
    /\ t \in tokens
    /\ live[RoomOf[t.req]] = "no"
    /\ OpenRoom(RoomOf[t.req], IF t.agent THEN "with agent" ELSE "without agent")
    /\ UNCHANGED <<pc, rows, conf, chat, seen, told, creators, tokens, ended,
                   faults, faulty, restarts>>

\* LiveKit closes a room everybody has left.
CloseRoom(r) ==
    /\ live[r] # "no"
    /\ live' = [live EXCEPT ![r] = "no"]
    /\ ended' = ended \cup {r}
    /\ UNCHANGED <<pc, rows, conf, chat, seen, told, creators, tokens,
                   faults, faulty, restarts>>

\* A call of the request to PostgreSQL or LiveKit fails (listRooms: with a
\* 401 or 403): the request is answered with an error.
CallFails(p) ==
    /\ pc[p] \in Waiting \ {"listed"}
    /\ Fault(p)
    /\ Goto(p, "failed")
    /\ UNCHANGED <<rows, conf, chat, seen, told, creators, tokens, live, ended, restarts>>

\* The backend restarts: its memory and the requests under way are gone.
Restart ==
    /\ restarts < MaxRestarts
    /\ restarts' = restarts + 1
    /\ creators' = [r \in Rooms |-> Nobody]
    /\ pc' = [p \in Requests |-> IF pc[p] \in Waiting THEN "lost" ELSE pc[p]]
    /\ UNCHANGED <<rows, conf, chat, seen, told, tokens, live, ended, faults, faulty>>

-----------------------------------------------------------------------------
\* What the request does next, unless a call fails.
Proceed(p) ==
    \/ FindConference(p) \/ MissConference(p)
    \/ InsertConference(p) \/ ConferenceConflict(p)
    \/ FindChat(p) \/ MissChat(p) \/ InsertChat(p) \/ ChatConflict(p)
    \/ Record(p)
    \/ ListRooms(p) \/ AssignCreator(p)
    \/ FindMember(p) \/ MissMember(p) \/ InsertMember(p) \/ MemberConflict(p)
    \/ CreateRoom(p)

Next ==
    \/ \E p \in Requests : Arrive(p) \/ Proceed(p) \/ ListFails(p) \/ CallFails(p)
    \/ \E t \in tokens : Connect(t)
    \/ \E r \in Rooms : CloseRoom(r)
    \/ Restart

Spec == Init /\ [][Next]_vars

-----------------------------------------------------------------------------
(* Properties *)

Conference == [id : Requests, room : Rooms]
Chat == [id : Requests, conf : Requests]
Member == [id : Requests, user : Identities, conf : Requests,
           role : {"host", "participant"}]
Token == [req : Requests, creator : Identities, agent : BOOLEAN, epoch : Nat]

Types ==
    /\ pc \in [Requests -> {"idle"} \cup Waiting \cup Settled]
    /\ conferences \subseteq Conference
    /\ chats \subseteq Chat
    /\ members \subseteq Member
    /\ records \subseteq [req : Requests, conf : Requests, chat : Requests \cup {None}]
    /\ conf \in [Requests -> Requests \cup {None}]
    /\ chat \in [Requests -> Requests \cup {None}]
    /\ seen \in [Requests -> BOOLEAN]
    /\ told \in [Requests -> Identities \cup {Nobody}]
    /\ creators \in [Rooms -> Identities \cup {Nobody}]
    /\ tokens \subseteq Token
    /\ live \in [Rooms -> {"no", "with agent", "without agent"}]
    /\ ended \subseteq Rooms
    /\ faults \in Nat
    /\ faulty \subseteq Requests
    /\ restarts \in Nat

Prepared ==
    \A p \in Requests :
        /\ pc[p] \in Waiting \ {"find", "create", "refind"} => conf[p] # None
        /\ pc[p] \in Joining => told[p] # Nobody

\* Rows, tokens and the memory of the process have the types the code gives
\* them; a request past the lookup holds the conference it looked up, and one
\* about to write a membership knows the creator.
TypeOK == Types /\ Prepared

\* What is recorded for a room is found together again: however the requests
\* that first mention a room interleave, their rows belong to one conference
\* and their messages to one chat (getOrCreateConference, getOrCreateChat).
HistoryTogether ==
    \A x, y \in records : RoomOf[x.req] = RoomOf[y.req] =>
        /\ x.conf = y.conf
        /\ Kind[x.req] = "chat" /\ Kind[y.req] = "chat" => x.chat = y.chat

\* Racing to create a conference or a chat costs nobody the request (the P2002
\* branches); racing for a membership does: a request whose calls all worked
\* fails only if another token request of the same signed-in user, which is
\* through by then, has put the room into that user's archive meanwhile.
NoFailureFromRaces ==
    \A p \in Requests : pc[p] = "failed" /\ p \notin faulty =>
        /\ Kind[p] = "token" /\ p \in SignedIn
        /\ \E m \in MembersOf(p) :
              /\ m.id \in SignedIn \ {p}
              /\ Caller[m.id] = Caller[p]
              /\ pc[m.id] = "done"

\* Everyone let into a room between two restarts of the backend is told the
\* same creator, whatever awaits their requests interleave at.
CreatorAgreed ==
    \A t, u \in tokens :
        RoomOf[t.req] = RoomOf[u.req] /\ t.epoch = u.epoch => t.creator = u.creator

\* Until a restart, the host row of a room's archive and the creator in memory
\* are about the same user: there is no other host, and the creator is never
\* archived as a participant.
HostIsCreator ==
    restarts = 0 =>
        \A m \in members, c \in conferences : m.conf = c.id =>
            (m.role = "host" <=> creators[c.room] = m.user)

\* docs/backend.md: a room is in a signed-in user's archive when the user
\* receives a token for it, even if requests fail half-way or are cut off.
TokenMeansArchived ==
    \A t \in tokens : t.req \in SignedIn =>
        \E m \in members, c \in conferences :
            m.user = Caller[t.req] /\ m.conf = c.id /\ c.room = RoomOf[t.req]

\* A room that has never closed and that nobody created explicitly has the
\* agent, whoever connects first and whatever listRooms answered (generateToken:
\* an unreachable LiveKit counts as a room still to be created).
AgentInFirstMeeting ==
    \A r \in Rooms :
        ( /\ r \notin ended
          /\ \A p \in Requests : RoomOf[p] = r => Kind[p] # "create" ) =>
            live[r] # "without agent"

=============================================================================
