# Verification of VKEdu-Project

TLA+ models of the conference system in this repository, checked with TLC on
small instances, and theorems about them proved with TLAPS for all values of
their constants. Each definition that stands for code is listed with its lines
in `PROJECT.json` under `map`.

## 1. The system

A conference is a LiveKit room. The NestJS backend (`apps/backend`) hands out
LiveKit tokens, keeps an archive in PostgreSQL, and connects browsers
(`apps/frontend`, Next.js) with the services over Socket.IO and Kafka. An agent
(`services/livekit`) joins each room and transcribes it. MLin (`services/ml/MLin`)
records everything into a context document in Redis, and MLout
(`services/ml/MLout`) answers questions and writes summaries from it.

    browser --HTTP--> backend --SQL--> PostgreSQL
       |  ^              |  ^  \
       |  +--Socket.IO---+  |   +--RoomService--> LiveKit
       |                 Kafka                       |
       +--media, data-----------> LiveKit --> agent -+
                 Kafka: agent -> MLin <-> Redis <-> MLout -> Kafka -> backend

### Inventory

| Component | State | Operations | Hard behaviours | What makes it correct | Module |
|---|---|---|---|---|---|
| Context pipeline: MLin, MLout, Kafka topics between them | the context document of each room (Redis), consumer offsets, librdkafka queues, a loaded copy of the document | one handler per topic, commit, produce | two processes GET and later SET the same document; commits are asynchronous; crashes lose queues; redelivery; a failing Redis or LLM call | rooms stay apart; history in order; every request answered, boundedly often; consumers catch up | `ContextPipeline`, `RequestReply` |
| Conference access and archive (`conference.service`, `conference-history.service`) | rows in PostgreSQL, `conferenceCreators` in memory, LiveKit rooms | generateToken, createConference, record a message or entry | concurrent first requests of a room, P2002 races, one of them uncaught, failing LiveKit, restarts | one conference and one chat per room, one creator, token only with archive row, agent dispatched | `ConferenceAccess` |
| Summary ticker and its panel (`updateSummaryTicker`, `requestSummary`, `ai-chat.tsx`) | `summaryTickers`, timers, requests in flight; the button of the creator's panel | start, stop, fire, request; status, press | replaced or stopped ticker with requests in flight, failing calls, status and replies that overtake each other | no leaked timer, truthful `lastRequestedAt`, nothing asked of an empty room, a button that shows what runs | `SummaryTicker`, `SummaryPanel` |
| Chat delivery (gateways, Kafka consumers, chat panel) | archive, sockets joined, committed offset, list shown | message:send, reply consumed, history read, join, reconnect | await between save and broadcast, history read before the socket joins, reconnects, redelivery after restart | nothing unsaved gets out, nobody left out while joined, no reply passed over | `ChatDelivery` |
| Accounts and sessions (`auth.service`, `UserContext`, login page) | refresh-token rows, localStorage, React state | login, register, refresh, logout, me, page load | requests overlap in a tab, expiry, other devices | the tab at rest shows the user it holds tokens of, and gives up a good session only when asked | `AuthSession` |
| LiveKit agent (`room_agent.py`) | `participant_sessions`, counters, `seen_chat_ids`, producer queue | participant entrypoint, close event, transcript event, data packet | come, leave and come back while a session starts or closes; duplicated packets; full queue | exactly one session per identity, increasing numbers, each chat message once | `AgentSessions` |
| Track control (`manageTrack`) | none of its own | on/off micro, on/off cam | tracks read, then muted one by one while participants and other calls act | LiveKit's flag of all that was found is what was passed, nothing else is touched | `TrackControl` |
| Meeting page and whiteboard (`conference/[name]/page.tsx`, `excalidraw.tsx`) | token of the tab, the effect run that counts, drawing, two timers | ask for a token, connect, draw, broadcast, upload a picture | answers to superseded requests, logout while asking, an access token whose user is not known yet, a second tab of the same account that takes the connection over, packets lost and overtaken, the board unmounted with timers set | nobody in a room under a former identity, viewers see the creator's drawing, one drawer in the room, drawings get out | `MeetingPage` |
| Context files and storage (`uploadFile`, `storage.service`) | S3 bucket and objects, `bucketReady`, attachment rows | upload, download URL | store, announce and record fail alone; first uploads race for the bucket | what is listed or announced can be fetched; an upload is whole unless it met a failure itself | `FileUpload` (pictures of the board: `MeetingPage`) |
| History pages of the browser (`history/page.tsx`, `lib/conference-history.ts`) | rooms listed, a guest's rooms in localStorage | load, remember a room | answers of superseded runs, tokens that expire, logins and logouts in between | the list is its visitor's and complete | `HistoryPages` |
| Users CRUD | users table | one statement each | - | database constraints | - |
| Speech/picture to text, LLM | none | a call | may fail | a step that succeeds or fails where it is called | - |
| API routes | none | forward one call | failing calls | - | the calls of the modules above |
| Start of the backend, deployment, notebooks | none worth a model | - | - | - | - |

## 2. The modules

Every module is parameterised by CONSTANTS with named assumptions. Bounds are
constants whose comment says `bound:`; they appear in guards only. Actions cut
the code where another actor can act: at an `await` in Node and asyncio, at a
GET or a SET of the shared document, at a message. Variants of a definition with
a plausible bug are marked "Mutation"; they have a section of their own, or
stand before the helper they vary, and no specification uses them. They
document which bug each property catches (`mutants` in `PROJECT.json`).

**ContextPipeline.** `log`, one partition per topic; `outbox`, what librdkafka
has queued; `ctx`, the Redis documents; `mem`, the copy a handler loaded and
`cur`, the topic it handles; `done` and `committed`, offsets. `MLinLoad` and
`MLinSave` are the five recording handlers cut at GET and SET, `MLinSkipFile`
the sixth. `MLoutAnswer` and `MLoutSave` are `handle_chat_ai_request` cut the
same way, `MLoutSummarize` is `handle_summary_request`. `Crash` loses a queue
and the commits on their way; `Deliver`, `DeliverUnacknowledged` and
`LoseProduced` are the producer's network; `CommitArrives` is the broker's side
of `commit(msg)`. Texts are abstracted to the position of the message they come
from. The consumers of a group read one partition, as the composition starts
one instance of each service.

**RequestReply** is what a service that replies promises: only what was asked is
answered, nothing is withdrawn, and each request is answered in the end.
`ContextPipeline` instantiates it three times, each time with the topic of the
requests and that of the replies: `Assistant`, `Summaries` and `Scribe` (spoken
lines and their transcript).

**ConferenceAccess.** A request moves through `pc`, one value for each call it
awaits. `conferences`, `chats`, `members` and `records` are rows; a unique
constraint turns a second insert into the P2002 branch. The membership is an
upsert with an empty update, which Prisma carries out as a read (`FindMember`,
`MissMember`) and an insert (`InsertMember`); that it loses the race
(`MemberConflict`) nobody catches, and the request fails. `creators` is the map
of the process, emptied by `Restart`. `seen` is what `listRooms` said before the
request used it; `live` is LiveKit's side, where a room can close at any time.

**SummaryTicker.** `timers` are the `setInterval` timers of the process,
`tickers` the map, `flight` the `requestSummary` calls between their awaits.
`Normalize` is the clamping of the interval, which `NormalizeInLimits` bounds for
every input.

**SummaryPanel** composes the tickers with the panel of a creator. Its requests
are served by the actions of `SummaryTicker` (`NowServed`, `StartServed`,
`StopServed`); `Elsewhere` is every other step of the tickers, among them those
of the same creator in another tab. `status` is the answer to GET ticker, which
is asked for each time the tab is opened and counts only while it stays open.

**ChatDelivery.** `Receive`, `SaveMessage`, `BroadcastMessage` are
`message:send`; `TakeReply` .. `Commit` the Kafka consumer, whose answers,
summaries and transcript lines take the same path and are one kind of reply;
`Open` .. `Close` the chat panel, which loads the history and then connects.
Messages are numbered by `createdAt`, taken before the save is awaited, and the
archive is read in that order. The panel leaves out items with a blank text.
`kafka` holds what was handed to the Kafka client, which is not awaited and whose
failure is only logged: what the broker gets is not claimed.

**AuthSession.** A pair of tokens and its row share a number. `Find` and
`Revoke` are the two halves of `refresh` and `logout`. `Init*` is
`initializeAuth`, `Login*` the page and `loginWithTokens`, `Logout*` the header.
In `InitBreaks`, `LoginBreaks` and `LogoutBreaks` a fetch is rejected and the rest of the
function is skipped: a logout that breaks leaves the user signed in, and the button
of the header, which stays mounted, disabled until the next load
(`isLoggingOut`).
Rows are found by comparing bcrypt hashes, which look at the first 72 bytes of
the token: these end inside the user's id, so a token matches all rows of its
user. The model takes any of them, as an unordered query may.

**AgentSessions.** `state` lists the sessions ever created and where each is;
`participant_sessions` is the map by identity. `Leave` and `Vanish` are the two
ways a participant goes (LiveKit closes the session only after the first), and
`Closed` is the close event, which comes later.

**TrackControl** puts `manageTrack` into the room of the agent. `control` is
the call each caller waits for: the tracks read, of which `MuteNext` handles one
at a time. `type` is what the endpoint passes and `muted` LiveKit's flag; what
"on" ought to mean is left open (see the disagreements below). `tracks` is
LiveKit's side, with a number (`sid`) per track. A session
hears its participant only through an unmuted microphone (`Audible`).

**FileUpload.** `at` is the await each request stands at. `bucketReady` is the
backend's belief about the bucket, `hit` the requests that met a failing call
or a restart themselves. A call that fails may have been carried out all the
same. `SafeName` is `sanitizeSegment`, which maps different rooms to one prefix.

**HistoryPages** extends `AuthSession` by the archive page of the same tab. Its
effect runs whenever the user, the access token or `isAuthLoading` changes;
`requests` are the calls of all its runs, with the `isActive` of each. `Visit` is
a page that enters a room: the backend writes the membership of the user it
recognises, the browser remembers the room of a guest. The tab starts with no
pair, a good one, or one of an earlier day (`ArchiveInit`), and lasts until the
next load.

**MeetingPage.** A tab has an access token and a user separately: `auth` is "token"
between a login's `storeTokens` and the answer of `/me`, for good if that fetch is
rejected (`OpenEarly`, `LoginAnswer`). Its request then names the guest and carries the
user's Bearer, and the backend serves it as either, depending on whether the Bearer is
still valid (`Served`). `Open` .. `Retry` change the inputs of the page's effect, and
`FetchToken` is the effect: it gives up the run before (`current`), the token and
with it the room. The request given up is not aborted, since `fetch` is not
passed the signal, so it still reaches the backend (`Grant`) and its answer is
ignored (`IgnoreAnswer`). `Connect` is LiveKit's side: a second connection of an
identity drops the first, whose tab keeps its page, its board and the timers
(`dropped`) until `Leave`, which is `onDisconnected` and the way home; it may draw and
upload until then. `LoseConnection` is any other end of a connection. `Draw` and `Select` are `onChange`, `PublishScene` and
`TakeSnapshot` the two timers, `net` the lossy channel of `publishData`,
`uploads` the posts of pictures. There is one room; a drawing is the number of
its last stroke and who made it.

## 3. The runs

| Run | Instance | Checks |
|---|---|---|
| `pipeline` | two rooms; a question and a voice line; one restart of each service, a failing Redis call, a lost or resent message | no message is passed over; answers and lines repeat at most once for each failure; a context lists a question and its answer at most twice; rooms apart |
| `pipeline_progress` | one room; a question with either a summary request, a file and a chat message, or three chat messages, of which two are kept; a restart of MLin, a failing Redis call; fair | questions and summary requests are served as `RequestReply` says, liveness included; history in order though MLout puts back an older copy; the context of a room where nobody asked is exactly the last entries; consumers catch up |
| `access` | a new room: tokens for two signed-in users and two chat messages while another room is created, or one of the users asks for two tokens at a time; a failing call, a restart | a race alone fails a token request only where another of the same user has just archived the room; rows of a room stay together; one creator per life of the process; token means archive row; the agent is in a room's first meeting |
| `ticker` | a room with one person and a panel; two starts, two requests, a failing call, a restart | intervals clamped, not a number included; a timer for every ticker and no other; `lastRequestedAt` truthful; a room nobody visited is not summarised; the button shows what runs |
| `chat` | two tabs of a room, two messages or replies, of which a reply may be blank, a lost connection, a failing save, a restart; fair | archive before screens and Kafka; a joined tab misses nothing but blank lines; a saved message is handed to the Kafka client; no reply passed over but those a restart without a committed offset skips; tabs that stay are served |
| `session` | two users, a tab and another device, a reload, a failing call or fetch, a logout's included; fair | tab and storage agree at rest, unless a login overlapped `initializeAuth` or a fetch of the two broke; a good session is kept; `initializeAuth` ends |
| `agent` | two participants, two joins, two tracks, two hosts who call the track endpoints at a time, two packets; two of utterance, packets and calls together; a fault; fair | map and live sessions correspond; chat is queued once; a call sets LiveKit's flag on all it found, unless the owner or a call of the other type comes between, and on nothing else; participants are heard |
| `meeting` | two browsers of one account, four token requests and three changes, together at most four, one upset (a board hidden, a page entered before `/me` has answered, a lost connection, a failing request, a restart); fair | nobody in the room under an identity that is neither the page's nor its access token's; viewers see the creator's drawing; one drawer among the tabs in the room, no stray timers; drawings get out |
| `files` | two rooms of one prefix, three uploads, a failing call, a restart; fair | what is listed or announced can be fetched; whole or nothing; MLin hears of each file |
| `archive` | two users, two rooms, one place in a guest's list, calls that fail | the list shown is its visitor's; all visits are listed; nothing loads for ever |
| `pipeline_lost_chat` | one room, a chat message, a question | *violation:* the chat message is overwritten between MLout's GET and SET |
| `session_refresh` | one user, two pairs | *violation:* refresh revokes the row and then fails to sign |

Every bound is in the `.cfg` (or the MC module it names). The hazards of these
protocols need two actors on one piece of state and one failure between two
steps, so an instance has two of what races and one of each failure. Where a
limit of the code matters the instance exceeds it: `MaxHistory` is 2 in
`pipeline_progress`, where three chat messages follow each other, so that a list
holds two entries whose order can go wrong and the third pushes one out; it is 2 in
`pipeline` too, where an entry recorded twice must fit (`MaxDialogue` leaves room for a
third). The limit of speech is twice the others', as in `MLin/handlers.py`; `MAX_GUEST_HISTORY_ITEMS` is 1 where two rooms are
visited. Nothing in `ContextPipeline` or `HistoryPages` tells one room from another,
nor users in the latter, so `pipeline` and `archive` count states that differ only
in names as one. `MaxPairs` 2 in `session` leaves room for a second login, and
`MaxRuns` 4 in `meeting` for a superseded request in each tab. Some instances
are too large as a product of everything that may happen, and are a union
instead: `Mixes` are the messages that a behaviour of the pipeline may have,
`Together` the requests of `access` that may come in one behaviour, `MaxEvents` counts
token requests and changes of `meeting` in one budget, `MaxBusy` utterances, packets
and calls of `agent`. The upsets of `meeting` share one budget too: each
is met with every interleaving, two of them together are not. Kind "entry"
(transcripts, summaries, answers in the archive) of `ConferenceAccess` takes
the same path as a chat message and is not in the instance of `access`.
`CHECK_DEADLOCK FALSE` is set because the bounds end every behaviour: when
messages, requests or joins are used up, the instance has nothing left to do.

The violations are disagreements between the code and a comment or document of
the repository; `findings` in `PROJECT.json` quotes both. Other behaviour the
models reach, which a reader of the code may not expect, and how the properties
account for it:

- Both MLout and MLin record an answer: MLout with the SET of its copy, MLin
  when it reads the answer from its topic. `HistoryInOrder` is therefore about
  chat, board and speech, not the dialogue with the assistant.
- Two token requests of one signed-in user for one room, which the page makes when its
  inputs change while it waits, may both miss the membership; the slower one is
  answered with an error, though the other has put the room into the user's archive.
  `NoFailureFromRaces` allows this and nothing else.
- A restart of the backend forgets the creator, and the next token names a new
  one. Properties about the creator are about one life of the process.
- A token request that the page has given up still counts at the backend: it may
  make an identity the creator that nobody has any more.
- A participant who returns before the close event of the old session gets no
  new one. `EventuallyHeard` excuses exactly this and a session that cannot
  start.
- A consumer without a committed offset starts at the end of its topic after a
  restart (`main.ts:71`). Replies of the time before its first commit may be skipped:
  `NoReplyPassedOver` excuses them, and says that no other restart skips any.
- The chat panel reads the history first and joins the room's Socket.IO channel
  afterwards (`ai-chat.tsx:283-293`): what is saved and broadcast in between is in
  neither until the page is opened again; `docs/backend.md:132-134` has clients
  load the history and then receive what is new. `NoGapWhileJoined` starts at
  the join.
- An access token that has expired makes a signed-in user a guest to the
  endpoints with the optional guard (`optional-jwt-auth.guard.ts`): the meeting
  token is issued without a membership, the browser does not remember the room
  either since it knows a user (`page.tsx:72-74`), and the archive never lists it.
  `VisitsAreListed` excepts exactly these visits.
- `manageTrack` passes its `type` as LiveKit's `muted` (`conference.service.ts:422-427`),
  so `on/micro` and `on/cam`, which pass TRUE, mute, and the two `off` endpoints unmute.
  The names and the comment in line 408, "True - включить, false - выключить", say
  the opposite. No run is needed to see it, since every call does this, and
  neither property takes a side: `ControlReachesAll` and `ControlStaysInScope` relate
  LiveKit's flag to the value passed, and would hold as well if the endpoints passed
  the other one. LiveKit may refuse to unmute for others, which ends the loop.
- Between a login's `storeTokens` and the answer of `/me` (for good if that fetch is
  rejected) the meeting page asks for a token under the guest's name with the user's
  Bearer, which the backend prefers (`conference.controller.ts:180-182`): LiveKit knows the
  user, the page the guest. `PresentIdentity` allows either of the two.
- A second tab of an account takes the connection over; the first keeps an editable
  board, and posts its picture, until `onDisconnected` has come and `router.push` is
  through (`conference.tsx:259-261`). `OneDrawer` is about the tabs in the room.
- A login while `initializeAuth` runs writes the same state as it does, and either may
  win; `SessionConsistent` leaves out tabs where this happened (`overlapped`), and those
  where a fetch of one of the two was rejected (`broken`).
- The creator's button can show a stopped ticker that runs: a start whose first
  request fails is answered with an error after the ticker was started.
- The meeting page takes its room's name from the address as Next.js hands it on,
  encoded; the page of the archive encodes that name once more in its link back
  to the meeting. A room whose name is not ASCII continues as another room.
- The loser of a race of first uploads for the bucket fails with the service's
  error; it leaves nothing behind (`WholeOrNothing`).
- Sharing the screen unmounts the board: it comes back blank. Packets are lossy,
  so a viewer may miss the last drawing or keep an older one.

### Fairness

Weak fairness only, and only of steps the runtime takes by itself: the poll
loops of the services, delivery by a broker that is up, the arrival of commits,
replies of PostgreSQL and LiveKit, timers, continuations of the event loop,
Socket.IO events to connected browsers, the tasks of asyncio, the browser's
timers and the pictures they post. Nobody is obliged to ask, join, leave, log
in, draw or commit an offset early, and no failure or restart is fair.

Liveness is stated with the failures that excuse it. In `files` every call is
answered in the end, with success or an error, and the Kafka client of the
backend sends what it holds unless the event is lost by a fault.

### Simplifications

- A failing call to PostgreSQL or LiveKit has no effect, except in `FileUpload`
  and in MLin's commits, where a call may take effect and be reported as failed.
- `login` and `logout` of one tab do not overlap: the form and the button are
  disabled or absent while the other runs. Logins may overlap `initializeAuth`; the
  button of the logout is there only for a user, so after it.
- The agent's process does not crash: LiveKit would start a new job with
  empty state.
- One instance of the backend and of each service, as the composition starts.
- The auxiliary variables marked "for properties" record the past and appear in
  no guard.

## 4. The proofs

| Theorem | Module | For all constants |
|---|---|---|
| `TypeCorrect` | `ContextPipelineProofs` | types, and committed <= handled <= written through crashes and redelivery |
| `ImplementsTheServices` | `ContextPipelineProofs` | each step of the pipeline is a step of `RequestReply` or a stutter, for questions, summaries and spoken lines |
| `NothingIsPassedOver` | `ContextPipelineProofs` | without a restart of the service or a lost message, what it has moved past has its reply |
| `NoStutter` | `ContextPipelineProofs` | one reply for each question and line, plus one for each restart and failed send; without these a context lists a question or its answer at most twice |
| `HistoryExact` | `ContextPipelineProofs` | the context of a room where nobody asked the AI is exactly the last entries MLin has handled |
| `ContextsStayShort` | `ContextPipelineProofs` | no list of a context is longer than the larger of its writers' limits |
| `HistoryStaysInOrder` | `ContextPipelineProofs` | chat, board and speech stay in order until MLin restarts |
| `RoomsStayApart` | `ContextPipelineProofs` | no context holds an entry of another room |
| `TypeCorrect` | `ConferenceAccessProofs` | types; a request past the lookup holds its conference |
| `RoomsHaveOneHistory` | `ConferenceAccessProofs` | the rows recorded for a room belong to one conference and one chat |
| `OneCreatorPerLife` | `ConferenceAccessProofs` | tokens between two restarts agree on the creator |
| `CreatorIsHost` | `ConferenceAccessProofs` | until a restart, host in the archive iff creator in memory |
| `TokensAreArchived` | `ConferenceAccessProofs` | a signed-in user with a token has the room in the archive |
| `OnlyOwnRequestsOutrun` | `ConferenceAccessProofs` | without a failing call a request fails only where another of the same signed-in user has put the room into the archive, and is through |
| `FirstMeetingHasAgent` | `ConferenceAccessProofs` | until it first closes, a room nobody created explicitly has the agent |
| `TypeCorrect` | `SummaryTickerProofs` | types; intervals stay within the limits |
| `OneTimerPerTicker` | `SummaryTickerProofs` | exactly the tickers have a timer, one each |
| `LastTimeIsRight` | `SummaryTickerProofs` | the time shown is that of the last request since the start |
| `SomebodyWasThere` | `SummaryTickerProofs` | no summary of a room in which nobody was seen |
| `PanelKeepsTheTickers` | `SummaryTickerProofs` | `SummaryPanel` implements `SummaryTicker` |
| `ButtonShowsTicker` | `SummaryTickerProofs` | a panel at rest shows what its ticker does |
| `TypeCorrect` | `ChatDeliveryProofs` | types; the consumer never resumes behind its commits |
| `OnlySavedGetsOut` | `ChatDeliveryProofs` | what tabs show and Kafka is told is in the archive |
| `NoGap` | `ChatDeliveryProofs` | a tab that stays connected misses nothing but blank lines of what was saved since it joined |
| `SavedIsForwarded` | `ChatDeliveryProofs` | what is saved is handed to the Kafka client unless the backend restarts in between |
| `NothingPassedOver` | `ChatDeliveryProofs` | what the consumer is past is stored, was refused, could not be saved, or was skipped by a restart before the first commit |
| `TypeCorrect` | `AuthSessionProofs` | types; tab, requests and rows refer to pairs issued |
| `TabShowsItsPair` | `AuthSessionProofs` | a tab at rest shows the user whose pair it keeps, unless a login overlapped `initializeAuth` or a fetch of the two broke |
| `FreshPairIsKept` | `AuthSessionProofs` | no other device makes a tab give up a good pair |
| `ListIsTheVisitors` | `AuthSessionProofs` | the rooms listed are those of whoever is signed in, or the guest's |
| `VisitedIsListed` | `AuthSessionProofs` | every room visited is listed, but for an expired token or a full guest's list |
| `LoadingHasAsked` | `AuthSessionProofs` | a page that is loading has a request under way that counts |
| `ArchiveTabShowsItsPair`, `ArchiveKeepsFreshPair` | `AuthSessionProofs` | the tab of the archive page keeps what `AuthSession` promises |
| `TypeCorrect` | `AgentSessionsProofs` | types of participants, sessions, map and events |
| `OneSessionEach` | `AgentSessionsProofs` | the map holds exactly the sessions that have not ended |
| `EventsInOrderOnce` | `AgentSessionsProofs` | chat is queued once, numbers increase |
| `TracksKeepTheAgent` | `AgentSessionsProofs` | `TrackControl` implements `AgentSessions` |
| `LoopReachesAll` | `AgentSessionsProofs` | `manageTrack` sets LiveKit's flag of every track it found, unless its owner or a call of the other type comes between |
| `MutesStayInScope` | `AgentSessionsProofs` | a flag changes only by the owner or by a call for this participant and source that passes it |
| `TypeCorrect` | `MeetingPageProofs` | types; whoever shows the room has a token |
| `TokenIsTheVisitors` | `MeetingPageProofs` | once the effect has run, a token is the page's visitor's, or the user's whose access token is held |
| `BoardsShowTheCreator` | `MeetingPageProofs` | boards show only what their creator has drawn |
| `OnlyOneDraws` | `MeetingPageProofs` | no stray timer; one drawer among the tabs in the room with tokens of one life of the backend |
| `TypeCorrect` | `FileUploadProofs` | types; `bucketReady` implies the bucket |
| `FilesFetchable` | `FileUploadProofs` | what is listed or announced is in the bucket |
| `UploadsWhole` | `FileUploadProofs` | an upload without a failure of its own is whole |

The assumptions are the named ASSUMEs of the modules, which TLC evaluates in the
runs. Each proof module finds an inductive invariant, proves that `Init`
implies it and that every action keeps it, one step of the proof per action, and
derives the properties. The arguments:

*Types and offsets.* `TypeOK` of `ContextPipeline` is inductive as it stands:
it contains the offset order and the fact that a busy service handles a message
that exists, and those two need each other (`MLinSave` raises `done`, a crash
resets it to `committed`).

*Requests and replies.* Three pairs of a topic and its replies share one argument
(`IsEcho`). Every action is one of five moves for a pair (`EchoMoves`): a request
comes, the next one is replied to, the broker takes or loses what the client
sends, the service restarts, or nothing. `Begun` is how far the service has come,
the message it is handling included. From the moves follow

- that a reply, queued or published, is to a message published (`StemsStep`), so a
  delivery is a step of `RequestReply` (`ServiceStep`);
- that the first `Begun` messages have a reply, until a restart or a failed send
  (`RepliedStep`);
- that a message has at most as many copies in the log and the queue as there were
  restarts and failed sends, and one more once it is begun (`RepeatsStep`). The
  queue has to count: what waits in it can still be published.

*History.* `HistoryInOrder` is about the documents in Redis, but MLout puts back
a copy. The strengthening bounds every entry, in Redis and in both loaded
copies, by what MLin has handled; a copy MLout puts back may be old, but
appending the next message to it keeps it increasing.

*Twice in a context.* MLout and MLin both record a question and its answer. In Redis
and in both loaded copies an entry occurs at most as often as it has been recorded,
zero or one by MLout and zero or one by MLin (`ByMLout`, `ByMLin`, `ListedInv`).
MLin counts once because without failures no answer is published twice
(`AnswersDiffer`, from the counts above).

*A quiet room.* In a room where nobody asked the AI, MLout saves nothing, whatever
it does in others; so the copy MLin holds for that room is what Redis holds, and
the list is the last entries of the set of positions handled. The next position is
above all of them (`RememberListsLast`), which keeps that true. The exception for
rooms with a question is needed: `pipeline_lost_chat` shows what happens there.

*Limits.* The copy a service puts back may be one the other writer cut at another
limit; so both copies are within the bound too (`ShortInv`).

*Rooms.* What MLin polls is of the room its topic entry names; an answer is of the
room of its question, and logs only grow. So Redis and the two loaded copies hold
entries of their own room, whichever copy is put back.

*Archive.* `HistoryTogether` follows from uniqueness: one conference per room
and one chat per conference, rows never deleted, and what a request holds
(`conf`, `chat`) is such a row. The uniqueness of the rows comes from the
constraint in the schema, which the insert action checks. Whoever lost an insert of these
looks again at a row that is there, so no race fails them. A membership is written by
the step that issues the token, so one that outruns another is of a request that is
through, and of the same user, since the constraint is on user and conference
(`MembersSettled` in `RacesInv`).

*Creator.* Tokens of the running process carry the creator in memory, which is
set once; requests under way carry the same in `told`. The host invariant adds
that memory is never cleared before a restart, and the archive invariant that a
signed-in request past the membership call has its row. Before a room first opens
nobody can have seen it, so the tokens issued until then dispatch the agent
(`DispatchInv`).

*Tickers.* `NoLeakedTimer` is inductive with the types: whatever changes the map
changes the timers with it. A ticker starts with a look at the requests sent so
far, a number that only grows, so the last request it counts is the newest. A
request about to be sent has met somebody (`EmitAfterMeeting`). The panel takes
only steps of the tickers (`PanelStepIsTickerStep`); while nothing interferes, an
answer on its way to it is the truth, and so is what it shows when none is
(`PanelTruth`).

*Delivery.* What `message:send` broadcasts, what the consumer emits and what a
history under way holds was saved before, in the archive of its own room. With
that, `NoGapWhileJoined` follows step by step: what is stored after a tab joined
is in its queue or list, or its broadcast is still to come. `NoReplyPassedOver`
needs that the committed offset is not ahead of the position.

*Sessions of a user.* In a tab that is neither `overlapped` nor `broken`: while
`initializeAuth` waits, the login form is at rest and localStorage holds the pair it
checks; while `loginWithTokens` waits, it holds
the pair entered. Memory equals localStorage from the first read on. A refresh is
asked for only after `me` was refused, and an expired token stays expired, so a
tab that clears its pair without a fault clears one that was not good.

*Archive page.* The session takes its own steps or none, so its invariant holds
beside the page, and from a first state with an older pair. A request that counts
carries the pair in memory, because the effect runs again when the user changes
and disowns the request before it; so what is loaded belongs to the owner of that
pair (`ListOfSession`). A user's row is written when the token is issued, and a
guest's list has no room twice, hence all of them while they are few enough
(`GuestListed`, `MembersListed`). That `Without` returns the other rooms, once
each, is an induction along the list. The library's induction theorems take a
predicate, which the provers cannot instantiate; it is done here about a set of
naturals instead, whose least counterexample the well-founded order on finite
sets gives (`Least`, `UpTo`).

*Agent.* `MapIsLiveSessions` is inductive with the types. Events carry numbers up
to the last one given (`NumbersGiven`), so the next is greater; an id that was
queued is among those seen (`QueuedIsSeen`), so no second event gets it.

*Tracks.* A `sid` belongs to one track of a participant, and what a call has left
to do is tracks of its source (`SidsUnique`, `LeftMatches`): the call that mutes
one mutes what it found. Calls of one type do not disturb each other, since either
sets the flag the other wants.

*Meeting page.* The request whose answer counts asks for the present identity of
its tab, or the effect has yet to run, and each run is asked or answered once
(`RequestsMatch`, `OneAnswerEach`): so a token that is accepted is the present
visitor's, in the eyes of the page or of the backend (`Visitors`). Answers and tokens of one life of the backend name the creator in its
memory (`CreatorsAgree`), and LiveKit keeps one connection for an identity: so two
connected tabs that may draw are one. A scene in the channel is signed by its
sender, and a tab without a board keeps none.

*Files.* The position of an upload says which traces it has left (`TracesInOrder`):
object, event and row come in this order and nothing takes them back. One that met
no failure has left nothing before `PutObject`, and it finds no bucket only if none
was there when it came (`NothingTooEarly`).

Only model-checked: all liveness (fairness and `ENABLED` are out of TLAPS's
reach), the liveness of `ImplementsServices` included. Every invariant and every
action property of the passing runs is stated by a theorem. Only proved:
`ContextsBounded` of `ContextPipeline`, `HostIsCreator` of `ConferenceAccess` and the
`TypeOK` of all components but the ticker, which are in no run. The two
violations are statements about one instance and need no more.

The assumptions say no more than the code: limits are positive numbers, budgets
are numbers, and `ArchiveAssumption` adds that no user has the names `guest` and
`nobody`, which are not users but what the model writes where the code has none.

## 5. Not modelled

`PROJECT.json` lists every component with its status and the reason.

- The models of speech, pictures and text (`faster_whisper_stt.py`, `vlm.py`,
  `llm_utils.py`): each is a call that succeeds or fails where it is made. What a
  text says is no part of any property.
- The users' endpoints (`users.service.ts`): each is one statement on one table,
  whose constraints are the database's.
- The routes of Next.js forward one call each; the calls that matter are in the
  modules of their callers, failures included.
- The start of the backend, the deployment and the seed are configuration. The
  broker, PostgreSQL, LiveKit and S3 appear as what this code may expect of them.
- The archive's page of one conference (`history/[conferenceName]/page.tsx`) reads
  once and shows what it read. The badge of unread messages and the looks of the
  pages are left out.
- Several instances of one service: the composition starts one of each.

## 6. Plan

Done, in this order: pipeline (the core) with its abstract assistant, access,
ticker, chat, session, agent, meeting page; then the tracks of the agent's room,
files, the panel of the summary tab, the archive page with a guest's list; and
proofs about all of them. Each question has one run: new properties
join the run whose instance already meets their case, and a component that reacts
to another extends its module, so that one run checks both.

What is left, in order:

1. `Meeting`: agent, pipeline and delivery composed, speech from the microphone
   to the screens, with an abstract specification of a transcript.
2. An abstract archive (a room has one history, which only grows) that
   `ConferenceAccess` and `ChatDelivery` both implement.
3. The badge of unread messages (`ai-chat.tsx`) beside the list of `ChatDelivery`.
4. Proofs: what a message sent in one tab becomes at the ends of 1 and 2, once
   those are modelled; the steps of all modules are proved already.
