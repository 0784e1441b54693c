---------------------------- MODULE MeetingPage -----------------------------
(***************************************************************************)
(* A meeting seen from the browser tabs: the page /conference/[name],      *)
(* whose effect asks the backend for a token each time the visitor changes *)
(* and ignores the answers before; the LiveKit room the token opens; and   *)
(* the whiteboard, which the creator draws on, which is broadcast to the   *)
(* room 80 ms after the last change and sent to the backend as a picture   *)
(* 1.5 s after it.                                                         *)
(*                                                                         *)
(* A visitor with an access token need not be known yet: between a login   *)
(* and the answer of /me the page still names the guest, while the request *)
(* carries the Bearer, which the backend prefers.  And a tab whose         *)
(* connection is gone keeps its page, its board and the board's timers     *)
(* until the event has arrived and the user is taken home.                 *)
(*                                                                         *)
(* There is one room.  A drawing is the number of its last stroke and the  *)
(* identity that made it; timers have no duration.  The backend is         *)
(* reduced to its memory of the creator (ConferenceAccess has the rest).   *)
(* publishData without options is LiveKit's lossy channel: packets get     *)
(* lost and overtake each other; one that comes before Excalidraw is there *)
(* (handleAPISetup) counts as lost.                                        *)
(***************************************************************************)
EXTENDS Integers, FiniteSets

CONSTANTS
    Tabs,        \* browsers, each with at most one tab on the page
    Users,       \* accounts
    UserOf,      \* the account of each browser's user
    None,        \* no creator, no token
    MaxRuns,     \* bound: token requests
    MaxChanges,  \* bound: changes on a board (strokes, selections)
    MaxEvents,   \* bound: token requests and changes on a board, together
    MaxUpsets    \* bound: boards hidden behind a screen share, pages entered while
                 \* a login is not through, connections lost for other reasons
                 \* than a second one, failing requests and restarts of the
                 \* backend, together

\* participantIdentity: the user's id, or the guest id kept in the browser.
Identities == Users \cup Tabs

\* What a token lets its tab be, and in which life of the backend it was made.
Ticket == [who : Identities, creator : Identities, life : Nat]

ASSUME MeetingAssumption ==
    /\ UserOf \in [Tabs -> Users]
    /\ Users \cap Tabs = {} /\ None \notin Identities /\ None \notin Ticket
    /\ {MaxRuns, MaxChanges, MaxEvents, MaxUpsets} \subseteq Nat

VARIABLES
    auth,        \* the page's visitor: "user", "guest", or "token": an
                 \* access token but no user yet; "away": no page
    due,         \* tabs whose effect is about to run: its inputs have changed
    runs,        \* effect runs that asked for a token; the number is the run's id
    current,     \* the run of the tab whose answer counts; 0: none is mounted
    error,       \* tabs that show an error
    ticket,      \* token and creatorId of the tab
    asked,       \* HTTP: token requests at the backend
    answers,     \* HTTP: answers under way
    creator,     \* backend memory: the creator of the room
    connected,   \* tabs in the LiveKit room
    dropped,     \* tabs that still show the room but have lost the connection
    board,       \* tabs that show the board
    scene,       \* the drawing on the tab's board
    sending,     \* tabs with a sendTimeoutRef
    snapping,    \* tabs with a snapshotTimeoutRef
    net,         \* LiveKit: drawings under way
    uploads,     \* HTTP: drawings whose pictures are under way
    unsent,      \* tabs with a drawing not broadcast yet (for properties)
    unseen,      \* tabs with a drawing whose picture is not in Kafka yet (same)
    life,        \* restarts of the backend so far (same)
    changes, upsets

token == <<due, runs, current, error, ticket>>
backend == <<asked, answers, creator, life>>
place == <<connected, dropped, board>>
drawing == <<scene, sending, snapping, unsent, unseen>>
room == <<place, drawing, net>>
bounds == <<changes, upsets>>
vars == <<auth, token, backend, room, uploads, bounds>>

Blank == [by |-> None, n |-> 0]

Init ==
    /\ auth = [t \in Tabs |-> "away"]
    /\ due = {} /\ runs = 0 /\ current = [t \in Tabs |-> 0]
    /\ error = {} /\ ticket = [t \in Tabs |-> None]
    /\ asked = {} /\ answers = {} /\ creator = None
    /\ connected = {} /\ dropped = {} /\ board = {}
    /\ scene = [t \in Tabs |-> Blank] /\ sending = {} /\ snapping = {} /\ net = {}
    /\ uploads = {} /\ unsent = {} /\ unseen = {}
    /\ life = 0 /\ changes = 0 /\ upsets = 0

-----------------------------------------------------------------------------
(* Helpers *)

Identity(t) == IF auth[t] = "user" THEN UserOf[t] ELSE t

\* The user the access token is of.
Bearer(t) == IF auth[t] \in {"user", "token"} THEN UserOf[t] ELSE None

\* canEdit, where the board and the identity of the room are there.
CanEdit(t) ==
    /\ t \in board
    /\ ticket[t].who = ticket[t].creator

\* Mutation: the effect that unmounts the board forgets its timers.
UnmountKeepsTimers(ts) ==
    /\ scene' = [t \in Tabs |-> IF t \in ts THEN Blank ELSE scene[t]]
    /\ unsent' = unsent \ ts
    /\ unseen' = unseen \ ts
    /\ UNCHANGED <<sending, snapping>>

\* The boards of the tabs ts unmount: the drawings go and the timers are cleared.
Unmount(ts) ==
    /\ scene' = [t \in Tabs |-> IF t \in ts THEN Blank ELSE scene[t]]
    /\ sending' = sending \ ts
    /\ snapping' = snapping \ ts
    /\ unsent' = unsent \ ts
    /\ unseen' = unseen \ ts

\* The room of the tabs ts unmounts, its connection with it.
CloseRooms(ts) ==
    /\ Unmount(ts)
    /\ board' = board \ ts
    /\ connected' = connected \ ts
    /\ dropped' = dropped \ ts
    /\ net' = {p \in net : p.to \notin ts}

\* The page of the tabs ts unmounts: the run's answer no longer counts.
ClosePages(ts) ==
    /\ auth' = [t \in Tabs |-> IF t \in ts THEN "away" ELSE auth[t]]
    /\ due' = due \ ts
    /\ current' = [t \in Tabs |-> IF t \in ts THEN 0 ELSE current[t]]
    /\ error' = error \ ts
    /\ ticket' = [t \in Tabs |-> IF t \in ts THEN None ELSE ticket[t]]

\* Every effect that is due will ask for a token.
Requested == runs + Cardinality(due)

MayAsk == Requested < MaxRuns /\ Requested + changes < MaxEvents
MayChange == changes < MaxChanges /\ Requested + changes < MaxEvents

Upset == upsets < MaxUpsets /\ upsets' = upsets + 1

-----------------------------------------------------------------------------
(* Mutations: definitions with a plausible bug (nothing uses them). *)

\* isMounted is not looked at.
SetTokenOfAnyRun(a) ==
    /\ answers' = answers \ {a}
    /\ current[a.tab] # 0
    /\ a.creator # None
    /\ ticket' = [ticket EXCEPT ![a.tab] =
                     [who |-> a.who, creator |-> a.creator, life |-> a.life]]
    /\ UNCHANGED <<auth, due, runs, current, error, asked, creator, life, room,
                   uploads, bounds>>

\* The sender is not looked at.
ApplySceneOfAnybody(p) ==
    /\ p.to \in board
    /\ ~CanEdit(p.to)
    /\ scene' = [scene EXCEPT ![p.to] = p.scene]
    /\ net' = net \ {p}
    /\ UNCHANGED <<auth, token, backend, place, sending, snapping, unsent,
                   unseen, uploads, bounds>>

\* A change while the send timer runs clears it and does not set it again.
HandleChangeClears(t) ==
    /\ CanEdit(t)
    /\ MayChange
    /\ changes' = changes + 1
    /\ sending' = IF t \in sending THEN sending \ {t} ELSE sending \cup {t}
    /\ snapping' = snapping \cup {t}
    /\ UNCHANGED <<auth, token, backend, place, net, uploads, upsets>>

-----------------------------------------------------------------------------
(* The page and its token *)

\* The page is there and initializeAuth is through, with a session or without
\* (until then, isAuthLoading, the page only waits): the effect is to run.
Open(t) ==
    /\ auth[t] = "away"
    /\ MayAsk
    /\ \E a \in {"user", "guest"} : auth' = [auth EXCEPT ![t] = a]
    /\ due' = due \cup {t}
    /\ UNCHANGED <<runs, current, error, ticket, backend, room, uploads, bounds>>

\* A login stored its tokens and the user comes here before /me has answered
\* (loginWithTokens; isAuthLoading is false).
OpenEarly(t) ==
    /\ auth[t] = "away"
    /\ MayAsk
    /\ Upset
    /\ auth' = [auth EXCEPT ![t] = "token"]
    /\ due' = due \cup {t}
    /\ UNCHANGED <<runs, current, error, ticket, backend, room, uploads, changes>>

\* /me answers: with the user, or with an error, which clears the tokens.  If its
\* fetch is rejected nothing changes, now or later.
LoginAnswer(t) ==
    /\ auth[t] = "token"
    /\ t \in due \/ MayAsk
    /\ \E a \in {"user", "guest"} : auth' = [auth EXCEPT ![t] = a]
    /\ due' = due \cup {t}
    /\ UNCHANGED <<runs, current, error, ticket, backend, room, uploads, bounds>>

\* The user goes elsewhere, or handleDisconnect takes them home.
Leave(t) ==
    /\ auth[t] # "away"
    /\ ClosePages({t})
    /\ CloseRooms({t})
    /\ UNCHANGED <<runs, backend, uploads, bounds>>

\* A logout goes through, perhaps one asked for before the room was shown.
Logout(t) ==
    /\ auth[t] = "user"
    /\ t \in due \/ MayAsk
    /\ auth' = [auth EXCEPT ![t] = "guest"]
    /\ due' = due \cup {t}
    /\ UNCHANGED <<runs, current, error, ticket, backend, room, uploads, bounds>>

\* "Попробовать снова" (reloadKey).
Retry(t) ==
    /\ t \in error
    /\ MayAsk
    /\ due' = due \cup {t}
    /\ UNCHANGED <<auth, runs, current, error, ticket, backend, room, uploads, bounds>>

\* The effect: the run before no longer counts (fetch is not given the signal of
\* its AbortController: its request goes on), token and error are reset (the room
\* goes with the token), and a token is asked for under the present identity,
\* with the access token there is.
FetchToken(t) ==
    /\ t \in due
    /\ due' = due \ {t}
    /\ runs' = runs + 1
    /\ current' = [current EXCEPT ![t] = runs + 1]
    /\ error' = error \ {t}
    /\ ticket' = [ticket EXCEPT ![t] = None]
    /\ asked' = asked \cup {[tab |-> t, run |-> runs + 1,
                            who |-> Identity(t), bearer |-> Bearer(t)]}
    /\ CloseRooms({t})
    /\ UNCHANGED <<auth, answers, creator, life, uploads, bounds>>

\* Whom a request may be served as: the Bearer's user, or the identity it asks
\* for if there is no Bearer or it has expired.
Served(q) == {q.who} \cup ({q.bearer} \ {None})

\* The answer of a run, served as id; creator None: the request failed.
Answered(q, id, c) ==
    [tab |-> q.tab, run |-> q.run, who |-> id, creator |-> c, life |-> life]

\* The first identity since the backend started is the creator.
CreatorWith(id) == IF creator = None THEN id ELSE creator

\* generateToken
Grant(q) ==
    /\ \E id \in Served(q) :
          /\ creator' = CreatorWith(id)
          /\ answers' = answers \cup {Answered(q, id, CreatorWith(id))}
    /\ asked' = asked \ {q}
    /\ UNCHANGED <<auth, token, life, room, uploads, bounds>>

\* It fails, before or after the creator was assigned.
GrantFails(q) ==
    /\ Upset
    /\ creator' \in {creator} \cup {CreatorWith(id) : id \in Served(q)}
    /\ asked' = asked \ {q}
    /\ answers' = answers \cup {Answered(q, q.who, None)}
    /\ UNCHANGED <<auth, token, life, room, uploads, changes>>

\* The answer arrives: isMounted is the run's own, so an old answer is ignored.
SetToken(a) ==
    /\ answers' = answers \ {a}
    /\ a.run = current[a.tab]
    /\ a.creator # None
    /\ ticket' = [ticket EXCEPT ![a.tab] =
                     [who |-> a.who, creator |-> a.creator, life |-> a.life]]
    /\ UNCHANGED <<auth, due, runs, current, error, asked, creator, life, room,
                   uploads, bounds>>

SetError(a) ==
    /\ answers' = answers \ {a}
    /\ a.run = current[a.tab]
    /\ a.creator = None
    /\ error' = error \cup {a.tab}
    /\ UNCHANGED <<auth, due, runs, current, ticket, asked, creator, life, room,
                   uploads, bounds>>

IgnoreAnswer(a) ==
    /\ answers' = answers \ {a}
    /\ a.run # current[a.tab]
    /\ UNCHANGED <<auth, token, asked, creator, life, room, uploads, bounds>>

\* The backend restarts: it forgets the creator, and requests at it fail.
Restart ==
    /\ Upset
    /\ life' = life + 1
    /\ creator' = None
    /\ asked' = {}
    /\ answers' = answers \cup {Answered(q, q.who, None) : q \in asked}
    /\ UNCHANGED <<auth, token, room, uploads, changes>>

-----------------------------------------------------------------------------
(* The room and the board *)

\* LiveKitRoom connects.  LiveKit has one connection per identity and drops the
\* one there was.  (Before, the board is there but nobody's: it can neither be
\* drawn on nor receive.)
Connect(t) ==
    /\ ticket[t] # None
    /\ t \notin connected \cup dropped
    /\ LET others == {u \in connected : ticket[u].who = ticket[t].who}
       IN /\ connected' = (connected \ others) \cup {t}
          /\ dropped' = dropped \cup others
          /\ net' = {p \in net : p.to \notin others}
    /\ board' = board \cup {t}
    /\ UNCHANGED <<auth, token, backend, drawing, uploads, bounds>>

\* The connection is lost for good: the network, the end of the room.
LoseConnection(t) ==
    /\ t \in connected
    /\ Upset
    /\ connected' = connected \ {t}
    /\ dropped' = dropped \cup {t}
    /\ net' = {p \in net : p.to # t}
    /\ UNCHANGED <<auth, token, backend, board, drawing, uploads, changes>>

\* stageMode "screen" while somebody shares the screen.
HideBoard(t) ==
    /\ t \in board \cap connected
    /\ Upset
    /\ board' = board \ {t}
    /\ Unmount({t})
    /\ UNCHANGED <<auth, token, backend, connected, dropped, net, uploads, changes>>

\* Another stage mode, or the screen share ended, as it does for a tab that has
\* lost the room: a new, empty board.
ShowBoard(t) ==
    /\ t \in connected \cup dropped
    /\ t \notin board
    /\ board' = board \cup {t}
    /\ UNCHANGED <<auth, token, backend, connected, dropped, drawing, net,
                   uploads, bounds>>

\* handleChange: both timers start anew.
HandleChange(t) ==
    /\ CanEdit(t)
    /\ MayChange
    /\ changes' = changes + 1
    /\ sending' = sending \cup {t}
    /\ snapping' = snapping \cup {t}
    /\ UNCHANGED <<auth, token, backend, place, net, uploads, upsets>>

Draw(t) ==
    /\ HandleChange(t)
    /\ scene' = [scene EXCEPT ![t] = [by |-> ticket[t].who, n |-> changes + 1]]
    /\ unsent' = unsent \cup {t}
    /\ unseen' = unseen \cup {t}

\* onChange also comes when the drawing stays the same (a selection).
Select(t) ==
    /\ HandleChange(t)
    /\ UNCHANGED <<scene, unsent, unseen>>

\* The send timer: whatever is on the board now goes to everybody, or nowhere if
\* the connection is gone (the error is logged).
PublishScene(t) ==
    /\ t \in sending
    /\ sending' = sending \ {t}
    /\ net' = net \cup {[to |-> u, from |-> ticket[t].who, scene |-> scene[t]] :
                           u \in IF t \in connected THEN connected \ {t} ELSE {}}
    /\ unsent' = unsent \ {t}
    /\ UNCHANGED <<auth, token, backend, place, scene, snapping, unseen,
                   uploads, bounds>>

\* onDataReceived: only viewers draw it, and only if it comes from the creator.
ApplyScene(p) ==
    /\ p.to \in board
    /\ ~CanEdit(p.to)
    /\ p.from = ticket[p.to].creator
    /\ scene' = [scene EXCEPT ![p.to] = p.scene]
    /\ net' = net \ {p}
    /\ UNCHANGED <<auth, token, backend, place, sending, snapping, unsent,
                   unseen, uploads, bounds>>

\* A packet that is ignored, or that got lost.
LosePacket(p) ==
    /\ net' = net \ {p}
    /\ UNCHANGED <<auth, token, backend, place, drawing, uploads, bounds>>

\* The snapshot timer: uploadBoardCrop exports the board and posts the picture.
TakeSnapshot(t) ==
    /\ t \in snapping
    /\ snapping' = snapping \ {t}
    /\ uploads' = uploads \cup {scene[t]}
    /\ UNCHANGED <<auth, token, backend, place, scene, sending, unsent, unseen,
                   net, bounds>>

\* The post is over, in whatever order the posts are.
Uploaded(s) ==
    /\ uploads' = uploads \ {s}
    /\ unseen' = {t \in unseen : scene[t] # s}
    /\ UNCHANGED <<auth, token, backend, place, scene, sending, snapping,
                   unsent, net>>

\* uploadBoardCrop of the backend: the picture is emitted to conference.boardcrop.
UploadBoardCrop(s) == Uploaded(s) /\ UNCHANGED bounds

\* A failed upload is logged and not repeated.
UploadFails(s) == Uploaded(s) /\ Upset /\ UNCHANGED changes

-----------------------------------------------------------------------------
Next ==
    \/ \E t \in Tabs :
          \/ Open(t) \/ OpenEarly(t) \/ LoginAnswer(t)
          \/ Leave(t) \/ Logout(t) \/ Retry(t) \/ FetchToken(t)
          \/ Connect(t) \/ LoseConnection(t) \/ HideBoard(t) \/ ShowBoard(t)
          \/ Draw(t) \/ Select(t) \/ PublishScene(t) \/ TakeSnapshot(t)
    \/ \E q \in asked : Grant(q) \/ GrantFails(q)
    \/ \E a \in answers : SetToken(a) \/ SetError(a) \/ IgnoreAnswer(a)
    \/ \E p \in net : ApplyScene(p) \/ LosePacket(p)
    \/ \E s \in uploads : UploadBoardCrop(s) \/ UploadFails(s)
    \/ Restart

Requests == [tab : Tabs, run : 1 .. MaxRuns, who : Identities, bearer : Users \cup {None}]
Scenes == [by : Identities \cup {None}, n : 0 .. MaxChanges]

\* Timers fire and posted pictures are answered.  There are finitely many of
\* them, so that it is enough never to stop with one of them left.
Fairness ==
    WF_vars(\/ \E t \in Tabs : PublishScene(t) \/ TakeSnapshot(t)
            \/ \E s \in uploads : UploadBoardCrop(s))

Spec == Init /\ [][Next]_vars
FairSpec == Spec /\ Fairness

-----------------------------------------------------------------------------
(* Properties *)

Answer == [tab : Tabs, run : 1 .. MaxRuns, who : Identities,
           creator : Identities \cup {None}, life : Nat]

\* Page, requests and boards have the shape of the code's state; whoever shows
\* the room has a token.
TypeOK ==
    /\ auth \in [Tabs -> {"away", "user", "guest", "token"}]
    /\ {due, error, connected, dropped, board, sending, snapping, unsent, unseen}
          \subseteq SUBSET Tabs
    /\ runs \in 0 .. MaxRuns /\ current \in [Tabs -> 0 .. runs]
    /\ ticket \in [Tabs -> Ticket \cup {None}]
    /\ asked \subseteq Requests /\ answers \subseteq Answer
    /\ creator \in Identities \cup {None}
    /\ scene \in [Tabs -> Scenes]
    /\ net \subseteq [to : Tabs, from : Identities, scene : Scenes]
    /\ uploads \subseteq Scenes
    /\ changes \in 0 .. MaxChanges
    /\ upsets \in 0 .. MaxUpsets /\ life \in Nat
    /\ board \subseteq connected \cup dropped
    /\ \A t \in connected \cup dropped : ticket[t] # None

\* Who the visitor of a tab is, in the eyes of the page or of the backend.
Visitors(t) == {Identity(t)} \cup ({Bearer(t)} \ {None})

\* Nobody is in the room under an identity that is no longer the visitor's: once
\* the effect has run, the token names the identity the page has now, or, where
\* an access token is held whose user is not known yet, that user, however late
\* the answers to earlier requests come and whatever logins and logouts do.
PresentIdentity ==
    \A t \in Tabs : ticket[t] # None /\ t \notin due => ticket[t].who \in Visitors(t)

\* A board shows only what the creator drew, in the eyes of that tab: even when
\* a restart of the backend left the room with two of them.
CreatorsSceneOnly ==
    \A t \in Tabs : scene[t] # Blank => scene[t].by = ticket[t].creator

\* Only a tab that may draw has a timer set that broadcasts or uploads (the send
\* timer does not look again when it fires), and of the tabs in the room that
\* were let in during one life of the backend at most one may draw.  (A tab that
\* has lost the room may draw on, and upload, until it is taken home.)
OneDrawer ==
    /\ \A t \in sending \cup snapping : CanEdit(t)
    /\ \A t, u \in connected :
          CanEdit(t) /\ CanEdit(u) /\ ticket[t].life = ticket[u].life => t = u

\* What the creator drew is broadcast, if the tab still has the room, and its
\* picture reaches the assistant's topic or its upload fails, unless the drawing
\* goes on or its board is closed.
DrawnGetsOut ==
    \A t \in Tabs : t \in unsent \cup unseen ~> t \notin unsent \cup unseen

=============================================================================
