-------------------------- MODULE MeetingPageProofs --------------------------
(***************************************************************************)
(* What MeetingPage keeps for all tabs, accounts, requests and drawings.   *)
(***************************************************************************)
EXTENDS MeetingPage, FiniteSetTheorems, TLAPS

\* Every effect that is due has a request left to make.
DueFits == IsFiniteSet(due) /\ runs + Cardinality(due) <= MaxRuns

\* Whom a request may be granted for, and whom an answer was granted for, are
\* the tab's visitor.
Fits(q) ==
    q.tab \in due \/ /\ q.who \in Visitors(q.tab)
                     /\ q \in asked => Served(q) \subseteq Visitors(q.tab)

\* The request whose answer counts is the present visitor's, and its tab has no
\* token yet.
RequestsMatch ==
    \A q \in asked \cup answers :
        /\ q.run \in 1 .. runs
        /\ q.run = current[q.tab] => ticket[q.tab] = None /\ Fits(q)

\* A run is asked or answered once.
OneAnswerEach ==
    /\ \A q, r \in asked : q.run = r.run => q = r
    /\ \A a, b \in answers : a.run = b.run => a = b
    /\ \A q \in asked, a \in answers : q.run # a.run

BlankOffBoard == \A t \in Tabs \ board : scene[t] = Blank

ScenesSigned == \A p \in net : p.scene # Blank => p.scene.by = p.from

\* LiveKit keeps one connection for each identity.
OneConnectionEach ==
    \A t, u \in connected : ticket[t].who = ticket[u].who => t = u

\* An answer under way or a token names c the creator in the backend's life l.
Named(c, l) ==
    \/ \E a \in answers : a.creator = c /\ a.life = l
    \/ \E t \in Tabs : ticket[t] # None /\ ticket[t].creator = c /\ ticket[t].life = l

\* Between two restarts all of them name the creator in memory.
CreatorsAgree ==
    /\ \A c, d \in Identities, l \in Nat : Named(c, l) /\ Named(d, l) => c = d
    /\ \A c \in Identities, l \in Nat :
          Named(c, l) => l <= life /\ (l = life => c = creator)

\* A timer that broadcasts or uploads belongs to a tab that may draw.
TimersOfDrawers == \A t \in sending \cup snapping : CanEdit(t)

RoomInv ==
    /\ BlankOffBoard
    /\ ScenesSigned
    /\ OneConnectionEach
    /\ CreatorsSceneOnly
    /\ TimersOfDrawers

Inv ==
    /\ TypeOK
    /\ DueFits
    /\ RequestsMatch
    /\ OneAnswerEach
    /\ PresentIdentity
    /\ CreatorsAgree
    /\ RoomInv

-----------------------------------------------------------------------------
(* The page *)

\* The shape of the state, one variable at a time.
LEMMA Types ==
    ASSUME TypeOK
    PROVE  /\ auth \in [Tabs -> {"away", "user", "guest", "token"}]
           /\ due \subseteq Tabs /\ error \subseteq Tabs
           /\ connected \subseteq Tabs /\ dropped \subseteq Tabs /\ board \subseteq connected \cup dropped
           /\ sending \subseteq Tabs /\ snapping \subseteq Tabs
           /\ unsent \subseteq Tabs /\ unseen \subseteq Tabs
           /\ runs \in Nat /\ runs <= MaxRuns /\ MaxRuns \in Nat
           /\ current \in [Tabs -> 0 .. runs]
           /\ ticket \in [Tabs -> Ticket \cup {None}]
           /\ asked \subseteq Requests /\ answers \subseteq Answer
           /\ creator \in Identities \cup {None}
           /\ scene \in [Tabs -> Scenes]
           /\ net \subseteq [to : Tabs, from : Identities, scene : Scenes]
           /\ uploads \subseteq Scenes
           /\ changes \in Nat /\ changes <= MaxChanges /\ MaxChanges \in Nat
           /\ upsets \in Nat /\ upsets <= MaxUpsets /\ MaxUpsets \in Nat
           /\ life \in Nat
           /\ \A t \in connected \cup dropped : ticket[t] # None
           /\ \A t \in Tabs : ticket[t] # None => ticket[t] \in Ticket
           /\ \A t \in Tabs : Identity(t) \in Identities /\ Bearer(t) \in Users \cup {None}
           /\ Blank \in Scenes
<1>1. {MaxRuns, MaxChanges, MaxEvents, MaxUpsets} \subseteq Nat /\ UserOf \in [Tabs -> Users]
  BY MeetingAssumption
<1>2. \A t \in Tabs : Identity(t) \in Identities /\ Bearer(t) \in Users \cup {None}
  BY <1>1 DEF Identity, Identities, Bearer
<1>3. Blank \in Scenes
  BY <1>1 DEF Blank, Scenes
<1> QED
  BY <1>1, <1>2, <1>3 DEF TypeOK

\* An effect that is due may ask: it has its place among the requests.
LEMMA DueStep ==
    ASSUME TypeOK, DueFits, Next
    PROVE  DueFits' /\ (\A t \in Tabs : FetchToken(t) => runs + 1 <= MaxRuns)
<1>0. /\ IsFiniteSet(due) /\ Cardinality(due) \in Nat /\ runs + Cardinality(due) <= MaxRuns
      /\ runs \in Nat /\ MaxRuns \in Nat
  BY Types, FS_CardinalityType DEF DueFits
<1>1. ASSUME runs' = runs, due' \in SUBSET due PROVE DueFits'
  <2>1. IsFiniteSet(due') /\ Cardinality(due') <= Cardinality(due)
    BY <1>0, <1>1, FS_Subset
  <2>2. Cardinality(due') \in Nat
    BY <2>1, FS_CardinalityType
  <2> QED
    BY <1>0, <1>1, <2>1, <2>2 DEF DueFits
<1>2. ASSUME NEW t, runs' = runs, due' = due \cup {t}, t \in due \/ MayAsk PROVE DueFits'
  <2>1. CASE t \in due
    <3>1. due' \in SUBSET due
      BY <1>2, <2>1
    <3> QED
      BY <1>1, <1>2, <3>1
  <2>2. CASE t \notin due
    <3>1. IsFiniteSet(due') /\ Cardinality(due') = Cardinality(due) + 1
      BY <1>0, <1>2, <2>2, FS_AddElement
    <3>2. runs + Cardinality(due) < MaxRuns
      BY <1>2, <2>2 DEF MayAsk, Requested
    <3> QED
      BY <1>0, <1>2, <3>1, <3>2 DEF DueFits
  <2> QED
    BY <2>1, <2>2
<1>3. ASSUME NEW t \in Tabs, FetchToken(t) PROVE DueFits' /\ runs + 1 <= MaxRuns
  <2>1. t \in due /\ due' = due \ {t} /\ runs' = runs + 1
    BY <1>3 DEF FetchToken
  <2>2. IsFiniteSet(due') /\ Cardinality(due') = Cardinality(due) - 1
    BY <1>0, <2>1, FS_RemoveElement
  <2>3. Cardinality(due') \in Nat
    BY <2>2, FS_CardinalityType
  <2> QED
    BY <1>0, <2>1, <2>2, <2>3 DEF DueFits
<1>4. ASSUME NEW t \in Tabs,
             Open(t) \/ OpenEarly(t) \/ LoginAnswer(t) \/ Logout(t) \/ Retry(t)
      PROVE  DueFits'
  BY <1>2, <1>4 DEF Open, OpenEarly, LoginAnswer, Logout, Retry
<1>5. ASSUME NEW t \in Tabs, Leave(t) PROVE DueFits'
  BY <1>1, <1>5 DEF Leave, ClosePages
<1>6. \/ UNCHANGED <<due, runs>>
      \/ \E t \in Tabs : \/ Open(t) \/ OpenEarly(t) \/ LoginAnswer(t) \/ Logout(t)
                         \/ Retry(t) \/ FetchToken(t) \/ Leave(t)
  BY DEF Next, Connect, LoseConnection, HideBoard, ShowBoard, Draw, Select, HandleChange, PublishScene, TakeSnapshot,
     Grant, GrantFails, SetToken, SetError, IgnoreAnswer, ApplyScene, LosePacket,
     UploadBoardCrop, UploadFails, Uploaded, Restart, token
<1> QED
  BY <1>1, <1>3, <1>4, <1>5, <1>6

\* An answer is one: what it says is what was asked.
LEMMA AnsweredType ==
    ASSUME TypeOK, NEW q \in asked, NEW id \in Served(q), NEW c \in Identities \cup {None}
    PROVE  /\ q.tab \in Tabs /\ q.run \in 1 .. MaxRuns
           /\ id \in Identities /\ q.who \in Served(q)
           /\ Answered(q, id, c) \in Answer
           /\ Answered(q, id, c).tab = q.tab /\ Answered(q, id, c).run = q.run
           /\ Answered(q, id, c).who = id /\ Answered(q, id, c).creator = c
           /\ Answered(q, id, c).life = life
<1>1. q \in Requests /\ life \in Nat
  BY Types
<1>2. id \in Identities /\ q.who \in Served(q)
  BY <1>1 DEF Requests, Served, Identities
<1> QED
  BY <1>1, <1>2 DEF Requests, Answered, Answer

\* What an answer carries makes a token.
LEMMA AnswerType ==
    ASSUME TypeOK, NEW a \in answers
    PROVE  /\ a.tab \in Tabs /\ a.run \in 1 .. MaxRuns /\ a.who \in Identities
           /\ a.creator \in Identities \cup {None} /\ a.life \in Nat
           /\ a.creator # None => [who |-> a.who, creator |-> a.creator, life |-> a.life] \in Ticket
<1>1. a \in Answer
  BY Types
<1> QED
  BY <1>1 DEF Answer, Ticket

\* Connections come and go: some are dropped, at most one is new, and the boards
\* and their timers stay.
LEMMA RoomChanges ==
    ASSUME TypeOK, NEW t \in Tabs, Connect(t) \/ LoseConnection(t)
    PROVE  \E ts \in SUBSET connected, new \in SUBSET {t} :
              /\ connected' = (connected \ ts) \cup new /\ dropped' = dropped \cup ts
              /\ new = {} \/ /\ ticket[t] # None
                             /\ ts = {u \in connected : ticket[u].who = ticket[t].who}
              /\ board' = board \cup new /\ net' \subseteq net
              /\ UNCHANGED <<auth, token, backend, drawing, uploads, changes>>
              /\ UNCHANGED upsets \/ Upset
<1>1. CASE Connect(t)
  <2> DEFINE others == {u \in connected : ticket[u].who = ticket[t].who}
  <2>1. others \in SUBSET connected /\ {t} \in SUBSET {t}
    OBVIOUS
  <2>2. /\ connected' = (connected \ others) \cup {t} /\ dropped' = dropped \cup others
        /\ ticket[t] # None /\ board' = board \cup {t} /\ net' \subseteq net
        /\ UNCHANGED <<auth, token, backend, drawing, uploads, changes, upsets>>
    BY <1>1 DEF Connect, bounds
  <2> QED
    BY <2>1, <2>2
<1>2. CASE LoseConnection(t)
  <2>1. {t} \in SUBSET connected /\ {} \in SUBSET {t}
    BY <1>2 DEF LoseConnection
  <2>2. /\ connected' = (connected \ {t}) \cup {} /\ dropped' = dropped \cup {t}
        /\ board' = board \cup {} /\ net' \subseteq net /\ Upset
        /\ UNCHANGED <<auth, token, backend, drawing, uploads, changes>>
    BY <1>2 DEF LoseConnection
  <2> QED
    BY <2>1, <2>2
<1> QED
  BY <1>1, <1>2

LEMMA TypesStep ==
    ASSUME TypeOK, DueFits, OneDrawer, Next
    PROVE  TypeOK'
<1>0. /\ auth \in [Tabs -> {"away", "user", "guest", "token"}]
      /\ due \subseteq Tabs /\ error \subseteq Tabs
      /\ connected \subseteq Tabs /\ dropped \subseteq Tabs /\ board \subseteq connected \cup dropped
      /\ sending \subseteq Tabs /\ snapping \subseteq Tabs
      /\ unsent \subseteq Tabs /\ unseen \subseteq Tabs
      /\ runs \in Nat /\ runs <= MaxRuns /\ MaxRuns \in Nat
      /\ current \in [Tabs -> 0 .. runs]
      /\ ticket \in [Tabs -> Ticket \cup {None}]
      /\ asked \subseteq Requests /\ answers \subseteq Answer
      /\ creator \in Identities \cup {None}
      /\ scene \in [Tabs -> Scenes]
      /\ net \subseteq [to : Tabs, from : Identities, scene : Scenes]
      /\ uploads \subseteq Scenes
      /\ changes \in Nat /\ changes <= MaxChanges /\ MaxChanges \in Nat
      /\ upsets \in Nat /\ upsets <= MaxUpsets /\ MaxUpsets \in Nat
      /\ life \in Nat
      /\ \A t \in connected \cup dropped : ticket[t] # None
      /\ Blank \in Scenes
  BY Types
<1> DEFINE Shape ==
      /\ auth' \in [Tabs -> {"away", "user", "guest", "token"}]
      /\ due' \subseteq Tabs /\ error' \subseteq Tabs
      /\ sending' \subseteq Tabs /\ snapping' \subseteq Tabs
      /\ unsent' \subseteq Tabs /\ unseen' \subseteq Tabs
      /\ runs' \in Nat /\ runs' <= MaxRuns
      /\ current' \in [Tabs -> 0 .. runs']
      /\ ticket' \in [Tabs -> Ticket \cup {None}]
      /\ asked' \subseteq Requests /\ answers' \subseteq Answer
      /\ creator' \in Identities \cup {None}
      /\ scene' \in [Tabs -> Scenes]
      /\ net' \subseteq [to : Tabs, from : Identities, scene : Scenes]
      /\ uploads' \subseteq Scenes
      /\ changes' \in Nat /\ changes' <= MaxChanges
      /\ upsets' \in Nat /\ upsets' <= MaxUpsets
      /\ life' \in Nat
      /\ connected' \subseteq Tabs /\ dropped' \subseteq Tabs
      /\ board' \subseteq connected' \cup dropped'
      /\ \A t \in connected' \cup dropped' : ticket'[t] # None
<1>s. ASSUME Shape PROVE TypeOK'
  BY <1>0, <1>s DEF TypeOK
\* The parts a tab's page and room are made of.
<1>p. ASSUME NEW ts \in SUBSET Tabs, ClosePages(ts)
      PROVE  /\ auth' \in [Tabs -> {"away", "user", "guest", "token"}]
             /\ due' \subseteq Tabs /\ error' \subseteq Tabs
             /\ current' \in [Tabs -> 0 .. runs]
             /\ ticket' \in [Tabs -> Ticket \cup {None}]
             /\ \A t \in Tabs \ ts : ticket'[t] = ticket[t]
  BY <1>0, <1>p DEF ClosePages
<1>u. ASSUME NEW ts \in SUBSET Tabs, Unmount(ts)
      PROVE  /\ sending' \subseteq Tabs /\ snapping' \subseteq Tabs
             /\ unsent' \subseteq Tabs /\ unseen' \subseteq Tabs
             /\ scene' \in [Tabs -> Scenes]
  BY <1>0, <1>u DEF Unmount
<1>c. ASSUME NEW ts \in SUBSET Tabs, CloseRooms(ts)
      PROVE  /\ sending' \subseteq Tabs /\ snapping' \subseteq Tabs
             /\ unsent' \subseteq Tabs /\ unseen' \subseteq Tabs
             /\ scene' \in [Tabs -> Scenes]
             /\ connected' = connected \ ts /\ dropped' = dropped \ ts
             /\ board' = board \ ts /\ net' \subseteq net
  BY <1>u, <1>c DEF CloseRooms
<1>1. ASSUME NEW t \in Tabs, Open(t) PROVE Shape
  BY <1>0, <1>1 DEF Open, backend, room, place, drawing, bounds
<1>2. ASSUME NEW t \in Tabs, Leave(t) PROVE Shape
  <2>1. {t} \in SUBSET Tabs
    OBVIOUS
  <2>2. ClosePages({t}) /\ CloseRooms({t})
    BY <1>2 DEF Leave
  <2>3. UNCHANGED <<runs, backend, uploads, bounds>>
    BY <1>2 DEF Leave
  <2> QED
    BY <1>0, <1>p, <1>c, <2>1, <2>2, <2>3 DEF backend, bounds
<1>3. ASSUME NEW t \in Tabs, OpenEarly(t) PROVE Shape
  BY <1>0, <1>3 DEF OpenEarly, Upset, backend, room, place, drawing
<1>23. ASSUME NEW t \in Tabs, LoginAnswer(t) PROVE Shape
  BY <1>0, <1>23 DEF LoginAnswer, backend, room, place, drawing, bounds
<1>4. ASSUME NEW t \in Tabs, Logout(t) PROVE Shape
  BY <1>0, <1>4 DEF Logout, backend, room, place, drawing, bounds
<1>5. ASSUME NEW t \in Tabs, Retry(t) PROVE Shape
  BY <1>0, <1>5 DEF Retry, backend, room, place, drawing, bounds
<1>6. ASSUME NEW t \in Tabs, FetchToken(t) PROVE Shape
  <2>1. runs + 1 <= MaxRuns
    BY <1>6, DueStep
  <2>2. /\ sending' \subseteq Tabs /\ snapping' \subseteq Tabs
        /\ unsent' \subseteq Tabs /\ unseen' \subseteq Tabs
        /\ scene' \in [Tabs -> Scenes]
        /\ connected' = connected \ {t} /\ dropped' = dropped \ {t}
        /\ board' = board \ {t} /\ net' \subseteq net
    BY <1>c, <1>6 DEF FetchToken
  <2>3. [tab |-> t, run |-> runs + 1, who |-> Identity(t), bearer |-> Bearer(t)] \in Requests
    BY <1>0, <2>1, Types DEF Requests
  <2>4. asked' \subseteq Requests
    BY <1>0, <1>6, <2>3 DEF FetchToken
  <2>5. /\ runs' = runs + 1 /\ due' \subseteq Tabs /\ error' \subseteq Tabs
        /\ current' = [current EXCEPT ![t] = runs + 1]
        /\ ticket' = [ticket EXCEPT ![t] = None]
        /\ UNCHANGED <<auth, answers, creator, life, uploads, changes, upsets>>
    BY <1>0, <1>6 DEF FetchToken, bounds
  <2>6. current' \in [Tabs -> 0 .. runs']
    BY <1>0, <2>5
  <2> QED
    BY <1>0, <2>1, <2>2, <2>4, <2>5, <2>6
<1>7. ASSUME NEW q \in asked, Grant(q) PROVE Shape
  <2>1. PICK id \in Served(q) :
           /\ creator' = CreatorWith(id)
           /\ answers' = answers \cup {Answered(q, id, CreatorWith(id))}
    BY <1>7 DEF Grant
  <2>2. CreatorWith(id) \in Identities
    BY <1>0, AnsweredType, MeetingAssumption DEF CreatorWith
  <2>3. Answered(q, id, CreatorWith(id)) \in Answer
    BY <2>2, AnsweredType
  <2> QED
    BY <1>0, <1>7, <2>1, <2>2, <2>3 DEF Grant, token, room, place, drawing, bounds
<1>8. ASSUME NEW q \in asked, GrantFails(q) PROVE Shape
  <2>1. q.who \in Served(q)
    BY DEF Served
  <2>2. Answered(q, q.who, None) \in Answer
    BY <2>1, AnsweredType
  <2>3. \A id \in Served(q) : CreatorWith(id) \in Identities
    BY <1>0, AnsweredType, MeetingAssumption DEF CreatorWith
  <2>4. creator' \in Identities \cup {None} /\ upsets' \in Nat /\ upsets' <= MaxUpsets
    BY <1>0, <1>8, <2>3 DEF GrantFails, Upset
  <2>5. answers' \subseteq Answer /\ asked' \subseteq Requests
    BY <1>0, <1>8, <2>2 DEF GrantFails
  <2> QED
    BY <1>0, <1>8, <2>4, <2>5 DEF GrantFails, token, room, place, drawing
<1>9. ASSUME NEW a \in answers, SetToken(a) PROVE Shape
  <2>1. /\ ticket' \in [Tabs -> Ticket \cup {None}]
        /\ \A t \in connected \cup dropped : ticket'[t] # None
    BY <1>0, <1>9, AnswerType, MeetingAssumption DEF SetToken
  <2> QED
    BY <1>0, <1>9, <2>1 DEF SetToken, room, place, drawing, bounds
<1>10. ASSUME NEW a \in answers, SetError(a) PROVE Shape
  BY <1>0, <1>10, AnswerType DEF SetError, room, place, drawing, bounds
<1>11. ASSUME NEW a \in answers, IgnoreAnswer(a) PROVE Shape
  BY <1>0, <1>11 DEF IgnoreAnswer, token, room, place, drawing, bounds
<1>12. ASSUME Restart PROVE Shape
  <2>1. {Answered(q, q.who, None) : q \in asked} \subseteq Answer
    BY AnsweredType DEF Served
  <2>2. answers' \subseteq Answer /\ asked' \subseteq Requests
    BY <1>0, <1>12, <2>1 DEF Restart
  <2>3. upsets' \in Nat /\ upsets' <= MaxUpsets /\ life' \in Nat /\ creator' = None
    BY <1>0, <1>12 DEF Restart, Upset
  <2> QED
    BY <1>0, <1>12, <2>2, <2>3 DEF Restart, token, room, place, drawing
<1>13. ASSUME NEW t \in Tabs, Connect(t) \/ LoseConnection(t) PROVE Shape
  <2>1. PICK ts \in SUBSET connected, new \in SUBSET {t} :
           /\ connected' = (connected \ ts) \cup new /\ dropped' = dropped \cup ts
           /\ new = {} \/ /\ ticket[t] # None
                          /\ ts = {u \in connected : ticket[u].who = ticket[t].who}
           /\ board' = board \cup new /\ net' \subseteq net
           /\ UNCHANGED <<auth, token, backend, drawing, uploads, changes>>
           /\ UNCHANGED upsets \/ Upset
    BY <1>13, RoomChanges
  <2>2. board' \subseteq connected' \cup dropped'
    BY <1>0, <2>1
  <2> QED
    BY <1>0, <2>1, <2>2 DEF Upset, token, backend, drawing
<1>14. ASSUME NEW t \in Tabs, HideBoard(t) PROVE Shape
  <2>1. /\ sending' \subseteq Tabs /\ snapping' \subseteq Tabs
        /\ unsent' \subseteq Tabs /\ unseen' \subseteq Tabs
        /\ scene' \in [Tabs -> Scenes]
    BY <1>u, <1>14 DEF HideBoard
  <2> QED
    BY <1>0, <1>14, <2>1 DEF HideBoard, Upset, token, backend
<1>15. ASSUME NEW t \in Tabs, ShowBoard(t) PROVE Shape
  BY <1>0, <1>15 DEF ShowBoard, token, backend, drawing, bounds
<1>16. ASSUME NEW t \in Tabs, Draw(t) PROVE Shape
  <2>1. /\ CanEdit(t) /\ changes < MaxChanges /\ changes' = changes + 1
        /\ scene' = [scene EXCEPT ![t] = [by |-> ticket[t].who, n |-> changes + 1]]
    BY <1>16 DEF Draw, HandleChange, MayChange
  <2>2. ticket[t].who \in Identities
    BY <1>0, <2>1, Types DEF CanEdit, Ticket
  <2>3. [by |-> ticket[t].who, n |-> changes + 1] \in Scenes
    BY <1>0, <2>1, <2>2 DEF Scenes
  <2> QED
    BY <1>0, <1>16, <2>1, <2>3 DEF Draw, HandleChange, token, backend, place
<1>17. ASSUME NEW t \in Tabs, Select(t) PROVE Shape
  BY <1>0, <1>17 DEF Select, HandleChange, MayChange, token, backend, place
<1>18. ASSUME NEW t \in Tabs, PublishScene(t) PROVE Shape
  <2>1. t \in board /\ ticket[t].who \in Identities
    BY <1>0, <1>18, Types DEF PublishScene, OneDrawer, CanEdit, Ticket
  <2>2. {[to |-> u, from |-> ticket[t].who, scene |-> scene[t]] :
            u \in IF t \in connected THEN connected \ {t} ELSE {}}
           \subseteq [to : Tabs, from : Identities, scene : Scenes]
    BY <1>0, <2>1
  <2>3. net' \subseteq [to : Tabs, from : Identities, scene : Scenes]
    BY <1>0, <1>18, <2>2 DEF PublishScene
  <2> QED
    BY <1>0, <1>18, <2>3 DEF PublishScene, token, backend, place, bounds
<1>19. ASSUME NEW p \in net, ApplyScene(p) PROVE Shape
  BY <1>0, <1>19 DEF ApplyScene, token, backend, place, bounds
<1>20. ASSUME NEW p \in net, LosePacket(p) PROVE Shape
  BY <1>0, <1>20 DEF LosePacket, token, backend, place, drawing, bounds
<1>21. ASSUME NEW t \in Tabs, TakeSnapshot(t) PROVE Shape
  BY <1>0, <1>21 DEF TakeSnapshot, token, backend, place, bounds
<1>22. ASSUME NEW s \in uploads, UploadBoardCrop(s) \/ UploadFails(s) PROVE Shape
  BY <1>0, <1>22 DEF UploadBoardCrop, UploadFails, Uploaded, Upset, token, backend, place, bounds
<1> QED
  <2> HIDE DEF Shape
  <2>1. Shape
    BY <1>1, <1>2, <1>3, <1>4, <1>5, <1>6, <1>7, <1>8, <1>9, <1>10, <1>11, <1>12, <1>13,
       <1>14, <1>15, <1>16, <1>17, <1>18, <1>19, <1>20, <1>21, <1>22, <1>23 DEF Next
  <2> QED
    BY <1>s, <2>1

\* Pages close with their requests and tokens.
LEMMA PagesClosed ==
    ASSUME TypeOK, NEW ts \in SUBSET Tabs, ClosePages(ts)
    PROVE  /\ \A t \in ts : current'[t] = 0 /\ ticket'[t] = None
           /\ \A t \in Tabs \ ts : /\ current'[t] = current[t] /\ ticket'[t] = ticket[t]
                                   /\ (t \in due' <=> t \in due)
                                   /\ Visitors(t)' = Visitors(t)
BY Types DEF ClosePages, Visitors, Identity, Bearer

LEMMA RequestsStep ==
    ASSUME TypeOK, RequestsMatch, OneAnswerEach, Next
    PROVE  RequestsMatch' /\ OneAnswerEach'
<1>0. /\ runs \in Nat /\ current \in [Tabs -> 0 .. runs]
      /\ ticket \in [Tabs -> Ticket \cup {None}]
      /\ auth \in [Tabs -> {"away", "user", "guest", "token"}]
      /\ \A q \in asked : q.who \in Served(q)
      /\ \A q \in asked \cup answers : q.tab \in Tabs /\ q.run \in 1 .. runs
  BY Types, AnsweredType, AnswerType DEF RequestsMatch, Served
<1>v. ASSUME auth' = auth PROVE \A t : Visitors(t)' = Visitors(t)
  BY <1>v DEF Visitors, Identity, Bearer
\* Requests that stay match if what they are matched with stays, or they no
\* longer count.
<1>1. ASSUME asked' = asked, answers' \subseteq answers, runs' = runs,
             \A t \in Tabs : \/ current'[t] = 0
                             \/ /\ current'[t] = current[t]
                                /\ ticket'[t] = ticket[t]
                                /\ t \in due => t \in due'
                                /\ t \in due' \/ Visitors(t)' = Visitors(t)
      PROVE  RequestsMatch' /\ OneAnswerEach'
  <2>1. ASSUME NEW q \in asked' \cup answers'
        PROVE  /\ q.run \in 1 .. runs'
               /\ q.run = current'[q.tab] => ticket'[q.tab] = None /\ Fits(q)'
    <3>1. q \in asked \cup answers /\ q.tab \in Tabs /\ q.run \in 1 .. runs /\ q.run # 0
      BY <1>0, <1>1
    <3>2. CASE current'[q.tab] = 0
      BY <1>1, <3>1, <3>2
    <3>3. CASE current'[q.tab] # 0
      <4>1. /\ current'[q.tab] = current[q.tab] /\ ticket'[q.tab] = ticket[q.tab]
            /\ q.tab \in due => q.tab \in due'
            /\ q.tab \in due' \/ Visitors(q.tab)' = Visitors(q.tab)
        BY <1>1, <3>1, <3>3
      <4>2. q.run = current[q.tab] => ticket[q.tab] = None /\ Fits(q)
        BY <3>1 DEF RequestsMatch
      <4>3. Fits(q) => Fits(q)'
        BY <1>1, <4>1 DEF Fits, Served
      <4> QED
        BY <1>1, <3>1, <4>1, <4>2, <4>3
    <3> QED
      BY <3>2, <3>3
  <2>2. RequestsMatch'
    BY <2>1 DEF RequestsMatch
  <2>3. OneAnswerEach'
    BY <1>1 DEF OneAnswerEach
  <2> QED
    BY <2>2, <2>3
\* Answers take the place of their requests.
<1>2. ASSUME NEW qs \in SUBSET asked, NEW as,
             asked' = asked \ qs, answers' = answers \cup as, UNCHANGED <<auth, token>>,
             \A a \in as : \E q \in qs : a.tab = q.tab /\ a.run = q.run /\ a.who \in Served(q),
             \A a, b \in as : a.run = b.run => a = b
      PROVE  RequestsMatch' /\ OneAnswerEach'
  <2>0. /\ UNCHANGED <<runs, current, ticket, due>>
        /\ \A t : Visitors(t)' = Visitors(t)
    BY <1>2, <1>v DEF token
  <2>1. ASSUME NEW a \in asked' \cup answers'
        PROVE  /\ a.run \in 1 .. runs'
               /\ a.run = current'[a.tab] => ticket'[a.tab] = None /\ Fits(a)'
    <3>1. CASE a \in asked \cup answers
      <4>1. Fits(a) => Fits(a)'
        BY <1>2, <2>0 DEF Fits, Served
      <4> QED
        BY <2>0, <3>1, <4>1 DEF RequestsMatch
    <3>2. CASE a \notin asked \cup answers
      <4>1. PICK q \in qs : a.tab = q.tab /\ a.run = q.run /\ a.who \in Served(q)
        BY <1>2, <2>1, <3>2
      <4>2. /\ q \in asked /\ q.run \in 1 .. runs
            /\ q.run = current[q.tab] => ticket[q.tab] = None /\ Fits(q)
        BY <4>1 DEF RequestsMatch
      <4>3. Fits(q) => a.tab \in due \/ a.who \in Visitors(a.tab)
        <5>1. Visitors(a.tab) = Visitors(q.tab)
          BY <4>1
        <5>2. Fits(q) => q.tab \in due \/ Served(q) \subseteq Visitors(q.tab)
          BY <4>2 DEF Fits
        <5> QED
          BY <4>1, <5>1, <5>2
      <4>4. a \notin asked'
        BY <1>2, <3>2
      <4> QED
        BY <2>0, <4>1, <4>2, <4>3, <4>4 DEF Fits
    <3> QED
      BY <3>1, <3>2
  <2>2. RequestsMatch'
    BY <2>1 DEF RequestsMatch
  <2>3. \A q, r \in asked' : q.run = r.run => q = r
    BY <1>2 DEF OneAnswerEach
  <2>a. ASSUME NEW a \in as PROVE \E q \in qs : q \in asked /\ a.run = q.run
    BY <1>2
  <2>4. ASSUME NEW q \in asked', NEW a \in answers' PROVE q.run # a.run
    <3>1. q \in asked /\ q \notin qs
      BY <1>2
    <3>2. CASE a \in answers
      BY <3>1, <3>2 DEF OneAnswerEach
    <3>3. CASE a \in as
      BY <2>a, <3>1, <3>3 DEF OneAnswerEach
    <3> QED
      BY <1>2, <3>2, <3>3
  <2>5. ASSUME NEW a \in answers, NEW b \in as PROVE a.run # b.run
    BY <2>a DEF OneAnswerEach
  <2>6. \A a, b \in answers' : a.run = b.run => a = b
    BY <1>2, <2>5 DEF OneAnswerEach
  <2> QED
    BY <2>2, <2>3, <2>4, <2>6 DEF OneAnswerEach
<1>3. ASSUME NEW t \in Tabs, FetchToken(t) PROVE RequestsMatch' /\ OneAnswerEach'
  <2> DEFINE new == [tab |-> t, run |-> runs + 1, who |-> Identity(t), bearer |-> Bearer(t)]
  <2>1. /\ new.tab = t /\ new.run = runs + 1
        /\ new.who \in Visitors(t) /\ Served(new) \subseteq Visitors(t)
        /\ asked' = asked \cup {new} /\ answers' = answers /\ runs' = runs + 1
        /\ current'[t] = runs + 1 /\ ticket'[t] = None /\ auth' = auth
        /\ due' = due \ {t}
        /\ \A u \in Tabs \ {t} : current'[u] = current[u] /\ ticket'[u] = ticket[u]
    BY <1>0, <1>3 DEF FetchToken, Served, Visitors
  <2> HIDE DEF new
  <2>2. \A u : Visitors(u)' = Visitors(u)
    BY <1>v, <2>1
  <2>3. ASSUME NEW q \in asked' \cup answers'
        PROVE  /\ q.run \in 1 .. runs'
               /\ q.run = current'[q.tab] => ticket'[q.tab] = None /\ Fits(q)'
    <3>1. CASE q = new
      BY <1>0, <2>1, <2>2, <3>1 DEF Fits, Served
    <3>2. CASE q \in asked \cup answers /\ q.tab = t
      BY <1>0, <2>1, <3>2
    <3>3. CASE q # new /\ q \in asked \cup answers /\ q.tab # t
      <4>1. q.tab \in Tabs \ {t} /\ q.run \in 1 .. runs
        BY <1>0, <3>3
      <4>2. q.run \in 1 .. runs'
        BY <1>0, <2>1, <4>1
      <4>3. current'[q.tab] = current[q.tab] /\ ticket'[q.tab] = ticket[q.tab]
        BY <2>1, <4>1
      <4>4. Fits(q) => Fits(q)'
        BY <2>1, <2>2, <3>3 DEF Fits, Served
      <4> QED
        BY <3>3, <4>2, <4>3, <4>4 DEF RequestsMatch
    <3> QED
      BY <2>1, <3>1, <3>2, <3>3
  <2>4. RequestsMatch'
    BY <2>3 DEF RequestsMatch
  <2>5. OneAnswerEach'
    BY <1>0, <2>1 DEF OneAnswerEach
  <2> QED
    BY <2>4, <2>5
<1>4. ASSUME NEW a \in answers, SetToken(a) PROVE RequestsMatch' /\ OneAnswerEach'
  <2>1. /\ asked' = asked /\ answers' = answers \ {a} /\ runs' = runs
        /\ current' = current /\ due' = due /\ auth' = auth
        /\ \A u \in Tabs \ {a.tab} : ticket'[u] = ticket[u]
        /\ a.run = current[a.tab]
    BY <1>0, <1>4 DEF SetToken
  <2>2. ASSUME NEW q \in asked' \cup answers', q.run = current[q.tab] PROVE q.tab # a.tab
    BY <2>1, <2>2 DEF OneAnswerEach
  <2>3. OneAnswerEach'
    BY <2>1 DEF OneAnswerEach
  <2>4. ASSUME NEW q \in asked' \cup answers'
        PROVE  /\ q.run \in 1 .. runs'
               /\ q.run = current'[q.tab] => ticket'[q.tab] = None /\ Fits(q)'
    <3>1. q \in asked \cup answers /\ q.tab \in Tabs
      BY <1>0, <2>1
    <3>2. Fits(q) => Fits(q)'
      BY <1>v, <2>1 DEF Fits, Served
    <3> QED
      BY <2>1, <2>2, <3>1, <3>2 DEF RequestsMatch
  <2>5. RequestsMatch'
    BY <2>4 DEF RequestsMatch
  <2> QED
    BY <2>3, <2>5
<1>5. ASSUME NEW t \in Tabs, Leave(t) PROVE RequestsMatch' /\ OneAnswerEach'
  <2>1. /\ ClosePages({t}) /\ {t} \in SUBSET Tabs
        /\ asked' = asked /\ answers' = answers /\ runs' = runs
    BY <1>5 DEF Leave, backend
  <2>2. /\ \A u \in {t} : current'[u] = 0
        /\ \A u \in Tabs \ {t} : /\ current'[u] = current[u] /\ ticket'[u] = ticket[u]
                                 /\ (u \in due' <=> u \in due)
                                 /\ Visitors(u)' = Visitors(u)
    BY <2>1, PagesClosed
  <2> QED
    BY <1>1, <2>1, <2>2
<1>6. ASSUME NEW t \in Tabs,
             Open(t) \/ OpenEarly(t) \/ LoginAnswer(t) \/ Logout(t) \/ Retry(t)
      PROVE  RequestsMatch' /\ OneAnswerEach'
  <2>1. UNCHANGED <<asked, answers, runs, current, ticket>> /\ due \subseteq due'
    BY <1>6 DEF Open, OpenEarly, LoginAnswer, Logout, Retry, backend
  <2>2. \A u \in Tabs : u \in due' \/ Visitors(u)' = Visitors(u)
    BY <1>0, <1>6 DEF Open, OpenEarly, LoginAnswer, Logout, Retry, Visitors, Identity, Bearer
  <2> QED
    BY <1>1, <2>1, <2>2
<1>7. ASSUME NEW q \in asked, Grant(q) \/ GrantFails(q) PROVE RequestsMatch' /\ OneAnswerEach'
  <2>1. {q} \in SUBSET asked /\ UNCHANGED <<auth, token>> /\ asked' = asked \ {q}
    BY <1>7 DEF Grant, GrantFails, token
  <2>2. PICK id \in Served(q), c \in Identities \cup {None} :
           answers' = answers \cup {Answered(q, id, c)}
    <3>1. \A id \in Served(q) : CreatorWith(id) \in Identities \cup {None}
      BY AnsweredType, Types DEF CreatorWith
    <3> QED
      BY <1>0, <1>7, <3>1 DEF Grant, GrantFails
  <2>3. \A a \in {Answered(q, id, c)} : a.tab = q.tab /\ a.run = q.run /\ a.who \in Served(q)
    BY DEF Answered
  <2>4. \A a, b \in {Answered(q, id, c)} : a.run = b.run => a = b
    OBVIOUS
  <2> DEFINE as == {Answered(q, id, c)}
  <2>5. /\ answers' = answers \cup as
        /\ \A a \in as : \E r \in {q} : a.tab = r.tab /\ a.run = r.run /\ a.who \in Served(r)
        /\ \A a, b \in as : a.run = b.run => a = b
    BY <2>2, <2>3, <2>4
  <2> HIDE DEF as
  <2> QED
    BY <1>2, <2>1, <2>5
<1>8. ASSUME Restart PROVE RequestsMatch' /\ OneAnswerEach'
  <2> DEFINE failed == {Answered(q, q.who, None) : q \in asked}
  <2>1. /\ asked \in SUBSET asked /\ UNCHANGED <<auth, token>>
        /\ asked' = asked \ asked /\ answers' = answers \cup failed
    BY <1>8 DEF Restart, token
  <2>2. \A a \in failed : \E q \in asked :
           a = Answered(q, q.who, None) /\ a.tab = q.tab /\ a.run = q.run /\ a.who \in Served(q)
    BY <1>0 DEF Answered
  <2>3. \A a, b \in failed : a.run = b.run => a = b
    BY <2>2 DEF OneAnswerEach
  <2> HIDE DEF failed
  <2> QED
    BY <1>2, <2>1, <2>2, <2>3
<1>9. ASSUME UNCHANGED <<auth, due, runs, current, ticket, asked>>, answers' \subseteq answers
      PROVE  RequestsMatch' /\ OneAnswerEach'
  BY <1>1, <1>9, <1>v
<1>10. \/ UNCHANGED <<auth, due, runs, current, ticket, asked>> /\ answers' \subseteq answers
       \/ \E t \in Tabs : \/ Open(t) \/ OpenEarly(t) \/ LoginAnswer(t) \/ Leave(t)
                          \/ Logout(t) \/ Retry(t) \/ FetchToken(t)
       \/ \E q \in asked : Grant(q) \/ GrantFails(q)
       \/ \E a \in answers : SetToken(a)
       \/ Restart
  BY DEF Next, Connect, LoseConnection, HideBoard, ShowBoard, Draw, Select, HandleChange,
     PublishScene, TakeSnapshot, SetError, IgnoreAnswer, ApplyScene, LosePacket,
     UploadBoardCrop, UploadFails, Uploaded, token, backend
<1> QED
  BY <1>3, <1>4, <1>5, <1>6, <1>7, <1>8, <1>9, <1>10

LEMMA PresentStep ==
    ASSUME TypeOK, RequestsMatch, PresentIdentity, Next
    PROVE  PresentIdentity'
<1>0. /\ ticket \in [Tabs -> Ticket \cup {None}]
      /\ auth \in [Tabs -> {"away", "user", "guest", "token"}]
  BY Types
<1>v. ASSUME auth' = auth PROVE \A t : Visitors(t)' = Visitors(t)
  BY <1>v DEF Visitors, Identity, Bearer
<1>1. ASSUME \A t \in Tabs : \/ ticket'[t] = None
                             \/ /\ ticket'[t] = ticket[t]
                                /\ t \in due => t \in due'
                                /\ t \in due' \/ Visitors(t)' = Visitors(t)
      PROVE  PresentIdentity'
  <2>1. ASSUME NEW t \in Tabs, ticket'[t] # None, t \notin due'
        PROVE  ticket'[t].who \in Visitors(t)'
    BY <1>1, <2>1 DEF PresentIdentity
  <2> QED
    BY <2>1 DEF PresentIdentity
<1>2. ASSUME NEW t \in Tabs, FetchToken(t) PROVE PresentIdentity'
  <2>1. /\ ticket' = [ticket EXCEPT ![t] = None] /\ due' = due \ {t} /\ auth' = auth
    BY <1>2 DEF FetchToken
  <2> QED
    BY <1>0, <1>1, <1>v, <2>1
<1>3. ASSUME NEW a \in answers, SetToken(a) PROVE PresentIdentity'
  <2>1. /\ a.tab \in Tabs /\ ticket' = [ticket EXCEPT ![a.tab] =
               [who |-> a.who, creator |-> a.creator, life |-> a.life]]
        /\ due' = due /\ auth' = auth /\ a.run = current[a.tab]
    BY <1>3, AnswerType DEF SetToken
  <2>2. \A u : Visitors(u)' = Visitors(u)
    BY <1>v, <2>1
  <2>3. a.tab \in due \/ ticket'[a.tab].who \in Visitors(a.tab)
    <3>1. ticket'[a.tab].who = a.who
      BY <1>0, <2>1
    <3>2. Fits(a)
      BY <2>1 DEF RequestsMatch
    <3> QED
      BY <3>1, <3>2 DEF Fits
  <2>4. \A u \in Tabs \ {a.tab} : ticket'[u] = ticket[u]
    BY <1>0, <2>1
  <2>5. ASSUME NEW u \in Tabs, ticket'[u] # None, u \notin due'
        PROVE  ticket'[u].who \in Visitors(u)'
    <3>1. CASE u = a.tab
      BY <2>1, <2>2, <2>3, <2>5, <3>1
    <3>2. CASE u # a.tab
      BY <2>1, <2>2, <2>4, <2>5, <3>2 DEF PresentIdentity
    <3> QED
      BY <3>1, <3>2
  <2> QED
    BY <2>5 DEF PresentIdentity
<1>4. ASSUME NEW t \in Tabs, Leave(t) PROVE PresentIdentity'
  <2>1. ClosePages({t}) /\ {t} \in SUBSET Tabs
    BY <1>4 DEF Leave
  <2>2. /\ \A u \in {t} : ticket'[u] = None
        /\ \A u \in Tabs \ {t} : /\ ticket'[u] = ticket[u]
                                 /\ (u \in due' <=> u \in due)
                                 /\ Visitors(u)' = Visitors(u)
    BY <2>1, PagesClosed
  <2> QED
    BY <1>1, <2>2
<1>5. ASSUME NEW t \in Tabs,
             Open(t) \/ OpenEarly(t) \/ LoginAnswer(t) \/ Logout(t) \/ Retry(t)
      PROVE  PresentIdentity'
  <2>1. ticket' = ticket /\ due \subseteq due'
    BY <1>5 DEF Open, OpenEarly, LoginAnswer, Logout, Retry
  <2>2. \A u \in Tabs : u \in due' \/ Visitors(u)' = Visitors(u)
    BY <1>0, <1>5 DEF Open, OpenEarly, LoginAnswer, Logout, Retry, Visitors, Identity, Bearer
  <2> QED
    BY <1>1, <2>1, <2>2
<1>6. ASSUME UNCHANGED <<auth, due, ticket>> PROVE PresentIdentity'
  BY <1>1, <1>6, <1>v
<1>7. \/ UNCHANGED <<auth, due, ticket>>
      \/ \E t \in Tabs : \/ Open(t) \/ OpenEarly(t) \/ LoginAnswer(t) \/ Leave(t)
                         \/ Logout(t) \/ Retry(t) \/ FetchToken(t)
      \/ \E a \in answers : SetToken(a)
  BY DEF Next, Connect, LoseConnection, HideBoard, ShowBoard, Draw, Select, HandleChange,
     PublishScene, TakeSnapshot, Grant, GrantFails, SetError, IgnoreAnswer, ApplyScene,
     LosePacket, UploadBoardCrop, UploadFails, Uploaded, Restart, token
<1> QED
  BY <1>2, <1>3, <1>4, <1>5, <1>6, <1>7

\* How tokens come and go: a step takes some away or sets one from an answer.
LEMMA TicketsStep ==
    ASSUME TypeOK, RequestsMatch, Next
    PROVE  \/ \A t \in Tabs : ticket'[t] = ticket[t] \/ ticket'[t] = None
           \/ \E a \in answers :
                 /\ SetToken(a) /\ a.tab \in Tabs /\ a.creator \in Identities
                 /\ ticket[a.tab] = None
                 /\ ticket'[a.tab] = [who |-> a.who, creator |-> a.creator, life |-> a.life]
                 /\ \A t \in Tabs \ {a.tab} : ticket'[t] = ticket[t]
<1>0. ticket \in [Tabs -> Ticket \cup {None}]
  BY Types
<1>1. ASSUME NEW t \in Tabs, FetchToken(t)
      PROVE  \A u \in Tabs : ticket'[u] = ticket[u] \/ ticket'[u] = None
  BY <1>0, <1>1 DEF FetchToken
<1>2. ASSUME NEW t \in Tabs, Leave(t)
      PROVE  \A u \in Tabs : ticket'[u] = ticket[u] \/ ticket'[u] = None
  <2>1. ClosePages({t}) /\ {t} \in SUBSET Tabs
    BY <1>2 DEF Leave
  <2> QED
    BY <2>1, PagesClosed
<1>3. ASSUME NEW a \in answers, SetToken(a)
      PROVE  /\ a.tab \in Tabs /\ a.creator \in Identities
             /\ ticket[a.tab] = None
             /\ ticket'[a.tab] = [who |-> a.who, creator |-> a.creator, life |-> a.life]
             /\ \A t \in Tabs \ {a.tab} : ticket'[t] = ticket[t]
  <2>1. a.tab \in Tabs /\ a.creator \in Identities
    BY <1>3, AnswerType DEF SetToken
  <2>2. ticket[a.tab] = None
    BY <1>3 DEF SetToken, RequestsMatch
  <2> QED
    BY <1>0, <1>3, <2>1, <2>2 DEF SetToken
<1>4. \/ ticket' = ticket
      \/ \E t \in Tabs : FetchToken(t) \/ Leave(t)
      \/ \E a \in answers : SetToken(a)
  BY DEF Next, Open, OpenEarly, LoginAnswer, Logout, Retry, Connect, LoseConnection, HideBoard, ShowBoard, Draw, Select, HandleChange,
     PublishScene, TakeSnapshot, Grant, GrantFails, SetError, IgnoreAnswer, ApplyScene,
     LosePacket, UploadBoardCrop, UploadFails, Uploaded, Restart, token
<1> QED
  BY <1>1, <1>2, <1>3, <1>4

LEMMA AgreeStep ==
    ASSUME TypeOK, RequestsMatch, CreatorsAgree, Next
    PROVE  CreatorsAgree'
<1>0. life \in Nat /\ creator \in Identities \cup {None}
  BY Types
\* A name that was not there before is the creator's, in this life.
<1>1. ASSUME NEW x \in Identities \cup {None}, NEW n \in {life, life + 1},
             life' = n, creator' = x,
             n = life => creator = None \/ x = creator,
             \A c \in Identities, l \in Nat :
                 Named(c, l)' => Named(c, l) \/ (c = x /\ l = n /\ n = life)
      PROVE  CreatorsAgree'
  <2>1. ASSUME NEW c \in Identities, NEW l \in Nat, Named(c, l)'
        PROVE  l <= life' /\ (l = life' => c = creator')
    <3>1. CASE Named(c, l)
      <4>1. l <= life /\ (l = life => c = creator)
        BY <3>1 DEF CreatorsAgree
      <4> QED
        BY <1>0, <1>1, <2>1, <4>1, MeetingAssumption
    <3>2. CASE c = x /\ l = n /\ n = life
      BY <1>0, <1>1, <3>2
    <3> QED
      BY <1>1, <2>1, <3>1, <3>2
  <2>2. ASSUME NEW c \in Identities, NEW d \in Identities, NEW l \in Nat,
               Named(c, l)', Named(d, l)'
        PROVE  c = d
    <3>1. CASE l = life'
      BY <2>1, <2>2, <3>1
    <3>2. CASE l # life'
      BY <1>1, <2>2, <3>2 DEF CreatorsAgree
    <3> QED
      BY <3>1, <3>2
  <2> QED
    BY <2>1, <2>2 DEF CreatorsAgree
<1>2. ASSUME UNCHANGED <<life, creator>>,
             \A c \in Identities, l \in Nat : Named(c, l)' => Named(c, l)
      PROVE  CreatorsAgree'
  BY <1>0, <1>1, <1>2
<1>3. CASE /\ \A t \in Tabs : ticket'[t] = ticket[t] \/ ticket'[t] = None
           /\ answers' \subseteq answers /\ UNCHANGED <<life, creator>>
  BY <1>2, <1>3 DEF Named
<1>4. ASSUME NEW a \in answers, SetToken(a), a.tab \in Tabs, a.creator \in Identities,
             ticket'[a.tab] = [who |-> a.who, creator |-> a.creator, life |-> a.life],
             \A t \in Tabs \ {a.tab} : ticket'[t] = ticket[t]
      PROVE  CreatorsAgree'
  <2>1. /\ answers' \subseteq answers /\ UNCHANGED <<life, creator>>
        /\ ticket'[a.tab].creator = a.creator /\ ticket'[a.tab].life = a.life
    BY <1>4 DEF SetToken
  <2>2. ASSUME NEW c \in Identities, NEW l \in Nat, Named(c, l)' PROVE Named(c, l)
    <3>1. CASE \E b \in answers' : b.creator = c /\ b.life = l
      BY <2>1, <3>1 DEF Named
    <3>2. ASSUME NEW t \in Tabs, ticket'[t] # None, ticket'[t].creator = c, ticket'[t].life = l
          PROVE  Named(c, l)
      <4>1. CASE t = a.tab
        BY <2>1, <3>2, <4>1 DEF Named
      <4>2. CASE t # a.tab
        BY <1>4, <3>2, <4>2 DEF Named
      <4> QED
        BY <4>1, <4>2
    <3> QED
      BY <2>2, <3>1, <3>2 DEF Named
  <2> QED
    BY <1>2, <2>1, <2>2
<1>5. ASSUME NEW q \in asked, Grant(q) \/ GrantFails(q) PROVE CreatorsAgree'
  <2>1. \A id \in Served(q) : id \in Identities
    BY AnsweredType, MeetingAssumption
  <2>2. /\ creator' \in Identities \cup {None} /\ life' = life /\ ticket' = ticket
        /\ creator = None \/ creator' = creator
    BY <1>0, <1>5, <2>1 DEF Grant, GrantFails, CreatorWith, token
  <2>3. PICK id \in Served(q), c \in {None, creator'} :
           answers' = answers \cup {Answered(q, id, c)}
    BY <1>5 DEF Grant, GrantFails, Served
  <2>4. Answered(q, id, c).creator = c /\ Answered(q, id, c).life = life
    BY DEF Answered
  <2>5. \A d \in Identities, l \in Nat :
           Named(d, l)' => Named(d, l) \/ (d = creator' /\ l = life /\ life = life)
    BY <2>2, <2>3, <2>4, MeetingAssumption DEF Named
  <2> QED
    BY <1>0, <1>1, <2>2, <2>5
<1>6. ASSUME Restart PROVE CreatorsAgree'
  <2>1. /\ life' = life + 1 /\ creator' = None /\ ticket' = ticket
        /\ answers' = answers \cup {Answered(q, q.who, None) : q \in asked}
    BY <1>6 DEF Restart, token
  <2>2. \A q \in asked : Answered(q, q.who, None).creator = None
    BY DEF Answered
  <2>3. \A c \in Identities, l \in Nat : Named(c, l)' => Named(c, l)
    BY <2>1, <2>2, MeetingAssumption DEF Named
  <2>4. life + 1 # life
    BY <1>0
  <2> QED
    BY <1>0, <1>1, <2>1, <2>3, <2>4
<1>7. \/ answers' \subseteq answers /\ UNCHANGED <<life, creator>>
      \/ \E q \in asked : Grant(q) \/ GrantFails(q)
      \/ Restart
  BY DEF Next, Open, OpenEarly, LoginAnswer, Leave, Logout, Retry, FetchToken, SetToken,
     Connect, LoseConnection, HideBoard,
     ShowBoard, Draw, Select, HandleChange, PublishScene, TakeSnapshot, SetError,
     IgnoreAnswer, ApplyScene, LosePacket, UploadBoardCrop, UploadFails, Uploaded, backend
<1>8. ASSUME NEW a \in answers, SetToken(a)
      PROVE  answers' \subseteq answers /\ UNCHANGED <<life, creator>>
  BY <1>8 DEF SetToken
<1> QED
  BY <1>3, <1>4, <1>5, <1>6, <1>7, <1>8, TicketsStep

-----------------------------------------------------------------------------
(* The room *)

\* A tab whose board closes keeps nothing of it.
LEMMA Unmounted ==
    ASSUME TypeOK, NEW ts \in SUBSET Tabs, Unmount(ts)
    PROVE  /\ \A t \in ts : scene'[t] = Blank /\ t \notin sending' /\ t \notin snapping'
           /\ \A t \in Tabs \ ts : scene'[t] = scene[t]
           /\ sending' \subseteq sending /\ snapping' \subseteq snapping
BY Types DEF Unmount

\* Tabs keep their board and token, or lose the board and all on it.
LEMMA BoardsClose ==
    ASSUME TypeOK, RoomInv, NEW ts \in SUBSET Tabs,
           board' \subseteq board, net' \subseteq net,
           sending' \subseteq sending, snapping' \subseteq snapping,
           \A t \in ts : /\ t \notin board' /\ scene'[t] = Blank
                         /\ t \notin sending' /\ t \notin snapping',
           \A t \in Tabs \ ts : /\ scene'[t] = scene[t]
                                /\ t \in board => t \in board'
                                /\ t \in board \/ scene[t] # Blank => ticket'[t] = ticket[t]
    PROVE  BlankOffBoard' /\ ScenesSigned' /\ CreatorsSceneOnly' /\ TimersOfDrawers'
<1>0. board \subseteq Tabs /\ sending \subseteq Tabs /\ snapping \subseteq Tabs
  BY Types
<1>1. BlankOffBoard'
  <2>1. Blank' = Blank
    BY DEF Blank
  <2> QED
    BY <2>1 DEF RoomInv, BlankOffBoard
<1>2. ScenesSigned'
  BY DEF RoomInv, ScenesSigned, Blank
<1>3. CreatorsSceneOnly'
  BY <1>0 DEF RoomInv, CreatorsSceneOnly, Blank
<1>4. TimersOfDrawers'
  BY <1>0 DEF RoomInv, TimersOfDrawers, CanEdit
<1> QED
  BY <1>1, <1>2, <1>3, <1>4

LEMMA RoomStep ==
    ASSUME TypeOK, RequestsMatch, RoomInv, Next
    PROVE  RoomInv'
<1>0. /\ connected \subseteq Tabs /\ dropped \subseteq Tabs /\ board \subseteq connected \cup dropped
      /\ sending \subseteq Tabs /\ snapping \subseteq Tabs
      /\ ticket \in [Tabs -> Ticket \cup {None}]
      /\ scene \in [Tabs -> Scenes]
      /\ net \subseteq [to : Tabs, from : Identities, scene : Scenes]
      /\ \A t \in connected \cup dropped : ticket[t] # None
  BY Types
<1>r. /\ \A t \in Tabs \ board : scene[t] = Blank
      /\ \A t \in Tabs : scene[t] # Blank => t \in board /\ scene[t].by = ticket[t].creator
      /\ \A t \in sending \cup snapping : t \in board /\ ticket[t].who = ticket[t].creator
      /\ \A p \in net : p.scene # Blank => p.scene.by = p.from
      /\ \A t, u \in connected : ticket[t].who = ticket[u].who => t = u
  BY <1>0 DEF RoomInv, BlankOffBoard, CreatorsSceneOnly, TimersOfDrawers, ScenesSigned,
     OneConnectionEach, CanEdit
<1>c. ASSUME connected' \subseteq connected, \A t \in connected' : ticket'[t] = ticket[t]
      PROVE  OneConnectionEach'
  BY <1>r, <1>c DEF OneConnectionEach
<1>1. ASSUME UNCHANGED <<place, scene, sending>>, net' \subseteq net,
             snapping' \subseteq snapping,
             \A t \in connected \cup dropped : ticket'[t] = ticket[t]
      PROVE  RoomInv'
  <2>1. OneConnectionEach'
    BY <1>c, <1>1 DEF place
  <2>2. \A t \in Tabs : t \in board \/ scene[t] # Blank => ticket'[t] = ticket[t]
    BY <1>0, <1>1, <1>r
  <2>3. {} \in SUBSET Tabs /\ board' = board /\ scene' = scene /\ sending' = sending
    BY <1>1 DEF place
  <2> QED
    BY <1>1, <2>1, <2>2, <2>3, BoardsClose DEF RoomInv
<1>2. ASSUME NEW ts \in SUBSET Tabs, CloseRooms(ts),
             \A t \in Tabs \ ts : ticket'[t] = ticket[t]
      PROVE  RoomInv'
  <2>1. /\ connected' = connected \ ts /\ board' = board \ ts /\ net' \subseteq net
        /\ Unmount(ts)
    BY <1>2 DEF CloseRooms
  <2>2. OneConnectionEach'
    BY <1>0, <1>c, <1>2, <2>1
  <2>3. /\ \A t \in ts : t \notin board' /\ scene'[t] = Blank
                         /\ t \notin sending' /\ t \notin snapping'
        /\ \A t \in Tabs \ ts : scene'[t] = scene[t]
        /\ sending' \subseteq sending /\ snapping' \subseteq snapping
    BY <2>1, Unmounted
  <2> QED
    BY <1>2, <2>1, <2>2, <2>3, BoardsClose DEF RoomInv
<1>3. ASSUME NEW t \in Tabs, Leave(t) PROVE RoomInv'
  <2>1. /\ {t} \in SUBSET Tabs /\ ClosePages({t}) /\ CloseRooms({t})
    BY <1>3 DEF Leave
  <2> QED
    BY <1>2, <2>1, PagesClosed
<1>4. ASSUME NEW t \in Tabs, FetchToken(t) PROVE RoomInv'
  <2>1. /\ {t} \in SUBSET Tabs /\ CloseRooms({t})
        /\ \A u \in Tabs \ {t} : ticket'[u] = ticket[u]
    BY <1>0, <1>4 DEF FetchToken
  <2> QED
    BY <1>2, <2>1
<1>5. ASSUME NEW a \in answers, SetToken(a) PROVE RoomInv'
  <2>1. /\ a.tab \in Tabs /\ ticket[a.tab] = None
        /\ \A t \in Tabs \ {a.tab} : ticket'[t] = ticket[t]
    BY <1>0, <1>5, AnswerType DEF SetToken, RequestsMatch
  <2>2. \A t \in connected \cup dropped : ticket'[t] = ticket[t]
    BY <1>0, <2>1
  <2> QED
    BY <1>1, <1>5, <2>2 DEF SetToken, room, drawing
<1>6. ASSUME NEW t \in Tabs, Connect(t) \/ LoseConnection(t) PROVE RoomInv'
  <2>1. PICK ts \in SUBSET connected, new \in SUBSET {t} :
           /\ connected' = (connected \ ts) \cup new /\ dropped' = dropped \cup ts
           /\ new = {} \/ /\ ticket[t] # None
                          /\ ts = {u \in connected : ticket[u].who = ticket[t].who}
           /\ board' = board \cup new /\ net' \subseteq net
           /\ UNCHANGED <<auth, token, backend, drawing, uploads, changes>>
           /\ UNCHANGED upsets \/ Upset
    BY <1>6, RoomChanges
  <2>u. UNCHANGED <<ticket, scene, sending, snapping>>
    BY <2>1 DEF token, drawing
  <2>2. OneConnectionEach'
    BY <1>r, <2>1, <2>u DEF OneConnectionEach
  <2>3. BlankOffBoard' /\ ScenesSigned' /\ CreatorsSceneOnly'
    BY <1>r, <2>1, <2>u DEF BlankOffBoard, ScenesSigned, CreatorsSceneOnly, Blank
  <2>4. TimersOfDrawers'
    BY <1>r, <2>1, <2>u DEF TimersOfDrawers, CanEdit
  <2> QED
    BY <2>2, <2>3, <2>4 DEF RoomInv
<1>7. ASSUME NEW t \in Tabs, HideBoard(t) PROVE RoomInv'
  <2>1. /\ {t} \in SUBSET Tabs /\ Unmount({t}) /\ board' = board \ {t} /\ connected' = connected
        /\ ticket' = ticket /\ net' = net
    BY <1>7 DEF HideBoard, token
  <2>2. /\ \A u \in {t} : u \notin board' /\ scene'[u] = Blank
                          /\ u \notin sending' /\ u \notin snapping'
        /\ \A u \in Tabs \ {t} : scene'[u] = scene[u]
        /\ sending' \subseteq sending /\ snapping' \subseteq snapping
    BY <2>1, Unmounted
  <2>3. OneConnectionEach'
    BY <1>c, <2>1
  <2> QED
    BY <2>1, <2>2, <2>3, BoardsClose DEF RoomInv
<1>8. ASSUME NEW t \in Tabs, ShowBoard(t) PROVE RoomInv'
  <2>1. /\ board' = board \cup {t}
        /\ UNCHANGED <<connected, ticket, scene, sending, snapping, net>>
    BY <1>8 DEF ShowBoard, token, drawing
  <2>2. OneConnectionEach'
    BY <1>c, <2>1
  <2>3. BlankOffBoard' /\ ScenesSigned' /\ CreatorsSceneOnly'
    BY <1>r, <2>1 DEF BlankOffBoard, ScenesSigned, CreatorsSceneOnly, Blank
  <2>4. TimersOfDrawers'
    BY <1>r, <2>1 DEF TimersOfDrawers, CanEdit
  <2> QED
    BY <2>2, <2>3, <2>4 DEF RoomInv
<1>9. ASSUME NEW t \in Tabs, Draw(t) \/ Select(t) PROVE RoomInv'
  <2>1. /\ t \in board /\ ticket[t].who = ticket[t].creator
        /\ sending' = sending \cup {t} /\ snapping' = snapping \cup {t}
        /\ UNCHANGED <<connected, board, ticket, net>>
    BY <1>9 DEF Draw, Select, HandleChange, CanEdit, token, place
  <2>2. /\ \A u \in Tabs \ {t} : scene'[u] = scene[u]
        /\ scene'[t] = scene[t] \/ scene'[t].by = ticket[t].who
    BY <1>0, <1>9 DEF Draw, Select
  <2>3. OneConnectionEach'
    BY <1>c, <2>1
  <2>4. BlankOffBoard' /\ ScenesSigned'
    BY <1>r, <2>1, <2>2 DEF BlankOffBoard, ScenesSigned, Blank
  <2>5. CreatorsSceneOnly'
    BY <1>r, <2>1, <2>2 DEF CreatorsSceneOnly, Blank
  <2>6. TimersOfDrawers'
    BY <1>r, <2>1 DEF TimersOfDrawers, CanEdit
  <2> QED
    BY <2>3, <2>4, <2>5, <2>6 DEF RoomInv
<1>10. ASSUME NEW t \in Tabs, PublishScene(t) PROVE RoomInv'
  <2>1. /\ t \in sending /\ sending' \subseteq sending
        /\ net' = net \cup {[to |-> u, from |-> ticket[t].who, scene |-> scene[t]] :
                              u \in IF t \in connected THEN connected \ {t} ELSE {}}
        /\ UNCHANGED <<connected, board, ticket, scene, snapping>>
    BY <1>10 DEF PublishScene, token, place
  <2>2. scene[t] # Blank => scene[t].by = ticket[t].who
    BY <1>0, <1>r, <2>1
  <2>3. ASSUME NEW p \in net', p.scene # Blank PROVE p.scene.by = p.from
    BY <1>r, <2>1, <2>2, <2>3
  <2>4. ScenesSigned' /\ OneConnectionEach'
    BY <1>c, <2>1, <2>3 DEF ScenesSigned, Blank
  <2>5. BlankOffBoard' /\ CreatorsSceneOnly'
    BY <1>r, <2>1 DEF BlankOffBoard, CreatorsSceneOnly, Blank
  <2>6. TimersOfDrawers'
    BY <1>r, <2>1 DEF TimersOfDrawers, CanEdit
  <2> QED
    BY <2>4, <2>5, <2>6 DEF RoomInv
<1>11. ASSUME NEW p \in net, ApplyScene(p) PROVE RoomInv'
  <2>1. /\ p.to \in Tabs /\ p.to \in board /\ p.from = ticket[p.to].creator
        /\ scene' = [scene EXCEPT ![p.to] = p.scene] /\ net' \subseteq net
        /\ UNCHANGED <<connected, board, ticket, sending, snapping>>
    BY <1>0, <1>11 DEF ApplyScene, token, place
  <2>2. scene'[p.to] # Blank => scene'[p.to].by = ticket[p.to].creator
    BY <1>0, <1>r, <2>1
  <2>3. \A u \in Tabs \ {p.to} : scene'[u] = scene[u]
    BY <1>0, <2>1
  <2>4. ScenesSigned' /\ OneConnectionEach'
    BY <1>c, <1>r, <2>1 DEF ScenesSigned, Blank
  <2>5. BlankOffBoard' /\ CreatorsSceneOnly'
    BY <1>r, <2>1, <2>2, <2>3 DEF BlankOffBoard, CreatorsSceneOnly, Blank
  <2>6. TimersOfDrawers'
    BY <1>r, <2>1 DEF TimersOfDrawers, CanEdit
  <2> QED
    BY <2>4, <2>5, <2>6 DEF RoomInv
<1>12. \/ /\ UNCHANGED <<place, scene, sending, ticket>>
          /\ net' \subseteq net /\ snapping' \subseteq snapping
       \/ \E t \in Tabs : \/ FetchToken(t) \/ Leave(t) \/ Connect(t) \/ LoseConnection(t)
                          \/ HideBoard(t) \/ ShowBoard(t) \/ Draw(t) \/ Select(t)
                          \/ PublishScene(t)
       \/ \E a \in answers : SetToken(a)
       \/ \E p \in net : ApplyScene(p)
  BY DEF Next, Open, OpenEarly, LoginAnswer, Logout, Retry, TakeSnapshot, Grant, GrantFails, SetError,
     IgnoreAnswer, LosePacket, UploadBoardCrop, UploadFails, Uploaded, Restart,
     token, room, drawing
<1> QED
  BY <1>1, <1>3, <1>4, <1>5, <1>6, <1>7, <1>8, <1>9, <1>10, <1>11, <1>12

\* Of the connected tabs of one life only one may draw: they agree on the creator,
\* and LiveKit lets the creator's identity in once.
LEMMA DrawersDiffer ==
    ASSUME TypeOK, RoomInv, CreatorsAgree
    PROVE  OneDrawer
<1>1. ASSUME NEW t \in connected, NEW u \in connected, CanEdit(t), CanEdit(u),
             ticket[t].life = ticket[u].life
      PROVE  t = u
  <2>1. /\ t \in Tabs /\ u \in Tabs
        /\ ticket[t] # None /\ ticket[u] # None
        /\ ticket[t] \in Ticket /\ ticket[u] \in Ticket
    BY <1>1, Types DEF CanEdit
  <2>2. /\ ticket[t].creator \in Identities /\ ticket[u].creator \in Identities
        /\ ticket[t].life \in Nat
    BY <2>1 DEF Ticket
  <2>3. /\ Named(ticket[t].creator, ticket[t].life)
        /\ Named(ticket[u].creator, ticket[t].life)
    BY <1>1, <2>1 DEF Named
  <2>4. ticket[t].creator = ticket[u].creator
    BY <2>2, <2>3 DEF CreatorsAgree
  <2> QED
    BY <1>1, <2>4 DEF CanEdit, RoomInv, OneConnectionEach
<1>2. \A t \in sending \cup snapping : CanEdit(t)
  BY DEF RoomInv, TimersOfDrawers
<1> QED
  BY <1>1, <1>2 DEF OneDrawer

-----------------------------------------------------------------------------
(* Theorems *)

LEMMA InvInit == Init => Inv
<1> SUFFICES ASSUME Init PROVE Inv
  OBVIOUS
<1>0. {MaxRuns, MaxChanges, MaxEvents, MaxUpsets} \subseteq Nat
  BY MeetingAssumption
<1>1. IsFiniteSet({}) /\ Cardinality({}) = 0
  BY FS_EmptySet
<1>2. Blank \in Scenes
  BY <1>0 DEF Blank, Scenes
<1>3. TypeOK
  BY <1>0, <1>2 DEF Init, TypeOK
<1>4. DueFits
  BY <1>0, <1>1 DEF Init, DueFits
<1>5. RequestsMatch /\ OneAnswerEach /\ RoomInv
  BY DEF Init, RequestsMatch, OneAnswerEach, RoomInv, BlankOffBoard, ScenesSigned,
     OneConnectionEach, CreatorsSceneOnly, TimersOfDrawers
<1>6. CreatorsAgree /\ PresentIdentity
  BY DEF Init, CreatorsAgree, Named, PresentIdentity
<1> QED
  BY <1>3, <1>4, <1>5, <1>6 DEF Inv

LEMMA InvStep == Inv /\ [Next]_vars => Inv'
<1> SUFFICES ASSUME Inv, [Next]_vars PROVE Inv'
  OBVIOUS
<1>1. CASE Next
  <2>1. TypeOK /\ DueFits /\ RequestsMatch /\ OneAnswerEach /\ RoomInv /\ CreatorsAgree
        /\ PresentIdentity /\ OneDrawer
    BY DrawersDiffer DEF Inv
  <2> QED
    BY <1>1, <2>1, TypesStep, DueStep, RequestsStep, RoomStep, AgreeStep, PresentStep DEF Inv
<1>2. CASE UNCHANGED vars
  <2>1. UNCHANGED <<auth, due, runs, current, error, ticket, asked, answers, creator, life,
                    connected, dropped, board, scene, sending, snapping, unsent, unseen, net,
                    uploads, changes, upsets>>
    BY <1>2 DEF vars, token, backend, room, place, drawing, bounds
  <2>2. \A t : Visitors(t)' = Visitors(t)
    BY <2>1 DEF Visitors, Identity, Bearer
  <2>3. \A q : Fits(q)' = Fits(q)
    BY <2>1, <2>2 DEF Fits, Served
  <2>4. RequestsMatch' /\ PresentIdentity' /\ OneAnswerEach' /\ DueFits'
    BY <2>1, <2>2, <2>3 DEF Inv, RequestsMatch, PresentIdentity, OneAnswerEach, DueFits
  <2>5. TypeOK' /\ CreatorsAgree'
    BY <2>1 DEF Inv, TypeOK, CreatorsAgree, Named
  <2>6. RoomInv'
    BY <2>1 DEF Inv, RoomInv, BlankOffBoard, ScenesSigned, OneConnectionEach,
       CreatorsSceneOnly, TimersOfDrawers, CanEdit, Blank
  <2> QED
    BY <2>4, <2>5, <2>6 DEF Inv
<1> QED
  BY <1>1, <1>2

LEMMA Invariance == Spec => []Inv
<1> QED
  BY InvInit, InvStep, PTL DEF Spec

\* Pages, requests, boards and pictures have their types, and whoever shows the
\* room has a token.
THEOREM TypeCorrect == Spec => []TypeOK
<1>1. Inv => TypeOK
  BY DEF Inv
<1> QED
  BY <1>1, Invariance, PTL

\* However late answers come and however often the visitor changes, once the
\* page's effect has run a token names the visitor: the identity the page has, or
\* the user of an access token whose /me has not answered.
THEOREM TokenIsTheVisitors == Spec => []PresentIdentity
<1>1. Inv => PresentIdentity
  BY DEF Inv
<1> QED
  BY <1>1, Invariance, PTL

\* A board shows what its creator drew and nothing else, whatever the channel
\* loses or reorders.
THEOREM BoardsShowTheCreator == Spec => []CreatorsSceneOnly
<1>1. Inv => CreatorsSceneOnly
  BY DEF Inv, RoomInv
<1> QED
  BY <1>1, Invariance, PTL

\* No timer of the board outlives the right to draw, and of the tabs in the room
\* with tokens of one life of the backend at most one has that right.
THEOREM OnlyOneDraws == Spec => []OneDrawer
<1>1. Inv => OneDrawer
  BY DrawersDiffer DEF Inv
<1> QED
  BY <1>1, Invariance, PTL

=============================================================================
