----------------------- MODULE ConferenceAccessProofs -----------------------
(* Theorems about ConferenceAccess, for any rooms, identities and requests. *)
EXTENDS ConferenceAccess, TLAPS

\* Every step is one of these actions.
LEMMA Steps ==
    ASSUME [Next]_vars
    PROVE  \/ \E p \in Requests :
                 \/ Arrive(p) \/ FindConference(p) \/ MissConference(p)
                 \/ InsertConference(p) \/ ConferenceConflict(p)
                 \/ FindChat(p) \/ MissChat(p) \/ InsertChat(p) \/ ChatConflict(p)
                 \/ Record(p) \/ ListRooms(p) \/ ListFails(p)
                 \/ AssignCreator(p) \/ FindMember(p) \/ MissMember(p)
                 \/ InsertMember(p) \/ MemberConflict(p) \/ CreateRoom(p)
                 \/ CallFails(p)
           \/ \E t \in tokens : Connect(t)
           \/ \E r \in Rooms : CloseRoom(r)
           \/ Restart
           \/ UNCHANGED vars
BY DEF Next, Proceed

-----------------------------------------------------------------------------
(* Type correctness *)

\* A request goes on at one of the places of the model.
LEMMA WithConferenceType ==
    ASSUME NEW p \in Requests
    PROVE  WithConference(p) \in Waiting \ {"find", "create", "refind"}
BY RequestsAssumption DEF WithConference, Waiting, Kinds

\* Moving a request to a place keeps the type of pc.
LEMMA GotoType ==
    ASSUME Types, NEW p \in Requests, NEW place \in Waiting \cup Settled, Goto(p, place)
    PROVE  pc' \in [Requests -> {"idle"} \cup Waiting \cup Settled]
BY DEF Types, Goto

\* A request is prepared for its new place if it has what that place needs.
LEMMA GotoPrepared ==
    ASSUME Types, Prepared, NEW p \in Requests, NEW place, Goto(p, place),
           place \in Waiting \ {"find", "create", "refind"} => conf'[p] # None,
           place \in Joining => told'[p] # Nobody,
           \A q \in Requests : q # p => conf'[q] = conf[q] /\ told'[q] = told[q]
    PROVE  Prepared'
<1>1. pc'[p] = place /\ \A q \in Requests : q # p => pc'[q] = pc[q]
  BY DEF Types, Goto
<1> QED
  BY <1>1 DEF Prepared, Joining

\* A failed call is counted and belongs to a request.
LEMMA FaultType ==
    ASSUME Types, NEW p \in Requests, Fault(p)
    PROVE  faults' \in Nat /\ faulty' \subseteq Requests
<1>1. faults \in Nat /\ faulty \subseteq Requests
  BY DEF Types
<1> QED
  BY <1>1 DEF Fault

\* Nothing has happened.
LEMMA InitType == Init => TypeOK
<1> SUFFICES ASSUME Init PROVE TypeOK
  OBVIOUS
<1>1. Types
  BY DEF Init, Types, None, Nobody
<1>2. Prepared
  BY DEF Init, Prepared, Waiting, Joining
<1> QED
  BY <1>1, <1>2 DEF TypeOK

\* Every step keeps the types.
LEMMA TypeStep == TypeOK /\ [Next]_vars => TypeOK'
<1> SUFFICES ASSUME Types, Prepared, [Next]_vars PROVE Types' /\ Prepared'
  BY DEF TypeOK
<1> USE DEF rows, NoFault
<1>1. ASSUME NEW p \in Requests, Arrive(p) PROVE Types' /\ Prepared'
  <2>1. "find" \in Waiting
    BY DEF Waiting
  <2>20. Types'
    BY <1>1, <2>1, GotoType DEF Arrive, Types
  <2>21. Prepared'
    BY <1>1, <2>1, GotoPrepared DEF Arrive, Types, Prepared, Joining
  <2> QED
    BY <2>20, <2>21
<1>2. ASSUME NEW p \in Requests, FindConference(p) PROVE Types' /\ Prepared'
  <2>1. PICK c \in ConferencesOf(p) : conf' = [conf EXCEPT ![p] = c.id]
    BY <1>2 DEF FindConference
  <2>2. c.id \in Requests /\ c.id # None
    BY <2>1, NobodyAssumption DEF ConferencesOf, Types, Conference, None
  <2>3. WithConference(p) \in Waiting
    BY WithConferenceType
  <2>4. Goto(p, WithConference(p))
    BY <1>2 DEF FindConference
  <2>20. Types'
    BY <1>2, <2>1, <2>2, <2>3, <2>4, GotoType DEF FindConference, Types
  <2>5. WithConference(p) \notin Joining
    BY RequestsAssumption DEF WithConference, Kinds, Joining
  <2>6. conf'[p] # None /\ \A q \in Requests : q # p => conf'[q] = conf[q]
    BY <2>1, <2>2 DEF Types
  <2>7. told' = told
    BY <1>2 DEF FindConference
  <2>21. Prepared'
    BY <2>4, <2>5, <2>6, <2>7, GotoPrepared
  <2> QED
    BY <2>20, <2>21
<1>3. ASSUME NEW p \in Requests, MissConference(p) PROVE Types' /\ Prepared'
  <2> DEFINE place == IF pc[p] = "find" THEN "create" ELSE "failed"
  <2>1. place \in {"create", "failed"} /\ place \in Waiting \cup Settled
    BY DEF Waiting, Settled
  <2>2. Goto(p, place)
    BY <1>3 DEF MissConference
  <2>3. "failed" \notin Waiting
    BY DEF Waiting
  <2>20. Types'
    BY <1>3, <2>1, <2>2, <2>3, GotoType DEF MissConference, Types
  <2>21. Prepared'
    BY <1>3, <2>1, <2>2, <2>3, GotoPrepared DEF MissConference, Types, Prepared, Joining
  <2> QED
    BY <2>20, <2>21
<1>4. ASSUME NEW p \in Requests, InsertConference(p) PROVE Types' /\ Prepared'
  <2>1. WithConference(p) \in Waiting
    BY WithConferenceType
  <2>2. [id |-> p, room |-> RoomOf[p]] \in Conference
    BY RequestsAssumption DEF Conference
  <2>3. p # None
    BY NobodyAssumption DEF None
  <2>4. Goto(p, WithConference(p))
    BY <1>4 DEF InsertConference
  <2>20. Types'
    BY <1>4, <2>1, <2>2, <2>3, <2>4, GotoType DEF InsertConference, Types
  <2>5. WithConference(p) \notin Joining
    BY RequestsAssumption DEF WithConference, Kinds, Joining
  <2>6. conf'[p] # None /\ \A q \in Requests : q # p => conf'[q] = conf[q]
    BY <1>4, <2>3 DEF InsertConference, Types
  <2>7. told' = told
    BY <1>4 DEF InsertConference
  <2>21. Prepared'
    BY <2>4, <2>5, <2>6, <2>7, GotoPrepared
  <2> QED
    BY <2>20, <2>21
<1>5. ASSUME NEW p \in Requests, ConferenceConflict(p) PROVE Types' /\ Prepared'
  <2>1. "refind" \in Waiting
    BY DEF Waiting
  <2>20. Types'
    BY <1>5, <2>1, GotoType DEF ConferenceConflict, Types
  <2>21. Prepared'
    BY <1>5, <2>1, GotoPrepared DEF ConferenceConflict, Types, Prepared, Joining
  <2> QED
    BY <2>20, <2>21
<1>6. ASSUME NEW p \in Requests, FindChat(p) PROVE Types' /\ Prepared'
  <2>1. PICK c \in ChatsOf(p) : chat' = [chat EXCEPT ![p] = c.id]
    BY <1>6 DEF FindChat
  <2>2. c.id \in Requests
    BY <2>1 DEF ChatsOf, Types, Chat
  <2>3. "insert" \in Waiting /\ pc[p] \in Waiting \ {"find", "create", "refind"}
    BY <1>6 DEF FindChat, Waiting
  <2>4. Goto(p, "insert")
    BY <1>6 DEF FindChat
  <2>20. Types'
    BY <1>6, <2>1, <2>2, <2>3, <2>4, GotoType DEF FindChat, Types
  <2>21. Prepared'
    BY <1>6, <2>1, <2>2, <2>3, <2>4, GotoPrepared DEF FindChat, Types, Prepared, Joining
  <2> QED
    BY <2>20, <2>21
<1>7. ASSUME NEW p \in Requests, MissChat(p) PROVE Types' /\ Prepared'
  <2> DEFINE place == IF pc[p] = "findChat" THEN "createChat" ELSE "failed"
  <2>1. place \in Waiting \cup Settled
    BY DEF Waiting, Settled
  <2>2. Goto(p, place)
    BY <1>7 DEF MissChat
  <2>3. pc[p] \in Waiting \ {"find", "create", "refind"}
    BY <1>7 DEF MissChat, Waiting
  <2>20. Types'
    BY <1>7, <2>1, <2>2, <2>3, GotoType DEF MissChat, Types
  <2>21. Prepared'
    BY <1>7, <2>1, <2>2, <2>3, GotoPrepared DEF MissChat, Types, Prepared, Joining
  <2> QED
    BY <2>20, <2>21
<1>8. ASSUME NEW p \in Requests, InsertChat(p) PROVE Types' /\ Prepared'
  <2>1. /\ "insert" \in Waiting
        /\ pc[p] \in Waiting \ {"find", "create", "refind"}
    BY <1>8 DEF InsertChat, Waiting
  <2>2. conf[p] \in Requests
    BY <2>1 DEF Types, Prepared
  <2>3. [id |-> p, conf |-> conf[p]] \in Chat
    BY <2>2 DEF Chat
  <2>4. Goto(p, "insert")
    BY <1>8 DEF InsertChat
  <2>20. Types'
    BY <1>8, <2>1, <2>3, <2>4, GotoType DEF InsertChat, Types
  <2>21. Prepared'
    BY <1>8, <2>1, <2>3, <2>4, GotoPrepared DEF InsertChat, Types, Prepared, Joining
  <2> QED
    BY <2>20, <2>21
<1>9. ASSUME NEW p \in Requests, ChatConflict(p) PROVE Types' /\ Prepared'
  <2>1. "refindChat" \in Waiting /\ pc[p] \in Waiting \ {"find", "create", "refind"}
    BY <1>9 DEF ChatConflict, Waiting
  <2>20. Types'
    BY <1>9, <2>1, GotoType DEF ChatConflict, Types
  <2>21. Prepared'
    BY <1>9, <2>1, GotoPrepared DEF ChatConflict, Types, Prepared, Joining
  <2> QED
    BY <2>20, <2>21
<1>10. ASSUME NEW p \in Requests, Record(p) PROVE Types' /\ Prepared'
  <2>1. /\ "done" \in Settled /\ "done" \notin Waiting
        /\ pc[p] \in Waiting \ {"find", "create", "refind"}
    BY <1>10 DEF Record, Waiting, Settled
  <2>2. conf[p] \in Requests /\ chat[p] \in Requests \cup {None}
    BY <2>1 DEF Types, Prepared
  <2>3. [req |-> p, conf |-> conf[p], chat |-> chat[p]]
          \in [req : Requests, conf : Requests, chat : Requests \cup {None}]
    BY <2>2
  <2>4. Goto(p, "done")
    BY <1>10 DEF Record
  <2>20. Types'
    BY <1>10, <2>1, <2>3, <2>4, GotoType DEF Record, Types
  <2>21. Prepared'
    BY <1>10, <2>1, <2>2, GotoPrepared DEF Record, Types, Prepared, Joining
  <2> QED
    BY <2>20, <2>21
<1>11. ASSUME NEW p \in Requests, ListRooms(p) \/ ListFails(p) PROVE Types' /\ Prepared'
  <2>1. "listed" \in Waiting /\ pc[p] \in Waiting \ {"find", "create", "refind"}
    BY <1>11 DEF ListRooms, ListFails, Waiting
  <2>2. Goto(p, "listed")
    BY <1>11 DEF ListRooms, ListFails
  <2>3. seen' \in [Requests -> BOOLEAN]
    BY <1>11 DEF ListRooms, ListFails, Types
  <2>4. faults' \in Nat /\ faulty' \subseteq Requests
    BY <1>11, FaultType DEF ListRooms, ListFails, Types
  <2>5. UNCHANGED <<rows, conf, chat, told, creators, tokens, live, ended, restarts>>
    BY <1>11 DEF ListRooms, ListFails
  <2>20. Types'
    BY <2>1, <2>2, <2>3, <2>4, <2>5, GotoType DEF Types
  <2>21. Prepared'
    BY <2>1, <2>2, <2>3, <2>4, <2>5, GotoPrepared DEF Types, Prepared, Joining
  <2> QED
    BY <2>20, <2>21
<1>12. ASSUME NEW p \in Requests, AssignCreator(p) PROVE Types' /\ Prepared'
  <2> DEFINE r == RoomOf[p]
             creator == IF creators[r] = Nobody THEN Caller[p] ELSE creators[r]
             place == IF p \in SignedIn THEN "member" ELSE "done"
  <2>1. r \in Rooms /\ creator \in Identities
    BY RequestsAssumption DEF Types
  <2>2. place \in Waiting \cup Settled /\ pc[p] \in Waiting \ {"find", "create", "refind"}
    BY <1>12 DEF AssignCreator, Waiting, Settled
  <2>3. Goto(p, place)
    BY <1>12 DEF AssignCreator
  <2>4. creators' \in [Rooms -> Identities \cup {Nobody}]
        /\ told' \in [Requests -> Identities \cup {Nobody}]
    BY <1>12, <2>1 DEF AssignCreator, Types
  <2>5. [req |-> p, creator |-> creator, agent |-> ~seen[p], epoch |-> restarts] \in Token
    BY <2>1 DEF Types, Token
  <2>6. tokens' \subseteq Token
    BY <1>12, <2>5 DEF AssignCreator, Types, Issue
  <2>8. told'[p] # Nobody /\ \A q \in Requests : q # p => told'[q] = told[q]
    BY <1>12, <2>1, NobodyAssumption DEF AssignCreator, Types, Nobody
  <2>7. UNCHANGED <<rows, conf, chat, seen, live, ended, restarts, faults, faulty>>
    BY <1>12 DEF AssignCreator
  <2> HIDE DEF place
  <2>20. Types'
    BY <2>2, <2>3, <2>4, <2>6, <2>7, <2>8, GotoType DEF Types
  <2>21. Prepared'
    BY <2>2, <2>3, <2>4, <2>6, <2>7, <2>8, GotoPrepared DEF Types, Prepared, Joining
  <2> QED
    BY <2>20, <2>21
<1>13. ASSUME NEW p \in Requests, FindMember(p) \/ InsertMember(p) PROVE Types' /\ Prepared'
  <2>1. /\ "done" \in Settled
        /\ pc[p] \in Joining /\ pc[p] \in Waiting \ {"find", "create", "refind"}
        /\ Issue(p, told[p]) /\ Goto(p, "done")
        /\ UNCHANGED <<conferences, chats, records, conf, chat, seen, told, creators,
                       live, ended, restarts, faults, faulty>>
    BY <1>13 DEF FindMember, InsertMember, Waiting, Joining, Settled
  <2>2. members' \subseteq Member
    <3>1. \A c \in ConferencesOf(p), role \in {"host", "participant"} :
            [id |-> p, user |-> Caller[p], conf |-> c.id, role |-> role] \in Member
      BY RequestsAssumption DEF ConferencesOf, Types, Conference, Member
    <3> QED
      BY <1>13, <3>1 DEF FindMember, InsertMember, Types
  <2>3. told[p] \in Identities
    BY <2>1 DEF Types, Prepared
  <2>4. [req |-> p, creator |-> told[p], agent |-> ~seen[p], epoch |-> restarts] \in Token
    BY <2>3 DEF Types, Token
  <2>5. tokens' \subseteq Token
    BY <2>1, <2>4 DEF Types, Issue
  <2>20. Types'
    BY <2>1, <2>2, <2>5, GotoType DEF Types
  <2>6. "done" \notin Waiting /\ "done" \notin Joining
    BY DEF Waiting, Joining
  <2>21. Prepared'
    BY <2>1, <2>6, GotoPrepared
  <2> QED
    BY <2>20, <2>21
<1>20. ASSUME NEW p \in Requests, MissMember(p) \/ MemberConflict(p)
       PROVE  Types' /\ Prepared'
  <2> DEFINE place == IF pc[p] = "member" THEN "createMember" ELSE "failed"
  <2>1. /\ place \in Waiting \cup Settled
        /\ pc[p] \in Joining /\ pc[p] \in Waiting \ {"find", "create", "refind"}
        /\ Goto(p, place)
        /\ UNCHANGED <<rows, conf, chat, seen, told, creators, tokens,
                       live, ended, restarts, faults, faulty>>
    BY <1>20 DEF MissMember, MemberConflict, Waiting, Joining, Settled
  <2> HIDE DEF place
  <2>20. Types'
    BY <2>1, GotoType DEF Types
  <2>2. conf[p] # None /\ told[p] # Nobody
    BY <2>1 DEF Prepared
  <2>21. Prepared'
    BY <2>1, <2>2, GotoPrepared
  <2> QED
    BY <2>20, <2>21
<1>14. ASSUME NEW p \in Requests, CreateRoom(p) PROVE Types' /\ Prepared'
  <2>1. "done" \in Settled /\ "done" \notin Waiting /\ "done" \notin Joining
    BY DEF Waiting, Settled, Joining
  <2>2. RoomOf[p] \in Rooms
    BY RequestsAssumption
  <2>3. live' \in [Rooms -> {"no", "with agent", "without agent"}]
    BY <1>14, <2>2 DEF CreateRoom, OpenRoom, Types
  <2>20. Types'
    BY <1>14, <2>1, <2>3, GotoType DEF CreateRoom, Types
  <2>21. Prepared'
    BY <1>14, <2>1, <2>3, GotoPrepared DEF CreateRoom, Types, Prepared, Joining
  <2> QED
    BY <2>20, <2>21
<1>15. ASSUME NEW p \in Requests, CallFails(p) PROVE Types' /\ Prepared'
  <2>1. "failed" \in Settled /\ "failed" \notin Waiting /\ "failed" \notin Joining
    BY DEF Waiting, Settled, Joining
  <2>2. faults' \in Nat /\ faulty' \subseteq Requests
    BY <1>15, FaultType DEF CallFails
  <2>3. Goto(p, "failed")
    BY <1>15 DEF CallFails
  <2>20. Types'
    BY <1>15, <2>1, <2>2, <2>3, GotoType DEF CallFails, Types
  <2>21. Prepared'
    BY <1>15, <2>1, <2>2, <2>3, GotoPrepared DEF CallFails, Types, Prepared, Joining
  <2> QED
    BY <2>20, <2>21
<1>16. ASSUME NEW t \in tokens, Connect(t) PROVE Types' /\ Prepared'
  <2>1. RoomOf[t.req] \in Rooms
    BY RequestsAssumption DEF Types, Token
  <2>2. live' \in [Rooms -> {"no", "with agent", "without agent"}]
    BY <1>16, <2>1 DEF Connect, OpenRoom, Types
  <2>20. Types'
    BY <1>16, <2>2, GotoType DEF Connect, Types
  <2>21. Prepared'
    BY <1>16, <2>2, GotoPrepared DEF Connect, Types, Prepared, Joining
  <2> QED
    BY <2>20, <2>21
<1>17. ASSUME NEW r \in Rooms, CloseRoom(r) PROVE Types' /\ Prepared'
  BY <1>17 DEF CloseRoom, Types, Prepared
<1>18. CASE Restart
  <2>1. "lost" \in Settled /\ "lost" \notin Waiting /\ "lost" \notin Joining
    BY DEF Waiting, Settled, Joining
  <2>2. pc' \in [Requests -> {"idle"} \cup Waiting \cup Settled]
    BY <1>18, <2>1 DEF Restart, Types
  <2>3. \A p \in Requests : pc'[p] \notin Waiting
    BY <1>18, <2>1 DEF Restart
  <2>4. creators' \in [Rooms -> Identities \cup {Nobody}] /\ restarts' \in Nat
    <3>1. restarts \in Nat
      BY DEF Types
    <3>2. restarts' \in Nat
      BY <1>18, <3>1 DEF Restart
    <3> QED
      BY <1>18, <3>2 DEF Restart
  <2>5. Joining \subseteq Waiting
    BY DEF Joining, Waiting
  <2>20. Types'
    BY <1>18, <2>2, <2>3, <2>4, <2>5, GotoType DEF Restart, Types
  <2>21. Prepared'
    BY <1>18, <2>2, <2>3, <2>4, <2>5, GotoPrepared DEF Restart, Types, Prepared, Joining
  <2> QED
    BY <2>20, <2>21
<1>19. CASE UNCHANGED vars
  BY <1>19 DEF vars, Types, Prepared
<1> QED
  BY <1>1, <1>2, <1>3, <1>4, <1>5, <1>6, <1>7, <1>8, <1>9, <1>10, <1>11, <1>12,
     <1>13, <1>14, <1>15, <1>16, <1>17, <1>18, <1>19, <1>20, Steps

\* The rows, the tokens and the memory of the backend keep their types, and a
\* request past the lookup holds a conference.
THEOREM TypeCorrect == Spec => []TypeOK
<1>1. Init => TypeOK
  BY InitType
<1>2. TypeOK /\ [Next]_vars => TypeOK'
  BY TypeStep
<1> QED
  BY <1>1, <1>2, PTL DEF Spec

-----------------------------------------------------------------------------
(* What is recorded for a room is found together *)

\* A room has one conference, a conference one chat, and what a request has
\* obtained are rows of its room; a recorded row names what its request
\* obtained, which no longer changes.  HistoryTogether is about rows already
\* recorded only and is not inductive without the requests under way.
OneRowEach ==
    /\ \A c, d \in conferences : c.room = d.room => c = d
    /\ \A c, d \in chats : c.conf = d.conf => c = d

Obtained ==
    \A p \in Requests :
        /\ conf[p] # None => [id |-> conf[p], room |-> RoomOf[p]] \in conferences
        /\ chat[p] # None => [id |-> chat[p], conf |-> conf[p]] \in chats
        /\ pc[p] = "insert" /\ Kind[p] = "chat" => chat[p] # None
        /\ pc[p] \in {"idle", "find", "create", "refind"} =>
              conf[p] = None /\ chat[p] = None

RecordsObtained ==
    \A x \in records :
        /\ pc[x.req] = "done"
        /\ x.conf = conf[x.req] /\ x.chat = chat[x.req]
        /\ x.conf # None
        /\ Kind[x.req] = "chat" => x.chat # None

Placed == OneRowEach /\ Obtained /\ RecordsObtained

\* An action that leaves these rows alone and moves a request between places
\* where it holds its rows already keeps the placement.
LEMMA MoveKeepsPlaced ==
    ASSUME Types, Placed, NEW p \in Requests, NEW place, Goto(p, place),
           UNCHANGED <<conferences, chats, records, conf, chat>>,
           pc[p] # "done",
           place = "insert" /\ Kind[p] = "chat" => chat[p] # None,
           place \in {"idle", "find", "create", "refind"} =>
               pc[p] \in {"idle", "find", "create", "refind"}
    PROVE  Placed'
<1>1. pc'[p] = place /\ \A q \in Requests : q # p => pc'[q] = pc[q]
  BY DEF Types, Goto
<1>2. OneRowEach'
  BY DEF Placed, OneRowEach
<1>3. Obtained'
  BY <1>1 DEF Placed, Obtained
<1>4. RecordsObtained'
  BY <1>1 DEF Placed, RecordsObtained, Types
<1> QED
  BY <1>2, <1>3, <1>4 DEF Placed

\* Every step keeps the placement.
LEMMA PlacedStep == TypeOK /\ Placed /\ [Next]_vars => Placed'
<1> SUFFICES ASSUME Types, Prepared, Placed, [Next]_vars PROVE Placed'
  BY DEF TypeOK
<1> USE DEF rows, NoFault
<1>1. ASSUME NEW p \in Requests,
             Arrive(p) \/ MissConference(p) \/ ConferenceConflict(p)
      PROVE  Placed'
  <2>1. PICK place \in {"find", "create", "failed", "refind"} : Goto(p, place)
    BY <1>1 DEF Arrive, MissConference, ConferenceConflict
  <2>2. pc[p] \in {"idle", "find", "create", "refind"}
    BY <1>1 DEF Arrive, MissConference, ConferenceConflict
  <2>3. UNCHANGED <<conferences, chats, records, conf, chat>>
    BY <1>1 DEF Arrive, MissConference, ConferenceConflict
  <2> QED
    BY <2>1, <2>2, <2>3, MoveKeepsPlaced
<1>2. ASSUME NEW p \in Requests,
             MissChat(p) \/ ChatConflict(p) \/ ListRooms(p) \/ ListFails(p)
             \/ AssignCreator(p) \/ FindMember(p) \/ MissMember(p) \/ InsertMember(p)
             \/ MemberConflict(p) \/ CreateRoom(p) \/ CallFails(p)
      PROVE  Placed'
  <2>1. PICK place \in {"createChat", "failed", "refindChat", "listed", "member", "createMember",
                     "done"} :
          Goto(p, place)
    BY <1>2 DEF MissChat, ChatConflict, ListRooms, ListFails, AssignCreator,
                FindMember, MissMember, InsertMember, MemberConflict, CreateRoom,
                CallFails
  <2>2. pc[p] \in Waiting
    BY <1>2 DEF MissChat, ChatConflict, ListRooms, ListFails, AssignCreator,
                FindMember, MissMember, InsertMember, MemberConflict, CreateRoom,
                CallFails, Waiting
  <2>3. UNCHANGED <<conferences, chats, records, conf, chat>>
    BY <1>2 DEF MissChat, ChatConflict, ListRooms, ListFails, AssignCreator,
                FindMember, MissMember, InsertMember, MemberConflict, CreateRoom,
                CallFails
  <2>4. pc[p] # "done"
    BY <2>2 DEF Waiting
  <2> QED
    BY <2>1, <2>3, <2>4, MoveKeepsPlaced
<1>3. ASSUME NEW p \in Requests, FindConference(p) \/ InsertConference(p) PROVE Placed'
  <2> DEFINE place == WithConference(p)
  <2>1. Goto(p, place) /\ place \notin {"idle", "find", "create", "refind"}
        /\ (Kind[p] = "chat" => place # "insert")
    BY <1>3, RequestsAssumption
       DEF FindConference, InsertConference, WithConference, Kinds
  <2>2. /\ pc'[p] = place /\ \A q \in Requests : q # p => pc'[q] = pc[q]
        /\ pc[p] \in {"find", "create", "refind"}
    BY <1>3, <2>1 DEF FindConference, InsertConference, Types, Goto
  <2>3. chat[p] = None /\ UNCHANGED <<chats, records, chat>>
    BY <1>3, <2>2 DEF FindConference, InsertConference, Placed, Obtained
  <2>4. /\ \A q \in Requests : q # p => conf'[q] = conf[q]
        /\ [id |-> conf'[p], room |-> RoomOf[p]] \in conferences'
        /\ conferences \subseteq conferences'
        /\ \A c, d \in conferences' : c.room = d.room => c = d
    <3>1. CASE FindConference(p)
      <4>1. PICK c \in ConferencesOf(p) : conf' = [conf EXCEPT ![p] = c.id]
        BY <3>1 DEF FindConference
      <4>2. c = [id |-> c.id, room |-> RoomOf[p]] /\ c \in conferences
        BY <4>1 DEF ConferencesOf, Types, Conference
      <4> QED
        BY <3>1, <4>1, <4>2 DEF FindConference, Types, Placed, OneRowEach
    <3>2. CASE InsertConference(p)
      <4> DEFINE new == [id |-> p, room |-> RoomOf[p]]
      <4>1. conferences' = conferences \cup {new} /\ conf' = [conf EXCEPT ![p] = p]
        BY <3>2 DEF InsertConference
      <4>2. \A c \in conferences : c.room # RoomOf[p]
        BY <3>2 DEF InsertConference, ConferencesOf
      <4>3. \A c, d \in conferences' : c.room = d.room => c = d
        BY <4>1, <4>2 DEF Placed, OneRowEach
      <4>4. conf'[p] = p /\ \A q \in Requests : q # p => conf'[q] = conf[q]
        BY <4>1 DEF Types
      <4> QED
        BY <4>1, <4>3, <4>4
    <3> QED
      BY <1>3, <3>1, <3>2
  <2>5. OneRowEach'
    BY <2>3, <2>4 DEF Placed, OneRowEach
  <2>6. Obtained'
    BY <2>1, <2>2, <2>3, <2>4 DEF Placed, Obtained
  <2>7. RecordsObtained'
    BY <2>2, <2>3, <2>4 DEF Placed, RecordsObtained, Types
  <2> QED
    BY <2>5, <2>6, <2>7 DEF Placed
<1>4. ASSUME NEW p \in Requests, FindChat(p) \/ InsertChat(p) PROVE Placed'
  <2>1. Goto(p, "insert") /\ pc[p] \in {"findChat", "refindChat", "createChat"}
    BY <1>4 DEF FindChat, InsertChat
  <2>2. pc'[p] = "insert" /\ \A q \in Requests : q # p => pc'[q] = pc[q]
    BY <2>1 DEF Types, Goto
  <2>3. UNCHANGED <<conferences, records, conf>>
    BY <1>4 DEF FindChat, InsertChat
  <2>4. /\ \A q \in Requests : q # p => chat'[q] = chat[q]
        /\ chat'[p] # None
        /\ [id |-> chat'[p], conf |-> conf[p]] \in chats'
        /\ chats \subseteq chats'
        /\ \A c, d \in chats' : c.conf = d.conf => c = d
    <3>1. CASE FindChat(p)
      <4>1. PICK c \in ChatsOf(p) : chat' = [chat EXCEPT ![p] = c.id]
        BY <3>1 DEF FindChat
      <4>2. c = [id |-> c.id, conf |-> conf[p]] /\ c \in chats /\ c.id # None
        BY <4>1, NobodyAssumption DEF ChatsOf, Types, Chat, None
      <4> QED
        BY <3>1, <4>1, <4>2 DEF FindChat, Types, Placed, OneRowEach
    <3>2. CASE InsertChat(p)
      <4>1. p # None
        BY NobodyAssumption DEF None
      <4> DEFINE new == [id |-> p, conf |-> conf[p]]
      <4>2. chats' = chats \cup {new} /\ chat' = [chat EXCEPT ![p] = p]
        BY <3>2 DEF InsertChat
      <4>3. \A c \in chats : c.conf # conf[p]
        BY <3>2 DEF InsertChat, ChatsOf
      <4>4. \A c, d \in chats' : c.conf = d.conf => c = d
        BY <4>2, <4>3 DEF Placed, OneRowEach
      <4>5. chat'[p] = p /\ \A q \in Requests : q # p => chat'[q] = chat[q]
        BY <4>2 DEF Types
      <4> QED
        BY <4>1, <4>2, <4>4, <4>5
    <3> QED
      BY <1>4, <3>1, <3>2
  <2>5. OneRowEach'
    BY <2>3, <2>4 DEF Placed, OneRowEach
  <2>6. Obtained'
    BY <2>1, <2>2, <2>3, <2>4 DEF Placed, Obtained
  <2>7. RecordsObtained'
    BY <2>1, <2>2, <2>3, <2>4 DEF Placed, RecordsObtained, Types
  <2> QED
    BY <2>5, <2>6, <2>7 DEF Placed
<1>5. ASSUME NEW p \in Requests, Record(p) PROVE Placed'
  <2> DEFINE new == [req |-> p, conf |-> conf[p], chat |-> chat[p]]
  <2>1. /\ pc[p] = "insert" /\ Goto(p, "done") /\ records' = records \cup {new}
        /\ UNCHANGED <<conferences, chats, conf, chat>>
    BY <1>5 DEF Record
  <2>2. pc'[p] = "done" /\ \A q \in Requests : q # p => pc'[q] = pc[q]
    BY <2>1 DEF Types, Goto
  <2>3. conf[p] # None /\ (Kind[p] = "chat" => chat[p] # None)
    BY <2>1 DEF Prepared, Waiting, Placed, Obtained
  <2>4. OneRowEach' /\ Obtained'
    BY <2>1, <2>2 DEF Placed, OneRowEach, Obtained
  <2>5. RecordsObtained'
    <3>1. ASSUME NEW x \in records
          PROVE  /\ pc'[x.req] = "done"
                 /\ x.conf = conf'[x.req] /\ x.chat = chat'[x.req]
                 /\ x.conf # None
                 /\ Kind[x.req] = "chat" => x.chat # None
      <4>1. x.req \in Requests /\ pc[x.req] = "done"
        BY DEF Placed, RecordsObtained, Types
      <4> QED
        BY <2>1, <2>2, <4>1 DEF Placed, RecordsObtained
    <3>2. /\ pc'[new.req] = "done"
          /\ new.conf = conf'[new.req] /\ new.chat = chat'[new.req]
          /\ new.conf # None
          /\ Kind[new.req] = "chat" => new.chat # None
      BY <2>1, <2>2, <2>3
    <3> QED
      BY <2>1, <3>1, <3>2 DEF RecordsObtained
  <2> QED
    BY <2>4, <2>5 DEF Placed
<1>6. CASE Restart
  <2>1. UNCHANGED <<conferences, chats, records, conf, chat>>
    BY <1>6 DEF Restart
  <2>2. \A p \in Requests : pc'[p] = IF pc[p] \in Waiting THEN "lost" ELSE pc[p]
    BY <1>6 DEF Restart
  <2>3. OneRowEach'
    BY <2>1 DEF Placed, OneRowEach
  <2>4. Obtained'
    BY <2>1, <2>2 DEF Placed, Obtained
  <2>5. RecordsObtained'
    BY <2>1, <2>2 DEF Placed, RecordsObtained, Types, Waiting
  <2> QED
    BY <2>3, <2>4, <2>5 DEF Placed
<1>7. ASSUME UNCHANGED <<pc, conferences, chats, records, conf, chat>> PROVE Placed'
  BY <1>7 DEF Placed, OneRowEach, Obtained, RecordsObtained
<1>8. ASSUME NEW t \in tokens, Connect(t) PROVE Placed'
  BY <1>7, <1>8 DEF Connect
<1>9. ASSUME NEW r \in Rooms, CloseRoom(r) PROVE Placed'
  BY <1>7, <1>9 DEF CloseRoom
<1>10. CASE UNCHANGED vars
  BY <1>7, <1>10 DEF vars
<1> QED
  BY <1>1, <1>2, <1>3, <1>4, <1>5, <1>6, <1>8, <1>9, <1>10, Steps

\* However requests interleave, fail or are cut off by restarts, the rows
\* recorded for a room belong to one conference and its messages to one chat.
THEOREM RoomsHaveOneHistory == Spec => []HistoryTogether
<1>1. Init => Placed
  BY DEF Init, Placed, OneRowEach, Obtained, RecordsObtained
<1>2. Placed /\ TypeOK => HistoryTogether
  <2> SUFFICES ASSUME Placed, Types, NEW x \in records, NEW y \in records,
                      RoomOf[x.req] = RoomOf[y.req]
               PROVE  /\ x.conf = y.conf
                      /\ Kind[x.req] = "chat" /\ Kind[y.req] = "chat" => x.chat = y.chat
    BY DEF HistoryTogether, TypeOK
  <2>1. x.req \in Requests /\ y.req \in Requests
    BY DEF Types
  <2>2. /\ [id |-> x.conf, room |-> RoomOf[x.req]] \in conferences
        /\ [id |-> y.conf, room |-> RoomOf[y.req]] \in conferences
    BY <2>1 DEF Placed, Obtained, RecordsObtained
  <2>3. x.conf = y.conf
    BY <2>2 DEF Placed, OneRowEach
  <2>4. ASSUME Kind[x.req] = "chat", Kind[y.req] = "chat" PROVE x.chat = y.chat
    <3>1. /\ [id |-> x.chat, conf |-> x.conf] \in chats
          /\ [id |-> y.chat, conf |-> y.conf] \in chats
      BY <2>1, <2>4 DEF Placed, Obtained, RecordsObtained
    <3> QED
      BY <2>3, <3>1 DEF Placed, OneRowEach
  <2> QED
    BY <2>3, <2>4
<1> QED
  BY <1>1, <1>2, TypeCorrect, PlacedStep, PTL DEF Spec

-----------------------------------------------------------------------------
(* The creator of a room *)

\* What the process remembers is what it tells: the creator a waiting request
\* will report, and the one named by the tokens of this life of the process.
\* CreatorAgreed follows for the present life and is kept for earlier ones.
CreatorInv ==
    /\ \A p \in Requests : pc[p] \in Joining => told[p] = creators[RoomOf[p]]
    /\ \A t \in tokens :
          /\ t.epoch <= restarts
          /\ t.epoch = restarts => t.creator = creators[RoomOf[t.req]]
    /\ CreatorAgreed

\* Only assigning, joining and restarting touch the creator, the tokens or
\* the requests about to join.
LEMMA CreatorFrame ==
    ASSUME [Next]_vars, Types
    PROVE  \/ \E p \in Requests : AssignCreator(p) \/ FindMember(p) \/ InsertMember(p)
           \/ Restart
           \/ /\ UNCHANGED <<members, told, creators, tokens, restarts>>
              /\ conferences \subseteq conferences'
              /\ \A c \in conferences' \ conferences :
                    c.id \in Requests /\ c.room = RoomOf[c.id]
                    /\ \A d \in conferences : d.room # c.room
              /\ \A p \in Requests : pc'[p] \in Joining => pc[p] \in Joining
<1> USE DEF rows, NoFault
<1> DEFINE Frame == /\ UNCHANGED <<members, told, creators, tokens, restarts>>
                    /\ conferences \subseteq conferences'
                    /\ \A c \in conferences' \ conferences :
                          c.id \in Requests /\ c.room = RoomOf[c.id]
                          /\ \A d \in conferences : d.room # c.room
                    /\ \A p \in Requests : pc'[p] \in Joining => pc[p] \in Joining
<1>1. ASSUME NEW p \in Requests, NEW place, Goto(p, place),
             place \in Joining => pc[p] \in Joining,
             UNCHANGED <<conferences, members, told, creators, tokens, restarts>>
      PROVE  Frame
  BY <1>1 DEF Goto, Types
<1>2. ASSUME NEW p \in Requests PROVE WithConference(p) \notin Joining
  BY RequestsAssumption DEF WithConference, Kinds, Joining
<1>3. ASSUME NEW p \in Requests,
             \/ Arrive(p) \/ FindConference(p) \/ MissConference(p) \/ ConferenceConflict(p)
             \/ MissMember(p) \/ MemberConflict(p)
      PROVE  Frame
  <2>1. /\ \/ Goto(p, "find") \/ Goto(p, WithConference(p)) \/ Goto(p, "create")
           \/ Goto(p, "failed") \/ Goto(p, "refind")
           \/ Goto(p, "createMember") /\ pc[p] \in Joining
        /\ UNCHANGED <<conferences, members, told, creators, tokens, restarts>>
    BY <1>3 DEF Arrive, FindConference, MissConference, ConferenceConflict, MissMember,
                MemberConflict, Joining
  <2>2. {"find", "create", "failed", "refind"} \cap Joining = {}
    BY DEF Joining
  <2> HIDE DEF Frame
  <2> QED
    BY <1>1, <1>2, <2>1, <2>2
<1>4. ASSUME NEW p \in Requests,
             FindChat(p) \/ MissChat(p) \/ InsertChat(p) \/ ChatConflict(p) \/ Record(p)
             \/ ListRooms(p) \/ ListFails(p) \/ CreateRoom(p) \/ CallFails(p)
      PROVE  Frame
  <2>1. /\ \/ Goto(p, "insert") \/ Goto(p, "createChat") \/ Goto(p, "failed")
           \/ Goto(p, "refindChat") \/ Goto(p, "done") \/ Goto(p, "listed")
        /\ UNCHANGED <<conferences, members, told, creators, tokens, restarts>>
    BY <1>4 DEF FindChat, MissChat, InsertChat, ChatConflict, Record, ListRooms,
                ListFails, CreateRoom, CallFails
  <2>2. {"insert", "createChat", "failed", "refindChat", "done", "listed"} \cap Joining = {}
    BY DEF Joining
  <2> HIDE DEF Frame
  <2> QED
    BY <1>1, <2>1, <2>2
<1>5. ASSUME NEW p \in Requests, InsertConference(p) PROVE Frame
  <2> DEFINE new == [id |-> p, room |-> RoomOf[p]]
  <2>1. conferences' = conferences \cup {new}
        /\ UNCHANGED <<members, told, creators, tokens, restarts>>
    BY <1>5 DEF InsertConference
  <2>2. \A d \in conferences : d.room # RoomOf[p]
    BY <1>5 DEF InsertConference, ConferencesOf
  <2>3. \A q \in Requests : pc'[q] \in Joining => pc[q] \in Joining
    BY <1>2, <1>5 DEF InsertConference, Goto, Types
  <2> QED
    BY <2>1, <2>2, <2>3
<1>6. ASSUME NEW t \in tokens, Connect(t) PROVE Frame
  BY <1>6 DEF Connect
<1>7. ASSUME NEW r \in Rooms, CloseRoom(r) PROVE Frame
  BY <1>7 DEF CloseRoom
<1>8. ASSUME UNCHANGED vars PROVE Frame
  BY <1>8 DEF vars
<1> HIDE DEF Frame
<1>9. \/ \E p \in Requests : AssignCreator(p) \/ FindMember(p) \/ InsertMember(p)
      \/ Restart \/ Frame
  BY <1>3, <1>4, <1>5, <1>6, <1>7, <1>8, Steps
<1> QED
  BY <1>9 DEF Frame

\* Every step keeps what the process remembers and what it tells in step.
LEMMA CreatorStep == TypeOK /\ CreatorInv /\ [Next]_vars => CreatorInv'
<1> SUFFICES ASSUME Types, Prepared, CreatorInv, [Next]_vars PROVE CreatorInv'
  BY DEF TypeOK
<1>0. \A t \in tokens : t.req \in Requests /\ t.epoch \in Nat /\ t.creator # Nobody
  BY NobodyAssumption DEF Types, Token, Nobody
<1>1. ASSUME NEW p \in Requests, NEW creator \in Identities,
             tokens' = tokens
                 \/ tokens' = tokens \cup {[req |-> p, creator |-> creator,
                                           agent |-> ~seen[p], epoch |-> restarts]},
             creators'[RoomOf[p]] = creator,
             \A r \in Rooms : creators[r] # Nobody => creators'[r] = creators[r],
             restarts' = restarts
      PROVE  /\ \A t \in tokens' :
                   /\ t.epoch <= restarts'
                   /\ t.epoch = restarts' => t.creator = creators'[RoomOf[t.req]]
             /\ CreatorAgreed'
  <2>1. \A t \in tokens :
          /\ t.epoch <= restarts'
          /\ t.epoch = restarts' => t.creator = creators'[RoomOf[t.req]]
    BY <1>0, <1>1, RequestsAssumption DEF CreatorInv
  <2> DEFINE new == [req |-> p, creator |-> creator, agent |-> ~seen[p], epoch |-> restarts]
  <2>2. restarts \in Nat
    BY DEF Types
  <2>3. new.epoch <= restarts' /\ new.creator = creators'[RoomOf[new.req]]
        /\ new.epoch = restarts'
    BY <1>1, <2>2
  <2>4. \A t \in tokens' :
          /\ t.epoch <= restarts'
          /\ t.epoch = restarts' => t.creator = creators'[RoomOf[t.req]]
    BY <1>1, <2>1, <2>3
  <2>5. ASSUME NEW t \in tokens', NEW u \in tokens',
               RoomOf[t.req] = RoomOf[u.req], t.epoch = u.epoch
        PROVE  t.creator = u.creator
    <3>1. CASE t \in tokens /\ u \in tokens
      BY <2>5, <3>1 DEF CreatorInv, CreatorAgreed
    <3>2. CASE t = new \/ u = new
      BY <2>3, <2>4, <2>5, <3>2
    <3> QED
      BY <1>1, <3>1, <3>2
  <2>6. CreatorAgreed'
    BY <2>5 DEF CreatorAgreed
  <2> QED
    BY <2>4, <2>6
<1>2. ASSUME NEW p \in Requests, AssignCreator(p) PROVE CreatorInv'
  <2> DEFINE r == RoomOf[p]
             creator == IF creators[r] = Nobody THEN Caller[p] ELSE creators[r]
  <2>1. r \in Rooms /\ creator \in Identities
    BY RequestsAssumption DEF Types
  <2>2. /\ creators' = [creators EXCEPT ![r] = creator]
        /\ told' = [told EXCEPT ![p] = creator]
        /\ restarts' = restarts
        /\ tokens' = tokens
               \/ tokens' = tokens \cup {[req |-> p, creator |-> creator,
                                         agent |-> ~seen[p], epoch |-> restarts]}
    BY <1>2 DEF AssignCreator, Issue
  <2>3. \A q \in Requests : q # p => pc'[q] = pc[q]
    BY <1>2 DEF AssignCreator, Goto, Types
  <2>4. creators'[r] = creator
    BY <2>1, <2>2 DEF Types
  <2>5. \A x \in Rooms : creators[x] # Nobody => creators'[x] = creators[x]
    BY <2>1, <2>2 DEF Types
  <2>6. told'[p] = creator /\ \A q \in Requests : q # p => told'[q] = told[q]
    BY <2>2 DEF Types
  <2>7. \A q \in Requests : pc'[q] \in Joining => told'[q] = creators'[RoomOf[q]]
    <3>1. ASSUME NEW q \in Requests, q # p, pc'[q] \in Joining
          PROVE  told'[q] = creators'[RoomOf[q]]
      <4>1. told[q] # Nobody /\ told[q] = creators[RoomOf[q]]
        BY <2>3, <3>1 DEF Prepared, CreatorInv
      <4>2. RoomOf[q] \in Rooms
        BY RequestsAssumption
      <4> QED
        BY <2>5, <2>6, <3>1, <4>1, <4>2
    <3> QED
      BY <2>4, <2>6, <3>1
  <2> HIDE DEF creator, r
  <2>8. /\ \A t \in tokens' :
              /\ t.epoch <= restarts'
              /\ t.epoch = restarts' => t.creator = creators'[RoomOf[t.req]]
        /\ CreatorAgreed'
    BY <1>1, <2>1, <2>2, <2>4, <2>5 DEF r
  <2> QED
    BY <2>7, <2>8 DEF CreatorInv
<1>3. ASSUME NEW p \in Requests, FindMember(p) \/ InsertMember(p) PROVE CreatorInv'
  <2>1. /\ pc[p] \in Joining /\ Goto(p, "done") /\ Issue(p, told[p])
        /\ UNCHANGED <<told, creators, restarts>>
    BY <1>3 DEF FindMember, InsertMember, Joining
  <2>2. told[p] \in Identities /\ told[p] = creators[RoomOf[p]]
    BY <2>1 DEF Types, Prepared, CreatorInv
  <2>3. \A q \in Requests : pc'[q] \in Joining => pc[q] \in Joining
    BY <2>1 DEF Goto, Types, Joining
  <2>4. /\ \A t \in tokens' :
              /\ t.epoch <= restarts'
              /\ t.epoch = restarts' => t.creator = creators'[RoomOf[t.req]]
        /\ CreatorAgreed'
    BY <1>1, <2>1, <2>2 DEF Issue
  <2> QED
    BY <2>1, <2>3, <2>4 DEF CreatorInv
<1>4. CASE Restart
  <2>1. restarts \in Nat /\ restarts' = restarts + 1 /\ UNCHANGED <<told, tokens>>
    BY <1>4 DEF Restart, Types
  <2>2. \A p \in Requests : pc'[p] \notin Joining
    BY <1>4 DEF Restart, Waiting, Joining
  <2>3. \A t \in tokens : t.epoch <= restarts' /\ t.epoch # restarts'
    BY <1>0, <2>1 DEF CreatorInv
  <2> QED
    BY <2>1, <2>2, <2>3 DEF CreatorInv, CreatorAgreed
<1>5. CASE /\ UNCHANGED <<told, creators, tokens, restarts>>
           /\ \A p \in Requests : pc'[p] \in Joining => pc[p] \in Joining
  BY <1>5 DEF CreatorInv, CreatorAgreed
<1> QED
  BY <1>2, <1>3, <1>4, <1>5, CreatorFrame

\* Everybody let into a room during one life of the backend is told the same
\* creator.
THEOREM OneCreatorPerLife == Spec => []CreatorAgreed
<1>1. Init => CreatorInv
  BY DEF Init, CreatorInv, CreatorAgreed, Joining
<1>2. CreatorInv => CreatorAgreed
  BY DEF CreatorInv
<1> QED
  BY <1>1, <1>2, TypeCorrect, CreatorStep, PTL DEF Spec

-----------------------------------------------------------------------------
(* The archive of a user *)

\* A membership belongs to an existing conference, whose creator is known,
\* and the ids of conferences are those of the requests that inserted them.
ArchiveInv ==
    /\ \A c \in conferences : c.id \in Requests /\ c.room = RoomOf[c.id]
    /\ \A m \in members : \E c \in conferences : m.conf = c.id
    /\ restarts = 0 =>
          \A m \in members, c \in conferences : m.conf = c.id =>
              /\ creators[c.room] # Nobody
              /\ m.role = "host" <=> creators[c.room] = m.user

\* Every step keeps the archive in step with the creators.
LEMMA ArchiveStep ==
    TypeOK /\ CreatorInv /\ ArchiveInv /\ [Next]_vars => ArchiveInv'
<1> SUFFICES ASSUME Types, Prepared, CreatorInv, ArchiveInv, [Next]_vars
             PROVE  ArchiveInv'
  BY DEF TypeOK
<1> USE DEF rows
<1>1. ASSUME NEW p \in Requests, AssignCreator(p) PROVE ArchiveInv'
  <2>1. UNCHANGED <<conferences, members, restarts>>
    BY <1>1 DEF AssignCreator
  <2>2. RoomOf[p] \in Rooms
    BY RequestsAssumption
  <2>3. \A r \in Rooms : creators[r] # Nobody => creators'[r] = creators[r]
    BY <1>1, <2>2 DEF AssignCreator, Types
  <2>4. \A c \in conferences : c.room \in Rooms
    BY DEF Types, Conference
  <2> QED
    BY <2>1, <2>3, <2>4 DEF ArchiveInv
<1>2. ASSUME NEW p \in Requests, InsertMember(p) PROVE ArchiveInv'
  <2>1. /\ pc[p] \in Joining /\ UNCHANGED <<conferences, creators, restarts>>
    BY <1>2 DEF InsertMember, Joining
  <2>2. told[p] = creators[RoomOf[p]] /\ told[p] # Nobody
    BY <2>1 DEF CreatorInv, Prepared
  <2>3. PICK c \in ConferencesOf(p) :
          members' = members \cup
              {[id |-> p, user |-> Caller[p], conf |-> c.id,
                role |-> IF told[p] = Caller[p] THEN "host" ELSE "participant"]}
    BY <1>2 DEF InsertMember
  <2> DEFINE new == [id |-> p, user |-> Caller[p], conf |-> c.id,
                     role |-> IF told[p] = Caller[p] THEN "host" ELSE "participant"]
  <2>4. c \in conferences /\ c.room = RoomOf[p]
    BY DEF ConferencesOf
  <2>5. \A d \in conferences : d.id = c.id => d.room = RoomOf[p]
    BY <2>4 DEF ArchiveInv
  <2>6. /\ new.conf = c.id
        /\ \A d \in conferences : new.conf = d.id =>
              /\ creators[d.room] # Nobody
              /\ new.role = "host" <=> creators[d.room] = new.user
    BY <2>2, <2>5
  <2> HIDE DEF new
  <2> QED
    BY <2>1, <2>3, <2>4, <2>6 DEF ArchiveInv, new
<1>5. ASSUME NEW p \in Requests, FindMember(p) PROVE ArchiveInv'
  BY <1>5 DEF FindMember, ArchiveInv
<1>3. CASE Restart
  <2>1. UNCHANGED <<conferences, members>> /\ restarts \in Nat /\ restarts' = restarts + 1
    BY <1>3 DEF Restart, Types
  <2> QED
    BY <2>1 DEF ArchiveInv
<1>4. CASE /\ UNCHANGED <<members, creators, restarts>>
           /\ conferences \subseteq conferences'
           /\ \A c \in conferences' \ conferences :
                 c.id \in Requests /\ c.room = RoomOf[c.id]
                 /\ \A d \in conferences : d.room # c.room
  <2>1. \A c \in conferences' : c.id \in Requests /\ c.room = RoomOf[c.id]
    BY <1>4 DEF ArchiveInv
  <2>2. \A m \in members' : \E c \in conferences' : m.conf = c.id
    BY <1>4 DEF ArchiveInv
  <2>3. ASSUME NEW m \in members, NEW c \in conferences', m.conf = c.id
        PROVE  c \in conferences
    <3>1. PICK d \in conferences : m.conf = d.id
      BY DEF ArchiveInv
    <3>2. d.room = c.room
      BY <2>1, <2>3, <3>1 DEF ArchiveInv
    <3> QED
      BY <1>4, <3>1, <3>2
  <2> QED
    BY <1>4, <2>1, <2>2, <2>3 DEF ArchiveInv
<1> QED
  BY <1>1, <1>2, <1>3, <1>4, <1>5, CreatorFrame

\* Until the backend restarts, the host in a room's archive is its creator and
\* nobody else.
THEOREM CreatorIsHost == Spec => []HostIsCreator
<1>1. Init => CreatorInv /\ ArchiveInv
  BY DEF Init, CreatorInv, CreatorAgreed, ArchiveInv, Joining
<1>2. TypeOK /\ CreatorInv /\ ArchiveInv /\ [Next]_vars => (CreatorInv /\ ArchiveInv)'
  BY CreatorStep, ArchiveStep
<1>3. ArchiveInv => HostIsCreator
  BY DEF ArchiveInv, HostIsCreator
<1> QED
  BY <1>1, <1>2, <1>3, TypeCorrect, PTL DEF Spec

\* Whoever holds a token as a signed-in user has the room in the archive.
LEMMA ArchivedStep == TypeOK /\ TokenMeansArchived /\ [Next]_vars => TokenMeansArchived'
<1> SUFFICES ASSUME Types, TokenMeansArchived, [Next]_vars PROVE TokenMeansArchived'
  BY DEF TypeOK
<1> USE DEF rows
<1>1. ASSUME NEW p \in Requests, AssignCreator(p) PROVE TokenMeansArchived'
  <2>1. UNCHANGED <<conferences, members>>
    BY <1>1 DEF AssignCreator
  <2>2. \A t \in tokens' : t \in tokens \/ t.req \notin SignedIn
    BY <1>1 DEF AssignCreator, Issue
  <2> QED
    BY <2>1, <2>2 DEF TokenMeansArchived
<1>2. ASSUME NEW p \in Requests, FindMember(p) \/ InsertMember(p)
      PROVE  TokenMeansArchived'
  <2>1. conferences' = conferences /\ members \subseteq members'
    BY <1>2 DEF FindMember, InsertMember
  <2>2. \E m \in members', c \in conferences :
           m.user = Caller[p] /\ m.conf = c.id /\ c.room = RoomOf[p]
    <3>1. CASE FindMember(p)
      BY <2>1, <3>1 DEF FindMember, MembersOf, ConferencesOf
    <3>2. CASE InsertMember(p)
      <4>1. PICK c \in ConferencesOf(p) :
              members' = members \cup
                  {[id |-> p, user |-> Caller[p], conf |-> c.id,
                    role |-> IF told[p] = Caller[p] THEN "host" ELSE "participant"]}
        BY <3>2 DEF InsertMember
      <4> DEFINE new == [id |-> p, user |-> Caller[p], conf |-> c.id,
                         role |-> IF told[p] = Caller[p] THEN "host" ELSE "participant"]
      <4>2. new \in members' /\ new.user = Caller[p] /\ new.conf = c.id
        BY <4>1
      <4>3. c \in conferences /\ c.room = RoomOf[p]
        BY DEF ConferencesOf
      <4> HIDE DEF new
      <4> QED
        BY <4>2, <4>3
    <3> QED
      BY <1>2, <3>1, <3>2
  <2>3. \A t \in tokens' : t \in tokens \/ t.req = p
    BY <1>2 DEF FindMember, InsertMember, Issue
  <2> QED
    BY <2>1, <2>2, <2>3 DEF TokenMeansArchived
<1>3. CASE Restart
  BY <1>3 DEF Restart, TokenMeansArchived
<1>4. CASE UNCHANGED <<members, tokens>> /\ conferences \subseteq conferences'
  BY <1>4 DEF TokenMeansArchived
<1> QED
  BY <1>1, <1>2, <1>3, <1>4, CreatorFrame

\* A signed-in user who has received a token for a room finds the room in the
\* archive, whatever fails or restarts.
THEOREM TokensAreArchived == Spec => []TokenMeansArchived
<1>1. Init => TokenMeansArchived
  BY DEF Init, TokenMeansArchived
<1> QED
  BY <1>1, TypeCorrect, ArchivedStep, PTL DEF Spec

-----------------------------------------------------------------------------
(* Races for a conference or a chat cost nobody the request *)

\* Only token requests look rooms up, and only those of signed-in users join.
\* Whoever looks again after a conflict finds the row that caused it, and a
\* membership was created by a request that is through.
JoinersSignedIn ==
    \A p \in Requests :
        /\ pc[p] \in {"list", "listed"} \cup Joining => Kind[p] = "token"
        /\ pc[p] \in Joining => p \in SignedIn

MembersSettled ==
    \A m \in members :
        m.id \in SignedIn /\ Caller[m.id] = m.user /\ pc[m.id] = "done"

RacesInv ==
    /\ NoFailureFromRaces
    /\ JoinersSignedIn
    /\ MembersSettled
    /\ \A p \in Requests : pc[p] = "refind" => \E c \in conferences : c.room = RoomOf[p]
    /\ \A p \in Requests : pc[p] = "refindChat" => \E c \in chats : c.conf = conf[p]

\* Why a request fails without a failing call.
Outrun(p) ==
    /\ Kind[p] = "token" /\ p \in SignedIn
    /\ \E m \in MembersOf(p) :
          m.id \in SignedIn \ {p} /\ Caller[m.id] = Caller[p] /\ pc[m.id] = "done"

\* Only a fault, or a conflict, sends a request where a fault or a row is needed.
LEMMA RacesMove ==
    ASSUME Types, RacesInv, NEW p \in Requests, NEW place, Goto(p, place),
           pc[p] # "done",
           conferences \subseteq conferences', chats \subseteq chats', faulty \subseteq faulty',
           members' = members,
           \A q \in Requests : q # p => conf'[q] = conf[q],
           place \in {"list", "listed"} \cup Joining => Kind[p] = "token",
           place \in Joining => p \in SignedIn,
           place = "failed" => p \in faulty' \/ Outrun(p),
           place = "refind" => \E c \in conferences' : c.room = RoomOf[p],
           place = "refindChat" => \E c \in chats' : c.conf = conf'[p]
    PROVE  RacesInv'
<1>1. pc'[p] = place /\ \A q \in Requests : q # p => pc'[q] = pc[q]
  BY DEF Types, Goto
<1>2. \A q \in Requests : pc[q] = "done" => pc'[q] = "done"
  BY <1>1
<1>3. \A q \in Requests : MembersOf(q) \subseteq MembersOf(q)'
  BY DEF MembersOf, ConferencesOf
<1>4. \A m \in members : m.id \in Requests
  BY DEF Types, Member
<1>5. \A q \in Requests : MembersOf(q) \subseteq members
  BY DEF MembersOf
<1>6. \A q \in Requests : Outrun(q) => Outrun(q)'
  BY <1>2, <1>3, <1>4, <1>5 DEF Outrun
<1>7. NoFailureFromRaces'
  BY <1>1, <1>6 DEF RacesInv, NoFailureFromRaces, Outrun
<1>8. JoinersSignedIn'
  BY <1>1 DEF RacesInv, JoinersSignedIn
<1>9. MembersSettled'
  BY <1>2, <1>4 DEF RacesInv, MembersSettled
<1> QED
  BY <1>1, <1>7, <1>8, <1>9 DEF RacesInv

LEMMA RacesStep == TypeOK /\ RacesInv /\ [Next]_vars => RacesInv'
<1> SUFFICES ASSUME Types, RacesInv, [Next]_vars PROVE RacesInv'
  BY DEF TypeOK
<1> USE DEF rows, NoFault
<1>0. \A p \in Requests :
         /\ WithConference(p) \notin {"failed", "refind", "refindChat", "listed"} \cup Joining
         /\ WithConference(p) = "list" => Kind[p] = "token"
  BY RequestsAssumption DEF WithConference, Kinds, Joining
<1>p. /\ {"find", "insert", "done", "create", "failed", "refind", "refindChat", "createChat"}
            \cap ({"list", "listed"} \cup Joining) = {}
      /\ {"list", "listed"} \cap Joining = {} /\ Joining = {"member", "createMember"}
  BY DEF Joining
<1>1. ASSUME NEW p \in Requests,
             Arrive(p) \/ FindChat(p) \/ InsertChat(p) \/ Record(p) \/ CreateRoom(p)
      PROVE  RacesInv'
  <2>1. /\ Goto(p, "find") \/ Goto(p, "insert") \/ Goto(p, "done")
        /\ conferences' = conferences /\ chats \subseteq chats' /\ faulty \subseteq faulty'
        /\ conf' = conf /\ members' = members /\ pc[p] # "done"
    BY <1>1 DEF Arrive, FindChat, InsertChat, Record, CreateRoom
  <2> QED
    BY <1>p, <2>1, RacesMove
<1>2. ASSUME NEW p \in Requests, FindConference(p) \/ InsertConference(p) PROVE RacesInv'
  <2>1. /\ Goto(p, WithConference(p))
        /\ conferences \subseteq conferences' /\ chats' = chats /\ faulty' = faulty
        /\ members' = members /\ pc[p] # "done"
        /\ \A q \in Requests : q # p => conf'[q] = conf[q]
    BY <1>2 DEF FindConference, InsertConference, Types
  <2> DEFINE place == WithConference(p)
  <2>2. /\ place \notin {"failed", "refind", "refindChat", "listed"} \cup Joining
        /\ place = "list" => Kind[p] = "token"
    BY <1>0
  <2> HIDE DEF place
  <2>3. Goto(p, place)
    BY <2>1 DEF place
  <2> QED
    BY <2>1, <2>2, <2>3, RacesMove
<1>3. ASSUME NEW p \in Requests, MissConference(p) PROVE RacesInv'
  <2>1. /\ Goto(p, "create") /\ pc[p] # "done"
        /\ UNCHANGED <<conferences, chats, members, conf, faulty>>
    <3>1. pc[p] # "refind"
      BY <1>3 DEF MissConference, RacesInv, ConferencesOf
    <3> QED
      BY <1>3, <3>1 DEF MissConference
  <2> QED
    BY <1>p, <2>1, RacesMove
<1>4. ASSUME NEW p \in Requests, MissChat(p) PROVE RacesInv'
  <2>1. /\ Goto(p, "createChat") /\ pc[p] # "done"
        /\ UNCHANGED <<conferences, chats, members, conf, faulty>>
    <3>1. pc[p] # "refindChat"
      BY <1>4 DEF MissChat, RacesInv, ChatsOf
    <3> QED
      BY <1>4, <3>1 DEF MissChat
  <2> QED
    BY <1>p, <2>1, RacesMove
<1>5. ASSUME NEW p \in Requests, ConferenceConflict(p) PROVE RacesInv'
  <2>1. /\ Goto(p, "refind") /\ UNCHANGED <<conferences, chats, members, conf, faulty>>
        /\ pc[p] # "done" /\ \E c \in conferences : c.room = RoomOf[p]
    BY <1>5 DEF ConferenceConflict, ConferencesOf
  <2> QED
    BY <1>p, <2>1, RacesMove
<1>6. ASSUME NEW p \in Requests, ChatConflict(p) PROVE RacesInv'
  <2>1. /\ Goto(p, "refindChat") /\ UNCHANGED <<conferences, chats, members, conf, faulty>>
        /\ pc[p] # "done" /\ \E c \in chats : c.conf = conf[p]
    BY <1>6 DEF ChatConflict, ChatsOf
  <2> QED
    BY <1>p, <2>1, RacesMove
<1>7. ASSUME NEW p \in Requests, CallFails(p) PROVE RacesInv'
  <2>1. /\ Goto(p, "failed") /\ UNCHANGED <<conferences, chats, members, conf>>
        /\ faulty' = faulty \cup {p} /\ pc[p] # "done"
    BY <1>7 DEF CallFails, Fault, Waiting
  <2> QED
    BY <1>p, <2>1, RacesMove
<1>8. CASE Restart
  <2>1. /\ UNCHANGED <<conferences, chats, members, conf, faulty>>
        /\ \A p \in Requests : pc'[p] = pc[p] \/ pc'[p] = "lost"
        /\ \A p \in Requests : pc[p] = "done" => pc'[p] = "done"
    BY <1>8 DEF Restart, Waiting
  <2>2. \A p \in Requests : MembersOf(p)' = MembersOf(p) /\ MembersOf(p) \subseteq members
    BY <2>1 DEF MembersOf, ConferencesOf
  <2>3. \A m \in members : m.id \in Requests
    BY DEF Types, Member
  <2>4. NoFailureFromRaces'
    BY <2>1, <2>2, <2>3 DEF RacesInv, NoFailureFromRaces
  <2>5. JoinersSignedIn' /\ MembersSettled'
    BY <2>1, <2>3 DEF RacesInv, JoinersSignedIn, MembersSettled, Joining
  <2> QED
    BY <2>1, <2>4, <2>5 DEF RacesInv
<1>9. CASE UNCHANGED <<pc, conferences, chats, members, conf, faulty>>
  BY <1>9 DEF RacesInv, NoFailureFromRaces, JoinersSignedIn, MembersSettled, MembersOf,
              ConferencesOf
<1>10. ASSUME (\E t \in tokens : Connect(t)) \/ (\E r \in Rooms : CloseRoom(r)) \/ UNCHANGED vars
       PROVE  UNCHANGED <<pc, conferences, chats, members, conf, faulty>>
  BY <1>10 DEF Connect, CloseRoom, vars
<1>11. ASSUME NEW p \in Requests, ListRooms(p) \/ ListFails(p) \/ AssignCreator(p)
       PROVE  RacesInv'
  <2>1. /\ \/ Goto(p, "listed") \/ Goto(p, "done")
           \/ Goto(p, "member") /\ p \in SignedIn
        /\ pc[p] \in {"list", "listed"} /\ faulty \subseteq faulty'
        /\ UNCHANGED <<conferences, chats, members, conf>>
    BY <1>11 DEF ListRooms, ListFails, AssignCreator, Fault
  <2>2. Kind[p] = "token" /\ pc[p] # "done"
    BY <2>1 DEF RacesInv, JoinersSignedIn
  <2> QED
    BY <1>p, <2>1, <2>2, RacesMove
<1>12. ASSUME NEW p \in Requests, FindMember(p) \/ MissMember(p) \/ MemberConflict(p)
       PROVE  RacesInv'
  <2>1. /\ \/ Goto(p, "done")
           \/ Goto(p, "createMember")
           \/ Goto(p, "failed") /\ MembersOf(p) # {}
        /\ pc[p] \in Joining
        /\ UNCHANGED <<conferences, chats, members, conf, faulty>>
    BY <1>12 DEF FindMember, MissMember, MemberConflict, Joining
  <2>2. Kind[p] = "token" /\ p \in SignedIn /\ pc[p] # "done"
    BY <2>1 DEF RacesInv, JoinersSignedIn, Joining
  <2>3. ASSUME MembersOf(p) # {} PROVE Outrun(p)
    <3>1. PICK m \in MembersOf(p) : TRUE
      BY <2>3
    <3>2. m \in members /\ m.user = Caller[p]
      BY <3>1 DEF MembersOf
    <3> QED
      BY <2>2, <3>1, <3>2 DEF RacesInv, MembersSettled, Outrun
  <2> QED
    BY <1>p, <2>1, <2>2, <2>3, RacesMove
<1>13. ASSUME NEW p \in Requests, InsertMember(p) PROVE RacesInv'
  <2>1. PICK c \in ConferencesOf(p) :
          members' = members \cup
              {[id |-> p, user |-> Caller[p], conf |-> c.id,
                role |-> IF told[p] = Caller[p] THEN "host" ELSE "participant"]}
    BY <1>13 DEF InsertMember
  <2>2. /\ Goto(p, "done") /\ pc[p] \in Joining
        /\ UNCHANGED <<conferences, chats, conf, faulty>>
    BY <1>13 DEF InsertMember, Joining
  <2>3. pc'[p] = "done" /\ \A q \in Requests : q # p => pc'[q] = pc[q]
    BY <2>2 DEF Goto, Types
  <2>4. p \in SignedIn /\ pc[p] # "done"
    BY <2>2 DEF RacesInv, JoinersSignedIn, Joining
  <2>5. \A m \in members : m.id \in Requests
    BY DEF Types, Member
  <2>6. MembersSettled'
    BY <2>1, <2>3, <2>4, <2>5 DEF RacesInv, MembersSettled
  <2>7. \A q \in Requests : MembersOf(q) \subseteq MembersOf(q)' /\ MembersOf(q) \subseteq members
    BY <2>1, <2>2 DEF MembersOf, ConferencesOf
  <2>8. NoFailureFromRaces'
    BY <2>2, <2>3, <2>5, <2>7 DEF RacesInv, NoFailureFromRaces
  <2>9. JoinersSignedIn'
    BY <1>p, <2>3 DEF RacesInv, JoinersSignedIn
  <2> QED
    BY <2>2, <2>3, <2>6, <2>8, <2>9 DEF RacesInv
<1> QED
  BY <1>1, <1>2, <1>3, <1>4, <1>5, <1>6, <1>7, <1>8, <1>9, <1>10, <1>11, <1>12, <1>13, Steps

\* However the requests of a room race, the losers of the insertions of the
\* conference and of its chat go on with what the winners inserted.  A request
\* whose calls all worked is lost in one case only: another token request of the
\* same user, which is through, created the membership it was about to create.
THEOREM OnlyOwnRequestsOutrun == Spec => []NoFailureFromRaces
<1>1. Init => RacesInv
  BY DEF Init, RacesInv, NoFailureFromRaces, JoinersSignedIn, MembersSettled, Joining
<1>2. RacesInv => NoFailureFromRaces
  BY DEF RacesInv
<1> QED
  BY <1>1, <1>2, TypeCorrect, RacesStep, PTL DEF Spec

-----------------------------------------------------------------------------
(* The agent in the first meeting *)

FirstMeeting(r) ==
    r \notin ended /\ \A p \in Requests : RoomOf[p] = r => Kind[p] # "create"

\* Until a room has closed once, nobody has seen it before it opened, so the
\* tokens issued by then dispatch the agent.  Only requests to create a room
\* open one without.
DispatchInv ==
    /\ \A p \in Requests : pc[p] = "createRoom" => Kind[p] = "create"
    /\ \A r \in Rooms : FirstMeeting(r) =>
          /\ live[r] # "without agent"
          /\ \A p \in Requests : RoomOf[p] = r /\ seen[p] => live[r] # "no"
          /\ \A t \in tokens : RoomOf[t.req] = r /\ live[r] = "no" => t.agent

LEMMA CreatesStep ==
    ASSUME Types, DispatchInv, [Next]_vars
    PROVE  \A p \in Requests : pc'[p] = "createRoom" => Kind[p] = "create"
<1>1. ASSUME NEW p \in Requests, NEW place, Goto(p, place),
             place = "createRoom" => Kind[p] = "create"
      PROVE  \A q \in Requests : pc'[q] = "createRoom" => Kind[q] = "create"
  BY <1>1 DEF Goto, Types, DispatchInv
<1>2. \A p \in Requests : WithConference(p) = "createRoom" => Kind[p] = "create"
  BY RequestsAssumption DEF WithConference, Kinds
<1>3. ASSUME NEW p \in Requests, NEW place, Goto(p, place), place # "createRoom"
      PROVE  \A q \in Requests : pc'[q] = "createRoom" => Kind[q] = "create"
  BY <1>1, <1>3
<1>4. ASSUME NEW p \in Requests,
             \/ Arrive(p) \/ FindConference(p) \/ MissConference(p)
             \/ InsertConference(p) \/ ConferenceConflict(p)
             \/ FindChat(p) \/ MissChat(p) \/ InsertChat(p) \/ ChatConflict(p)
             \/ Record(p) \/ ListRooms(p) \/ ListFails(p)
             \/ AssignCreator(p) \/ FindMember(p) \/ MissMember(p)
             \/ InsertMember(p) \/ MemberConflict(p) \/ CreateRoom(p)
             \/ CallFails(p)
      PROVE  \/ Goto(p, "find") \/ Goto(p, WithConference(p)) \/ Goto(p, "create")
             \/ Goto(p, "failed") \/ Goto(p, "refind") \/ Goto(p, "insert")
             \/ Goto(p, "createChat") \/ Goto(p, "refindChat") \/ Goto(p, "done")
             \/ Goto(p, "listed") \/ Goto(p, "member") \/ Goto(p, "createMember")
  BY <1>4 DEF Arrive, FindConference, MissConference, InsertConference, ConferenceConflict,
              FindChat, MissChat, InsertChat, ChatConflict, Record, ListRooms, ListFails,
              AssignCreator, FindMember, MissMember, InsertMember, MemberConflict,
              CreateRoom, CallFails
<1>5. CASE Restart
  BY <1>5 DEF Restart, Types, DispatchInv
<1>6. CASE pc' = pc
  BY <1>6 DEF DispatchInv
<1>7. ASSUME (\E t \in tokens : Connect(t)) \/ (\E r \in Rooms : CloseRoom(r)) \/ UNCHANGED vars
      PROVE  pc' = pc
  BY <1>7 DEF Connect, CloseRoom, vars
<1> QED
  BY <1>1, <1>2, <1>3, <1>4, <1>5, <1>6, <1>7, Steps

LEMMA DispatchStep == TypeOK /\ DispatchInv /\ [Next]_vars => DispatchInv'
<1> SUFFICES ASSUME Types, DispatchInv, [Next]_vars,
                    NEW r \in Rooms, FirstMeeting(r)'
             PROVE  /\ live'[r] # "without agent"
                    /\ \A p \in Requests : RoomOf[p] = r /\ seen'[p] => live'[r] # "no"
                    /\ \A t \in tokens' : RoomOf[t.req] = r /\ live'[r] = "no" => t.agent
  BY CreatesStep DEF TypeOK, DispatchInv
<1> DEFINE Goal == /\ live'[r] # "without agent"
                   /\ \A p \in Requests : RoomOf[p] = r /\ seen'[p] => live'[r] # "no"
                   /\ \A t \in tokens' : RoomOf[t.req] = r /\ live'[r] = "no" => t.agent
<1> USE DEF rows
<1>0. ended \subseteq ended'
  BY DEF Next, vars, Arrive, Proceed, FindConference, MissConference, InsertConference,
         ConferenceConflict, FindChat, MissChat, InsertChat, ChatConflict, Record, ListRooms,
         ListFails, AssignCreator, FindMember, MissMember, InsertMember, MemberConflict,
         CreateRoom, CallFails, Connect, CloseRoom, Restart
<1>1. FirstMeeting(r)
  BY <1>0 DEF FirstMeeting
<1>2. /\ live[r] # "without agent"
      /\ \A p \in Requests : RoomOf[p] = r /\ seen[p] => live[r] # "no"
      /\ \A t \in tokens : RoomOf[t.req] = r /\ live[r] = "no" => t.agent
  BY <1>1 DEF DispatchInv
<1>3. ASSUME NEW p \in Requests, ListRooms(p) \/ ListFails(p) PROVE Goal
  <2>1. live' = live /\ tokens' = tokens /\ (seen'[p] => live[RoomOf[p]] # "no")
        /\ \A q \in Requests : q # p => seen'[q] = seen[q]
    BY <1>3 DEF ListRooms, ListFails, Types
  <2> QED
    BY <1>2, <2>1
<1>4. ASSUME NEW p \in Requests, AssignCreator(p) \/ FindMember(p) \/ InsertMember(p)
      PROVE  Goal
  <2>1. UNCHANGED <<live, seen>>
    BY <1>4 DEF AssignCreator, FindMember, InsertMember
  <2>2. \A t \in tokens' : t \in tokens \/ (t.req = p /\ t.agent = ~seen[p])
    BY <1>4 DEF AssignCreator, FindMember, InsertMember, Issue
  <2> QED
    BY <1>2, <2>1, <2>2
<1>5. ASSUME NEW p \in Requests, CreateRoom(p) PROVE Goal
  <2>1. Kind[p] = "create"
    BY <1>5 DEF CreateRoom, DispatchInv
  <2>2. RoomOf[p] # r
    BY <1>1, <2>1 DEF FirstMeeting
  <2>3. live'[r] = live[r] /\ UNCHANGED <<seen, tokens>>
    BY <1>5, <2>2 DEF CreateRoom, OpenRoom, Types
  <2> QED
    BY <1>2, <2>3
<1>6. ASSUME NEW t \in tokens, Connect(t) PROVE Goal
  <2>1. UNCHANGED <<seen, tokens>>
    BY <1>6 DEF Connect
  <2>2. CASE RoomOf[t.req] = r
    <3>1. live[r] = "no" /\ t.agent
      BY <1>2, <1>6, <2>2 DEF Connect
    <3>2. live'[r] = "with agent"
      BY <1>6, <2>2, <3>1 DEF Connect, OpenRoom, Types
    <3> QED
      BY <2>1, <3>2
  <2>3. CASE RoomOf[t.req] # r
    <3>1. live'[r] = live[r]
      BY <1>6, <2>3 DEF Connect, OpenRoom, Types
    <3> QED
      BY <1>2, <2>1, <3>1
  <2> QED
    BY <2>2, <2>3
<1>7. ASSUME NEW q \in Rooms, CloseRoom(q) PROVE Goal
  <2>1. q # r
    BY <1>7 DEF CloseRoom, FirstMeeting
  <2>2. live'[r] = live[r] /\ UNCHANGED <<seen, tokens>>
    BY <1>7, <2>1 DEF CloseRoom, Types
  <2> QED
    BY <1>2, <2>2
<1>8. CASE UNCHANGED <<seen, tokens, live>>
  BY <1>2, <1>8
<1>9. \/ UNCHANGED <<seen, tokens, live>>
      \/ \E p \in Requests : \/ ListRooms(p) \/ ListFails(p) \/ AssignCreator(p)
                             \/ FindMember(p) \/ InsertMember(p) \/ CreateRoom(p)
      \/ \E t \in tokens : Connect(t)
      \/ \E q \in Rooms : CloseRoom(q)
  BY DEF Next, vars, Arrive, Proceed, FindConference, MissConference, InsertConference,
         ConferenceConflict, FindChat, MissChat, InsertChat, ChatConflict, Record, MissMember,
         MemberConflict, CallFails, Restart
<1> QED
  BY <1>3, <1>4, <1>5, <1>6, <1>7, <1>8, <1>9

\* The first meeting of a room that nobody creates beforehand has the agent,
\* whoever asks for tokens meanwhile and whichever lookup fails.
THEOREM FirstMeetingHasAgent == Spec => []AgentInFirstMeeting
<1>1. Init => DispatchInv
  BY DEF Init, DispatchInv
<1>2. DispatchInv => AgentInFirstMeeting
  BY DEF DispatchInv, FirstMeeting, AgentInFirstMeeting
<1> QED
  BY <1>1, <1>2, TypeCorrect, DispatchStep, PTL DEF Spec

=============================================================================
