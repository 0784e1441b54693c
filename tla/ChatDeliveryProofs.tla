-------------------------- MODULE ChatDeliveryProofs --------------------------
(***************************************************************************)
(* What ChatDelivery keeps for all tabs, rooms and numbers of messages,    *)
(* failures and restarts.  Sequences matter here only by what is in them:  *)
(* the lemmas on sets of elements come first.                              *)
(***************************************************************************)
EXTENDS ChatDelivery, FiniteSetTheorems, SequenceTheorems, TLAPS

\* A message being worked on is a person's, and one being sent is stored.
WorkIsOfPeople ==
    \A m \in Ids : work[m] # "none" =>
        /\ m \in 1 .. Len(messages)
        /\ messages[m].from \in Clients
        /\ work[m] = "send" => m \in StoredIn(messages[m].room)

\* What a room's archive holds is a message of that room.
StoredAtHome ==
    \A r \in Rooms : \A m \in StoredIn(r) :
        m \in 1 .. Len(messages) /\ messages[m].room = r

\* The topic carries the services' replies, and one being sent is stored.
RepliesOfServices ==
    /\ \A i \in 1 .. Len(topic) : messages[topic[i]].from = Services
    /\ busy = "send" => Current \in StoredIn(messages[Current].room)

\* A history under way holds what was saved.
RepliesSaved == \A c \in Clients : ToSet(reply[c]) \subseteq Saved

Inv ==
    /\ TypeOK
    /\ WorkIsOfPeople
    /\ StoredAtHome
    /\ RepliesOfServices
    /\ RepliesSaved
    /\ NothingUnsavedGetsOut
    /\ NoGapWhileJoined
    /\ SavedReachesServices
    /\ NoReplyPassedOver

-----------------------------------------------------------------------------
(* Sequences *)

LEMMA AppendToSet ==
    ASSUME NEW S, NEW seq \in Seq(S), NEW x \in S
    PROVE  ToSet(Append(seq, x)) = ToSet(seq) \cup {x}
<1>1. /\ DOMAIN Append(seq, x) = 1 .. Len(seq) + 1 /\ DOMAIN seq = 1 .. Len(seq)
      /\ Append(seq, x)[Len(seq) + 1] = x
      /\ \A i \in 1 .. Len(seq) : Append(seq, x)[i] = seq[i]
      /\ Len(seq) \in Nat
  OBVIOUS
<1> QED
  BY <1>1 DEF ToSet

LEMMA HeadTailToSet ==
    ASSUME NEW S, NEW seq \in Seq(S), seq # << >>
    PROVE  /\ Head(seq) \in S /\ Tail(seq) \in Seq(S)
           /\ ToSet(seq) = {Head(seq)} \cup ToSet(Tail(seq))
<1>1. /\ Len(seq) \in Nat \ {0} /\ Head(seq) = seq[1] /\ DOMAIN seq = 1 .. Len(seq)
      /\ Tail(seq) \in Seq(S) /\ DOMAIN Tail(seq) = 1 .. Len(seq) - 1
      /\ \A i \in 1 .. Len(seq) - 1 : Tail(seq)[i] = seq[i + 1]
      /\ Head(seq) \in S
  BY HeadTailProperties
<1>2. ASSUME NEW i \in 1 .. Len(seq)
      PROVE  seq[i] \in {Head(seq)} \cup ToSet(Tail(seq))
  <2>1. CASE i = 1
    BY <1>1, <2>1
  <2>2. CASE i # 1
    <3>1. i - 1 \in DOMAIN Tail(seq) /\ Tail(seq)[i - 1] = seq[i]
      BY <1>1, <2>2
    <3> QED
      BY <3>1 DEF ToSet
  <2> QED
    BY <2>1, <2>2
<1>3. ASSUME NEW i \in DOMAIN Tail(seq) PROVE Tail(seq)[i] \in ToSet(seq)
  <2>1. i + 1 \in DOMAIN seq /\ Tail(seq)[i] = seq[i + 1]
    BY <1>1
  <2> QED
    BY <2>1 DEF ToSet
<1>4. Head(seq) \in ToSet(seq)
  BY <1>1 DEF ToSet
<1>5. ToSet(seq) \subseteq {Head(seq)} \cup ToSet(Tail(seq))
  BY <1>1, <1>2 DEF ToSet
<1>6. ToSet(Tail(seq)) \subseteq ToSet(seq)
  BY <1>3 DEF ToSet
<1> QED
  BY <1>1, <1>4, <1>5, <1>6

\* A row inserted anywhere is one row more.
LEMMA InsertToSet ==
    ASSUME NEW S, NEW seq \in Seq(S), NEW x \in S, NEW place \in 1 .. Len(seq) + 1
    PROVE  /\ InsertAt(seq, place, x) \in Seq(S)
           /\ ToSet(InsertAt(seq, place, x)) = ToSet(seq) \cup {x}
<1>l. /\ Len(seq) \in Nat /\ DOMAIN seq = 1 .. Len(seq)
      /\ \A i \in 1 .. Len(seq) : seq[i] \in S
  BY LenProperties
<1>n. PICK n \in Nat : n <= Len(seq) /\ place = n + 1 /\ place - 1 = n
  <2>1. place - 1 \in Nat /\ place - 1 <= Len(seq) /\ place = place - 1 + 1
    BY <1>l
  <2> QED
    BY <2>1
<1>0. /\ Len(seq) \in Nat /\ n \in Nat /\ n <= Len(seq) /\ DOMAIN seq = 1 .. Len(seq)
      /\ \A i \in 1 .. Len(seq) : seq[i] \in S
  BY <1>l, <1>n
<1> DEFINE a == SubSeq(seq, 1, n)
           b == SubSeq(seq, n + 1, Len(seq))
           new == InsertAt(seq, place, x)
<1>3. new = a \o <<x>> \o b
  BY <1>n DEF InsertAt
<1> HIDE DEF new
<1>1. a \in Seq(S) /\ Len(a) = n /\ \A i \in 1 .. n : a[i] = seq[i]
  <2>1. \A i \in 1 .. n : seq[i] \in S
    BY <1>0
  <2>2. /\ a \in Seq(S) /\ Len(a) = IF 1 <= n THEN n - 1 + 1 ELSE 0
        /\ \A i \in 1 .. n - 1 + 1 : a[i] = seq[1 + i - 1]
    BY <1>0, <2>1, SubSeqProperties
  <2> HIDE DEF a
  <2> QED
    BY <1>0, <2>2
<1>2. b \in Seq(S) /\ Len(b) = Len(seq) - n /\ \A i \in 1 .. Len(seq) - n : b[i] = seq[n + i]
  <2>1. \A i \in n + 1 .. Len(seq) : seq[i] \in S
    BY <1>0
  <2>2. n + 1 \in Int /\ Len(seq) \in Int
    BY <1>0
  <2>3. /\ b \in Seq(S)
        /\ Len(b) = IF n + 1 <= Len(seq) THEN Len(seq) - (n + 1) + 1 ELSE 0
        /\ \A i \in 1 .. Len(seq) - (n + 1) + 1 : b[i] = seq[n + 1 + i - 1]
    BY <2>1, <2>2, SubSeqProperties
  <2> HIDE DEF b
  <2>4. Len(b) = Len(seq) - n
    <3>1. Len(b) = IF n + 1 <= Len(seq) THEN Len(seq) - (n + 1) + 1 ELSE 0
      BY <2>3
    <3>2. CASE n + 1 <= Len(seq)
      <4>1. Len(b) = Len(seq) - (n + 1) + 1
        BY <3>1, <3>2
      <4> QED
        BY <1>0, <4>1
    <3>3. CASE ~(n + 1 <= Len(seq))
      <4>1. Len(b) = 0
        BY <3>1, <3>3
      <4> DEFINE l == Len(seq)
      <4>2. l \in Nat /\ n \in Nat /\ n <= l /\ ~(n + 1 <= l)
        BY <1>0, <3>3
      <4> HIDE DEF l
      <4>3. 0 = l - n
        BY <4>2
      <4> QED
        BY <4>1, <4>3 DEF l
    <3> QED
      BY <3>2, <3>3
  <2>5. ASSUME NEW i \in 1 .. Len(seq) - n PROVE b[i] = seq[n + i]
    <3>1. i \in 1 .. Len(seq) - (n + 1) + 1 /\ n + 1 + i - 1 = n + i
      BY <1>0
    <3> QED
      BY <2>3, <3>1
  <2> QED
    BY <2>3, <2>4, <2>5
<1> HIDE DEF a, b
<1>4. /\ a \o <<x>> \in Seq(S) /\ Len(a \o <<x>>) = n + 1
      /\ \A i \in 1 .. n : (a \o <<x>>)[i] = seq[i]
      /\ (a \o <<x>>)[n + 1] = x
  <2> DEFINE e == <<x>>
  <2>1. e \in Seq(S) /\ Len(e) = 1 /\ e[1] = x
    OBVIOUS
  <2> HIDE DEF e
  <2>2. /\ a \o e \in Seq(S) /\ Len(a \o e) = Len(a) + Len(e)
        /\ \A i \in 1 .. Len(a) + Len(e) : (a \o e)[i] = IF i <= Len(a) THEN a[i] ELSE e[i - Len(a)]
    BY <1>1, <2>1, ConcatProperties
  <2>3. /\ a \o e \in Seq(S) /\ Len(a \o e) = n + 1
        /\ \A i \in 1 .. n : (a \o e)[i] = seq[i]
        /\ (a \o e)[n + 1] = x
    BY <1>0, <1>1, <2>1, <2>2
  <2> QED
    BY <2>3 DEF e
<1>5. /\ new \in Seq(S) /\ DOMAIN new = 1 .. Len(seq) + 1
      /\ \A i \in 1 .. n : new[i] = seq[i]
      /\ new[n + 1] = x
      /\ \A i \in n + 2 .. Len(seq) + 1 : new[i] = seq[i - 1]
  <2> DEFINE h == a \o <<x>>
  <2>1. /\ h \in Seq(S) /\ Len(h) = n + 1 /\ new = h \o b
        /\ \A i \in 1 .. n : h[i] = seq[i]
        /\ h[n + 1] = x
    BY <1>3, <1>4
  <2> HIDE DEF h
  <2>2. /\ new \in Seq(S) /\ Len(new) = Len(h) + Len(b)
        /\ \A i \in 1 .. Len(h) + Len(b) : new[i] = IF i <= Len(h) THEN h[i] ELSE b[i - Len(h)]
    BY <1>2, <2>1, ConcatProperties
  <2>0. Len(new) = Len(seq) + 1
    BY <1>0, <1>2, <2>1, <2>2
  <2>3. DOMAIN new = 1 .. Len(seq) + 1
    BY <2>0, <2>2, LenProperties
  <2>4. \A i \in 1 .. n + 1 : new[i] = h[i]
    BY <1>0, <1>2, <2>1, <2>2
  <2>5. \A i \in n + 2 .. Len(seq) + 1 : new[i] = seq[i - 1]
    <3> TAKE i \in n + 2 .. Len(seq) + 1
    <3>1. new[i] = b[i - (n + 1)]
      BY <1>0, <1>2, <2>1, <2>2
    <3>2. i - (n + 1) \in 1 .. Len(seq) - n /\ n + (i - (n + 1)) = i - 1
      BY <1>0
    <3> QED
      BY <1>2, <3>1, <3>2
  <2> QED
    <3>1. \A i \in 1 .. n : new[i] = seq[i]
      BY <1>0, <2>1, <2>4
    <3>2. new[n + 1] = x
      <4>1. n + 1 \in 1 .. n + 1
        BY <1>0
      <4>2. new[n + 1] = h[n + 1]
        BY <2>4, <4>1
      <4> QED
        BY <2>1, <4>2
    <3> QED
      BY <2>2, <2>3, <2>5, <3>1, <3>2
<1>6. \A i \in DOMAIN new : new[i] = x \/ \E j \in DOMAIN seq : new[i] = seq[j]
  <2> TAKE i \in DOMAIN new
  <2>1. CASE i \in 1 .. n
    BY <1>0, <1>5, <2>1
  <2>2. CASE i = n + 1
    BY <1>5, <2>2
  <2>3. CASE i \in n + 2 .. Len(seq) + 1
    <3>1. i - 1 \in DOMAIN seq /\ new[i] = seq[i - 1]
      BY <1>0, <1>5, <2>3
    <3> QED
      BY <3>1
  <2> QED
    BY <1>0, <1>5, <2>1, <2>2, <2>3
<1>7. \A j \in DOMAIN seq : \E i \in DOMAIN new : new[i] = seq[j]
  <2> TAKE j \in DOMAIN seq
  <2>1. CASE j \in 1 .. n
    BY <1>0, <1>5, <2>1
  <2>2. CASE j \in n + 1 .. Len(seq)
    <3>1. j + 1 \in DOMAIN new /\ new[j + 1] = seq[j]
      BY <1>0, <1>5, <2>2
    <3> QED
      BY <3>1
  <2> QED
    BY <1>0, <2>1, <2>2
<1>8. n + 1 \in DOMAIN new /\ new[n + 1] = x
  BY <1>0, <1>5
<1>9. ToSet(new) = ToSet(seq) \cup {x}
  BY <1>6, <1>7, <1>8 DEF ToSet
<1> QED
  BY <1>5, <1>9 DEF new

-----------------------------------------------------------------------------
(* The parts of the actions *)

\* The archive grows by one message, in its room.
LEMMA StoreFacts ==
    ASSUME TypeOK, NEW m \in 1 .. Len(messages), Store(m)
    PROVE  /\ archive' \in [Rooms -> Seq(Ids)]
           /\ messages[m].room \in Rooms
           /\ \A r \in Rooms : StoredIn(r)' = IF r = messages[m].room
                                              THEN StoredIn(r) \cup {m} ELSE StoredIn(r)
           /\ Saved' = Saved \cup {m}
<1> DEFINE r0 == messages[m].room
           earlier == {i \in DOMAIN archive[r0] : archive[r0][i] <= m}
           place == Cardinality(earlier) + 1
<1>1. /\ messages \in Seq(Message) /\ Len(messages) \in Nat /\ MaxMessages \in Nat
      /\ archive \in [Rooms -> Seq(Ids)] /\ m \in Ids
  BY DeliveryAssumption DEF TypeOK, Ids
<1>2. r0 \in Rooms
  <2>1. messages[m] \in Message
    BY <1>1
  <2> QED
    BY <2>1 DEF Message
<1>3. archive[r0] \in Seq(Ids) /\ DOMAIN archive[r0] = 1 .. Len(archive[r0])
      /\ Len(archive[r0]) \in Nat
  BY <1>1, <1>2
<1>4. place \in 1 .. Len(archive[r0]) + 1
  <2> DEFINE l == Len(archive[r0])
  <2>0. l \in Nat /\ l \in Int /\ 1 \in Int
    BY <1>3
  <2> HIDE DEF l
  <2>1. IsFiniteSet(1 .. l) /\ Cardinality(1 .. l) = l
    <3>1. IsFiniteSet(1 .. l) /\ Cardinality(1 .. l) = IF 1 > l THEN 0 ELSE l - 1 + 1
      BY <2>0, FS_Interval
    <3> QED
      BY <2>0, <3>1
  <2>2. earlier \in SUBSET (1 .. l)
    BY <1>3 DEF l
  <2> HIDE DEF earlier
  <2>3. IsFiniteSet(earlier) /\ Cardinality(earlier) <= l
    BY <2>1, <2>2, FS_Subset
  <2>4. Cardinality(earlier) \in Nat
    BY <2>3, FS_CardinalityType
  <2> QED
    BY <2>0, <2>3, <2>4 DEF l
<1>5. archive' = [archive EXCEPT ![r0] = InsertAt(archive[r0], place, m)]
  BY DEF Store
<1> HIDE DEF place, r0
<1>6. /\ InsertAt(archive[r0], place, m) \in Seq(Ids)
      /\ ToSet(InsertAt(archive[r0], place, m)) = ToSet(archive[r0]) \cup {m}
  <2> DEFINE seq == archive[r0]
  <2>1. seq \in Seq(Ids) /\ m \in Ids /\ place \in 1 .. Len(seq) + 1
    BY <1>1, <1>3, <1>4
  <2> HIDE DEF seq
  <2>2. /\ InsertAt(seq, place, m) \in Seq(Ids)
        /\ ToSet(InsertAt(seq, place, m)) = ToSet(seq) \cup {m}
    BY <2>1, InsertToSet
  <2> QED
    BY <2>2 DEF seq
<1>7. archive' \in [Rooms -> Seq(Ids)]
  BY <1>1, <1>5, <1>6
<1>8. \A r \in Rooms : StoredIn(r)' = IF r = r0 THEN StoredIn(r) \cup {m} ELSE StoredIn(r)
  BY <1>1, <1>2, <1>5, <1>6 DEF StoredIn
<1>9. Saved' = Saved \cup {m}
  BY <1>2, <1>8 DEF Saved
<1> QED
  BY <1>2, <1>7, <1>8, <1>9 DEF r0

\* A broadcast adds the message to what is under way to the tabs of its room.
LEMMA ToRoomFacts ==
    ASSUME TypeOK, NEW m \in Ids, ToRoom(m)
    PROVE  /\ queue' \in [Clients -> Seq(Ids)]
           /\ \A c \in Clients :
                 /\ ToSet(queue[c]) \subseteq ToSet(queue'[c])
                 /\ ToSet(queue'[c]) \subseteq ToSet(queue[c]) \cup {m}
                 /\ tab[c] = "joined" /\ RoomOf[c] = messages[m].room =>
                       m \in ToSet(queue'[c])
<1>1. queue \in [Clients -> Seq(Ids)]
  BY DEF TypeOK
<1>2. \A c \in Clients :
         queue'[c] = IF tab[c] = "joined" /\ RoomOf[c] = messages[m].room
                     THEN Append(queue[c], m) ELSE queue[c]
  BY DEF ToRoom
<1>3. \A c \in Clients : /\ Append(queue[c], m) \in Seq(Ids)
                         /\ ToSet(Append(queue[c], m)) = ToSet(queue[c]) \cup {m}
  BY <1>1, AppendToSet
<1>4. queue' = [c \in Clients |-> queue'[c]]
  BY DEF ToRoom
<1>5. \A c \in Clients : queue'[c] \in Seq(Ids)
  BY <1>1, <1>2, <1>3
<1>6. queue' \in [Clients -> Seq(Ids)]
  BY <1>4, <1>5
<1> QED
  BY <1>2, <1>3, <1>6

\* The reply the consumer is at.
LEMMA CurrentFacts ==
    ASSUME TypeOK, position < Len(topic)
    PROVE  /\ position + 1 \in 1 .. Len(topic)
           /\ Current \in 1 .. Len(messages) /\ Current \in Ids
           /\ position + 1 \in 0 .. Len(topic)
<1>1. /\ topic \in Seq(1 .. Len(messages)) /\ position \in 0 .. Len(topic)
      /\ Len(topic) \in Nat
      /\ Len(messages) \in Nat /\ Len(messages) <= MaxMessages /\ MaxMessages \in Nat
  BY DeliveryAssumption DEF TypeOK
<1>2. position + 1 \in 1 .. Len(topic) /\ position + 1 \in 0 .. Len(topic)
  BY <1>1
<1>3. topic[position + 1] \in 1 .. Len(messages)
  BY <1>1, <1>2
<1> QED
  BY <1>1, <1>2, <1>3 DEF Current, Ids

-----------------------------------------------------------------------------
(* Frames *)

\* While the archive stays, so does what is stored.
LEMMA ArchiveKept ==
    ASSUME archive' = archive
    PROVE  (\A r \in Rooms : StoredIn(r)' = StoredIn(r)) /\ Saved' = Saved
BY DEF StoredIn, Saved

\* Messages are only added, at the end.
LEMMA MessagesKept ==
    ASSUME TypeOK, Next
    PROVE  /\ Len(messages) \in Nat /\ messages' \in Seq(Message)
           /\ Len(messages) <= Len(messages') /\ Len(messages') <= MaxMessages
           /\ Len(messages') \in Nat
           /\ \A m \in 1 .. Len(messages) : messages'[m] = messages[m]
<1>0. messages \in Seq(Message) /\ Len(messages) \in Nat /\ MaxMessages \in Nat
      /\ Len(messages) <= MaxMessages
  BY DeliveryAssumption DEF TypeOK
<1>1. CASE messages' = messages
  BY <1>0, <1>1
<1>2. CASE /\ Len(messages) < MaxMessages
           /\ \E x \in Message : messages' = Append(messages, x)
  <2>1. PICK x \in Message : messages' = Append(messages, x)
    BY <1>2
  <2>2. /\ messages' \in Seq(Message) /\ Len(messages') = Len(messages) + 1
        /\ \A m \in 1 .. Len(messages) : messages'[m] = messages[m]
    BY <1>0, <2>1, AppendProperties
  <2> QED
    BY <1>0, <1>2, <2>2
<1>3. ASSUME NEW c \in Clients, Receive(c) PROVE \E x \in Message : messages' = Append(messages, x)
  <2>1. [room |-> RoomOf[c], from |-> c, valid |-> TRUE, blank |-> FALSE] \in Message
    BY DeliveryAssumption DEF Message
  <2> QED
    BY <1>3, <2>1 DEF Receive
<1>4. ASSUME NEW r \in Rooms, NEW v \in BOOLEAN, NEW b \in BOOLEAN, Answer(r, v, b)
      PROVE  \E x \in Message : messages' = Append(messages, x)
  <2>1. [room |-> r, from |-> Services, valid |-> v, blank |-> b] \in Message
    BY DEF Message
  <2> QED
    BY <1>4, <2>1 DEF Answer
<1>5. \/ messages' = messages
      \/ \E c \in Clients : Receive(c)
      \/ \E r \in Rooms, v, b \in BOOLEAN : Answer(r, v, b)
  BY DEF Next, Consume, Receive, Open, ReadHistory, ShowHistory, HistoryFails, Join, Show,
         Drop, Close, SaveMessage, SaveMessageFails, BroadcastMessage, Answer, TakeReply,
         RejectReply, SaveReply, BroadcastReply, SaveReplyFails, Commit, Restart,
         backend, consumer, browser, bounds
<1>6. ASSUME \/ \E c \in Clients : Receive(c)
             \/ \E r \in Rooms, v, b \in BOOLEAN : Answer(r, v, b)
      PROVE  Len(messages) < MaxMessages
  BY <1>6 DEF Receive, Answer
<1> QED
  BY <1>1, <1>2, <1>3, <1>4, <1>5, <1>6

\* The only steps that store are the handler's and the consumer's.
LEMMA Stores ==
    ASSUME TypeOK, WorkIsOfPeople, Next
    PROVE  \/ archive' = archive
           \/ \E m \in 1 .. Len(messages) : Store(m) /\ (SaveMessage(m) \/ (SaveReply /\ m = Current))
<1>1. \/ archive' = archive
      \/ \E m \in Ids : SaveMessage(m)
      \/ SaveReply
  BY DEF Next, Consume, Receive, Open, ReadHistory, ShowHistory, HistoryFails, Join, Show,
         Drop, Close, SaveMessage, SaveMessageFails, BroadcastMessage, Answer, TakeReply,
         RejectReply, SaveReply, BroadcastReply, SaveReplyFails, Commit, Restart,
         backend, consumer, browser, bounds
<1>2. ASSUME NEW m \in Ids, SaveMessage(m) PROVE m \in 1 .. Len(messages) /\ Store(m)
  BY <1>2 DEF SaveMessage, WorkIsOfPeople
<1>3. ASSUME SaveReply PROVE Current \in 1 .. Len(messages) /\ Store(Current)
  BY <1>3, CurrentFacts DEF SaveReply, TypeOK
<1> QED
  BY <1>1, <1>2, <1>3

\* What is stored stays stored.
LEMMA StoredKept ==
    ASSUME TypeOK, WorkIsOfPeople, Next
    PROVE  (\A r \in Rooms : StoredIn(r) \subseteq StoredIn(r)') /\ Saved \subseteq Saved'
<1>1. CASE archive' = archive
  BY <1>1, ArchiveKept
<1>2. ASSUME NEW m \in 1 .. Len(messages), Store(m)
      PROVE  (\A r \in Rooms : StoredIn(r) \subseteq StoredIn(r)') /\ Saved \subseteq Saved'
  BY <1>2, StoreFacts
<1> QED
  BY <1>1, <1>2, Stores

-----------------------------------------------------------------------------
(* Types *)

LEMMA TypesStep ==
    ASSUME TypeOK, WorkIsOfPeople, Next
    PROVE  TypeOK'
<1>0. /\ messages \in Seq(Message) /\ Len(messages) \in Nat
      /\ work \in [Ids -> {"none", "save", "send"}]
      /\ archive \in [Rooms -> Seq(Ids)] /\ kafka \subseteq Ids
      /\ topic \in Seq(1 .. Len(messages)) /\ Len(topic) \in Nat
      /\ position \in 0 .. Len(topic) /\ committed \in -1 .. position
      /\ busy \in {"idle", "save", "send"}
      /\ (busy # "idle" => position < Len(topic))
      /\ tab \in [Clients -> {"closed", "loading", "loaded", "connecting",
                              "joined", "offline"}]
      /\ reply \in [Clients -> Seq(Ids)] /\ queue \in [Clients -> Seq(Ids)]
      /\ shown \in [Clients -> Seq(Ids)]
      /\ known \in [Clients -> SUBSET Ids] /\ excused \subseteq Ids
      /\ openings \in Nat /\ drops \in Nat /\ faults \in Nat /\ restarts \in Nat
  BY DEF TypeOK
<1>m. /\ messages' \in Seq(Message) /\ Len(messages') <= MaxMessages
      /\ Len(messages) <= Len(messages') /\ Len(messages') \in Nat
      /\ MaxMessages \in Nat
  BY MessagesKept, DeliveryAssumption
<1>t. topic \in Seq(1 .. Len(messages'))
  <2>1. 1 .. Len(messages) \subseteq 1 .. Len(messages')
    BY <1>0, <1>m
  <2> QED
    BY <1>0, <2>1, SeqMonotonic
<1>s. Saved \subseteq Ids
  BY <1>0, ElementOfSeq DEF Saved, StoredIn, ToSet
<1>a. archive' \in [Rooms -> Seq(Ids)]
  BY <1>0, StoreFacts, Stores
<1>w. \A c \in Clients : << >> \in Seq(Ids)
  OBVIOUS
<1>1. ASSUME NEW c \in Clients, Receive(c) PROVE TypeOK'
  BY <1>0, <1>m, <1>t, <1>a, <1>1
     DEF TypeOK, Receive, consumer, browser, bounds
<1>2. ASSUME NEW c \in Clients, Open(c) PROVE TypeOK'
  BY <1>0, <1>m, <1>t, <1>a, <1>2 DEF TypeOK, Open, backend, consumer
<1>3. ASSUME NEW c \in Clients, ReadHistory(c) PROVE TypeOK'
  <2>1. archive[RoomOf[c]] \in Seq(Ids)
    BY <1>0, DeliveryAssumption
  <2> QED
    BY <1>0, <1>m, <1>t, <1>a, <1>3, <2>1 DEF TypeOK, ReadHistory, backend, consumer, bounds
<1>4. ASSUME NEW c \in Clients, ShowHistory(c) PROVE TypeOK'
  BY <1>0, <1>m, <1>t, <1>a, <1>4 DEF TypeOK, ShowHistory, backend, consumer, bounds
<1>5. ASSUME NEW c \in Clients, HistoryFails(c) PROVE TypeOK'
  BY <1>0, <1>m, <1>t, <1>a, <1>5 DEF TypeOK, HistoryFails, Fault, backend, consumer
<1>6. ASSUME NEW c \in Clients, Join(c) PROVE TypeOK'
  BY <1>0, <1>m, <1>t, <1>a, <1>s, <1>6 DEF TypeOK, Join, backend, consumer, bounds
<1>7. ASSUME NEW c \in Clients, Show(c) PROVE TypeOK'
  <2>1. /\ queue[c] \in Seq(Ids) /\ queue[c] # << >>
        /\ Head(queue[c]) \in Ids /\ Tail(queue[c]) \in Seq(Ids)
        /\ Append(shown[c], Head(queue[c])) \in Seq(Ids)
    BY <1>0, <1>7, HeadTailProperties DEF Show
  <2> QED
    BY <1>0, <1>m, <1>t, <1>a, <1>7, <2>1 DEF TypeOK, Show, backend, consumer, bounds
<1>8. ASSUME NEW c \in Clients, Drop(c) PROVE TypeOK'
  BY <1>0, <1>m, <1>t, <1>a, <1>8 DEF TypeOK, Drop, backend, consumer
<1>9. ASSUME NEW c \in Clients, Close(c) PROVE TypeOK'
  BY <1>0, <1>m, <1>t, <1>a, <1>9 DEF TypeOK, Close, backend, consumer, bounds
<1>10. ASSUME NEW m \in Ids, SaveMessage(m) PROVE TypeOK'
  BY <1>0, <1>m, <1>t, <1>a, <1>10 DEF TypeOK, SaveMessage, consumer, browser, bounds
<1>11. ASSUME NEW m \in Ids, SaveMessageFails(m) PROVE TypeOK'
  BY <1>0, <1>m, <1>t, <1>a, <1>11 DEF TypeOK, SaveMessageFails, Fault, consumer, browser
<1>12. ASSUME NEW m \in Ids, BroadcastMessage(m) PROVE TypeOK'
  <2>1. queue' \in [Clients -> Seq(Ids)]
    BY <1>12, ToRoomFacts DEF BroadcastMessage
  <2> QED
    BY <1>0, <1>m, <1>t, <1>a, <1>12, <2>1 DEF TypeOK, BroadcastMessage, consumer, bounds
<1>13. ASSUME NEW r \in Rooms, NEW valid \in BOOLEAN, NEW blank \in BOOLEAN,
               Answer(r, valid, blank) PROVE TypeOK'
  <2>1. Len(messages') = Len(messages) + 1
    BY <1>0, <1>13 DEF Answer
  <2>2. /\ topic' \in Seq(1 .. Len(messages')) /\ Len(topic') = Len(topic) + 1
    BY <1>0, <1>t, <1>m, <1>13, <2>1, AppendProperties DEF Answer
  <2> QED
    BY <1>0, <1>m, <1>a, <1>13, <2>2 DEF TypeOK, Answer, browser, bounds
<1>14. ASSUME TakeReply PROVE TypeOK'
  BY <1>0, <1>m, <1>t, <1>a, <1>14 DEF TypeOK, TakeReply, backend, browser, bounds
<1>15. ASSUME RejectReply PROVE TypeOK'
  BY <1>0, <1>m, <1>t, <1>a, <1>15 DEF TypeOK, RejectReply, Past, backend, browser, bounds
<1>16. ASSUME SaveReply PROVE TypeOK'
  BY <1>0, <1>m, <1>t, <1>a, <1>16 DEF TypeOK, SaveReply, browser, bounds
<1>17. ASSUME SaveReplyFails PROVE TypeOK'
  <2>1. Current \in Ids
    BY <1>0, <1>17, CurrentFacts DEF SaveReplyFails
  <2> QED
    BY <1>0, <1>m, <1>t, <1>a, <1>17, <2>1
       DEF TypeOK, SaveReplyFails, Fault, Past, backend, browser
<1>18. ASSUME BroadcastReply PROVE TypeOK'
  <2>1. queue' \in [Clients -> Seq(Ids)]
    BY <1>0, <1>18, CurrentFacts, ToRoomFacts DEF BroadcastReply
  <2> QED
    BY <1>0, <1>m, <1>t, <1>a, <1>18, <2>1 DEF TypeOK, BroadcastReply, Past, backend, bounds
<1>19. ASSUME Commit PROVE TypeOK'
  BY <1>0, <1>m, <1>t, <1>a, <1>19 DEF TypeOK, Commit, backend, browser, bounds
<1>20. ASSUME Restart PROVE TypeOK'
  <2>1. ToSet(topic) \subseteq Ids
    BY <1>0, <1>m, ElementOfSeq DEF ToSet, Ids
  <2>2. excused' \subseteq Ids
    BY <1>0, <1>20, <2>1 DEF Restart
  <2>3. /\ position' \in 0 .. Len(topic) /\ committed' \in -1 .. position'
    BY <1>0, <1>20 DEF Restart
  <2> QED
    BY <1>0, <1>m, <1>t, <1>a, <1>20, <2>2, <2>3 DEF TypeOK, Restart
<1> QED
  BY <1>1, <1>2, <1>3, <1>4, <1>5, <1>6, <1>7, <1>8, <1>9, <1>10, <1>11, <1>12, <1>13,
     <1>14, <1>15, <1>16, <1>17, <1>18, <1>19, <1>20 DEF Next, Consume

-----------------------------------------------------------------------------
(* Work and archive *)

LEMMA WorkStep ==
    ASSUME TypeOK, WorkIsOfPeople, Next
    PROVE  WorkIsOfPeople'
<1>0. /\ work \in [Ids -> {"none", "save", "send"}]
      /\ messages \in Seq(Message) /\ Len(messages) \in Nat
      /\ MaxMessages \in Nat /\ Len(messages) <= MaxMessages
  BY DeliveryAssumption DEF TypeOK
<1>1. /\ Len(messages) <= Len(messages') /\ Len(messages') \in Nat
      /\ \A m \in 1 .. Len(messages) : messages'[m] = messages[m]
      /\ \A r \in Rooms : StoredIn(r) \subseteq StoredIn(r)'
  BY MessagesKept, StoredKept
<1>2. ASSUME NEW m \in 1 .. Len(messages) PROVE messages[m].room \in Rooms
  <2>1. messages[m] \in Message
    BY <1>0
  <2> QED
    BY <2>1 DEF Message
<1>3. ASSUME NEW m \in Ids, work[m] # "none", work'[m] = work[m]
      PROVE  /\ m \in 1 .. Len(messages')
             /\ messages'[m].from \in Clients
             /\ work'[m] = "send" => m \in StoredIn(messages[m].room)'
  <2>1. /\ m \in 1 .. Len(messages) /\ messages[m].from \in Clients
        /\ work[m] = "send" => m \in StoredIn(messages[m].room)
    BY <1>3 DEF WorkIsOfPeople
  <2>2. m \in 1 .. Len(messages') /\ messages'[m] = messages[m] /\ messages[m].room \in Rooms
    BY <1>0, <1>1, <1>2, <2>1
  <2>3. \A r \in Rooms : r = messages[m].room => StoredIn(r) \subseteq StoredIn(messages[m].room)'
    BY <2>2, <1>1 DEF StoredIn
  <2> QED
    BY <1>3, <2>1, <2>2, <2>3
<1>4. CASE \A m \in Ids : work'[m] = work[m] \/ work'[m] = "none"
  BY <1>3, <1>4 DEF WorkIsOfPeople
<1>5. ASSUME NEW c \in Clients, Receive(c) PROVE WorkIsOfPeople'
  <2> DEFINE new == Len(messages) + 1
  <2>1. /\ new \in 1 .. Len(messages') /\ messages'[new].from \in Clients
        /\ work'[new] = "save"
    BY <1>0, <1>5 DEF Receive, Ids
  <2>2. \A m \in Ids : m # new => work'[m] = work[m]
    BY <1>0, <1>5 DEF Receive
  <2> HIDE DEF new
  <2> QED
    BY <1>3, <2>1, <2>2 DEF WorkIsOfPeople
<1>6. ASSUME NEW n \in Ids, SaveMessage(n) PROVE WorkIsOfPeople'
  <2>1. /\ n \in 1 .. Len(messages) /\ messages[n].from \in Clients
        /\ Store(n) /\ messages' = messages
    BY <1>6 DEF SaveMessage, WorkIsOfPeople
  <2>2. n \in StoredIn(messages[n].room)'
    BY <1>2, <2>1, StoreFacts
  <2>3. \A m \in Ids : m # n => work'[m] = work[m]
    BY <1>0, <1>6 DEF SaveMessage
  <2> QED
    BY <1>3, <2>1, <2>2, <2>3 DEF WorkIsOfPeople
<1>7. \/ \A m \in Ids : work'[m] = work[m] \/ work'[m] = "none"
      \/ \E c \in Clients : Receive(c)
      \/ \E n \in Ids : SaveMessage(n)
  BY <1>0 DEF Next, Consume, Open, ReadHistory, ShowHistory, HistoryFails, Join, Show,
     Drop, Close, SaveMessageFails, BroadcastMessage, Answer, TakeReply,
     RejectReply, SaveReply, BroadcastReply, SaveReplyFails, Commit, Restart,
     backend, consumer, browser, bounds
<1> QED
  BY <1>4, <1>5, <1>6, <1>7

LEMMA HomeStep ==
    ASSUME TypeOK, WorkIsOfPeople, StoredAtHome, Next
    PROVE  StoredAtHome'
<1>1. /\ Len(messages) \in Nat /\ Len(messages') \in Nat
      /\ Len(messages) <= Len(messages')
      /\ \A m \in 1 .. Len(messages) : messages'[m] = messages[m]
  BY MessagesKept
<1>2. ASSUME NEW r \in Rooms, NEW m \in StoredIn(r)
      PROVE  m \in 1 .. Len(messages') /\ messages'[m].room = r
  BY <1>1 DEF StoredAtHome
<1>3. CASE archive' = archive
  BY <1>2, <1>3, ArchiveKept DEF StoredAtHome
<1>4. ASSUME NEW n \in 1 .. Len(messages), Store(n) PROVE StoredAtHome'
  <2>1. \A r \in Rooms : StoredIn(r)' = IF r = messages[n].room
                                        THEN StoredIn(r) \cup {n} ELSE StoredIn(r)
    BY <1>4, StoreFacts
  <2>2. n \in 1 .. Len(messages') /\ messages'[n].room = messages[n].room
    BY <1>1
  <2> QED
    BY <1>2, <2>1, <2>2 DEF StoredAtHome
<1> QED
  BY <1>3, <1>4, Stores

\* While there is work on a reply, the consumer stays at it.
LEMMA CurrentKept ==
    ASSUME TypeOK, Next, position < Len(topic), position' = position
    PROVE  /\ Current' = Current
           /\ messages'[Current] = messages[Current]
           /\ messages[Current].room \in Rooms
<1>1. /\ topic \in Seq(1 .. Len(messages)) /\ Len(topic) \in Nat
      /\ messages \in Seq(Message)
  BY DEF TypeOK
<1>2. position + 1 \in 1 .. Len(topic) /\ Current \in 1 .. Len(messages)
  BY CurrentFacts
<1>3. topic' = topic \/ \E x : topic' = Append(topic, x) /\ x \in Nat
  <2>1. ASSUME NEW r \in Rooms, NEW valid \in BOOLEAN, NEW blank \in BOOLEAN,
               Answer(r, valid, blank)
        PROVE  topic' = Append(topic, Len(messages) + 1) /\ Len(messages) + 1 \in Nat
    BY <1>1, <2>1 DEF Answer
  <2>2. \/ topic' = topic
        \/ \E r \in Rooms, valid, blank \in BOOLEAN : Answer(r, valid, blank)
    BY DEF Next, Consume, Receive, Open, ReadHistory, ShowHistory, HistoryFails, Join,
       Show, Drop, Close, SaveMessage, SaveMessageFails, BroadcastMessage, TakeReply,
       RejectReply, SaveReply, BroadcastReply, SaveReplyFails, Past, Commit, Restart,
       backend, consumer, browser, bounds
  <2> QED
    BY <2>1, <2>2
<1>4. topic'[position + 1] = topic[position + 1]
  <2>1. topic \in Seq(Nat)
    <3>1. 1 .. Len(messages) \subseteq Nat
      OBVIOUS
    <3> QED
      BY <1>1, <3>1, SeqMonotonic
  <2> QED
    BY <1>1, <1>2, <1>3, <2>1, AppendProperties
<1>5. messages'[Current] = messages[Current] /\ messages[Current] \in Message
  BY <1>1, <1>2, MessagesKept
<1> QED
  BY <1>4, <1>5 DEF Current, Message

LEMMA ServicesStep ==
    ASSUME TypeOK, WorkIsOfPeople, RepliesOfServices, Next
    PROVE  RepliesOfServices'
<1>0. /\ messages \in Seq(Message) /\ Len(messages) \in Nat
      /\ topic \in Seq(1 .. Len(messages)) /\ Len(topic) \in Nat
      /\ \A m \in 1 .. Len(messages) : messages'[m] = messages[m]
      /\ position \in 0 .. Len(topic)
      /\ (busy # "idle" => position < Len(topic))
  BY MessagesKept DEF TypeOK
<1>1. \A i \in 1 .. Len(topic') : messages'[topic'[i]].from = Services
  <2>1. \A i \in 1 .. Len(topic) : messages'[topic[i]].from = Services
    <3> TAKE i \in 1 .. Len(topic)
    <3>1. topic[i] \in 1 .. Len(messages)
      BY <1>0
    <3> QED
      BY <1>0, <3>1 DEF RepliesOfServices
  <2>2. ASSUME NEW r \in Rooms, NEW valid \in BOOLEAN, NEW blank \in BOOLEAN,
               Answer(r, valid, blank)
        PROVE  \A i \in 1 .. Len(topic') : messages'[topic'[i]].from = Services
    <3> DEFINE new == Len(messages) + 1
    <3>1. /\ Len(topic') = Len(topic) + 1 /\ topic'[Len(topic) + 1] = new
          /\ \A i \in 1 .. Len(topic) : topic'[i] = topic[i]
          /\ messages'[new].from = Services
      BY <1>0, <2>2 DEF Answer
    <3> HIDE DEF new
    <3> QED
      BY <1>0, <2>1, <3>1
  <2>3. \/ topic' = topic
        \/ \E r \in Rooms, valid, blank \in BOOLEAN : Answer(r, valid, blank)
    BY DEF Next, Consume, Receive, Open, ReadHistory, ShowHistory, HistoryFails, Join,
       Show, Drop, Close, SaveMessage, SaveMessageFails, BroadcastMessage, TakeReply,
       RejectReply, SaveReply, BroadcastReply, SaveReplyFails, Past, Commit, Restart,
       backend, consumer, browser, bounds
  <2> QED
    BY <2>1, <2>2, <2>3
<1>2. (busy = "send" => Current \in StoredIn(messages[Current].room))'
  <2>1. CASE busy' = "send" /\ busy = "send" /\ position' = position
    <3>1. Current \in StoredIn(messages[Current].room)
      BY <2>1 DEF RepliesOfServices
    <3>2. /\ Current' = Current /\ messages'[Current] = messages[Current]
          /\ messages[Current].room \in Rooms
      BY <1>0, <2>1, CurrentKept
    <3>3. \A r \in Rooms : r = messages[Current].room => Current \in ToSet(archive'[r])
      BY <3>1, StoredKept DEF StoredIn
    <3> QED
      BY <3>2, <3>3 DEF StoredIn
  <2>2. CASE SaveReply
    <3>1. /\ Current \in 1 .. Len(messages) /\ Store(Current)
          /\ messages' = messages /\ Current' = Current
      BY <1>0, <2>2, CurrentFacts DEF SaveReply, Current
    <3>2. /\ messages[Current].room \in Rooms
          /\ \A r \in Rooms : r = messages[Current].room => Current \in ToSet(archive'[r])
      BY <3>1, StoreFacts DEF StoredIn
    <3> QED
      BY <3>1, <3>2 DEF StoredIn
  <2>3. \/ busy' # "send"
        \/ busy = "send" /\ position' = position
        \/ SaveReply
    BY <1>0 DEF Next, Consume, Receive, Open, ReadHistory, ShowHistory, HistoryFails, Join,
       Show, Drop, Close, SaveMessage, SaveMessageFails, BroadcastMessage, Answer,
       TakeReply, RejectReply, BroadcastReply, SaveReplyFails, Past, Commit, Restart,
       backend, consumer, browser, bounds
  <2> QED
    BY <2>1, <2>2, <2>3
<1> QED
  BY <1>1, <1>2 DEF RepliesOfServices

LEMMA HistoryStep ==
    ASSUME TypeOK, WorkIsOfPeople, RepliesSaved, Next
    PROVE  RepliesSaved'
<1>0. reply \in [Clients -> Seq(Ids)] /\ Saved \subseteq Saved'
  BY StoredKept DEF TypeOK
<1>1. ASSUME NEW c \in Clients, reply'[c] = reply[c] \/ reply'[c] = << >>
      PROVE  ToSet(reply'[c]) \subseteq Saved'
  <2>1. ToSet(<< >>) = {}
    BY DEF ToSet
  <2> QED
    BY <1>0, <1>1, <2>1 DEF RepliesSaved
<1>2. ASSUME NEW c \in Clients, ReadHistory(c) PROVE RepliesSaved'
  <2>1. /\ reply'[c] = archive[RoomOf[c]] /\ RoomOf[c] \in Rooms
        /\ \A d \in Clients : d # c => reply'[d] = reply[d]
    BY <1>0, <1>2, DeliveryAssumption DEF ReadHistory
  <2>2. ToSet(reply'[c]) \subseteq Saved'
    BY <1>0, <2>1 DEF Saved, StoredIn
  <2> QED
    BY <1>1, <2>1, <2>2 DEF RepliesSaved
<1>3. \/ \A c \in Clients : reply'[c] = reply[c] \/ reply'[c] = << >>
      \/ \E c \in Clients : ReadHistory(c)
  BY <1>0 DEF Next, Consume, Receive, Open, ShowHistory, HistoryFails, Join, Show,
     Drop, Close, SaveMessage, SaveMessageFails, BroadcastMessage, Answer, TakeReply,
     RejectReply, SaveReply, BroadcastReply, SaveReplyFails, Commit, Restart,
     backend, consumer, browser, bounds
<1> QED
  BY <1>1, <1>2, <1>3 DEF RepliesSaved

-----------------------------------------------------------------------------
(* The properties *)

\* A broadcast of a saved message keeps what is under way to what was saved.
LEMMA SafeBroadcast ==
    ASSUME TypeOK, NothingUnsavedGetsOut, NEW m \in Saved, m \in Ids, ToRoom(m),
           archive' = archive, shown' = shown
    PROVE  \A c \in Clients : (ToSet(shown[c]) \cup ToSet(queue[c]))' \subseteq Saved'
<1>1. Saved' = Saved
  BY ArchiveKept
<1>2. \A c \in Clients : ToSet(queue'[c]) \subseteq ToSet(queue[c]) \cup {m}
  BY ToRoomFacts
<1> QED
  BY <1>1, <1>2 DEF NothingUnsavedGetsOut

\* A message a call is about to send, and the reply the consumer is about to
\* send, are saved.
LEMMA SendsSaved ==
    ASSUME TypeOK, WorkIsOfPeople, RepliesOfServices
    PROVE  /\ \A m \in Ids : work[m] = "send" => m \in Saved
           /\ busy = "send" => Current \in Saved /\ Current \in Ids
<1>1. \A m \in 1 .. Len(messages) : messages[m].room \in Rooms
  <2> TAKE m \in 1 .. Len(messages)
  <2>1. messages[m] \in Message
    BY DEF TypeOK
  <2> QED
    BY <2>1 DEF Message
<1>2. \A m \in Ids : work[m] = "send" => m \in Saved
  BY <1>1 DEF WorkIsOfPeople, Saved
<1>3. ASSUME busy = "send" PROVE Current \in Saved /\ Current \in Ids
  <2>1. Current \in 1 .. Len(messages) /\ Current \in Ids
    BY <1>3, CurrentFacts DEF TypeOK
  <2>2. Current \in StoredIn(messages[Current].room)
    BY <1>3 DEF RepliesOfServices
  <2> QED
    BY <1>1, <2>1, <2>2 DEF Saved
<1> QED
  BY <1>2, <1>3

LEMMA UnsavedStep ==
    ASSUME TypeOK, WorkIsOfPeople, RepliesOfServices, RepliesSaved,
           NothingUnsavedGetsOut, Next
    PROVE  NothingUnsavedGetsOut'
<1>0. /\ shown \in [Clients -> Seq(Ids)] /\ queue \in [Clients -> Seq(Ids)]
      /\ Saved \subseteq Saved'
      /\ kafka \subseteq Saved
      /\ \A c \in Clients : ToSet(shown[c]) \cup ToSet(queue[c]) \subseteq Saved
  BY StoredKept DEF TypeOK, NothingUnsavedGetsOut
<1>1. kafka' \subseteq Saved'
  <2>1. \/ kafka' = kafka
        \/ \E m \in Ids : work[m] = "send" /\ kafka' = kafka \cup {m}
    BY DEF Next, Consume, Receive, Open, ReadHistory, ShowHistory, HistoryFails, Join,
       Show, Drop, Close, SaveMessage, SaveMessageFails, BroadcastMessage, Answer,
       TakeReply, RejectReply, SaveReply, BroadcastReply, SaveReplyFails, Commit,
       Restart, backend, consumer, browser, bounds
  <2> QED
    BY <1>0, <2>1, SendsSaved
<1>2. ToSet(<< >>) = {}
  BY DEF ToSet
<1>3. CASE \A c \in Clients : /\ shown'[c] = shown[c] \/ shown'[c] = << >>
                              /\ queue'[c] = queue[c] \/ queue'[c] = << >>
  BY <1>0, <1>1, <1>2, <1>3 DEF NothingUnsavedGetsOut
<1>4. ASSUME NEW c \in Clients, ShowHistory(c) PROVE NothingUnsavedGetsOut'
  <2>1. /\ \A d \in Clients : shown'[d] = IF d = c THEN reply[c] ELSE shown[d]
        /\ queue' = queue
    BY <1>0, <1>4 DEF ShowHistory
  <2>2. ToSet(reply[c]) \subseteq Saved
    BY DEF RepliesSaved
  <2> QED
    BY <1>0, <1>1, <2>1, <2>2 DEF NothingUnsavedGetsOut
<1>5. ASSUME NEW c \in Clients, Show(c) PROVE NothingUnsavedGetsOut'
  <2>1. /\ queue[c] \in Seq(Ids) /\ queue[c] # << >> /\ shown[c] \in Seq(Ids)
        /\ \A d \in Clients : d # c => shown'[d] = shown[d] /\ queue'[d] = queue[d]
        /\ shown'[c] = shown[c] \/ shown'[c] = Append(shown[c], Head(queue[c]))
        /\ queue'[c] = Tail(queue[c])
    BY <1>0, <1>5 DEF Show
  <2>2. /\ Head(queue[c]) \in Ids
        /\ ToSet(queue[c]) = {Head(queue[c])} \cup ToSet(Tail(queue[c]))
    BY <2>1, HeadTailToSet
  <2>3. ToSet(shown'[c]) \subseteq ToSet(shown[c]) \cup {Head(queue[c])}
    <3>1. ToSet(Append(shown[c], Head(queue[c]))) = ToSet(shown[c]) \cup {Head(queue[c])}
      BY <2>1, <2>2, AppendToSet
    <3> QED
      BY <2>1, <3>1
  <2>4. ToSet(shown'[c]) \cup ToSet(queue'[c]) \subseteq Saved
    BY <1>0, <2>1, <2>2, <2>3
  <2> QED
    BY <1>0, <1>1, <2>1, <2>4 DEF NothingUnsavedGetsOut
<1>6. ASSUME NEW m \in Ids, BroadcastMessage(m) PROVE NothingUnsavedGetsOut'
  <2>1. m \in Saved /\ ToRoom(m) /\ archive' = archive /\ shown' = shown
    BY <1>6, SendsSaved DEF BroadcastMessage
  <2> QED
    BY <1>1, <2>1, SafeBroadcast DEF NothingUnsavedGetsOut
<1>7. ASSUME BroadcastReply PROVE NothingUnsavedGetsOut'
  <2>1. /\ Current \in Saved /\ Current \in Ids
        /\ ToRoom(Current) /\ archive' = archive /\ shown' = shown
    BY <1>7, SendsSaved DEF BroadcastReply, backend
  <2> QED
    BY <1>1, <2>1, SafeBroadcast DEF NothingUnsavedGetsOut
<1>8. \/ \A c \in Clients : /\ shown'[c] = shown[c] \/ shown'[c] = << >>
                            /\ queue'[c] = queue[c] \/ queue'[c] = << >>
      \/ \E c \in Clients : ShowHistory(c) \/ Show(c)
      \/ \E m \in Ids : BroadcastMessage(m)
      \/ BroadcastReply
  BY <1>0 DEF Next, Consume, Receive, Open, ReadHistory, HistoryFails, Join,
     Drop, Close, SaveMessage, SaveMessageFails, Answer, TakeReply,
     RejectReply, SaveReply, SaveReplyFails, Commit, Restart,
     backend, consumer, browser, bounds
<1> QED
  BY <1>3, <1>4, <1>5, <1>6, <1>7, <1>8

\* A tab that stays joined keeps what it shows or is about to show, whatever
\* happens to it.
LEMMA NothingForgotten ==
    ASSUME TypeOK, Next, NEW c \in Clients, tab'[c] = "joined", tab[c] = "joined"
    PROVE  /\ \A m \in ToSet(shown[c]) \cup ToSet(queue[c]) :
                 m \in ToSet(shown'[c]) \cup ToSet(queue'[c]) \/ messages[m].blank
           /\ known'[c] = known[c]
<1>0. /\ shown \in [Clients -> Seq(Ids)] /\ queue \in [Clients -> Seq(Ids)]
      /\ known \in [Clients -> SUBSET Ids]
      /\ tab \in [Clients -> {"closed", "loading", "loaded", "connecting",
                              "joined", "offline"}]
  BY DEF TypeOK
<1>1. CASE shown'[c] = shown[c] /\ queue'[c] = queue[c] /\ known'[c] = known[c]
  BY <1>1
<1>2. ASSUME Show(c)
      PROVE  /\ \A m \in ToSet(shown[c]) \cup ToSet(queue[c]) :
                   m \in ToSet(shown'[c]) \cup ToSet(queue'[c]) \/ messages[m].blank
             /\ known'[c] = known[c]
  <2>1. /\ queue[c] \in Seq(Ids) /\ queue[c] # << >> /\ shown[c] \in Seq(Ids)
        /\ queue'[c] = Tail(queue[c]) /\ known' = known
    BY <1>0, <1>2 DEF Show
  <2>2. /\ Head(queue[c]) \in Ids
        /\ ToSet(queue[c]) = {Head(queue[c])} \cup ToSet(Tail(queue[c]))
    BY <2>1, HeadTailToSet
  <2>3. CASE messages[Head(queue[c])].blank
    <3>1. shown'[c] = shown[c]
      BY <1>2, <2>3 DEF Show
    <3> QED
      BY <2>1, <2>2, <2>3, <3>1
  <2>4. CASE ~messages[Head(queue[c])].blank
    <3>1. shown'[c] = Append(shown[c], Head(queue[c]))
      BY <1>0, <1>2, <2>4 DEF Show
    <3>2. ToSet(shown'[c]) = ToSet(shown[c]) \cup {Head(queue[c])}
      BY <2>1, <2>2, <3>1, AppendToSet
    <3> QED
      BY <2>1, <2>2, <3>2
  <2> QED
    BY <2>3, <2>4
<1>3. ASSUME NEW m \in Ids, ToRoom(m), shown' = shown, known' = known
      PROVE  /\ ToSet(shown[c]) \cup ToSet(queue[c])
                   \subseteq ToSet(shown'[c]) \cup ToSet(queue'[c])
             /\ known'[c] = known[c]
  BY <1>3, ToRoomFacts
<1>4. ASSUME BroadcastReply
      PROVE  Current \in Ids /\ ToRoom(Current) /\ shown' = shown /\ known' = known
  BY <1>4, CurrentFacts DEF BroadcastReply, TypeOK
<1>5. ASSUME NEW m \in Ids, BroadcastMessage(m)
      PROVE  ToRoom(m) /\ shown' = shown /\ known' = known
  BY <1>5 DEF BroadcastMessage
<1>6. ASSUME NEW d \in Clients,
             \/ Open(d) \/ ReadHistory(d) \/ ShowHistory(d) \/ HistoryFails(d)
             \/ Join(d) \/ Drop(d) \/ Close(d) \/ (Show(d) /\ d # c)
      PROVE  shown'[c] = shown[c] /\ queue'[c] = queue[c] /\ known'[c] = known[c]
  <2>1. CASE d # c
    BY <1>0, <1>6, <2>1 DEF Open, ReadHistory, ShowHistory, HistoryFails, Join, Drop, Close, Show
  <2>2. CASE d = c
    BY <1>0, <1>6, <2>2 DEF Open, ReadHistory, ShowHistory, HistoryFails, Join, Drop, Close
  <2> QED
    BY <2>1, <2>2
<1>7. ~Restart
  BY <1>0 DEF Restart
<1>8. \/ shown'[c] = shown[c] /\ queue'[c] = queue[c] /\ known'[c] = known[c]
      \/ Show(c)
      \/ \E m \in Ids : BroadcastMessage(m)
      \/ BroadcastReply
  BY <1>6, <1>7 DEF Next, Consume, Receive, SaveMessage, SaveMessageFails, Answer, TakeReply,
     RejectReply, SaveReply, SaveReplyFails, Commit, browser
<1> QED
  BY <1>1, <1>2, <1>3, <1>4, <1>5, <1>8

\* A message about to be sent is sent, unless the backend restarts first.
LEMMA SendKept ==
    ASSUME TypeOK, Next, NEW m \in 1 .. Len(messages), m \in Ids, work[m] = "send"
    PROVE  \/ work'[m] = "send"
           \/ BroadcastMessage(m)
           \/ Restart /\ m \in excused'
<1>0. /\ work \in [Ids -> {"none", "save", "send"}] /\ Len(messages) \in Nat
  BY DEF TypeOK
<1>1. ASSUME NEW c \in Clients, Receive(c) PROVE work'[m] = "send"
  <2>1. m # Len(messages) + 1
    BY <1>0
  <2> QED
    BY <1>0, <1>1, <2>1 DEF Receive
<1>2. ASSUME NEW n \in Ids, SaveMessage(n) \/ SaveMessageFails(n) PROVE work'[m] = "send"
  <2>1. m # n
    BY <1>2 DEF SaveMessage, SaveMessageFails
  <2> QED
    BY <1>0, <1>2, <2>1 DEF SaveMessage, SaveMessageFails
<1>3. ASSUME NEW n \in Ids, BroadcastMessage(n), n # m PROVE work'[m] = "send"
  BY <1>0, <1>3 DEF BroadcastMessage
<1>4. ASSUME Restart PROVE m \in excused'
  BY <1>0, <1>4 DEF Restart
<1>5. \/ work' = work
      \/ \E c \in Clients : Receive(c)
      \/ \E n \in Ids : SaveMessage(n) \/ SaveMessageFails(n) \/ BroadcastMessage(n)
      \/ Restart
  BY DEF Next, Consume, Open, ReadHistory, ShowHistory, HistoryFails, Join, Show,
     Drop, Close, Answer, TakeReply, RejectReply, SaveReply, BroadcastReply,
     SaveReplyFails, Commit, backend
<1> QED
  BY <1>1, <1>2, <1>3, <1>4, <1>5

LEMMA GapStep ==
    ASSUME TypeOK, WorkIsOfPeople, StoredAtHome, RepliesOfServices, NoGapWhileJoined, Next
    PROVE  NoGapWhileJoined'
<1> SUFFICES ASSUME NEW c \in Clients, tab'[c] = "joined",
                    NEW m \in StoredIn(RoomOf[c])', m \notin known'[c]
             PROVE  \/ m \in ToSet(shown'[c]) \cup ToSet(queue'[c])
                    \/ work'[m] = "send"
                    \/ busy' = "send" /\ Current' = m
                    \/ messages'[m].blank
  BY DEF NoGapWhileJoined
<1>0. /\ work \in [Ids -> {"none", "save", "send"}]
      /\ tab \in [Clients -> {"closed", "loading", "loaded", "connecting",
                              "joined", "offline"}]
      /\ RoomOf[c] \in Rooms
      /\ (busy # "idle" => position < Len(topic))
      /\ known \in [Clients -> SUBSET Ids]
      /\ Len(messages) \in Nat
  BY DeliveryAssumption DEF TypeOK
<1>1. CASE tab[c] # "joined"
  <2>1. Join(c)
    BY <1>0, <1>1 DEF Next, Consume, Receive, Open, ReadHistory, ShowHistory, HistoryFails,
       Join, Show, Drop, Close, SaveMessage, SaveMessageFails, BroadcastMessage, Answer,
       TakeReply, RejectReply, SaveReply, BroadcastReply, SaveReplyFails, Commit, Restart,
       backend, consumer, browser, bounds
  <2>2. known'[c] = Saved /\ archive' = archive
    BY <1>0, <2>1 DEF Join, backend
  <2> QED
    BY <1>0, <2>2 DEF Saved, StoredIn
<1>2. CASE tab[c] = "joined" /\ m \in StoredIn(RoomOf[c])
  <2>1. /\ \A n \in ToSet(shown[c]) \cup ToSet(queue[c]) :
              n \in ToSet(shown'[c]) \cup ToSet(queue'[c]) \/ messages[n].blank
        /\ known'[c] = known[c]
    BY <1>2, NothingForgotten
  <2>2. /\ m \in 1 .. Len(messages) /\ messages[m].room = RoomOf[c] /\ m \in Ids
    BY <1>0, <1>2, DeliveryAssumption DEF StoredAtHome, TypeOK, Ids
  <2>3. \/ m \in ToSet(shown[c]) \cup ToSet(queue[c])
        \/ work[m] = "send"
        \/ busy = "send" /\ Current = m
        \/ messages[m].blank
    BY <1>2, <2>1 DEF NoGapWhileJoined
  <2>6. messages'[m] = messages[m]
    BY <2>2, MessagesKept
  <2>4. CASE work[m] = "send"
    <3>1. ASSUME BroadcastMessage(m) PROVE m \in ToSet(queue'[c])
      BY <1>2, <2>2, <3>1, ToRoomFacts DEF BroadcastMessage
    <3>2. ~Restart
      BY <1>0 DEF Restart
    <3>3. work'[m] = "send" \/ BroadcastMessage(m)
      BY <2>2, <2>4, <3>2, SendKept
    <3> QED
      BY <3>1, <3>3
  <2>5. CASE busy = "send" /\ Current = m
    <3>1. ASSUME BroadcastReply PROVE m \in ToSet(queue'[c])
      BY <1>2, <2>2, <2>5, <3>1, ToRoomFacts DEF BroadcastReply
    <3>2. (busy' = "send" /\ position' = position) \/ BroadcastReply
      BY <1>0, <1>2, <2>5 DEF Next, Consume, Receive, Open, ReadHistory, ShowHistory,
         HistoryFails, Join, Show, Drop, Close, SaveMessage, SaveMessageFails,
         BroadcastMessage, Answer, TakeReply, RejectReply, SaveReply,
         SaveReplyFails, Commit, Restart, backend, consumer, browser, bounds
    <3>3. position' = position => Current' = m
      BY <1>0, <2>5, CurrentKept
    <3> QED
      BY <3>1, <3>2, <3>3
  <2> QED
    BY <2>1, <2>3, <2>4, <2>5, <2>6
<1>3. CASE m \notin StoredIn(RoomOf[c])
  <2>1. PICK n \in 1 .. Len(messages) : Store(n) /\ (SaveMessage(n) \/ (SaveReply /\ n = Current))
    BY <1>0, <1>3, Stores, ArchiveKept
  <2>2. m = n
    BY <1>0, <1>3, <2>1, StoreFacts
  <2>3. ASSUME SaveMessage(m) PROVE work'[m] = "send"
    <3>1. work[m] = "save" /\ m \in Ids
      BY <1>0, <2>1, <2>2, <2>3, DeliveryAssumption DEF SaveMessage, TypeOK, Ids
    <3> QED
      BY <1>0, <2>3, <3>1 DEF SaveMessage
  <2>4. ASSUME SaveReply PROVE busy' = "send" /\ Current' = Current
    BY <2>4 DEF SaveReply, Current
  <2> QED
    BY <2>1, <2>2, <2>3, <2>4
<1> QED
  BY <1>1, <1>2, <1>3

LEMMA ServedStep ==
    ASSUME TypeOK, WorkIsOfPeople, StoredAtHome, RepliesOfServices, SavedReachesServices, Next
    PROVE  SavedReachesServices'
<1> SUFFICES ASSUME NEW m \in Saved', messages'[m].from \in Clients
             PROVE  m \in kafka' \/ work'[m] = "send" \/ m \in excused'
  BY DEF SavedReachesServices
<1>0. /\ work \in [Ids -> {"none", "save", "send"}]
      /\ \A n \in 1 .. Len(messages) : n \in Ids /\ messages'[n] = messages[n]
      /\ (busy # "idle" => position < Len(topic))
      /\ kafka \subseteq kafka' /\ excused \subseteq excused'
      /\ Len(messages) \in Nat
  <2>1. kafka \subseteq kafka' /\ excused \subseteq excused'
    BY DEF Next, Consume, Receive, Open, ReadHistory, ShowHistory, HistoryFails, Join,
       Show, Drop, Close, SaveMessage, SaveMessageFails, BroadcastMessage, Answer,
       TakeReply, RejectReply, SaveReply, BroadcastReply, SaveReplyFails, Commit,
       Restart, backend, consumer, browser, bounds
  <2>2. \A n \in 1 .. Len(messages) : n \in Ids
    BY DeliveryAssumption DEF TypeOK, Ids
  <2>3. \A n \in 1 .. Len(messages) : messages'[n] = messages[n]
    BY MessagesKept
  <2>4. /\ work \in [Ids -> {"none", "save", "send"}] /\ Len(messages) \in Nat
        /\ (busy # "idle" => position < Len(topic))
    BY DEF TypeOK
  <2> QED
    BY <2>1, <2>2, <2>3, <2>4
<1>1. CASE m \in Saved
  <2>1. m \in 1 .. Len(messages)
    BY <1>1 DEF Saved, StoredAtHome
  <2>2. m \in kafka \/ work[m] = "send" \/ m \in excused
    BY <1>0, <1>1, <2>1 DEF SavedReachesServices
  <2>3. CASE work[m] = "send"
    <3>1. work'[m] = "send" \/ BroadcastMessage(m) \/ m \in excused'
      BY <1>0, <2>1, <2>3, SendKept
    <3> QED
      BY <3>1 DEF BroadcastMessage
  <2> QED
    BY <1>0, <2>2, <2>3
<1>2. CASE m \notin Saved
  <2>1. PICK n \in 1 .. Len(messages) : Store(n) /\ (SaveMessage(n) \/ (SaveReply /\ n = Current))
    BY <1>2, Stores, ArchiveKept
  <2>2. m = n /\ messages[m].from \in Clients
    BY <1>0, <1>2, <2>1, StoreFacts
  <2>3. ASSUME SaveMessage(m) PROVE work'[m] = "send"
    BY <1>0, <2>1, <2>2, <2>3 DEF SaveMessage
  <2>4. ASSUME SaveReply, m = Current PROVE FALSE
    <3>1. position + 1 \in 1 .. Len(topic)
      BY <1>0, <2>4, CurrentFacts DEF SaveReply
    <3>2. messages[Current].from = Services
      BY <3>1 DEF RepliesOfServices, Current
    <3> QED
      BY <2>2, <2>4, <3>2, ServicesAssumption
  <2> QED
    BY <2>1, <2>2, <2>3, <2>4
<1> QED
  BY <1>1, <1>2

LEMMA PassedStep ==
    ASSUME TypeOK, WorkIsOfPeople, RepliesOfServices, NoReplyPassedOver, Next
    PROVE  NoReplyPassedOver'
<1>0. /\ messages \in Seq(Message) /\ Len(messages) \in Nat
      /\ topic \in Seq(1 .. Len(messages)) /\ Len(topic) \in Nat
      /\ \A m \in 1 .. Len(messages) : messages'[m] = messages[m]
      /\ position \in 0 .. Len(topic) /\ committed \in -1 .. position
      /\ (busy # "idle" => position < Len(topic))
      /\ Saved \subseteq Saved'
  BY MessagesKept, StoredKept DEF TypeOK
<1>e. excused \subseteq excused'
  BY DEF Next, Consume, Receive, Open, ReadHistory, ShowHistory, HistoryFails, Join,
     Show, Drop, Close, SaveMessage, SaveMessageFails, BroadcastMessage, Answer,
     TakeReply, RejectReply, SaveReply, BroadcastReply, SaveReplyFails, Commit,
     Restart, backend, consumer, browser, bounds
<1>t. \A i \in 1 .. Len(topic) : topic'[i] = topic[i] /\ topic[i] \in 1 .. Len(messages)
  <2>1. \A i \in 1 .. Len(topic) : topic[i] \in 1 .. Len(messages)
    BY <1>0
  <2>2. ASSUME NEW r \in Rooms, NEW valid \in BOOLEAN, NEW blank \in BOOLEAN,
               Answer(r, valid, blank)
        PROVE  \A i \in 1 .. Len(topic) : topic'[i] = topic[i]
    BY <1>0, <2>2 DEF Answer
  <2>3. \/ topic' = topic
        \/ \E r \in Rooms, valid, blank \in BOOLEAN : Answer(r, valid, blank)
    BY DEF Next, Consume, Receive, Open, ReadHistory, ShowHistory, HistoryFails, Join,
       Show, Drop, Close, SaveMessage, SaveMessageFails, BroadcastMessage, TakeReply,
       RejectReply, SaveReply, BroadcastReply, SaveReplyFails, Past, Commit, Restart,
       backend, consumer, browser, bounds
  <2> QED
    BY <2>1, <2>2, <2>3
\* Whatever was accounted for stays so.
<1>1. ASSUME NEW i \in 1 .. Len(topic),
             topic[i] \in Saved \cup excused' \/ ~messages[topic[i]].valid
      PROVE  topic'[i] \in Saved' \cup excused' \/ ~messages'[topic'[i]].valid
  BY <1>0, <1>t, <1>1
<1>2. CASE position' <= position /\ position' \in Nat
  <2>1. \A i \in 1 .. position' : i \in 1 .. Len(topic) /\ i \in 1 .. position
    BY <1>0, <1>2
  <2> QED
    BY <1>1, <1>e, <2>1 DEF NoReplyPassedOver
\* Past: the reply was rejected, dropped or broadcast.
<1>3. ASSUME Past, busy # "idle" \/ position < Len(topic),
             Current \in Saved \cup excused' \/ ~messages[Current].valid
      PROVE  NoReplyPassedOver'
  <2>1. position' = position + 1 /\ position + 1 \in 1 .. Len(topic)
    BY <1>0, <1>3, CurrentFacts DEF Past
  <2>2. topic[position + 1] \in Saved \cup excused' \/ ~messages[topic[position + 1]].valid
    BY <1>3 DEF Current
  <2>3. \A i \in 1 .. position' : i \in 1 .. position \/ i = position + 1
    BY <1>0, <2>1
  <2>4. \A i \in 1 .. position : i \in 1 .. Len(topic)
    BY <1>0
  <2> QED
    BY <1>1, <1>e, <2>1, <2>2, <2>3, <2>4 DEF NoReplyPassedOver
<1>4. ASSUME RejectReply PROVE NoReplyPassedOver'
  BY <1>3, <1>4 DEF RejectReply
<1>5. ASSUME SaveReplyFails PROVE NoReplyPassedOver'
  BY <1>3, <1>5 DEF SaveReplyFails
<1>6. ASSUME BroadcastReply PROVE NoReplyPassedOver'
  BY <1>3, <1>6, SendsSaved DEF BroadcastReply
<1>7. ASSUME Restart PROVE NoReplyPassedOver'
  <2>1. CASE committed = -1
    <3>1. position' = Len(topic) /\ ToSet(topic) \subseteq excused'
      BY <1>7, <2>1 DEF Restart
    <3>2. \A i \in 1 .. Len(topic) : topic[i] \in excused'
      BY <1>0, <3>1 DEF ToSet
    <3> QED
      BY <1>1, <3>1, <3>2 DEF NoReplyPassedOver
  <2>2. CASE committed # -1
    <3>1. position' = committed /\ committed \in 0 .. position
      BY <1>0, <1>7, <2>2 DEF Restart
    <3> QED
      BY <1>0, <1>2, <3>1
  <2> QED
    BY <2>1, <2>2
<1>8. position' = position \/ RejectReply \/ SaveReplyFails \/ BroadcastReply \/ Restart
  BY DEF Next, Consume, Receive, Open, ReadHistory, ShowHistory, HistoryFails, Join,
     Show, Drop, Close, SaveMessage, SaveMessageFails, BroadcastMessage, Answer,
     TakeReply, SaveReply, Commit, backend, consumer, browser, bounds
<1> QED
  BY <1>0, <1>2, <1>4, <1>5, <1>6, <1>7, <1>8

-----------------------------------------------------------------------------
(* The theorems *)

LEMMA InvInit == Init => Inv
<1> SUFFICES ASSUME Init PROVE Inv
  OBVIOUS
<1>0. {MaxMessages, MaxOpenings, MaxDrops, MaxFaults, MaxRestarts} \subseteq Nat
  BY DeliveryAssumption
<1>1. ToSet(<< >>) = {} /\ Saved = {} /\ \A r \in Rooms : StoredIn(r) = {}
  BY DEF Init, ToSet, Saved, StoredIn
<1>2. TypeOK
  BY <1>0 DEF Init, TypeOK
<1>3. \A m \in Ids : work[m] = "none"
  BY DEF Init
<1> QED
  BY <1>1, <1>2, <1>3 DEF Init, Inv, WorkIsOfPeople, StoredAtHome, RepliesOfServices,
     RepliesSaved, NothingUnsavedGetsOut, NoGapWhileJoined, SavedReachesServices,
     NoReplyPassedOver

LEMMA InvStep == Inv /\ [Next]_vars => Inv'
<1> SUFFICES ASSUME Inv, [Next]_vars PROVE Inv'
  OBVIOUS
<1>1. CASE Next
  BY <1>1, TypesStep, WorkStep, HomeStep, ServicesStep, HistoryStep, UnsavedStep, GapStep,
     ServedStep, PassedStep DEF Inv
<1>2. CASE UNCHANGED vars
  BY <1>2 DEF Inv, vars, backend, consumer, browser, bounds, TypeOK, WorkIsOfPeople,
     StoredAtHome, RepliesOfServices, RepliesSaved, NothingUnsavedGetsOut,
     NoGapWhileJoined, SavedReachesServices, NoReplyPassedOver, StoredIn, Saved, Current
<1> QED
  BY <1>1, <1>2

LEMMA Invariance == Spec => []Inv
<1> QED
  BY InvInit, InvStep, PTL DEF Spec

\* The maps keep the shape the code gives them, and the consumer never resumes
\* behind what it committed.
THEOREM TypeCorrect == Spec => []TypeOK
<1>1. Inv => TypeOK
  BY DEF Inv
<1> QED
  BY <1>1, Invariance, PTL

\* The handler and the consumer save before they tell anybody: whatever a tab
\* shows or Kafka carries is in the archive.
THEOREM OnlySavedGetsOut == Spec => []NothingUnsavedGetsOut
<1>1. Inv => NothingUnsavedGetsOut
  BY DEF Inv
<1> QED
  BY <1>1, Invariance, PTL

\* A tab that stays connected misses nothing saved since it joined, however
\* many others join, leave, send or lose their connection meanwhile.
THEOREM NoGap == Spec => []NoGapWhileJoined
<1>1. Inv => NoGapWhileJoined
  BY DEF Inv
<1> QED
  BY <1>1, Invariance, PTL

\* handleMessage forwards what it saved: only a restart between the two leaves
\* the services without a message of the archive.
THEOREM SavedIsForwarded == Spec => []SavedReachesServices
<1>1. Inv => SavedReachesServices
  BY DEF Inv
<1> QED
  BY <1>1, Invariance, PTL

\* The consumer accounts for each reply before it goes on: what it is past was
\* saved, rejected by validation, dropped by a failing save, or skipped by a
\* restart that found no committed offset and began at the end of the topic.
\* A restart with a committed offset repeats replies and skips none.
THEOREM NothingPassedOver == Spec => []NoReplyPassedOver
<1>1. Inv => NoReplyPassedOver
  BY DEF Inv
<1> QED
  BY <1>1, Invariance, PTL

=============================================================================
