--------------------------- MODULE FileUploadProofs ---------------------------
(***************************************************************************)
(* What FileUpload keeps for all rooms, requests, names and numbers of     *)
(* failures: an upload leaves its traces in one order, bucket, event, row, *)
(* and every failure cuts that order at one place.                         *)
(***************************************************************************)
EXTENDS FileUpload, TLAPS

\* The object of a request past PutObject is in the bucket, and the row of its
\* room is there before the attachment's.
TracesInOrder ==
    \A u \in Uploads :
        /\ at[u] \in {"stored", "find", "insert", "save", "ok"} => Key(u) \in objects
        /\ at[u] \in {"save", "ok"} => RoomOf[u] \in conferences

\* A request that has met no failure itself has left nothing before PutObject;
\* when it finds no bucket there was none when it came.
NothingTooEarly ==
    \A u \in Uploads \ hit :
        /\ at[u] \in {"idle", "head", "create", "put"} =>
              Key(u) \notin objects \cup queued \cup announced
        /\ at[u] = "head" /\ ~bucket => u \in early
        /\ at[u] = "create" => u \in early

Inv ==
    /\ TypeOK
    /\ TracesInOrder
    /\ ListedCanBeFetched
    /\ NothingTooEarly
    /\ WholeOrNothing

\* A key tells its request, a row its room: names that look alike in the bucket
\* do no harm.
LEMMA KeysDiffer ==
    ASSUME NEW u \in Uploads, NEW v \in Uploads
    PROVE  /\ Key(u) = Key(v) => u = v
           /\ Key(u) \in Keys
           /\ Row(u).key = Key(u) /\ Row(u).room = RoomOf[u]
           /\ RoomOf[u] \in Rooms
           /\ MayDownload(RoomOf[u], Key(u))
<1>1. Key(u).of = u /\ Key(v).of = v
  BY DEF Key
<1>2. RoomOf[u] \in Rooms
  BY UploadAssumption
<1>3. Key(u).prefix = SafeName[RoomOf[u]]
  BY DEF Key
<1> QED
  BY <1>1, <1>2, <1>3 DEF Keys, Row, MayDownload

LEMMA InvInit == Init => Inv
<1> SUFFICES ASSUME Init PROVE Inv
  OBVIOUS
<1> USE DEF Init
<1>1. TypeOK
  BY DEF TypeOK, Places, Ended
<1>2. TracesInOrder /\ ListedCanBeFetched
  BY DEF TracesInOrder, ListedCanBeFetched
<1>3. NothingTooEarly /\ WholeOrNothing
  BY DEF NothingTooEarly, WholeOrNothing
<1> QED
  BY <1>1, <1>2, <1>3 DEF Inv

-----------------------------------------------------------------------------
(* Every step keeps the invariant. *)

\* Types.
LEMMA TypesStep == TypeOK /\ [Next]_vars => TypeOK'
<1> SUFFICES ASSUME TypeOK, [Next]_vars PROVE TypeOK'
  OBVIOUS
<1> USE DEF GoesTo, Fails, bounds, rows, kafka, store
<1>0. /\ \A u \in Uploads : Key(u) \in Keys
      /\ {"idle", "ok", "failed", "head", "create", "put", "stored", "find",
          "insert", "save"} = Places
      /\ MaxFaults \in Nat /\ MaxRestarts \in Nat
  BY KeysDiffer, UploadAssumption DEF Places, Ended
<1>1. ASSUME NEW u \in Uploads, Post(u) PROVE TypeOK'
  <2>1. at' \in [Uploads -> Places]
    <3>1. CASE bucketReady
      BY <1>0, <1>1, <3>1 DEF Post, TypeOK
    <3>2. CASE ~bucketReady
      BY <1>0, <1>1, <3>2 DEF Post, TypeOK
    <3> QED
      BY <3>1, <3>2
  <2> QED
    BY <1>1, <2>1 DEF Post, TypeOK
<1>2. ASSUME NEW u \in Uploads, HeadBucket(u) PROVE TypeOK'
  <2>1. at' \in [Uploads -> Places]
    BY <1>0, <1>2 DEF HeadBucket, TypeOK
  <2>2. CASE bucket /\ bucketReady' = TRUE /\ UNCHANGED bounds
    BY <1>2, <2>1, <2>2 DEF HeadBucket, TypeOK
  <2>3. CASE UNCHANGED <<bucketReady, bounds>>
    BY <1>2, <2>1, <2>3 DEF HeadBucket, TypeOK
  <2>4. CASE faults' = faults + 1 /\ hit' = hit \cup {u} /\ UNCHANGED <<bucketReady, early, restarts>>
    BY <1>2, <2>1, <2>4 DEF HeadBucket, TypeOK
  <2> QED
    BY <1>2, <2>2, <2>3, <2>4 DEF HeadBucket
<1>3. ASSUME NEW u \in Uploads, CreateBucket(u) PROVE TypeOK'
  <2>1. at' \in [Uploads -> Places]
    BY <1>0, <1>3 DEF CreateBucket, TypeOK
  <2>2. CASE bucket' = TRUE /\ bucketReady' = TRUE /\ UNCHANGED bounds
    BY <1>3, <2>1, <2>2 DEF CreateBucket, TypeOK
  <2>3. CASE UNCHANGED <<bucket, bucketReady, bounds>>
    BY <1>3, <2>1, <2>3 DEF CreateBucket, TypeOK
  <2>4. CASE /\ bucket' \in {bucket, TRUE} /\ UNCHANGED bucketReady
             /\ faults' = faults + 1 /\ hit' = hit \cup {u}
             /\ UNCHANGED <<early, restarts>>
    <3>1. bucket' \in BOOLEAN /\ (bucketReady' => bucket')
      BY <2>4 DEF TypeOK
    <3>2. hit' \subseteq Uploads /\ early' \subseteq Uploads /\ faults' \in Nat
          /\ restarts' \in Nat /\ bucketReady' \in BOOLEAN
      BY <2>4 DEF TypeOK
    <3> QED
      BY <1>3, <2>1, <3>1, <3>2 DEF CreateBucket, TypeOK
  <2> QED
    BY <1>3, <2>2, <2>3, <2>4 DEF CreateBucket
<1>4. ASSUME NEW u \in Uploads, PutObject(u) PROVE TypeOK'
  BY <1>0, <1>4 DEF PutObject, TypeOK
<1>5. ASSUME NEW u \in Uploads, Announce(u) PROVE TypeOK'
  BY <1>0, <1>5 DEF Announce, TypeOK
<1>6. ASSUME NEW u \in Uploads, FindConference(u) PROVE TypeOK'
  <2>1. at' \in [Uploads -> Places]
    <3>1. CASE RoomOf[u] \in conferences
      BY <1>0, <1>6, <3>1 DEF FindConference, TypeOK
    <3>2. CASE RoomOf[u] \notin conferences
      BY <1>0, <1>6, <3>2 DEF FindConference, TypeOK
    <3> QED
      BY <3>1, <3>2
  <2> QED
    BY <1>6, <2>1 DEF FindConference, TypeOK
<1>7. ASSUME NEW u \in Uploads, InsertConference(u) PROVE TypeOK'
  BY <1>0, <1>7, KeysDiffer DEF InsertConference, TypeOK
<1>8. ASSUME NEW u \in Uploads, SaveAttachment(u) PROVE TypeOK'
  <2>1. attachments' \subseteq {Row(v) : v \in Uploads}
    BY <1>8 DEF SaveAttachment, TypeOK
  <2> QED
    BY <1>0, <1>8, <2>1 DEF SaveAttachment, TypeOK
<1>9. ASSUME NEW key \in queued, Sent(key) PROVE TypeOK'
  BY <1>9 DEF Sent, TypeOK
<1>10. ASSUME NEW r \in Rooms, OtherConference(r) PROVE TypeOK'
  BY <1>10 DEF OtherConference, TypeOK
<1>11. CASE Restart
  <2>1. at' \in [Uploads -> Places]
    BY <1>0, <1>11 DEF Restart, TypeOK
  <2>2. hit' \subseteq Uploads /\ restarts' \in Nat
    BY <1>11 DEF Restart, TypeOK
  <2> QED
    BY <1>11, <2>1, <2>2 DEF Restart, TypeOK
<1>12. CASE UNCHANGED vars
  BY <1>12 DEF vars, TypeOK
<1> QED
  BY <1>1, <1>2, <1>3, <1>4, <1>5, <1>6, <1>7, <1>8, <1>9, <1>10, <1>11, <1>12
  DEF Next, Handle

\* What a request leaves, it leaves in order.
LEMMA TracesStep ==
    Inv /\ TypeOK' /\ [Next]_vars => TracesInOrder' /\ ListedCanBeFetched'
<1> SUFFICES ASSUME Inv, TypeOK', [Next]_vars
             PROVE  TracesInOrder' /\ ListedCanBeFetched'
  OBVIOUS
<1> USE DEF GoesTo, Fails, bounds, rows, kafka, store
<1>0. /\ TypeOK /\ TracesInOrder /\ ListedCanBeFetched
      /\ at \in [Uploads -> Places] /\ RoomOf \in [Uploads -> Rooms]
      /\ \A u \in Uploads : /\ Row(u).key = Key(u) /\ Row(u).room = RoomOf[u]
                            /\ MayDownload(RoomOf[u], Key(u))
  BY KeysDiffer, UploadAssumption DEF Inv, TypeOK
<1>1. ASSUME NEW u \in Uploads, Post(u) PROVE TracesInOrder' /\ ListedCanBeFetched'
  <2>1. TracesInOrder'
    BY <1>0, <1>1 DEF Post, TracesInOrder
  <2>2. ListedCanBeFetched'
    BY <1>0, <1>1 DEF Post, TracesInOrder, ListedCanBeFetched
  <2> QED
    BY <2>1, <2>2
<1>2. ASSUME NEW u \in Uploads, HeadBucket(u) PROVE TracesInOrder' /\ ListedCanBeFetched'
  <2>1. TracesInOrder'
    BY <1>0, <1>2 DEF HeadBucket, TracesInOrder
  <2>2. ListedCanBeFetched'
    BY <1>0, <1>2 DEF HeadBucket, TracesInOrder, ListedCanBeFetched
  <2> QED
    BY <2>1, <2>2
<1>3. ASSUME NEW u \in Uploads, CreateBucket(u) PROVE TracesInOrder' /\ ListedCanBeFetched'
  <2>1. TracesInOrder'
    BY <1>0, <1>3 DEF CreateBucket, TracesInOrder
  <2>2. ListedCanBeFetched'
    BY <1>0, <1>3 DEF CreateBucket, TracesInOrder, ListedCanBeFetched
  <2> QED
    BY <2>1, <2>2
<1>4. ASSUME NEW u \in Uploads, PutObject(u) PROVE TracesInOrder' /\ ListedCanBeFetched'
  <2>1. TracesInOrder'
    BY <1>0, <1>4 DEF PutObject, TracesInOrder
  <2>2. ListedCanBeFetched'
    BY <1>0, <1>4 DEF PutObject, TracesInOrder, ListedCanBeFetched
  <2> QED
    BY <2>1, <2>2
<1>5. ASSUME NEW u \in Uploads, Announce(u) PROVE TracesInOrder' /\ ListedCanBeFetched'
  <2>1. TracesInOrder'
    BY <1>0, <1>5 DEF Announce, TracesInOrder
  <2>2. ListedCanBeFetched'
    BY <1>0, <1>5 DEF Announce, TracesInOrder, ListedCanBeFetched
  <2> QED
    BY <2>1, <2>2
<1>6. ASSUME NEW u \in Uploads, FindConference(u) PROVE TracesInOrder' /\ ListedCanBeFetched'
  <2>1. TracesInOrder'
    BY <1>0, <1>6 DEF FindConference, TracesInOrder
  <2>2. ListedCanBeFetched'
    BY <1>0, <1>6 DEF FindConference, TracesInOrder, ListedCanBeFetched
  <2> QED
    BY <2>1, <2>2
<1>7. ASSUME NEW u \in Uploads, InsertConference(u) PROVE TracesInOrder' /\ ListedCanBeFetched'
  <2>1. TracesInOrder'
    BY <1>0, <1>7 DEF InsertConference, TracesInOrder
  <2>2. ListedCanBeFetched'
    BY <1>0, <1>7 DEF InsertConference, TracesInOrder, ListedCanBeFetched
  <2> QED
    BY <2>1, <2>2
<1>8. ASSUME NEW u \in Uploads, SaveAttachment(u) PROVE TracesInOrder' /\ ListedCanBeFetched'
  <2>1. TracesInOrder'
    BY <1>0, <1>8 DEF SaveAttachment, TracesInOrder
  <2>2. ListedCanBeFetched'
    BY <1>0, <1>8 DEF SaveAttachment, TracesInOrder, ListedCanBeFetched
  <2> QED
    BY <2>1, <2>2
<1>9. ASSUME NEW key \in queued, Sent(key) PROVE TracesInOrder' /\ ListedCanBeFetched'
  BY <1>0, <1>9 DEF Sent, TracesInOrder, ListedCanBeFetched
<1>10. ASSUME NEW r \in Rooms, OtherConference(r) PROVE TracesInOrder' /\ ListedCanBeFetched'
  BY <1>0, <1>10 DEF OtherConference, TracesInOrder, ListedCanBeFetched
<1>11. CASE Restart
  BY <1>0, <1>11 DEF Restart, Ended, TracesInOrder, ListedCanBeFetched
<1>12. CASE UNCHANGED vars
  BY <1>0, <1>12 DEF vars, TracesInOrder, ListedCanBeFetched
<1> QED
  BY <1>1, <1>2, <1>3, <1>4, <1>5, <1>6, <1>7, <1>8, <1>9, <1>10, <1>11, <1>12
  DEF Next, Handle

-----------------------------------------------------------------------------
\* A request that meets no failure does everything or nothing.
LEMMA WholeStep ==
    Inv /\ TypeOK' /\ [Next]_vars => NothingTooEarly' /\ WholeOrNothing'
<1> SUFFICES ASSUME Inv, TypeOK', [Next]_vars
             PROVE  NothingTooEarly' /\ WholeOrNothing'
  OBVIOUS
<1> USE DEF GoesTo, Fails, bounds, rows, kafka, store
<1>0. /\ TypeOK /\ TracesInOrder /\ ListedCanBeFetched /\ NothingTooEarly /\ WholeOrNothing
      /\ at \in [Uploads -> Places]
      /\ bucketReady => bucket
      /\ \A u, v \in Uploads : Key(u) = Key(v) => u = v
  BY KeysDiffer DEF Inv, TypeOK
<1>1. ASSUME NEW u \in Uploads, Post(u) PROVE NothingTooEarly' /\ WholeOrNothing'
  <2>1. NothingTooEarly'
    BY <1>0, <1>1 DEF Post, NothingTooEarly
  <2>2. WholeOrNothing'
    BY <1>0, <1>1 DEF Post, WholeOrNothing
  <2> QED
    BY <2>1, <2>2
<1>2. ASSUME NEW u \in Uploads, HeadBucket(u) PROVE NothingTooEarly' /\ WholeOrNothing'
  <2>1. NothingTooEarly'
    BY <1>0, <1>2 DEF HeadBucket, NothingTooEarly
  <2>2. WholeOrNothing'
    BY <1>0, <1>2 DEF HeadBucket, WholeOrNothing
  <2> QED
    BY <2>1, <2>2
<1>3. ASSUME NEW u \in Uploads, CreateBucket(u) PROVE NothingTooEarly' /\ WholeOrNothing'
  <2>1. NothingTooEarly'
    BY <1>0, <1>3 DEF CreateBucket, NothingTooEarly
  <2>2. WholeOrNothing'
    BY <1>0, <1>3 DEF CreateBucket, NothingTooEarly, WholeOrNothing
  <2> QED
    BY <2>1, <2>2
<1>4. ASSUME NEW u \in Uploads, PutObject(u) PROVE NothingTooEarly' /\ WholeOrNothing'
  <2>1. NothingTooEarly'
    BY <1>0, <1>4 DEF PutObject, NothingTooEarly
  <2>2. WholeOrNothing'
    BY <1>0, <1>4 DEF PutObject, WholeOrNothing
  <2> QED
    BY <2>1, <2>2
<1>5. ASSUME NEW u \in Uploads, Announce(u) PROVE NothingTooEarly' /\ WholeOrNothing'
  <2>1. NothingTooEarly'
    BY <1>0, <1>5 DEF Announce, NothingTooEarly
  <2>2. WholeOrNothing'
    BY <1>0, <1>5 DEF Announce, WholeOrNothing
  <2> QED
    BY <2>1, <2>2
<1>6. ASSUME NEW u \in Uploads, FindConference(u) PROVE NothingTooEarly' /\ WholeOrNothing'
  <2>1. NothingTooEarly'
    BY <1>0, <1>6 DEF FindConference, NothingTooEarly
  <2>2. WholeOrNothing'
    BY <1>0, <1>6 DEF FindConference, WholeOrNothing
  <2> QED
    BY <2>1, <2>2
<1>7. ASSUME NEW u \in Uploads, InsertConference(u) PROVE NothingTooEarly' /\ WholeOrNothing'
  <2>1. NothingTooEarly'
    BY <1>0, <1>7 DEF InsertConference, NothingTooEarly
  <2>2. WholeOrNothing'
    BY <1>0, <1>7 DEF InsertConference, WholeOrNothing
  <2> QED
    BY <2>1, <2>2
<1>8. ASSUME NEW u \in Uploads, SaveAttachment(u) PROVE NothingTooEarly' /\ WholeOrNothing'
  <2>1. NothingTooEarly'
    BY <1>0, <1>8 DEF SaveAttachment, NothingTooEarly
  <2>2. WholeOrNothing'
    BY <1>0, <1>8 DEF SaveAttachment, WholeOrNothing, TracesInOrder
  <2> QED
    BY <2>1, <2>2
<1>9. ASSUME NEW key \in queued, Sent(key) PROVE NothingTooEarly' /\ WholeOrNothing'
  BY <1>0, <1>9 DEF Sent, NothingTooEarly, WholeOrNothing
<1>10. ASSUME NEW r \in Rooms, OtherConference(r) PROVE NothingTooEarly' /\ WholeOrNothing'
  BY <1>0, <1>10 DEF OtherConference, NothingTooEarly, WholeOrNothing
<1>11. CASE Restart
  <2>1. \A u \in Uploads \ hit' : u \notin hit /\ at'[u] = at[u] /\ at[u] \in Ended
    BY <1>0, <1>11 DEF Restart
  <2> QED
    BY <1>0, <1>11, <2>1 DEF Restart, Ended, NothingTooEarly, WholeOrNothing
<1>12. CASE UNCHANGED vars
  BY <1>12, <1>0 DEF vars, NothingTooEarly, WholeOrNothing
<1> QED
  BY <1>1, <1>2, <1>3, <1>4, <1>5, <1>6, <1>7, <1>8, <1>9, <1>10, <1>11, <1>12
  DEF Next, Handle

-----------------------------------------------------------------------------
(* Theorems *)

LEMMA Invariant == Spec => []Inv
<1>1. Inv /\ [Next]_vars => Inv'
  <2> SUFFICES ASSUME Inv, [Next]_vars PROVE Inv'
    OBVIOUS
  <2>1. TypeOK'
    BY TypesStep DEF Inv
  <2> QED
    BY <2>1, TracesStep, WholeStep DEF Inv
<1> QED
  BY InvInit, <1>1, PTL DEF Spec

\* Requests, the bucket, the events and the rows have their types, and a backend
\* that skips ensureBucket is right that the bucket exists.
THEOREM TypeCorrect == Spec => []TypeOK
<1>1. Inv => TypeOK
  BY DEF Inv
<1> QED
  BY <1>1, Invariant, PTL

\* However uploads overlap and whatever fails, a file that is listed or announced
\* is in the bucket and its room may hand out a link to it.
THEOREM FilesFetchable == Spec => []ListedCanBeFetched
<1>1. Inv => ListedCanBeFetched
  BY DEF Inv
<1> QED
  BY <1>1, Invariant, PTL

\* An upload that meets no failure itself is done completely, or it raced for a
\* bucket that was missing when it came and has left nothing.
THEOREM UploadsWhole == Spec => []WholeOrNothing
<1>1. Inv => WholeOrNothing
  BY DEF Inv
<1> QED
  BY <1>1, Invariant, PTL

=============================================================================
