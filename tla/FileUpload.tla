----------------------------- MODULE FileUpload ------------------------------
(***************************************************************************)
(* Context files: POST /conference/:name/upload (uploadFile) and the link  *)
(* GET /conference/:name/download hands out (createDownloadUrl).           *)
(*                                                                         *)
(* A file goes to three places in turn: an object of the S3 bucket, an     *)
(* event for MLin and a row of the archive.  The backend makes the bucket  *)
(* when the first upload misses it.  Each request is answered by itself,   *)
(* so uploads overlap at every await, any call may fail, and what was done *)
(* before is not undone.  An action is the code between two awaits; a call *)
(* that fails may have been carried out all the same.                      *)
(***************************************************************************)
EXTENDS Naturals

CONSTANTS
    Rooms,        \* conferences
    Uploads,      \* requests; a client that tries again makes a new one
    RoomOf,       \* the room each request names
    SafeName,     \* sanitizeSegment of a room's name: not one to one
    MaxFaults,    \* bound: calls to S3 or PostgreSQL that fail, events lost
    MaxRestarts   \* bound: restarts of the backend

ASSUME UploadAssumption ==
    /\ RoomOf \in [Uploads -> Rooms]
    /\ SafeName \in [Rooms -> STRING]
    /\ MaxFaults \in Nat /\ MaxRestarts \in Nat

VARIABLES
    at,            \* where each request is
    bucket,        \* S3: the bucket exists
    bucketReady,   \* backend memory
    objects,       \* S3: the keys stored
    queued,        \* events in the Kafka client of the backend
    announced,     \* conference.chat.file: the keys sent
    conferences,   \* PostgreSQL: rooms with a row
    attachments,   \* PostgreSQL: the rows
    hit,           \* requests that met a failing call or a restart (for properties)
    early,         \* requests that came when there was no bucket yet (same)
    faults, restarts

store == <<bucket, bucketReady, objects>>
kafka == <<queued, announced>>
rows == <<conferences, attachments>>
bounds == <<hit, early, faults, restarts>>
vars == <<at, store, kafka, rows, bounds>>

Init ==
    /\ at = [u \in Uploads |-> "idle"]
    /\ bucket \in BOOLEAN /\ bucketReady = FALSE /\ objects = {}
    /\ queued = {} /\ announced = {}
    /\ conferences = {} /\ attachments = {}
    /\ hit = {} /\ early = {} /\ faults = 0 /\ restarts = 0

-----------------------------------------------------------------------------
(* Helpers *)

Ended == {"idle", "ok", "failed"}

GoesTo(u, place) == at' = [at EXCEPT ![u] = place]

\* conferences/<room>/<time>-<uuid>-<file>: the room is all one can tell of it.
Key(u) == [prefix |-> SafeName[RoomOf[u]], of |-> u]

Row(u) == [room |-> RoomOf[u], key |-> Key(u)]

\* createDownloadUrl checks the prefix, not that the object is there.
MayDownload(r, key) == key.prefix = SafeName[r]

\* The awaited call of request u fails and ends it.
Fails(u) ==
    /\ faults < MaxFaults /\ faults' = faults + 1
    /\ GoesTo(u, "failed")
    /\ hit' = hit \cup {u}
    /\ UNCHANGED <<early, restarts>>

-----------------------------------------------------------------------------
(* Mutations: actions below with a plausible bug (no action uses them). *)

\* The bucket is created without a look whether it is there.
PostCreates(u) ==
    /\ at[u] = "idle"
    /\ GoesTo(u, IF bucketReady THEN "put" ELSE "create")
    /\ early' = IF bucket THEN early ELSE early \cup {u}
    /\ UNCHANGED <<store, kafka, rows, hit, faults, restarts>>

\* An object that cannot be stored is treated like a bucket that is missing.
PutRegardless(u) ==
    /\ at[u] = "put"
    /\ \/ objects' = objects \cup {Key(u)} /\ UNCHANGED bounds
       \/ /\ faults < MaxFaults /\ faults' = faults + 1
          /\ UNCHANGED <<objects, hit, early, restarts>>
    /\ GoesTo(u, "stored")
    /\ UNCHANGED <<bucket, bucketReady, kafka, rows>>

\* The event waits for the conference's row.
AnnounceKnown(u) ==
    /\ at[u] = "stored"
    /\ queued' = IF RoomOf[u] \in conferences THEN queued \cup {Key(u)} ELSE queued
    /\ GoesTo(u, "find")
    /\ UNCHANGED <<store, announced, rows, bounds>>

-----------------------------------------------------------------------------
(* uploadFile *)

\* The file is there and S3 is configured.
Post(u) ==
    /\ at[u] = "idle"
    /\ GoesTo(u, IF bucketReady THEN "put" ELSE "head")
    /\ early' = IF bucket THEN early ELSE early \cup {u}
    /\ UNCHANGED <<store, kafka, rows, hit, faults, restarts>>

\* ensureBucket: any failure of HeadBucket reads as a missing bucket.
HeadBucket(u) ==
    /\ at[u] = "head"
    /\ \/ bucket /\ bucketReady' = TRUE /\ GoesTo(u, "put") /\ UNCHANGED bounds
       \/ ~bucket /\ GoesTo(u, "create") /\ UNCHANGED <<bucketReady, bounds>>
       \/ /\ faults < MaxFaults /\ faults' = faults + 1
          /\ GoesTo(u, "create")
          /\ hit' = hit \cup {u}
          /\ UNCHANGED <<bucketReady, early, restarts>>
    /\ UNCHANGED <<bucket, objects, kafka, rows>>

\* ensureBucket: a bucket that exists by now is an error of most services.
CreateBucket(u) ==
    /\ at[u] = "create"
    /\ \/ /\ bucket' = TRUE /\ bucketReady' = TRUE
          /\ GoesTo(u, "put")
          /\ UNCHANGED bounds
       \/ /\ bucket
          /\ GoesTo(u, "failed")
          /\ UNCHANGED <<bucket, bucketReady, bounds>>
       \/ bucket' \in {bucket, TRUE} /\ Fails(u) /\ UNCHANGED bucketReady
    /\ UNCHANGED <<objects, kafka, rows>>

PutObject(u) ==
    /\ at[u] = "put"
    /\ \/ objects' = objects \cup {Key(u)} /\ GoesTo(u, "stored") /\ UNCHANGED bounds
       \/ objects' \in {objects, objects \cup {Key(u)}} /\ Fails(u)
    /\ UNCHANGED <<bucket, bucketReady, kafka, rows>>

\* Sign the link, which asks nobody, and hand the event to the Kafka client.
Announce(u) ==
    /\ at[u] = "stored"
    /\ queued' = queued \cup {Key(u)}
    /\ GoesTo(u, "find")
    /\ UNCHANGED <<store, announced, rows, bounds>>

\* saveAttachment: getOrCreateConference looks for the row,
FindConference(u) ==
    /\ at[u] = "find"
    /\ \/ /\ GoesTo(u, IF RoomOf[u] \in conferences THEN "save" ELSE "insert")
          /\ UNCHANGED bounds
       \/ Fails(u)
    /\ UNCHANGED <<store, kafka, rows>>

\* inserts it, or takes the one inserted meanwhile,
InsertConference(u) ==
    /\ at[u] = "insert"
    /\ \/ /\ conferences' = conferences \cup {RoomOf[u]}
          /\ GoesTo(u, "save")
          /\ UNCHANGED bounds
       \/ conferences' \in {conferences, conferences \cup {RoomOf[u]}} /\ Fails(u)
    /\ UNCHANGED <<store, kafka, attachments>>

\* and the attachment follows; then the request is answered.
SaveAttachment(u) ==
    /\ at[u] = "save"
    /\ \/ /\ attachments' = attachments \cup {Row(u)}
          /\ GoesTo(u, "ok")
          /\ UNCHANGED bounds
       \/ attachments' \in {attachments, attachments \cup {Row(u)}} /\ Fails(u)
    /\ UNCHANGED <<store, kafka, conferences>>

-----------------------------------------------------------------------------
(* Around it *)

\* The Kafka client sends an event, or loses it: nobody waits for it.
Sent(key) ==
    /\ key \in queued
    /\ queued' = queued \ {key}
    /\ \/ announced' = announced \cup {key} /\ UNCHANGED faults
       \/ faults < MaxFaults /\ faults' = faults + 1 /\ UNCHANGED announced
    /\ UNCHANGED <<at, store, rows, hit, early, restarts>>

\* Another handler (a token, a chat message) makes the row of a room.
OtherConference(r) ==
    /\ r \notin conferences
    /\ conferences' = conferences \cup {r}
    /\ UNCHANGED <<at, store, kafka, attachments, bounds>>

\* The backend stops and starts: the clients of running requests get an error.
Restart ==
    /\ restarts < MaxRestarts /\ restarts' = restarts + 1
    /\ hit' = hit \cup {u \in Uploads : at[u] \notin Ended}
    /\ at' = [u \in Uploads |-> IF at[u] \in Ended THEN at[u] ELSE "failed"]
    /\ bucketReady' = FALSE
    /\ queued' = {}
    /\ UNCHANGED <<bucket, objects, announced, rows, early, faults>>

-----------------------------------------------------------------------------
Handle(u) ==
    \/ HeadBucket(u) \/ CreateBucket(u) \/ PutObject(u) \/ Announce(u)
    \/ FindConference(u) \/ InsertConference(u) \/ SaveAttachment(u)

Next ==
    \/ \E u \in Uploads : Post(u) \/ Handle(u)
    \/ \E key \in queued : Sent(key)
    \/ \E r \in Rooms : OtherConference(r)
    \/ Restart

\* Calls are answered, and the Kafka client sends what it holds.
Fairness ==
    /\ \A u \in Uploads : WF_vars(Handle(u))
    /\ WF_vars(\E key \in queued : Sent(key))

Spec == Init /\ [][Next]_vars
FairSpec == Spec /\ Fairness

-----------------------------------------------------------------------------
(* Properties *)

Places == Ended \cup {"head", "create", "put", "stored", "find", "insert", "save"}
Keys == {Key(u) : u \in Uploads}

\* Every variable has its type, and a backend that takes the bucket for ready
\* is right.
TypeOK ==
    /\ at \in [Uploads -> Places]
    /\ bucket \in BOOLEAN /\ bucketReady \in BOOLEAN
    /\ bucketReady => bucket
    /\ objects \subseteq Keys /\ queued \subseteq Keys /\ announced \subseteq Keys
    /\ conferences \subseteq Rooms
    /\ attachments \subseteq {Row(u) : u \in Uploads}
    /\ hit \subseteq Uploads /\ early \subseteq Uploads
    /\ faults \in Nat /\ restarts \in Nat

\* Whatever failed, a file the archive lists or MLin is told of is in the
\* bucket, and its room hands out a link to it.
ListedCanBeFetched ==
    /\ queued \cup announced \subseteq objects
    /\ \A row \in attachments :
          /\ row.key \in objects /\ row.room \in conferences
          /\ MayDownload(row.room, row.key)

\* A request that met no failing call and no restart has done everything in the
\* end (the event is up to the Kafka client), however other requests cut across
\* it; only one that came before there was a bucket can fail for another's sake,
\* and then it leaves nothing behind.
WholeOrNothing ==
    \A u \in Uploads \ hit :
        /\ at[u] = "ok" => Key(u) \in objects /\ Row(u) \in attachments
        /\ at[u] = "failed" => /\ u \in early
                               /\ Key(u) \notin objects \cup queued \cup announced

\* MLin learns of every file whose upload gets past the bucket and does not
\* fail, unless an event was lost: by a fault, or with the backend's memory.
StoredGetsAnnounced ==
    \A u \in Uploads :
        at[u] = "put" ~> \/ at[u] = "failed" \/ Key(u) \in announced
                         \/ faults + restarts > 0

=============================================================================
