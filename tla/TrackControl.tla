---------------------------- MODULE TrackControl ----------------------------
(***************************************************************************)
(* The backend's endpoints on/micro, off/micro, on/cam and off/cam         *)
(* (conference.controller.ts) in a room where the agent of AgentSessions   *)
(* transcribes.  manageTrack asks LiveKit for the target's tracks and then *)
(* sends one request for each of the source, awaiting every answer, so the *)
(* participants and other calls act in between.                            *)
(* on/micro and on/cam pass type TRUE, which goes to mutePublishedTrack as *)
(* its `muted': an `on' mutes and an `off' unmutes, the opposite of the    *)
(* names and of the comment over manageTrack (TRUE switches on).  Here     *)
(* `type' is what is passed and `muted' is LiveKit's flag, and nothing     *)
(* below says which of the two the endpoints ought to set.                 *)
(***************************************************************************)
EXTENDS AgentSessions

CONSTANTS
    Callers,    \* those who call the endpoints, one call at a time each
    Speakers,   \* participants who publish; the others only watch and write
    MaxTracks,  \* bound: tracks published
    MaxBusy     \* bound: utterances, chat packets and calls under way, together

ASSUME TrackAssumption ==
    Speakers \subseteq Participants /\ {MaxTracks, MaxBusy} \subseteq Nat

VARIABLES
    tracks,     \* the tracks each participant publishes (LiveKit's)
    sids,       \* tracks published so far: the last sid
    control     \* the call each caller waits for

agentVars == vars
controlVars == <<tracks, sids, control>>
allVars == <<agentVars, controlVars>>

Sources == {"microphone", "camera"}
Track == [sid : Nat \ {0}, source : Sources, muted : BOOLEAN]
NoCall == [at |-> "none"]

TrackInit ==
    /\ Init
    /\ tracks = [p \in Participants |-> {}]
    /\ sids = 0
    /\ control = [c \in Callers |-> NoCall]

-----------------------------------------------------------------------------
(* Helpers *)

\* Where the call of c is.
At(c, at) == control[c].at = at

\* The bound lets one more utterance, packet or call in.
Room == room_speech_sequence + packets + Cardinality({d \in Callers : At(d, "muting")})
           < MaxBusy

TracksOf(p, source) == {t \in tracks[p] : t.source = source}

\* p's tracks of this source have changed: the calls in cs that are at them no
\* longer find what they have read or set (for properties).
Disturbed(p, source, cs) ==
    [d \in Callers |->
        IF d \in cs /\ At(d, "muting") /\ control[d].target = p /\ control[d].source = source
        THEN [control[d] EXCEPT !.clean = FALSE] ELSE control[d]]

\* The calls under way that pass the other type than c's.
Opposed(c) == {d \in Callers : At(d, "muting") /\ control[d].type # control[c].type}

\* LiveKit sets the mute of one track.
SetMuted(p, sid, muted) ==
    tracks' = [tracks EXCEPT ![p] =
                  {IF t.sid = sid THEN [t EXCEPT !.muted = muted] ELSE t : t \in @}]

-----------------------------------------------------------------------------
(* Mutations: actions below with a plausible bug (no action uses them). *)

\* The source is not compared.
CallReadsAll(c, p, source, type) ==
    /\ At(c, "none") /\ p \in present /\ Room
    /\ control' = [control EXCEPT ![c] =
          [at |-> "muting", target |-> p, source |-> source, type |-> type,
           left |-> {t.sid : t \in tracks[p]}, clean |-> TRUE]]
    /\ UNCHANGED <<agentVars, tracks, sids>>

\* One track of the source is enough.
CallFindsOne(c, p, source, type) ==
    /\ At(c, "none") /\ p \in present /\ Room
    /\ LET found == {t.sid : t \in TracksOf(p, source)}
       IN control' = [control EXCEPT ![c] =
             [at |-> "muting", target |-> p, source |-> source, type |-> type,
              left |-> {s \in found : \A r \in found : s <= r}, clean |-> TRUE]]
    /\ UNCHANGED <<agentVars, tracks, sids>>

-----------------------------------------------------------------------------
(* Participants *)

\* A participant in the room starts to publish a track.
Publish(p, source) ==
    /\ p \in present \cap Speakers
    /\ sids < MaxTracks
    /\ sids' = sids + 1
    /\ tracks' = [tracks EXCEPT ![p] =
                     @ \cup {[sid |-> sids + 1, source |-> source, muted |-> FALSE]}]
    /\ control' = Disturbed(p, source, Callers)
    /\ UNCHANGED agentVars

\* The participant withdraws a track.
Unpublish(p, t) ==
    /\ tracks' = [tracks EXCEPT ![p] = @ \ {t}]
    /\ UNCHANGED <<agentVars, sids, control>>

\* The participant mutes or unmutes a track.
Toggle(p, t) ==
    /\ SetMuted(p, t.sid, ~t.muted)
    /\ control' = Disturbed(p, t.source, Callers)
    /\ UNCHANGED <<agentVars, sids>>

\* The tracks go with the participant, however it leaves.
Depart(p) ==
    /\ Leave(p) \/ Vanish(p)
    /\ tracks' = [tracks EXCEPT ![p] = {}]
    /\ UNCHANGED <<sids, control>>

-----------------------------------------------------------------------------
(* manageTrack *)

\* A call of one of the four endpoints, up to the answer of getParticipant,
\* which fails when the target is not in the room.
Call(c, p, source, type) ==
    /\ At(c, "none") /\ p \in present /\ Room
    /\ control' = [control EXCEPT ![c] =
          [at |-> "muting", target |-> p, source |-> source, type |-> type,
           left |-> {t.sid : t \in TracksOf(p, source)}, clean |-> TRUE]]
    /\ UNCHANGED <<agentVars, tracks, sids>>

\* mutePublishedTrack of one of the tracks read, with type as `muted'.
MuteNext(c, sid) ==
    /\ At(c, "muting") /\ sid \in control[c].left
    /\ LET k == control[c]
           there == \E t \in tracks[k.target] : t.sid = sid
       IN \/ /\ there
             /\ SetMuted(k.target, sid, k.type)
             /\ control' = [Disturbed(k.target, k.source, Opposed(c)) EXCEPT ![c].left = @ \ {sid}]
          \* The track is gone, or LiveKit does not unmute for others: the call
          \* fails and the rest is left as it is.
          \/ /\ ~there \/ ~k.type
             /\ control' = [control EXCEPT ![c] = NoCall]
             /\ UNCHANGED tracks
    /\ UNCHANGED <<agentVars, sids>>

\* The loop is through: the caller is told success.
Finish(c) ==
    /\ At(c, "muting") /\ control[c].left = {}
    /\ control' = [control EXCEPT ![c] = NoCall]
    /\ UNCHANGED <<agentVars, tracks, sids>>

-----------------------------------------------------------------------------
\* A running session hears its participant through an unmuted microphone.
Audible(p) == \E t \in tracks[p] : t.source = "microphone" /\ ~t.muted

Agent ==
    /\ \/ \E p \in Participants : Join(p) \/ Start(p)
       \/ \E s \in Sessions : Started(s) \/ StartFails(s) \/ Closed(s)
       \/ \E s \in Sessions :
             Speak(s) /\ Room /\ (state[s].at = "running" => Audible(state[s].of))
       \/ \E id \in ChatIds \cup {NoId} : ChatPacket(id) /\ Room
    /\ UNCHANGED controlVars

TrackNext ==
    \/ Agent
    \/ \E p \in Participants : Depart(p)
    \/ \E p \in Participants, source \in Sources : Publish(p, source)
    \/ \E p \in Participants : \E t \in tracks[p] : Unpublish(p, t) \/ Toggle(p, t)
    \/ \E c \in Callers :
          \/ \E p \in Participants, source \in Sources, type \in BOOLEAN :
                Call(c, p, source, type)
          \/ \E sid \in 1..sids : MuteNext(c, sid)
          \/ Finish(c)

TrackSpec == TrackInit /\ [][TrackNext]_allVars
TrackFairSpec == TrackSpec /\ Fairness

-----------------------------------------------------------------------------
(* Properties *)

\* The loop of manageTrack covers what the call is for: unless the owner or a
\* call of the other type touches the target's tracks of that source meanwhile,
\* LiveKit's flag of each of them is the type passed or its request is still to
\* come, whatever other calls of this type do, so that `success' means all of
\* them.  A track published while the loop runs is left alone by the code
\* (`clean' is FALSE then).  That a type of TRUE mutes is not judged here.
ControlReachesAll ==
    \A c \in Callers : At(c, "muting") /\ control[c].clean =>
        \A t \in tracks[control[c].target] :
            t.source = control[c].source =>
                t.sid \in control[c].left \/ t.muted = control[c].type

\* Nobody is muted by accident: whatever calls and participants interleave, a
\* track changes its flag only by its owner or by a call for this participant
\* and this source whose type is the new flag.
ControlStaysInScope ==
    [][\A p \in Participants : \A t \in tracks[p], u \in tracks'[p] :
          t.sid = u.sid /\ t.muted # u.muted =>
              \/ Toggle(p, t)
              \/ \E c \in Callers : /\ At(c, "muting")
                                    /\ control[c].target = p
                                    /\ control[c].source = t.source
                                    /\ control[c].type = u.muted]_allVars

=============================================================================
