---------------------------- MODULE HistoryPages -----------------------------
(***************************************************************************)
(* The archive page /history in the tab of AuthSession: its effect asks    *)
(* GET /conference for the rooms of the signed-in user, or reads the rooms *)
(* a guest has been to from localStorage (lib/conference-history.ts).      *)
(*                                                                         *)
(* The page and the session run side by side: whenever the user, the       *)
(* access token or isAuthLoading changes the effect runs again and the     *)
(* answers to earlier runs do not count.  The backend does not reject an   *)
(* expired access token here (OptionalJwtAuthGuard): it answers, and       *)
(* issues conference tokens, as to a guest.                                *)
(*                                                                         *)
(* A tab lasts from one load to the next.  Other devices, and failing calls *)
(* of the token request, are left to AuthSession, MeetingPage and          *)
(* ConferenceAccess.                                                       *)
(***************************************************************************)
EXTENDS AuthSession, SequencesExt

CONSTANTS
    Rooms,                   \* conferences
    MAX_GUEST_HISTORY_ITEMS  \* 50 in the code


VARIABLES
    page,       \* the tab shows the "list", or some "other" page
    items,      \* the rooms listed, and whose they are
    loading,    \* isLoading
    failed,     \* an error is shown
    requests,   \* GET /conference under way: its pair, and whether it isActive
    guestList,  \* localStorage: bb_guest_conference_history
    members,    \* PostgreSQL: the memberships, <<user, room>>
    visits,     \* rooms each visitor got a token for (for properties)
    lapsed,     \* those of a user whose access token had expired (same)
    latest      \* the room a guest got a token for last (same)

list == <<items, loading, failed, requests>>
archive == <<guestList, members, visits, lapsed, latest>>
allVars == <<vars, page, list, archive>>

Guest == "guest"
Nobody == "nobody"   \* the guest the backend takes an expired token for

ASSUME ArchiveAssumption ==
    /\ MAX_GUEST_HISTORY_ITEMS \in Nat \ {0}
    /\ Users \cap {Guest, Nobody} = {}

NoItems == [of |-> None, rooms |-> {}]

\* The tab has just been loaded; localStorage may hold the pair of an earlier
\* login, of any age.
ArchiveInit ==
    /\ \/ Init
       \/ /\ 1 \in Pairs
          /\ \E u \in Users : pairs = << LoginPayload(u) >>
          /\ age \in [Pairs -> {"fresh", "stale", "expired"}]
          /\ \A n \in Pairs \ {1} : age[n] = "fresh"
          /\ active = {1} /\ stored = 1
          /\ calls = [k \in Callers |-> NoCall]
          /\ held = 0 /\ user = None
          /\ init = "start" /\ checked = 0 /\ form = "idle" /\ entered = 0
          /\ isLoggingOut = FALSE /\ overlapped = FALSE /\ broken = FALSE
          /\ faults = 0 /\ reloads = 0
    /\ page = "list" /\ items = NoItems /\ loading = TRUE
    /\ failed = FALSE /\ requests = {}
    /\ guestList = << >> /\ members = {}
    /\ visits = [v \in Users \cup {Guest} |-> {}]
    /\ lapsed = {} /\ latest = None

-----------------------------------------------------------------------------
(* Helpers *)

Visitor == IF user = None THEN Guest ELSE user

\* A tab at rest whose user and tokens belong together (SessionConsistent).
AtRest == Settled /\ ~overlapped /\ ~broken

\* What the guard makes of an access token: its user, or nobody.
Caller(n) == IF n # 0 /\ age[n] = "fresh" THEN Owner(n) ELSE Nobody

RoomsOf(u) == {r \in Rooms : <<u, r>> \in members}

\* The entries of seq other than r (Array.filter).
Without(seq, r) ==
    LET kept[i \in 0 .. Len(seq)] ==
            IF i = 0 THEN << >>
            ELSE IF seq[i] = r THEN kept[i - 1] ELSE Append(kept[i - 1], seq[i])
    IN kept[Len(seq)]

\* Mutation: the room is put at the end.
RememberLast(r) ==
    SubSeq(Append(Without(guestList, r), r), 1, MAX_GUEST_HISTORY_ITEMS)

\* rememberGuestConference: the room comes first, once.
Remember(r) ==
    LET rooms == <<r>> \o Without(guestList, r)
    IN SubSeq(rooms, 1, IF Len(rooms) < MAX_GUEST_HISTORY_ITEMS
                        THEN Len(rooms) ELSE MAX_GUEST_HISTORY_ITEMS)

\* The clean-up of the effect, isActive = false, of all its runs so far.
Superseded(qs) == {[q EXCEPT !.isActive = FALSE] : q \in qs}

\* The effect runs with the session as it is after the step; qs are the
\* requests of its earlier runs.
LoadConferences(qs) ==
    IF init' # "done" THEN
        requests' = qs /\ UNCHANGED <<items, loading, failed>>
    ELSE IF user' = None \/ held' = 0 THEN
        /\ items' = [of |-> Guest, rooms |-> ToSet(guestList)]
        /\ loading' = FALSE /\ failed' = FALSE
        /\ requests' = qs
    ELSE
        /\ loading' = TRUE
        /\ requests' = qs \cup {[token |-> held', isActive |-> TRUE]}
        /\ UNCHANGED <<items, failed>>

\* The state of a page that has just been mounted.
Mounted == items' = NoItems /\ loading' = TRUE /\ failed' = FALSE

-----------------------------------------------------------------------------
(* Mutations: actions below with a plausible bug (no action uses them). *)

\* isActive is not looked at.
ListArrivesLate(q) ==
    /\ requests' = requests \ {q}
    /\ items' = [of |-> Caller(q.token), rooms |-> RoomsOf(Caller(q.token))]
    /\ loading' = FALSE /\ failed' = FALSE
    /\ UNCHANGED <<vars, page, archive>>

\* The error path forgets isLoading.
ListFailsLoading(q) ==
    /\ requests' = requests \ {q}
    /\ failed' = (q.isActive \/ failed)
    /\ UNCHANGED <<vars, page, items, loading, archive>>

-----------------------------------------------------------------------------
(* The session of the tab, and the effect when its inputs change *)

\* The steps of AuthSession that the tab and time take.  Somebody who logs in
\* is on the login page.
SessionStep ==
    \/ \E k \in Callers : Find(k) \/ Revoke(k)
    \/ \E n \in Pairs : Expire(n)
    \/ page = "other" /\ \E u \in Users : Login(u)
    \/ Initialize \/ InitBreaks
    \/ LoginMe \/ LoginMeRefused \/ LoginBreaks
    \/ Logout \/ LogoutAnswered \/ LogoutBreaks

Inputs == <<user, held, init = "done">>

Session ==
    /\ SessionStep
    /\ IF page = "list" /\ Inputs' # Inputs
       THEN LoadConferences(Superseded(requests))
       ELSE UNCHANGED list
    /\ UNCHANGED <<page, archive>>

-----------------------------------------------------------------------------
(* The pages *)

\* The list is mounted and its effect runs.
OpenList ==
    /\ page = "other"
    /\ page' = "list"
    /\ UNCHANGED <<vars, archive>>
    /\ LoadConferences(requests)

\* It is unmounted: answers no longer count, and the next mount starts anew.
LeaveList ==
    /\ page = "list"
    /\ page' = "other"
    /\ Mounted
    /\ requests' = Superseded(requests)
    /\ UNCHANGED <<vars, archive>>

\* The answer to GET /conference: the rooms of the user the guard knows.
ListArrives(q) ==
    /\ requests' = requests \ {q}
    /\ IF q.isActive
       THEN /\ items' = [of |-> Caller(q.token), rooms |-> RoomsOf(Caller(q.token))]
            /\ loading' = FALSE /\ failed' = FALSE
       ELSE UNCHANGED <<items, loading, failed>>
    /\ UNCHANGED <<vars, page, archive>>

\* The request fails: the rooms shown stay, with an error.
ListFails(q) ==
    /\ requests' = requests \ {q}
    /\ IF q.isActive THEN loading' = FALSE /\ failed' = TRUE
                     ELSE UNCHANGED <<loading, failed>>
    /\ UNCHANGED <<vars, page, items, archive>>

\* A page that enters a room (/conference/<room>, or /livekit with its one room)
\* gets its token: generateToken writes the membership of the user it knows,
\* the page remembers the room of a guest.
Visit(r) ==
    /\ page = "other" /\ init = "done"
    /\ members' = IF Caller(held) = Nobody THEN members
                  ELSE members \cup {<<Caller(held), r>>}
    /\ guestList' = IF user = None THEN Remember(r) ELSE guestList
    /\ visits' = IF user = None \/ AtRest
                 THEN [visits EXCEPT ![Visitor] = @ \cup {r}] ELSE visits
    /\ lapsed' = IF AtRest /\ user # None /\ Caller(held) = Nobody
                 THEN lapsed \cup {<<user, r>>} ELSE lapsed
    /\ latest' = IF user = None THEN r ELSE latest
    /\ UNCHANGED <<vars, page, list>>

-----------------------------------------------------------------------------
ArchiveNext ==
    \/ Session
    \/ OpenList \/ LeaveList
    \/ \E q \in requests : ListArrives(q) \/ ListFails(q)
    \/ \E r \in Rooms : Visit(r)

ArchiveSpec == ArchiveInit /\ [][ArchiveNext]_allVars

-----------------------------------------------------------------------------
(* Properties *)

\* A list that is there, without an error.
Loaded == page = "list" /\ ~loading /\ ~failed

\* The list shown belongs to whoever is signed in, or to the guest, however
\* logins, logouts and late answers are mixed; a user whose access token has
\* expired may see an empty one.
ShownToItsVisitor ==
    Loaded /\ AtRest =>
        \/ items.of = Visitor
        \/ items = [of |-> Nobody, rooms |-> {}] /\ age[held] # "fresh"

\* Every room the visitor was given a token for is listed, except what a user
\* visited with an expired access token; of a guest's rooms the latest always,
\* and all as long as they are no more than the maximum.
VisitsAreListed ==
    Loaded /\ AtRest /\ items.of # Nobody =>
        /\ user # None => \A r \in visits[user] :
              r \in items.rooms \/ <<user, r>> \in lapsed
        /\ user = None /\ latest # None => latest \in items.rooms
        /\ user = None /\ Cardinality(visits[Guest]) <= MAX_GUEST_HISTORY_ITEMS =>
              visits[Guest] \subseteq items.rooms

\* Once the session is known a page that says it is loading has asked and will
\* hear the answer: no failure and no superseded run leaves it loading for ever.
LoadingMeansAsked ==
    page = "list" /\ init = "done" /\ loading =>
        \E q \in requests : q.isActive

=============================================================================
