----------------------------- MODULE AuthSession -----------------------------
(***************************************************************************)
(* A user's session: the token pairs and refresh-token rows of AuthService *)
(* and the browser tab that keeps a pair (UserContext and the login page). *)
(*                                                                         *)
(* Logging in or registering issues a pair, of an access and a refresh     *)
(* token, and a row; the pair and its row have one number.  A tab that     *)
(* loads checks the stored pair with GET /auth/me and, if that fails, asks *)
(* for a refresh; meanwhile the login page can already be used.  Another   *)
(* device may log in, refresh and log out as one of the same users.        *)
(*                                                                         *)
(* Tokens are stored as bcrypt hashes, which depend on the first 72 bytes  *)
(* only; in a token those end within the user's id.  So a refresh token    *)
(* matches every row of its user.                                          *)
(***************************************************************************)
EXTENDS Integers, Sequences, FiniteSets

CONSTANTS
    Users,        \* users of the service
    MaxPairs,     \* bound: pairs issued
    MaxFaults,    \* bound: calls the backend answers with an error of its own
    MaxReloads    \* bound: reloads of the tab

None == "none"

ASSUME SessionAssumption ==
    /\ None \notin Users
    /\ {MaxPairs, MaxFaults, MaxReloads} \subseteq Nat

Pairs == 1 .. MaxPairs
Callers == {"tab", "device"}

VARIABLES
    pairs,       \* the payload of each pair issued
    age,         \* "fresh"; "stale", the access token has expired; "expired", both
    active,      \* RefreshToken rows that are not revoked
    calls,       \* refresh and logout requests at the backend
    stored,      \* localStorage: the pair of the tab, or 0
    held,        \* the pair in the tab's React state, or 0
    user,        \* the signed-in user of the tab
    init,        \* initializeAuth
    checked,     \* the pair initializeAuth works with
    form,        \* loginWithTokens or logout
    entered,     \* the pair loginWithTokens works with
    isLoggingOut,  \* the header's button is disabled
    overlapped,  \* somebody logged in while initializeAuth ran (for properties)
    broken,      \* a fetch of initializeAuth or loginWithTokens failed (same)
    faults, reloads

backend == <<pairs, age, active>>
tab == <<stored, held, user, init, checked, form, entered>>
notes == <<isLoggingOut, overlapped, broken, faults, reloads>>
vars == <<backend, calls, tab, notes>>

NoCall == [kind |-> "none", at |-> "idle", token |-> 0, row |-> 0]

Init ==
    /\ pairs = << >> /\ age = [n \in Pairs |-> "fresh"] /\ active = {}
    /\ calls = [k \in Callers |-> NoCall]
    /\ stored = 0 /\ held = 0 /\ user = None
    /\ init = "start" /\ checked = 0 /\ form = "idle" /\ entered = 0
    /\ isLoggingOut = FALSE /\ overlapped = FALSE /\ broken = FALSE
    /\ faults = 0 /\ reloads = 0

-----------------------------------------------------------------------------
(* Helpers *)

Owner(n) == pairs[n].sub

\* The payload login signs, and the one verify returns.
LoginPayload(u) == [sub |-> u, exp |-> FALSE]
Verified(n) == [sub |-> Owner(n), exp |-> TRUE]

\* jwtService.sign throws when it is to set exp in a payload that has one.
CanSign(payload) == ~payload.exp

\* issueTokenPair: sign both tokens, then store the row.
Issue(payload) ==
    /\ Len(pairs) < MaxPairs
    /\ pairs' = Append(pairs, payload)
    /\ active' = active \cup {Len(pairs) + 1}
    /\ UNCHANGED age

New == Len(pairs) + 1

\* findActiveRefreshTokens and bcrypt.compare: the rows a token matches.
Matching(n) == {m \in active : Owner(m) = Owner(n)}

Step(k, place) == calls' = [calls EXCEPT ![k].at = place]
Send(k, kind, n) ==
    calls' = [calls EXCEPT ![k] = [kind |-> kind, at |-> "find", token |-> n, row |-> 0]]
Free(k) == calls' = [calls EXCEPT ![k] = NoCall]

\* The backend goes on with a request of the tab that nobody waits for any more:
\* it is as another device's.
Abandon ==
    /\ calls["tab"] = NoCall \/ calls["device"] = NoCall
    /\ calls' = IF calls["tab"] = NoCall THEN calls
                ELSE [calls EXCEPT !["device"] = calls["tab"], !["tab"] = NoCall]

Fault == faults < MaxFaults /\ faults' = faults + 1

\* Mutation: localStorage is left as it is.
ClearMemory == UNCHANGED stored /\ held' = 0 /\ user' = None

\* clearAuthState
Clear == stored' = 0 /\ held' = 0 /\ user' = None

\* storeTokens
StoreTokens(n) == stored' = n /\ held' = n

-----------------------------------------------------------------------------
(* Mutations: definitions with a plausible bug (nothing uses them). *)

\* /me also wants the row of the pair to be active.
InitMeNeedsRow ==
    /\ init \in {"me", "again"}
    /\ age[checked] = "fresh"
    /\ IF checked \in active THEN user' = Owner(checked) /\ UNCHANGED <<stored, held>>
                             ELSE Clear
    /\ init' = "done" /\ checked' = 0
    /\ UNCHANGED <<backend, calls, form, entered, notes>>

\* A refused refresh ends the effect early.
InitRefreshedOrNothing ==
    /\ init = "refresh"
    /\ calls["tab"].at = "issued"
    /\ StoreTokens(calls["tab"].token)
    /\ checked' = calls["tab"].token
    /\ init' = "again"
    /\ Free("tab")
    /\ UNCHANGED <<backend, user, form, entered, notes>>

-----------------------------------------------------------------------------
(* AuthService *)

\* POST refresh: the token must not have expired; logout does not look.
Find(k) ==
    /\ calls[k].at = "find"
    /\ \/ /\ Matching(calls[k].token) = {} \/ (calls[k].kind = "refresh"
                                               /\ age[calls[k].token] = "expired")
          /\ Step(k, "refused")
       \/ /\ calls[k].kind = "refresh" => age[calls[k].token] # "expired"
          /\ \E m \in Matching(calls[k].token) :
                calls' = [calls EXCEPT ![k].at = "found", ![k].row = m]
    /\ UNCHANGED <<backend, tab, notes>>

\* Revoke the row found, then, to refresh, sign the verified payload again.
Revoke(k) ==
    /\ calls[k].at = "found"
    /\ IF calls[k].kind = "refresh" /\ CanSign(Verified(calls[k].token))
       THEN /\ Len(pairs) < MaxPairs
            /\ pairs' = Append(pairs, Verified(calls[k].token))
            /\ active' = (active \ {calls[k].row}) \cup {New}
            /\ calls' = [calls EXCEPT ![k].at = "issued", ![k].token = New]
       ELSE /\ active' = active \ {calls[k].row}
            /\ Step(k, IF calls[k].kind = "refresh" THEN "refused" ELSE "done")
            /\ UNCHANGED pairs
    /\ UNCHANGED <<age, tab, notes>>

\* PostgreSQL fails: the request is answered with an error.
CallFails(k) ==
    /\ calls[k].at \in {"find", "found"}
    /\ Fault
    /\ Step(k, "refused")
    /\ UNCHANGED <<backend, tab, isLoggingOut, overlapped, broken, reloads>>

\* Time passes.
Expire(n) ==
    /\ n \in DOMAIN pairs
    /\ age[n] # "expired"
    /\ age' = [age EXCEPT ![n] = IF @ = "fresh" THEN "stale" ELSE "expired"]
    /\ UNCHANGED <<pairs, active, calls, tab, notes>>

-----------------------------------------------------------------------------
(* Another device *)

DeviceLogin(u) ==
    /\ Issue(LoginPayload(u))
    /\ UNCHANGED <<calls, tab, notes>>

DeviceCalls(kind, n) ==
    /\ n \in DOMAIN pairs
    /\ calls["device"] = NoCall
    /\ Send("device", kind, n)
    /\ UNCHANGED <<backend, tab, notes>>

DeviceAnswered ==
    /\ calls["device"].at \in {"refused", "done", "issued"}
    /\ Free("device")
    /\ UNCHANGED <<backend, tab, notes>>

-----------------------------------------------------------------------------
(* initializeAuth *)

InitRead ==
    /\ init = "start"
    /\ IF stored = 0
       THEN init' = "done" /\ UNCHANGED <<held, checked>>
       ELSE init' = "me" /\ held' = stored /\ checked' = stored
    /\ UNCHANGED <<backend, calls, stored, user, form, entered, notes>>

\* GET /auth/me knows the user of an access token that has not expired.
InitMe ==
    /\ init \in {"me", "again"}
    /\ age[checked] = "fresh"
    /\ user' = Owner(checked)
    /\ init' = "done" /\ checked' = 0
    /\ UNCHANGED <<backend, calls, stored, held, form, entered, notes>>

\* It answers with an error: refresh, or give up after the second time.
InitMeRefused ==
    /\ init \in {"me", "again"}
    /\ \/ age[checked] # "fresh" /\ UNCHANGED faults
       \/ Fault
    /\ IF init = "me"
       THEN /\ init' = "refresh"
            /\ Send("tab", "refresh", checked)
            /\ UNCHANGED <<stored, held, user, checked>>
       ELSE Clear /\ init' = "done" /\ checked' = 0 /\ UNCHANGED calls
    /\ UNCHANGED <<backend, form, entered, isLoggingOut, overlapped, broken, reloads>>

\* refreshAccessTokens returns.
InitRefreshed ==
    /\ init = "refresh"
    /\ calls["tab"].at \in {"refused", "issued"}
    /\ IF calls["tab"].at = "issued"
       THEN /\ StoreTokens(calls["tab"].token)
            /\ checked' = calls["tab"].token
            /\ init' = "again"
            /\ UNCHANGED user
       ELSE Clear /\ init' = "done" /\ checked' = 0
    /\ Free("tab")
    /\ UNCHANGED <<backend, form, entered, notes>>

\* fetch itself fails: the effect ends and isAuthLoading stays set; a request
\* that reached the backend goes on.
InitBreaks ==
    /\ init \in {"me", "again", "refresh"}
    /\ init' = "stuck" /\ checked' = 0
    /\ broken' = TRUE
    /\ UNCHANGED <<backend, calls, stored, held, user, form,
                   entered, isLoggingOut, overlapped, faults, reloads>>

-----------------------------------------------------------------------------
(* The login page and the logout button *)

\* The backend has issued a pair; loginWithTokens stores it and asks for me.
Login(u) ==
    /\ form = "idle"
    /\ Issue(LoginPayload(u))
    /\ StoreTokens(New)
    /\ form' = "me" /\ entered' = New
    /\ overlapped' = (overlapped \/ init # "done")
    /\ UNCHANGED <<calls, user, init, checked, isLoggingOut, broken, faults, reloads>>

LoginMe ==
    /\ form = "me"
    /\ age[entered] = "fresh"
    /\ user' = Owner(entered)
    /\ form' = "idle" /\ entered' = 0
    /\ UNCHANGED <<backend, calls, stored, held, init, checked, notes>>

LoginMeRefused ==
    /\ form = "me"
    /\ \/ age[entered] # "fresh" /\ UNCHANGED faults
       \/ Fault
    /\ Clear
    /\ form' = "idle" /\ entered' = 0
    /\ UNCHANGED <<backend, calls, init, checked, isLoggingOut, overlapped, broken,
                   reloads>>

\* fetch itself fails: the pair stays stored and nobody is signed in.
LoginBreaks ==
    /\ form = "me"
    /\ form' = "idle" /\ entered' = 0
    /\ broken' = TRUE
    /\ UNCHANGED <<backend, calls, stored, held, user, init, checked,
                   isLoggingOut, overlapped, faults, reloads>>

\* The header shows the button to a signed-in user.
Logout ==
    /\ form = "idle" /\ init = "done" /\ user # None /\ ~isLoggingOut
    /\ form' = "logout" /\ isLoggingOut' = TRUE
    /\ IF held # 0 THEN Send("tab", "logout", held) ELSE UNCHANGED calls
    /\ UNCHANGED <<backend, stored, held, user, init, checked, entered, overlapped,
                   broken, faults, reloads>>

\* Whatever the backend answers.
LogoutAnswered ==
    /\ form = "logout"
    /\ calls["tab"].at \in {"idle", "refused", "done"}
    /\ Clear
    /\ form' = "idle" /\ isLoggingOut' = FALSE
    /\ Free("tab")
    /\ UNCHANGED <<backend, init, checked, entered, overlapped, broken, faults, reloads>>

\* fetch itself fails, before or after the request reached the backend: logout
\* throws, clearAuthState is skipped and the user stays signed in.  The button
\* stays disabled: the header is in the layout of every page.
LogoutBreaks ==
    /\ form = "logout" /\ held # 0
    /\ form' = "idle"
    /\ \/ calls["tab"].at = "find" /\ Free("tab")
       \/ Abandon
    /\ UNCHANGED <<backend, stored, held, user, init, checked, entered, notes>>

\* The page is loaded again: React's state is gone.
Reload ==
    /\ reloads < MaxReloads
    /\ reloads' = reloads + 1
    /\ Abandon
    /\ held' = 0 /\ user' = None
    /\ init' = "start" /\ form' = "idle" /\ checked' = 0
    /\ entered' = 0 /\ isLoggingOut' = FALSE /\ overlapped' = FALSE /\ broken' = FALSE
    /\ UNCHANGED <<backend, stored, faults>>

-----------------------------------------------------------------------------
Initialize == InitRead \/ InitMe \/ InitMeRefused \/ InitRefreshed

Next ==
    \/ \E k \in Callers : Find(k) \/ Revoke(k) \/ CallFails(k)
    \/ \E n \in Pairs : Expire(n)
    \/ \E u \in Users : DeviceLogin(u) \/ Login(u)
    \/ \E kind \in {"refresh", "logout"}, n \in Pairs : DeviceCalls(kind, n)
    \/ DeviceAnswered
    \/ Initialize \/ InitBreaks
    \/ LoginMe \/ LoginMeRefused \/ LoginBreaks
    \/ Logout \/ LogoutAnswered \/ LogoutBreaks
    \/ Reload

\* The backend answers, and the effect of the tab runs on.
Fairness ==
    /\ \A k \in Callers : WF_vars(Find(k) \/ Revoke(k))
    /\ WF_vars(Initialize)

Spec == Init /\ [][Next]_vars
FairSpec == Spec /\ Fairness

-----------------------------------------------------------------------------
(* Properties *)

Payload == [sub : Users, exp : BOOLEAN]
Call == [kind : {"none", "refresh", "logout"},
         at : {"idle", "find", "found", "refused", "done", "issued"},
         token : Nat, row : Nat]

\* The tab, the requests and the rows refer to pairs that were issued, and a
\* request about to revoke knows a row of its token's user.
TypeOK ==
    /\ pairs \in Seq(Payload)
    /\ age \in [Pairs -> {"fresh", "stale", "expired"}]
    /\ active \subseteq DOMAIN pairs
    /\ calls \in [Callers -> Call]
    /\ {stored, held, checked, entered} \subseteq 0 .. Len(pairs)
    /\ user \in Users \cup {None}
    /\ init \in {"start", "me", "refresh", "again", "done", "stuck"}
    /\ form \in {"idle", "me", "logout"}
    /\ {isLoggingOut, overlapped, broken} \subseteq BOOLEAN
    /\ {faults, reloads} \subseteq Nat
    /\ init \in {"me", "again", "refresh"} => checked # 0
    /\ form = "me" => entered # 0
    /\ \A k \in Callers : calls[k].at = "found" =>
          calls[k].row \in DOMAIN pairs /\ Owner(calls[k].row) = Owner(calls[k].token)

\* Neither initializeAuth nor loginWithTokens runs.
Settled == init = "done" /\ form # "me"

\* A tab at rest shows the user whose pair it holds and keeps in localStorage,
\* or nobody, and then keeps nothing, whether a logout is answered, under way or
\* has failed.  Two cases are left out, in which the code does not keep this:
\* somebody logged in before initializeAuth was through (`overlapped': the two
\* write the same state), and a fetch of either of them failed (`broken').
SessionConsistent ==
    Settled /\ ~overlapped /\ ~broken =>
        IF user = None THEN stored = 0 /\ held = 0
        ELSE stored = held /\ stored # 0 /\ Owner(stored) = user

\* The tab gives up a pair whose access token is still good only when the user
\* logs out or the backend fails: not for what other devices do.
KeepsFreshSession ==
    [][ stored # 0 /\ stored' = 0 /\ age[stored] = "fresh" =>
            form = "logout" \/ faults' > 0 \/ overlapped ]_vars

\* A tab that loads ends up signed in or signed out, unless a fetch breaks.
Initializes == init = "start" ~> init = "done" \/ broken

-----------------------------------------------------------------------------
(* What a document says and the code does not do *)

\* docs/backend.md:67: the auth service owns refresh rotation.  Then a refresh
\* that revoked the row of its token is answered with a new pair.
RefreshRotates ==
    \A k \in Callers : calls[k].kind = "refresh" /\ calls[k].row # 0 =>
        calls[k].at # "refused" \/ faults > 0

=============================================================================
