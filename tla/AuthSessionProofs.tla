-------------------------- MODULE AuthSessionProofs --------------------------
(***************************************************************************)
(* What AuthSession keeps for all users and every number of pairs, faults  *)
(* and reloads; and what the archive page of HistoryPages, which runs in   *)
(* the same tab, keeps for all rooms and every length of a guest's list.   *)
(***************************************************************************)
EXTENDS HistoryPages, SequenceTheorems, FiniteSetTheorems, TLAPS

\* While initializeAuth waits, it works with the pair that is stored: nobody
\* else writes, unless somebody logs in meanwhile (overlapped).
ChecksTheStored ==
    ~overlapped /\ init # "done" =>
        /\ form = "idle"
        /\ init \in {"me", "refresh", "again"} => stored = checked

\* loginWithTokens too.
EntersTheStored == ~overlapped /\ form = "me" => stored = entered

\* A refresh is asked for a pair whose access token has expired, if the backend
\* has not failed.
RefreshesTheOld == init = "refresh" /\ faults = 0 => age[checked] # "fresh"

\* Memory and localStorage agree in a tab no fetch of which broke, and nobody
\* is shown as signed in before initializeAuth is through.
MemoryFollows ==
    ~overlapped /\ ~broken =>
        /\ init # "stuck"
        /\ init # "start" => held = stored
        /\ init # "done" => user = None
        /\ init = "start" => held = 0

\* A request at the backend carries a pair that was issued.
Good(call, ps) ==
    /\ call \in Call /\ call.token <= Len(ps)
    /\ call.at # "idle" => call.token # 0
    /\ call.at = "found" =>
          call.row \in 1 .. Len(ps) /\ ps[call.row].sub = ps[call.token].sub

CallsCarryPairs == \A k \in Callers : Good(calls[k], pairs)

\* What the parts of the page agree on.
TabAgrees == ChecksTheStored /\ EntersTheStored /\ MemoryFollows

\* Each pair has an age.
AllHaveAge == Len(pairs) <= MaxPairs

Inv ==
    /\ TypeOK
    /\ CallsCarryPairs
    /\ AllHaveAge
    /\ TabAgrees
    /\ RefreshesTheOld
    /\ SessionConsistent

-----------------------------------------------------------------------------
(* Types *)

\* The shape of the state, one variable at a time.
LEMMA Types ==
    ASSUME TypeOK
    PROVE  /\ pairs \in Seq(Payload) /\ Len(pairs) \in Nat /\ DOMAIN pairs = 1 .. Len(pairs)
           /\ age \in [Pairs -> {"fresh", "stale", "expired"}]
           /\ active \subseteq 1 .. Len(pairs)
           /\ calls \in [Callers -> Call]
           /\ stored \in 0 .. Len(pairs) /\ held \in 0 .. Len(pairs)
           /\ checked \in 0 .. Len(pairs) /\ entered \in 0 .. Len(pairs)
           /\ user \in Users \cup {None}
           /\ init \in {"start", "me", "refresh", "again", "done", "stuck"}
           /\ form \in {"idle", "me", "logout"}
           /\ isLoggingOut \in BOOLEAN /\ overlapped \in BOOLEAN /\ broken \in BOOLEAN
           /\ faults \in Nat /\ reloads \in Nat
           /\ init \in {"me", "again", "refresh"} => checked # 0
           /\ form = "me" => entered # 0
           /\ \A n \in 1 .. Len(pairs) : Owner(n) \in Users
           /\ "tab" \in Callers /\ "device" \in Callers
<1>1. pairs \in Seq(Payload) /\ Len(pairs) \in Nat /\ DOMAIN pairs = 1 .. Len(pairs)
  BY LenProperties DEF TypeOK
<1>2. ASSUME NEW n \in 1 .. Len(pairs) PROVE Owner(n) \in Users
  <2>1. pairs[n] \in Payload
    BY <1>1
  <2> QED
    BY <2>1 DEF Owner, Payload
<1> QED
  BY <1>1, <1>2 DEF TypeOK, Callers

\* Pairs are only added, and those issued keep their owner.
LEMMA PairsGrow ==
    ASSUME TypeOK, NEW p \in Payload, pairs' = Append(pairs, p)
    PROVE  /\ pairs' \in Seq(Payload) /\ Len(pairs') = Len(pairs) + 1
           /\ DOMAIN pairs' = 1 .. Len(pairs) + 1
           /\ pairs'[Len(pairs) + 1] = p
           /\ \A n \in 1 .. Len(pairs) : Owner(n)' = Owner(n)
<1>1. /\ pairs' \in Seq(Payload) /\ Len(pairs') = Len(pairs) + 1
      /\ \A n \in 1 .. Len(pairs) : pairs'[n] = pairs[n]
      /\ pairs'[Len(pairs) + 1] = p
  <2>1. pairs \in Seq(Payload)
    BY Types
  <2> QED
    BY <2>1, AppendProperties
<1>2. DOMAIN pairs' = 1 .. Len(pairs) + 1
  BY <1>1, LenProperties
<1>3. \A n \in 1 .. Len(pairs) : Owner(n)' = Owner(n)
  BY <1>1 DEF Owner
<1> QED
  BY <1>1, <1>2, <1>3

\* What a refresh would sign is the payload of a pair that was issued.
LEMMA VerifiedPayload ==
    ASSUME TypeOK, CallsCarryPairs, NEW k \in Callers, Revoke(k)
    PROVE  calls[k].token \in 1 .. Len(pairs) /\ Verified(calls[k].token) \in Payload
<1>1. calls[k] \in Call /\ calls[k].at # "idle"
  BY Types DEF Revoke
<1>2. calls[k].token \in 1 .. Len(pairs)
  BY <1>1, Types DEF Call, CallsCarryPairs, Good
<1> QED
  BY <1>2, Types DEF Verified, Payload

\* A step keeps the pairs or adds one.
LEMMA PairsStep ==
    ASSUME TypeOK, CallsCarryPairs, Next
    PROVE  /\ pairs' \in Seq(Payload) /\ Len(pairs') \in Nat
           /\ DOMAIN pairs' = 1 .. Len(pairs') /\ Len(pairs) <= Len(pairs')
           /\ \A n \in 1 .. Len(pairs) : Owner(n)' = Owner(n)
<1>0. pairs \in Seq(Payload) /\ Len(pairs) \in Nat /\ DOMAIN pairs = 1 .. Len(pairs)
  BY Types
<1>1. ASSUME pairs' = pairs PROVE \A n \in 1 .. Len(pairs) : Owner(n)' = Owner(n)
  BY <1>1 DEF Owner
<1>2. ASSUME NEW u \in Users, DeviceLogin(u) \/ Login(u)
      PROVE  \E p \in Payload : pairs' = Append(pairs, p)
  <2>1. LoginPayload(u) \in Payload
    BY DEF LoginPayload, Payload
  <2> QED
    BY <1>2, <2>1 DEF DeviceLogin, Login, Issue
<1>3. ASSUME NEW k \in Callers, Revoke(k)
      PROVE  pairs' = pairs \/ \E p \in Payload : pairs' = Append(pairs, p)
  <2>1. Verified(calls[k].token) \in Payload
    BY <1>3, VerifiedPayload
  <2> QED
    BY <1>3, <2>1 DEF Revoke
<1>4. \/ pairs' = pairs
      \/ \E u \in Users : DeviceLogin(u) \/ Login(u)
      \/ \E k \in Callers : Revoke(k)
  BY DEF Next, Find, CallFails, Expire, DeviceCalls, DeviceAnswered, Initialize, InitRead,
     InitMe, InitMeRefused, InitRefreshed, InitBreaks, LoginMe, LoginMeRefused, LoginBreaks,
     Logout, LogoutAnswered, LogoutBreaks, Reload, backend
<1>5. CASE pairs' = pairs
  BY <1>0, <1>1, <1>5
<1>6. CASE \E p \in Payload : pairs' = Append(pairs, p)
  BY <1>0, <1>6, PairsGrow
<1> QED
  BY <1>2, <1>3, <1>4, <1>5, <1>6

-----------------------------------------------------------------------------
(* Requests *)

\* A step writes a request at most, and requests carry pairs that were issued.
LEMMA CallsStep ==
    ASSUME TypeOK, CallsCarryPairs, Next
    PROVE  calls' \in [Callers -> Call] /\ CallsCarryPairs'
<1>0. /\ calls \in [Callers -> Call] /\ Len(pairs) \in Nat /\ Len(pairs') \in Nat
      /\ Len(pairs) <= Len(pairs') /\ DOMAIN pairs = 1 .. Len(pairs)
      /\ active \subseteq 1 .. Len(pairs)
      /\ held \in 0 .. Len(pairs) /\ checked \in 0 .. Len(pairs)
      /\ init = "me" => checked # 0
      /\ "tab" \in Callers /\ "device" \in Callers
      /\ \A n \in 1 .. Len(pairs) : pairs'[n].sub = pairs[n].sub
      /\ \A k \in Callers : Good(calls[k], pairs)
  BY Types, PairsStep DEF CallsCarryPairs, Owner
<1>1. ASSUME NEW c, Good(c, pairs) PROVE Good(c, pairs')
  <2>1. c.token \in Nat /\ c \in Call
    BY <1>1 DEF Good, Call
  <2>2. c.at = "found" => c.token \in 1 .. Len(pairs)
    BY <1>0, <1>1, <2>1 DEF Good
  <2> QED
    BY <1>0, <1>1, <2>1, <2>2 DEF Good
<1>2. Good(NoCall, pairs')
  BY <1>0 DEF Good, NoCall, Call
\* One request changes, the other stays.
<1>3. ASSUME NEW k \in Callers, NEW c, Good(c, pairs'), calls' = [calls EXCEPT ![k] = c]
      PROVE  calls' \in [Callers -> Call] /\ CallsCarryPairs'
  <2>1. c \in Call
    BY <1>3 DEF Good
  <2>2. \A j \in Callers : calls'[j] = c \/ calls'[j] = calls[j]
    BY <1>0, <1>3
  <2> QED
    BY <1>0, <1>1, <1>3, <2>1, <2>2 DEF CallsCarryPairs
<1>4. ASSUME calls' = calls PROVE calls' \in [Callers -> Call] /\ CallsCarryPairs'
  BY <1>0, <1>1, <1>4 DEF CallsCarryPairs
<1>5. ASSUME NEW k \in Callers, calls[k].at # "idle",
             NEW at \in {"refused", "done"}, Step(k, at)
      PROVE  calls' \in [Callers -> Call] /\ CallsCarryPairs'
  <2> DEFINE c == [calls[k] EXCEPT !.at = at]
  <2>1. calls[k] \in Call /\ Good(calls[k], pairs')
    BY <1>0, <1>1
  <2>2. /\ c \in Call /\ c.at = at /\ c.token = calls[k].token
    BY <2>1 DEF Call
  <2>3. Good(c, pairs')
    BY <1>5, <2>1, <2>2 DEF Good
  <2>4. calls' = [calls EXCEPT ![k] = c]
    BY <1>5 DEF Step
  <2> HIDE DEF c
  <2> QED
    BY <1>3, <2>3, <2>4
<1>6. ASSUME NEW k \in Callers, NEW kind \in {"refresh", "logout"},
             NEW n \in 1 .. Len(pairs), Send(k, kind, n)
      PROVE  calls' \in [Callers -> Call] /\ CallsCarryPairs'
  <2> DEFINE c == [kind |-> kind, at |-> "find", token |-> n, row |-> 0]
  <2>1. Good(c, pairs')
    BY <1>0, <1>6 DEF Good, Call
  <2>2. calls' = [calls EXCEPT ![k] = c]
    BY <1>6 DEF Send
  <2> HIDE DEF c
  <2> QED
    BY <1>3, <2>1, <2>2
<1>7. ASSUME NEW k \in Callers, Free(k)
      PROVE  calls' \in [Callers -> Call] /\ CallsCarryPairs'
  BY <1>2, <1>3, <1>7 DEF Free
<1>8. ASSUME NEW k \in Callers, Find(k)
      PROVE  calls' \in [Callers -> Call] /\ CallsCarryPairs'
  <2>1. CASE Step(k, "refused")
    BY <1>5, <1>8, <2>1 DEF Find
  <2>2. ASSUME NEW m \in Matching(calls[k].token),
               calls' = [calls EXCEPT ![k].at = "found", ![k].row = m]
        PROVE  calls' \in [Callers -> Call] /\ CallsCarryPairs'
    <3> DEFINE c == [calls[k] EXCEPT !.at = "found", !.row = m]
    <3>1. calls[k] \in Call /\ Good(calls[k], pairs') /\ calls[k].at = "find"
      BY <1>0, <1>1, <1>8 DEF Find
    <3>2. m \in 1 .. Len(pairs) /\ pairs[m].sub = pairs[calls[k].token].sub
      BY <1>0, <2>2 DEF Matching, Owner
    <3>3. calls[k].token \in 1 .. Len(pairs)
      BY <1>0, <3>1 DEF Good, Call
    <3>4. c \in Call /\ c.at = "found" /\ c.row = m /\ c.token = calls[k].token
      <4>1. m \in Nat
        BY <1>0, <3>2
      <4> QED
        BY <3>1, <4>1 DEF Call
    <3>5. Good(c, pairs')
      BY <1>0, <3>1, <3>2, <3>3, <3>4 DEF Good
    <3>6. calls' = [calls EXCEPT ![k] = c]
      BY <1>0, <2>2
    <3> HIDE DEF c
    <3> QED
      BY <1>3, <3>5, <3>6
  <2> QED
    BY <1>8, <2>1, <2>2 DEF Find
<1>9. ASSUME NEW k \in Callers, Revoke(k)
      PROVE  calls' \in [Callers -> Call] /\ CallsCarryPairs'
  <2>1. CASE Step(k, "refused") \/ Step(k, "done")
    BY <1>5, <1>9, <2>1 DEF Revoke
  <2>2. CASE /\ pairs' = Append(pairs, Verified(calls[k].token))
             /\ calls' = [calls EXCEPT ![k].at = "issued", ![k].token = New]
    <3> DEFINE c == [calls[k] EXCEPT !.at = "issued", !.token = New]
    <3>1. Len(pairs') = Len(pairs) + 1 /\ New = Len(pairs) + 1
      <4>1. Verified(calls[k].token) \in Payload
        BY <1>9, VerifiedPayload
      <4> QED
        BY <2>2, <4>1, PairsGrow DEF New
    <3>2. calls[k] \in Call
      BY <1>0
    <3>3. c \in Call /\ c.at = "issued" /\ c.token = New
      BY <1>0, <3>1, <3>2 DEF Call
    <3>4. Good(c, pairs')
      BY <1>0, <3>1, <3>3 DEF Good
    <3>5. calls' = [calls EXCEPT ![k] = c]
      BY <1>0, <2>2
    <3> HIDE DEF c
    <3> QED
      BY <1>3, <3>4, <3>5
  <2> QED
    BY <1>9, <2>1, <2>2 DEF Revoke
<1>10. ASSUME NEW k \in Callers, CallFails(k)
       PROVE  calls' \in [Callers -> Call] /\ CallsCarryPairs'
  BY <1>5, <1>10 DEF CallFails
<1>11. ASSUME NEW kind \in {"refresh", "logout"}, NEW n \in Pairs, DeviceCalls(kind, n)
       PROVE  calls' \in [Callers -> Call] /\ CallsCarryPairs'
  BY <1>0, <1>6, <1>11 DEF DeviceCalls
<1>12. ASSUME InitMeRefused PROVE calls' \in [Callers -> Call] /\ CallsCarryPairs'
  <2>1. CASE init = "me"
    <3>1. checked \in 1 .. Len(pairs) /\ Send("tab", "refresh", checked)
      BY <1>0, <1>12, <2>1 DEF InitMeRefused
    <3> QED
      BY <1>0, <1>6, <3>1
  <2>2. CASE init # "me"
    BY <1>4, <1>12, <2>2 DEF InitMeRefused
  <2> QED
    BY <2>1, <2>2
<1>13. ASSUME Logout PROVE calls' \in [Callers -> Call] /\ CallsCarryPairs'
  <2>1. CASE held # 0
    <3>1. held \in 1 .. Len(pairs) /\ Send("tab", "logout", held)
      BY <1>0, <1>13, <2>1 DEF Logout
    <3> QED
      BY <1>0, <1>6, <3>1
  <2>2. CASE held = 0
    BY <1>4, <1>13, <2>2 DEF Logout
  <2> QED
    BY <2>1, <2>2
<1>14. ASSUME DeviceAnswered \/ InitRefreshed \/ LogoutAnswered
       PROVE  calls' \in [Callers -> Call] /\ CallsCarryPairs'
  BY <1>0, <1>7, <1>14 DEF DeviceAnswered, InitRefreshed, LogoutAnswered
<1>15. ASSUME Abandon PROVE calls' \in [Callers -> Call] /\ CallsCarryPairs'
  <2>1. CASE calls' = calls
    BY <1>4, <2>1
  <2>2. CASE calls' = [calls EXCEPT !["device"] = calls["tab"], !["tab"] = NoCall]
    <3>1. \A k \in Callers : calls'[k] = calls["tab"] \/ calls'[k] = NoCall
      BY <1>0, <2>2 DEF Callers
    <3>2. NoCall \in Call
      BY DEF NoCall, Call
    <3> QED
      BY <1>0, <1>1, <1>2, <2>2, <3>1, <3>2 DEF CallsCarryPairs
  <2> QED
    BY <1>15, <2>1, <2>2 DEF Abandon
<1>16. ASSUME LogoutBreaks PROVE calls' \in [Callers -> Call] /\ CallsCarryPairs'
  BY <1>0, <1>7, <1>15, <1>16 DEF LogoutBreaks
<1>17. \/ calls' = calls
       \/ \E k \in Callers : Find(k) \/ Revoke(k) \/ CallFails(k)
       \/ \E kind \in {"refresh", "logout"}, n \in Pairs : DeviceCalls(kind, n)
       \/ InitMeRefused \/ Logout \/ DeviceAnswered \/ InitRefreshed \/ LogoutAnswered
       \/ LogoutBreaks \/ Abandon
  BY DEF Next, Initialize, Expire, DeviceLogin, Login, InitRead, InitMe, InitBreaks,
     LoginMe, LoginBreaks, LoginMeRefused, Reload
<1> QED
  BY <1>4, <1>8, <1>9, <1>10, <1>11, <1>12, <1>13, <1>14, <1>15, <1>16, <1>17

-----------------------------------------------------------------------------
(* Types *)

\* Every step keeps the types.
LEMMA TypesStep ==
    ASSUME TypeOK, CallsCarryPairs, Next
    PROVE  TypeOK'
<1> DEFINE N == Len(pairs)
           M == Len(pairs')
<1>0. /\ N \in Nat
      /\ age \in [Pairs -> {"fresh", "stale", "expired"}]
      /\ active \subseteq 1 .. N
      /\ calls \in [Callers -> Call]
      /\ stored \in 0 .. N /\ held \in 0 .. N
      /\ checked \in 0 .. N /\ entered \in 0 .. N
      /\ user \in Users \cup {None}
      /\ init \in {"start", "me", "refresh", "again", "done", "stuck"}
      /\ form \in {"idle", "me", "logout"}
      /\ faults \in Nat /\ reloads \in Nat
      /\ init \in {"me", "again", "refresh"} => checked # 0
      /\ form = "me" => entered # 0
      /\ \A n \in 1 .. N : Owner(n) \in Users
      /\ "tab" \in Callers
  BY Types
<1>1. /\ M \in Nat /\ N <= M
      /\ \A p \in Payload : pairs' = Append(pairs, p) => M = N + 1
  BY PairsStep, PairsGrow
<1>2. /\ calls' \in [Callers -> Call]
      /\ \A k \in Callers : calls'[k].at = "found" =>
            calls'[k].row \in 1 .. M /\ (Owner(calls[k].row) = Owner(calls[k].token))'
  BY CallsStep DEF CallsCarryPairs, Good, Owner
<1> DEFINE Shape ==
      /\ age' \in [Pairs -> {"fresh", "stale", "expired"}]
      /\ active' \subseteq 1 .. M
      /\ stored' \in 0 .. M /\ held' \in 0 .. M
      /\ checked' \in 0 .. M /\ entered' \in 0 .. M
      /\ user' \in Users \cup {None}
      /\ init' \in {"start", "me", "refresh", "again", "done", "stuck"}
      /\ form' \in {"idle", "me", "logout"}
      /\ faults' \in Nat /\ reloads' \in Nat
      /\ init' \in {"me", "again", "refresh"} => checked' # 0
      /\ form' = "me" => entered' # 0
<1>b. isLoggingOut' \in BOOLEAN /\ overlapped' \in BOOLEAN /\ broken' \in BOOLEAN
  BY Types DEF Next, Find, Revoke, CallFails, Expire, DeviceLogin, DeviceCalls,
     DeviceAnswered, Initialize, InitRead, InitMe, InitMeRefused, InitRefreshed, InitBreaks,
     Login, LoginMe, LoginMeRefused, LoginBreaks, Logout, LogoutAnswered, LogoutBreaks,
     Reload, notes
<1>s. ASSUME Shape PROVE TypeOK'
  BY PairsStep, <1>2, <1>b, <1>s DEF TypeOK
<1>n. New = N + 1
  BY DEF New
<1> HIDE DEF N, M, Shape
<1>3. active' \subseteq 1 .. M
  <2>1. ASSUME NEW u \in Users, DeviceLogin(u) \/ Login(u) PROVE active' \subseteq 1 .. M
    <3>1. /\ LoginPayload(u) \in Payload /\ pairs' = Append(pairs, LoginPayload(u))
          /\ active' = active \cup {New}
      BY <2>1 DEF DeviceLogin, Login, Issue, LoginPayload, Payload, New
    <3>2. \A m \in active' : m \in active \/ m = New
      BY <3>1
    <3> QED
      BY <1>0, <1>1, <1>n, <3>1, <3>2
  <2>2. ASSUME NEW k \in Callers, Revoke(k) PROVE active' \subseteq 1 .. M
    <3>1. CASE active' = active \ {calls[k].row}
      <4>1. \A m \in active' : m \in active
        BY <3>1
      <4>2. \A m \in active' : m \in 1 .. N
        BY <1>0, <4>1
      <4>3. \A m \in 1 .. N : m \in 1 .. M
        BY <1>0, <1>1
      <4> QED
        BY <4>2, <4>3
    <3>2. CASE /\ pairs' = Append(pairs, Verified(calls[k].token))
               /\ active' = (active \ {calls[k].row}) \cup {New}
      <4>1. Verified(calls[k].token) \in Payload
        BY <2>2, VerifiedPayload
      <4>2. \A m \in active' : m \in active \/ m = New
        BY <3>2
      <4>3. M = N + 1
        BY <1>1, <3>2, <4>1
      <4>4. \A m \in 1 .. N : m \in 1 .. M
        BY <1>0, <1>1
      <4>5. New \in 1 .. M
        BY <1>0, <1>n, <4>3
      <4>6. \A m \in active' : m \in 1 .. M
        BY <1>0, <4>2, <4>4, <4>5
      <4> QED
        BY <4>6
    <3> QED
      BY <2>2, <3>1, <3>2 DEF Revoke
  <2>3. \/ active' = active
        \/ \E u \in Users : DeviceLogin(u) \/ Login(u)
        \/ \E k \in Callers : Revoke(k)
    BY DEF Next, Find, CallFails, Expire, DeviceCalls, DeviceAnswered, Initialize, InitRead,
       InitMe, InitMeRefused, InitRefreshed, InitBreaks, LoginMe, LoginMeRefused,
       LoginBreaks, Logout, LogoutAnswered, LogoutBreaks, Reload, backend
  <2>4. CASE active' = active
    BY <1>0, <1>1, <2>4
  <2> QED
    BY <2>1, <2>2, <2>3, <2>4
<1>4. ASSUME NEW k \in Callers, Find(k) \/ Revoke(k) \/ CallFails(k) PROVE Shape
  BY <1>0, <1>1, <1>3, <1>4 DEF Shape, Find, Revoke, CallFails, Fault, backend, tab, notes
<1>5. ASSUME NEW n \in Pairs, Expire(n) PROVE Shape
  BY <1>0, <1>1, <1>3, <1>5 DEF Shape, Expire, tab, notes
<1>6. ASSUME NEW u \in Users, DeviceLogin(u) PROVE Shape
  BY <1>0, <1>1, <1>3, <1>6 DEF Shape, DeviceLogin, Issue, tab, notes
<1>7. ASSUME NEW u \in Users, Login(u) PROVE Shape
  <2>1. /\ New = N + 1 /\ M = N + 1 /\ New \in 1 .. M
    <3>1. LoginPayload(u) \in Payload /\ pairs' = Append(pairs, LoginPayload(u))
      BY <1>7 DEF Login, Issue, LoginPayload, Payload
    <3> QED
      BY <1>0, <1>1, <1>n, <3>1
  <2> QED
    BY <1>0, <1>1, <1>3, <1>7, <2>1 DEF Shape, Login, Issue, StoreTokens
<1>8. ASSUME \/ DeviceAnswered
             \/ \E kind \in {"refresh", "logout"}, n \in Pairs : DeviceCalls(kind, n)
      PROVE Shape
  BY <1>0, <1>1, <1>3, <1>8 DEF Shape, DeviceAnswered, DeviceCalls, backend, tab, notes
<1>9. ASSUME InitRead PROVE Shape
  BY <1>0, <1>1, <1>3, <1>9 DEF Shape, InitRead, backend, notes
<1>10. ASSUME InitMe PROVE Shape
  BY <1>0, <1>1, <1>3, <1>10 DEF Shape, InitMe, backend, notes
<1>11. ASSUME InitMeRefused PROVE Shape
  BY <1>0, <1>1, <1>3, <1>11 DEF Shape, InitMeRefused, Clear, Fault, backend
<1>12. ASSUME InitRefreshed PROVE Shape
  <2>1. calls["tab"].token \in 1 .. N
    <3>1. calls["tab"] \in Call /\ calls["tab"].at # "idle"
      BY <1>0, <1>12 DEF InitRefreshed
    <3> QED
      BY <1>0, <3>1 DEF CallsCarryPairs, Good, Call, N
  <2> QED
    BY <1>0, <1>1, <1>3, <1>12, <2>1 DEF Shape, InitRefreshed, StoreTokens, Clear, backend, notes
<1>13. ASSUME InitBreaks PROVE Shape
  BY <1>0, <1>1, <1>3, <1>13 DEF Shape, InitBreaks, backend
<1>14. ASSUME LoginMe \/ LoginMeRefused \/ LoginBreaks PROVE Shape
  BY <1>0, <1>1, <1>3, <1>14 DEF Shape, LoginMe, LoginMeRefused, LoginBreaks, Clear, Fault, backend, notes
<1>15. ASSUME Logout \/ LogoutAnswered \/ LogoutBreaks PROVE Shape
  BY <1>0, <1>1, <1>3, <1>15 DEF Shape, Logout, LogoutAnswered, LogoutBreaks, Clear, backend, notes
<1>16. ASSUME Reload PROVE Shape
  BY <1>0, <1>1, <1>3, <1>16 DEF Shape, Reload, backend
<1> QED
  <2> HIDE DEF Shape
  <2>1. Shape
    BY <1>4, <1>5, <1>6, <1>7, <1>8, <1>9, <1>10, <1>11, <1>12, <1>13, <1>14, <1>15, <1>16
       DEF Next, Initialize
  <2> QED
    BY <1>s, <2>1

-----------------------------------------------------------------------------
(* The tab *)

TabStep ==
    \/ InitRead \/ InitMe \/ InitMeRefused \/ InitRefreshed \/ InitBreaks
    \/ \E u \in Users : Login(u)
    \/ LoginMe \/ LoginMeRefused \/ LoginBreaks
    \/ Logout \/ LogoutAnswered \/ LogoutBreaks
    \/ Reload

\* The backend and the other device leave the tab alone.
LEMMA ElsewhereOrTab ==
    ASSUME Next
    PROVE  TabStep \/ UNCHANGED <<tab, overlapped, broken>>
BY DEF Next, TabStep, Initialize, Find, Revoke, CallFails, Expire, DeviceLogin, DeviceCalls,
       DeviceAnswered, notes

\* localStorage, memory and the two ways to sign in stay together.
LEMMA TabAgreesStep ==
    ASSUME TabAgrees, Next
    PROVE  TabAgrees'
<1> USE DEF TabAgrees, ChecksTheStored, EntersTheStored, MemoryFollows
<1>1. CASE UNCHANGED <<tab, overlapped, broken>>
  BY <1>1 DEF tab
<1>2. CASE InitRead
  BY <1>2 DEF InitRead, notes
<1>3. CASE InitMe
  BY <1>3 DEF InitMe, notes
<1>4. CASE InitMeRefused
  BY <1>4 DEF InitMeRefused, Clear
<1>5. CASE InitRefreshed
  BY <1>5 DEF InitRefreshed, Clear, StoreTokens, notes
<1>6. CASE InitBreaks
  BY <1>6 DEF InitBreaks
<1>7. ASSUME NEW u \in Users, Login(u) PROVE TabAgrees'
  BY <1>7 DEF Login, StoreTokens
<1>8. CASE LoginMe
  BY <1>8 DEF LoginMe, notes
<1>9. CASE LoginMeRefused
  BY <1>9 DEF LoginMeRefused, Clear
<1>10. CASE LoginBreaks
  BY <1>10 DEF LoginBreaks
<1>11. CASE Logout
  BY <1>11 DEF Logout, notes
<1>12. CASE LogoutAnswered
  BY <1>12 DEF LogoutAnswered, Clear, notes
<1>13. CASE LogoutBreaks
  BY <1>13 DEF LogoutBreaks, notes
<1>14. CASE Reload
  BY <1>14 DEF Reload
<1> QED
  BY ElsewhereOrTab, <1>1, <1>2, <1>3, <1>4, <1>5, <1>6, <1>7, <1>8, <1>9, <1>10, <1>11,
     <1>12, <1>13, <1>14 DEF TabStep

\* A tab at rest stays consistent, or becomes so.
LEMMA ConsistentStep ==
    ASSUME TypeOK, CallsCarryPairs, TabAgrees, SessionConsistent, Next
    PROVE  SessionConsistent'
<1>0. /\ None \notin Users
      /\ \A n \in 1 .. Len(pairs) : pairs[n].sub \in Users /\ pairs'[n].sub = pairs[n].sub
      /\ stored \in 0 .. Len(pairs) /\ checked \in 0 .. Len(pairs) /\ entered \in 0 .. Len(pairs)
      /\ init \in {"me", "again", "refresh"} => checked # 0
      /\ form = "me" => entered # 0
      /\ Len(pairs) \in Nat
  BY Types, PairsStep, SessionAssumption DEF Owner
<1> USE DEF SessionConsistent, Settled
<1>1. CASE UNCHANGED <<tab, overlapped, broken>>
  <2>1. stored # 0 => pairs'[stored].sub = pairs[stored].sub
    BY <1>0
  <2> QED
    BY <1>1, <2>1 DEF tab, Owner
<1>2. CASE InitRead
  BY <1>2 DEF InitRead, notes, TabAgrees, MemoryFollows
<1>3. CASE InitMe
  <2>1. checked # 0 /\ pairs[checked].sub \in Users /\ pairs'[checked].sub = pairs[checked].sub
    BY <1>0, <1>3 DEF InitMe
  <2> QED
    BY <1>0, <1>3, <2>1 DEF InitMe, notes, TabAgrees, ChecksTheStored, MemoryFollows, Owner
<1>4. CASE InitMeRefused
  BY <1>4 DEF InitMeRefused, Clear
<1>5. CASE InitRefreshed
  BY <1>5 DEF InitRefreshed, Clear
<1>6. CASE InitBreaks
  BY <1>6 DEF InitBreaks
<1>7. ASSUME NEW u \in Users, Login(u) PROVE SessionConsistent'
  BY <1>7 DEF Login
<1>8. CASE LoginMe
  <2>1. entered # 0 /\ pairs[entered].sub \in Users /\ pairs'[entered].sub = pairs[entered].sub
    BY <1>0, <1>8 DEF LoginMe
  <2> QED
    BY <1>0, <1>8, <2>1
       DEF LoginMe, notes, TabAgrees, ChecksTheStored, EntersTheStored, MemoryFollows, Owner
<1>9. CASE LoginMeRefused
  BY <1>9 DEF LoginMeRefused, Clear
<1>10. CASE LoginBreaks
  BY <1>10 DEF LoginBreaks
<1>11. CASE Logout
  BY <1>11 DEF Logout, backend, Owner
<1>12. CASE LogoutAnswered
  BY <1>12 DEF LogoutAnswered, Clear
<1>13. CASE LogoutBreaks
  BY <1>13 DEF LogoutBreaks, backend, notes, Owner
<1>14. CASE Reload
  BY <1>14 DEF Reload
<1> QED
  BY ElsewhereOrTab, <1>1, <1>2, <1>3, <1>4, <1>5, <1>6, <1>7, <1>8, <1>9, <1>10, <1>11,
     <1>12, <1>13, <1>14 DEF TabStep

-----------------------------------------------------------------------------
(* Ages *)

\* A pair is issued only while there is an age for it.
LEMMA AllHaveAgeStep ==
    ASSUME TypeOK, CallsCarryPairs, AllHaveAge, Next
    PROVE  AllHaveAge'
<1>0. Len(pairs) \in Nat /\ MaxPairs \in Nat
  BY Types, SessionAssumption
<1>1. CASE pairs' = pairs
  BY <1>1 DEF AllHaveAge
<1>2. ASSUME NEW p \in Payload, pairs' = Append(pairs, p), Len(pairs) < MaxPairs
      PROVE  AllHaveAge'
  BY <1>0, <1>2, PairsGrow DEF AllHaveAge
<1>3. ASSUME NEW u \in Users, DeviceLogin(u) \/ Login(u) PROVE AllHaveAge'
  <2>1. LoginPayload(u) \in Payload
    BY DEF LoginPayload, Payload
  <2> QED
    BY <1>2, <1>3, <2>1 DEF DeviceLogin, Login, Issue
<1>4. ASSUME NEW k \in Callers, Revoke(k) PROVE AllHaveAge'
  <2>1. Verified(calls[k].token) \in Payload
    BY <1>4, VerifiedPayload
  <2> QED
    BY <1>1, <1>2, <1>4, <2>1 DEF Revoke
<1>5. \/ pairs' = pairs
      \/ \E u \in Users : DeviceLogin(u) \/ Login(u)
      \/ \E k \in Callers : Revoke(k)
  BY DEF Next, Find, CallFails, Expire, DeviceCalls, DeviceAnswered, Initialize, InitRead,
     InitMe, InitMeRefused, InitRefreshed, InitBreaks, LoginMe, LoginMeRefused, LoginBreaks,
     Logout, LogoutAnswered, LogoutBreaks, Reload, backend
<1> QED
  BY <1>1, <1>3, <1>4, <1>5

\* Nothing becomes fresh again.
LEMMA AgesGrow ==
    ASSUME TypeOK, AllHaveAge, Next,
           NEW n \in 1 .. Len(pairs), age[n] # "fresh"
    PROVE  age'[n] # "fresh"
<1>1. n \in Pairs /\ age \in [Pairs -> {"fresh", "stale", "expired"}]
  BY Types, SessionAssumption DEF AllHaveAge, Pairs
<1>2. ASSUME NEW m \in Pairs, Expire(m) PROVE age'[n] # "fresh"
  <2>1. age' = [age EXCEPT ![m] = IF age[m] = "fresh" THEN "stale" ELSE "expired"]
    BY <1>2 DEF Expire
  <2>2. age'[n] = age[n] \/ age'[n] \in {"stale", "expired"}
    BY <1>1, <2>1
  <2> QED
    BY <2>2
<1>3. age' = age \/ \E m \in Pairs : Expire(m)
  BY DEF Next, Find, Revoke, CallFails, DeviceLogin, Login, Issue, DeviceCalls,
     DeviceAnswered, Initialize, InitRead, InitMe, InitMeRefused, InitRefreshed, InitBreaks,
     LoginMe, LoginMeRefused, LoginBreaks, Logout, LogoutAnswered, LogoutBreaks, Reload, backend
<1> QED
  BY <1>2, <1>3

\* A refresh is asked for only when me was refused.
LEMMA RefreshesStep ==
    ASSUME TypeOK, AllHaveAge, RefreshesTheOld, Next
    PROVE  RefreshesTheOld'
<1>1. faults \in Nat /\ (init \in {"me", "refresh"} => checked \in 1 .. Len(pairs))
  BY Types
<1>2. faults' = faults \/ faults' = faults + 1
  BY DEF Next, Find, Revoke, CallFails, Expire, DeviceLogin, DeviceCalls, DeviceAnswered,
     Initialize, InitRead, InitMe, InitMeRefused, InitRefreshed, InitBreaks, Login, LoginMe,
     LoginMeRefused, LoginBreaks, Logout, LogoutAnswered, LogoutBreaks, Reload, notes, Fault
<1>3. CASE init' = "refresh" /\ init = "refresh" /\ checked' = checked
  BY <1>1, <1>2, <1>3, AgesGrow DEF RefreshesTheOld
<1>4. CASE InitMeRefused /\ init = "me"
  <2>1. checked' = checked /\ age' = age /\ (age[checked] # "fresh" \/ faults' = faults + 1)
    BY <1>4 DEF InitMeRefused, Fault, backend
  <2> QED
    BY <1>1, <2>1 DEF RefreshesTheOld
<1>5. \/ init' # "refresh"
      \/ init = "refresh" /\ checked' = checked
      \/ InitMeRefused /\ init = "me"
  BY DEF Next, Find, Revoke, CallFails, Expire, DeviceLogin, DeviceCalls, DeviceAnswered,
     Initialize, InitRead, InitMe, InitMeRefused, InitRefreshed, InitBreaks, Login, LoginMe,
     LoginMeRefused, LoginBreaks, Logout, LogoutAnswered, LogoutBreaks, Reload, tab
<1> QED
  BY <1>3, <1>4, <1>5 DEF RefreshesTheOld

-----------------------------------------------------------------------------
(* The theorems *)

\* The invariant holds at first, is kept, and so always holds.
LEMMA InitInv == Init => Inv
<1> SUFFICES ASSUME Init PROVE Inv
  OBVIOUS
<1>0. pairs \in Seq(Payload) /\ Len(pairs) = 0 /\ DOMAIN pairs = {}
  <2>1. pairs = << >>
    BY DEF Init
  <2>2. << >> \in Seq(Payload) /\ Len(<< >>) = 0
    BY EmptySeq
  <2> QED
    BY <2>1, <2>2
<1>1. calls \in [Callers -> Call]
  BY DEF Init, NoCall, Call, Callers
<1>2. \A k \in Callers : calls[k] = NoCall
  BY DEF Init
<1>3. TypeOK
  <2>1. age \in [Pairs -> {"fresh", "stale", "expired"}] /\ active \subseteq DOMAIN pairs
    BY DEF Init
  <2>2. {stored, held, checked, entered} \subseteq 0 .. Len(pairs)
    BY <1>0 DEF Init
  <2>3. {isLoggingOut, overlapped, broken} \subseteq BOOLEAN
    BY DEF Init
  <2>4. {faults, reloads} \subseteq Nat
    BY DEF Init
  <2>5. \A k \in Callers : calls[k].at # "found"
    BY <1>2 DEF NoCall
  <2> QED
    BY <1>0, <1>1, <2>1, <2>2, <2>3, <2>4, <2>5 DEF Init, TypeOK
<1>4. CallsCarryPairs
  BY <1>0, <1>1, <1>2 DEF CallsCarryPairs, Good, NoCall, Call
<1>5. AllHaveAge
  BY <1>0, SessionAssumption DEF AllHaveAge
<1>6. TabAgrees /\ RefreshesTheOld /\ SessionConsistent
  BY DEF Init, TabAgrees, ChecksTheStored, EntersTheStored, MemoryFollows, RefreshesTheOld,
         SessionConsistent, Settled
<1> QED
  BY <1>3, <1>4, <1>5, <1>6 DEF Inv

LEMMA InvStep == Inv /\ [Next]_vars => Inv'
<1>1. Inv /\ Next => Inv'
  BY TypesStep, CallsStep, AllHaveAgeStep, TabAgreesStep, RefreshesStep, ConsistentStep
     DEF Inv
<1>2. Inv /\ UNCHANGED vars => Inv'
  BY DEF Inv, TypeOK, CallsCarryPairs, Good, AllHaveAge, TabAgrees, ChecksTheStored,
         EntersTheStored, MemoryFollows, RefreshesTheOld, SessionConsistent, Settled, Owner,
         vars, backend, tab, notes
<1> QED
  BY <1>1, <1>2

LEMMA Invariance == Spec => []Inv
BY InitInv, InvStep, PTL DEF Spec

\* Types, for all users and numbers of pairs: tab, requests and rows refer to
\* pairs that were issued.
THEOREM TypeCorrect == Spec => []TypeOK
BY Invariance, PTL DEF Inv

\* With neither initializeAuth nor loginWithTokens running, the tab shows the
\* user whose pair it keeps, or nobody and keeps nothing, whatever the backend
\* answered them, other devices did and logouts came to.  Not claimed, for the
\* code does not keep it: after a login while initializeAuth ran (`overlapped')
\* and after a fetch of one of the two failed (`broken').
THEOREM TabShowsItsPair == Spec => []SessionConsistent
BY Invariance, PTL DEF Inv

\* The tab gives up a pair that is still good only for a logout, a fault or an
\* overlap: the step of KeepsFreshSession.
GivesUpForAReason ==
    stored # 0 /\ stored' = 0 /\ age[stored] = "fresh" =>
        form = "logout" \/ faults' > 0 \/ overlapped

LEMMA KeepsFreshStep == Inv /\ [Next]_vars => [GivesUpForAReason]_vars
<1> SUFFICES ASSUME Inv, Next, stored # 0, stored' = 0, age[stored] = "fresh", ~overlapped
             PROVE  form = "logout" \/ faults' > 0
  BY DEF vars, GivesUpForAReason
<1> USE DEF Inv
<1>0. faults \in Nat
  BY Types
<1>1. CASE InitMeRefused
  BY <1>0, <1>1 DEF InitMeRefused, Fault, TabAgrees, ChecksTheStored
<1>2. CASE InitRefreshed
  <2>1. init = "refresh" /\ stored = checked /\ faults' = faults
    BY <1>2 DEF InitRefreshed, TabAgrees, ChecksTheStored, notes
  <2> QED
    BY <1>0, <2>1 DEF RefreshesTheOld
<1>3. CASE LoginMeRefused
  BY <1>0, <1>3 DEF LoginMeRefused, Fault, TabAgrees, EntersTheStored
<1>4. CASE LogoutAnswered
  BY <1>4 DEF LogoutAnswered
<1>5. ASSUME NEW u \in Users, Login(u) PROVE FALSE
  <2>1. New # 0
    BY Types DEF New
  <2> QED
    BY <1>5, <2>1 DEF Login, StoreTokens
<1>6. stored' = stored \/ InitMeRefused \/ InitRefreshed \/ LoginMeRefused \/ LogoutAnswered
      \/ \E u \in Users : Login(u)
  BY DEF Next, Find, Revoke, CallFails, Expire, DeviceLogin, DeviceCalls, DeviceAnswered,
     Initialize, InitRead, InitMe, InitBreaks, LoginMe, LoginBreaks, Logout, LogoutBreaks,
     Reload, tab
<1> QED
  BY <1>1, <1>2, <1>3, <1>4, <1>5, <1>6

\* No step of another device makes the tab give up a pair that is still good.
THEOREM FreshPairIsKept == Spec => KeepsFreshSession
BY KeepsFreshStep, Invariance, PTL DEF KeepsFreshSession, GivesUpForAReason, Spec

-----------------------------------------------------------------------------
(* Filtering a sequence: the guest's list of HistoryPages *)

\* A nonempty set of naturals has a least member.
LEMMA Least ==
    ASSUME NEW T \in SUBSET Nat, T # {}
    PROVE  \E n \in T : \A m \in T : n <= m
<1> DEFINE I == {1 .. n : n \in T}
<1>1. I \subseteq FiniteSubsetsOf(Nat) /\ I # {}
  <2>1. \A n \in T : IsFiniteSet(1 .. n) /\ 1 .. n \in SUBSET Nat
    BY FS_Interval
  <2> QED
    BY <2>1 DEF FiniteSubsetsOf
<1> HIDE DEF I
<1>2. \E x \in I : \A y \in I : ~ (<<y, x>> \in StrictSubsetOrdering(Nat))
  BY <1>1, FS_StrictSubsetOrderingWellFounded, WFMin
<1>3. PICK n \in T : \A m \in T : ~ (<<1 .. m, 1 .. n>> \in StrictSubsetOrdering(Nat))
  BY <1>2 DEF I
<1>4. ASSUME NEW m \in T, m < n PROVE FALSE
  <2>1. 1 .. m \in SUBSET Nat /\ 1 .. n \in SUBSET Nat /\ 1 .. m \subseteq 1 .. n
    BY <1>4
  <2>2. n \in 1 .. n /\ n \notin 1 .. m
    BY <1>4
  <2>3. <<1 .. m, 1 .. n>> \in StrictSubsetOrdering(Nat)
    BY <2>1, <2>2 DEF StrictSubsetOrdering
  <2> QED
    BY <1>3, <2>3
<1> QED
  BY <1>3, <1>4

\* Induction, about a set of naturals instead of a predicate.
LEMMA UpTo ==
    ASSUME NEW n \in Nat, NEW P, 0 \in P,
           \A i \in 0 .. n - 1 : i \in P => i + 1 \in P
    PROVE  0 .. n \subseteq P
<1> DEFINE T == (0 .. n) \ P
<1> SUFFICES ASSUME T # {} PROVE FALSE
  OBVIOUS
<1>1. PICK i \in T : \A m \in T : i <= m
  <2>1. T \in SUBSET Nat
    OBVIOUS
  <2> HIDE DEF T
  <2> QED
    BY <2>1, Least
<1>2. i # 0 /\ i - 1 \in 0 .. n - 1 /\ i - 1 \in P
  BY <1>1
<1> QED
  BY <1>1, <1>2

\* The prefixes of the filtered sequence, up to the k-th entry of seq.
Filters(f, k, seq, r) ==
    f = [i \in 0 .. k |->
            IF i = 0 THEN << >>
            ELSE IF seq[i] = r THEN f[i - 1] ELSE Append(f[i - 1], seq[i])]

\* The recursion defines a function.
LEMMA FilterExists ==
    ASSUME NEW n \in Nat, NEW seq, NEW r
    PROVE  \E f : Filters(f, n, seq, r)
<1> DEFINE P == {k \in 0 .. n : \E f : Filters(f, k, seq, r)}
<1>1. 0 \in P
  <2>1. Filters([i \in 0 .. 0 |-> << >>], 0, seq, r)
    BY DEF Filters
  <2> QED
    BY <2>1
<1>2. ASSUME NEW k \in 0 .. n - 1, k \in P PROVE k + 1 \in P
  <2>1. PICK g : Filters(g, k, seq, r)
    BY <1>2
  <2> DEFINE Extended(x) == IF seq[k + 1] = r THEN x ELSE Append(x, seq[k + 1])
             h == [i \in 0 .. k + 1 |-> IF i = k + 1 THEN Extended(g[k]) ELSE g[i]]
  <2>2. \A i \in 0 .. k : g[i] = IF i = 0 THEN << >>
            ELSE IF seq[i] = r THEN g[i - 1] ELSE Append(g[i - 1], seq[i])
    BY <2>1 DEF Filters
  <2>3. h[k + 1] = Extended(g[k]) /\ \A i \in 0 .. k : h[i] = g[i]
    OBVIOUS
  <2>4. h = [i \in 0 .. k + 1 |-> h[i]]
    OBVIOUS
  <2> HIDE DEF h
  <2>5. ASSUME NEW i \in 0 .. k + 1
        PROVE  h[i] = IF i = 0 THEN << >>
                      ELSE IF seq[i] = r THEN h[i - 1] ELSE Append(h[i - 1], seq[i])
    <3>1. CASE i = k + 1
      <4>1. i # 0 /\ i - 1 = k /\ k \in 0 .. k
        BY <3>1
      <4> QED
        BY <2>3, <3>1, <4>1
    <3>2. CASE i \in 0 .. k
      <4>1. i # 0 => i - 1 \in 0 .. k
        BY <3>2
      <4> QED
        BY <2>2, <2>3, <3>2, <4>1
    <3> QED
      BY <3>1, <3>2
  <2>6. Filters(h, k + 1, seq, r)
    BY <2>4, <2>5 DEF Filters
  <2> QED
    BY <2>6
<1> HIDE DEF P
<1>3. n \in P
  BY <1>1, <1>2, UpTo
<1> QED
  BY <1>3 DEF P

\* Filtering leaves the other entries, and no repetition where there was none.
LEMMA WithoutSet ==
    ASSUME NEW S, NEW seq \in Seq(S), NEW r, IsInjective(seq)
    PROVE  /\ Without(seq, r) \in Seq(S)
           /\ IsInjective(Without(seq, r))
           /\ ToSet(Without(seq, r)) = ToSet(seq) \ {r}
<1> DEFINE n == Len(seq)
           f == CHOOSE g : Filters(g, n, seq, r)
           Upto(i) == {seq[j] : j \in 1 .. i}
           P == {i \in 0 .. n : f[i] \in Seq(S) /\ IsInjective(f[i]) /\ ToSet(f[i]) = Upto(i) \ {r}}
<1>0. n \in Nat /\ DOMAIN seq = 1 .. n /\ \A i \in 1 .. n : seq[i] \in S
  OBVIOUS
<1>1. Without(seq, r) = f[n]
  BY DEF Without, Filters
<1>2. Filters(f, n, seq, r)
  BY <1>0, FilterExists
<1> HIDE DEF f
<1>3. \A i \in 0 .. n : f[i] = IF i = 0 THEN << >>
            ELSE IF seq[i] = r THEN f[i - 1] ELSE Append(f[i - 1], seq[i])
  BY <1>2 DEF Filters
<1>4. 0 \in P
  <2>1. f[0] = << >> /\ 0 \in 0 .. n
    BY <1>0, <1>3
  <2>2. Upto(0) = {} /\ ToSet(<< >>) = {} /\ IsInjective(<< >>) /\ << >> \in Seq(S)
    BY DEF ToSet, IsInjective
  <2> QED
    BY <2>1, <2>2
<1>5. ASSUME NEW i \in 0 .. n - 1, i \in P PROVE i + 1 \in P
  <2> DEFINE x == seq[i + 1]
  <2>1. i + 1 \in 0 .. n /\ i + 1 # 0 /\ (i + 1) - 1 = i /\ i + 1 \in 1 .. n /\ x \in S
    BY <1>0
  <2>2. f[i + 1] = IF x = r THEN f[i] ELSE Append(f[i], x)
    BY <1>3, <2>1
  <2>3. Upto(i + 1) = Upto(i) \cup {x}
    <3>1. 1 .. i + 1 = (1 .. i) \cup {i + 1}
      BY <1>0
    <3> QED
      BY <3>1
  <2>4. x \notin Upto(i)
    BY <1>0, <2>1 DEF IsInjective
  <2>5. f[i] \in Seq(S) /\ IsInjective(f[i]) /\ ToSet(f[i]) = Upto(i) \ {r}
    BY <1>5
  <2>6. CASE x = r
    BY <2>1, <2>2, <2>3, <2>5, <2>6
  <2>7. CASE x # r
    <3>1. Append(f[i], x) \in Seq(S)
      BY <2>1, <2>5
    <3>2. IsInjective(Append(f[i], x)) /\ ToSet(Append(f[i], x)) = ToSet(f[i]) \cup {x}
      <4>1. x \notin ToSet(f[i])
        BY <2>4, <2>5
      <4>2. /\ Len(f[i]) \in Nat /\ DOMAIN f[i] = 1 .. Len(f[i])
            /\ DOMAIN Append(f[i], x) = 1 .. Len(f[i]) + 1
            /\ \A j \in 1 .. Len(f[i]) : Append(f[i], x)[j] = f[i][j]
            /\ Append(f[i], x)[Len(f[i]) + 1] = x
        BY <2>1, <2>5, AppendProperties
      <4>3. 1 .. Len(f[i]) + 1 = (1 .. Len(f[i])) \cup {Len(f[i]) + 1}
        BY <4>2
      <4> QED
        BY <2>5, <4>1, <4>2, <4>3 DEF IsInjective, ToSet
    <3> QED
      BY <2>1, <2>2, <2>3, <2>5, <2>7, <3>1, <3>2
  <2> QED
    BY <2>6, <2>7
<1>6. n \in P
  <2> HIDE DEF P, n
  <2>1. 0 .. n \subseteq P
    BY <1>0, <1>4, <1>5, UpTo
  <2> QED
    BY <1>0, <2>1
<1>7. ToSet(seq) = Upto(n)
  BY <1>0 DEF ToSet
<1> QED
  BY <1>1, <1>6, <1>7

\* A sequence without repetition is as long as it has members.
LEMMA DistinctLength ==
    ASSUME NEW S, NEW seq \in Seq(S), IsInjective(seq)
    PROVE  IsFiniteSet(ToSet(seq)) /\ Cardinality(ToSet(seq)) = Len(seq)
<1>1. Len(seq) \in Nat /\ DOMAIN seq = 1 .. Len(seq) /\ seq \in [1 .. Len(seq) -> S]
  BY LenProperties
<1>2. seq \in [1 .. Len(seq) -> ToSet(seq)]
  BY <1>1 DEF ToSet
<1>3. \A t \in ToSet(seq) : \E i \in 1 .. Len(seq) : seq[i] = t
  BY <1>1 DEF ToSet
<1>4. \A i, j \in 1 .. Len(seq) : seq[i] = seq[j] => i = j
  BY <1>1 DEF IsInjective
<1>5. ExistsBijection(1 .. Len(seq), ToSet(seq))
  BY <1>2, <1>3, <1>4 DEF ExistsBijection, Bijection, Injection, Surjection, IsInjective
<1>6. IsFiniteSet(1 .. Len(seq)) /\ Cardinality(1 .. Len(seq)) = Len(seq)
  BY <1>1, FS_Interval
<1> QED
  BY <1>5, <1>6, FS_Bijection

\* rememberGuestConference puts the room first, keeps no room twice and drops
\* rooms only when the list is full.
LEMMA RememberKeeps ==
    ASSUME NEW r \in Rooms, guestList \in Seq(Rooms), IsInjective(guestList)
    PROVE  /\ Remember(r) \in Seq(Rooms) /\ IsInjective(Remember(r))
           /\ r \in ToSet(Remember(r))
           /\ ToSet(Remember(r)) \subseteq ToSet(guestList) \cup {r}
           /\ Cardinality(ToSet(guestList) \cup {r}) <= MAX_GUEST_HISTORY_ITEMS =>
                 ToSet(Remember(r)) = ToSet(guestList) \cup {r}
<1> DEFINE w == Without(guestList, r)
           rooms == <<r>> \o w
           limit == MAX_GUEST_HISTORY_ITEMS
           n == IF Len(rooms) < limit THEN Len(rooms) ELSE limit
           res == SubSeq(rooms, 1, n)
<1>0. limit \in Nat \ {0}
  BY ArchiveAssumption
<1>1. w \in Seq(Rooms) /\ IsInjective(w) /\ ToSet(w) = ToSet(guestList) \ {r}
  BY WithoutSet
<1>2. Len(w) \in Nat /\ DOMAIN w = 1 .. Len(w)
  BY <1>1, LenProperties
<1> HIDE DEF w
<1>3. /\ rooms \in Seq(Rooms) /\ Len(rooms) = Len(w) + 1 /\ DOMAIN rooms = 1 .. Len(w) + 1
      /\ rooms[1] = r /\ \A i \in 2 .. Len(w) + 1 : rooms[i] = w[i - 1]
  <2>1. <<r>> \in Seq(Rooms) /\ Len(<<r>>) = 1 /\ <<r>>[1] = r
    OBVIOUS
  <2>2. /\ rooms \in Seq(Rooms) /\ Len(rooms) = Len(<<r>>) + Len(w)
        /\ \A i \in 1 .. Len(<<r>>) + Len(w) :
              rooms[i] = IF i <= Len(<<r>>) THEN <<r>>[i] ELSE w[i - Len(<<r>>)]
    BY <1>1, <2>1, ConcatProperties
  <2> HIDE DEF rooms
  <2> QED
    BY <1>2, <2>1, <2>2, LenProperties
<1> HIDE DEF rooms
<1>4. IsInjective(rooms)
  <2>1. \A i \in 2 .. Len(w) + 1 : i - 1 \in 1 .. Len(w) /\ w[i - 1] # r
    <3>1. \A i \in 1 .. Len(w) : w[i] # r
      BY <1>1, <1>2 DEF ToSet
    <3>2. \A i \in 2 .. Len(w) + 1 : i - 1 \in 1 .. Len(w)
      BY <1>2
    <3> QED
      BY <3>1, <3>2
  <2>2. \A i, j \in 1 .. Len(w) : w[i] = w[j] => i = j
    BY <1>1, <1>2 DEF IsInjective
  <2>3. \A i \in 1 .. Len(w) + 1 : i = 1 \/ i \in 2 .. Len(w) + 1
    BY <1>2
  <2>4. ASSUME NEW i \in 1 .. Len(w) + 1, NEW j \in 1 .. Len(w) + 1, rooms[i] = rooms[j]
        PROVE  i = j
    BY <1>2, <1>3, <2>1, <2>2, <2>3, <2>4
  <2> QED
    BY <1>3, <2>4 DEF IsInjective
<1>5. ToSet(rooms) = ToSet(guestList) \cup {r}
  <2>1. \A i \in 1 .. Len(w) + 1 : i = 1 \/ (i - 1 \in 1 .. Len(w) /\ rooms[i] = w[i - 1])
    BY <1>2, <1>3
  <2>2. \A i \in 1 .. Len(w) : i + 1 \in 1 .. Len(w) + 1 /\ rooms[i + 1] = w[i]
    BY <1>2, <1>3
  <2>3. ToSet(rooms) = ToSet(w) \cup {r}
    <3>1. 1 \in 1 .. Len(w) + 1
      BY <1>2
    <3>2. ToSet(rooms) \subseteq ToSet(w) \cup {r}
      <4>1. ASSUME NEW e \in ToSet(rooms) PROVE e \in ToSet(w) \cup {r}
        <5>1. PICK i \in 1 .. Len(w) + 1 : e = rooms[i]
          BY <1>3, <4>1 DEF ToSet
        <5>2. i = 1 => e = r
          BY <1>3, <5>1
        <5>3. i - 1 \in 1 .. Len(w) /\ e = w[i - 1] => e \in ToSet(w)
          BY <1>2 DEF ToSet
        <5> QED
          BY <2>1, <5>1, <5>2, <5>3
      <4> QED
        BY <4>1
    <3>3. ToSet(w) \cup {r} \subseteq ToSet(rooms)
      <4>1. ASSUME NEW e \in ToSet(w) PROVE e \in ToSet(rooms)
        <5>1. PICK i \in 1 .. Len(w) : e = w[i]
          BY <1>2, <4>1 DEF ToSet
        <5>2. i + 1 \in DOMAIN rooms /\ rooms[i + 1] = e
          BY <1>3, <2>2, <5>1
        <5> QED
          BY <5>2 DEF ToSet
      <4>2. r \in ToSet(rooms)
        BY <1>3, <3>1 DEF ToSet
      <4> QED
        BY <4>1, <4>2
    <3> QED
      BY <3>2, <3>3
  <2> QED
    BY <1>1, <2>3
<1>6. n \in 1 .. Len(rooms) /\ (Len(rooms) <= limit => n = Len(rooms))
  BY <1>0, <1>2, <1>3
<1> HIDE DEF n
<1>7. res \in Seq(Rooms) /\ Len(res) = n /\ \A i \in 1 .. n : res[i] = rooms[i]
  <2>1. \A i \in 1 .. n : rooms[i] \in Rooms
    BY <1>3, <1>6
  <2> QED
    BY <1>2, <1>3, <1>6, <2>1, SubSeqProperties
<1>8. res = Remember(r)
  BY DEF res, rooms, w, n, Remember
<1> HIDE DEF res
<1>9. DOMAIN res = 1 .. n /\ 1 \in 1 .. n /\ \A i \in 1 .. n : i \in 1 .. Len(w) + 1
  BY <1>2, <1>3, <1>6, <1>7, LenProperties
<1>10. IsInjective(res)
  BY <1>3, <1>4, <1>7, <1>9 DEF IsInjective
<1>11. r \in ToSet(res)
  BY <1>3, <1>7, <1>9 DEF ToSet
<1>12. ToSet(res) \subseteq ToSet(rooms)
  BY <1>3, <1>7, <1>9 DEF ToSet
<1>13. ASSUME Cardinality(ToSet(rooms)) <= limit PROVE ToSet(res) = ToSet(rooms)
  <2>1. Len(rooms) <= limit
    BY <1>3, <1>4, <1>13, DistinctLength
  <2>2. n = Len(rooms)
    BY <1>6, <2>1
  <2> QED
    BY <1>3, <1>7, <1>9, <2>2 DEF ToSet
<1> QED
  BY <1>5, <1>7, <1>8, <1>10, <1>11, <1>12, <1>13

-----------------------------------------------------------------------------
(* The archive page *)

\* The session is that of AuthSession, of a tab that may start with a pair.
LEMMA ArchiveInitInv == ArchiveInit => Inv
<1> SUFFICES ASSUME ArchiveInit, ~Init PROVE Inv
  BY InitInv
<1>1. PICK u \in Users : pairs = << LoginPayload(u) >>
  BY DEF ArchiveInit
<1>2. pairs \in Seq(Payload) /\ Len(pairs) = 1 /\ DOMAIN pairs = 1 .. 1 /\ 1 <= MaxPairs
  <2>1. LoginPayload(u) \in Payload /\ 1 \in Pairs
    BY DEF LoginPayload, Payload, ArchiveInit
  <2> QED
    BY <1>1, <2>1 DEF Pairs
<1>3. calls \in [Callers -> Call] /\ \A k \in Callers : calls[k] = NoCall
  BY DEF ArchiveInit, NoCall, Call, Callers
<1>4. TypeOK
  <2>1. age \in [Pairs -> {"fresh", "stale", "expired"}] /\ active \subseteq DOMAIN pairs
    BY <1>2 DEF ArchiveInit
  <2>2. {stored, held, checked, entered} \subseteq 0 .. Len(pairs)
    <3>1. stored = 1 /\ held = 0 /\ checked = 0 /\ entered = 0
      BY DEF ArchiveInit
    <3> QED
      BY <1>2, <3>1
  <2>3. {isLoggingOut, overlapped, broken} \subseteq BOOLEAN
    BY DEF ArchiveInit
  <2>5. {faults, reloads} \subseteq Nat
    BY DEF ArchiveInit
  <2>4. \A k \in Callers : calls[k].at # "found"
    BY <1>3 DEF NoCall
  <2> QED
    BY <1>2, <1>3, <2>1, <2>2, <2>3, <2>4, <2>5 DEF ArchiveInit, TypeOK
<1>5. CallsCarryPairs
  BY <1>2, <1>3 DEF CallsCarryPairs, Good, NoCall, Call
<1>6. AllHaveAge
  BY <1>2 DEF AllHaveAge
<1>7. TabAgrees /\ RefreshesTheOld /\ SessionConsistent
  BY DEF ArchiveInit, TabAgrees, ChecksTheStored, EntersTheStored, MemoryFollows,
         RefreshesTheOld, SessionConsistent, Settled
<1> QED
  BY <1>4, <1>5, <1>6, <1>7 DEF Inv

\* What the tab does beside the archive page are steps of AuthSession.
LEMMA SessionStepIsNext == SessionStep => Next
BY DEF SessionStep, Next, Callers

\* With or without the pages, the session takes its own steps or none.
LEMMA ArchiveStepIsSessions == [ArchiveNext]_allVars => [Next]_vars
BY SessionStepIsNext DEF ArchiveNext, Session, OpenList, LeaveList, ListArrives, ListFails,
                         Visit, allVars

\* The list page as the last run of its effect left it: requests that count
\* carry the pair in memory; a list that is loaded is the guest's, or that of
\* the owner of the pair in memory, or the empty one of an expired token.
ListOfSession ==
    /\ \A q \in requests : q.isActive =>
          init = "done" /\ user # None /\ held # 0 /\ q.token = held
    /\ init # "done" => loading
    /\ loading /\ init = "done" => \E q \in requests : q.isActive
    /\ ~loading /\ ~failed =>
          IF user = None \/ held = 0
          THEN items = [of |-> Guest, rooms |-> ToSet(guestList)]
          ELSE \/ items = [of |-> Owner(held), rooms |-> RoomsOf(Owner(held))]
               \/ items = [of |-> Nobody, rooms |-> {}] /\ age[held] # "fresh"

\* A page that is not mounted shows nothing and hears nothing.
NotMounted ==
    /\ items = NoItems /\ loading = TRUE /\ failed = FALSE
    /\ \A q \in requests : ~q.isActive

Request == [token : Nat, isActive : BOOLEAN]

PageInv ==
    /\ page \in {"list", "other"}
    /\ requests \subseteq Request
    /\ members \subseteq Users \X Rooms
    /\ page = "list" => ListOfSession
    /\ page = "other" => NotMounted

\* The guest's list: no room twice, the latest among them, and all as long as
\* they fit.
GuestListed ==
    /\ guestList \in Seq(Rooms) /\ IsInjective(guestList)
    /\ IsFiniteSet(visits[Guest]) /\ ToSet(guestList) \subseteq visits[Guest]
    /\ latest # None => latest \in ToSet(guestList)
    /\ Cardinality(visits[Guest]) <= MAX_GUEST_HISTORY_ITEMS =>
          visits[Guest] \subseteq ToSet(guestList)

\* A user's rooms are in PostgreSQL, but for those of an expired token.
MembersListed ==
    /\ visits \in [Users \cup {Guest} -> SUBSET Rooms]
    /\ \A u \in Users : \A r \in visits[u] : <<u, r>> \in members \cup lapsed

ArchiveInv == Inv /\ PageInv /\ GuestListed /\ MembersListed

\* The clean-up of the effect leaves no request that counts.
LEMMA SupersededInactive ==
    ASSUME NEW qs, qs \subseteq Request
    PROVE  Superseded(qs) \subseteq Request /\ \A q \in Superseded(qs) : ~q.isActive
<1> SUFFICES ASSUME NEW q \in qs
             PROVE  LET p == [q EXCEPT !.isActive = FALSE]
                    IN p \in Request /\ ~p.isActive
  BY DEF Superseded
<1>1. q \in Request
  OBVIOUS
<1> QED
  BY <1>1 DEF Request

\* The effect, run with the session of the next state, leaves the list as it
\* should be, if requests that still count are none.
LEMMA EffectRuns ==
    ASSUME NEW qs, qs \subseteq Request, \A q \in qs : ~q.isActive, LoadConferences(qs),
           init' # "done" => loading,
           guestList' = guestList, TypeOK'
    PROVE  ListOfSession' /\ requests' \subseteq Request
<1>1. CASE init' # "done"
  BY <1>1 DEF LoadConferences, ListOfSession
<1>2. CASE init' = "done" /\ (user' = None \/ held' = 0)
  BY <1>2 DEF LoadConferences, ListOfSession
<1>3. CASE init' = "done" /\ ~(user' = None \/ held' = 0)
  <2> DEFINE new == [token |-> held', isActive |-> TRUE]
  <2>1. loading' = TRUE /\ requests' = qs \cup {new}
    BY <1>3 DEF LoadConferences
  <2>2. new \in Request /\ new.isActive /\ new.token = held'
    <3>1. held' \in Nat
      BY DEF TypeOK
    <3> QED
      BY <3>1 DEF Request
  <2> HIDE DEF new
  <2>3. \A q \in requests' : q.isActive => q = new
    BY <2>1
  <2> QED
    BY <1>3, <2>1, <2>2, <2>3 DEF ListOfSession
<1> QED
  BY <1>1, <1>2, <1>3

\* The effect does not run: its inputs are what they were.
LEMMA EffectRests ==
    ASSUME Inv, ListOfSession, [Next]_vars, UNCHANGED list, UNCHANGED <<guestList, members>>,
           user' = user, held' = held, (init' = "done") = (init = "done")
    PROVE  ListOfSession'
<1>1. ASSUME held # 0
      PROVE  /\ Owner(held)' = Owner(held)
             /\ age[held] # "fresh" => age'[held] # "fresh"
  <2>1. held \in 1 .. Len(pairs)
    BY <1>1, Types DEF Inv
  <2>2. CASE UNCHANGED vars
    BY <2>2 DEF vars, backend, tab, Owner
  <2>3. CASE Next
    <3>1. \A n \in 1 .. Len(pairs) : Owner(n)' = Owner(n)
      BY <2>3, PairsStep DEF Inv
    <3>2. age[held] # "fresh" => age'[held] # "fresh"
      BY <2>1, <2>3, AgesGrow DEF Inv
    <3>3. Owner(held)' = Owner(held)
      BY <2>1, <3>1 DEF Owner
    <3> QED
      BY <3>2, <3>3
  <2> QED
    BY <2>2, <2>3
<1>2. RoomsOf(Owner(held))' = {r \in Rooms : <<Owner(held)', r>> \in members}
  BY DEF RoomsOf
<1> QED
  BY <1>1, <1>2 DEF ListOfSession, list, RoomsOf

\* initializeAuth ends once.
LEMMA DoneOnce == ASSUME SessionStep, init = "done" PROVE init' = "done"
BY DEF SessionStep, Find, Revoke, Expire, Login, Initialize, InitRead, InitMe,
       InitMeRefused, InitRefreshed, InitBreaks, LoginMe, LoginMeRefused, LoginBreaks,
       Logout, LogoutAnswered, LogoutBreaks, tab

\* The answer of the backend is the list of the owner of the pair in memory, or
\* the empty one.
LEMMA AnswerOfSession ==
    ASSUME Inv, PageInv, NEW q \in requests, q.isActive, page = "list"
    PROVE  \/ Caller(q.token) = Owner(held)
           \/ Caller(q.token) = Nobody /\ RoomsOf(Nobody) = {} /\ age[held] # "fresh"
<1>1. held # 0 /\ q.token = held
  BY DEF PageInv, ListOfSession
<1>2. Nobody \notin Users
  BY ArchiveAssumption
<1>3. RoomsOf(Nobody) = {}
  BY <1>2 DEF RoomsOf, PageInv
<1> QED
  BY <1>1, <1>3 DEF Caller

\* Effect, answers and navigation keep the page in step with the session.
LEMMA PageStep ==
    ASSUME Inv, PageInv, ArchiveNext, TypeOK'
    PROVE  PageInv'
<1>1. CASE Session
  <2>1. page' = page /\ members' = members /\ guestList' = guestList /\ SessionStep
    BY <1>1 DEF Session, archive
  <2>2. CASE page = "list" /\ Inputs' # Inputs
    <3>1. LoadConferences(Superseded(requests))
      BY <1>1, <2>2 DEF Session
    <3>2. Superseded(requests) \subseteq Request /\ \A q \in Superseded(requests) : ~q.isActive
      BY SupersededInactive DEF PageInv
    <3>3. init' # "done" => loading
      BY <2>1, <2>2, DoneOnce DEF PageInv, ListOfSession
    <3>4. ListOfSession' /\ requests' \subseteq Request
      BY <2>1, <3>1, <3>2, <3>3, EffectRuns
    <3> QED
      BY <2>1, <2>2, <3>4 DEF PageInv
  <2>3. CASE ~(page = "list" /\ Inputs' # Inputs)
    <3>1. UNCHANGED list
      BY <1>1, <2>3 DEF Session
    <3>2. CASE page = "other"
      BY <2>1, <3>1, <3>2 DEF PageInv, NotMounted, list
    <3>3. CASE page = "list"
      <4>1. user' = user /\ held' = held /\ (init' = "done") = (init = "done")
        BY <2>3, <3>3 DEF Inputs
      <4>2. ListOfSession'
        BY <2>1, <3>1, <3>3, <4>1, SessionStepIsNext, EffectRests DEF PageInv
      <4> QED
        BY <2>1, <3>1, <3>3, <4>2 DEF PageInv, list
    <3> QED
      BY <3>2, <3>3 DEF PageInv
  <2> QED
    BY <2>2, <2>3
<1>2. CASE OpenList
  <2>1. /\ page = "other" /\ page' = "list" /\ LoadConferences(requests)
        /\ members' = members /\ guestList' = guestList
    BY <1>2 DEF OpenList, archive
  <2>2. loading = TRUE /\ \A q \in requests : ~q.isActive
    BY <2>1 DEF PageInv, NotMounted
  <2>3. ListOfSession' /\ requests' \subseteq Request
    BY <2>1, <2>2, EffectRuns DEF PageInv
  <2> QED
    BY <2>1, <2>3 DEF PageInv
<1>3. CASE LeaveList
  <2>1. /\ requests' \subseteq Request /\ \A q \in requests' : ~q.isActive
    BY <1>3, SupersededInactive DEF LeaveList, PageInv
  <2> QED
    BY <1>3, <2>1 DEF LeaveList, Mounted, PageInv, NotMounted, NoItems, archive
<1>4. ASSUME NEW q \in requests, ListArrives(q) \/ ListFails(q) PROVE PageInv'
  <2>1. /\ UNCHANGED vars /\ page' = page /\ members' = members /\ guestList' = guestList
        /\ requests' = requests \ {q}
    BY <1>4 DEF ListArrives, ListFails, archive
  <2>2. user' = user /\ held' = held /\ init' = init /\ age' = age /\ pairs' = pairs
    BY <2>1 DEF vars, tab, backend
  <2>3. CASE ~q.isActive
    <3>1. items' = items /\ loading' = loading /\ failed' = failed
      BY <1>4, <2>3 DEF ListArrives, ListFails
    <3>2. \A x : RoomsOf(x)' = RoomsOf(x) /\ Owner(x)' = Owner(x)
      BY <2>1, <2>2 DEF RoomsOf, Owner
    <3>3. page = "list" => ListOfSession'
      BY <2>1, <2>2, <2>3, <3>1, <3>2 DEF PageInv, ListOfSession, RoomsOf, Owner
    <3> QED
      BY <2>1, <2>2, <3>1, <3>3 DEF PageInv, NotMounted
  <2>4. CASE q.isActive
    <3>1. page = "list" /\ init = "done" /\ user # None /\ held # 0 /\ loading' = FALSE
      BY <1>4, <2>4 DEF PageInv, NotMounted, ListOfSession, ListArrives, ListFails
    <3>2. ~failed' => items' = [of |-> Caller(q.token), rooms |-> RoomsOf(Caller(q.token))]
      BY <1>4, <2>4 DEF ListArrives, ListFails
    <3>3. \/ Caller(q.token) = Owner(held)
          \/ Caller(q.token) = Nobody /\ RoomsOf(Nobody) = {} /\ age[held] # "fresh"
      BY <2>4, <3>1, AnswerOfSession
    <3>4. RoomsOf(Owner(held))' = RoomsOf(Owner(held)) /\ Owner(held)' = Owner(held)
      BY <2>1, <2>2 DEF RoomsOf, Owner
    <3>5. ListOfSession'
      BY <2>1, <2>2, <3>1, <3>2, <3>3, <3>4 DEF PageInv, ListOfSession
    <3> QED
      BY <2>1, <3>1, <3>5 DEF PageInv
  <2> QED
    BY <2>3, <2>4
<1>5. ASSUME NEW r \in Rooms, Visit(r) PROVE PageInv'
  <2>1. page = "other" /\ page' = page /\ UNCHANGED list
    BY <1>5 DEF Visit
  <2>2. members' \subseteq Users \X Rooms
    <3>1. Caller(held) # Nobody => Caller(held) \in Users
      BY Types DEF Caller, Inv
    <3> QED
      BY <1>5, <3>1 DEF Visit, PageInv
  <2> QED
    BY <2>1, <2>2 DEF PageInv, NotMounted, list
<1> QED
  BY <1>1, <1>2, <1>3, <1>4, <1>5 DEF ArchiveNext

\* A guest's list is written by rememberGuestConference only.
LEMMA GuestListStep ==
    ASSUME Inv, MembersListed, GuestListed, ArchiveNext
    PROVE  GuestListed'
<1>1. CASE UNCHANGED archive
  BY <1>1 DEF archive, GuestListed
<1>2. ASSUME NEW r \in Rooms, Visit(r), user = None PROVE GuestListed'
  <2> DEFINE V == visits[Guest]
             W == visits'[Guest]
             old == ToSet(guestList)
             new == ToSet(guestList')
  <2>1. guestList' = Remember(r) /\ latest' = r /\ W = V \cup {r}
    BY <1>2 DEF Visit, Visitor, MembersListed
  <2>2. /\ guestList' \in Seq(Rooms) /\ IsInjective(guestList') /\ r \in new
        /\ new \subseteq old \cup {r}
        /\ Cardinality(old \cup {r}) <= MAX_GUEST_HISTORY_ITEMS => new = old \cup {r}
    BY <2>1, RememberKeeps DEF GuestListed
  <2>3. /\ IsFiniteSet(V) /\ old \subseteq V
        /\ Cardinality(V) <= MAX_GUEST_HISTORY_ITEMS => V \subseteq old
    BY DEF GuestListed
  <2>4. /\ IsFiniteSet(W) /\ Cardinality(V) \in Nat /\ Cardinality(W) \in Nat
        /\ Cardinality(V) <= Cardinality(W) /\ MAX_GUEST_HISTORY_ITEMS \in Nat
    <3>1. IsFiniteSet(W) /\ V \in SUBSET W
      BY <2>1, <2>3, FS_AddElement
    <3> QED
      BY <2>3, <3>1, FS_Subset, FS_CardinalityType, ArchiveAssumption
  <2> HIDE DEF V, W, old, new
  <2>5. ASSUME Cardinality(W) <= MAX_GUEST_HISTORY_ITEMS PROVE W \subseteq new
    <3>1. Cardinality(V) <= MAX_GUEST_HISTORY_ITEMS
      BY <2>4, <2>5
    <3>2. V = old /\ W = old \cup {r}
      BY <2>1, <2>3, <3>1
    <3> QED
      BY <2>2, <2>5, <3>2
  <2>6. new \subseteq W
    BY <2>1, <2>2, <2>3
  <2> QED
    BY <2>1, <2>2, <2>4, <2>5, <2>6 DEF GuestListed, V, W, old, new
<1>3. ASSUME NEW r \in Rooms, Visit(r), user # None PROVE GuestListed'
  <2>1. Visitor # Guest
    BY <1>3, Types, ArchiveAssumption DEF Visitor, Inv
  <2>2. guestList' = guestList /\ latest' = latest /\ visits'[Guest] = visits[Guest]
    BY <1>3, <2>1 DEF Visit, MembersListed
  <2> QED
    BY <2>2 DEF GuestListed
<1> QED
  BY <1>1, <1>2, <1>3 DEF ArchiveNext, Session, OpenList, LeaveList, ListArrives, ListFails

\* A room a user got a token for is recorded, or the token was not the user's.
LEMMA MembersStep ==
    ASSUME Inv, MembersListed, ArchiveNext
    PROVE  MembersListed'
<1>1. CASE UNCHANGED archive
  BY <1>1 DEF archive, MembersListed
<1>2. ASSUME NEW r \in Rooms, Visit(r) PROVE MembersListed'
  <2>1. Visitor \in Users \cup {Guest} /\ visits \in [Users \cup {Guest} -> SUBSET Rooms]
    BY Types DEF Visitor, Inv, MembersListed
  <2>2. visits' = IF user = None \/ AtRest
                  THEN [visits EXCEPT ![Visitor] = @ \cup {r}] ELSE visits
    BY <1>2 DEF Visit
  <2>3. visits' \in [Users \cup {Guest} -> SUBSET Rooms]
    BY <2>1, <2>2
  <2>4. members \subseteq members' /\ lapsed \subseteq lapsed'
    BY <1>2 DEF Visit
  <2>5. ASSUME NEW u \in Users, NEW x \in visits'[u] PROVE <<u, x>> \in members' \cup lapsed'
    <3>1. CASE x \in visits[u]
      BY <2>4, <3>1 DEF MembersListed
    <3>2. CASE x \notin visits[u]
      <4>1. x = r /\ u = Visitor /\ (user = None \/ AtRest)
        BY <2>1, <2>2, <3>2
      <4>2. u = user /\ user # None /\ AtRest
        BY <4>1, ArchiveAssumption DEF Visitor
      <4>3. Owner(held) = u
        BY <4>2 DEF Inv, SessionConsistent, AtRest
      <4>4. Caller(held) \in {u, Nobody}
        BY <4>3 DEF Caller
      <4> QED
        BY <1>2, <4>1, <4>2, <4>4 DEF Visit
    <3> QED
      BY <3>1, <3>2
  <2> QED
    BY <2>3, <2>5 DEF MembersListed
<1> QED
  BY <1>1, <1>2 DEF ArchiveNext, Session, OpenList, LeaveList, ListArrives, ListFails

\* The invariant of tab and archive holds at first, is kept, and always holds.
LEMMA ArchiveInvInit == ArchiveInit => ArchiveInv
<1> SUFFICES ASSUME ArchiveInit PROVE ArchiveInv
  OBVIOUS
<1>1. Inv
  BY ArchiveInitInv
<1>2. /\ page = "list" /\ requests = {} /\ members = {} /\ loading = TRUE /\ init # "done"
      /\ guestList = << >> /\ latest = None
      /\ visits = [v \in Users \cup {Guest} |-> {}]
  BY DEF ArchiveInit, Init
<1>3. PageInv
  BY <1>2 DEF PageInv, ListOfSession
<1>4. GuestListed
  <2>1. ToSet(<< >>) = {} /\ IsInjective(<< >>)
    BY DEF ToSet, IsInjective
  <2>2. visits[Guest] = {}
    BY <1>2
  <2> QED
    BY <1>2, <2>1, <2>2, FS_EmptySet DEF GuestListed
<1>5. MembersListed
  BY <1>2 DEF MembersListed
<1> QED
  BY <1>1, <1>3, <1>4, <1>5 DEF ArchiveInv

LEMMA ArchiveInvStep == ArchiveInv /\ [ArchiveNext]_allVars => ArchiveInv'
<1>1. CASE ArchiveNext
  <2> SUFFICES ASSUME ArchiveInv, ArchiveNext PROVE ArchiveInv'
    BY <1>1
  <2>1. Inv'
    BY ArchiveStepIsSessions, InvStep DEF ArchiveInv
  <2>2. TypeOK'
    BY <2>1 DEF Inv
  <2> QED
    BY <2>1, <2>2, PageStep, GuestListStep, MembersStep DEF ArchiveInv
<1>2. CASE UNCHANGED allVars
  <2> SUFFICES ASSUME ArchiveInv, UNCHANGED allVars PROVE ArchiveInv'
    BY <1>2
  <2>1. Inv'
    BY InvStep DEF ArchiveInv, allVars
  <2>2. PageInv'
    BY DEF ArchiveInv, PageInv, ListOfSession, NotMounted, RoomsOf, Owner, allVars, vars,
           backend, tab, list, archive
  <2>3. GuestListed' /\ MembersListed'
    BY DEF ArchiveInv, GuestListed, MembersListed, allVars, archive
  <2> QED
    BY <2>1, <2>2, <2>3 DEF ArchiveInv
<1> QED
  BY <1>1, <1>2

LEMMA ArchiveInvariance == ArchiveSpec => []ArchiveInv
BY ArchiveInvInit, ArchiveInvStep, PTL DEF ArchiveSpec

\* A list that is loaded is that of whoever is signed in, or the guest's,
\* however logins, logouts and late or failing answers are mixed.
THEOREM ListIsTheVisitors == ArchiveSpec => []ShownToItsVisitor
<1>1. ArchiveInv => ShownToItsVisitor
  <2> SUFFICES ASSUME ArchiveInv, Loaded, AtRest
               PROVE  \/ items.of = Visitor
                      \/ items = [of |-> Nobody, rooms |-> {}] /\ age[held] # "fresh"
    BY DEF ShownToItsVisitor
  <2>1. ListOfSession /\ ~loading /\ ~failed
    BY DEF ArchiveInv, PageInv, Loaded
  <2>2. user # None => held # 0 /\ Owner(held) = user
    BY DEF ArchiveInv, Inv, SessionConsistent, AtRest
  <2> QED
    BY <2>1, <2>2 DEF ListOfSession, Visitor
<1> QED
  BY <1>1, ArchiveInvariance, PTL

\* It holds every room the visitor was given a token for, but those a user
\* visited with an expired access token and what does not fit a guest's list.
THEOREM VisitedIsListed == ArchiveSpec => []VisitsAreListed
<1>1. ArchiveInv => VisitsAreListed
  <2> SUFFICES ASSUME ArchiveInv, Loaded, AtRest, items.of # Nobody PROVE VisitsAreListed
    BY DEF VisitsAreListed
  <2>1. ListOfSession /\ ~loading /\ ~failed
    BY DEF ArchiveInv, PageInv, Loaded
  <2>2. CASE user = None
    <3>1. items.rooms = ToSet(guestList)
      BY <2>1, <2>2 DEF ListOfSession
    <3> QED
      BY <2>2, <3>1 DEF VisitsAreListed, ArchiveInv, GuestListed
  <2>3. CASE user # None
    <3>1. held # 0 /\ Owner(held) = user /\ user \in Users
      BY <2>3, Types DEF ArchiveInv, Inv, SessionConsistent, AtRest
    <3>2. items.rooms = RoomsOf(user)
      BY <2>1, <2>3, <3>1 DEF ListOfSession
    <3>3. \A r \in visits[user] : <<user, r>> \in members \cup lapsed /\ r \in Rooms
      BY <3>1 DEF ArchiveInv, MembersListed
    <3> QED
      BY <2>3, <3>2, <3>3 DEF VisitsAreListed, RoomsOf
  <2> QED
    BY <2>2, <2>3
<1> QED
  BY <1>1, ArchiveInvariance, PTL

\* A page that says it is loading has asked and will hear the answer.
THEOREM LoadingHasAsked == ArchiveSpec => []LoadingMeansAsked
<1>1. ArchiveInv => LoadingMeansAsked
  BY DEF ArchiveInv, PageInv, ListOfSession, LoadingMeansAsked
<1> QED
  BY <1>1, ArchiveInvariance, PTL

\* In the tab of the archive page, the session keeps what AuthSession promises.
THEOREM ArchiveTabShowsItsPair == ArchiveSpec => []SessionConsistent
BY ArchiveInvariance, PTL DEF ArchiveInv, Inv

\* The pages of the archive do not make the tab give up a good pair either, a
\* pair of an earlier login and of any age included.
THEOREM ArchiveKeepsFreshPair == ArchiveSpec => KeepsFreshSession
<1>1. ArchiveInv => Inv
  BY DEF ArchiveInv
<1> QED
  BY <1>1, KeepsFreshStep, ArchiveStepIsSessions, ArchiveInvariance, PTL
     DEF ArchiveSpec, KeepsFreshSession, GivesUpForAReason

=============================================================================
