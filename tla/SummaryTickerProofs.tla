------------------------- MODULE SummaryTickerProofs --------------------------
(***************************************************************************)
(* What SummaryTicker keeps for all rooms, participants, intervals and     *)
(* requests in progress, and that the panel of SummaryPanel only takes     *)
(* steps of SummaryTicker, so that it is kept with the panel as well.      *)
(***************************************************************************)
EXTENDS SummaryPanel, TLAPS

\* A ticker starts with a look at the requests sent so far.
CountsForward == \A r \in Rooms : before[r] <= emitted[r]

\* A request on its way to be sent has met somebody, as has one whose room has
\* people now.
EmitAfterMeeting ==
    \A s \in DOMAIN flight :
        flight[s].at = "emit" \/ Humans(flight[s].room) # {} => met[s]

Inv ==
    /\ TypeOK
    /\ NoLeakedTimer
    /\ CountsForward
    /\ LastRequestIsLatest

-----------------------------------------------------------------------------
(* Maps *)

\* Map.set changes one entry.
LEMMA PutFacts ==
    ASSUME NEW D, NEW R, NEW f, DOMAIN f \subseteq D, f \in [DOMAIN f -> R],
           NEW k \in D, NEW v \in R
    PROVE  /\ DOMAIN Put(f, k, v) = DOMAIN f \cup {k}
           /\ Put(f, k, v) \in [DOMAIN f \cup {k} -> R]
           /\ Put(f, k, v)[k] = v
           /\ \A x \in DOMAIN f \ {k} : Put(f, k, v)[x] = f[x]
  BY DEF Put

\* Map.delete removes one entry.
LEMMA DropFacts ==
    ASSUME NEW R, NEW f, f \in [DOMAIN f -> R], NEW k
    PROVE  /\ DOMAIN Drop(f, k) = DOMAIN f \ {k}
           /\ Drop(f, k) \in [DOMAIN f \ {k} -> R]
           /\ \A x \in DOMAIN f \ {k} : Drop(f, k)[x] = f[x]
  BY DEF Drop, Restrict

\* An interval a ticker runs at is within the limits, whatever was sent.
LEMMA NormalizeInLimits ==
    ASSUME NEW raw \in Intervals PROVE Normalize(raw) \in IntervalsInUse
<1> USE DEF MIN_SUMMARY_TICKER_INTERVAL_SECONDS, MAX_SUMMARY_TICKER_INTERVAL_SECONDS,
            fallbackIntervalSeconds, IntervalsInUse
<1>1. CASE raw \in {NotANumber, Absent}
  <2>1. Normalize(raw) = 60
    BY <1>1, TickerAssumption DEF Normalize
  <2> QED
    BY <2>1
<1>2. CASE raw \notin {NotANumber, Absent}
  <2>1. raw \in Int
    BY <1>2, TickerAssumption
  <2>2. CASE raw < 15
    BY <1>2, <2>1, <2>2 DEF Normalize
  <2>3. CASE raw > 3600
    BY <1>2, <2>1, <2>3 DEF Normalize
  <2>4. CASE ~(raw < 15) /\ ~(raw > 3600)
    BY <1>2, <2>1, <2>4 DEF Normalize
  <2> QED
    BY <2>2, <2>3, <2>4
<1> QED
  BY <1>1, <1>2

\* A request that starts, moves on or returns leaves the others alone.
LEMMA RequestFacts ==
    ASSUME TypeOK, NEW s \in Slots, NEW r \in Rooms, Request(s, r)
    PROVE  /\ DOMAIN flight' \subseteq Slots /\ flight' \in [DOMAIN flight' -> Call]
           /\ met' \in [Slots -> BOOLEAN]
           /\ DOMAIN flight' = DOMAIN flight \cup {s}
           /\ flight'[s].at = "ensure"
           /\ \A x \in DOMAIN flight : flight'[x] = flight[x] /\ met'[x] = met[x]
<1>1. [at |-> "ensure", room |-> r] \in Call
  BY DEF Call
<1>2. /\ DOMAIN flight \subseteq Slots /\ flight \in [DOMAIN flight -> Call]
      /\ met \in [Slots -> BOOLEAN] /\ s \notin DOMAIN flight
  BY DEF TypeOK, Request
<1>3. /\ DOMAIN flight' = DOMAIN flight \cup {s}
      /\ flight' \in [DOMAIN flight \cup {s} -> Call]
      /\ flight'[s] = [at |-> "ensure", room |-> r]
      /\ \A x \in DOMAIN flight \ {s} : flight'[x] = flight[x]
  <2>1. flight' = Put(flight, s, [at |-> "ensure", room |-> r])
    BY DEF Request
  <2> DEFINE v == [at |-> "ensure", room |-> r]
  <2> HIDE DEF v
  <2>2. /\ DOMAIN Put(flight, s, v) = DOMAIN flight \cup {s}
        /\ Put(flight, s, v) \in [DOMAIN flight \cup {s} -> Call]
        /\ Put(flight, s, v)[s] = v
        /\ \A x \in DOMAIN flight \ {s} : Put(flight, s, v)[x] = flight[x]
    <3>1. v \in Call
      BY <1>1 DEF v
    <3> QED
      BY <1>2, <3>1 DEF Put
  <2> QED
    BY <2>1, <2>2 DEF v
<1>4. /\ met' \in [Slots -> BOOLEAN]
      /\ \A x \in Slots \ {s} : met'[x] = met[x]
  BY <1>2 DEF Request
<1> QED
  BY <1>2, <1>3, <1>4

LEMMA MovesToFacts ==
    ASSUME TypeOK, NEW s \in DOMAIN flight, NEW place \in {"ensure", "count", "emit"},
           MovesTo(s, place)
    PROVE  /\ DOMAIN flight' \subseteq Slots /\ flight' \in [DOMAIN flight' -> Call]
           /\ met' = met
           /\ DOMAIN flight' = DOMAIN flight
           /\ flight'[s].at = place
           /\ \A x \in DOMAIN flight \ {s} : flight'[x] = flight[x]
<1>1. [flight[s] EXCEPT !.at = place] \in Call
  BY DEF TypeOK, Call
<1> QED
  BY <1>1 DEF MovesTo, TypeOK, Call

LEMMA ReturnsFacts ==
    ASSUME TypeOK, NEW s \in DOMAIN flight, Returns(s)
    PROVE  /\ DOMAIN flight' \subseteq Slots /\ flight' \in [DOMAIN flight' -> Call]
           /\ met' \in [Slots -> BOOLEAN]
           /\ DOMAIN flight' = DOMAIN flight \ {s}
           /\ \A x \in DOMAIN flight \ {s} : flight'[x] = flight[x] /\ met'[x] = met[x]
<1>1. /\ DOMAIN flight \subseteq Slots /\ flight \in [DOMAIN flight -> Call]
      /\ met \in [Slots -> BOOLEAN]
  BY DEF TypeOK
<1>2. /\ DOMAIN flight' = DOMAIN flight \ {s}
      /\ flight' \in [DOMAIN flight \ {s} -> Call]
      /\ \A x \in DOMAIN flight \ {s} : flight'[x] = flight[x]
  BY <1>1, DropFacts DEF Returns
<1>3. /\ met' \in [Slots -> BOOLEAN]
      /\ \A x \in Slots \ {s} : met'[x] = met[x]
  BY <1>1 DEF Returns
<1> QED
  BY <1>1, <1>2, <1>3

\* A ticker that starts has a new timer and entry; the others stay.
LEMMA StartFacts ==
    ASSUME TypeOK, NEW s \in Slots, NEW r \in Rooms, NEW raw \in Intervals,
           Start(s, r, raw)
    PROVE  /\ DOMAIN tickers' = DOMAIN tickers \cup {r}
           /\ tickers' \in [DOMAIN tickers' -> Entry]
           /\ tickers'[r] = [timer |-> starts + 1, interval |-> Normalize(raw), last |-> 0]
           /\ \A x \in DOMAIN tickers \ {r} : tickers'[x] = tickers[x]
<1> DEFINE v == [timer |-> starts + 1, interval |-> Normalize(raw), last |-> 0]
<1>1. v \in Entry
  BY NormalizeInLimits DEF Entry, TypeOK
<1>2. tickers' = Put(tickers, r, v) /\ tickers \in [DOMAIN tickers -> Entry]
  BY DEF Start, TypeOK
<1> HIDE DEF v
<1>3. /\ DOMAIN Put(tickers, r, v) = DOMAIN tickers \cup {r}
      /\ Put(tickers, r, v) \in [DOMAIN tickers \cup {r} -> Entry]
      /\ Put(tickers, r, v)[r] = v
      /\ \A x \in DOMAIN tickers \ {r} : Put(tickers, r, v)[x] = tickers[x]
  BY <1>1, <1>2 DEF Put
<1> QED
  BY <1>2, <1>3 DEF v

\* One that is stopped has neither any more.
LEMMA StopFacts ==
    ASSUME TypeOK, NEW r \in Rooms, Stop(r)
    PROVE  /\ DOMAIN tickers' = DOMAIN tickers \ {r}
           /\ tickers' \in [DOMAIN tickers' -> Entry]
           /\ \A x \in DOMAIN tickers \ {r} : tickers'[x] = tickers[x]
<1>1. tickers' = Drop(tickers, r) /\ tickers \in [DOMAIN tickers -> Entry]
  BY DEF Stop, TypeOK
<1> QED
  BY <1>1, DropFacts

\* A request that is sent is noted in the ticker of its room, if there is one.
LEMMA EmitFacts ==
    ASSUME TypeOK, NEW s \in Slots, Emit(s)
    PROVE  /\ flight[s].room \in Rooms
           /\ emitted' = [emitted EXCEPT ![flight[s].room] = @ + 1]
           /\ DOMAIN tickers' = DOMAIN tickers
           /\ tickers' \in [DOMAIN tickers -> Entry]
           /\ \A x \in DOMAIN tickers :
                 /\ tickers'[x].timer = tickers[x].timer
                 /\ x = flight[s].room => tickers'[x].last = emitted[x] + 1
                 /\ x # flight[s].room => tickers'[x] = tickers[x]
<1> DEFINE r == flight[s].room
<1>1. r \in Rooms /\ emitted[r] \in Nat
  BY DEF Emit, TypeOK, Call
<1>2. tickers \in [DOMAIN tickers -> Entry]
  BY DEF TypeOK
<1>3. CASE r \in DOMAIN tickers
  <2>1. tickers' = [tickers EXCEPT ![r].last = emitted[r] + 1]
    BY <1>3 DEF Emit
  <2>2. [tickers[r] EXCEPT !.last = emitted[r] + 1] \in Entry
    BY <1>1, <1>2, <1>3 DEF Entry
  <2> QED
    BY <1>1, <1>2, <1>3, <2>1, <2>2 DEF Emit, Entry
<1>4. CASE r \notin DOMAIN tickers
  BY <1>1, <1>2, <1>4 DEF Emit
<1> QED
  BY <1>3, <1>4

-----------------------------------------------------------------------------
(* Every step keeps the invariant. *)

LEMMA InvInit == Init => Inv
<1> SUFFICES ASSUME Init PROVE Inv
  OBVIOUS
<1> USE DEF Init
<1>1. TypeOK
  BY DEF TypeOK
<1>2. NoLeakedTimer
  BY DEF NoLeakedTimer
<1>3. CountsForward /\ LastRequestIsLatest
  BY DEF CountsForward, LastRequestIsLatest
<1> QED
  BY <1>1, <1>2, <1>3 DEF Inv

\* Types.
LEMMA TypesStep == TypeOK /\ [Next]_vars => TypeOK'
<1> SUFFICES ASSUME TypeOK, [Next]_vars PROVE TypeOK'
  OBVIOUS
<1>1. ASSUME NEW s \in Slots, NEW r \in Rooms, RequestNow(s, r) PROVE TypeOK'
  BY <1>1, RequestFacts DEF RequestNow, TypeOK
<1>2. ASSUME NEW s \in Slots, NEW r \in Rooms, NEW raw \in Intervals, Start(s, r, raw)
      PROVE TypeOK'
  <2>1. Request(s, r)
    BY <1>2 DEF Start
  <2>2. /\ DOMAIN flight' \subseteq Slots /\ flight' \in [DOMAIN flight' -> Call]
        /\ met' \in [Slots -> BOOLEAN]
    BY <2>1, RequestFacts
  <2>3. DOMAIN tickers' \subseteq Rooms /\ tickers' \in [DOMAIN tickers' -> Entry]
    BY <1>2, StartFacts DEF TypeOK
  <2>4. timers' \subseteq Timer
    BY <1>2 DEF Start, TypeOK, Timer
  <2>5. before' \in [Rooms -> Nat] /\ starts' \in Nat
    BY <1>2 DEF Start, TypeOK
  <2> QED
    BY <1>2, <2>2, <2>3, <2>4, <2>5 DEF Start, TypeOK
<1>3. ASSUME NEW r \in Rooms, Stop(r) PROVE TypeOK'
  BY <1>3, StopFacts DEF Stop, TypeOK
<1>4. ASSUME NEW s \in Slots, NEW t \in timers, Fire(s, t) PROVE TypeOK'
  <2>1. t.room \in Rooms /\ Request(s, t.room)
    BY <1>4 DEF Fire, TypeOK, Timer
  <2>2. /\ DOMAIN flight' \subseteq Slots /\ flight' \in [DOMAIN flight' -> Call]
        /\ met' \in [Slots -> BOOLEAN]
    BY <2>1, RequestFacts
  <2> QED
    BY <1>4, <2>2 DEF Fire, TypeOK
<1>5. ASSUME NEW s \in Slots, Ensured(s) PROVE TypeOK'
  BY <1>5, MovesToFacts DEF Ensured, TypeOK
<1>6. ASSUME NEW s \in Slots, CountHumans(s) PROVE TypeOK'
  <2>1. CASE Returns(s)
    BY <1>6, <2>1, ReturnsFacts DEF CountHumans, TypeOK
  <2>2. CASE MovesTo(s, "emit")
    BY <1>6, <2>2, MovesToFacts DEF CountHumans, TypeOK
  <2> QED
    BY <1>6, <2>1, <2>2 DEF CountHumans
<1>7. ASSUME NEW s \in Slots, Emit(s) PROVE TypeOK'
  <2>1. /\ DOMAIN flight' \subseteq Slots /\ flight' \in [DOMAIN flight' -> Call]
        /\ met' \in [Slots -> BOOLEAN]
    BY <1>7, ReturnsFacts DEF Emit
  <2>2. DOMAIN tickers' \subseteq Rooms /\ tickers' \in [DOMAIN tickers' -> Entry]
    BY <1>7, EmitFacts DEF TypeOK
  <2>3. emitted' \in [Rooms -> Nat]
    BY <1>7, EmitFacts DEF TypeOK
  <2> QED
    BY <1>7, <2>1, <2>2, <2>3 DEF Emit, TypeOK
<1>8. ASSUME NEW s \in Slots, CallFails(s) PROVE TypeOK'
  <2>1. s \in DOMAIN flight /\ Returns(s)
    BY <1>8 DEF CallFails
  <2>2. /\ DOMAIN flight' \subseteq Slots /\ flight' \in [DOMAIN flight' -> Call]
        /\ met' \in [Slots -> BOOLEAN]
    BY <2>1, ReturnsFacts
  <2> QED
    BY <1>8, <2>2 DEF CallFails, TypeOK
<1>9. CASE Restart
  BY <1>9 DEF Restart, TypeOK
<1>10. ASSUME NEW x \in Agents \cup People, NEW r \in Rooms, Join(x, r) PROVE TypeOK'
  BY <1>10 DEF Join, TypeOK
<1>11. ASSUME NEW x \in Agents \cup People, NEW r \in Rooms, Leave(x, r) PROVE TypeOK'
  BY <1>11 DEF Leave, TypeOK
<1>12. CASE UNCHANGED vars
  BY <1>12 DEF vars, TypeOK
<1> QED
  BY <1>1, <1>2, <1>3, <1>4, <1>5, <1>6, <1>7, <1>8, <1>9, <1>10, <1>11, <1>12 DEF Next

\* Timers and entries: only a start, a stop and a restart touch them, and each
\* touches both.
LEMMA TimersStep == TypeOK /\ NoLeakedTimer /\ [Next]_vars => NoLeakedTimer'
<1> SUFFICES ASSUME TypeOK, NoLeakedTimer, [Next]_vars PROVE NoLeakedTimer'
  OBVIOUS
<1>1. ASSUME NEW s \in Slots, NEW r \in Rooms, NEW raw \in Intervals, Start(s, r, raw)
      PROVE NoLeakedTimer'
  <2>1. timers' = (timers \ TickerTimers(r)) \cup {[id |-> starts + 1, room |-> r]}
    BY <1>1 DEF Start
  <2>2. timers \ TickerTimers(r)
          = {[id |-> tickers[x].timer, room |-> x] : x \in DOMAIN tickers \ {r}}
    BY DEF NoLeakedTimer, TickerTimers
  <2>3. /\ DOMAIN tickers' = DOMAIN tickers \cup {r}
        /\ tickers'[r] = [timer |-> starts + 1, interval |-> Normalize(raw), last |-> 0]
        /\ \A x \in DOMAIN tickers \ {r} : tickers'[x] = tickers[x]
    BY <1>1, StartFacts
  <2>4. tickers'[r].timer = starts + 1
    BY <2>3
  <2> QED
    BY <2>1, <2>2, <2>3, <2>4 DEF NoLeakedTimer
<1>2. ASSUME NEW r \in Rooms, Stop(r) PROVE NoLeakedTimer'
  <2>1. timers' = timers \ TickerTimers(r)
    BY <1>2 DEF Stop
  <2>2. timers \ TickerTimers(r)
          = {[id |-> tickers[x].timer, room |-> x] : x \in DOMAIN tickers \ {r}}
    BY DEF NoLeakedTimer, TickerTimers
  <2>3. /\ DOMAIN tickers' = DOMAIN tickers \ {r}
        /\ \A x \in DOMAIN tickers \ {r} : tickers'[x] = tickers[x]
    BY <1>2, StopFacts
  <2> QED
    BY <2>1, <2>2, <2>3 DEF NoLeakedTimer
<1>3. ASSUME NEW s \in Slots, Emit(s) PROVE NoLeakedTimer'
  <2>1. /\ timers' = timers /\ DOMAIN tickers' = DOMAIN tickers
        /\ \A x \in DOMAIN tickers : tickers'[x].timer = tickers[x].timer
    BY <1>3, EmitFacts DEF Emit
  <2> QED
    BY <2>1 DEF NoLeakedTimer
<1>4. CASE Restart
  BY <1>4 DEF Restart, NoLeakedTimer
<1>5. CASE UNCHANGED <<timers, tickers>>
  BY <1>5 DEF NoLeakedTimer
<1> QED
  BY <1>1, <1>2, <1>3, <1>4, <1>5 DEF Next, RequestNow, Fire, Ensured, CountHumans,
     CallFails, Join, Leave, vars

\* The time noted in a ticker.
LEMMA LastStep ==
    Inv /\ TypeOK' /\ [Next]_vars => CountsForward' /\ LastRequestIsLatest'
<1> SUFFICES ASSUME Inv, TypeOK', [Next]_vars PROVE CountsForward' /\ LastRequestIsLatest'
  OBVIOUS
<1>0. /\ TypeOK /\ CountsForward /\ LastRequestIsLatest
      /\ before \in [Rooms -> Nat] /\ emitted \in [Rooms -> Nat]
      /\ DOMAIN tickers \subseteq Rooms
  BY DEF Inv, TypeOK
<1>1. ASSUME NEW s \in Slots, NEW r \in Rooms, NEW raw \in Intervals, Start(s, r, raw)
      PROVE CountsForward' /\ LastRequestIsLatest'
  <2>1. /\ before' = [before EXCEPT ![r] = emitted[r]] /\ emitted' = emitted
    BY <1>1 DEF Start
  <2>2. CountsForward'
    BY <1>0, <2>1 DEF CountsForward
  <2>3. ASSUME NEW x \in DOMAIN tickers'
        PROVE  tickers'[x].last = IF emitted'[x] > before'[x] THEN emitted'[x] ELSE 0
    <3>1. CASE x = r
      <4>1. tickers'[r] = [timer |-> starts + 1, interval |-> Normalize(raw), last |-> 0]
        BY <1>0, <1>1, StartFacts
      <4>2. tickers'[r].last = 0
        BY <4>1
      <4> QED
        BY <1>0, <2>1, <3>1, <4>2
    <3>2. CASE x # r
      <4>1. x \in DOMAIN tickers /\ tickers'[x] = tickers[x]
        BY <1>0, <1>1, <2>3, <3>2, StartFacts
      <4> QED
        BY <1>0, <2>1, <3>2, <4>1 DEF LastRequestIsLatest
    <3> QED
      BY <3>1, <3>2
  <2> QED
    BY <2>2, <2>3 DEF LastRequestIsLatest
<1>2. ASSUME NEW r \in Rooms, Stop(r) PROVE CountsForward' /\ LastRequestIsLatest'
  BY <1>0, <1>2, StopFacts DEF Stop, CountsForward, LastRequestIsLatest
<1>3. ASSUME NEW s \in Slots, Emit(s) PROVE CountsForward' /\ LastRequestIsLatest'
  <2> DEFINE r == flight[s].room
  <2>1. /\ r \in Rooms /\ before' = before
        /\ emitted' = [emitted EXCEPT ![r] = @ + 1]
    BY <1>0, <1>3, EmitFacts DEF Emit
  <2>2. /\ DOMAIN tickers' = DOMAIN tickers
        /\ \A x \in DOMAIN tickers :
              /\ x = r => tickers'[x].last = emitted[x] + 1
              /\ x # r => tickers'[x] = tickers[x]
    BY <1>0, <1>3, EmitFacts
  <2> HIDE DEF r
  <2>3. CountsForward'
    BY <1>0, <2>1 DEF CountsForward
  <2>4. ASSUME NEW x \in DOMAIN tickers
        PROVE  tickers'[x].last = IF emitted'[x] > before'[x] THEN emitted'[x] ELSE 0
    <3>1. CASE x = r
      BY <1>0, <2>1, <2>2, <3>1 DEF CountsForward
    <3>2. CASE x # r
      BY <1>0, <2>1, <2>2, <3>2 DEF LastRequestIsLatest
    <3> QED
      BY <3>1, <3>2
  <2> QED
    BY <2>2, <2>3, <2>4 DEF LastRequestIsLatest
<1>4. CASE Restart
  BY <1>0, <1>4 DEF Restart, CountsForward, LastRequestIsLatest
<1>5. CASE UNCHANGED <<tickers, emitted, before>>
  BY <1>0, <1>5 DEF CountsForward, LastRequestIsLatest
<1> QED
  BY <1>1, <1>2, <1>3, <1>4, <1>5 DEF Next, RequestNow, Fire, Ensured, CountHumans,
     CallFails, Join, Leave, vars

LEMMA Invariant == Spec => []Inv
<1>1. Inv /\ [Next]_vars => Inv'
  <2> SUFFICES ASSUME Inv, [Next]_vars PROVE Inv'
    OBVIOUS
  <2>1. TypeOK' /\ NoLeakedTimer'
    BY TypesStep, TimersStep DEF Inv
  <2> QED
    BY <2>1, LastStep DEF Inv
<1> QED
  BY InvInit, <1>1, PTL DEF Spec

-----------------------------------------------------------------------------
(* Nobody but agents *)

LEMMA MeetingStep == TypeOK /\ EmitAfterMeeting /\ [Next]_vars => EmitAfterMeeting'
<1> SUFFICES ASSUME TypeOK, EmitAfterMeeting, [Next]_vars PROVE EmitAfterMeeting'
  OBVIOUS
<1>0. /\ DOMAIN flight \subseteq Slots /\ flight \in [DOMAIN flight -> Call]
      /\ \A s \in DOMAIN flight : flight[s].room \in Rooms
      /\ met \in [Slots -> BOOLEAN]
      /\ present \in [Rooms -> SUBSET (Agents \cup People)]
  BY DEF TypeOK, Call
<1>1. ASSUME NEW s \in Slots, NEW r \in Rooms, Request(s, r), UNCHANGED present
      PROVE EmitAfterMeeting'
  <2>1. flight' = Put(flight, s, [at |-> "ensure", room |-> r]) /\ s \notin DOMAIN flight
    BY <1>1 DEF Request
  <2>2. /\ DOMAIN flight' = DOMAIN flight \cup {s}
        /\ flight'[s].at = "ensure" /\ flight'[s].room = r
    BY <2>1 DEF Put
  <2>3. \A x \in DOMAIN flight : flight'[x] = flight[x] /\ met'[x] = met[x]
    BY <1>1, RequestFacts
  <2>4. met'[s] = (Humans(r) # {})
    BY <1>0, <1>1 DEF Request
  <2> QED
    BY <1>1, <2>2, <2>3, <2>4 DEF EmitAfterMeeting, Humans
<1>2. ASSUME NEW s \in Slots, Ensured(s) PROVE EmitAfterMeeting'
  <2>1. /\ s \in DOMAIN flight /\ present' = present /\ met' = met
        /\ flight' = [flight EXCEPT ![s].at = "count"]
    BY <1>2 DEF Ensured, MovesTo
  <2>2. \A x \in DOMAIN flight : /\ flight'[x].room = flight[x].room
                                 /\ flight'[x].at = "emit" => flight[x].at = "emit"
    BY <1>0, <2>1 DEF Call
  <2> QED
    BY <1>0, <2>1, <2>2 DEF EmitAfterMeeting, Humans
<1>3. ASSUME NEW s \in Slots, CountHumans(s) PROVE EmitAfterMeeting'
  <2>1. CASE Returns(s)
    <3>1. s \in DOMAIN flight /\ present' = present
      BY <1>3 DEF CountHumans
    <3> QED
      BY <2>1, <3>1, ReturnsFacts DEF EmitAfterMeeting, Humans
  <2>2. CASE Humans(flight[s].room) # {} /\ MovesTo(s, "emit")
    <3>1. /\ s \in DOMAIN flight /\ present' = present /\ met' = met /\ met[s]
          /\ flight' = [flight EXCEPT ![s].at = "emit"]
      BY <1>3, <2>2 DEF CountHumans, MovesTo, EmitAfterMeeting
    <3>2. \A x \in DOMAIN flight : /\ flight'[x].room = flight[x].room
                                   /\ x # s => flight'[x].at = flight[x].at
      BY <1>0, <3>1 DEF Call
    <3> QED
      BY <1>0, <3>1, <3>2 DEF EmitAfterMeeting, Humans
  <2> QED
    BY <1>3, <2>1, <2>2 DEF CountHumans
<1>4. ASSUME NEW s \in DOMAIN flight, Returns(s), UNCHANGED present
      PROVE EmitAfterMeeting'
  BY <1>4, ReturnsFacts DEF EmitAfterMeeting, Humans
<1>5. CASE Restart
  BY <1>5 DEF Restart, EmitAfterMeeting
<1>6. ASSUME NEW x \in Agents \cup People, NEW r \in Rooms, Join(x, r)
      PROVE EmitAfterMeeting'
  <2>1. /\ flight' = flight /\ present' = [present EXCEPT ![r] = @ \cup {x}]
        /\ \A s \in DOMAIN flight :
              met'[s] = (met[s] \/ (s \in DOMAIN flight /\ flight[s].room = r /\ x \in People))
    BY <1>0, <1>6 DEF Join
  <2>2. ASSUME NEW s \in DOMAIN flight, flight[s].at = "emit" \/ Humans(flight[s].room)' # {}
        PROVE  met'[s]
    <3>1. CASE x \in People /\ flight[s].room = r
      BY <2>1, <3>1
    <3>2. CASE ~(x \in People /\ flight[s].room = r)
      <4>1. Humans(flight[s].room)' = Humans(flight[s].room)
        BY <1>0, <2>1, <3>2 DEF Humans
      <4> QED
        BY <2>1, <2>2, <4>1 DEF EmitAfterMeeting
    <3> QED
      BY <3>1, <3>2
  <2> QED
    BY <2>1, <2>2 DEF EmitAfterMeeting
<1>7. ASSUME NEW x \in Agents \cup People, NEW r \in Rooms, Leave(x, r)
      PROVE EmitAfterMeeting'
  <2>1. /\ flight' = flight /\ met' = met /\ present' = [present EXCEPT ![r] = @ \ {x}]
    BY <1>7 DEF Leave
  <2>2. \A q \in Rooms : Humans(q)' # {} => Humans(q) # {}
    BY <1>0, <2>1 DEF Humans
  <2> QED
    BY <1>0, <2>1, <2>2 DEF EmitAfterMeeting
<1>8. CASE UNCHANGED <<flight, met, present>>
  BY <1>8 DEF EmitAfterMeeting, Humans
<1>9. ASSUME NEW s \in Slots, NEW t \in timers, Fire(s, t) PROVE EmitAfterMeeting'
  <2>1. t.room \in Rooms /\ Request(s, t.room) /\ UNCHANGED present
    BY <1>9 DEF Fire, TypeOK, Timer
  <2> QED
    BY <1>1, <2>1
<1> QED
  BY <1>1, <1>2, <1>3, <1>4, <1>5, <1>6, <1>7, <1>8, <1>9
  DEF Next, RequestNow, Start, Stop, Emit, CallFails, vars

-----------------------------------------------------------------------------
(* The panel *)

CallType == [kind : {"none", "now", "start", "stop"},
             at : {"none", "sent", "served", "active", "inactive", "done", "error"},
             slot : Slots \cup {"none"}]

\* A call that cannot switch the ticker, or none.
Harmless == call = NoCall \/ call.kind = "now"

PanelType ==
    /\ call \in CallType
    /\ status \in {"none", "asked", "active", "inactive"}
    /\ call.kind = "none" <=> call = NoCall
    /\ call.at \in {"active", "inactive"} => call.kind \in {"start", "stop"}
    /\ call.at = "served" => call.kind \in {"now", "start"}
    /\ call.at = "done" => call.kind = "now"

\* While nothing is muddled, what is on its way to the panel is the truth, and
\* so is what the panel shows when nothing is.
PanelTruth ==
    ~muddled =>
        /\ status # "none" => Harmless
        /\ status \in {"active", "inactive"} => status = Status
        /\ status = "none" /\ Harmless => shown = (Status = "active")
        /\ call.at \in {"active", "inactive"} => call.at = Status

\* Each step of the panel is a step of the tickers or leaves them alone.
LEMMA PanelStepIsTickerStep == [PanelNext]_panelVars => [Next]_vars
<1>1. ASSUME NEW s \in Slots, NowServed(s) PROVE Next
  BY <1>1, PanelAssumption DEF NowServed, Next
<1>2. ASSUME NEW s \in Slots, NEW raw \in Intervals, StartServed(s, raw) PROVE Next
  BY <1>2, PanelAssumption DEF StartServed, Next
<1>3. CASE StopServed
  BY <1>3, PanelAssumption DEF StopServed, Next
<1>4. CASE Elsewhere
  BY <1>4 DEF Elsewhere
<1>5. CASE \/ OpenSummary \/ CloseSummary \/ StatusServed \/ StatusArrives \/ StatusFails
           \/ (\E kind \in {"now", "start", "stop"} : Press(kind))
           \/ CallRefused \/ CallReturns \/ UNCHANGED panelVars
  BY <1>5 DEF OpenSummary, CloseSummary, StatusServed, StatusArrives, StatusFails, Press,
     CallRefused, CallReturns, panelVars
<1> QED
  BY <1>1, <1>2, <1>3, <1>4, <1>5 DEF PanelNext

LEMMA PanelTypeStep == PanelType /\ [PanelNext]_panelVars => PanelType'
<1> SUFFICES ASSUME PanelType, [PanelNext]_panelVars PROVE PanelType'
  OBVIOUS
<1> USE DEF CallType, NoCall
<1>0. Status \in {"active", "inactive"} /\ Status' \in {"active", "inactive"}
  BY DEF Status
<1>1. CASE \/ OpenSummary \/ CloseSummary \/ StatusServed \/ StatusArrives \/ StatusFails
           \/ UNCHANGED panelVars
  BY <1>0, <1>1 DEF OpenSummary, CloseSummary, StatusServed, StatusArrives, StatusFails,
     panelVars, panel, PanelType
<1>2. ASSUME NEW kind \in {"now", "start", "stop"}, Press(kind) PROVE PanelType'
  BY <1>2 DEF Press, PanelType
<1>3. ASSUME NEW s \in Slots, NowServed(s) PROVE PanelType'
  BY <1>3 DEF NowServed, PanelType
<1>4. ASSUME NEW s \in Slots, NEW raw \in Intervals, StartServed(s, raw) PROVE PanelType'
  BY <1>4 DEF StartServed, PanelType
<1>5. CASE StopServed
  BY <1>5 DEF StopServed, CallGoesTo, PanelType
<1>6. CASE CallRefused
  BY <1>6 DEF CallRefused, CallGoesTo, PanelType
<1>7. CASE CallReturns
  BY <1>7 DEF CallReturns, PanelType
<1>8. CASE Elsewhere
  <2>1. CASE call.at # "served"
    BY <1>8, <2>1 DEF Elsewhere, PanelType
  <2>2. CASE call.at = "served"
    <3> DEFINE place == Reply(call.slot)
    <3>1. /\ place \in {"served", "error", "active", "inactive", "done"}
          /\ place \in {"active", "inactive"} => call.kind = "start"
          /\ place = "done" => call.kind # "start"
      BY <1>0, <2>2 DEF Reply
    <3>2. call' = [call EXCEPT !.at = place] /\ status' = status
      BY <1>8, <2>2 DEF Elsewhere, CallGoesTo
    <3>3. call.kind \in {"now", "start"}
      BY <2>2 DEF PanelType
    <3> HIDE DEF place
    <3>4. call' \in CallType /\ call'.kind = call.kind /\ call'.at = place
      BY <3>1, <3>2 DEF PanelType
    <3>5. call # NoCall /\ call'.kind # "none" /\ call' # NoCall
      BY <3>3, <3>4
    <3> QED
      BY <3>1, <3>2, <3>3, <3>4, <3>5 DEF PanelType
  <2> QED
    BY <2>1, <2>2
<1> QED
  BY <1>1, <1>2, <1>3, <1>4, <1>5, <1>6, <1>7, <1>8 DEF PanelNext

LEMMA PanelTruthStep ==
    PanelType /\ PanelType' /\ PanelTruth /\ [PanelNext]_panelVars => PanelTruth'
<1> SUFFICES ASSUME PanelType, PanelType', PanelTruth, [PanelNext]_panelVars,
                    ~muddled'
             PROVE  /\ status' # "none" => Harmless'
                    /\ status' \in {"active", "inactive"} => status' = Status'
                    /\ status' = "none" /\ Harmless' => shown' = (Status = "active")'
                    /\ call'.at \in {"active", "inactive"} => call'.at = Status'
  BY DEF PanelTruth
<1> USE DEF CallType, NoCall
<1>1. CASE OpenSummary
  BY <1>1 DEF OpenSummary, PanelType, Harmless, Pending, vars
<1>2. CASE CloseSummary
  BY <1>2 DEF CloseSummary, PanelType, PanelTruth, Harmless, Status, vars
<1>3. CASE StatusServed
  BY <1>3 DEF StatusServed, PanelType, PanelTruth, Harmless, Status, vars
<1>4. CASE StatusArrives
  BY <1>4 DEF StatusArrives, PanelType, PanelTruth, Harmless, Status, vars
<1>5. CASE StatusFails
  BY <1>5 DEF StatusFails
<1>6. ASSUME NEW kind \in {"now", "start", "stop"}, Press(kind)
      PROVE  /\ status' # "none" => Harmless'
             /\ status' \in {"active", "inactive"} => status' = Status'
             /\ status' = "none" /\ Harmless' => shown' = (Status = "active")'
             /\ call'.at \in {"active", "inactive"} => call'.at = Status'
  BY <1>6 DEF Press, Pending, PanelType, PanelTruth, Harmless, Status, vars
<1>7. ASSUME NEW s \in Slots, NowServed(s)
      PROVE  /\ status' # "none" => Harmless'
             /\ status' \in {"active", "inactive"} => status' = Status'
             /\ status' = "none" /\ Harmless' => shown' = (Status = "active")'
             /\ call'.at \in {"active", "inactive"} => call'.at = Status'
  BY <1>7 DEF NowServed, RequestNow, PanelType, PanelTruth, Harmless, Status
<1>8. ASSUME NEW s \in Slots, NEW raw \in Intervals, StartServed(s, raw)
      PROVE  /\ status' # "none" => Harmless'
             /\ status' \in {"active", "inactive"} => status' = Status'
             /\ status' = "none" /\ Harmless' => shown' = (Status = "active")'
             /\ call'.at \in {"active", "inactive"} => call'.at = Status'
  BY <1>8 DEF StartServed, PanelType, PanelTruth, Harmless
<1>9. CASE StopServed
  <2>1. Status' = "inactive"
    <3>1. CASE Room \in DOMAIN tickers
      BY <1>9, <3>1 DEF StopServed, Stop, Drop, Restrict, Status
    <3>2. CASE Room \notin DOMAIN tickers
      BY <1>9, <3>2 DEF StopServed, Status, vars
    <3> QED
      BY <3>1, <3>2
  <2> QED
    BY <1>9, <2>1 DEF StopServed, CallGoesTo, PanelType, PanelTruth, Harmless
<1>10. CASE CallRefused
  BY <1>10 DEF CallRefused, CallGoesTo, PanelType, PanelTruth, Harmless, Status, vars
<1>11. CASE CallReturns
  BY <1>11 DEF CallReturns, PanelType, PanelTruth, Harmless, Status, vars
<1>12. CASE Elsewhere
  <2>1. Status' = Status /\ ~muddled /\ status' = status /\ shown' = shown
    BY <1>12 DEF Elsewhere
  <2>2. CASE call.at # "served"
    BY <1>12, <2>1, <2>2 DEF Elsewhere, PanelTruth, Harmless
  <2>3. CASE call.at = "served"
    <3> DEFINE place == Reply(call.slot)
    <3>1. place \in {"active", "inactive"} => place = Status'
      BY <2>3 DEF Reply
    <3>2. call' = [call EXCEPT !.at = place]
      BY <1>12, <2>3 DEF Elsewhere, CallGoesTo
    <3> HIDE DEF place
    <3>3. call'.kind = call.kind /\ call'.at = place /\ call # NoCall /\ call' # NoCall
      BY <2>3, <3>2 DEF PanelType
    <3> QED
      BY <2>1, <3>1, <3>3 DEF PanelTruth, Harmless
  <2> QED
    BY <2>2, <2>3
<1>13. CASE UNCHANGED panelVars
  BY <1>13 DEF panelVars, panel, PanelTruth, Harmless, Status, vars
<1> QED
  BY <1>1, <1>2, <1>3, <1>4, <1>5, <1>6, <1>7, <1>8, <1>9, <1>10, <1>11, <1>12, <1>13
  DEF PanelNext

-----------------------------------------------------------------------------
(* Theorems *)

\* Every ticker, timer and request has its type, and a ticker's interval is
\* within the limits whatever the client sent.
THEOREM TypeCorrect == Spec => []TypeOK
<1>1. Inv => TypeOK
  BY DEF Inv
<1> QED
  BY <1>1, Invariant, PTL

\* Whatever starts, stops, failures and restarts do, exactly the tickers have a
\* timer, one each.
THEOREM OneTimerPerTicker == Spec => []NoLeakedTimer
<1>1. Inv => NoLeakedTimer
  BY DEF Inv
<1> QED
  BY <1>1, Invariant, PTL

\* The time a ticker shows is that of the last request sent since it started,
\* whichever request of the room that was.
THEOREM LastTimeIsRight == Spec => []LastRequestIsLatest
<1>1. Inv => LastRequestIsLatest
  BY DEF Inv
<1> QED
  BY <1>1, Invariant, PTL

\* A summary is asked for only if somebody but the agents was in the room at
\* some time of the request.
THEOREM SomebodyWasThere == Spec => NoSummaryOfAnEmptyRoom
<1>1. Init => EmitAfterMeeting
  BY DEF Init, EmitAfterMeeting
<1>2. EmitAfterMeeting /\ [Next]_vars => [\A s \in Slots : Emit(s) => met[s]]_vars
  BY DEF EmitAfterMeeting, Emit
<1> QED
  BY <1>1, <1>2, MeetingStep, TypeCorrect, PTL DEF Spec, NoSummaryOfAnEmptyRoom

\* The panel takes only steps of the tickers, so that what is proved of them
\* is true with the panel.
THEOREM PanelKeepsTheTickers == PanelSpec => Spec
<1>1. PanelInit => Init
  BY DEF PanelInit
<1> QED
  BY <1>1, PanelStepIsTickerStep, PTL DEF PanelSpec, Spec

\* With nothing of the panel's under way and nothing that need not have reached
\* it, the button shows what the ticker does.
THEOREM ButtonShowsTicker == PanelSpec => []ButtonIsRight
<1>1. PanelInit => PanelType /\ PanelTruth
  <2> SUFFICES ASSUME PanelInit PROVE PanelType /\ PanelTruth
    OBVIOUS
  <2>1. /\ call = NoCall /\ call.kind = "none" /\ call.at = "none" /\ call.slot = "none"
        /\ status = "none" /\ shown = FALSE
    BY DEF PanelInit, NoCall
  <2>2. call \in CallType
    BY DEF PanelInit, NoCall, CallType
  <2>3. Status = "inactive"
    BY DEF PanelInit, Init, Status
  <2> QED
    BY <2>1, <2>2, <2>3 DEF PanelType, PanelTruth, Harmless
<1>2. PanelTruth => ButtonIsRight
  BY DEF PanelTruth, ButtonIsRight, Harmless, Pending
<1> QED
  BY <1>1, <1>2, PanelTypeStep, PanelTruthStep, PTL DEF PanelSpec

=============================================================================
