---------------------------- MODULE SummaryTicker ----------------------------
(***************************************************************************)
(* Summary requests of ConferenceService: asked for by a person            *)
(* (requestSummary) or by a ticker a person starts and stops               *)
(* (updateSummaryTicker).  A ticker is an entry of the map summaryTickers  *)
(* and a timer of the Node process; both live in memory only.              *)
(*                                                                         *)
(* requestSummary awaits PostgreSQL and then LiveKit's list of             *)
(* participants, so requests of one room overlap, and a ticker may be      *)
(* stopped or replaced while requests of its timer are under way.  An      *)
(* action is the code between two awaits.  A failed call has no effect.    *)
(***************************************************************************)
EXTENDS Integers, FiniteSets, Functions

CONSTANTS
    Rooms,          \* conferences
    Agents,         \* the agent participants of LiveKit
    People,         \* the human participants
    Intervals,      \* what clients send as intervalSeconds
    NotANumber,     \* an interval that is no finite number
    Absent,         \* no interval
    Slots,          \* bound: requests in progress at once
    MaxStarts,      \* bound: tickers started
    MaxEmitted,     \* bound: summary requests sent, by room
    MaxFaults,      \* bound: failing calls to PostgreSQL or LiveKit
    MaxRestarts     \* bound: restarts of the backend

MIN_SUMMARY_TICKER_INTERVAL_SECONDS == 15
MAX_SUMMARY_TICKER_INTERVAL_SECONDS == 3600
fallbackIntervalSeconds == 60

ASSUME TickerAssumption ==
    /\ Agents \cap People = {}
    /\ Intervals \subseteq Int \cup {NotANumber, Absent}
    /\ NotANumber \notin Int /\ Absent \notin Int
    /\ MaxStarts \in Nat /\ MaxEmitted \in Nat
    /\ MaxFaults \in Nat /\ MaxRestarts \in Nat

VARIABLES
    timers,     \* setInterval timers that run
    tickers,    \* summaryTickers: room -> entry
    flight,     \* the requestSummary calls in progress: slot -> where it is
    present,    \* LiveKit: the participants of each room
    emitted,    \* conference.summary.request: requests sent for each room
    before,     \* those sent before the room's ticker started (for properties)
    met,        \* a person has been in the room since the request began (same)
    starts, faults, restarts

vars == <<timers, tickers, flight, present, emitted, before, met,
          starts, faults, restarts>>

Init ==
    /\ timers = {}
    /\ tickers = << >>
    /\ flight = << >>
    /\ present = [r \in Rooms |-> {}]
    /\ emitted = [r \in Rooms |-> 0]
    /\ before = [r \in Rooms |-> 0]
    /\ met = [s \in Slots |-> FALSE]
    /\ starts = 0 /\ faults = 0 /\ restarts = 0

-----------------------------------------------------------------------------
(* Helpers *)

\* Map.set and Map.delete.
Put(f, k, v) == [x \in DOMAIN f \cup {k} |-> IF x = k THEN v ELSE f[x]]
Drop(f, k) == Restrict(f, DOMAIN f \ {k})

\* normalizeSummaryTickerInterval, of whole numbers.
Normalize(value) ==
    CASE value \in {NotANumber, Absent} -> fallbackIntervalSeconds
      [] value \in Int /\ value < MIN_SUMMARY_TICKER_INTERVAL_SECONDS ->
            MIN_SUMMARY_TICKER_INTERVAL_SECONDS
      [] value \in Int /\ value > MAX_SUMMARY_TICKER_INTERVAL_SECONDS ->
            MAX_SUMMARY_TICKER_INTERVAL_SECONDS
      [] OTHER -> value

\* The participants getActiveHumanParticipantCount counts.
Humans(r) == present[r] \ Agents

\* The timers clearInterval stops when the room's ticker is stopped.
TickerTimers(r) ==
    IF r \in DOMAIN tickers THEN {[id |-> tickers[r].timer, room |-> r]} ELSE {}

\* A call of requestSummary starts, a timer's or a person's.
Request(s, r) ==
    /\ s \notin DOMAIN flight
    /\ flight' = Put(flight, s, [at |-> "ensure", room |-> r])
    /\ met' = [met EXCEPT ![s] = Humans(r) # {}]

MovesTo(s, place) == flight' = [flight EXCEPT ![s].at = place] /\ UNCHANGED met
Returns(s) == flight' = Drop(flight, s) /\ met' = [met EXCEPT ![s] = FALSE]

-----------------------------------------------------------------------------
(* Mutations: actions below with a plausible bug (no action uses them). *)

\* A started ticker replaces the entry without stopping the old timer.
StartOver(s, r, raw) ==
    /\ starts < MaxStarts
    /\ starts' = starts + 1
    /\ timers' = timers \cup {[id |-> starts + 1, room |-> r]}
    /\ tickers' = Put(tickers, r, [timer |-> starts + 1,
                                   interval |-> Normalize(raw), last |-> 0])
    /\ before' = [before EXCEPT ![r] = emitted[r]]
    /\ Request(s, r)
    /\ UNCHANGED <<present, emitted, faults, restarts>>

\* The interval of the client is used as it is.
StartUnchecked(s, r, raw) ==
    /\ starts < MaxStarts
    /\ starts' = starts + 1
    /\ timers' = (timers \ TickerTimers(r)) \cup {[id |-> starts + 1, room |-> r]}
    /\ tickers' = Put(tickers, r, [timer |-> starts + 1,
                                   interval |-> raw, last |-> 0])
    /\ before' = [before EXCEPT ![r] = emitted[r]]
    /\ Request(s, r)
    /\ UNCHANGED <<present, emitted, faults, restarts>>

\* The agent counts as somebody to write a summary for.
CountEverybody(s) ==
    /\ s \in DOMAIN flight
    /\ flight[s].at = "count"
    /\ IF present[flight[s].room] = {} THEN Returns(s) ELSE MovesTo(s, "emit")
    /\ UNCHANGED <<timers, tickers, present, emitted, before, starts, faults, restarts>>

\* The entry of a replaced ticker is used again.
StartKeepsEntry(s, r, raw) ==
    /\ starts < MaxStarts
    /\ starts' = starts + 1
    /\ timers' = (timers \ TickerTimers(r)) \cup {[id |-> starts + 1, room |-> r]}
    /\ tickers' = Put(tickers, r, [timer |-> starts + 1,
                                   interval |-> Normalize(raw),
                                   last |-> IF r \in DOMAIN tickers
                                            THEN tickers[r].last ELSE 0])
    /\ before' = [before EXCEPT ![r] = emitted[r]]
    /\ Request(s, r)
    /\ UNCHANGED <<present, emitted, faults, restarts>>

-----------------------------------------------------------------------------
(* The handlers *)

\* POST summary/request.
RequestNow(s, r) ==
    /\ Request(s, r)
    /\ UNCHANGED <<timers, tickers, present, emitted, before,
                   starts, faults, restarts>>

\* updateSummaryTicker, start: stop the room's ticker, set a timer and an
\* entry, and call requestSummary once.
Start(s, r, raw) ==
    /\ starts < MaxStarts
    /\ starts' = starts + 1
    /\ timers' = (timers \ TickerTimers(r)) \cup {[id |-> starts + 1, room |-> r]}
    /\ tickers' = Put(tickers, r, [timer |-> starts + 1,
                                   interval |-> Normalize(raw), last |-> 0])
    /\ before' = [before EXCEPT ![r] = emitted[r]]
    /\ Request(s, r)
    /\ UNCHANGED <<present, emitted, faults, restarts>>

\* updateSummaryTicker, stop: requests under way go on.
Stop(r) ==
    /\ r \in DOMAIN tickers
    /\ timers' = timers \ TickerTimers(r)
    /\ tickers' = Drop(tickers, r)
    /\ UNCHANGED <<flight, present, emitted, before, met, starts, faults, restarts>>

\* A timer fires.  Past the bound on requests sent it has nothing to show.
Fire(s, t) ==
    /\ t \in timers
    /\ emitted[t.room] < MaxEmitted
    /\ Request(s, t.room)
    /\ UNCHANGED <<timers, tickers, present, emitted, before,
                   starts, faults, restarts>>

\* ensureConference has returned.
Ensured(s) ==
    /\ s \in DOMAIN flight
    /\ flight[s].at = "ensure"
    /\ MovesTo(s, "count")
    /\ UNCHANGED <<timers, tickers, present, emitted, before, starts, faults, restarts>>

\* LiveKit lists the participants (a room it does not know has none); the
\* reply ends the request or lets it go on, later.
CountHumans(s) ==
    /\ s \in DOMAIN flight
    /\ flight[s].at = "count"
    /\ IF Humans(flight[s].room) = {} THEN Returns(s) ELSE MovesTo(s, "emit")
    /\ UNCHANGED <<timers, tickers, present, emitted, before, starts, faults, restarts>>

\* Send the request and note its time in whatever ticker the room has now.
Emit(s) ==
    /\ s \in DOMAIN flight
    /\ flight[s].at = "emit"
    /\ LET r == flight[s].room
       IN /\ emitted[r] < MaxEmitted
          /\ emitted' = [emitted EXCEPT ![r] = @ + 1]
          /\ tickers' = IF r \in DOMAIN tickers
                        THEN [tickers EXCEPT ![r].last = emitted[r] + 1]
                        ELSE tickers
    /\ Returns(s)
    /\ UNCHANGED <<timers, present, before, starts, faults, restarts>>

\* PostgreSQL or LiveKit fails: the timer's callback logs it, a client gets an
\* error; the ticker stays as it is.
CallFails(s) ==
    /\ s \in DOMAIN flight
    /\ flight[s].at \in {"ensure", "count"}
    /\ faults < MaxFaults
    /\ faults' = faults + 1
    /\ Returns(s)
    /\ UNCHANGED <<timers, tickers, present, emitted, before, starts, restarts>>

\* onModuleDestroy, or the end of the process.
Restart ==
    /\ restarts < MaxRestarts
    /\ restarts' = restarts + 1
    /\ timers' = {}
    /\ tickers' = << >>
    /\ flight' = << >> /\ met' = [s \in Slots |-> FALSE]
    /\ UNCHANGED <<present, emitted, before, starts, faults>>

-----------------------------------------------------------------------------
(* LiveKit: participants come and go *)

Join(x, r) ==
    /\ x \notin present[r]
    /\ present' = [present EXCEPT ![r] = @ \cup {x}]
    /\ met' = [s \in Slots |->
                 \/ met[s]
                 \/ s \in DOMAIN flight /\ flight[s].room = r /\ x \in People]
    /\ UNCHANGED <<timers, tickers, flight, emitted, before, starts, faults, restarts>>

Leave(x, r) ==
    /\ x \in present[r]
    /\ present' = [present EXCEPT ![r] = @ \ {x}]
    /\ UNCHANGED <<timers, tickers, flight, emitted, before, met,
                   starts, faults, restarts>>

-----------------------------------------------------------------------------
Next ==
    \/ \E s \in Slots, r \in Rooms : RequestNow(s, r)
    \/ \E s \in Slots, r \in Rooms, raw \in Intervals : Start(s, r, raw)
    \/ \E r \in Rooms : Stop(r)
    \/ \E s \in Slots, t \in timers : Fire(s, t)
    \/ \E s \in Slots : Ensured(s) \/ CountHumans(s) \/ Emit(s) \/ CallFails(s)
    \/ \E x \in Agents \cup People, r \in Rooms : Join(x, r) \/ Leave(x, r)
    \/ Restart

Spec == Init /\ [][Next]_vars

-----------------------------------------------------------------------------
(* Properties *)

Timer == [id : Nat \ {0}, room : Rooms]
IntervalsInUse == MIN_SUMMARY_TICKER_INTERVAL_SECONDS .. MAX_SUMMARY_TICKER_INTERVAL_SECONDS
Entry == [timer : Nat \ {0}, interval : IntervalsInUse, last : Nat]
Call == [at : {"ensure", "count", "emit"}, room : Rooms]

\* Timers, entries and requests in progress have the shape of the code's, and
\* every ticker runs at an interval within the limits, whatever the client sent.
TypeOK ==
    /\ timers \subseteq Timer
    /\ DOMAIN tickers \subseteq Rooms /\ tickers \in [DOMAIN tickers -> Entry]
    /\ DOMAIN flight \subseteq Slots /\ flight \in [DOMAIN flight -> Call]
    /\ present \in [Rooms -> SUBSET (Agents \cup People)]
    /\ emitted \in [Rooms -> Nat]
    /\ before \in [Rooms -> Nat]
    /\ met \in [Slots -> BOOLEAN]
    /\ starts \in Nat /\ faults \in Nat /\ restarts \in Nat

\* No timer outlives its ticker and no ticker is without its timer, however
\* starts, stops and failing requests are mixed: a leaked timer would ask for
\* summaries for ever, and nothing could stop it; a ticker without one would
\* be shown as running and never ask again.
NoLeakedTimer ==
    timers = {[id |-> tickers[r].timer, room |-> r] : r \in DOMAIN tickers}

\* lastRequestedAt is the time of the last request sent for the room since the
\* ticker was started, whoever made that request and under whichever earlier
\* ticker it set out.
LastRequestIsLatest ==
    \A r \in DOMAIN tickers :
        tickers[r].last = IF emitted[r] > before[r] THEN emitted[r] ELSE 0

\* No summary is requested of a room where, during the whole request, nobody
\* but agents has been.
NoSummaryOfAnEmptyRoom ==
    [][\A s \in Slots : Emit(s) => met[s]]_vars

=============================================================================
