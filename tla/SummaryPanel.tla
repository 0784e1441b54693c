---------------------------- MODULE SummaryPanel -----------------------------
(***************************************************************************)
(* The summary panel of a meeting's creator (ai-chat.tsx) over the tickers *)
(* of SummaryTicker: a button that asks for a summary now and one that     *)
(* starts or stops the room's ticker, whichever the panel believes in.     *)
(*                                                                         *)
(* The panel learns of the ticker from GET ticker, sent each time the      *)
(* summary tab is opened, and from the replies to its own requests.        *)
(* Requests and answers take their time and overtake each other; the other *)
(* steps of SummaryTicker are somebody else's, who has the same rights in  *)
(* another tab, the timers', LiveKit's and the backend's.                  *)
(***************************************************************************)
EXTENDS SummaryTicker

CONSTANT Room   \* the room of the panel

ASSUME PanelAssumption == Room \in Rooms

VARIABLES
    open,      \* activeTab is the summary
    shown,     \* isSummaryTickerActive
    status,    \* GET ticker: "none", "asked", or the answer under way
    call,      \* the request of a button: isSummaryControlPending unless "none"
    muddled    \* what happened since need not have reached the panel (for properties)

panel == <<open, shown, status, call, muddled>>
panelVars == <<vars, panel>>

NoCall == [kind |-> "none", at |-> "none", slot |-> "none"]

PanelInit ==
    /\ Init
    /\ open = FALSE /\ shown = FALSE /\ status = "none" /\ call = NoCall
    /\ muddled = FALSE

-----------------------------------------------------------------------------
(* Helpers *)

\* getSummaryTickerStatus
Status == IF Room \in DOMAIN tickers THEN "active" ELSE "inactive"

Pending == call # NoCall

CallGoesTo(place) == call' = [call EXCEPT !.at = place]

\* The reply to the request in slot s, when this step ends it: the ticker's
\* status to a start, which waited for its first request.
Reply(s) ==
    IF s \in DOMAIN flight'             THEN call.at
    ELSE IF faults' # faults \/ restarts' # restarts THEN "error"
    ELSE IF call.kind = "start"         THEN Status'
    ELSE "done"

-----------------------------------------------------------------------------
(* Mutations: actions below with a plausible bug (no action uses them). *)

\* The status turns the button on, never off.
StatusSwitchesOn ==
    /\ status \in {"active", "inactive"}
    /\ shown' = (shown \/ status = "active")
    /\ status' = "none"
    /\ UNCHANGED <<vars, open, call, muddled>>

-----------------------------------------------------------------------------
(* GET ticker *)

\* The tab is opened: its effect asks.
OpenSummary ==
    /\ ~open
    /\ open' = TRUE
    /\ status' = "asked"
    /\ muddled' = Pending
    /\ UNCHANGED <<vars, shown, call>>

\* Another tab: an answer under way no longer counts, the rest of the state stays.
CloseSummary ==
    /\ open
    /\ open' = FALSE
    /\ status' = "none"
    /\ muddled' = (muddled \/ status # "none")
    /\ UNCHANGED <<vars, shown, call>>

StatusServed ==
    /\ status = "asked"
    /\ status' = Status
    /\ UNCHANGED <<vars, open, shown, call, muddled>>

StatusArrives ==
    /\ status \in {"active", "inactive"}
    /\ shown' = (status = "active")
    /\ status' = "none"
    /\ UNCHANGED <<vars, open, call, muddled>>

\* Nobody is told.
StatusFails ==
    /\ status # "none"
    /\ status' = "none"
    /\ muddled' = TRUE
    /\ UNCHANGED <<vars, open, shown, call>>

-----------------------------------------------------------------------------
(* The buttons, disabled while a request of theirs is pending *)

Press(kind) ==
    /\ open /\ ~Pending
    /\ kind = "stop" => shown
    /\ kind = "start" => ~shown
    /\ call' = [kind |-> kind, at |-> "sent", slot |-> "none"]
    /\ muddled' = (muddled \/ (status # "none" /\ kind # "now"))
    /\ UNCHANGED <<vars, open, shown, status>>

\* The backend takes a request up; a stop is answered at once.
NowServed(s) ==
    /\ call.kind = "now" /\ call.at = "sent"
    /\ RequestNow(s, Room)
    /\ call' = [call EXCEPT !.at = "served", !.slot = s]
    /\ UNCHANGED <<open, shown, status, muddled>>

StartServed(s, raw) ==
    /\ call.kind = "start" /\ call.at = "sent"
    /\ Start(s, Room, raw)
    /\ call' = [call EXCEPT !.at = "served", !.slot = s]
    /\ UNCHANGED <<open, shown, status, muddled>>

StopServed ==
    /\ call.kind = "stop" /\ call.at = "sent"
    /\ IF Room \in DOMAIN tickers THEN Stop(Room) ELSE UNCHANGED vars
    /\ CallGoesTo("inactive")
    /\ UNCHANGED <<open, shown, status, muddled>>

\* Next.js does not reach the backend.
CallRefused ==
    /\ call.at = "sent"
    /\ CallGoesTo("error")
    /\ UNCHANGED <<vars, open, shown, status, muddled>>

\* runSummaryAction goes on: an answer with "active" in it sets the button, an
\* error is shown and leaves it, although the ticker may have been started.
CallReturns ==
    /\ call.at \in {"active", "inactive", "done", "error"}
    /\ shown' = CASE call.at = "active" -> TRUE
                  [] call.at = "inactive" -> FALSE
                  [] OTHER -> shown
    /\ muddled' = (muddled \/ (call.at = "error" /\ call.kind # "now"))
    /\ call' = NoCall
    /\ UNCHANGED <<vars, open, status>>

-----------------------------------------------------------------------------
\* Everything else that happens to the tickers; a step that ends the panel's
\* request sends its reply.
Elsewhere ==
    /\ Next
    /\ IF call.at = "served" THEN CallGoesTo(Reply(call.slot)) ELSE UNCHANGED call
    /\ muddled' = (muddled \/ Status' # Status)
    /\ UNCHANGED <<open, shown, status>>

PanelNext ==
    \/ OpenSummary \/ CloseSummary
    \/ StatusServed \/ StatusArrives \/ StatusFails
    \/ \E kind \in {"now", "start", "stop"} : Press(kind)
    \/ \E s \in Slots : NowServed(s)
    \/ \E s \in Slots, raw \in Intervals : StartServed(s, raw)
    \/ StopServed \/ CallRefused \/ CallReturns
    \/ Elsewhere

PanelSpec == PanelInit /\ [][PanelNext]_panelVars

-----------------------------------------------------------------------------
(* Properties *)

\* When nothing of the panel's is under way the button shows what the ticker
\* does, from the time the tab is opened: until somebody else or a restart
\* switches the ticker, a request fails (a start that failed may have started
\* it), or a button is pressed before the status is there.
ButtonIsRight ==
    ~Pending /\ status = "none" /\ ~muddled => shown = (Status = "active")

=============================================================================
