------------------------------ MODULE Console -------------------------------
(***************************************************************************)
(* A dashboard (src/app/static/app.js) at work with the server it looks    *)
(* at: the tickets (StreamTickets) and the event bus (EventBus).  A        *)
(* "client" is a call of connectStream(), with the thread that answers its *)
(* request for a ticket and the stream it opens; several may overlap,      *)
(* because the function awaits the ticket and looks at nothing afterwards. *)
(***************************************************************************)
EXTENDS EventBus, FiniteSets

CONSTANTS
    Lifetime, MaxIssued, MaxNow,    \* of StreamTickets
    Budgets,        \* bounds: logins, events, ticks of the clock, switches of the tab, faults
    Alerts,         \* events of type 'alert', the others are of another type
    None

ASSUME ConsoleAssumption ==
    Lifetime \in Nat /\ MaxIssued \in Nat /\ MaxNow \in Nat /\ None \notin Clients

VARIABLES now, dict, current, expiry, requests, pc, job, issued, overlapped, admitted
Server == INSTANCE StreamTickets WITH Threads <- Clients

VARIABLES
    token,      \* state.token is set
    pending,    \* authenticate() calls that have not called connectStream()
    timer,      \* state.streamRetryTimer is set
    source,     \* state.stream
    call,       \* where each call of connectStream(), or its stream, is
    ticket,     \* the ticket it was answered
    refresh,    \* state.refreshInFlight, and what the server has answered
    shown,      \* events the page shows
    visible,    \* the page's tab is in the foreground
    budget      \* what may still happen

server == <<dict, current, expiry, requests, pc, job, issued, overlapped, admitted>>
bus == <<published, stream, subscribers, queue, seen>>
page == <<token, pending, timer, source, call, ticket>>
view == <<shown, visible>>
allVars == <<bus, now, server, page, refresh, view, budget>>

NoRefresh == [at |-> "none", upto |-> 0]

PageInit ==
    /\ token = FALSE /\ pending = 0
    /\ timer = FALSE /\ source = None
    /\ call = [c \in Clients |-> "idle"] /\ ticket = [c \in Clients |-> 0]
    /\ refresh = NoRefresh /\ shown = {} /\ visible = TRUE
    /\ budget \in Budgets

Spend(what) == budget[what] > 0 /\ budget' = [budget EXCEPT ![what] = @ - 1]
Fault == Spend("faults")

-----------------------------------------------------------------------------
(* authenticate(): the token is set at once, connectStream() called later. *)
Submit ==
    /\ Spend("logins")
    /\ pending' = pending + 1
    /\ token' = TRUE
    /\ UNCHANGED <<bus, now, server, timer, source, call, ticket, refresh, view>>

(* A stream that is closed while it is open ends at the server later.      *)
Close(c) == IF c = None THEN call ELSE [call EXCEPT ![c] = IF c \in open THEN "closed" ELSE "idle"]

(* lockConsole(), by the logout button or because authentication failed.   *)
Lock ==
    /\ token
    /\ \/ UNCHANGED pending
       \/ pending > 0 /\ pending' = pending - 1
    /\ token' = FALSE /\ timer' = FALSE /\ source' = None
    /\ call' = Close(source)
    /\ UNCHANGED <<bus, now, server, ticket, refresh, view, budget>>

(* connectStream(), called by authenticate() or by the timer.              *)
Connect(c) ==
    /\ call[c] = "idle" /\ c \notin open /\ pc[c] = "idle"
    /\ \/ pending > 0 /\ pending' = pending - 1
       \/ timer /\ UNCHANGED pending
    /\ timer' = FALSE
    /\ IF token
       THEN source' = None /\ call' = [Close(source) EXCEPT ![c] = "asking"]
       ELSE UNCHANGED <<source, call>>
    /\ UNCHANGED <<bus, now, server, token, ticket, refresh, view, budget>>

(* scheduleStreamReconnect() starts no second timer.  Mutant: it trusts    *)
(* another call to be at work.                                             *)
ScheduledIfAlone == timer \/ (token /\ \A c \in Clients : call[c] \in {"idle", "failed", "dropped"})
Scheduled == timer \/ token

-----------------------------------------------------------------------------
(* The request for the ticket, which the call gives up after 15 seconds,   *)
(* and the thread at work on it.                                           *)
AskTicket(c) ==
    /\ call[c] = "asking" /\ Server!Request(c)
    /\ call' = [call EXCEPT ![c] = "waiting"]
    /\ UNCHANGED <<bus, token, pending, timer, source, ticket, refresh, view, budget>>

TicketThread(c) ==
    /\ Server!Filter(c) \/ Server!Assign(c) \/ Server!Pop(c)
    /\ UNCHANGED <<bus, page, refresh, view, budget>>

TicketFails(c) ==
    /\ Server!FilterFails(c)
    /\ call' = IF call[c] = "waiting" THEN [call EXCEPT ![c] = "failed"] ELSE call
    /\ UNCHANGED <<bus, token, pending, timer, source, ticket, refresh, view, budget>>

TicketComes(c) ==
    /\ Server!Add(c)
    /\ IF call[c] = "waiting"
       THEN /\ call' = [call EXCEPT ![c] = "answered"]
            /\ ticket' = [ticket EXCEPT ![c] = job[c].n]
       ELSE UNCHANGED <<call, ticket>>
    /\ UNCHANGED <<bus, token, pending, timer, source, refresh, view, budget>>

TicketLost(c) ==
    /\ call[c] \in {"asking", "waiting"}
    /\ Fault \/ (call[c] = "asking" /\ requests = MaxIssued /\ UNCHANGED budget)
    /\ call' = [call EXCEPT ![c] = "failed"]
    /\ UNCHANGED <<bus, now, server, token, pending, timer, source, ticket, refresh, view>>

(* Each handler of a failure ends in scheduleStreamReconnect().            *)
GiveUp(c) ==
    /\ call[c] = "failed"
    /\ call' = [call EXCEPT ![c] = "idle"]
    /\ timer' = Scheduled
    /\ UNCHANGED <<bus, now, server, token, pending, source, ticket, refresh, view, budget>>

-----------------------------------------------------------------------------
(* The answer is here: the stream is opened, and replaces whatever another *)
(* call has put into state.stream meanwhile.                               *)
OpenSource(c) ==
    /\ call[c] = "answered"
    /\ call' = [call EXCEPT ![c] = "opening"] /\ source' = c
    /\ UNCHANGED <<bus, now, server, token, pending, timer, ticket, refresh, view, budget>>

Admitted(c) ==
    /\ call[c] = "opening" /\ Server!Admit(c, ticket[c]) /\ Subscribe(c)
    /\ call' = [call EXCEPT ![c] = "open"]
    /\ UNCHANGED <<token, pending, timer, source, ticket, refresh, view, budget>>

Refused(c) ==
    /\ call[c] = "opening" /\ Server!Refuse(c, ticket[c])
    /\ call' = [call EXCEPT ![c] = "refused"]
    /\ UNCHANGED <<bus, token, pending, timer, source, ticket, refresh, view, budget>>

Dropped(c) ==
    /\ call[c] = "open" /\ Fault /\ Leave(c)
    /\ call' = [call EXCEPT ![c] = "dropped"]
    /\ UNCHANGED <<now, server, token, pending, timer, source, ticket, refresh, view>>

Closed(c) ==
    /\ call[c] = "closed" /\ Leave(c)
    /\ call' = [call EXCEPT ![c] = "idle"]
    /\ UNCHANGED <<now, server, token, pending, timer, source, ticket, refresh, view, budget>>

(* onerror: a stream that is no longer state.stream is left to itself, and *)
(* the browser reconnects it unless it was refused.                        *)
OnError(c) ==
    /\ call[c] \in {"refused", "dropped"}
    /\ IF source = c
       THEN /\ source' = None /\ timer' = Scheduled
            /\ call' = [call EXCEPT ![c] = "idle"]
       ELSE /\ call' = [call EXCEPT ![c] = IF call[c] = "dropped" THEN "opening" ELSE "idle"]
            /\ UNCHANGED <<source, timer>>
    /\ UNCHANGED <<bus, now, server, token, pending, ticket, refresh, view, budget>>

-----------------------------------------------------------------------------
(* refreshAll(): not while another is in flight.  A login, a button and a  *)
(* decision call it, every message once it has been handled (an alert is   *)
(* shown, an event of another type is not; without a token the console is  *)
(* locked), and the interval of five seconds if the tab is visible.        *)
Starts == IF refresh.at = "none" THEN [at |-> "asked", upto |-> 0] ELSE refresh

RefreshAll ==
    /\ token /\ refresh.at = "none"
    /\ refresh' = Starts
    /\ UNCHANGED <<bus, now, server, page, view, budget>>

Interval == visible /\ RefreshAll

Message(c) ==
    /\ call[c] = "open" /\ Deliver(c)
    /\ shown' = shown \cup ({Head(queue[c])} \cap Alerts)
    /\ IF token
       THEN refresh' = Starts /\ UNCHANGED <<call, source>>
       ELSE call' = Close(source) /\ source' = None /\ UNCHANGED refresh
    /\ UNCHANGED <<now, server, token, pending, timer, ticket, visible, budget>>

(* The user turns to another tab, or back to this one.                     *)
Visibility ==
    /\ Spend("switches")
    /\ visible' = ~visible
    /\ UNCHANGED <<bus, now, server, page, refresh, shown>>

(* The server reads the database, in which is what has been published.     *)
Answer ==
    /\ refresh.at = "asked"
    /\ refresh' = [at |-> "answered", upto |-> published]
    /\ UNCHANGED <<bus, now, server, page, view, budget>>

Synchronize ==
    /\ refresh.at = "answered"
    /\ shown' = 1..refresh.upto
    /\ refresh' = NoRefresh
    /\ UNCHANGED <<bus, now, server, page, visible, budget>>

(* An error or the timeout of 15 seconds ends a refresh.  Mutant: it stays *)
(* in flight.  The timeout ends with the headers of the answer: a body     *)
(* that never comes leaves the refresh in flight for good.                 *)
StillInFlight == [at |-> "failed", upto |-> 0]
Ended == NoRefresh
RefreshFails ==
    /\ refresh.at = "asked" /\ Fault
    /\ refresh' = Ended
    /\ UNCHANGED <<bus, now, server, page, view>>

BodyStalls ==
    /\ refresh.at = "answered" /\ Fault
    /\ refresh' = [refresh EXCEPT !.at = "stalled"]
    /\ UNCHANGED <<bus, now, server, page, view>>

Events ==
    /\ Publish /\ Spend("events")
    /\ UNCHANGED <<now, server, page, refresh, view>>
Clock == Server!Tick /\ Spend("ticks") /\ UNCHANGED <<bus, page, refresh, view>>

Handle(c) == \/ Connect(c) \/ GiveUp(c) \/ OpenSource(c) \/ OnError(c) \/ Message(c)
Serve(c) == \/ AskTicket(c) \/ TicketThread(c) \/ TicketFails(c) \/ TicketComes(c)
            \/ Admitted(c) \/ Refused(c) \/ Closed(c)

ConsoleInit == Init /\ Server!Init /\ PageInit
ConsoleNext ==
    \/ Submit \/ Lock \/ Events \/ Clock
    \/ \E c \in Clients : Handle(c) \/ Serve(c) \/ TicketLost(c) \/ Dropped(c)
    \/ RefreshAll \/ Interval \/ Visibility \/ Answer \/ Synchronize \/ RefreshFails \/ BodyStalls

ConsoleSpec == ConsoleInit /\ [][ConsoleNext]_allVars

(* The browser reads its streams and runs its interval; the server answers *)
(* it and ends closed streams.  Nobody needs to log in, out, or publish,   *)
(* and nobody needs to look at the tab.                                    *)
ConsoleFairSpec ==
    /\ ConsoleSpec
    /\ \A c \in Clients : WF_allVars(Message(c)) /\ WF_allVars(Closed(c))
    /\ WF_allVars(Interval) /\ WF_allVars(Answer) /\ WF_allVars(Synchronize)

-----------------------------------------------------------------------------
(* A ticket is refused only because it expires, or because another request *)
(* was at work while it was issued.                                        *)
RefusedOnlyForCause ==
    \A c \in Clients : call[c] = "refused" => ticket[c] \in overlapped \/ expiry[ticket[c]] <= now

(* No stream was opened with a ticket that had expired.                    *)
AdmittedWhileGood == Server!AdmittedWhileGood

(* A page that is logged in and has no stream is about to get one: a call  *)
(* is at work or the timer runs, whatever failed and however calls of      *)
(* connectStream() and their failures overlapped.                          *)
NeverGivesUp ==
    token /\ source = None =>
        pending > 0 \/ timer \/ \E c \in Clients : call[c] \in {"asking", "waiting", "failed", "answered"}

(* A page whose tab stays visible catches up with what has been published, *)
(* even when its stream is off the bus, was never opened, carried what it  *)
(* does not show, or an older answer overwrote what a message had shown;   *)
(* only a stalled answer keeps it out of date.                             *)
PageCatchesUp ==
    <>[]visible => <>[](shown = 1..published \/ ~token \/ refresh.at = "stalled")

=============================================================================
