---------------------------- MODULE AlertWindow ----------------------------
(***************************************************************************)
(* process() with the real triage: what a stream of raw records and an     *)
(* analyst's status changes make of the alerts.                            *)
(*                                                                         *)
(* A call of process() is one step, unless it waits for the LLM or for the *)
(* notification webhook between its SELECT and its COMMIT; then other      *)
(* calls come in between, but none that works on a row it has locked.      *)
(* That is so on PostgreSQL, and on SQLite without LLM, where a call that  *)
(* waits for the webhook keeps all writers out (AlertPipeline has both).   *)
(***************************************************************************)
EXTENDS Triage, Sequences

CONSTANTS
    Feeds,          \* sets of raw records; one of them is what the sources send
    Window,         \* correlation_window_seconds
    Slots,          \* [feed -> the calls of process() that may be waiting at once]
    MaxEvents,      \* bound: events stored
    MaxChanges,     \* bound: status changes and calls that wait
    MaxNow          \* bound: clock

ASSUME WindowAssumption == Window \in Nat /\ MaxEvents \in Nat

VARIABLES
    feed,           \* the records the sources send
    now,            \* the clock
    alerts,         \* the alerts, with their events, actions and incident
    calls,          \* the calls of process() that wait, with what they selected
    events,         \* events stored so far
    changes         \* status changes and waiting calls so far

window == <<feed, now, alerts, calls, events, changes>>

(* triage: the severity in the stored triage, which is of the event that   *)
(* last reached the alert's severity; described: the mark that triage's    *)
(* description shows; log: the security_events rows; incident: the         *)
(* incident's priority, 0 without one; reopened: an analyst reopened it;   *)
(* overlapped: when the event that opened it was looked up, another event  *)
(* of its fingerprint was waiting in process().                            *)
NewAlert(e, overlaps) ==
    [st |-> "active", fp |-> Fingerprint(e), sev |-> Low, triage |-> Low, described |-> "none",
     log |-> <<>>, actions |-> {}, incident |-> 0, reopened |-> FALSE,
     overlapped |-> overlaps]

LastSeen(a) == a.log[Len(a.log)].at

(* generate_demo: a request for a forbidden path, a sensor's alert and a   *)
(* cleared audit log.  They are processed one after the other, but other   *)
(* requests, for the demo too, come in between; so a feed of them, in any  *)
(* order, has all their behaviours.                                        *)
DemoRecords ==
    {[NoRaw EXCEPT !.looks = {"apache"}, !.words = {"apache"}, !.hint = "apache",
        !.means = "attack_path", !.status = 404, !.src = "203.0.113.66"],
     [NoRaw EXCEPT !.keys = {"alert", "event_type"}, !.words = {"suricata"}, !.hint = "suricata",
        !.type = <<"suricata", "alert">>, !.id = "2009582", !.priority = 2, !.proto = "tcp",
        !.src = "93.184.216.34", !.sport = 45000, !.dst = "192.168.1.100", !.port = 80],
     [NoRaw EXCEPT !.keys = {"event_id"}, !.words = {"windows"}, !.hint = "windows",
        !.id = "1102", !.host = "WIN-ENDPOINT-01"]}

WindowInit ==
    /\ feed \in Feeds
    /\ now = 0
    /\ alerts = <<>> /\ calls = {}
    /\ events = 0
    /\ changes = 0

-----------------------------------------------------------------------------
(* Mutant: an alert last seen at the cutoff does not match.                *)
MatchingStrictCutoff(fp) ==
    {i \in DOMAIN alerts : /\ alerts[i].st = "active" /\ alerts[i].fp = fp
                           /\ LastSeen(alerts[i]) + Window > now}
Matching(fp) ==
    {i \in DOMAIN alerts : /\ alerts[i].st = "active" /\ alerts[i].fp = fp
                           /\ LastSeen(alerts[i]) + Window >= now}
Newest(S) == {i \in S : \A j \in S : LastSeen(alerts[j]) <= LastSeen(alerts[i])}

(* The duplicate check of _ensure_actions compares kind and target.        *)
(* Mutant: the kind alone.                                                 *)
FreshOfKind(a, proposals) == {p \in proposals : \A q \in a.actions : q[1] # p[1]}
Fresh(a, proposals) == proposals \ a.actions

(* Mutant: the severity follows the last event.                            *)
LastSeverity(a, s) == s
EffectiveSeverity(a, s) == Highest({a.sev, s})

(* Alert a after event e, which came at that time.  A weaker event leaves  *)
(* the stored triage alone, and actions are proposed for its own source    *)
(* and host by that triage.                                                *)
Merged(a, e, at, words) ==
    LET s == TriageEvent(e, Len(a.log) + 1)
        sev == EffectiveSeverity(a, s)
        triage == IF s >= a.sev THEN s ELSE a.triage
    IN  [a EXCEPT !.sev = sev, !.triage = triage,
           !.described = IF s >= a.sev THEN words ELSE @,
           !.log = Append(@, [event |-> e, at |-> at, rank |-> s]),
           !.actions = @ \cup Fresh(a, ProposeActions(e, triage)),
           !.incident = IF sev >= High THEN sev ELSE @]

(* The SELECT of process(): it locks the rows it finds, and waits, with    *)
(* all that runs on the event loop, while another call holds one of them.  *)
Locked == UNION {c.held : c \in calls}
Selects(e) == Matching(Fingerprint(e)) \cap Locked = {}
Selected(e) == IF Matching(Fingerprint(e)) = {} THEN {0} ELSE Newest(Matching(Fingerprint(e)))
Overlaps(e) == \E c \in calls : Fingerprint(c.event) = Fingerprint(e)

(* Its COMMIT, to alert i or to a new one.  The description is the         *)
(* message, which shows the record's mark, or that of an attack the ML     *)
(* model predicts, which shows no mark.                                    *)
Save(e, at, i, overlaps) ==
    /\ events < MaxEvents
    /\ events' = events + 1
    /\ \E words \in {e.mark, "none"} :
         alerts' = IF i = 0 THEN Append(alerts, Merged(NewAlert(e, overlaps), e, at, words))
                   ELSE [alerts EXCEPT ![i] = Merged(@, e, at, words)]
    /\ UNCHANGED <<feed, now>>

(* process() of an event, without a wait ...                               *)
Process(e) ==
    /\ Selects(e)
    /\ \E i \in Selected(e) : Save(e, now, i, Overlaps(e))
    /\ UNCHANGED <<calls, changes>>

(* ... or up to the wait ...                                               *)
Suspend(e) ==
    /\ changes < MaxChanges
    /\ changes' = changes + 1
    /\ Selects(e)
    /\ \E s \in Slots[feed] \ {c.slot : c \in calls}, i \in Selected(e) :
         calls' = calls \cup
           {[slot |-> s, event |-> e, at |-> now, on |-> i,
             held |-> Matching(Fingerprint(e)), overlaps |-> Overlaps(e)]}
    /\ UNCHANGED <<feed, now, alerts, events>>

(* ... and on from there, to the end or to an exception.                   *)
Resume(c) ==
    /\ calls' = calls \ {c}
    /\ Save(c.event, c.at, c.on, c.overlaps)
    /\ UNCHANGED changes

Abandon(c) ==
    /\ calls' = calls \ {c}
    /\ UNCHANGED <<feed, now, alerts, events, changes>>

Receive == \E r \in feed : LET e == Normalize(r) IN Process(e) \/ Suspend(e)

(* PATCH /alerts/{id}/status.                                              *)
WithStatus(a, st) == [a EXCEPT !.st = st, !.reopened = IF st = "active" THEN TRUE ELSE @]
UpdateAlertStatus ==
    /\ changes < MaxChanges
    /\ changes' = changes + 1
    /\ \E i \in DOMAIN alerts \ Locked, st \in {"active", "closed"} :
         /\ alerts[i].st # st
         /\ alerts' = [alerts EXCEPT ![i] = WithStatus(@, st)]
    /\ UNCHANGED <<feed, now, calls, events>>

Tick ==
    /\ now < MaxNow
    /\ now' = now + 1
    /\ UNCHANGED <<feed, alerts, calls, events, changes>>

-----------------------------------------------------------------------------
Evidence(a) == {a.log[k] : k \in DOMAIN a.log}

(* DNS, DHCP, NTP, broadcast, multicast and infrastructure records in the  *)
(* firewall's log never raise an alert, so never reach an incident or an   *)
(* action, whatever their number: unless an address is a known indicator,  *)
(* or the record states a severity itself, which the firewall's never do.  *)
NoiseStaysLow ==
    \A i \in DOMAIN alerts :
        (\A l \in Evidence(alerts[i]) :
            /\ IsFirewall(l.event) /\ l.event.rated = 0 /\ Enrich(l.event).ioc_matches = {}
            /\ \/ ServiceTraffic(l.event) \/ SourceType(l.event) \in InfrastructureTypes
               \/ {IPContext(l.event.src), IPContext(l.event.dst)} \cap NonEndpoint # {})
        => alerts[i].sev = Low /\ alerts[i].incident = 0 /\ alerts[i].actions = {}

(* Every host that sent an event rated critical is proposed for isolation, *)
(* and every public source of a high event for a block: the check against  *)
(* duplicates swallows no target that correlation put into the same alert. *)
EveryTargetIsAsked ==
    \A i \in DOMAIN alerts : \A l \in Evidence(alerts[i]) :
        /\ l.rank = Critical /\ l.event.host # "none"
             => <<"isolate_host", l.event.host>> \in alerts[i].actions
        /\ l.rank >= High /\ IsSafeBlockTarget(l.event.src)
             => <<"block_ip", l.event.src>> \in alerts[i].actions

(* Two active alerts of one fingerprint, seen no more than a window apart, *)
(* split their evidence.  They exist only where an analyst reopened one,   *)
(* or where one was opened while an event of the other was in process().   *)
TwinsNeedCause ==
    \A i, j \in DOMAIN alerts :
        /\ i < j /\ alerts[i].fp = alerts[j].fp
        /\ alerts[i].st = "active" /\ alerts[j].st = "active"
        /\ LastSeen(alerts[j]) - LastSeen(alerts[i]) <= Window
        => \E k \in {i, j} : alerts[k].reopened \/ alerts[k].overlapped

(* What src/README.md promises of web flows: a high alert has its number   *)
(* of flows within one correlation window.                                 *)
FloodIsInWindow ==
    \A i \in DOMAIN alerts :
        alerts[i].sev >= High /\ alerts[i].fp[2] = <<"network", "flow">>
        => \E k \in DOMAIN alerts[i].log :
             /\ k >= Vol.flow
             /\ alerts[i].log[k].at - alerts[i].log[k - Vol.flow + 1].at <= Window

=============================================================================
