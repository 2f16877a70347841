--------------------------- MODULE AlertPipeline ---------------------------
(***************************************************************************)
(* SOCPipeline.process (src/app/pipeline.py) and the analyst's status      *)
(* update (src/app/main.py), run by one asyncio event loop against one     *)
(* SQL database.                                                           *)
(*                                                                         *)
(* A coroutine keeps the loop from one real suspension to the next; the    *)
(* database driver is synchronous, so a statement that waits for a lock    *)
(* keeps the loop too.  Only two awaits of process() suspend: the LLM      *)
(* request and the notification webhook, each only when it is configured.  *)
(*                                                                         *)
(* Of the response actions only notify_soc is here, which process() itself *)
(* carries out.  Those that need an approval are added after the last      *)
(* await and by the same COMMIT: AlertWindow has which, ActionDecision     *)
(* what becomes of them.                                                   *)
(***************************************************************************)
EXTENDS Integers, FiniteSets

CONSTANTS
    Tasks,          \* invocations of process() that can be in flight at once
    Fingerprints,   \* correlation fingerprints
    Backend,        \* "postgres" (docker-compose) or "sqlite" (default URL)
    LLMEnabled,     \* OLLAMA_ENABLED
    NotifyWebhook,  \* NOTIFICATION_WEBHOOK_URL is set
    Incoming,       \* severities triage gives to the events of an instance
    Window,         \* correlation_window_seconds
    MaxEvents,      \* bound: events handed to process()
    MaxNow,         \* bound: clock
    MaxCrashes      \* bound: process crashes

Severity == 1..4    \* low, medium, high, critical
High == 3

ASSUME ConstantsAssumption ==
    /\ Backend \in {"postgres", "sqlite"}
    /\ LLMEnabled \in BOOLEAN
    /\ NotifyWebhook \in BOOLEAN
    /\ Incoming \subseteq Severity
    /\ Window \in Nat /\ MaxEvents \in Nat /\ MaxNow \in Nat /\ MaxCrashes \in Nat
    /\ "free" \notin Tasks /\ "analyst" \notin Tasks
    /\ "none" \notin Fingerprints

(* An alert is named by the number of the event that opened it, which      *)
(* stands for the uuid of its primary key.                                 *)
AlertIds == 1..MaxEvents
NoAlert  == 0

Row == [st: {"absent", "active", "closed"}, fp: Fingerprints \cup {"none"},
        sev: 0..4, triage: 0..4, count: Nat, last: Nat]
NoRow == [st |-> "absent", fp |-> "none", sev |-> 0, triage |-> 0,
          count |-> 0, last |-> 0]

VARIABLES
    now,        \* the clock read by datetime.now
    alerts,     \* committed rows of the table alerts
    evidence,   \* committed security_events rows per alert: how many, and the
                \* highest severity triage gave to one of them
    incidents,  \* committed incidents per alert: how many, and the priority
    notified,   \* committed notify_soc rows per alert that are executed
    received,   \* events handed to process() so far
    crashes,    \* crashes so far
    loop,       \* what runs on the event loop: a task, "analyst" or "free"
    pc,         \* where each invocation of process() is
    ev,         \* its event: number, fingerprint, severity, arrival time
    sel, snap,  \* `existing`, and its attributes as the SELECT loaded them
    held,       \* the rows its SELECT ... FOR UPDATE has locked
    work,       \* what it has flushed: a new incident, the notification row
    request     \* the status change the analyst's handler is committing

db   == <<alerts, evidence, incidents, notified>>
task == <<pc, ev, sel, snap, held, work>>
vars == <<now, db, received, crashes, loop, task, request>>

NoEvent   == [n |-> 0, fp |-> "none", sev |-> 1, at |-> 0]
NoWork    == [opens |-> FALSE, notice |-> "skip"]
NoRequest == [alert |-> NoAlert, st |-> "closed"]

Init ==
    /\ now = 0
    /\ alerts = [a \in AlertIds |-> NoRow]
    /\ evidence = [a \in AlertIds |-> [n |-> 0, peak |-> 0]]
    /\ incidents = [a \in AlertIds |-> [n |-> 0, priority |-> 0]]
    /\ notified = [a \in AlertIds |-> 0]
    /\ received = 0
    /\ crashes = 0
    /\ loop = "free"
    /\ pc = [t \in Tasks |-> "idle"]
    /\ ev = [t \in Tasks |-> NoEvent]
    /\ sel = [t \in Tasks |-> NoAlert]
    /\ snap = [t \in Tasks |-> NoRow]
    /\ held = [t \in Tasks |-> {}]
    /\ work = [t \in Tasks |-> NoWork]
    /\ request = NoRequest

-----------------------------------------------------------------------------
(* The two databases *)

(* Postgres: the rows that tasks other than h hold until they end.         *)
(* Mutant: the SELECT takes no row locks.                                  *)
NothingLocked(h) == {}
LockedByOthers(h) == UNION {held[u] : u \in Tasks \ {h}}

(* SQLite: FOR UPDATE is ignored, but a transaction that has flushed owns  *)
(* the write lock.  Only a task waiting for the webhook keeps it while     *)
(* another handler runs; that handler's own flush then fails.  Mutant: no  *)
(* such lock.                                                              *)
NoWriters == {}
Writers == {u \in Tasks : Backend = "sqlite" /\ pc[u] = "notify"}
WriteLocked(t) == Writers \ {t} # {}

(* The loop is free for, or already running, task t.                       *)
OnLoop(t) == loop \in {"free", t}

(* The session is closed: the transaction is over and its locks are gone.  *)
Finish(t) ==
    /\ pc' = [pc EXCEPT ![t] = "idle"]
    /\ ev' = [ev EXCEPT ![t] = NoEvent]
    /\ sel' = [sel EXCEPT ![t] = NoAlert]
    /\ snap' = [snap EXCEPT ![t] = NoRow]
    /\ held' = [held EXCEPT ![t] = {}]
    /\ work' = [work EXCEPT ![t] = NoWork]
    /\ loop' = "free"

-----------------------------------------------------------------------------
(* process(): select, triage, LLM, correlate, notify, commit *)

(* An event reaches process(): it is normalised and `now` is read, against *)
(* which the window will be measured.                                      *)
Receive(t) ==
    /\ loop = "free" /\ pc[t] = "idle" /\ received < MaxEvents
    /\ \E fp \in Fingerprints, s \in Incoming :
         ev' = [ev EXCEPT ![t] = [n |-> received + 1, fp |-> fp, sev |-> s, at |-> now]]
    /\ received' = received + 1
    /\ loop' = t
    /\ pc' = [pc EXCEPT ![t] = "select"]
    /\ UNCHANGED <<now, db, crashes, sel, snap, held, work, request>>

(* The rows of the correlation query.  Mutant: an alert last seen exactly  *)
(* at the cutoff does not match.                                           *)
MatchingStrictCutoff(fp, at) ==
    {a \in AlertIds : /\ alerts[a].st = "active" /\ alerts[a].fp = fp
                      /\ alerts[a].last + Window > at}
Matching(fp, at) ==
    {a \in AlertIds : /\ alerts[a].st = "active" /\ alerts[a].fp = fp
                      /\ alerts[a].last + Window >= at}
Found(t) == Matching(ev[t].fp, ev[t].at)
Newest(S) == {a \in S : \A b \in S : alerts[b].last <= alerts[a].last}

(* SELECT ... ORDER BY last_seen DESC FOR UPDATE.  On Postgres it waits,   *)
(* on the loop, until no other transaction holds a matching row.  Rules    *)
(* and ML then triage the event, and the LLM is asked if it is enabled.    *)
Select(t) ==
    /\ pc[t] = "select" /\ loop = t
    /\ Found(t) \cap LockedByOthers(t) = {}
    /\ \/ /\ Found(t) = {}
          /\ UNCHANGED <<sel, snap>>
       \/ \E a \in Newest(Found(t)) :
            /\ sel' = [sel EXCEPT ![t] = a]
            /\ snap' = [snap EXCEPT ![t] = alerts[a]]
    /\ held' = [held EXCEPT ![t] = IF Backend = "postgres" THEN Found(t) ELSE {}]
    /\ pc' = [pc EXCEPT ![t] = "analyze"]
    /\ loop' = IF LLMEnabled THEN "free" ELSE t
    /\ UNCHANGED <<now, db, received, crashes, ev, work, request>>

(* The alert object as process() leaves it.  Without an alert to correlate *)
(* with, snap is NoRow, whose zeros make these the values of a new alert.  *)
(* Severity never falls, and the triage of a weaker event does not replace *)
(* the stored one.  Mutant: the last event decides the severity.           *)
Target(t) == IF sel[t] = NoAlert THEN ev[t].n ELSE sel[t]

EventCount(t) == snap[t].count + 1

LastSeverity(t) == ev[t].sev
EffectiveSeverity(t) == IF ev[t].sev > snap[t].sev THEN ev[t].sev ELSE snap[t].sev

ReplacesTriage(t) == ev[t].sev >= snap[t].sev
TriageInForce(t) == IF ReplacesTriage(t) THEN ev[t].sev ELSE snap[t].triage

Merged(t) ==
    [st |-> IF sel[t] = NoAlert THEN "active" ELSE snap[t].st, fp |-> ev[t].fp,
     sev |-> EffectiveSeverity(t), triage |-> TriageInForce(t),
     count |-> EventCount(t), last |-> ev[t].at]

(* _ensure_incident: a high alert without an incident gets one.  Mutant:   *)
(* only a new alert does.                                                  *)
OpensForNewAlert(t) == sel[t] = NoAlert /\ EffectiveSeverity(t) >= High
OpensIncident(t) == EffectiveSeverity(t) >= High /\ incidents[Target(t)].n = 0

(* _ensure_actions: the triage in force calls for a notification, and none *)
(* has been recorded as executed.                                          *)
Notifies(t) == TriageInForce(t) >= High /\ notified[Target(t)] = 0

MustWait(t) == Notifies(t) /\ NotifyWebhook

(* The rest of process() up to the webhook or, without one, up to COMMIT.  *)
Apply(t) ==
    /\ pc[t] = "analyze" /\ OnLoop(t)
    /\ MustWait(t) => ~WriteLocked(t)
    /\ work' = [work EXCEPT ![t] =
         [opens |-> OpensIncident(t),
          notice |-> IF Notifies(t) THEN "executed" ELSE "skip"]]
    /\ pc' = [pc EXCEPT ![t] = IF MustWait(t) THEN "notify" ELSE "commit"]
    /\ loop' = IF MustWait(t) THEN "free" ELSE t
    /\ UNCHANGED <<now, db, received, crashes, ev, sel, snap, held, request>>

(* The webhook answers, or times out and the row is recorded as failed.    *)
Notified(t) ==
    /\ pc[t] = "notify" /\ loop = "free"
    /\ \E outcome \in {"executed", "failed"} :
         work' = [work EXCEPT ![t].notice = outcome]
    /\ pc' = [pc EXCEPT ![t] = "commit"]
    /\ loop' = t
    /\ UNCHANGED <<now, db, received, crashes, ev, sel, snap, held, request>>

(* The row after COMMIT.  UPDATE names the columns that differ from what   *)
(* the SELECT loaded, so the other columns keep what others wrote.         *)
Written(t) ==
    IF sel[t] = NoAlert THEN Merged(t)
    ELSE [Merged(t) EXCEPT
            !.st = alerts[sel[t]].st,
            !.sev = IF @ = snap[t].sev THEN alerts[sel[t]].sev ELSE @,
            !.triage = IF ReplacesTriage(t) THEN @ ELSE alerts[sel[t]].triage]

(* A failed notification is recorded too, but does not keep the alert's    *)
(* next event from proposing it again.                                     *)
Commit(t) ==
    /\ pc[t] = "commit" /\ loop = t /\ ~WriteLocked(t)
    /\ alerts' = [alerts EXCEPT ![Target(t)] = Written(t)]
    /\ evidence' = [evidence EXCEPT ![Target(t)] =
         [n |-> @.n + 1, peak |-> IF ev[t].sev > @.peak THEN ev[t].sev ELSE @.peak]]
    /\ incidents' = [incidents EXCEPT ![Target(t)] =
         IF EffectiveSeverity(t) >= High
         THEN [n |-> IF work[t].opens THEN @.n + 1 ELSE @.n, priority |-> EffectiveSeverity(t)]
         ELSE @]
    /\ notified' = [notified EXCEPT ![Target(t)] = @ + IF work[t].notice = "executed" THEN 1 ELSE 0]
    /\ Finish(t)
    /\ UNCHANGED <<now, received, crashes, request>>

(* process() raises and the session rolls back: the model answered with    *)
(* JSON of the wrong shape, or SQLite reports that the database is locked. *)
(* Mutant: no busy timeout, the statement waits.                           *)
LLMFails(t) == pc[t] = "analyze" /\ LLMEnabled /\ loop = "free"
Fails(t) ==
    \/ LLMFails(t)
    \/ pc[t] = "analyze" /\ OnLoop(t) /\ MustWait(t) /\ WriteLocked(t)
    \/ pc[t] = "commit" /\ loop = t /\ WriteLocked(t)

Abort(t) ==
    /\ Fails(t)
    /\ Finish(t)
    /\ UNCHANGED <<now, db, received, crashes, request>>

-----------------------------------------------------------------------------
(* The analysts *)

(* PATCH /alerts/{id}/status loads the alert and sets its status: open,    *)
(* investigating and contained are active, closed and false_positive are   *)
(* closed ...                                                              *)
RequestStatus ==
    /\ loop = "free"
    /\ \E a \in AlertIds, st \in {"active", "closed"} :
         /\ alerts[a].st # "absent"
         /\ request' = [alert |-> a, st |-> st]
    /\ loop' = "analyst"
    /\ UNCHANGED <<now, db, received, crashes, task>>

(* ... and commits, waiting on the loop for the row's lock.                *)
CommitStatus ==
    /\ loop = "analyst"
    /\ request.alert \notin LockedByOthers("analyst")
    /\ Writers = {}
    /\ alerts' = [alerts EXCEPT ![request.alert].st = request.st]
    /\ request' = NoRequest
    /\ loop' = "free"
    /\ UNCHANGED <<now, evidence, incidents, notified, received, crashes, task>>

(* On SQLite the write lock is not to be had: the request fails.  Mutant:  *)
(* it waits.                                                               *)
WaitsForWriter == FALSE
GivesUp == Writers # {}

StatusBusy ==
    /\ loop = "analyst" /\ GivesUp
    /\ request' = NoRequest
    /\ loop' = "free"
    /\ UNCHANGED <<now, db, received, crashes, task>>

-----------------------------------------------------------------------------
Tick ==
    /\ now < MaxNow
    /\ now' = now + 1
    /\ UNCHANGED <<db, received, crashes, loop, task, request>>

(* The process dies and is started again: only committed rows survive.     *)
Crash ==
    /\ crashes < MaxCrashes
    /\ loop # "free" \/ \E t \in Tasks : pc[t] # "idle"
    /\ crashes' = crashes + 1
    /\ loop' = "free"
    /\ pc' = [t \in Tasks |-> "idle"]
    /\ ev' = [t \in Tasks |-> NoEvent]
    /\ sel' = [t \in Tasks |-> NoAlert]
    /\ snap' = [t \in Tasks |-> NoRow]
    /\ held' = [t \in Tasks |-> {}]
    /\ work' = [t \in Tasks |-> NoWork]
    /\ request' = NoRequest
    /\ UNCHANGED <<now, db, received>>

(* The sources have nothing more to send within the bounds.                *)
Quiet ==
    /\ received = MaxEvents /\ loop = "free" /\ \A t \in Tasks : pc[t] = "idle"
    /\ UNCHANGED vars

Step(t) == Select(t) \/ Apply(t) \/ Notified(t) \/ Commit(t) \/ Abort(t)

Next ==
    \/ \E t \in Tasks : Receive(t) \/ Step(t)
    \/ RequestStatus \/ CommitStatus \/ StatusBusy
    \/ Tick \/ Crash \/ Quiet

Spec == Init /\ [][Next]_vars

(* asyncio resumes ready coroutines in FIFO order, so a task that is able  *)
(* to run again and again is run (strong fairness), and the HTTP client    *)
(* bounds both external calls by a timeout.  A handler that has the loop   *)
(* goes on unless a lock stops it.  Nothing is assumed about new events,   *)
(* the analysts, the clock or crashes.                                     *)
FairSpec == Spec /\ (\A t \in Tasks : SF_vars(Step(t)))
                 /\ WF_vars(CommitStatus \/ StatusBusy)

-----------------------------------------------------------------------------
(* Type invariant: the domains and ranges of the state; a task has an      *)
(* event exactly while process() runs.                                     *)
TypeOK ==
    /\ now \in Nat /\ received \in 0..MaxEvents /\ crashes \in Nat
    /\ alerts \in [AlertIds -> Row]
    /\ evidence \in [AlertIds -> [n: Nat, peak: 0..4]]
    /\ incidents \in [AlertIds -> [n: Nat, priority: 0..4]]
    /\ notified \in [AlertIds -> Nat]
    /\ loop \in Tasks \cup {"free", "analyst"}
    /\ pc \in [Tasks -> {"idle", "select", "analyze", "notify", "commit"}]
    /\ ev \in [Tasks -> [n: 0..MaxEvents, fp: Fingerprints \cup {"none"},
                         sev: Severity, at: Nat]]
    /\ sel \in [Tasks -> AlertIds \cup {NoAlert}]
    /\ snap \in [Tasks -> Row]
    /\ held \in [Tasks -> SUBSET AlertIds]
    /\ work \in [Tasks -> [opens: BOOLEAN, notice: {"skip", "executed", "failed"}]]
    /\ request \in [alert: AlertIds \cup {NoAlert}, st: {"active", "closed"}]

(* The event_count of an alert is the number of raw events kept as its     *)
(* evidence: no interleaving of process() calls loses an increment.        *)
CountMatchesEvidence ==
    \A a \in AlertIds : alerts[a].count = evidence[a].n

(* The severity of an alert is the highest that triage gave to an event    *)
(* in its evidence: never downgraded, never raised without an event.       *)
SeverityMatchesEvidence ==
    \A a \in AlertIds : alerts[a].sev = evidence[a].peak

(* The stored triage explains the severity column: both are of the event   *)
(* that set the severity, whatever arrived in between.                     *)
TriageExplainsSeverity ==
    \A a \in AlertIds : alerts[a].triage = alerts[a].sev

(* A high or critical alert has exactly one incident, with the alert's     *)
(* severity as its priority; a weaker alert has none.                      *)
HighHasOneIncident ==
    \A a \in AlertIds :
        IF alerts[a].sev >= High
        THEN incidents[a] = [n |-> 1, priority |-> alerts[a].sev]
        ELSE incidents[a].n = 0

(* An alert has at most one notification that succeeded, although the      *)
(* check for it comes before the wait for the webhook, and the row that    *)
(* the next check will find is committed after it.                         *)
NotifiedOnce == \A a \in AlertIds : notified[a] <= 1

(* An alert is opened only when, at that moment, no active alert of its    *)
(* fingerprint was seen within the correlation window.                     *)
OpensOnlyWhenNoneMatches ==
    [][\A a \in AlertIds :
         (alerts[a].st = "absent" /\ alerts'[a].st # "absent")
           => \A b \in AlertIds : alerts[b].st = "active" /\ alerts[b].fp = alerts'[a].fp
                => alerts[b].last < alerts'[a].last - Window]_vars

(* No event is added to an alert an analyst has closed.                    *)
ClosedStaysQuiet ==
    [][\A a \in AlertIds :
         evidence'[a].n # evidence[a].n => alerts[a].st # "closed"]_vars

(* The last_seen that correlation relies on never moves backwards.         *)
LastSeenNeverFalls ==
    [][\A a \in AlertIds : alerts'[a].last >= alerts[a].last]_vars

(* process() returns or raises: an event never stays in flight for ever.   *)
EventSettles == \A t \in Tasks : (pc[t] # "idle") ~> (pc[t] = "idle")

(* A status change an analyst has sent is answered.                        *)
AnalystAnswered == (loop = "analyst") ~> (loop # "analyst")

=============================================================================
