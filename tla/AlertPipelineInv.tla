-------------------------- MODULE AlertPipelineInv --------------------------
(***************************************************************************)
(* The inductive invariant behind the safety properties of AlertPipeline.  *)
(***************************************************************************)
EXTENDS AlertPipeline

(* What keeps two tasks from working on one alert: Postgres row locks, or  *)
(* a loop that is only given up while SQLite's write lock is held.         *)
Exclusive == Backend = "postgres" \/ ~LLMEnabled

InFlight(t) == pc[t] \in {"analyze", "notify", "commit"}
Flushed(t)  == pc[t] \in {"notify", "commit"}

(* A task between two suspensions has the loop.                            *)
LoopInv ==
    \A t \in Tasks : /\ pc[t] \in {"select", "commit"} => loop = t
                     /\ pc[t] = "analyze" /\ ~LLMEnabled => loop = t
                     /\ pc[t] = "notify" => NotifyWebhook

(* An event number names at most one event, and no alert before its own.   *)
NumberInv ==
    /\ \A t \in Tasks : pc[t] # "idle" =>
         /\ ev[t].n \in 1..received
         /\ ev[t].fp \in Fingerprints
         /\ alerts[ev[t].n].st = "absent"
    /\ \A t, u \in Tasks : pc[t] # "idle" /\ pc[u] # "idle" /\ t # u => ev[t].n # ev[u].n
    /\ \A a \in AlertIds : alerts[a].st # "absent" => a <= received

(* Nothing is stored about an alert that does not exist.                   *)
AbsentInv ==
    \A a \in AlertIds : alerts[a].st = "absent" =>
        /\ alerts[a] = NoRow
        /\ evidence[a] = [n |-> 0, peak |-> 0]
        /\ incidents[a].n = 0
        /\ notified[a] = 0

(* Before the SELECT a task knows no row; after it, `existing` was active  *)
(* and is, on Postgres, locked by this task alone.                         *)
SelectionInv ==
    /\ \A t \in Tasks : ~InFlight(t) => sel[t] = NoAlert /\ held[t] = {}
    /\ \A t \in Tasks : sel[t] = NoAlert => snap[t] = NoRow
    /\ \A t \in Tasks : sel[t] # NoAlert => snap[t].st = "active"
    /\ IF Backend = "postgres"
       THEN /\ \A t \in Tasks : sel[t] # NoAlert => sel[t] \in held[t]
            /\ \A t, u \in Tasks : t # u => held[t] \cap held[u] = {}
       ELSE \A t \in Tasks : held[t] = {}

(* A task has selected a row that exists, and has loaded nothing that the  *)
(* evidence kept for it does not bear out.                                 *)
SeenInv ==
    \A t \in Tasks : sel[t] # NoAlert =>
        /\ alerts[sel[t]].st # "absent"
        /\ snap[t].count <= evidence[sel[t]].n
        /\ snap[t].sev <= evidence[sel[t]].peak /\ snap[t].triage <= evidence[sel[t]].peak

(* What a task has decided to add is still missing from the database.      *)
WorkInv ==
    \A t \in Tasks : Flushed(t) =>
        /\ work[t].opens = OpensIncident(t)
        /\ pc[t] = "notify" => work[t].notice # "skip"
        /\ work[t].notice # "skip" => notified[Target(t)] = 0

(* The status change in hand is of an alert that exists.                   *)
RequestInv ==
    loop = "analyst" => /\ request.alert \in AlertIds
                        /\ alerts[request.alert].st # "absent"

(* In every configuration: an alert never claims more events, or a higher  *)
(* severity, than its evidence has; what may be lost makes it claim less.  *)
NeverOverstated ==
    \A a \in AlertIds : /\ alerts[a].count <= evidence[a].n
                        /\ alerts[a].sev <= evidence[a].peak
                        /\ alerts[a].triage <= evidence[a].peak

(* In every configuration: no alert has two incidents, and a high one has  *)
(* its incident, although its priority may be another.                     *)
HighHasIncident ==
    \A a \in AlertIds : /\ incidents[a].n <= 1
                        /\ alerts[a].sev >= High => incidents[a].n = 1

(* What holds for every backend, with and without suspensions.             *)
AnyInv ==
    /\ TypeOK /\ LoopInv /\ NumberInv /\ AbsentInv /\ SelectionInv /\ SeenInv
    /\ WorkInv /\ RequestInv
    /\ NeverOverstated /\ HighHasIncident /\ NotifiedOnce

(* The attributes a task loaded are still those of the committed row.      *)
SnapshotInv ==
    \A t \in Tasks : sel[t] # NoAlert => alerts[sel[t]] = snap[t]

(* What the rows of one alert say of each other where no task loses what   *)
(* another has written.                                                    *)
RowsInv ==
    /\ CountMatchesEvidence
    /\ SeverityMatchesEvidence
    /\ TriageExplainsSeverity
    /\ HighHasOneIncident

(* All of it: inductive whenever Exclusive holds.                          *)
IInv == AnyInv /\ SnapshotInv /\ RowsInv

(* No row lock is held while another handler runs.                         *)
Unlocked == Backend = "sqlite" \/ (~LLMEnabled /\ ~NotifyWebhook)

(* No statement waits, on the only event loop, for a lock whose owner      *)
(* needs that loop to go on.                                               *)
LoopNeverWaits ==
    /\ \A t \in Tasks : pc[t] = "select" => Found(t) \cap LockedByOthers(t) = {}
    /\ loop = "analyst" => request.alert \notin LockedByOthers("analyst")

(* No call is suspended between its SELECT and its COMMIT without holding  *)
(* the write lock that keeps every other writer out.                       *)
Serial == ~LLMEnabled /\ (Backend = "sqlite" \/ ~NotifyWebhook)

(* Under Serial, a task at work finds what it saw still true: no alert has *)
(* been seen after its event, none has come to match that did not, and the *)
(* selected one is still the newest that matches.                          *)
SightInv ==
    /\ \A a \in AlertIds : alerts[a].last <= now
    /\ \A t \in Tasks : pc[t] # "idle" =>
         /\ ev[t].at <= now
         /\ pc[t] = "notify" => NotifyWebhook
         /\ \A a \in AlertIds : alerts[a].last <= ev[t].at
         /\ InFlight(t) => IF sel[t] = NoAlert THEN Found(t) = {} ELSE sel[t] \in Newest(Found(t))

-----------------------------------------------------------------------------
(* The committed rows, read as an abstract store of alerts.                *)
Stored(a) ==
    [st |-> alerts[a].st, fp |-> alerts[a].fp, sev |-> alerts[a].sev,
     count |-> alerts[a].count, last |-> alerts[a].last, incidents |-> incidents[a].n]
StoredAlerts == [a \in AlertIds |-> Stored(a)]

Store == INSTANCE CorrelationStore
    WITH Ids <- AlertIds, Severities <- Severity, alert <- StoredAlerts

(* The select, triage, notify and commit steps of process(), with all that *)
(* may fail or come between them, implement the one-step store: seen from  *)
(* outside, an event joins the right alert at one moment, or not at all.   *)
ImplementsStore == Store!Spec

=============================================================================
