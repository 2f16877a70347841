----------------------------- MODULE LiveTrial -----------------------------
(***************************************************************************)
(* scripts/measure_live_http_trial.py and scripts/summarize_live_trials.py *)
(* beside a running system: an operator declares what is expected, sends   *)
(* marked requests from the lab's attack host, and the script looks for    *)
(* the marker in the alerts and grades what it finds.  Other traffic and   *)
(* the analysts go on meanwhile.                                           *)
(***************************************************************************)
EXTENDS AlertWindow, FiniteSets

CONSTANTS
    Plans,          \* [feed -> the sequences of trials, "attack" or "benign", tried with it]
    Markers,        \* the marker of each trial
    Request,        \* the Apache record of a trial's request, without its marker
    Answers,        \* the statuses the web server may answer it with
    Burst           \* requests of an attack trial

(* The markers are random and different, and occur in no other record.     *)
ASSUME TrialAssumption ==
    /\ Burst \in Nat \ {0}
    /\ Markers \in Seq({Markers[k] : k \in DOMAIN Markers})
    /\ \A j, k \in DOMAIN Markers : Markers[j] = Markers[k] => j = k
    /\ Request = [field \in DOMAIN NoRaw |-> Request[field]]
    /\ \A f \in Feeds :
         /\ \A r \in f, k \in DOMAIN Markers : r.mark # Markers[k]
         /\ \A p \in Plans[f] : p \in Seq({"attack", "benign"}) /\ Len(p) <= Len(Markers)

(* A trial's request matches no known attack path and names no indicator   *)
(* and no critical asset; a burst (5) is below the volumes from which web  *)
(* requests are high (20 and 100).                                         *)
ASSUME BurstAssumption ==
    /\ "apache" \in Request.looks /\ "json" \notin Request.looks
    /\ "cicids" \notin Request.words /\ "alert" \notin Request.keys
    /\ Request.means # "attack_path"
    /\ {Request.src, Request.dst} \cap IOCs = {} /\ AssetKey(Request) \notin CriticalAssets
    /\ Burst < Vol.failed_high /\ Burst < Vol.access

VARIABLES
    plan,           \* the trials still to be made, the current one first
    step,           \* where the script is: ready, polling, settling, or what
                    \* it reads next
    coming,         \* requests of each trial that A11 has not stored yet
    observed,       \* the alert found
    read,           \* what has been read of it since
    lost,           \* trials that ended without a record
    results         \* the records appended to live_trials.jsonl

trial == <<plan, step, coming, observed, read, lost, results>>
vars  == <<window, trial>>

(* alone: the alert holds nothing but requests of this trial.              *)
Unread == [severity |-> 0, alone |-> FALSE, incident |-> 0, actions |-> {}]

Current == Len(results) + lost + 1
Marker  == Markers[Current]
Ours(l) == l.event.mark = Marker

Init ==
    /\ WindowInit
    /\ plan \in Plans[feed]
    /\ step = "ready"
    /\ coming = [k \in DOMAIN Markers |-> 0]
    /\ observed = 0 /\ read = Unread /\ lost = 0
    /\ results = <<>>

-----------------------------------------------------------------------------
(* The baselines are read and the command for the attack host is printed:  *)
(* one request if benign is expected, otherwise a burst of requests that   *)
(* match no known attack path.                                             *)
Start ==
    /\ step = "ready" /\ plan # <<>>
    /\ step' = "polling"
    /\ coming' = [coming EXCEPT ![Current] = IF Head(plan) = "benign" THEN 1 ELSE Burst]
    /\ UNCHANGED <<window, plan, observed, read, lost, results>>

(* A request has been answered, logged and shipped, perhaps after the      *)
(* trial is over, perhaps never.                                           *)
RequestOf(k, status) == [Request EXCEPT !.status = status, !.mark = Markers[k]]
InHand(k) == {c \in calls : c.event.mark = Markers[k]}

Arrive ==
    /\ \E k \in DOMAIN Markers, status \in Answers :
         LET e == Normalize(RequestOf(k, status))
         IN  /\ Cardinality(InHand(k)) \in 0..(coming[k] - 1)
             /\ \/ Process(e) /\ coming' = [coming EXCEPT ![k] = @ - 1]
                \/ Suspend(e) /\ UNCHANGED coming
    /\ UNCHANGED <<plan, step, observed, read, lost, results>>

(* A call of process(), for whomever, goes on to its end.                  *)
Return ==
    /\ \E c \in calls :
         /\ Resume(c)
         /\ \A k \in DOMAIN Markers : c \in InHand(k) => coming[k] > 0
         /\ coming' = [k \in DOMAIN Markers |-> coming[k] - IF c \in InHand(k) THEN 1 ELSE 0]
    /\ UNCHANGED <<plan, step, observed, read, lost, results>>

(* find_alert: the marker is in the raw and normalized event of an alert,  *)
(* which are those of its last event, or in the stored triage.             *)
Shows(a) == a.described = Marker \/ Ours(a.log[Len(a.log)])
FindAlert == {i \in DOMAIN alerts : Shows(alerts[i])}

(* A GET of the alerts, latest first, that finds the marker.               *)
Poll ==
    /\ step = "polling" /\ FindAlert # {}
    /\ step' = "settling" /\ observed' \in Newest(FindAlert)
    /\ UNCHANGED <<window, plan, coming, read, lost, results>>

(* The trial is over.                                                      *)
Ends ==
    /\ plan' = Tail(plan)
    /\ step' = "ready" /\ observed' = 0 /\ read' = Unread
    /\ UNCHANGED <<window, coming>>

Record(outcome, passed) ==
    /\ results' = Append(results, [expected |-> Head(plan), outcome |-> outcome,
                                   passed |-> passed, alone |-> read.alone])
    /\ Ends
    /\ UNCHANGED lost

(* The timeout passes.                                                     *)
NoEvidence == step = "polling" /\ Record("NO_EVIDENCE", FALSE)

(* After the settle period the alert is read, then the incidents, the      *)
(* actions and the audit log, each with a request of its own ...           *)
Reads(from, to) ==
    /\ step = from /\ step' = to
    /\ UNCHANGED <<window, plan, coming, observed, lost, results>>

ReadAlert ==
    /\ Reads("settling", "incidents")
    /\ read' = [read EXCEPT !.severity = alerts[observed].sev,
                            !.alone = \A l \in Evidence(alerts[observed]) : Ours(l)]

ReadIncidents ==
    /\ Reads("incidents", "actions")
    /\ read' = [read EXCEPT !.incident = alerts[observed].incident]

ReadActions ==
    /\ Reads("actions", "audits")
    /\ read' = [read EXCEPT !.actions = alerts[observed].actions]

(* ... of which none is tried twice: if it fails, the script ends without  *)
(* a record.                                                               *)
RequestFails ==
    /\ step \in {"settling", "incidents", "actions", "audits"}
    /\ Ends
    /\ lost' = lost + 1
    /\ UNCHANGED results

Outcome(expected, positive) ==
    IF expected = "attack" THEN (IF positive THEN "TP" ELSE "FN")
    ELSE (IF positive THEN "FP" ELSE "TN")

(* Mutant: an alert without incident and actions does not pass, whatever   *)
(* was expected.                                                           *)
PolicyNeedsAction(outcome, incident, actions) == incident # 0 /\ actions # {}
NotificationPolicy(outcome, incident, actions) ==
    IF outcome = "TP" THEN incident # 0 /\ \E p \in actions : p[1] = "notify_soc"
    ELSE incident = 0 /\ actions = {}

Grade ==
    /\ step = "audits"
    /\ LET outcome == Outcome(Head(plan), read.severity >= High)
       IN  Record(outcome, /\ outcome \in {"TP", "TN"}
                           /\ NotificationPolicy(outcome, read.incident, read.actions))

TrialStep ==
    Start \/ Poll \/ NoEvidence \/ ReadAlert \/ ReadIncidents \/ ReadActions \/ Grade \/ RequestFails

Others == Receive \/ (\E c \in calls : Abandon(c)) \/ UpdateAlertStatus \/ Tick

Next == TrialStep \/ Arrive \/ Return \/ (Others /\ UNCHANGED trial)

Spec == Init /\ [][Next]_vars

-----------------------------------------------------------------------------
(* summarize: trials without evidence count nowhere, and a rate without a  *)
(* denominator is null.                                                    *)
Counted(outcomes) == Cardinality({k \in DOMAIN results : results[k].outcome \in outcomes})
SafeRate(part, whole) == IF whole = 0 THEN <<>> ELSE <<part, whole>>
Summary ==
    [trial_count |-> Counted({"TP", "TN", "FP", "FN"}),
     tpr |-> SafeRate(Counted({"TP"}), Counted({"TP", "FN"})),
     fpr |-> SafeRate(Counted({"FP"}), Counted({"TN", "FP"}))]

-----------------------------------------------------------------------------
(* Type invariant of the alerts and of the script.                         *)
TypeOK ==
    /\ \A i \in DOMAIN alerts :
         /\ alerts[i].st \in {"active", "closed"} /\ alerts[i].sev \in Low..Critical
         /\ alerts[i].triage = alerts[i].sev /\ alerts[i].incident \in {0, High, Critical}
         /\ Len(alerts[i].log) \in 1..MaxEvents
    /\ step \in {"ready", "polling", "settling", "incidents", "actions", "audits"}
    /\ observed \in 0..Len(alerts) /\ read.severity \in 0..Critical
    /\ step \in {"ready", "polling"} <=> observed = 0

(* Alert, incidents and actions are read one after the other, while events *)
(* go on: still, a true positive always passes, and a true negative fails  *)
(* only when its alert, read as low, has become high since.                *)
GradesAreSound ==
    [][(results' # results /\ observed # 0) =>
        LET r == results'[Len(results')]
        IN  /\ r.outcome = "TP" => r.passed
            /\ r.outcome = "TN" /\ ~r.passed => alerts[observed].sev >= High]_vars

(* The requests of one trial are too few to make an alert high: a positive *)
(* result, true or false, always rests on events of others or of earlier   *)
(* trials that the same alert had collected.                               *)
PositiveNeedsHistory ==
    \A k \in DOMAIN results : results[k].outcome \in {"TP", "FP"} => ~results[k].alone

=============================================================================
