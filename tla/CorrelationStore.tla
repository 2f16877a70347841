-------------------------- MODULE CorrelationStore --------------------------
(***************************************************************************)
(* What correlation promises to those who send events and read alerts: an  *)
(* event joins, in one step, the alert of its fingerprint that was seen    *)
(* last, if that is active and within the window; only without such an     *)
(* alert it opens one.  AlertPipeline reaches this in several steps.       *)
(***************************************************************************)
EXTENDS Integers

CONSTANTS
    Ids,            \* names of alerts
    Fingerprints,   \* correlation fingerprints
    Severities,     \* ranks of severity
    High,           \* the rank from which an alert has an incident
    Window          \* correlation_window_seconds

VARIABLES
    now,            \* the clock
    alert           \* the alerts, with the number of their incidents

vars == <<now, alert>>

Absent == [st |-> "absent", fp |-> "none", sev |-> 0, count |-> 0, last |-> 0, incidents |-> 0]

Init ==
    /\ now = 0
    /\ alert = [a \in Ids |-> Absent]

(* Alert a is the one, or one of those, an event would belong to.          *)
Covers(a, fp, at) ==
    alert[a].st = "active" /\ alert[a].fp = fp /\ alert[a].last + Window >= at

IncidentsOf(s) == IF s >= High THEN 1 ELSE 0

Open(a, fp, s, at) ==
    /\ alert[a].st = "absent"
    /\ \A b \in Ids : ~Covers(b, fp, at)
    /\ alert' = [alert EXCEPT ![a] =
         [st |-> "active", fp |-> fp, sev |-> s, count |-> 1, last |-> at,
          incidents |-> IncidentsOf(s)]]
    /\ UNCHANGED now

Add(a, fp, s, at) ==
    /\ Covers(a, fp, at)
    /\ \A b \in Ids : Covers(b, fp, at) => alert[b].last <= alert[a].last
    /\ alert[a].last <= at
    /\ LET sev == IF s > alert[a].sev THEN s ELSE alert[a].sev
       IN  alert' = [alert EXCEPT ![a] =
             [st |-> "active", fp |-> fp, sev |-> sev, count |-> alert[a].count + 1, last |-> at,
              incidents |-> IncidentsOf(sev)]]
    /\ UNCHANGED now

SetStatus(a, st) ==
    /\ alert[a].st # "absent"
    /\ alert' = [alert EXCEPT ![a].st = st]
    /\ UNCHANGED now

Tick == now' = now + 1 /\ UNCHANGED alert

Next ==
    \/ \E a \in Ids, fp \in Fingerprints, s \in Severities, at \in 0..now :
         Open(a, fp, s, at) \/ Add(a, fp, s, at)
    \/ \E a \in Ids, st \in {"active", "closed"} : SetStatus(a, st)
    \/ Tick

Spec == Init /\ [][Next]_vars

=============================================================================
