-------------------------- MODULE LiveTrial_proofs --------------------------
(***************************************************************************)
(* The alerts that traffic, analysts and live trials make, for every feed, *)
(* every volume, every window and every way the steps interleave.          *)
(***************************************************************************)
EXTENDS LiveTrial, SequenceTheorems, WellFoundedInduction, TLAPS

-----------------------------------------------------------------------------
(* Sequences whose elements are of no particular set *)

IsSeq(s) == s \in Seq({s[i] : i \in DOMAIN s})

LEMMA Domain == ASSUME NEW s, IsSeq(s) PROVE Len(s) \in Nat /\ DOMAIN s = 1..Len(s)
  BY LenProperties DEF IsSeq

LEMMA Nothing == IsSeq(<<>>) /\ Len(<<>>) = 0
  BY DEF IsSeq

LEMMA Appended ==
    ASSUME NEW s, IsSeq(s), NEW x
    PROVE  /\ IsSeq(Append(s, x)) /\ Len(Append(s, x)) = Len(s) + 1
           /\ DOMAIN Append(s, x) = 1..(Len(s) + 1)
           /\ \A i \in 1..Len(s) : Append(s, x)[i] = s[i]
           /\ Append(s, x)[Len(s) + 1] = x
<1> DEFINE T == {s[i] : i \in DOMAIN s} \cup {x}
           t == Append(s, x)
<1>1. s \in Seq(T) /\ x \in T
  BY DEF IsSeq
<1> HIDE DEF T
<1>2. /\ t \in Seq(T) /\ Len(t) = Len(s) + 1
      /\ \A i \in 1..Len(s) : t[i] = s[i]
      /\ t[Len(s) + 1] = x
  BY <1>1, AppendProperties
<1> HIDE DEF t
<1>3. Len(s) \in Nat /\ DOMAIN t = 1..(Len(s) + 1)
  BY <1>1, <1>2, LenProperties
<1>4. IsSeq(t)
  BY <1>2, <1>3 DEF IsSeq
<1> QED
  BY <1>2, <1>3, <1>4 DEF t

LEMMA Changed ==
    ASSUME NEW s, IsSeq(s), NEW i \in DOMAIN s, NEW x
    PROVE  /\ IsSeq([s EXCEPT ![i] = x]) /\ Len([s EXCEPT ![i] = x]) = Len(s)
           /\ DOMAIN [s EXCEPT ![i] = x] = DOMAIN s
           /\ [s EXCEPT ![i] = x][i] = x
           /\ \A j \in DOMAIN s \ {i} : [s EXCEPT ![i] = x][j] = s[j]
<1> DEFINE T == {s[k] : k \in DOMAIN s} \cup {x}
           t == [s EXCEPT ![i] = x]
<1>1. s \in Seq(T) /\ x \in T /\ i \in 1..Len(s)
  BY Domain DEF IsSeq
<1> HIDE DEF T
<1>2. /\ t \in Seq(T) /\ Len(t) = Len(s)
      /\ \A j \in 1..Len(s) : t[j] = IF j = i THEN x ELSE s[j]
  BY <1>1, ExceptSeq
<1>3. Len(s) \in Nat /\ DOMAIN t = 1..Len(s) /\ DOMAIN s = 1..Len(s)
  BY <1>1, <1>2, LenProperties
<1> HIDE DEF t
<1>4. IsSeq(t)
  BY <1>2, <1>3 DEF IsSeq
<1> QED
  BY <1>1, <1>2, <1>3, <1>4 DEF t

-----------------------------------------------------------------------------
(* One alert *)

LEMMA HighestRank ==
    ASSUME NEW S PROVE Highest(S) \in 1..4 /\ \A s \in S : s \in 1..4 => s <= Highest(S)
  BY DEF Highest, Low, Medium, High, Critical

(* What an alert looks like, with or without events.                       *)
IsAlert(a) ==
    /\ a = [st |-> a.st, fp |-> a.fp, sev |-> a.sev, triage |-> a.triage, described |-> a.described,
            log |-> a.log, actions |-> a.actions, incident |-> a.incident, reopened |-> a.reopened,
            overlapped |-> a.overlapped]
    /\ a.st \in {"active", "closed"} /\ a.sev \in 1..4 /\ a.triage = a.sev
    /\ IsSeq(a.log)
    /\ \A k \in DOMAIN a.log : a.log[k].at \in Nat /\ a.log[k].at <= now
HasEvents(a) == IsAlert(a) /\ Len(a.log) >= 1

LEMMA NewAlertIsOne ==
    ASSUME NEW e, NEW o
    PROVE  LET a == NewAlert(e, o)
           IN  /\ IsAlert(a) /\ a.fp = Fingerprint(e) /\ a.log = <<>> /\ Len(a.log) = 0
               /\ a.sev = Low /\ a.incident = 0 /\ a.actions = {} /\ ~a.reopened /\ a.st = "active"
               /\ a.overlapped = o
  BY Nothing DEF NewAlert, IsAlert, Low, Fingerprint

(* What a call v of process() makes of an alert: a with its event, of      *)
(* severity s, is m.                                                       *)
Grown(a, m, v, s) ==
    /\ m.st = a.st /\ m.fp = a.fp /\ m.reopened = a.reopened /\ m.overlapped = a.overlapped
    /\ m.log = Append(a.log, [event |-> v.event, at |-> v.at, rank |-> s])
    /\ m.sev \in 1..4 /\ s <= m.sev /\ a.sev <= m.sev
    /\ m.sev \in {a.sev, s}
    /\ m.actions = a.actions \cup ProposeActions(v.event, m.sev)
    /\ m.incident = IF m.sev >= High THEN m.sev ELSE a.incident
    /\ HasEvents(m)

LEMMA Merging ==
    ASSUME NEW a, NEW v, NEW words, IsAlert(a), v.at \in Nat, v.at <= now,
           NEW m, m = Merged(a, v.event, v.at, words), NEW s, s = TriageEvent(v.event, Len(a.log) + 1)
    PROVE  s \in 1..4 /\ Grown(a, m, v, s)
<1> DEFINE x == [event |-> v.event, at |-> v.at, rank |-> s]
           sev == EffectiveSeverity(a, s)
<1>1. s \in 1..4
  BY HighestRank DEF TriageEvent
<1>2. sev \in 1..4 /\ s <= sev /\ a.sev <= sev /\ sev \in {a.sev, s}
  BY <1>1 DEF EffectiveSeverity, Highest, Low, Medium, High, Critical, IsAlert
<1>3. (IF s >= a.sev THEN s ELSE a.triage) = sev
  BY <1>1, <1>2 DEF IsAlert
<1> HIDE DEF sev
<1>4. m = [a EXCEPT !.sev = sev, !.triage = sev,
              !.described = IF s >= a.sev THEN words ELSE @,
              !.log = Append(@, x),
              !.actions = @ \cup Fresh(a, ProposeActions(v.event, sev)),
              !.incident = IF sev >= High THEN sev ELSE @]
  BY <1>3 DEF Merged, sev
<1> HIDE DEF x
<1>5. m = [st |-> a.st, fp |-> a.fp, sev |-> sev, triage |-> sev,
           described |-> IF s >= a.sev THEN words ELSE a.described,
           log |-> Append(a.log, x), actions |-> a.actions \cup Fresh(a, ProposeActions(v.event, sev)),
           incident |-> IF sev >= High THEN sev ELSE a.incident, reopened |-> a.reopened,
           overlapped |-> a.overlapped]
  BY <1>4 DEF IsAlert
<1>6. m.actions = a.actions \cup ProposeActions(v.event, sev)
  BY <1>5 DEF Fresh
<1>7. IsSeq(m.log) /\ Len(m.log) >= 1 /\ \A k \in DOMAIN m.log : m.log[k].at \in Nat /\ m.log[k].at <= now
  <2>1. IsSeq(a.log) /\ Len(a.log) \in Nat /\ DOMAIN a.log = 1..Len(a.log)
    BY Domain DEF IsAlert
  <2>2. m.log = Append(a.log, x) /\ x.at = v.at
    BY <1>5 DEF x
  <2>3. /\ IsSeq(m.log) /\ Len(m.log) = Len(a.log) + 1 /\ DOMAIN m.log = 1..(Len(a.log) + 1)
        /\ \A k \in 1..Len(a.log) : m.log[k] = a.log[k]
        /\ m.log[Len(a.log) + 1] = x
    BY <2>1, <2>2, Appended
  <2>4. \A k \in DOMAIN m.log : m.log[k].at \in Nat /\ m.log[k].at <= now
    BY <2>1, <2>2, <2>3 DEF IsAlert
  <2> QED
    BY <2>1, <2>3, <2>4
<1> QED
  BY <1>1, <1>2, <1>5, <1>6, <1>7 DEF HasEvents, IsAlert, Grown, x

-----------------------------------------------------------------------------
(* All alerts, and the calls of process() *)

Rows ==
    /\ now \in Nat /\ IsSeq(alerts)
    /\ \A i \in DOMAIN alerts : HasEvents(alerts[i])

(* What a call has selected stays as it was while the call waits: its      *)
(* event is in time for the alert.  No two calls hold the same row; and of *)
(* two calls for one fingerprint, one knows of the other, which was first. *)
InCall(c) ==
    /\ c.at \in Nat /\ c.at <= now
    /\ c.held \subseteq DOMAIN alerts
    /\ c.on # 0 =>
         /\ c.on \in c.held
         /\ alerts[c.on].fp = Fingerprint(c.event) /\ alerts[c.on].st = "active"
         /\ LastSeen(alerts[c.on]) <= c.at /\ c.at <= LastSeen(alerts[c.on]) + Window
Beside(c, d) ==
    /\ c.held \cap d.held = {}
    /\ Fingerprint(c.event) = Fingerprint(d.event) =>
         /\ c.overlaps \/ d.overlaps
         /\ ~c.overlaps => c.at <= d.at
         /\ ~d.overlaps => d.at <= c.at
CallsInv ==
    /\ \A c \in calls : InCall(c)
    /\ \A c, d \in calls : c # d => Beside(c, d)

Shape == Rows /\ CallsInv

LEMMA LastSeenKnown ==
    ASSUME NEW a, HasEvents(a), now \in Nat PROVE LastSeen(a) \in Nat /\ LastSeen(a) <= now
<1>1. Len(a.log) \in DOMAIN a.log
  BY Domain DEF HasEvents, IsAlert
<1> QED
  BY <1>1 DEF HasEvents, IsAlert, LastSeen

(* A call that begins.                                                     *)
Begun(v) ==
    /\ v.at = now /\ v.on \in Selected(v.event) /\ v.held = Matching(Fingerprint(v.event))
    /\ v.overlaps = Overlaps(v.event) /\ Selects(v.event)

LEMMA BegunIsCall ==
    ASSUME Shape, NEW v, Begun(v) PROVE InCall(v) /\ \A d \in calls : Beside(v, d)
<1> USE WindowAssumption
<1>0. DOMAIN alerts = 1..Len(alerts) /\ Len(alerts) \in Nat /\ now \in Nat
  BY Domain DEF Shape, Rows
<1>1. Matching(Fingerprint(v.event)) \subseteq DOMAIN alerts
  BY DEF Matching
<1>2. v.on # 0 => v.on \in Matching(Fingerprint(v.event))
  BY DEF Begun, Selected, Newest
<1>3. \A i \in DOMAIN alerts : LastSeen(alerts[i]) \in Nat /\ LastSeen(alerts[i]) <= now
  BY LastSeenKnown DEF Shape, Rows
<1>4. InCall(v)
  BY <1>0, <1>1, <1>2, <1>3 DEF InCall, Begun, Matching
<1>5. ASSUME NEW d \in calls PROVE Beside(v, d)
  <2>1. v.held \cap d.held = {}
    BY DEF Begun, Selects, Locked
  <2>2. Fingerprint(d.event) = Fingerprint(v.event) => v.overlaps
    BY DEF Begun, Overlaps
  <2>3. d.at <= v.at
    BY DEF Begun, Shape, CallsInv, InCall
  <2> QED
    BY <2>1, <2>2, <2>3 DEF Beside
<1> QED
  BY <1>4, <1>5

(* process() adds an alert at the end, or an event to the one it selected. *)
Opened(v, words) ==
    /\ v.on = 0
    /\ alerts' = Append(alerts, Merged(NewAlert(v.event, v.overlaps), v.event, v.at, words))
Continued(v, words) ==
    /\ v.on # 0
    /\ alerts' = [alerts EXCEPT ![v.on] = Merged(alerts[v.on], v.event, v.at, words)]

(* A call commits: it was waiting, or it has just begun.                   *)
Commits(v, words) ==
    /\ now' = now /\ feed' = feed /\ events < MaxEvents /\ events' = events + 1
    /\ v \in calls \/ Begun(v)
    /\ InCall(v) /\ calls' \subseteq calls /\ \A d \in calls' : Beside(v, d)
    /\ Opened(v, words) \/ Continued(v, words)

LEMMA ProcessCommits ==
    ASSUME Shape, NEW e, Process(e)
    PROVE  \E v, words : Commits(v, words) /\ v.event = e /\ Begun(v) /\ calls' = calls
<1>1. PICK i \in Selected(e) : Save(e, now, i, Overlaps(e))
  BY DEF Process
<1>2. PICK v : v = [event |-> e, at |-> now, on |-> i, held |-> Matching(Fingerprint(e)),
                    overlaps |-> Overlaps(e)]
  OBVIOUS
<1>3. Begun(v)
  BY <1>1, <1>2 DEF Begun, Process
<1>4. PICK words : \/ i = 0 /\ alerts' = Append(alerts, Merged(NewAlert(e, Overlaps(e)), e, now, words))
                   \/ i # 0 /\ alerts' = [alerts EXCEPT ![i] = Merged(alerts[i], e, now, words)]
  BY <1>1 DEF Save
<1>5. Opened(v, words) \/ Continued(v, words)
  BY <1>2, <1>4 DEF Opened, Continued
<1>6. /\ now' = now /\ feed' = feed /\ events < MaxEvents /\ events' = events + 1
      /\ calls' = calls /\ v.event = e
  BY <1>1, <1>2 DEF Save, Process
<1> QED
  BY <1>3, <1>5, <1>6, BegunIsCall DEF Commits

LEMMA ResumeCommits ==
    ASSUME Shape, NEW c \in calls, Resume(c) PROVE \E words : Commits(c, words)
<1>1. PICK words :
        \/ c.on = 0 /\ alerts' = Append(alerts, Merged(NewAlert(c.event, c.overlaps), c.event, c.at, words))
        \/ c.on # 0 /\ alerts' = [alerts EXCEPT ![c.on] = Merged(alerts[c.on], c.event, c.at, words)]
  BY DEF Resume, Save
<1>2. Opened(c, words) \/ Continued(c, words)
  BY <1>1 DEF Opened, Continued
<1>3. /\ now' = now /\ feed' = feed /\ events < MaxEvents /\ events' = events + 1
      /\ calls' = calls \ {c}
  BY DEF Resume, Save
<1>4. InCall(c) /\ \A d \in calls \ {c} : Beside(c, d)
  BY DEF Shape, CallsInv
<1> QED
  BY <1>2, <1>3, <1>4 DEF Commits

(* What has become of the alerts: alert i was touched, or is new.          *)
GrownAt(i, a, v, s) ==
    /\ s \in 1..4 /\ s = TriageEvent(v.event, Len(a.log) + 1)
    /\ IsAlert(a) /\ Grown(a, alerts'[i], v, s)

LEMMA OpenedShape ==
    ASSUME Shape, NEW v, NEW words, Commits(v, words), Opened(v, words)
    PROVE  /\ Rows'
           /\ DOMAIN alerts = 1..Len(alerts) /\ Len(alerts) \in Nat
           /\ DOMAIN alerts' = 1..(Len(alerts) + 1)
           /\ \A i \in DOMAIN alerts : alerts'[i] = alerts[i]
           /\ \E a, s : a = NewAlert(v.event, v.overlaps) /\ GrownAt(Len(alerts) + 1, a, v, s)
<1>0. now' = now /\ v.at \in Nat /\ v.at <= now
  BY DEF Commits, InCall
<1>1. PICK a : a = NewAlert(v.event, v.overlaps)
  OBVIOUS
<1>2. PICK m, s : m = Merged(a, v.event, v.at, words) /\ s = TriageEvent(v.event, Len(a.log) + 1)
  OBVIOUS
<1>3. IsAlert(a) /\ s \in 1..4 /\ Grown(a, m, v, s)
  <2>1. IsAlert(a)
    BY <1>1, NewAlertIsOne
  <2> QED
    BY <1>0, <1>2, <2>1, Merging
<1>4. alerts' = Append(alerts, m)
  BY <1>1, <1>2 DEF Opened
<1>5. /\ IsSeq(alerts') /\ DOMAIN alerts' = 1..(Len(alerts) + 1)
      /\ \A i \in 1..Len(alerts) : alerts'[i] = alerts[i]
      /\ alerts'[Len(alerts) + 1] = m
  BY <1>4, Appended DEF Shape, Rows
<1>6. DOMAIN alerts = 1..Len(alerts) /\ Len(alerts) \in Nat
  BY Domain DEF Shape, Rows
<1>7. \A i \in DOMAIN alerts' : HasEvents(alerts'[i])
  BY <1>3, <1>5, <1>6 DEF Shape, Rows, Grown
<1>8. Rows'
  BY <1>0, <1>5, <1>7 DEF Shape, Rows, HasEvents, IsAlert
<1>9. GrownAt(Len(alerts) + 1, a, v, s)
  BY <1>2, <1>3, <1>5 DEF GrownAt
<1> QED
  BY <1>1, <1>5, <1>6, <1>8, <1>9

LEMMA ContinuedShape ==
    ASSUME Shape, NEW v, NEW words, Commits(v, words), Continued(v, words)
    PROVE  /\ v.on \in DOMAIN alerts /\ Rows' /\ DOMAIN alerts' = DOMAIN alerts
           /\ \A j \in DOMAIN alerts \ {v.on} : alerts'[j] = alerts[j]
           /\ \E a, s : a = alerts[v.on] /\ GrownAt(v.on, a, v, s)
<1>0. now' = now /\ v.at \in Nat /\ v.at <= now /\ v.on \in DOMAIN alerts
  BY DEF Commits, InCall, Continued
<1>1. PICK a, i : a = alerts[i] /\ i = v.on
  OBVIOUS
<1>2. PICK m, s : m = Merged(a, v.event, v.at, words) /\ s = TriageEvent(v.event, Len(a.log) + 1)
  OBVIOUS
<1>3. IsAlert(a) /\ s \in 1..4 /\ Grown(a, m, v, s)
  <2>1. IsAlert(a)
    BY <1>0, <1>1 DEF Shape, Rows, HasEvents
  <2> QED
    BY <1>0, <1>2, <2>1, Merging
<1>4. alerts' = [alerts EXCEPT ![i] = m]
  BY <1>1, <1>2 DEF Continued
<1>5. /\ IsSeq(alerts') /\ DOMAIN alerts' = DOMAIN alerts
      /\ alerts'[i] = m /\ \A j \in DOMAIN alerts \ {i} : alerts'[j] = alerts[j]
  BY <1>0, <1>1, <1>4, Changed DEF Shape, Rows
<1>6. \A j \in DOMAIN alerts' : HasEvents(alerts'[j])
  BY <1>3, <1>5 DEF Shape, Rows, Grown
<1>7. Rows'
  BY <1>0, <1>5, <1>6 DEF Shape, Rows, HasEvents, IsAlert
<1>8. GrownAt(i, a, v, s)
  BY <1>2, <1>3, <1>5 DEF GrownAt
<1> QED
  BY <1>0, <1>1, <1>5, <1>7, <1>8

(* A status change: the fields it sets, and those it leaves.               *)
SameBut(a, b, st) ==
    /\ b.st = st /\ (st = "active" => b.reopened = TRUE) /\ (st # "active" => b.reopened = a.reopened)
    /\ b.fp = a.fp /\ b.sev = a.sev /\ b.log = a.log /\ b.actions = a.actions /\ b.incident = a.incident
    /\ IsAlert(b)

LEMMA StatusSet ==
    ASSUME NEW a, IsAlert(a), NEW st \in {"active", "closed"}
    PROVE  SameBut(a, WithStatus(a, st), st)
<1> DEFINE b == WithStatus(a, st)
           r == IF st = "active" THEN TRUE ELSE a.reopened
<1>1. b = [a EXCEPT !.st = st, !.reopened = r]
  BY DEF WithStatus
<1> HIDE DEF b, r
<1>2. b = [st |-> st, fp |-> a.fp, sev |-> a.sev, triage |-> a.triage, described |-> a.described,
           log |-> a.log, actions |-> a.actions, incident |-> a.incident, reopened |-> r,
           overlapped |-> a.overlapped]
  BY <1>1 DEF IsAlert
<1>3. (st = "active" => r = TRUE) /\ (st # "active" => r = a.reopened)
  BY DEF r
<1>4. IsAlert(b)
  BY <1>2 DEF IsAlert
<1> QED
  BY <1>2, <1>3, <1>4 DEF SameBut, b

LEMMA ChangeShape ==
    ASSUME Shape, UpdateAlertStatus
    PROVE  /\ Rows' /\ now' = now /\ events' = events /\ DOMAIN alerts' = DOMAIN alerts
           /\ \E i \in DOMAIN alerts, st \in {"active", "closed"} :
                /\ i \notin Locked
                /\ SameBut(alerts[i], alerts'[i], st)
                /\ \A j \in DOMAIN alerts \ {i} : alerts'[j] = alerts[j]
<1>1. now' = now /\ events' = events
  BY DEF UpdateAlertStatus
<1>2. PICK i \in DOMAIN alerts \ Locked, st \in {"active", "closed"} :
        alerts' = [alerts EXCEPT ![i] = WithStatus(alerts[i], st)]
  BY DEF UpdateAlertStatus
<1> DEFINE b == WithStatus(alerts[i], st)
<1>3. IsAlert(alerts[i]) /\ Len(alerts[i].log) >= 1
  BY DEF Shape, Rows, HasEvents
<1>5. SameBut(alerts[i], b, st)
  BY <1>3, StatusSet
<1>6. alerts' = [alerts EXCEPT ![i] = b]
  BY <1>2
<1> HIDE DEF b
<1>7. /\ IsSeq(alerts') /\ DOMAIN alerts' = DOMAIN alerts
      /\ alerts'[i] = b /\ \A j \in DOMAIN alerts \ {i} : alerts'[j] = alerts[j]
  BY <1>6, Changed DEF Shape, Rows
<1>8. \A j \in DOMAIN alerts' : HasEvents(alerts'[j])
  BY <1>3, <1>5, <1>7 DEF Shape, Rows, HasEvents, SameBut
<1>9. Rows'
  BY <1>1, <1>7, <1>8 DEF Shape, Rows, HasEvents, IsAlert
<1> QED
  BY <1>1, <1>5, <1>7, <1>9 DEF SameBut, IsAlert

(* Everything that may happen to the alerts, the calls and the clock.      *)
Goes == \E v, words : Commits(v, words)
Begins == now' = now /\ \E v : Begun(v) /\ calls' = calls \cup {v}
Waits ==
    /\ alerts' = alerts /\ events' = events
    /\ Begins \/ (calls' \subseteq calls /\ (now' = now \/ now' = now + 1))

LEMMA SuspendBegins == ASSUME NEW e, Suspend(e) PROVE Waits
<1>1. PICK s \in Slots[feed] : \E i \in Selected(e) :
        calls' = calls \cup
          {[slot |-> s, event |-> e, at |-> now, on |-> i,
            held |-> Matching(Fingerprint(e)), overlaps |-> Overlaps(e)]}
  BY DEF Suspend
<1>2. PICK i \in Selected(e) :
        calls' = calls \cup
          {[slot |-> s, event |-> e, at |-> now, on |-> i,
            held |-> Matching(Fingerprint(e)), overlaps |-> Overlaps(e)]}
  BY <1>1
<1>3. PICK v : v = [slot |-> s, event |-> e, at |-> now, on |-> i,
                    held |-> Matching(Fingerprint(e)), overlaps |-> Overlaps(e)]
  OBVIOUS
<1>4. Begun(v)
  BY <1>3 DEF Begun, Suspend
<1> QED
  BY <1>3, <1>4, <1>2 DEF Waits, Begins, Suspend

LEMMA Steps == ASSUME Shape, [Next]_vars PROVE Goes \/ UpdateAlertStatus \/ Waits
<1>1. ASSUME NEW e, Process(e) \/ Suspend(e) PROVE Goes \/ Waits
  BY <1>1, ProcessCommits, SuspendBegins DEF Goes
<1>2. CASE Arrive
  BY <1>1, <1>2 DEF Arrive
<1>3. CASE Return
  BY <1>3, ResumeCommits DEF Return, Goes
<1>4. CASE TrialStep \/ UNCHANGED vars
  BY <1>4 DEF TrialStep, Start, Poll, NoEvidence, ReadAlert, ReadIncidents, ReadActions, RequestFails,
              Grade, Reads, Record, Ends, window, vars, Waits
<1>5. CASE Others
  <2>1. CASE Receive
    BY <1>1, <2>1 DEF Receive
  <2>2. CASE (\E c \in calls : Abandon(c)) \/ Tick
    BY <2>2 DEF Abandon, Tick, Waits
  <2> QED
    BY <1>5, <2>1, <2>2 DEF Others
<1> QED
  BY <1>2, <1>3, <1>4, <1>5 DEF Next

LEMMA RowsStep == ASSUME Shape, [Next]_vars PROVE Rows'
<1>1. CASE Goes
  <2>1. PICK v, words : Commits(v, words)
    BY <1>1 DEF Goes
  <2> QED
    BY <2>1, OpenedShape, ContinuedShape DEF Commits
<1>2. CASE Waits
  <2>1. now \in Nat /\ now' \in Nat /\ now <= now' /\ alerts' = alerts
    BY <1>2 DEF Shape, Rows, Waits, Begins
  <2>2. ASSUME NEW a, IsAlert(a) PROVE IsAlert(a)'
    BY <2>1, <2>2 DEF IsAlert
  <2> QED
    BY <2>1, <2>2 DEF Shape, Rows, HasEvents
<1> QED
  BY <1>1, <1>2, ChangeShape, Steps

(* The row a call has selected is not touched by others.                   *)
LEMMA CallStays ==
    ASSUME NEW c, InCall(c), Rows, now' \in Nat, now <= now', DOMAIN alerts \subseteq DOMAIN alerts',
           c.on # 0 => alerts'[c.on] = alerts[c.on]
    PROVE  InCall(c)'
  BY DEF InCall, LastSeen, Rows

LEMMA ShapeStep == ASSUME Shape, [Next]_vars PROVE Shape'
<1>0. /\ Rows' /\ Rows /\ DOMAIN alerts = 1..Len(alerts) /\ Len(alerts) \in Nat
      /\ \A c \in calls : InCall(c) /\ (c.on # 0 => c.on \in c.held)
  BY RowsStep, Domain DEF Shape, Rows, CallsInv, InCall
<1>1. ASSUME NEW v, NEW words, Commits(v, words) PROVE CallsInv'
  <2>1. calls' \subseteq calls /\ now' = now /\ \A d \in calls' : Beside(v, d)
    BY <1>1 DEF Commits
  <2>2. DOMAIN alerts \subseteq DOMAIN alerts'
    BY <1>1, OpenedShape, ContinuedShape DEF Commits
  <2>3. ASSUME NEW c \in calls', c.on # 0 PROVE alerts'[c.on] = alerts[c.on]
    <3>1. c.on \in c.held /\ c.on \in DOMAIN alerts
      BY <1>0, <2>1, <2>3 DEF InCall
    <3>2. v.on # 0 => v.on \in v.held
      BY <1>1 DEF Commits, InCall
    <3>3. v.on # c.on
      BY <2>1, <2>3, <3>1, <3>2 DEF Beside
    <3> QED
      BY <1>1, <3>1, <3>3, OpenedShape, ContinuedShape DEF Commits
  <2>4. \A c \in calls' : InCall(c)'
    BY <1>0, <2>1, <2>2, <2>3, CallStays DEF Rows
  <2> QED
    BY <2>1, <2>4 DEF Shape, CallsInv, Beside
<1>2. CASE Waits
  <2>1. alerts' = alerts /\ now' \in Nat /\ now <= now'
    BY <1>0, <1>2 DEF Rows, Waits, Begins
  <2>2. CASE calls' \subseteq calls
    <3>1. \A c \in calls' : InCall(c)'
      BY <1>0, <2>1, <2>2, CallStays
    <3> QED
      BY <1>0, <2>2, <3>1 DEF Shape, CallsInv, Beside
  <2>3. ASSUME NEW v, Begun(v), calls' = calls \cup {v} PROVE CallsInv'
    <3>1. InCall(v) /\ \A d \in calls : Beside(v, d)
      BY <2>3, BegunIsCall
    <3>2. \A c \in calls' : InCall(c)'
      BY <1>0, <2>1, <2>3, <3>1, CallStays
    <3>3. \A c, d \in calls' : c # d => Beside(c, d)
      BY <2>3, <3>1 DEF Shape, CallsInv, Beside
    <3> QED
      BY <3>2, <3>3 DEF CallsInv, Beside
  <2> QED
    BY <1>0, <1>2, <2>2, <2>3 DEF Shape, Waits, Begins
<1>3. CASE UpdateAlertStatus
  <2>1. PICK i \in DOMAIN alerts : i \notin Locked /\ \A j \in DOMAIN alerts \ {i} : alerts'[j] = alerts[j]
    BY <1>3, ChangeShape
  <2>2. now' = now /\ DOMAIN alerts' = DOMAIN alerts /\ calls' = calls
    BY <1>3, ChangeShape DEF UpdateAlertStatus
  <2>3. ASSUME NEW c \in calls, c.on # 0 PROVE alerts'[c.on] = alerts[c.on]
    <3>1. c.on \in c.held /\ c.on \in DOMAIN alerts /\ c.on \in Locked
      BY <1>0, <2>3 DEF InCall, Locked
    <3> QED
      BY <2>1, <3>1
  <2>4. \A c \in calls' : InCall(c)'
    BY <1>0, <2>2, <2>3, CallStays DEF Rows
  <2> QED
    BY <1>0, <2>2, <2>4 DEF Shape, CallsInv, Beside
<1> QED
  BY <1>0, <1>1, <1>2, <1>3, Steps DEF Shape, Goes

LEMMA ShapeHolds == Spec => []Shape
<1>1. Init => Shape
  BY Nothing, Domain DEF Init, WindowInit, Shape, Rows, CallsInv
<1>2. Shape /\ [Next]_vars => Shape'
  BY ShapeStep
<1> QED
  BY <1>1, <1>2, PTL DEF Spec

-----------------------------------------------------------------------------
(* Twins *)

(* Two alerts of a fingerprint are a window apart, if no analyst reopened  *)
(* them and no other event was in process() when they were looked up.      *)
Free(a) == a.st = "active" /\ ~a.reopened /\ ~a.overlapped
Apart(a, b) == a.fp = b.fp /\ Free(a) /\ Free(b) => LastSeen(a) + Window < LastSeen(b)

(* A waiting call will keep them so.                                       *)
Keeps(c) ==
    \A j \in DOMAIN alerts : alerts[j].fp = Fingerprint(c.event) /\ Free(alerts[j]) =>
        /\ c.on = 0 /\ ~c.overlaps => LastSeen(alerts[j]) + Window < c.at
        /\ c.on # 0 /\ Free(alerts[c.on]) => ~(c.on < j)
TwinsInv ==
    /\ \A i, j \in DOMAIN alerts : i < j => Apart(alerts[i], alerts[j])
    /\ \A c \in calls : Keeps(c)

LEMMA LastOfGrown ==
    ASSUME NEW a, NEW v, NEW s, NEW m, IsAlert(a), Grown(a, m, v, s)
    PROVE  LastSeen(m) = v.at
<1> DEFINE x == [event |-> v.event, at |-> v.at, rank |-> s]
<1>1. m.log = Append(a.log, x) /\ IsSeq(a.log) /\ x.at = v.at
  BY DEF Grown, IsAlert
<1> HIDE DEF x
<1>2. m.log[Len(m.log)] = x
  BY <1>1, Appended
<1> QED
  BY <1>1, <1>2 DEF LastSeen

LEMMA Seen == ASSUME Shape PROVE \A i \in DOMAIN alerts : LastSeen(alerts[i]) \in Nat /\ LastSeen(alerts[i]) <= now
  BY LastSeenKnown DEF Shape, Rows

LEMMA CommitKeeps == ASSUME Shape, TwinsInv, NEW v, v \in calls \/ Begun(v) PROVE Keeps(v)
<1> USE WindowAssumption
<1>0. now \in Nat
  BY DEF Shape, Rows
<1>1. ASSUME Begun(v), NEW j \in DOMAIN alerts, alerts[j].fp = Fingerprint(v.event), Free(alerts[j])
      PROVE  /\ v.on = 0 /\ ~v.overlaps => LastSeen(alerts[j]) + Window < v.at
             /\ v.on # 0 /\ Free(alerts[v.on]) => ~(v.on < j)
  <2>1. v.at = now /\ alerts[j].st = "active"
    BY <1>1 DEF Begun, Free
  <2>2. LastSeen(alerts[j]) \in Nat /\ LastSeen(alerts[j]) <= now
    BY Seen
  <2>3. ASSUME v.on = 0 PROVE LastSeen(alerts[j]) + Window < v.at
    <3>1. Matching(Fingerprint(v.event)) = {}
      <4>1. 0 \notin DOMAIN alerts
        BY Domain DEF Shape, Rows
      <4>2. v.on \in Selected(v.event)
        BY <1>1 DEF Begun
      <4> QED
        BY <2>3, <4>1, <4>2 DEF Selected, Newest, Matching
    <3>2. ~(LastSeen(alerts[j]) + Window >= now)
      BY <1>1, <2>1, <3>1 DEF Matching
    <3> QED
      BY <1>0, <2>1, <2>2, <3>2
  <2>4. ASSUME v.on # 0, Free(alerts[v.on]), v.on < j PROVE FALSE
    <3>1. v.on \in Matching(Fingerprint(v.event))
      BY <1>1, <2>4 DEF Begun, Selected, Newest
    <3>2. /\ v.on \in DOMAIN alerts /\ alerts[v.on].fp = alerts[j].fp
          /\ LastSeen(alerts[v.on]) + Window >= now
      BY <1>1, <3>1 DEF Matching
    <3>3. LastSeen(alerts[v.on]) \in Nat
      BY <3>2, Seen
    <3>4. LastSeen(alerts[v.on]) + Window < LastSeen(alerts[j])
      BY <1>1, <2>4, <3>2 DEF TwinsInv, Apart
    <3> QED
      BY <1>0, <2>2, <3>2, <3>3, <3>4
  <2> QED
    BY <2>3, <2>4
<1>2. CASE v \in calls
  BY <1>2 DEF TwinsInv
<1>3. CASE Begun(v)
  BY <1>1, <1>3 DEF Keeps
<1> QED
  BY <1>2, <1>3

LEMMA OpenedTwins ==
    ASSUME Shape, TwinsInv, NEW v, NEW words, Commits(v, words), Opened(v, words) PROVE TwinsInv'
<1> USE WindowAssumption
<1>0. PICK m, n : m = alerts'[n] /\ n = Len(alerts) + 1
  OBVIOUS
<1>1. /\ DOMAIN alerts = 1..(n - 1) /\ n \in Nat /\ DOMAIN alerts' = 1..n
      /\ \A i \in DOMAIN alerts : alerts'[i] = alerts[i]
  BY <1>0, OpenedShape
<1>2. m.fp = Fingerprint(v.event) /\ LastSeen(m) = v.at /\ m.overlapped = v.overlaps
  <2>1. PICK a, s : a = NewAlert(v.event, v.overlaps) /\ GrownAt(n, a, v, s)
    BY <1>0, OpenedShape
  <2>2. a.fp = Fingerprint(v.event) /\ a.overlapped = v.overlaps /\ IsAlert(a) /\ Grown(a, m, v, s)
    BY <1>0, <2>1, NewAlertIsOne DEF GrownAt
  <2> QED
    BY <2>2, LastOfGrown DEF Grown
<1>3. Keeps(v) /\ v.on = 0 /\ v.at \in Nat /\ calls' \subseteq calls /\ \A d \in calls' : Beside(v, d)
  BY CommitKeeps DEF Commits, InCall, Opened
<1>4. \A i \in DOMAIN alerts : Apart(alerts[i], m)
  BY <1>2, <1>3 DEF Apart, Keeps, Free
<1>5. ASSUME NEW i \in DOMAIN alerts', NEW j \in DOMAIN alerts', i < j PROVE Apart(alerts'[i], alerts'[j])
  <2>1. i \in DOMAIN alerts /\ (j \in DOMAIN alerts \/ j = n)
    BY <1>1, <1>5
  <2> QED
    BY <1>0, <1>1, <1>4, <1>5, <2>1 DEF TwinsInv
<1>6. ASSUME NEW d \in calls', NEW j \in DOMAIN alerts',
             alerts'[j].fp = Fingerprint(d.event), Free(alerts'[j])
      PROVE  /\ d.on = 0 /\ ~d.overlaps => LastSeen(alerts'[j]) + Window < d.at
             /\ d.on # 0 /\ Free(alerts'[d.on]) => ~(d.on < j)
  <2>1. Keeps(d) /\ Beside(v, d) /\ InCall(d)
    BY <1>3 DEF TwinsInv, Shape, CallsInv
  <2>2. d.on # 0 => d.on \in DOMAIN alerts /\ alerts'[d.on] = alerts[d.on]
    BY <1>1, <2>1 DEF InCall
  <2>3. CASE j \in DOMAIN alerts
    BY <1>1, <1>6, <2>1, <2>2, <2>3 DEF Keeps
  <2>4. CASE j = n
    <3>1. Fingerprint(d.event) = Fingerprint(v.event) /\ ~v.overlaps
      BY <1>0, <1>2, <1>6, <2>4 DEF Free
    <3>2. d.overlaps /\ v.at <= d.at
      BY <2>1, <3>1 DEF Beside
    <3>3. ASSUME d.on # 0, Free(alerts[d.on]) PROVE FALSE
      <4>1. PICK t : t = d.on /\ t \in DOMAIN alerts
        BY <2>2, <3>3
      <4>2. /\ alerts[t].fp = Fingerprint(v.event) /\ Free(alerts[t])
            /\ d.at <= LastSeen(alerts[t]) + Window /\ d.at \in Nat
        BY <2>1, <3>1, <3>3, <4>1 DEF InCall
      <4>3. LastSeen(alerts[t]) + Window < v.at
        BY <1>3, <3>1, <4>1, <4>2 DEF Keeps
      <4>4. LastSeen(alerts[t]) \in Nat
        BY <4>1, Seen
      <4> QED
        BY <1>3, <3>2, <4>2, <4>3, <4>4
    <3> QED
      BY <2>2, <3>2, <3>3
  <2> QED
    BY <1>1, <2>3, <2>4
<1> QED
  BY <1>5, <1>6 DEF TwinsInv, Keeps, Apart, Free, LastSeen

LEMMA ContinuedTwins ==
    ASSUME Shape, TwinsInv, NEW v, NEW words, Commits(v, words), Continued(v, words) PROVE TwinsInv'
<1> USE WindowAssumption
<1>0. PICK m, t : m = alerts'[t] /\ t = v.on
  OBVIOUS
<1>1. /\ DOMAIN alerts' = DOMAIN alerts /\ DOMAIN alerts = 1..Len(alerts) /\ Len(alerts) \in Nat
      /\ t \in DOMAIN alerts /\ \A j \in DOMAIN alerts \ {t} : alerts'[j] = alerts[j]
  BY <1>0, ContinuedShape, Domain DEF Shape, Rows
<1>2. /\ m.fp = alerts[t].fp /\ (Free(m) <=> Free(alerts[t])) /\ LastSeen(m) = v.at
  <2>1. PICK a, s : a = alerts[t] /\ GrownAt(t, a, v, s)
    BY <1>0, ContinuedShape
  <2>2. IsAlert(a) /\ Grown(a, m, v, s)
    BY <1>0, <2>1 DEF GrownAt
  <2> QED
    BY <2>1, <2>2, LastOfGrown DEF Grown, Free
<1>3. /\ Keeps(v) /\ v.on # 0 /\ v.at \in Nat /\ calls' \subseteq calls
      /\ \A d \in calls' : Beside(v, d)
      /\ alerts[t].fp = Fingerprint(v.event)
      /\ LastSeen(alerts[t]) <= v.at /\ v.at <= LastSeen(alerts[t]) + Window
  BY <1>0, CommitKeeps DEF Commits, InCall, Continued
<1>4. \A i \in DOMAIN alerts : LastSeen(alerts[i]) \in Nat
  BY Seen
<1>5. ASSUME NEW j \in DOMAIN alerts, j < t PROVE Apart(alerts[j], m)
  <2>1. Apart(alerts[j], alerts[t])
    BY <1>1, <1>5 DEF TwinsInv
  <2> QED
    BY <1>1, <1>2, <1>3, <1>4, <2>1 DEF Apart
<1>6. ASSUME NEW j \in DOMAIN alerts, t < j PROVE Apart(m, alerts[j])
  BY <1>0, <1>2, <1>3, <1>6 DEF Apart, Keeps
<1>7. ASSUME NEW k \in DOMAIN alerts, NEW j \in DOMAIN alerts, k < j PROVE Apart(alerts'[k], alerts'[j])
  BY <1>0, <1>1, <1>5, <1>6, <1>7 DEF TwinsInv
<1>8. ASSUME NEW d \in calls', NEW j \in DOMAIN alerts',
             alerts'[j].fp = Fingerprint(d.event), Free(alerts'[j])
      PROVE  /\ d.on = 0 /\ ~d.overlaps => LastSeen(alerts'[j]) + Window < d.at
             /\ d.on # 0 /\ Free(alerts'[d.on]) => ~(d.on < j)
  <2>1. Keeps(d) /\ Beside(v, d) /\ InCall(d)
    BY <1>3 DEF TwinsInv, Shape, CallsInv
  <2>2. \A i \in DOMAIN alerts : alerts'[i].fp = alerts[i].fp /\ (Free(alerts'[i]) <=> Free(alerts[i]))
    BY <1>0, <1>1, <1>2
  <2>3. alerts[j].fp = Fingerprint(d.event) /\ Free(alerts[j]) /\ j \in DOMAIN alerts
    BY <1>1, <1>8, <2>2
  <2>4. d.on # 0 /\ Free(alerts'[d.on]) => ~(d.on < j)
    <3>1. d.on # 0 => d.on \in DOMAIN alerts
      BY <2>1 DEF InCall
    <3> QED
      BY <2>1, <2>2, <2>3, <3>1 DEF Keeps
  <2>5. ASSUME d.on = 0, ~d.overlaps PROVE LastSeen(alerts'[j]) + Window < d.at
    <3>1. LastSeen(alerts[j]) + Window < d.at
      BY <2>1, <2>3, <2>5 DEF Keeps
    <3>2. CASE j # t
      BY <1>1, <2>3, <3>1, <3>2
    <3>3. CASE j = t
      <4>1. d.at <= v.at /\ d.at \in Nat
        BY <1>3, <2>1, <2>3, <2>5, <3>3 DEF Beside, InCall
      <4> QED
        BY <1>1, <1>3, <1>4, <3>1, <3>3, <4>1
    <3> QED
      BY <3>2, <3>3
  <2> QED
    BY <2>4, <2>5
<1> QED
  BY <1>1, <1>7, <1>8 DEF TwinsInv, Keeps, Apart, Free, LastSeen

LEMMA TwinsStep == ASSUME Shape, TwinsInv, [Next]_vars PROVE TwinsInv'
<1>1. CASE Goes
  BY <1>1, OpenedTwins, ContinuedTwins DEF Goes, Commits
<1>2. CASE UpdateAlertStatus
  <2>1. DOMAIN alerts' = DOMAIN alerts /\ calls' = calls
    BY <1>2, ChangeShape DEF UpdateAlertStatus
  <2>2. PICK i \in DOMAIN alerts : \E st \in {"active", "closed"} :
          i \notin Locked /\ SameBut(alerts[i], alerts'[i], st) /\ \A j \in DOMAIN alerts \ {i} : alerts'[j] = alerts[j]
    BY <1>2, ChangeShape
  <2>3. ~Free(alerts'[i])
    BY <2>2 DEF SameBut, Free
  <2>4. ASSUME NEW k \in DOMAIN alerts, NEW j \in DOMAIN alerts, k < j
        PROVE  Apart(alerts'[k], alerts'[j])
    BY <2>2, <2>3, <2>4 DEF TwinsInv, Apart
  <2>5. ASSUME NEW d \in calls, NEW j \in DOMAIN alerts, alerts'[j].fp = Fingerprint(d.event), Free(alerts'[j])
        PROVE  /\ d.on = 0 /\ ~d.overlaps => LastSeen(alerts'[j]) + Window < d.at
               /\ d.on # 0 /\ Free(alerts'[d.on]) => ~(d.on < j)
    <3>1. Keeps(d) /\ InCall(d)
      BY DEF TwinsInv, Shape, CallsInv
    <3>2. alerts'[j] = alerts[j]
      BY <2>2, <2>3, <2>5
    <3>3. d.on # 0 => alerts'[d.on] = alerts[d.on]
      BY <2>2, <3>1 DEF InCall, Locked
    <3> QED
      BY <2>5, <3>1, <3>2, <3>3 DEF Keeps
  <2> QED
    BY <2>1, <2>4, <2>5 DEF TwinsInv, Keeps, Apart, Free, LastSeen
<1>3. CASE Waits
  <2>1. \A c \in calls' : Keeps(c)
    BY <1>3, CommitKeeps DEF Waits, Begins
  <2> QED
    BY <1>3, <2>1 DEF Waits, TwinsInv, Keeps, Apart, Free, LastSeen
<1> QED
  BY <1>1, <1>2, <1>3, Steps

(* Evidence of one attack is not split over two active alerts, unless an   *)
(* analyst reopened one, or one was opened while an event of the other was *)
(* in process().                                                           *)
THEOREM TwinsHaveCause == Spec => []TwinsNeedCause
<1>1. Init => TwinsInv
  BY Domain, Nothing DEF Init, WindowInit, TwinsInv
<1>2. Shape /\ TwinsInv /\ [Next]_vars => TwinsInv'
  BY TwinsStep
<1>3. Shape /\ TwinsInv => TwinsNeedCause
  <2> SUFFICES ASSUME Shape, TwinsInv, NEW i \in DOMAIN alerts, NEW j \in DOMAIN alerts, i < j,
                      alerts[i].fp = alerts[j].fp, alerts[i].st = "active", alerts[j].st = "active",
                      LastSeen(alerts[j]) - LastSeen(alerts[i]) <= Window,
                      ~alerts[i].reopened, ~alerts[j].reopened, ~alerts[i].overlapped, ~alerts[j].overlapped
               PROVE  FALSE
    BY DEF TwinsNeedCause
  <2>1. LastSeen(alerts[i]) \in Nat /\ LastSeen(alerts[j]) \in Nat
    BY Seen
  <2>2. LastSeen(alerts[i]) + Window < LastSeen(alerts[j])
    BY DEF TwinsInv, Apart, Free
  <2> QED
    BY <2>1, <2>2, WindowAssumption
<1> QED
  BY <1>1, <1>2, <1>3, ShapeHolds, PTL DEF Spec

-----------------------------------------------------------------------------
(* What the evidence of an alert makes of it *)

NoiseEvent(e) ==
    /\ IsFirewall(e) /\ e.rated = 0 /\ Enrich(e).ioc_matches = {}
    /\ \/ ServiceTraffic(e) \/ SourceType(e) \in InfrastructureTypes
       \/ {IPContext(e.src), IPContext(e.dst)} \cap NonEndpoint # {}

AllNoise(a) == \A k \in DOMAIN a.log : NoiseEvent(a.log[k].event)
Quiet(a)    == a.sev = Low /\ a.incident = 0 /\ a.actions = {}

EventAsked(a, e, rank) ==
    /\ rank = Critical /\ e.host # "none" => <<"isolate_host", e.host>> \in a.actions
    /\ rank >= High /\ IsSafeBlockTarget(e.src) => <<"block_ip", e.src>> \in a.actions
Asked(a) == \A k \in DOMAIN a.log : EventAsked(a, a.log[k].event, a.log[k].rank)

EvidenceInv == \A i \in DOMAIN alerts : (AllNoise(alerts[i]) => Quiet(alerts[i])) /\ Asked(alerts[i])

(* No rule rates noise, and nothing raises what no rule rated.             *)
LEMMA NoiseRatesLow == ASSUME NEW e, NEW n, NoiseEvent(e) PROVE TriageEvent(e, n) = Low
<1> DEFINE x == Enrich(e)
<1>1. Noise(e, x)
  BY DEF NoiseEvent, Noise, Enrich
<1>2. x.ioc_matches = {}
  BY DEF NoiseEvent
<1>3. e.type[1] = "opnsense" /\ e.rated = 0
  BY DEF NoiseEvent, IsFirewall
<1> HIDE DEF x
<1>4. ASSUME NEW s PROVE ~Fires(e, x, n, s)
  <2>1. ~SensorRule(e, s) /\ ~WebRule(e, x, n, s) /\ ~FlowRule(e, n, s)
    BY <1>3 DEF SensorRule, WebRule, FlowRule
  <2>2. ~LinuxRule(e, n, s) /\ ~WindowsRule(e, n, s)
    BY <1>3 DEF LinuxRule, WindowsRule
  <2>3. ~FirewallRule(e, x, n, s)
    BY <1>1 DEF FirewallRule, Eligible
  <2> QED
    BY <2>1, <2>2, <2>3 DEF Fires
<1>5. {s \in Low..Critical : Fires(e, x, n, s) \/ s = e.rated} = {}
  BY <1>3, <1>4 DEF Low, Critical
<1>6. RuleRank(e, x, n) = Low
  BY <1>5 DEF RuleRank, Highest
<1>7. {s \in {High} : x.ioc_matches # {}} = {}
  BY <1>2
<1>8. WithIOC(e, x, n) = Low
  BY <1>6, <1>7 DEF WithIOC, Highest, Low, Medium, High, Critical
<1>9. {h \in {High} : x.critical_asset /\ WithIOC(e, x, n) >= Medium} = {}
  BY <1>8 DEF Low, Medium
<1>10. TriageEvent(e, n) = Highest({WithIOC(e, x, n)} \cup
         {h \in {High} : x.critical_asset /\ WithIOC(e, x, n) >= Medium})
  BY DEF TriageEvent, x
<1> QED
  BY <1>8, <1>9, <1>10 DEF Highest, Low, Medium, High, Critical

LEMMA GrownEvidence ==
    ASSUME NEW a, NEW v, NEW s, NEW m, IsAlert(a), Grown(a, m, v, s), s = TriageEvent(v.event, Len(a.log) + 1),
           AllNoise(a) => Quiet(a), Asked(a)
    PROVE  (AllNoise(m) => Quiet(m)) /\ Asked(m)
<1>0. PICK e : e = v.event
  OBVIOUS
<1> DEFINE x == [event |-> e, at |-> v.at, rank |-> s]
<1>1. PICK n : n = Len(a.log)
  OBVIOUS
<1>2. m.log = Append(a.log, x) /\ IsSeq(a.log) /\ x.event = e /\ x.rank = s
  BY <1>0 DEF Grown, IsAlert
<1> HIDE DEF x
<1>3. /\ n \in Nat /\ DOMAIN a.log = 1..n /\ DOMAIN m.log = 1..(n + 1)
      /\ \A k \in 1..n : m.log[k] = a.log[k]
      /\ m.log[n + 1] = x
  BY <1>1, <1>2, Domain, Appended
<1>4. ASSUME AllNoise(m) PROVE Quiet(m)
  <2>1. NoiseEvent(e)
    BY <1>2, <1>3, <1>4 DEF AllNoise
  <2>2. AllNoise(a)
    BY <1>3, <1>4 DEF AllNoise
  <2>3. s = Low
    BY <1>0, <2>1, NoiseRatesLow
  <2>4. m.sev = Low
    BY <2>2, <2>3 DEF Quiet, Grown
  <2>5. ProposeActions(e, m.sev) = {} /\ ~(m.sev >= High)
    BY <2>4 DEF ProposeActions, Low, High
  <2> QED
    BY <1>0, <2>2, <2>4, <2>5 DEF Quiet, Grown
<1>5. a.actions \subseteq m.actions /\ ProposeActions(e, m.sev) \subseteq m.actions
  BY <1>0 DEF Grown
<1>6. EventAsked(m, e, s)
  <2>1. m.sev \in 1..4 /\ s <= m.sev
    BY DEF Grown
  <2>2. s = Critical /\ e.host # "none" => <<"isolate_host", e.host>> \in ProposeActions(e, m.sev)
    BY <2>1 DEF ProposeActions, High, Critical
  <2>3. s \in 1..4
    BY HighestRank DEF TriageEvent
  <2>4. s >= High /\ IsSafeBlockTarget(e.src) => <<"block_ip", e.src>> \in ProposeActions(e, m.sev)
    BY <2>1, <2>3 DEF ProposeActions, High
  <2> QED
    BY <1>5, <2>2, <2>4 DEF EventAsked
<1>7. ASSUME NEW k \in 1..n PROVE EventAsked(m, m.log[k].event, m.log[k].rank)
  <2>1. EventAsked(a, m.log[k].event, m.log[k].rank)
    BY <1>3 DEF Asked
  <2> QED
    BY <1>5, <2>1 DEF EventAsked
<1>8. Asked(m)
  BY <1>2, <1>3, <1>6, <1>7 DEF Asked
<1> QED
  BY <1>4, <1>8

LEMMA EvidenceStep == ASSUME Shape, EvidenceInv, [Next]_vars PROVE EvidenceInv'
<1>1. ASSUME NEW v, NEW words, Commits(v, words), Opened(v, words) PROVE EvidenceInv'
  <2>0. PICK m, n : m = alerts'[n] /\ n = Len(alerts) + 1
    OBVIOUS
  <2>1. PICK a, s : a = NewAlert(v.event, v.overlaps) /\ GrownAt(n, a, v, s)
    BY <1>1, <2>0, OpenedShape
  <2>2. a.log = <<>> /\ a.sev = Low /\ a.incident = 0 /\ a.actions = {}
    BY <2>1, NewAlertIsOne
  <2>3. (AllNoise(m) => Quiet(m)) /\ Asked(m)
    <3>1. Quiet(a) /\ Asked(a)
      BY <2>2, Nothing, Domain DEF Quiet, Asked
    <3>2. IsAlert(a) /\ Grown(a, m, v, s) /\ s = TriageEvent(v.event, Len(a.log) + 1)
      BY <2>0, <2>1 DEF GrownAt
    <3> QED
      BY <3>1, <3>2, GrownEvidence
  <2>4. /\ DOMAIN alerts = 1..(n - 1) /\ n \in Nat /\ DOMAIN alerts' = 1..n
        /\ \A i \in DOMAIN alerts : alerts'[i] = alerts[i]
    BY <1>1, <2>0, OpenedShape
  <2>5. ASSUME NEW i \in DOMAIN alerts'
        PROVE  (AllNoise(alerts'[i]) => Quiet(alerts'[i])) /\ Asked(alerts'[i])
    BY <2>0, <2>3, <2>4 DEF EvidenceInv
  <2> QED
    BY <2>5 DEF EvidenceInv, AllNoise, Quiet, Asked, EventAsked
<1>2. ASSUME NEW v, NEW words, Commits(v, words), Continued(v, words) PROVE EvidenceInv'
  <2>1. PICK i, a, m, s : /\ i = v.on /\ i \in DOMAIN alerts /\ a = alerts[i] /\ m = alerts'[i]
                          /\ GrownAt(i, a, v, s)
    BY <1>2, ContinuedShape
  <2>2. (AllNoise(m) => Quiet(m)) /\ Asked(m)
    BY <2>1, GrownEvidence DEF GrownAt, EvidenceInv
  <2>3. DOMAIN alerts' = DOMAIN alerts /\ \A j \in DOMAIN alerts \ {i} : alerts'[j] = alerts[j]
    BY <1>2, <2>1, ContinuedShape
  <2>4. ASSUME NEW j \in DOMAIN alerts'
        PROVE  (AllNoise(alerts'[j]) => Quiet(alerts'[j])) /\ Asked(alerts'[j])
    BY <2>1, <2>2, <2>3 DEF EvidenceInv
  <2> QED
    BY <2>4 DEF EvidenceInv, AllNoise, Quiet, Asked, EventAsked
<1>3. CASE UpdateAlertStatus
  <2>1. PICK i \in DOMAIN alerts, st \in {"active", "closed"} :
          /\ SameBut(alerts[i], alerts'[i], st)
          /\ \A j \in DOMAIN alerts \ {i} : alerts'[j] = alerts[j]
    BY <1>3, ChangeShape
  <2>2. DOMAIN alerts' = DOMAIN alerts
    BY <1>3, ChangeShape
  <2> QED
    BY <2>1, <2>2 DEF SameBut, EvidenceInv, AllNoise, Quiet, Asked, EventAsked
<1>4. CASE Waits
  BY <1>4 DEF Waits, EvidenceInv, AllNoise, Quiet, Asked, EventAsked
<1> QED
  BY <1>1, <1>2, <1>3, <1>4, Steps DEF Goes, Commits

LEMMA EvidenceHolds == Spec => []EvidenceInv
<1>1. Init => EvidenceInv
  BY Domain, Nothing DEF Init, WindowInit, EvidenceInv
<1>2. Shape /\ EvidenceInv /\ [Next]_vars => EvidenceInv'
  BY EvidenceStep
<1> QED
  BY <1>1, <1>2, ShapeHolds, PTL DEF Spec

(* However often the network's own services are in the firewall's log, and *)
(* whatever the volumes are, they raise no alert, incident or action.      *)
THEOREM NoiseIsLow == Spec => []NoiseStaysLow
<1>1. EvidenceInv => NoiseStaysLow
  BY DEF EvidenceInv, NoiseStaysLow, AllNoise, NoiseEvent, Quiet, Evidence
<1> QED
  BY <1>1, EvidenceHolds, PTL

(* No number of events, hosts or sources in one alert makes the check      *)
(* against duplicate actions swallow a target.                             *)
THEOREM TargetsAreAsked == Spec => []EveryTargetIsAsked
<1>1. EvidenceInv => EveryTargetIsAsked
  BY DEF EvidenceInv, EveryTargetIsAsked, Asked, EventAsked, Evidence
<1> QED
  BY <1>1, EvidenceHolds, PTL

-----------------------------------------------------------------------------
(* The script *)

Outcomes == {"TP", "TN", "FP", "FN", "NO_EVIDENCE"}
Results == [expected: {"attack", "benign"}, outcome: Outcomes, passed: BOOLEAN, alone: BOOLEAN]

(* What the script has read, and up to which step it has read nothing.     *)
IsReading(r) ==
    /\ r = [severity |-> r.severity, alone |-> r.alone, incident |-> r.incident, actions |-> r.actions]
    /\ r.severity \in 0..4 /\ r.alone \in BOOLEAN
Searching == step \in {"ready", "polling"}
Reading == step \in {"incidents", "actions", "audits"}

ScriptInv ==
    /\ feed \in Feeds
    /\ coming \in [DOMAIN Markers -> 0..Burst]
    /\ results \in Seq(Results) /\ plan \in Seq({"attack", "benign"}) /\ lost \in Nat
    /\ Len(results) + lost + Len(plan) <= Len(Markers)
    /\ Searching \/ step = "settling" \/ Reading
    /\ step # "ready" => plan # <<>>
    /\ ~Searching => observed \in DOMAIN alerts
    /\ Searching => observed = 0
    /\ IsReading(read)

(* What a step may do to the alerts: evidence stays where it is and no     *)
(* severity falls.                                                         *)
Kept(a, b) ==
    /\ DOMAIN a.log \subseteq DOMAIN b.log /\ \A k \in DOMAIN a.log : b.log[k] = a.log[k]
    /\ a.sev <= b.sev
AlertsKept == \A i \in DOMAIN alerts : i \in DOMAIN alerts' /\ Kept(alerts[i], alerts'[i])

LEMMA GrownKept ==
    ASSUME NEW a, NEW v, NEW s, NEW m, IsAlert(a), Grown(a, m, v, s) PROVE Kept(a, m)
<1> DEFINE x == [event |-> v.event, at |-> v.at, rank |-> s]
<1>1. m.log = Append(a.log, x) /\ IsSeq(a.log) /\ a.sev <= m.sev
  BY DEF Grown, IsAlert
<1> HIDE DEF x
<1> QED
  BY <1>1, Appended, Domain DEF Kept

LEMMA AlertsStep == ASSUME Shape, [Next]_vars PROVE AlertsKept
<1>0. \A i \in DOMAIN alerts : Kept(alerts[i], alerts[i])
  BY DEF Kept, Shape, Rows, HasEvents, IsAlert
<1>1. ASSUME NEW v, NEW words, Commits(v, words), Opened(v, words) PROVE AlertsKept
  <2>1. DOMAIN alerts = 1..Len(alerts) /\ Len(alerts) \in Nat /\ DOMAIN alerts' = 1..(Len(alerts) + 1)
        /\ \A i \in DOMAIN alerts : alerts'[i] = alerts[i]
    BY <1>1, OpenedShape
  <2> QED
    BY <1>0, <2>1 DEF AlertsKept
<1>2. ASSUME NEW v, NEW words, Commits(v, words), Continued(v, words) PROVE AlertsKept
  <2>1. PICK i, a, s : i = v.on /\ i \in DOMAIN alerts /\ a = alerts[i] /\ GrownAt(i, a, v, s)
    BY <1>2, ContinuedShape
  <2>2. Kept(alerts[i], alerts'[i])
    BY <2>1, GrownKept DEF GrownAt
  <2> QED
    BY <1>0, <1>2, <2>1, <2>2, ContinuedShape DEF AlertsKept
<1>3. CASE UpdateAlertStatus
  <2>1. PICK i \in DOMAIN alerts, st \in {"active", "closed"} :
          SameBut(alerts[i], alerts'[i], st) /\ \A j \in DOMAIN alerts \ {i} : alerts'[j] = alerts[j]
    BY <1>3, ChangeShape
  <2>2. Kept(alerts[i], alerts'[i])
    BY <1>0, <2>1 DEF Kept, SameBut
  <2> QED
    BY <1>0, <1>3, <2>1, <2>2, ChangeShape DEF AlertsKept
<1>4. CASE Waits
  BY <1>0, <1>4 DEF Waits, AlertsKept
<1> QED
  BY <1>1, <1>2, <1>3, <1>4, Steps DEF Goes, Commits

(* What the script does, and what it sees of the others' steps.            *)
Elsewhere ==
    /\ UNCHANGED trial
    /\ Receive \/ (\E c \in calls : Abandon(c)) \/ UpdateAlertStatus \/ Tick \/ UNCHANGED window
Searches == Start \/ Poll \/ NoEvidence
Reviews  == ReadAlert \/ ReadIncidents \/ ReadActions
LEMMA TrialSteps ==
    ASSUME [Next]_vars PROVE Searches \/ Reviews \/ Grade \/ RequestFails \/ Arrive \/ Return \/ Elsewhere
  BY DEF Next, TrialStep, Others, vars, Searches, Reviews, Elsewhere

LEMMA BurstKnown == Burst \in Nat /\ Burst > 0
  BY TrialAssumption

LEMMA UnreadIsReading == IsReading(Unread)
  BY DEF IsReading, Unread

LEMMA ScriptInit == Init => ScriptInv
<1> SUFFICES ASSUME Init PROVE ScriptInv
  OBVIOUS
<1>1. /\ feed \in Feeds /\ plan \in Plans[feed] /\ step = "ready" /\ results = <<>> /\ lost = 0
      /\ coming = [k \in DOMAIN Markers |-> 0] /\ observed = 0 /\ read = Unread
  BY DEF Init, WindowInit
<1>2. plan \in Seq({"attack", "benign"}) /\ Len(plan) <= Len(Markers)
  BY <1>1, TrialAssumption
<1>3. Len(plan) \in Nat /\ Len(results) = 0 /\ results \in Seq(Results)
  BY <1>1, <1>2, LenProperties
<1>4. coming \in [DOMAIN Markers -> 0..Burst]
  BY <1>1, BurstKnown
<1>5. Len(results) + lost + Len(plan) <= Len(Markers)
  BY <1>1, <1>2, <1>3
<1> QED
  BY <1>1, <1>2, <1>3, <1>4, <1>5, UnreadIsReading DEF ScriptInv, Searching, Reading

(* The trial that is made has a marker.                                    *)
LEMMA MarkerKnown ==
    ASSUME ScriptInv
    PROVE  /\ Len(plan) \in Nat /\ Len(results) \in Nat /\ lost \in Nat
           /\ DOMAIN Markers = 1..Len(Markers) /\ Len(Markers) \in Nat
           /\ plan # <<>> => Current \in DOMAIN Markers /\ Head(plan) \in {"attack", "benign"}
<1>1. Len(plan) \in Nat /\ Len(results) \in Nat /\ lost \in Nat
  BY LenProperties DEF ScriptInv
<1>2. DOMAIN Markers = 1..Len(Markers) /\ Len(Markers) \in Nat
  BY TrialAssumption, LenProperties
<1>3. ASSUME plan # <<>> PROVE Len(plan) >= 1 /\ Head(plan) \in {"attack", "benign"}
  <2>1. plan \in Seq({"attack", "benign"})
    BY DEF ScriptInv
  <2> QED
    BY <1>1, <1>3, <2>1, HeadTailProperties, EmptySeq
<1> QED
  BY <1>1, <1>2, <1>3 DEF Current, ScriptInv

(* A trial ends, with a record or without.                                 *)
LEMMA EndTypes ==
    ASSUME ScriptInv, plan # <<>>, Ends
    PROVE  /\ plan' \in Seq({"attack", "benign"}) /\ Len(plan') = Len(plan) - 1
           /\ step' = "ready" /\ observed' = 0 /\ read' = Unread
           /\ feed' = feed /\ alerts' = alerts /\ calls' = calls /\ coming' = coming
  BY HeadTailProperties DEF Ends, window, ScriptInv

LEMMA RecordTypes ==
    ASSUME ScriptInv, plan # <<>>, NEW outcome \in Outcomes, NEW passed \in BOOLEAN, Record(outcome, passed)
    PROVE  /\ results' \in Seq(Results) /\ Len(results') = Len(results) + 1
           /\ results'[Len(results) + 1] =
                [expected |-> Head(plan), outcome |-> outcome, passed |-> passed, alone |-> read.alone]
           /\ \A k \in 1..Len(results) : results'[k] = results[k]
           /\ Len(results') + lost' + Len(plan') <= Len(Markers) /\ lost' = lost
<1> DEFINE r == [expected |-> Head(plan), outcome |-> outcome, passed |-> passed, alone |-> read.alone]
<1>1. r \in Results
  BY MarkerKnown DEF Results, ScriptInv, IsReading
<1>2. results' = Append(results, r) /\ Ends /\ lost' = lost
  BY DEF Record
<1> HIDE DEF r
<1>3. /\ results' \in Seq(Results) /\ Len(results') = Len(results) + 1
      /\ results'[Len(results) + 1] = r /\ \A k \in 1..Len(results) : results'[k] = results[k]
  BY <1>1, <1>2, AppendProperties DEF ScriptInv
<1>4. Len(plan') = Len(plan) - 1
  BY <1>2, EndTypes
<1> QED
  BY <1>2, <1>3, <1>4, MarkerKnown DEF r, ScriptInv

LEMMA RecordKeepsScript ==
    ASSUME ScriptInv, plan # <<>>, NEW outcome \in Outcomes, NEW passed \in BOOLEAN, Record(outcome, passed)
    PROVE  ScriptInv'
<1>1. Ends
  BY DEF Record
<1> QED
  BY <1>1, EndTypes, RecordTypes, UnreadIsReading DEF ScriptInv, Searching, Reading, IsReading, Unread

(* What a step of the others leaves to the script.                         *)
LEMMA Untouched ==
    ASSUME ScriptInv, UNCHANGED <<plan, step, observed, read, lost, results>>, feed' = feed,
           coming' \in [DOMAIN Markers -> 0..Burst], DOMAIN alerts \subseteq DOMAIN alerts'
    PROVE  ScriptInv'
  BY DEF ScriptInv, Searching, Reading, IsReading

LEMMA GradeRecords ==
    ASSUME Grade
    PROVE  \E outcome \in Outcomes, passed \in BOOLEAN :
             /\ outcome = Outcome(Head(plan), read.severity >= High)
             /\ passed <=> /\ outcome \in {"TP", "TN"}
                           /\ NotificationPolicy(outcome, read.incident, read.actions)
             /\ Record(outcome, passed)
<1>1. PICK outcome : outcome = Outcome(Head(plan), read.severity >= High)
  OBVIOUS
<1>2. PICK passed \in BOOLEAN :
        passed = (/\ outcome \in {"TP", "TN"}
                  /\ NotificationPolicy(outcome, read.incident, read.actions))
  BY DEF NotificationPolicy
<1>3. outcome \in Outcomes
  BY <1>1 DEF Outcome, Outcomes
<1>4. Record(outcome, passed)
  BY <1>1, <1>2 DEF Grade
<1> QED
  BY <1>1, <1>2, <1>3, <1>4

LEMMA ScriptStep == ASSUME Shape, ScriptInv, [Next]_vars PROVE ScriptInv'
<1>1. DOMAIN alerts \subseteq DOMAIN alerts'
  BY AlertsStep DEF AlertsKept
<1>2. ASSUME Arrive \/ Return \/ Elsewhere PROVE feed' = feed
  BY <1>2 DEF Arrive, Return, Elsewhere, Process, Suspend, Resume, Save, Abandon, Receive, UpdateAlertStatus,
              Tick, window
<1>3. CASE Start
  <2>1. PICK n : n = IF Head(plan) = "benign" THEN 1 ELSE Burst
    OBVIOUS
  <2>2. n \in 0..Burst
    BY <2>1, BurstKnown
  <2>3. coming' = [coming EXCEPT ![Current] = n]
    BY <1>3, <2>1 DEF Start
  <2>4. coming' \in [DOMAIN Markers -> 0..Burst]
    BY <2>2, <2>3 DEF ScriptInv
  <2>5. /\ step = "ready" /\ step' = "polling" /\ plan # <<>> /\ feed' = feed
        /\ UNCHANGED <<plan, observed, read, lost, results>>
    BY <1>3 DEF Start, window
  <2> QED
    BY <2>4, <2>5 DEF ScriptInv, Searching, Reading, IsReading
<1>4. CASE Poll
  <2>1. FindAlert \subseteq DOMAIN alerts /\ Newest(FindAlert) \subseteq FindAlert
    BY DEF FindAlert, Newest
  <2> QED
    BY <1>1, <1>4, <2>1 DEF Poll, window, ScriptInv, Searching, Reading, IsReading
<1>5. CASE NoEvidence
  BY <1>5, RecordKeepsScript DEF NoEvidence, ScriptInv, Outcomes
<1>6. CASE ReadAlert
  <2>1. alerts[observed].sev \in 0..4
    BY <1>6 DEF ReadAlert, Reads, Shape, Rows, HasEvents, IsAlert, ScriptInv, Searching
  <2>2. read' = [severity |-> alerts[observed].sev, alone |-> \A l \in Evidence(alerts[observed]) : Ours(l),
                 incident |-> read.incident, actions |-> read.actions]
    BY <1>6 DEF ReadAlert, ScriptInv, IsReading
  <2>3. IsReading(read')
    BY <2>1, <2>2 DEF IsReading
  <2> QED
    BY <1>6, <2>3 DEF ReadAlert, Reads, window, ScriptInv, Searching, Reading, IsReading
<1>7. CASE ReadIncidents
  <2>1. read' = [severity |-> read.severity, alone |-> read.alone,
                 incident |-> alerts[observed].incident, actions |-> read.actions]
    BY <1>7 DEF ReadIncidents, ScriptInv, IsReading
  <2>2. IsReading(read')
    BY <2>1 DEF ScriptInv, IsReading
  <2> QED
    BY <1>7, <2>2 DEF ReadIncidents, Reads, window, ScriptInv, Searching, Reading, IsReading
<1>8. CASE ReadActions
  <2>1. read' = [severity |-> read.severity, alone |-> read.alone,
                 incident |-> read.incident, actions |-> alerts[observed].actions]
    BY <1>8 DEF ReadActions, ScriptInv, IsReading
  <2>2. IsReading(read')
    BY <2>1 DEF ScriptInv, IsReading
  <2> QED
    BY <1>8, <2>2 DEF ReadActions, Reads, window, ScriptInv, Searching, Reading, IsReading
<1>9. CASE Grade
  <2>1. PICK outcome \in Outcomes, passed \in BOOLEAN : Record(outcome, passed)
    BY <1>9, GradeRecords
  <2> QED
    BY <1>9, <2>1, RecordKeepsScript DEF Grade, ScriptInv
<1>10. CASE RequestFails
  <2>1. Ends /\ plan # <<>> /\ lost' = lost + 1 /\ results' = results
    BY <1>10 DEF RequestFails, ScriptInv
  <2>2. Len(results') + lost' + Len(plan') <= Len(Markers) /\ lost' \in Nat
    BY <2>1, EndTypes, MarkerKnown DEF ScriptInv
  <2> QED
    BY <2>1, <2>2, EndTypes, UnreadIsReading DEF ScriptInv, Searching, Reading, IsReading, Unread
<1>11. CASE Arrive
  <2>1. PICK k \in DOMAIN Markers, status \in Answers :
          /\ Cardinality(InHand(k)) \in 0..(coming[k] - 1)
          /\ \/ Process(Normalize(RequestOf(k, status))) /\ coming' = [coming EXCEPT ![k] = @ - 1]
             \/ Suspend(Normalize(RequestOf(k, status))) /\ UNCHANGED coming
    BY <1>11, Zenon DEF Arrive
  <2>2. coming' \in [DOMAIN Markers -> 0..Burst]
    <3>1. coming \in [DOMAIN Markers -> 0..Burst]
      BY DEF ScriptInv
    <3>2. Cardinality(InHand(k)) \in 0..(coming[k] - 1) /\ coming[k] \in 0..Burst
      BY <2>1, <3>1
    <3>3. coming[k] - 1 \in 0..Burst
      BY <3>2, BurstKnown
    <3>4. coming' = [coming EXCEPT ![k] = coming[k] - 1] \/ coming' = coming
      BY <2>1
    <3> QED
      BY <3>1, <3>3, <3>4
  <2> QED
    BY <1>1, <1>2, <1>11, <2>2, Untouched DEF Arrive
<1>12. CASE Return
  <2>1. PICK c \in calls :
          /\ \A k \in DOMAIN Markers : c \in InHand(k) => coming[k] > 0
          /\ coming' = [k \in DOMAIN Markers |-> coming[k] - IF c \in InHand(k) THEN 1 ELSE 0]
    BY <1>12 DEF Return
  <2>2. ASSUME NEW k \in DOMAIN Markers PROVE coming[k] - (IF c \in InHand(k) THEN 1 ELSE 0) \in 0..Burst
    <3>1. coming[k] \in 0..Burst
      BY DEF ScriptInv
    <3> QED
      BY <2>1, <3>1, BurstKnown
  <2>3. coming' \in [DOMAIN Markers -> 0..Burst]
    BY <2>1, <2>2
  <2> QED
    BY <1>1, <1>2, <1>12, <2>3, Untouched DEF Return
<1>13. CASE Elsewhere
  BY <1>1, <1>2, <1>13, Untouched DEF Elsewhere, trial, ScriptInv
<1> QED
  BY <1>3, <1>4, <1>5, <1>6, <1>7, <1>8, <1>9, <1>10, <1>11, <1>12, <1>13, TrialSteps DEF Searches, Reviews

LEMMA ScriptHolds == Spec => []ScriptInv
  BY ScriptInit, ScriptStep, ShapeHolds, PTL DEF Spec

-----------------------------------------------------------------------------
(* Severity, incident and actions of an alert rise together.               *)

Raised(a) == a.incident = a.sev /\ <<"notify_soc", "soc-analyst">> \in a.actions
Together(a) == IF a.sev >= High THEN Raised(a) ELSE a.incident = 0 /\ a.actions = {}
TogetherInv == \A i \in DOMAIN alerts : Together(alerts[i])

LEMMA GrownTogether ==
    ASSUME NEW a, NEW v, NEW s, NEW m, IsAlert(a), Grown(a, m, v, s), Together(a) PROVE Together(m)
<1>1. a.sev \in 1..4 /\ m.sev \in 1..4 /\ a.sev <= m.sev
  BY DEF IsAlert, Grown
<1>2. m.actions = a.actions \cup ProposeActions(v.event, m.sev)
  BY DEF Grown
<1>3. CASE m.sev >= High
  BY <1>1, <1>2, <1>3 DEF Together, Raised, Grown, ProposeActions, High
<1>4. CASE ~(m.sev >= High)
  BY <1>1, <1>2, <1>4 DEF Together, Grown, ProposeActions, High
<1> QED
  BY <1>3, <1>4

LEMMA TogetherStep == ASSUME Shape, TogetherInv, [Next]_vars PROVE TogetherInv'
<1>1. ASSUME NEW v, NEW words, Commits(v, words), Opened(v, words) PROVE TogetherInv'
  <2>0. PICK m, n : m = alerts'[n] /\ n = Len(alerts) + 1
    OBVIOUS
  <2>1. PICK a, s : a = NewAlert(v.event, v.overlaps) /\ GrownAt(n, a, v, s)
    BY <1>1, <2>0, OpenedShape
  <2>2. Together(a)
    BY <2>1, NewAlertIsOne DEF Together, Low, High
  <2>3. Together(m)
    BY <2>0, <2>1, <2>2, GrownTogether DEF GrownAt
  <2>4. /\ DOMAIN alerts = 1..(n - 1) /\ n \in Nat /\ DOMAIN alerts' = 1..n
        /\ \A i \in DOMAIN alerts : alerts'[i] = alerts[i]
    BY <1>1, <2>0, OpenedShape
  <2>5. ASSUME NEW i \in DOMAIN alerts' PROVE Together(alerts'[i])
    BY <2>0, <2>3, <2>4 DEF TogetherInv
  <2> QED
    BY <2>5 DEF TogetherInv, Together, Raised
<1>2. ASSUME NEW v, NEW words, Commits(v, words), Continued(v, words) PROVE TogetherInv'
  <2>1. PICK i, a, s : i = v.on /\ i \in DOMAIN alerts /\ a = alerts[i] /\ GrownAt(i, a, v, s)
    BY <1>2, ContinuedShape
  <2>2. Together(alerts'[i])
    BY <2>1, GrownTogether DEF GrownAt, TogetherInv
  <2>3. DOMAIN alerts' = DOMAIN alerts /\ \A j \in DOMAIN alerts \ {i} : alerts'[j] = alerts[j]
    BY <1>2, <2>1, ContinuedShape
  <2>4. ASSUME NEW j \in DOMAIN alerts' PROVE Together(alerts'[j])
    BY <2>2, <2>3 DEF TogetherInv
  <2> QED
    BY <2>4 DEF TogetherInv, Together, Raised
<1>3. CASE UpdateAlertStatus
  <2>1. PICK i \in DOMAIN alerts, st \in {"active", "closed"} :
          SameBut(alerts[i], alerts'[i], st) /\ \A j \in DOMAIN alerts \ {i} : alerts'[j] = alerts[j]
    BY <1>3, ChangeShape
  <2>2. Together(alerts'[i])
    BY <2>1 DEF SameBut, TogetherInv, Together, Raised
  <2>3. ASSUME NEW j \in DOMAIN alerts' PROVE Together(alerts'[j])
    BY <1>3, <2>1, <2>2, ChangeShape DEF TogetherInv
  <2> QED
    BY <2>3 DEF TogetherInv, Together, Raised
<1>4. CASE Waits
  BY <1>4 DEF Waits, TogetherInv, Together, Raised
<1> QED
  BY <1>1, <1>2, <1>3, <1>4, Steps DEF Goes, Commits

LEMMA TogetherHolds == Spec => []TogetherInv
<1>1. Init => TogetherInv
  BY Domain, Nothing DEF Init, WindowInit, TogetherInv
<1>2. Shape /\ TogetherInv /\ [Next]_vars => TogetherInv'
  BY TogetherStep
<1> QED
  BY <1>1, <1>2, ShapeHolds, PTL DEF Spec

(* What was read is no more than what the alert is by now; and incident    *)
(* and actions, read after a high severity, were there.                    *)
SoFar(a) ==
    /\ read.severity <= a.sev
    /\ read.incident # 0 \/ read.actions # {} => a.sev >= High
    /\ step # "incidents" /\ read.severity >= High => read.incident # 0
    /\ step = "audits" /\ read.severity >= High => <<"notify_soc", "soc-analyst">> \in read.actions
    /\ step = "incidents" => read.incident = 0
    /\ step # "audits" => read.actions = {}
ReadInv ==
    /\ ~Reading => read = Unread
    /\ Reading => SoFar(alerts[observed])

LEMMA ReadStep == ASSUME Shape, ScriptInv, TogetherInv, ReadInv, [Next]_vars PROVE ReadInv'
<1>0. PICK a : a = alerts[observed]
  OBVIOUS
<1>1. ASSUME ~Searching PROVE a.sev \in 1..4 /\ Together(a)
  <2>1. HasEvents(a) /\ Together(a)
    BY <1>0, <1>1 DEF Shape, Rows, ScriptInv, TogetherInv
  <2> QED
    BY <2>1 DEF HasEvents, IsAlert
<1>2. CASE Start \/ Poll
  BY <1>2 DEF Start, Poll, ReadInv, Reading
<1>3. CASE Ends
  BY <1>3 DEF Ends, ReadInv, Reading
<1>4. CASE ReadAlert
  <2>1. /\ step = "settling" /\ step' = "incidents" /\ read = Unread /\ alerts'[observed'] = a
    BY <1>0, <1>4 DEF ReadAlert, Reads, window, ReadInv, Reading
  <2>2. read'.severity = a.sev /\ read'.incident = 0 /\ read'.actions = {}
    BY <1>0, <1>4, <2>1 DEF ReadAlert, Unread
  <2>3. a.sev \in 1..4
    BY <1>1, <2>1 DEF Searching
  <2> QED
    BY <2>1, <2>2, <2>3 DEF ReadInv, Reading, SoFar
<1>5. CASE ReadIncidents
  <2>1. step = "incidents" /\ step' = "actions" /\ alerts'[observed'] = a /\ SoFar(a)
    BY <1>0, <1>5 DEF ReadIncidents, Reads, window, ReadInv, Reading
  <2>2. read'.severity = read.severity /\ read'.incident = a.incident /\ read'.actions = read.actions
    BY <1>0, <1>5 DEF ReadIncidents, ScriptInv, IsReading
  <2>3. a.sev \in 1..4 /\ Together(a) /\ read.severity \in 0..4
    BY <1>1, <2>1 DEF Searching, ScriptInv, IsReading
  <2> QED
    BY <2>1, <2>2, <2>3 DEF ReadInv, Reading, SoFar, Together, Raised, High
<1>6. CASE ReadActions
  <2>1. step = "actions" /\ step' = "audits" /\ alerts'[observed'] = a /\ SoFar(a)
    BY <1>0, <1>6 DEF ReadActions, Reads, window, ReadInv, Reading
  <2>2. read'.severity = read.severity /\ read'.incident = read.incident /\ read'.actions = a.actions
    BY <1>0, <1>6 DEF ReadActions, ScriptInv, IsReading
  <2>3. a.sev \in 1..4 /\ Together(a) /\ read.severity \in 0..4
    BY <1>1, <2>1 DEF Searching, ScriptInv, IsReading
  <2> QED
    BY <2>1, <2>2, <2>3 DEF ReadInv, Reading, SoFar, Together, Raised, High
<1>7. CASE UNCHANGED <<step, observed, read>>
  <2>1. CASE ~Reading
    BY <1>7, <2>1 DEF ReadInv, Reading
  <2>2. CASE Reading
    <3>1. PICK b : b = alerts'[observed]
      OBVIOUS
    <3>2. observed \in DOMAIN alerts /\ a.sev \in 1..4 /\ read.severity \in 0..4 /\ SoFar(a)
      BY <1>0, <1>1, <2>2 DEF ScriptInv, Searching, Reading, IsReading, ReadInv
    <3>3. a.sev <= b.sev /\ b.sev \in 1..4
      <4>1. observed \in DOMAIN alerts' /\ Kept(a, b)
        BY <1>0, <3>1, <3>2, AlertsStep DEF AlertsKept
      <4>2. HasEvents(b)'
        BY <3>1, <4>1, RowsStep DEF Rows
      <4> QED
        BY <4>1, <4>2 DEF Kept, HasEvents, IsAlert
    <3>4. read.severity <= b.sev /\ (read.incident # 0 \/ read.actions # {} => b.sev >= High)
      BY <3>2, <3>3 DEF SoFar, High
    <3> QED
      BY <1>7, <2>2, <3>1, <3>2, <3>4 DEF ReadInv, Reading, SoFar
  <2> QED
    BY <2>1, <2>2
<1> QED
  BY <1>2, <1>3, <1>4, <1>5, <1>6, <1>7, TrialSteps
     DEF Searches, Reviews, NoEvidence, Grade, RequestFails, Record, Arrive, Return, Elsewhere, trial

LEMMA ReadHolds == Spec => []ReadInv
<1>1. Init => ReadInv
  BY DEF Init, ReadInv, Reading
<1> QED
  BY <1>1, ReadStep, ShapeHolds, ScriptHolds, TogetherHolds, PTL DEF Spec

(* Alert, incidents and actions are read one after the other, while events *)
(* go on and any of the requests may end the trial.  A true positive       *)
(* always passes, and a true negative fails only where its alert, which    *)
(* was low when it was read, has become high since.                        *)
THEOREM GradesStandUp == Spec => GradesAreSound
<1>1. Shape /\ ScriptInv /\ TogetherInv /\ ReadInv /\ [Next]_vars =>
        (results' # results /\ observed # 0 =>
           LET r == results'[Len(results')]
           IN  /\ r.outcome = "TP" => r.passed
               /\ r.outcome = "TN" /\ ~r.passed => alerts[observed].sev >= High)
  <2> SUFFICES ASSUME Shape, ScriptInv, TogetherInv, ReadInv, [Next]_vars, results' # results, observed # 0
               PROVE  LET r == results'[Len(results')]
                      IN  /\ r.outcome = "TP" => r.passed
                          /\ r.outcome = "TN" /\ ~r.passed => alerts[observed].sev >= High
    OBVIOUS
  <2>1. Grade
    BY TrialSteps DEF Searches, Reviews, Start, Poll, NoEvidence, ReadAlert, ReadIncidents, ReadActions, Reads,
                      RequestFails, Arrive, Return, Elsewhere, trial, ScriptInv, Searching
  <2>2. PICK outcome \in Outcomes, passed \in BOOLEAN :
          /\ outcome = Outcome(Head(plan), read.severity >= High)
          /\ passed <=> /\ outcome \in {"TP", "TN"}
                        /\ NotificationPolicy(outcome, read.incident, read.actions)
          /\ Record(outcome, passed)
    BY <2>1, GradeRecords
  <2>3. plan # <<>> /\ step = "audits" /\ SoFar(alerts[observed])
    BY <2>1 DEF Grade, ScriptInv, ReadInv, Reading
  <2>4. Len(results) \in Nat /\ Len(results') = Len(results) + 1
        /\ results'[Len(results) + 1] =
             [expected |-> Head(plan), outcome |-> outcome, passed |-> passed, alone |-> read.alone]
    BY <2>2, <2>3, RecordTypes, MarkerKnown
  <2>5. results'[Len(results')].outcome = outcome /\ results'[Len(results')].passed = passed
    BY <2>4
  <2>6. outcome = "TP" => NotificationPolicy(outcome, read.incident, read.actions)
    BY <2>2, <2>3 DEF Outcome, NotificationPolicy, SoFar
  <2>7. outcome = "TN" /\ ~NotificationPolicy(outcome, read.incident, read.actions)
          => alerts[observed].sev >= High
    BY <2>3 DEF NotificationPolicy, SoFar
  <2> QED
    BY <2>2, <2>5, <2>6, <2>7
<1> QED
  BY <1>1, ReadHolds, ShapeHolds, ScriptHolds, TogetherHolds, PTL DEF Spec, GradesAreSound

-----------------------------------------------------------------------------
(* The requests of a trial, and their events *)

(* The first case whose test holds is taken.                               *)
LEMMA FirstAt ==
    ASSUME NEW cases, DOMAIN cases \subseteq Nat \ {0}, NEW n \in DOMAIN cases,
           cases[n][1], \A j \in 1..(n - 1) : ~cases[j][1]
    PROVE  First(cases) = cases[n][2]
<1> DEFINE P(i) == cases[i][1] /\ \A j \in 1..(i - 1) : ~cases[j][1]
           c == CHOOSE i \in DOMAIN cases : P(i)
<1>1. n \in DOMAIN cases /\ P(n)
  OBVIOUS
<1>2. c \in DOMAIN cases /\ P(c)
  <2> HIDE DEF P
  <2> QED
    BY <1>1
<1>3. First(cases) = cases[c][2]
  BY DEF First
<1> HIDE DEF c
<1>4. ~(c < n) /\ ~(n < c)
  <2>1. c \in Nat /\ n \in Nat /\ c >= 1 /\ n >= 1
    BY <1>2
  <2>2. ASSUME c < n PROVE FALSE
    BY <1>2, <2>1, <2>2
  <2>3. ASSUME n < c PROVE FALSE
    BY <1>2, <2>1, <2>3
  <2> QED
    BY <2>2, <2>3
<1> QED
  BY <1>2, <1>3, <1>4

(* Where some test holds, one of the values is taken.                      *)
LEMMA FirstIsCase ==
    ASSUME NEW cases, NEW n \in Nat \ {0}, DOMAIN cases = 1..n, cases[n][1]
    PROVE  \E i \in 1..n : First(cases) = cases[i][2]
<1> DEFINE T == {i \in 1..n : cases[i][1]}
<1>1. T \subseteq Nat /\ T # {}
  OBVIOUS
<1>2. PICK i \in T : \A j \in T : ~(<<j, i>> \in OpToRel(<, Nat))
  BY <1>1, NatLessThanWellFounded, WFMin
<1>3. \A j \in T : ~(j < i)
  BY <1>1, <1>2 DEF OpToRel
<1>4. i \in 1..n /\ cases[i][1] /\ \A j \in 1..(i - 1) : ~cases[j][1]
  BY <1>3
<1> QED
  BY <1>4, FirstAt

Carries(e, r) == "mark" \in DOMAIN e /\ e.mark = r.mark

LEMMA UbuntuMark == ASSUME NEW r PROVE Carries(UbuntuSyslog(r), r)
<1> DEFINE line == [Blank EXCEPT !.source = "ubuntu", !.host = r.host, !.mark = r.mark]
           ssh  == [line EXCEPT !.src = r.src, !.sport = r.sport, !.port = 22]
           cases == <<
             <<r.program = "sshd" /\ r.means = "failure", [ssh EXCEPT !.type = <<"linux", "ssh_auth_failure">>]>>,
             <<r.program = "sshd" /\ r.means = "success", [ssh EXCEPT !.type = <<"linux", "ssh_auth_success">>]>>,
             <<r.program = "sshd", [line EXCEPT !.type = <<"linux", "sshd_event">>]>>,
             <<r.means \in {"command", "risky_command"},
               [line EXCEPT !.type = <<"linux", "sudo_command">>, !.risky = r.means = "risky_command"]>>,
             <<r.means = "failure", [line EXCEPT !.type = <<"linux", "sudo_auth_failure">>]>>,
             <<TRUE, [line EXCEPT !.type = <<"linux", "syslog_event">>]>> >>
<1>1. UbuntuSyslog(r) = First(cases)
  BY DEF UbuntuSyslog
<1>2. DOMAIN cases = 1..6 /\ cases[6][1]
  OBVIOUS
<1>3. Carries(line, r) /\ Carries(ssh, r)
  BY DEF Blank, Carries
<1> HIDE DEF line, ssh
<1>4. /\ Carries(cases[1][2], r) /\ Carries(cases[2][2], r) /\ Carries(cases[3][2], r)
      /\ Carries(cases[4][2], r) /\ Carries(cases[5][2], r) /\ Carries(cases[6][2], r)
  BY <1>3 DEF Carries
<1> HIDE DEF cases
<1>5. PICK n \in 1..6 : First(cases) = cases[n][2]
  <2>1. 6 \in Nat \ {0}
    OBVIOUS
  <2> QED
    BY <1>2, <2>1, FirstIsCase, Zenon
<1> QED
  BY <1>1, <1>4, <1>5

(* Every parser copies the message, and so the mark.                       *)
LEMMA MarkIsKept == ASSUME NEW r PROVE Normalize(r).mark = r.mark
<1> DEFINE cases == Dispatch(r)
           e == First(cases)
<1>1. Carries(Addressed(r), r)
  BY DEF Addressed, Blank, Carries
<1>2. /\ Carries(Flow(r), r) /\ Carries(Suricata(r), r) /\ Carries(OpnsenseFilterlog(r), r)
      /\ Carries(Apache(r), r) /\ Carries(Windows(r), r) /\ Carries(Generic(r), r)
  BY <1>1 DEF Flow, Suricata, OpnsenseFilterlog, Apache, Windows, Generic, Blank, Carries
<1>3. DOMAIN cases = 1..7 /\ cases[7][1]
  BY DEF Dispatch
<1>4. /\ cases[1][2] = Flow(r) /\ cases[2][2] = Suricata(r) /\ cases[3][2] = UbuntuSyslog(r)
      /\ cases[4][2] = OpnsenseFilterlog(r) /\ cases[5][2] = Apache(r) /\ cases[6][2] = Windows(r)
      /\ cases[7][2] = Generic(r)
  BY DEF Dispatch
<1>5. Normalize(r) = IF r.hint \in {"none", "syslog", "udp-syslog"} THEN e ELSE [e EXCEPT !.source = r.hint]
  BY DEF Normalize
<1> HIDE DEF cases
<1>6. PICK n \in 1..7 : e = cases[n][2]
  <2>1. 7 \in Nat \ {0}
    OBVIOUS
  <2> QED
    BY <1>3, <2>1, FirstIsCase, Zenon
<1> HIDE DEF e
<1>7. Carries(e, r)
  BY <1>2, <1>4, <1>6, UbuntuMark
<1> QED
  BY <1>5, <1>7 DEF Carries

LEMMA RequestFields ==
    ASSUME NEW k, NEW status, NEW r, r = RequestOf(k, status)
    PROVE  /\ r.mark = Markers[k] /\ r.looks = Request.looks /\ r.words = Request.words
           /\ r.keys = Request.keys /\ r.means = Request.means /\ r.program = Request.program
           /\ r.src = Request.src /\ r.dst = Request.dst /\ r.host = Request.host
<1>1. Request = [field \in DOMAIN NoRaw |-> Request[field]]
  BY TrialAssumption
<1>2. {"mark", "looks", "words", "keys", "means", "program", "src", "dst", "host", "status"} \subseteq DOMAIN NoRaw
  BY DEF NoRaw
<1>3. \A field \in DOMAIN NoRaw \ {"status", "mark"} : r[field] = Request[field]
  BY <1>1 DEF RequestOf
<1>4. r.mark = Markers[k]
  BY <1>1, <1>2 DEF RequestOf
<1> QED
  BY <1>2, <1>3, <1>4

LEMMA RequestIsPlain ==
    ASSUME NEW k, NEW status, NEW e, e = Normalize(RequestOf(k, status))
    PROVE  /\ e.type \in {<<"web", "failed_request">>, <<"web", "access">>}
           /\ e.mark = Markers[k] /\ e.rated = 0
           /\ e.src = Request.src /\ e.dst = Request.dst /\ e.host = Request.host
<1> DEFINE r == RequestOf(k, status)
           formats == << <<"json" \in r.looks, "json">>, <<"apache" \in r.looks, "apache">>,
             <<r.looks \cap {"rfc5424", "bsd", "bsd_nohost"} # {}, "syslog">>, <<TRUE, "text">> >>
           cases == Dispatch(r)
           p == Apache(r)
<1>1. /\ r.mark = Markers[k] /\ r.looks = Request.looks /\ r.words = Request.words
      /\ r.keys = Request.keys /\ r.means = Request.means /\ r.program = Request.program
      /\ r.src = Request.src /\ r.dst = Request.dst /\ r.host = Request.host
  BY RequestFields
<1> HIDE DEF r
<1>2. Format(r) = "apache"
  <2>1. Format(r) = First(formats)
    BY DEF Format
  <2>0. "apache" \in r.looks /\ "json" \notin r.looks
    BY <1>1, BurstAssumption
  <2>2. formats[2][1] /\ ~formats[1][1] /\ formats[2][2] = "apache" /\ DOMAIN formats = 1..4
    <3>1. formats[2][1] = ("apache" \in r.looks) /\ formats[1][1] = ("json" \in r.looks)
      OBVIOUS
    <3>2. formats[2][2] = "apache" /\ DOMAIN formats = 1..4
      OBVIOUS
    <3> QED
      BY <2>0, <3>1, <3>2
  <2> HIDE DEF formats
  <2>3. /\ DOMAIN formats \subseteq Nat \ {0} /\ 2 \in DOMAIN formats
        /\ \A j \in 1..(2 - 1) : ~formats[j][1]
    BY <2>2
  <2> QED
    BY <2>1, <2>2, <2>3, FirstAt, Zenon
<1>3. First(cases) = p
  <2>0. "cicids" \notin r.words /\ "alert" \notin r.keys
    BY <1>1, BurstAssumption
  <2>1. /\ cases[5][1] /\ ~cases[1][1] /\ ~cases[2][1] /\ ~cases[3][1] /\ ~cases[4][1]
        /\ cases[5][2] = p /\ DOMAIN cases = 1..7
    <3> HIDE DEF p
    <3>1. /\ cases[1][1] = ("cicids" \in r.words)
          /\ cases[2][1] = ("alert" \in r.keys /\ ("event_type" \in r.keys \/ "suricata" \in r.words))
      BY DEF Dispatch
    <3>2. /\ cases[3][1] = (Format(r) = "syslog" /\ r.program \in {"sshd", "sudo"})
          /\ cases[4][1] = (Format(r) = "syslog" /\ r.program = "filterlog")
          /\ cases[5][1] = ("apache" \in r.words \/ Format(r) = "apache" \/ "access" \in r.keys)
      BY DEF Dispatch
    <3>3. cases[5][2] = p /\ DOMAIN cases = 1..7
      BY DEF Dispatch, p
    <3> HIDE DEF cases
    <3> QED
      BY <1>2, <2>0, <3>1, <3>2, <3>3
  <2> HIDE DEF cases, p
  <2>2. /\ DOMAIN cases \subseteq Nat \ {0} /\ 5 \in DOMAIN cases
        /\ \A j \in 1..(5 - 1) : ~cases[j][1]
    BY <2>1
  <2> QED
    BY <2>1, <2>2, FirstAt, Zenon
<1>4. e = IF r.hint \in {"none", "syslog", "udp-syslog"} THEN p ELSE [p EXCEPT !.source = r.hint]
  BY <1>3 DEF Normalize, r
<1>5. DOMAIN p = DOMAIN Blank /\ {"type", "mark", "rated", "src", "dst", "host"} \subseteq DOMAIN Blank
  BY DEF Apache, Addressed, Blank
<1>6. /\ p.type \in {<<"web", "failed_request">>, <<"web", "access">>}
      /\ p.mark = r.mark /\ p.rated = 0 /\ p.src = r.src /\ p.dst = r.dst /\ p.host = r.host
  BY <1>1, BurstAssumption DEF Apache, Addressed, Blank
<1> HIDE DEF p
<1>7. \A field \in DOMAIN Blank \ {"source"} : e[field] = p[field]
  BY <1>4, <1>5
<1> QED
  BY <1>1, <1>5, <1>6, <1>7

(* Fewer requests than the volumes make nothing high.                      *)
LEMMA BurstIsLow ==
    ASSUME NEW k, NEW status, NEW n \in 1..Burst PROVE TriageEvent(Normalize(RequestOf(k, status)), n) < High
<1> DEFINE e == Normalize(RequestOf(k, status))
           x == Enrich(e)
<1>1. /\ e.type \in {<<"web", "failed_request">>, <<"web", "access">>} /\ e.rated = 0
      /\ e.src = Request.src /\ e.dst = Request.dst /\ e.host = Request.host
  BY RequestIsPlain
<1> HIDE DEF e
<1>2. x.ioc_matches = {}
  BY <1>1, BurstAssumption DEF Enrich
<1>3. ~x.critical_asset
  <2>1. AssetKey(e) = AssetKey(Request) /\ AssetKey(Request) \notin CriticalAssets
    BY <1>1, BurstAssumption DEF AssetKey
  <2>2. x.critical_asset = (AssetKey(e) \in CriticalAssets)
    BY DEF Enrich
  <2> QED
    BY <2>1, <2>2
<1>4. n < Vol.failed_high /\ n < Vol.access
  <2>1. Vol.failed_high \in Nat /\ Vol.access \in Nat
    BY VolAssumption DEF Volumes
  <2> QED
    BY <2>1, BurstKnown, BurstAssumption
<1> HIDE DEF x
<1>5. ASSUME NEW s, s \in {High, Critical} PROVE ~Fires(e, x, n, s)
  <2>1. e.type[1] = "web" /\ e.type[2] \in {"failed_request", "access"}
    BY <1>1
  <2>2. ~SensorRule(e, s) /\ ~FlowRule(e, n, s) /\ ~LinuxRule(e, n, s) /\ ~WindowsRule(e, n, s)
    BY <2>1 DEF SensorRule, FlowRule, LinuxRule, WindowsRule
  <2>3. ~FirewallRule(e, x, n, s)
    BY <2>1 DEF FirewallRule, IsFirewall
  <2>4. ~WebRule(e, x, n, s)
    <3>1. ~(n >= Vol.failed_high) /\ ~(n >= Vol.access)
      <4>1. Vol.failed_high \in Nat /\ Vol.access \in Nat
        BY VolAssumption DEF Volumes
      <4> QED
        BY <1>4, <4>1, BurstKnown
    <3>2. e.type # <<"web", "suspicious_request">>
      BY <1>1
    <3>3. s # Medium
      BY <1>5 DEF Medium, High, Critical
    <3> QED
      BY <3>1, <3>2, <3>3 DEF WebRule, ByVolume
  <2> QED
    BY <2>2, <2>3, <2>4 DEF Fires
<1>6. RuleRank(e, x, n) \in {Low, Medium}
  <2> DEFINE S == {s \in Low..Critical : Fires(e, x, n, s) \/ s = e.rated}
  <2>1. High \notin S /\ Critical \notin S
    BY <1>1, <1>5 DEF High, Critical
  <2> HIDE DEF S
  <2>2. Highest(S) \in {Low, Medium}
    BY <2>1 DEF Highest
  <2> QED
    BY <2>2 DEF RuleRank, S
<1>7. WithIOC(e, x, n) \in {Low, Medium}
  BY <1>2, <1>6 DEF WithIOC, Highest, Low, Medium, High, Critical
<1>8. TriageEvent(e, n) \in {Low, Medium}
  BY <1>3, <1>7 DEF TriageEvent, x, Highest, Low, Medium, High, Critical
<1> QED
  BY <1>8 DEF Low, Medium, High, e

-----------------------------------------------------------------------------
(* Where the events of the trials are *)

Pure(a, k)   == \A j \in DOMAIN a.log : a.log[j].event.mark = Markers[k]
Clean(a, k)  == \A j \in DOMAIN a.log : a.log[j].event.mark # Markers[k]
Few(a, k, n) == Pure(a, k) => Len(a.log) + n <= Burst /\ a.sev < High
Started(k)   == k < Current \/ (k = Current /\ step # "ready")

(* No event has the marker of a trial that has not started; and an alert   *)
(* with nothing but a trial's events has no more than the burst, of which  *)
(* a part may still be on the way.                                         *)
AlertMarks ==
    \A k \in DOMAIN Markers :
        /\ Started(k) \/ (coming[k] = 0 /\ \A i \in DOMAIN alerts : Clean(alerts[i], k))
        /\ \A i \in DOMAIN alerts : Few(alerts[i], k, coming[k])

(* Whatever has a trial's marker is one of its requests.                   *)
Marked(e) == \A k \in DOMAIN Markers : e.mark = Markers[k] => \E status : e = Normalize(RequestOf(k, status))
CallMarks == \A c \in calls : Marked(c.event)

MarksInv == AlertMarks /\ CallMarks

(* A commit makes alert t of alert a, or of a new one, and no other.       *)
Touched(t, a, v, s) ==
    /\ t \in DOMAIN alerts' /\ GrownAt(t, a, v, s)
    /\ a = NewAlert(v.event, v.overlaps) \/ (t \in DOMAIN alerts /\ a = alerts[t])
    /\ \A i \in DOMAIN alerts' \ {t} : i \in DOMAIN alerts /\ alerts'[i] = alerts[i]

LEMMA CommitTouches ==
    ASSUME Shape, NEW v, NEW words, Commits(v, words) PROVE \E t, a, s : Touched(t, a, v, s)
<1>1. CASE Opened(v, words)
  <2>1. PICK a, s, t : t = Len(alerts) + 1 /\ a = NewAlert(v.event, v.overlaps) /\ GrownAt(t, a, v, s)
    BY <1>1, OpenedShape
  <2>2. /\ DOMAIN alerts = 1..Len(alerts) /\ Len(alerts) \in Nat /\ DOMAIN alerts' = 1..t
        /\ \A i \in DOMAIN alerts : alerts'[i] = alerts[i]
    BY <1>1, <2>1, OpenedShape
  <2>3. t \in DOMAIN alerts' /\ \A i \in DOMAIN alerts' \ {t} : i \in DOMAIN alerts
    BY <2>1, <2>2
  <2> QED
    BY <2>1, <2>2, <2>3 DEF Touched
<1>2. CASE Continued(v, words)
  <2>1. PICK i, a, s : i = v.on /\ i \in DOMAIN alerts /\ a = alerts[i] /\ GrownAt(i, a, v, s)
    BY <1>2, ContinuedShape
  <2>2. DOMAIN alerts' = DOMAIN alerts /\ \A j \in DOMAIN alerts \ {i} : alerts'[j] = alerts[j]
    BY <1>2, <2>1, ContinuedShape
  <2> QED
    BY <2>1, <2>2 DEF Touched
<1> QED
  BY <1>1, <1>2 DEF Commits

(* What an event is to trial k: another's, or one of its requests.         *)
Sent(e, k) ==
    \/ e.mark # Markers[k] /\ coming'[k] = coming[k]
    \/ (\E status : e = Normalize(RequestOf(k, status))) /\ coming[k] > 0 /\ coming'[k] = coming[k] - 1

LEMMA GrownMarks ==
    ASSUME NEW k \in DOMAIN Markers, NEW v, Sent(v.event, k), coming[k] \in 0..Burst,
           NEW a, NEW m, NEW s, IsAlert(a), Grown(a, m, v, s),
           s = TriageEvent(v.event, Len(a.log) + 1), Few(a, k, coming[k])
    PROVE  /\ Few(m, k, coming'[k])
           /\ coming[k] = 0 /\ Clean(a, k) => Clean(m, k)
<1> DEFINE x == [event |-> v.event, at |-> v.at, rank |-> s]
<1>1. PICK n, e : n = Len(a.log) /\ e = v.event
  OBVIOUS
<1>2. m.log = Append(a.log, x) /\ IsSeq(a.log) /\ x.event = e
  BY <1>1 DEF Grown, IsAlert
<1> HIDE DEF x
<1>3. /\ n \in Nat /\ DOMAIN a.log = 1..n /\ DOMAIN m.log = 1..(n + 1) /\ Len(m.log) = n + 1
      /\ \A j \in 1..n : m.log[j] = a.log[j]
      /\ m.log[n + 1] = x
  BY <1>1, <1>2, Domain, Appended
<1>4. ASSUME Pure(m, k) PROVE Len(m.log) + coming'[k] <= Burst /\ m.sev < High
  <2>1. e.mark = Markers[k]
    BY <1>2, <1>3, <1>4 DEF Pure
  <2>2. PICK status : e = Normalize(RequestOf(k, status)) /\ coming[k] > 0 /\ coming'[k] = coming[k] - 1
    BY <1>1, <2>1 DEF Sent
  <2>3. Pure(a, k)
    BY <1>3, <1>4 DEF Pure
  <2>4. n + coming[k] <= Burst /\ a.sev < High
    BY <1>1, <2>3 DEF Few
  <2>5. n + 1 \in 1..Burst
    BY <1>3, <2>2, <2>4, BurstKnown
  <2>6. s < High
    BY <1>1, <2>2, <2>5, BurstIsLow
  <2>7. m.sev < High
    BY <2>4, <2>6 DEF Grown
  <2>8. Len(m.log) + coming'[k] <= Burst
    BY <1>3, <2>2, <2>4, BurstKnown
  <2> QED
    BY <2>7, <2>8
<1>5. ASSUME coming[k] = 0, Clean(a, k) PROVE Clean(m, k)
  BY <1>1, <1>2, <1>3, <1>5 DEF Clean, Sent
<1> QED
  BY <1>4, <1>5 DEF Few

LEMMA CommitMarks ==
    ASSUME Shape, ScriptInv, AlertMarks, NEW v, NEW words, Commits(v, words),
           \A k \in DOMAIN Markers : Sent(v.event, k),
           step' = step, results' = results, lost' = lost
    PROVE  AlertMarks'
<1>1. PICK t, a, s : Touched(t, a, v, s)
  BY CommitTouches
<1>2. PICK m : m = alerts'[t]
  OBVIOUS
<1>3. /\ t \in DOMAIN alerts' /\ IsAlert(a) /\ Grown(a, m, v, s) /\ s = TriageEvent(v.event, Len(a.log) + 1)
      /\ a = NewAlert(v.event, v.overlaps) \/ (t \in DOMAIN alerts /\ a = alerts[t])
      /\ \A i \in DOMAIN alerts' \ {t} : i \in DOMAIN alerts /\ alerts'[i] = alerts[i]
  BY <1>1, <1>2 DEF Touched, GrownAt
<1>4. ASSUME NEW k \in DOMAIN Markers
      PROVE  /\ Started(k)' \/ (coming'[k] = 0 /\ \A i \in DOMAIN alerts' : Clean(alerts'[i], k))
             /\ \A i \in DOMAIN alerts' : Few(alerts'[i], k, coming'[k])
  <2>1. Sent(v.event, k) /\ coming[k] \in 0..Burst
    BY DEF ScriptInv
  <2>2. Few(a, k, coming[k])
    <3>1. CASE a = NewAlert(v.event, v.overlaps)
      <4>1. Len(a.log) = 0 /\ a.sev < High
        BY <3>1, NewAlertIsOne DEF Low, High
      <4> QED
        BY <2>1, <4>1, BurstKnown DEF Few
    <3> QED
      BY <1>3, <3>1 DEF AlertMarks
  <2>3. Few(m, k, coming'[k]) /\ (coming[k] = 0 /\ Clean(a, k) => Clean(m, k))
    BY <1>3, <2>1, <2>2, GrownMarks
  <2>4. ASSUME NEW i \in DOMAIN alerts' PROVE Few(alerts'[i], k, coming'[k])
    <3>1. CASE i # t
      <4>1. Few(alerts'[i], k, coming[k]) /\ IsAlert(alerts'[i])
        BY <1>3, <3>1 DEF AlertMarks, Shape, Rows, HasEvents
      <4>2. Len(alerts'[i].log) \in Nat
        BY <4>1, Domain DEF IsAlert
      <4>3. coming'[k] \in 0..coming[k]
        BY <2>1 DEF Sent
      <4> QED
        BY <2>1, <4>1, <4>2, <4>3, BurstKnown DEF Few
    <3> QED
      BY <1>2, <2>3, <3>1
  <2>5. ASSUME ~Started(k) PROVE coming'[k] = 0 /\ \A i \in DOMAIN alerts' : Clean(alerts'[i], k)
    <3>1. coming[k] = 0 /\ \A i \in DOMAIN alerts : Clean(alerts[i], k)
      BY <2>5 DEF AlertMarks
    <3>2. Clean(a, k)
      BY <1>3, <3>1, NewAlertIsOne, Nothing, Domain DEF Clean
    <3> QED
      BY <1>2, <1>3, <2>1, <2>3, <3>1, <3>2 DEF Sent
  <2>6. Started(k)' <=> Started(k)
    BY DEF Started, Current
  <2> QED
    BY <2>4, <2>5, <2>6
<1> QED
  BY <1>4 DEF AlertMarks, Few, Pure, Clean

(* The events that process() is called with: those of the trials' requests *)
(* and those of other records.                                             *)
LEMMA RequestIsMarked ==
    ASSUME NEW k \in DOMAIN Markers, NEW status, NEW e, e = Normalize(RequestOf(k, status))
    PROVE  e.mark = Markers[k] /\ Marked(e) /\ \A j \in DOMAIN Markers \ {k} : e.mark # Markers[j]
<1>1. e.mark = Markers[k]
  BY RequestIsPlain
<1>2. \A j \in DOMAIN Markers : Markers[k] = Markers[j] => j = k
  BY TrialAssumption
<1> QED
  BY <1>1, <1>2 DEF Marked

LEMMA RecordIsUnmarked ==
    ASSUME ScriptInv, NEW r \in feed PROVE \A k \in DOMAIN Markers : Normalize(r).mark # Markers[k]
<1>1. feed \in Feeds
  BY DEF ScriptInv
<1>2. \A k \in DOMAIN Markers : r.mark # Markers[k]
  BY <1>1, TrialAssumption
<1> QED
  BY <1>2, MarkIsKept

LEMMA SuspendMarks ==
    ASSUME CallMarks, NEW e, Marked(e), Suspend(e) PROVE CallMarks' /\ alerts' = alerts
<1>1. PICK s \in Slots[feed] \ {c.slot : c \in calls} : \E i \in Selected(e) :
        calls' = calls \cup {[slot |-> s, event |-> e, at |-> now, on |-> i,
                              held |-> Matching(Fingerprint(e)), overlaps |-> Overlaps(e)]}
  BY DEF Suspend
<1>2. ASSUME NEW c \in calls' PROVE c \in calls \/ c.event = e
  BY <1>1, <1>2
<1> QED
  BY <1>2 DEF CallMarks, Marked, Suspend

(* A trial ends: the next one's requests have not been sent.               *)
LEMMA EndMarks ==
    ASSUME ScriptInv, AlertMarks, plan # <<>>, Ends,
           Len(results') + lost' = Len(results) + lost + 1
    PROVE  AlertMarks'
<1>1. alerts' = alerts /\ coming' = coming /\ step' = "ready"
  BY EndTypes
<1>2. DOMAIN Markers \subseteq Nat /\ Current \in Nat /\ Current' = Current + 1
  BY MarkerKnown DEF Current
<1>3. \A k \in DOMAIN Markers : Started(k) => Started(k)'
  BY <1>1, <1>2 DEF Started
<1> QED
  BY <1>1, <1>3 DEF AlertMarks, Few, Pure, Clean

LEMMA MarksStep == ASSUME Shape, ScriptInv, MarksInv, [Next]_vars PROVE MarksInv'
<1>0. AlertMarks /\ CallMarks
  BY DEF MarksInv
<1>1. ASSUME alerts' = alerts, UNCHANGED trial PROVE AlertMarks'
  BY <1>0, <1>1 DEF AlertMarks, Few, Pure, Clean, Started, Current, trial
<1>2. ASSUME calls' \subseteq calls PROVE CallMarks'
  BY <1>0, <1>2 DEF CallMarks, Marked
<1>3. CASE Start
  <2>1. /\ step = "ready" /\ step' = "polling" /\ results' = results /\ lost' = lost /\ alerts' = alerts
        /\ calls' = calls /\ \A k \in DOMAIN Markers \ {Current} : coming'[k] = coming[k]
    BY <1>3 DEF Start, window, ScriptInv
  <2>2. \A k \in DOMAIN Markers : Started(k)' <=> Started(k) \/ k = Current
    BY <2>1 DEF Started, Current
  <2>3. ASSUME Current \in DOMAIN Markers, NEW i \in DOMAIN alerts PROVE ~Pure(alerts[i], Current)
    <3>1. ~Started(Current)
      BY <2>1, MarkerKnown DEF Started, Current
    <3>2. Clean(alerts[i], Current)
      BY <1>0, <2>3, <3>1 DEF AlertMarks
    <3>3. 1 \in DOMAIN alerts[i].log
      BY Domain DEF Shape, Rows, HasEvents, IsAlert
    <3> QED
      BY <3>2, <3>3 DEF Pure, Clean
  <2>4. ASSUME NEW k \in DOMAIN Markers
        PROVE  /\ Started(k)' \/ (coming'[k] = 0 /\ \A i \in DOMAIN alerts' : Clean(alerts'[i], k))
               /\ \A i \in DOMAIN alerts' : Few(alerts'[i], k, coming'[k])
    BY <1>0, <2>1, <2>2, <2>3 DEF AlertMarks, Few
  <2>5. AlertMarks'
    BY <2>4 DEF AlertMarks, Few, Pure, Clean
  <2> QED
    BY <1>2, <2>1, <2>5 DEF MarksInv
<1>4. CASE Poll \/ Reviews
  <2>1. /\ alerts' = alerts /\ calls' = calls /\ coming' = coming /\ results' = results /\ lost' = lost
        /\ step' # "ready"
    BY <1>4 DEF Poll, Reviews, ReadAlert, ReadIncidents, ReadActions, Reads, window
  <2>2. \A k \in DOMAIN Markers : Started(k) => Started(k)'
    BY <2>1 DEF Started, Current
  <2>3. AlertMarks'
    BY <1>0, <2>1, <2>2 DEF AlertMarks, Few, Pure, Clean
  <2> QED
    BY <1>2, <2>1, <2>3 DEF MarksInv
<1>5. CASE NoEvidence \/ Grade \/ RequestFails
  <2>1. Ends /\ plan # <<>>
    BY <1>5 DEF NoEvidence, Grade, RequestFails, Record, ScriptInv
  <2>2. Len(results') + lost' = Len(results) + lost + 1
    <3>1. CASE RequestFails
      BY <3>1, MarkerKnown DEF RequestFails
    <3>2. CASE NoEvidence \/ Grade
      <4>1. PICK outcome \in Outcomes, passed \in BOOLEAN : Record(outcome, passed)
        BY <3>2, GradeRecords DEF NoEvidence, Outcomes
      <4>2. Len(results') = Len(results) + 1 /\ lost' = lost
        BY <2>1, <4>1, RecordTypes
      <4> QED
        BY <4>2, MarkerKnown
    <3> QED
      BY <1>5, <3>1, <3>2
  <2>3. calls' = calls
    BY <2>1, EndTypes
  <2> QED
    BY <1>0, <1>2, <2>1, <2>2, <2>3, EndMarks DEF MarksInv
<1>6. CASE Arrive
  <2>1. PICK k \in DOMAIN Markers, status \in Answers :
          /\ Cardinality(InHand(k)) \in 0..(coming[k] - 1)
          /\ \/ Process(Normalize(RequestOf(k, status))) /\ coming' = [coming EXCEPT ![k] = @ - 1]
             \/ Suspend(Normalize(RequestOf(k, status))) /\ UNCHANGED coming
    BY <1>6, Zenon DEF Arrive
  <2>2. PICK e : e = Normalize(RequestOf(k, status))
    OBVIOUS
  <2>3. e.mark = Markers[k] /\ Marked(e) /\ \A j \in DOMAIN Markers \ {k} : e.mark # Markers[j]
    BY <2>2, RequestIsMarked
  <2>4. step' = step /\ results' = results /\ lost' = lost /\ coming[k] > 0
        /\ coming \in [DOMAIN Markers -> 0..Burst]
    <3>1. coming \in [DOMAIN Markers -> 0..Burst]
      BY DEF ScriptInv
    <3>2. coming[k] > 0
      BY <2>1, <3>1, BurstKnown
    <3> QED
      BY <1>6, <3>1, <3>2 DEF Arrive
  <2>5. CASE Process(e) /\ coming' = [coming EXCEPT ![k] = @ - 1]
    <3>1. PICK v, words : Commits(v, words) /\ v.event = e /\ calls' = calls
      BY <2>5, ProcessCommits
    <3>2. \A j \in DOMAIN Markers : Sent(e, j)
      BY <2>2, <2>3, <2>4, <2>5 DEF Sent
    <3> QED
      BY <1>0, <1>2, <2>4, <3>1, <3>2, CommitMarks DEF MarksInv
  <2>6. CASE Suspend(e) /\ UNCHANGED coming
    <3>1. CallMarks' /\ alerts' = alerts
      BY <1>0, <2>3, <2>6, SuspendMarks
    <3>2. AlertMarks'
      BY <1>0, <2>4, <2>6, <3>1 DEF AlertMarks, Few, Pure, Clean, Started, Current
    <3> QED
      BY <3>1, <3>2 DEF MarksInv
  <2> QED
    BY <2>1, <2>2, <2>5, <2>6
<1>7. CASE Return
  <2>1. PICK c \in calls :
          /\ Resume(c)
          /\ \A k \in DOMAIN Markers : c \in InHand(k) => coming[k] > 0
          /\ coming' = [k \in DOMAIN Markers |-> coming[k] - IF c \in InHand(k) THEN 1 ELSE 0]
    BY <1>7 DEF Return
  <2>2. PICK words : Commits(c, words)
    BY <2>1, ResumeCommits
  <2>3. ASSUME NEW k \in DOMAIN Markers PROVE Sent(c.event, k)
    <3>1. c \in InHand(k) <=> c.event.mark = Markers[k]
      BY DEF InHand
    <3>2. coming[k] \in 0..Burst /\ Marked(c.event)
      BY <1>0 DEF ScriptInv, CallMarks
    <3>3. CASE c.event.mark = Markers[k]
      <4>1. \E status : c.event = Normalize(RequestOf(k, status))
        BY <3>2, <3>3 DEF Marked
      <4> QED
        BY <2>1, <3>1, <3>3, <4>1 DEF Sent
    <3>4. CASE c.event.mark # Markers[k]
      <4>1. coming'[k] = coming[k] - 0
        BY <2>1, <3>1, <3>4
      <4> QED
        BY <3>2, <3>4, <4>1, BurstKnown DEF Sent
    <3> QED
      BY <3>3, <3>4
  <2>4. step' = step /\ results' = results /\ lost' = lost /\ calls' \subseteq calls
    BY <1>7, <2>1 DEF Return, Resume
  <2> QED
    BY <1>0, <1>2, <2>2, <2>3, <2>4, CommitMarks DEF MarksInv
<1>8. CASE Receive /\ UNCHANGED trial
  <2>1. PICK r \in feed : Process(Normalize(r)) \/ Suspend(Normalize(r))
    BY <1>8 DEF Receive
  <2>2. \A k \in DOMAIN Markers : Normalize(r).mark # Markers[k]
    BY RecordIsUnmarked
  <2>3. CASE Process(Normalize(r))
    <3>1. PICK v, words : Commits(v, words) /\ v.event = Normalize(r) /\ calls' = calls
      BY <2>3, ProcessCommits
    <3>2. \A k \in DOMAIN Markers : Sent(v.event, k)
      BY <1>8, <2>2, <3>1 DEF Sent, trial
    <3> QED
      BY <1>0, <1>2, <1>8, <3>1, <3>2, CommitMarks DEF MarksInv, trial
  <2>4. CASE Suspend(Normalize(r))
    <3>1. CallMarks' /\ alerts' = alerts
      BY <1>0, <2>2, <2>4, SuspendMarks DEF Marked
    <3> QED
      BY <1>1, <1>8, <3>1 DEF MarksInv
  <2> QED
    BY <2>1, <2>3, <2>4
<1>9. CASE UpdateAlertStatus /\ UNCHANGED trial
  <2>1. PICK i \in DOMAIN alerts, st \in {"active", "closed"} :
          SameBut(alerts[i], alerts'[i], st) /\ \A j \in DOMAIN alerts \ {i} : alerts'[j] = alerts[j]
    BY <1>9, ChangeShape
  <2>2. DOMAIN alerts' = DOMAIN alerts /\ calls' = calls
    BY <1>9, ChangeShape DEF UpdateAlertStatus
  <2>3. \A j \in DOMAIN alerts : alerts'[j].log = alerts[j].log /\ alerts'[j].sev = alerts[j].sev
    BY <2>1 DEF SameBut
  <2>4. coming' = coming /\ \A k \in DOMAIN Markers : Started(k)' <=> Started(k)
    BY <1>9 DEF trial, Started, Current
  <2>5. AlertMarks'
    BY <1>0, <2>2, <2>3, <2>4 DEF AlertMarks, Few, Pure, Clean
  <2> QED
    BY <1>2, <2>2, <2>5 DEF MarksInv
<1>10. CASE ((\E c \in calls : Abandon(c)) \/ Tick \/ UNCHANGED window) /\ UNCHANGED trial
  BY <1>1, <1>2, <1>10 DEF Abandon, Tick, window, MarksInv
<1> QED
  BY <1>3, <1>4, <1>5, <1>6, <1>7, <1>8, <1>9, <1>10, TrialSteps DEF Searches, Elsewhere

LEMMA MarksHold == Spec => []MarksInv
<1>1. ASSUME Init PROVE MarksInv
  <2>1. DOMAIN alerts = {} /\ step = "ready" /\ Len(results) = 0 /\ calls = {}
    BY <1>1, Domain, Nothing DEF Init, WindowInit
  <2>2. coming = [k \in DOMAIN Markers |-> 0]
    BY <1>1 DEF Init
  <2> QED
    BY <2>1, <2>2 DEF MarksInv, AlertMarks, CallMarks
<1>2. Shape /\ ScriptInv /\ MarksInv /\ [Next]_vars => MarksInv'
  BY MarksStep
<1> QED
  BY <1>1, <1>2, ShapeHolds, ScriptHolds, PTL DEF Spec

(* Where the script has read an alert of its own requests alone, it has    *)
(* read a low severity.                                                    *)
AloneInv == read.alone => read.severity < High

LEMMA AloneStep == ASSUME Shape, ScriptInv, MarksInv, AloneInv, [Next]_vars PROVE AloneInv'
<1>1. CASE Ends
  BY <1>1 DEF Ends, AloneInv, Unread
<1>2. CASE ReadAlert
  <2>1. PICK a : a = alerts[observed] /\ observed \in DOMAIN alerts /\ Current \in DOMAIN Markers
    BY <1>2, MarkerKnown DEF ReadAlert, Reads, ScriptInv, Searching
  <2>2. PICK alone \in BOOLEAN : alone = (\A l \in Evidence(a) : Ours(l))
    OBVIOUS
  <2>3. read'.severity = a.sev /\ read'.alone = alone
    BY <1>2, <2>1, <2>2 DEF ReadAlert, ScriptInv, IsReading
  <2>4. ASSUME read'.alone PROVE a.sev < High
    <3>1. Pure(a, Current)
      BY <2>3, <2>4, <2>2 DEF Pure, Evidence, Ours, Marker
    <3> QED
      BY <2>1, <3>1 DEF MarksInv, AlertMarks, Few
  <2> QED
    BY <2>3, <2>4 DEF AloneInv
<1>3. CASE read'.alone = read.alone /\ read'.severity = read.severity
  BY <1>3 DEF AloneInv
<1>4. CASE ReadIncidents \/ ReadActions
  BY <1>3, <1>4 DEF ReadIncidents, ReadActions, ScriptInv, IsReading
<1> QED
  BY <1>1, <1>2, <1>3, <1>4, TrialSteps
     DEF Searches, Reviews, Start, Poll, NoEvidence, Grade, RequestFails, Record, Arrive, Return, Elsewhere, trial

LEMMA AloneHolds == Spec => []AloneInv
<1>1. Init => AloneInv
  BY DEF Init, AloneInv, Unread
<1> QED
  BY <1>1, AloneStep, ShapeHolds, ScriptHolds, MarksHold, PTL DEF Spec

LEMMA PositiveStep ==
    ASSUME Shape, ScriptInv, AloneInv, PositiveNeedsHistory, [Next]_vars PROVE PositiveNeedsHistory'
<1>1. ASSUME NEW outcome \in Outcomes, NEW passed \in BOOLEAN, Record(outcome, passed), plan # <<>>,
             outcome \in {"TP", "FP"} => ~read.alone
      PROVE  PositiveNeedsHistory'
  <2>1. /\ results' \in Seq(Results) /\ Len(results') = Len(results) + 1 /\ results \in Seq(Results)
        /\ results'[Len(results) + 1] =
             [expected |-> Head(plan), outcome |-> outcome, passed |-> passed, alone |-> read.alone]
        /\ \A k \in 1..Len(results) : results'[k] = results[k]
    BY <1>1, RecordTypes DEF ScriptInv
  <2>2. DOMAIN results = 1..Len(results) /\ DOMAIN results' = 1..(Len(results) + 1) /\ Len(results) \in Nat
    BY <2>1, LenProperties
  <2>3. ASSUME NEW k \in DOMAIN results', results'[k].outcome \in {"TP", "FP"} PROVE ~results'[k].alone
    <3>1. CASE k = Len(results) + 1
      BY <1>1, <2>1, <2>3, <3>1
    <3>2. CASE k \in DOMAIN results
      BY <2>1, <2>2, <2>3, <3>2 DEF PositiveNeedsHistory
    <3> QED
      BY <2>2, <3>1, <3>2
  <2> QED
    BY <2>3 DEF PositiveNeedsHistory
<1>2. CASE Grade
  <2>1. PICK outcome \in Outcomes, passed \in BOOLEAN :
          outcome = Outcome(Head(plan), read.severity >= High) /\ Record(outcome, passed)
    BY <1>2, GradeRecords
  <2>2. outcome \in {"TP", "FP"} => read.severity >= High
    BY <2>1 DEF Outcome
  <2>3. read.severity \in 0..4 /\ plan # <<>>
    BY <1>2 DEF Grade, ScriptInv, IsReading
  <2>4. read.alone => ~(read.severity >= High)
    BY <2>3 DEF AloneInv, High
  <2> QED
    BY <1>1, <2>1, <2>2, <2>3, <2>4
<1>3. CASE NoEvidence
  <2>1. Record("NO_EVIDENCE", FALSE) /\ plan # <<>> /\ "NO_EVIDENCE" \in Outcomes
    BY <1>3 DEF NoEvidence, ScriptInv, Outcomes
  <2> QED
    BY <1>1, <2>1
<1>4. CASE UNCHANGED results
  BY <1>4 DEF PositiveNeedsHistory
<1> QED
  BY <1>2, <1>3, <1>4, TrialSteps
     DEF Searches, Reviews, Start, Poll, ReadAlert, ReadIncidents, ReadActions, Reads, RequestFails,
         Arrive, Return, Elsewhere, trial

(* A positive grade never rests on the trial's own requests alone, however *)
(* the steps of script, traffic and analysts interleave.                   *)
THEOREM PositiveHasHistory == Spec => []PositiveNeedsHistory
<1>1. Init => PositiveNeedsHistory
  BY Nothing, Domain DEF Init, PositiveNeedsHistory
<1>2. Shape /\ ScriptInv /\ AloneInv /\ PositiveNeedsHistory /\ [Next]_vars => PositiveNeedsHistory'
  BY PositiveStep
<1> QED
  BY <1>1, <1>2, ShapeHolds, ScriptHolds, AloneHolds, PTL DEF Spec

-----------------------------------------------------------------------------
(* Types *)

CountInv == events \in 0..MaxEvents /\ \A i \in DOMAIN alerts : Len(alerts[i].log) <= events

LEMMA CountStep == ASSUME Shape, CountInv, [Next]_vars PROVE CountInv'
<1>1. ASSUME NEW v, NEW words, Commits(v, words) PROVE CountInv'
  <2>1. PICK t, a, s : Touched(t, a, v, s)
    BY <1>1, CommitTouches
  <2>2. events' = events + 1 /\ events < MaxEvents
    BY <1>1 DEF Commits
  <2>3. Len(a.log) <= events /\ IsSeq(a.log) /\ Len(a.log) \in Nat
    BY <2>1, NewAlertIsOne, Domain DEF Touched, GrownAt, IsAlert, CountInv
  <2>4. Len(alerts'[t].log) = Len(a.log) + 1
    <3>1. PICK x : alerts'[t].log = Append(a.log, x)
      BY <2>1 DEF Touched, GrownAt, Grown
    <3> QED
      BY <2>3, <3>1, Appended
  <2>5. ASSUME NEW i \in DOMAIN alerts' \ {t} PROVE Len(alerts'[i].log) <= events + 1
    <3>1. i \in DOMAIN alerts /\ alerts'[i] = alerts[i]
      BY <2>1 DEF Touched
    <3>2. Len(alerts[i].log) \in Nat /\ Len(alerts[i].log) <= events
      BY <3>1, Domain DEF Shape, Rows, HasEvents, IsAlert, CountInv
    <3> QED
      BY <3>1, <3>2 DEF CountInv
  <2> QED
    BY <2>2, <2>3, <2>4, <2>5, WindowAssumption DEF CountInv
<1>2. CASE UpdateAlertStatus
  <2>1. PICK i \in DOMAIN alerts, st \in {"active", "closed"} :
          SameBut(alerts[i], alerts'[i], st) /\ \A j \in DOMAIN alerts \ {i} : alerts'[j] = alerts[j]
    BY <1>2, ChangeShape
  <2>2. DOMAIN alerts' = DOMAIN alerts /\ events' = events
    BY <1>2, ChangeShape
  <2>3. \A j \in DOMAIN alerts : alerts'[j].log = alerts[j].log
    BY <2>1 DEF SameBut
  <2> QED
    BY <2>2, <2>3 DEF CountInv
<1>3. CASE Waits
  BY <1>3 DEF CountInv, Waits
<1> QED
  BY <1>1, <1>2, <1>3, Steps DEF Goes

(* Alerts and script keep their types: the stored triage is of the alert's *)
(* severity, incidents have a priority that is high, and an alert is read  *)
(* only where one was found.                                               *)
THEOREM TypeCorrect == Spec => []TypeOK
<1>1. Init => CountInv
  BY WindowAssumption, Domain, Nothing DEF Init, WindowInit, CountInv
<1>2. Spec => []CountInv
  BY <1>1, CountStep, ShapeHolds, PTL DEF Spec
<1>3. ASSUME Shape, ScriptInv, TogetherInv, CountInv PROVE TypeOK
  <2>1. ASSUME NEW i \in DOMAIN alerts
        PROVE  /\ alerts[i].st \in {"active", "closed"} /\ alerts[i].sev \in Low..Critical
               /\ alerts[i].triage = alerts[i].sev /\ alerts[i].incident \in {0, High, Critical}
               /\ Len(alerts[i].log) \in 1..MaxEvents
    <3>1. HasEvents(alerts[i]) /\ Together(alerts[i]) /\ Len(alerts[i].log) <= events
      BY <1>3 DEF Shape, Rows, TogetherInv, CountInv
    <3>2. Len(alerts[i].log) \in 1..MaxEvents
      BY <1>3, <3>1, Domain, WindowAssumption DEF HasEvents, IsAlert, CountInv
    <3>3. alerts[i].incident \in {0, High, Critical}
      BY <3>1 DEF HasEvents, IsAlert, Together, Raised, High, Critical
    <3> QED
      BY <3>1, <3>2, <3>3 DEF HasEvents, IsAlert, Low, Critical
  <2>2. DOMAIN alerts = 1..Len(alerts) /\ Len(alerts) \in Nat
    BY <1>3, Domain DEF Shape, Rows
  <2>3. observed \in 0..Len(alerts) /\ (step \in {"ready", "polling"} <=> observed = 0)
    BY <1>3, <2>2 DEF ScriptInv, Searching
  <2>4. /\ step \in {"ready", "polling", "settling", "incidents", "actions", "audits"}
        /\ read.severity \in 0..Critical
    BY <1>3 DEF ScriptInv, Searching, Reading, IsReading, Critical
  <2> QED
    BY <2>1, <2>3, <2>4 DEF TypeOK
<1> QED
  BY <1>2, <1>3, ShapeHolds, ScriptHolds, TogetherHolds, PTL

-----------------------------------------------------------------------------
(* The alerts as an abstract store *)

StoredAlert(a) ==
    [st |-> a.st, fp |-> a.fp, sev |-> a.sev, count |-> Len(a.log), last |-> LastSeen(a),
     incidents |-> IF a.incident = 0 THEN 0 ELSE 1]
NotYet == [st |-> "absent", fp |-> "none", sev |-> 0, count |-> 0, last |-> 0, incidents |-> 0]

Ids == 1..MaxEvents
StoredAlerts == [i \in Ids |-> IF i \in DOMAIN alerts THEN StoredAlert(alerts[i]) ELSE NotYet]

Processed == (UNION Feeds) \cup {RequestOf(k, status) : k \in DOMAIN Markers, status \in Answers}
Prints == {Fingerprint(Normalize(r)) : r \in Processed}

Store == INSTANCE CorrelationStore
    WITH Fingerprints <- Prints, Severities <- Low..Critical, alert <- StoredAlerts

(* There is a name for every alert, since each has an event of its own.    *)
RoomInv == events \in 0..MaxEvents /\ Len(alerts) <= events

LEMMA RoomStep == ASSUME Shape, RoomInv, [Next]_vars PROVE RoomInv'
<1>0. IsSeq(alerts) /\ Len(alerts) \in Nat
  BY Domain DEF Shape, Rows
<1>1. ASSUME NEW v, NEW words, Commits(v, words) PROVE RoomInv'
  <2>1. Opened(v, words) \/ (Continued(v, words) /\ v.on \in DOMAIN alerts)
    BY <1>1, ContinuedShape DEF Commits
  <2>2. events' = events + 1 /\ events < MaxEvents
    BY <1>1 DEF Commits
  <2>3. Len(alerts') \in {Len(alerts), Len(alerts) + 1}
    BY <1>0, <2>1, Appended, Changed DEF Opened, Continued
  <2> QED
    BY <1>0, <2>2, <2>3, WindowAssumption DEF RoomInv
<1>2. CASE UpdateAlertStatus
  <2>1. PICK i, x : alerts' = [alerts EXCEPT ![i] = x]
    BY <1>2 DEF UpdateAlertStatus
  <2>2. Len(alerts') = Len(alerts) /\ events' = events
    BY <1>0, <1>2, <2>1, Changed DEF UpdateAlertStatus
  <2> QED
    BY <2>2 DEF RoomInv
<1>3. CASE Waits
  BY <1>3 DEF RoomInv, Waits
<1> QED
  BY <1>1, <1>2, <1>3, Steps DEF Goes

(* Without a slot, no call waits.                                          *)
Serial == \A f \in Feeds : Slots[f] = {}

LEMMA NoWait == ASSUME Serial, ScriptInv, NEW e PROVE ~Suspend(e)
  BY DEF Serial, ScriptInv, Suspend

(* The store's view of the alerts.                                         *)
LEMMA StoredKnown ==
    ASSUME Shape, RoomInv
    PROVE  /\ DOMAIN alerts = 1..Len(alerts) /\ Len(alerts) \in Nat /\ DOMAIN alerts \subseteq Ids
           /\ \A i \in DOMAIN alerts : StoredAlerts[i] = StoredAlert(alerts[i])
           /\ \A i \in Ids \ DOMAIN alerts : StoredAlerts[i] = NotYet
<1>1. DOMAIN alerts = 1..Len(alerts) /\ Len(alerts) \in Nat
  BY Domain DEF Shape, Rows
<1>2. DOMAIN alerts \subseteq Ids
  BY <1>1, WindowAssumption DEF RoomInv, Ids
<1> QED
  BY <1>1, <1>2 DEF StoredAlerts

(* The store covers an event where the query finds a row.                  *)
LEMMA CoversIsMatching ==
    ASSUME Shape, RoomInv, NEW fp, NEW i \in Ids
    PROVE  Store!Covers(i, fp, now) <=> i \in Matching(fp)
<1>1. CASE i \in DOMAIN alerts
  <2>1. StoredAlerts[i] = StoredAlert(alerts[i])
    BY <1>1, StoredKnown
  <2> QED
    BY <1>1, <2>1 DEF Store!Covers, Matching, StoredAlert
<1>2. CASE i \notin DOMAIN alerts
  BY <1>2, StoredKnown DEF Store!Covers, Matching, NotYet
<1> QED
  BY <1>1, <1>2

(* A step that touches one alert changes that one in the store.            *)
LEMMA StoredExcept ==
    ASSUME NEW t \in Ids, t \in DOMAIN alerts', NEW r, r = StoredAlert(alerts'[t]),
           \A i \in DOMAIN alerts' \ {t} : i \in DOMAIN alerts /\ alerts'[i] = alerts[i],
           DOMAIN alerts \subseteq DOMAIN alerts'
    PROVE  StoredAlerts' = [StoredAlerts EXCEPT ![t] = r]
<1>1. StoredAlerts' = [i \in Ids |-> IF i \in DOMAIN alerts' THEN StoredAlert(alerts'[i]) ELSE NotYet]
  BY DEF StoredAlerts, StoredAlert, LastSeen, NotYet, Ids
<1>2. \A i \in Ids : i # t =>
        (IF i \in DOMAIN alerts' THEN StoredAlert(alerts'[i]) ELSE NotYet) = StoredAlerts[i]
  BY DEF StoredAlerts
<1> QED
  BY <1>1, <1>2 DEF StoredAlerts

(* What process() leaves of the alert it touches.                          *)
LEMMA GrownStored ==
    ASSUME NEW a, NEW v, NEW s, NEW m, IsAlert(a), Grown(a, m, v, s), Together(a), a.st = "active",
           s \in 1..4
    PROVE  StoredAlert(m) =
             [st |-> "active", fp |-> a.fp, sev |-> m.sev, count |-> Len(a.log) + 1, last |-> v.at,
              incidents |-> IF m.sev >= High THEN 1 ELSE 0]
           /\ m.sev = IF s > a.sev THEN s ELSE a.sev
<1>1. LastSeen(m) = v.at
  BY LastOfGrown
<1>2. m.incident = 0 <=> ~(m.sev >= High)
  <2>1. Together(m) /\ m.sev \in 1..4
    BY GrownTogether DEF Grown
  <2> QED
    BY <2>1 DEF Together, Raised, High
<1>3. Len(m.log) = Len(a.log) + 1
  <2>1. PICK x : m.log = Append(a.log, x)
    BY DEF Grown
  <2> QED
    BY <2>1, Appended DEF IsAlert
<1>4. m.st = a.st /\ m.fp = a.fp
  BY DEF Grown
<1>5. m.sev = IF s > a.sev THEN s ELSE a.sev
  BY DEF Grown, IsAlert
<1> QED
  BY <1>1, <1>2, <1>3, <1>4, <1>5 DEF StoredAlert

(* An event joins the newest alert that matches, or opens one.             *)
LEMMA StoreProcess ==
    ASSUME Shape, RoomInv, TogetherInv, RoomInv', NEW r \in Processed, Process(Normalize(r))
    PROVE  Store!Next
<1>print. Fingerprint(Normalize(r)) \in Prints /\ now \in 0..now
  <2>1. now \in 0..now
    BY DEF Shape, Rows
  <2>2. Fingerprint(Normalize(r)) \in Prints
    BY ZenonT(20) DEF Prints
  <2> QED
    BY <2>1, <2>2
<1>event. PICK e : e = Normalize(r)
  OBVIOUS
<1>1. PICK fp \in Prints, at \in 0..now : e = Normalize(r) /\ fp = Fingerprint(e) /\ at = now
  BY <1>print, <1>event
<1>call. PICK v, words : Commits(v, words) /\ v.event = e /\ Begun(v)
  BY <1>event, ProcessCommits
<1>2. now' = now /\ events' = events + 1 /\ events < MaxEvents
  BY <1>call DEF Commits
<1>3. v.at = at /\ v.on \in Selected(e)
  BY <1>1, <1>call DEF Begun
<1>4. \A i \in Ids : Store!Covers(i, fp, at) <=> i \in Matching(fp)
  BY <1>1, CoversIsMatching
<1>5. CASE Opened(v, words)
  <2>1. PICK t, a, s : t = Len(alerts) + 1 /\ a = NewAlert(e, v.overlaps) /\ GrownAt(t, a, v, s)
    BY <1>call, <1>5, OpenedShape
  <2>2. /\ DOMAIN alerts = 1..Len(alerts) /\ Len(alerts) \in Nat /\ DOMAIN alerts' = 1..t
        /\ \A i \in DOMAIN alerts : alerts'[i] = alerts[i]
    BY <1>call, <1>5, <2>1, OpenedShape
  <2>3. t \in Ids /\ t \notin DOMAIN alerts /\ t \in DOMAIN alerts'
        /\ DOMAIN alerts \subseteq DOMAIN alerts'
        /\ \A i \in DOMAIN alerts' \ {t} : i \in DOMAIN alerts /\ alerts'[i] = alerts[i]
    BY <1>2, <2>1, <2>2, WindowAssumption DEF RoomInv, Ids
  <2>4. IsAlert(a) /\ a.fp = fp /\ a.sev = 1 /\ Together(a) /\ a.st = "active" /\ Len(a.log) = 0
    BY <1>1, <2>1, NewAlertIsOne DEF Together, Low, High
  <2>5. PICK m : m = alerts'[t]
    OBVIOUS
  <2>6. s \in 1..4 /\ Grown(a, m, v, s)
    BY <2>1, <2>5 DEF GrownAt
  <2>7. PICK x : x = [st |-> "active", fp |-> fp, sev |-> s, count |-> 1, last |-> at,
                      incidents |-> IF s >= High THEN 1 ELSE 0]
    OBVIOUS
  <2>8. x = StoredAlert(m)
    <3>1. m.sev = s
      BY <2>4, <2>6, GrownStored
    <3> QED
      BY <1>3, <2>4, <2>6, <2>7, <3>1, GrownStored
  <2>9. StoredAlerts' = [StoredAlerts EXCEPT ![t] = x]
    BY <2>3, <2>5, <2>8, StoredExcept
  <2>10. StoredAlerts[t].st = "absent"
    BY <2>3, StoredKnown DEF NotYet
  <2>11. Matching(fp) = {}
    <3>1. v.on = 0 /\ 0 \notin DOMAIN alerts
      BY <1>5, <2>2 DEF Opened
    <3> QED
      BY <1>1, <1>3, <3>1 DEF Selected, Newest, Matching
  <2>12. Store!Open(t, fp, s, at)
    BY <1>2, <1>4, <2>7, <2>9, <2>10, <2>11 DEF Store!Open, Store!IncidentsOf
  <2>13. s \in Low..Critical
    BY <2>6 DEF Low, Critical
  <2> QED
    BY <2>3, <2>12, <2>13 DEF Store!Next
<1>6. CASE Continued(v, words)
  <2>0. PICK t : t = v.on
    OBVIOUS
  <2>1. /\ t \in Matching(fp) /\ t \in DOMAIN alerts
        /\ \A j \in Matching(fp) : LastSeen(alerts[j]) <= LastSeen(alerts[t])
    BY <1>1, <1>3, <1>6, <2>0 DEF Continued, Selected, Newest, Matching
  <2>3. PICK a, s : a = alerts[t] /\ GrownAt(t, a, v, s)
    BY <1>call, <1>6, <2>0, ContinuedShape
  <2>4. /\ DOMAIN alerts' = DOMAIN alerts /\ t \in Ids
        /\ \A j \in DOMAIN alerts \ {t} : alerts'[j] = alerts[j]
    BY <1>call, <1>6, <2>0, <2>1, ContinuedShape, StoredKnown
  <2>5. /\ IsAlert(a) /\ Together(a) /\ a.st = "active" /\ a.fp = fp
        /\ LastSeen(a) \in Nat /\ LastSeen(a) <= at
    BY <1>1, <2>1, <2>3, LastSeenKnown DEF Shape, Rows, HasEvents, TogetherInv, Matching
  <2>6. PICK m : m = alerts'[t]
    OBVIOUS
  <2>7. s \in 1..4 /\ Grown(a, m, v, s)
    BY <2>3, <2>6 DEF GrownAt
  <2>8. PICK sev : sev = IF s > a.sev THEN s ELSE a.sev
    OBVIOUS
  <2>9. PICK x : x = [st |-> "active", fp |-> fp, sev |-> sev, count |-> Len(a.log) + 1, last |-> at,
                      incidents |-> IF sev >= High THEN 1 ELSE 0]
    OBVIOUS
  <2>10. x = StoredAlert(m)
    <3>1. m.sev = sev
      BY <2>5, <2>7, <2>8, GrownStored
    <3> QED
      BY <1>3, <2>5, <2>7, <2>9, <3>1, GrownStored
  <2>11. StoredAlerts' = [StoredAlerts EXCEPT ![t] = x]
    BY <2>1, <2>4, <2>6, <2>10, StoredExcept
  <2>12. StoredAlerts[t].sev = a.sev /\ StoredAlerts[t].count = Len(a.log)
         /\ StoredAlerts[t].last = LastSeen(a)
    <3>1. StoredAlerts[t] = StoredAlert(alerts[t])
      BY <2>1, StoredKnown
    <3>2. StoredAlert(alerts[t]) = StoredAlert(a)
      BY <2>3
    <3> QED
      BY <3>1, <3>2 DEF StoredAlert
  <2>13. \A j \in Matching(fp) : StoredAlerts[j].last = LastSeen(alerts[j])
    <3> SUFFICES ASSUME NEW j \in Matching(fp) PROVE StoredAlerts[j].last = LastSeen(alerts[j])
      OBVIOUS
    <3>1. j \in DOMAIN alerts
      BY DEF Matching
    <3>2. StoredAlerts[j] = StoredAlert(alerts[j])
      BY <3>1, StoredKnown
    <3> QED
      BY <3>2 DEF StoredAlert
  <2>14. Store!Covers(t, fp, at)
    BY <1>4, <2>1, <2>4
  <2>15. \A b \in Ids : Store!Covers(b, fp, at) => StoredAlerts[b].last <= StoredAlerts[t].last
    BY <1>4, <2>1, <2>3, <2>12, <2>13
  <2>16. Store!Add(t, fp, s, at)
    BY <1>2, <2>5, <2>8, <2>9, <2>11, <2>12, <2>14, <2>15 DEF Store!Add, Store!IncidentsOf
  <2>17. s \in Low..Critical
    BY <2>7 DEF Low, Critical
  <2> QED
    BY <2>4, <2>16, <2>17 DEF Store!Next
<1> QED
  BY <1>call, <1>5, <1>6 DEF Commits

(* The analyst's change is the store's.                                    *)
LEMMA StoreChange == ASSUME Shape, RoomInv, UpdateAlertStatus PROVE Store!Next
<1>1. /\ now' = now /\ DOMAIN alerts' = DOMAIN alerts
      /\ \E i \in DOMAIN alerts, st \in {"active", "closed"} :
           /\ i \notin Locked
           /\ SameBut(alerts[i], alerts'[i], st)
           /\ \A j \in DOMAIN alerts \ {i} : alerts'[j] = alerts[j]
  BY ChangeShape
<1>2. PICK i \in DOMAIN alerts, st \in {"active", "closed"} :
        /\ SameBut(alerts[i], alerts'[i], st)
        /\ \A j \in DOMAIN alerts \ {i} : alerts'[j] = alerts[j]
  BY <1>1
<1>3. PICK a, m : a = alerts[i] /\ m = alerts'[i]
  OBVIOUS
<1>4. i \in Ids /\ StoredAlerts[i] = StoredAlert(a)
  BY <1>3, StoredKnown
<1>5. PICK x : x = [StoredAlert(a) EXCEPT !.st = st]
  OBVIOUS
<1>6. x = StoredAlert(m)
  BY <1>2, <1>3, <1>5 DEF StoredAlert, SameBut, LastSeen
<1>7. StoredAlerts' = [StoredAlerts EXCEPT ![i] = x]
  BY <1>1, <1>2, <1>3, <1>4, <1>6, StoredExcept
<1>8. StoredAlerts[i].st # "absent"
  BY <1>3, <1>4 DEF Shape, Rows, HasEvents, IsAlert, StoredAlert
<1>9. Store!SetStatus(i, st)
  BY <1>1, <1>4, <1>5, <1>7, <1>8 DEF Store!SetStatus
<1> QED
  BY <1>4, <1>9 DEF Store!Next

(* The alerts that real triage makes of raw records, of whatever sources   *)
(* and trials, are those of the abstract store where no call of process()  *)
(* waits: the store that AlertPipeline, with its locks, failures and       *)
(* crashes, implements.                                                    *)
THEOREM TrafficUsesTheStore == ASSUME Serial PROVE Spec => Store!Spec
<1>1. Init => RoomInv /\ Store!Init
  <2>1. Init => alerts = <<>> /\ events = 0 /\ now = 0
    BY DEF Init, WindowInit
  <2>2. DOMAIN <<>> = {} /\ Len(<<>>) = 0
    BY Nothing, Domain
  <2> QED
    BY <2>1, <2>2, WindowAssumption
    DEF RoomInv, Store!Init, Store!Absent, StoredAlerts, NotYet
<1>2. Shape /\ RoomInv /\ [Next]_vars => RoomInv'
  BY RoomStep
<1>3. Init => calls = {}
  BY DEF Init, WindowInit
<1>4. ScriptInv /\ calls = {} /\ [Next]_vars => (calls = {})'
  BY NoWait, TrialSteps
     DEF Searches, Reviews, Start, Poll, NoEvidence, ReadAlert, ReadIncidents, ReadActions, Reads, Grade,
         RequestFails, Record, Ends, Arrive, Return, Elsewhere, Receive, Process, Abandon, UpdateAlertStatus,
         Tick, window
<1>5. ASSUME Shape, ScriptInv, calls = {}, RoomInv, TogetherInv, RoomInv', [Next]_vars
      PROVE  [Store!Next]_Store!vars
  <2>1. ASSUME UNCHANGED <<now, alerts>> PROVE UNCHANGED Store!vars
    BY <2>1 DEF Store!vars, StoredAlerts, StoredAlert, LastSeen
  <2>2. CASE Receive
    <3>1. PICK r \in feed : Process(Normalize(r))
      BY <1>5, <2>2, NoWait DEF Receive
    <3>2. r \in Processed
      BY <1>5 DEF ScriptInv, Processed
    <3> QED
      BY <1>5, <3>1, <3>2, StoreProcess
  <2>3. CASE Arrive
    <3>1. PICK k \in DOMAIN Markers, status \in Answers : Process(Normalize(RequestOf(k, status)))
      BY <1>5, <2>3, NoWait DEF Arrive
    <3>2. RequestOf(k, status) \in Processed
      <4>1. RequestOf(k, status) \in {RequestOf(i, s) : i \in DOMAIN Markers, s \in Answers}
        OBVIOUS
      <4> QED
        BY <4>1 DEF Processed
    <3> QED
      BY <1>5, <3>1, <3>2, StoreProcess
  <2>4. CASE UpdateAlertStatus
    BY <1>5, <2>4, StoreChange
  <2>5. CASE Tick
    <3>1. UNCHANGED StoredAlerts
      BY <2>5 DEF Tick, StoredAlerts, StoredAlert, LastSeen
    <3> QED
      BY <2>5, <3>1 DEF Tick, Store!Tick, Store!Next
  <2>6. CASE Searches \/ Reviews \/ Grade \/ RequestFails \/ (\E c \in calls : Abandon(c)) \/ UNCHANGED window
    BY <2>1, <2>6 DEF Searches, Reviews, Start, Poll, NoEvidence, ReadAlert, ReadIncidents, ReadActions, Reads,
                      Grade, RequestFails, Record, Ends, Abandon, window
  <2>7. CASE Return
    BY <1>5, <2>7 DEF Return
  <2> QED
    BY <1>5, <2>2, <2>3, <2>4, <2>5, <2>6, <2>7, TrialSteps DEF Elsewhere
<1> QED
  BY <1>1, <1>2, <1>5, <1>3, <1>4, ShapeHolds, ScriptHolds, TogetherHolds, PTL DEF Spec, Store!Spec

-----------------------------------------------------------------------------
(* What the volume of flows says *)

(* A flow whose severity is left to the rules.                             *)
PlainFlow(e) == e.type = <<"network", "flow">> /\ e.rated = 0 /\ Enrich(e).ioc_matches = {}

(* The ranks in the log are those of the rules at the count of that time,  *)
(* and a high alert has its severity from one of them.                     *)
Rated(a) ==
    /\ \A k \in DOMAIN a.log : a.log[k].rank = TriageEvent(a.log[k].event, k)
    /\ a.sev >= High => \E k \in DOMAIN a.log : a.log[k].rank = a.sev

(* No event is older than the one before it, or later by more than a       *)
(* window.                                                                 *)
Gradual(a) ==
    \A j, k \in DOMAIN a.log : j <= k =>
        /\ a.log[j].at <= a.log[k].at
        /\ a.log[k].at - a.log[j].at <= (k - j) * Window
FlowInv == \A i \in DOMAIN alerts : Rated(alerts[i]) /\ Gradual(alerts[i])

(* A high alert of flows has as many of them as the rule asks for, but     *)
(* only one after the other within a window; all of them are within one    *)
(* window where the alert is no older than that.                           *)
FloodAddsUp ==
    \A i \in DOMAIN alerts :
        /\ alerts[i].sev >= High
        /\ \A k \in DOMAIN alerts[i].log : PlainFlow(alerts[i].log[k].event)
        => \E k \in DOMAIN alerts[i].log :
             LET span == alerts[i].log[k].at - alerts[i].log[k - Vol.flow + 1].at
             IN  /\ k >= Vol.flow
                 /\ span <= (Vol.flow - 1) * Window
                 /\ LastSeen(alerts[i]) - alerts[i].log[1].at <= Window => span <= Window

LEMMA FlowNeedsVolume ==
    ASSUME NEW e, NEW n, PlainFlow(e), ~(n >= Vol.flow) PROVE TriageEvent(e, n) = Low
<1> DEFINE x == Enrich(e)
<1>1. e.type = <<"network", "flow">> /\ e.type[1] = "network" /\ e.type[2] = "flow" /\ e.rated = 0
  BY DEF PlainFlow
<1>2. x.ioc_matches = {}
  BY DEF PlainFlow
<1> HIDE DEF x
<1>3. ASSUME NEW s PROVE ~Fires(e, x, n, s)
  <2>1. ~SensorRule(e, s) /\ ~WebRule(e, x, n, s) /\ ~FlowRule(e, n, s)
    <3>1. ~SensorRule(e, s)
      BY <1>1 DEF SensorRule
    <3>2. e.type # <<"web", "suspicious_request">> /\ e.type # <<"web", "failed_request">>
          /\ e.type # <<"web", "access">>
      BY <1>1
    <3>3. ~WebRule(e, x, n, s)
      BY <3>2 DEF WebRule
    <3> QED
      BY <3>1, <3>3 DEF FlowRule
  <2>2. ~LinuxRule(e, n, s) /\ ~WindowsRule(e, n, s)
    BY <1>1 DEF LinuxRule, WindowsRule
  <2>3. ~FirewallRule(e, x, n, s)
    BY <1>1 DEF FirewallRule, IsFirewall
  <2> QED
    BY <2>1, <2>2, <2>3 DEF Fires
<1>4. {s \in Low..Critical : Fires(e, x, n, s) \/ s = e.rated} = {}
  BY <1>1, <1>3 DEF Low, Critical
<1>5. RuleRank(e, x, n) = Low
  BY <1>4 DEF RuleRank, Highest
<1>6. {s \in {High} : x.ioc_matches # {}} = {}
  BY <1>2
<1>7. WithIOC(e, x, n) = Low
  BY <1>5, <1>6 DEF WithIOC, Highest, Low, Medium, High, Critical
<1>8. {h \in {High} : x.critical_asset /\ WithIOC(e, x, n) >= Medium} = {}
  BY <1>7 DEF Low, Medium
<1>9. TriageEvent(e, n) = Highest({WithIOC(e, x, n)} \cup
         {h \in {High} : x.critical_asset /\ WithIOC(e, x, n) >= Medium})
  BY DEF TriageEvent, x
<1> QED
  BY <1>7, <1>8, <1>9 DEF Highest, Low, Medium, High, Critical

(* One more event, no later than a window after the last.                  *)
LEMMA GrownFlow ==
    ASSUME Shape, NEW a, NEW v, NEW s, NEW m, IsAlert(a), Grown(a, m, v, s),
           s = TriageEvent(v.event, Len(a.log) + 1), Rated(a), Gradual(a), v.at \in Nat,
           a.log = <<>> \/ (LastSeen(a) <= v.at /\ v.at <= LastSeen(a) + Window)
    PROVE  Rated(m) /\ Gradual(m)
<1> DEFINE x == [event |-> v.event, at |-> v.at, rank |-> s]
<1>1. PICK n, when : n = Len(a.log) /\ when = v.at
  OBVIOUS
<1>2. m.log = Append(a.log, x) /\ IsSeq(a.log) /\ x.event = v.event /\ x.rank = s /\ x.at = when
  BY <1>1 DEF Grown, IsAlert
<1> HIDE DEF x
<1>3. /\ n \in Nat /\ DOMAIN a.log = 1..n /\ DOMAIN m.log = 1..(n + 1)
      /\ \A k \in 1..n : m.log[k] = a.log[k]
      /\ m.log[n + 1] = x
  BY <1>1, <1>2, Domain, Appended
<1>4. Rated(m)
  <2>1. \A k \in DOMAIN m.log : m.log[k].rank = TriageEvent(m.log[k].event, k)
    BY <1>1, <1>2, <1>3 DEF Rated
  <2>2. ASSUME m.sev >= High PROVE \E k \in DOMAIN m.log : m.log[k].rank = m.sev
    <3>1. CASE m.sev = s
      BY <1>2, <1>3, <3>1
    <3>2. CASE m.sev = a.sev
      BY <1>3, <2>2, <3>2 DEF Rated
    <3> QED
      BY <3>1, <3>2 DEF Grown
  <2> QED
    BY <2>1, <2>2 DEF Rated
<1>5. when \in Nat /\ Window \in Nat /\ \A k \in 1..n : a.log[k].at \in Nat /\ a.log[k].at <= when
  <2>1. \A k \in 1..n : a.log[k].at \in Nat
    BY <1>3 DEF IsAlert
  <2>2. ASSUME NEW k \in 1..n PROVE a.log[k].at <= when
    <3>1. n \in 1..n /\ k <= n /\ a.log # <<>>
      BY <1>1, <1>3, Nothing
    <3>2. a.log[k].at <= a.log[n].at
      BY <1>3, <3>1 DEF Gradual
    <3>3. a.log[n].at <= when
      BY <1>1, <3>1 DEF LastSeen
    <3> QED
      BY <1>1, <2>1, <3>1, <3>2, <3>3
  <2> QED
    BY <1>1, <2>1, <2>2, WindowAssumption
<1>6. ASSUME NEW j \in 1..n
      PROVE  a.log[j].at <= when /\ when - a.log[j].at <= (n + 1 - j) * Window
  <2>1. n \in 1..n /\ j <= n /\ a.log # <<>>
    BY <1>1, <1>3, <1>6, Nothing
  <2>2. when <= a.log[n].at + Window
    BY <1>1, <1>5, <2>1 DEF LastSeen
  <2>3. a.log[n].at - a.log[j].at <= (n - j) * Window
    BY <1>3, <2>1 DEF Gradual
  <2>4. PICK d \in Nat : d = n - j
    BY <1>3, <2>1
  <2>5. (d + 1) * Window = d * Window + Window /\ d * Window \in Int
    BY <1>5, SMT
  <2>6. n + 1 - j = d + 1
    BY <1>3, <2>4
  <2>7. PICK w \in Int : w = d * Window
    BY <2>5
  <2>8. (n - j) * Window = w /\ (n + 1 - j) * Window = w + Window
    BY <2>4, <2>5, <2>6, <2>7
  <2>9. a.log[j].at \in Nat /\ a.log[n].at \in Nat /\ a.log[j].at <= when
    BY <1>5, <2>1
  <2>10. PICK u \in Nat, q \in Nat : u = a.log[j].at /\ q = a.log[n].at
    BY <2>9
  <2>11. when <= q + Window /\ q - u <= w /\ u <= when
    BY <2>2, <2>3, <2>8, <2>9, <2>10
  <2>12. when - u <= w + Window
    <3>1. PICK t \in Nat, z \in Nat : t = when /\ z = Window
      BY <1>5
    <3>2. t <= q + z /\ q - u <= w
      BY <2>11, <3>1
    <3>3. t - u <= w + z
      BY <3>2
    <3> QED
      BY <3>1, <3>3
  <2> QED
    BY <2>8, <2>9, <2>10, <2>12
<1>7. Gradual(m)
  <2> SUFFICES ASSUME NEW j \in 1..(n + 1), NEW k \in 1..(n + 1), j <= k
               PROVE  /\ m.log[j].at <= m.log[k].at
                      /\ m.log[k].at - m.log[j].at <= (k - j) * Window
    BY <1>3 DEF Gradual
  <2>1. CASE k \in 1..n
    <3>1. j \in 1..n
      BY <1>3, <2>1
    <3>2. m.log[j] = a.log[j] /\ m.log[k] = a.log[k] /\ j \in DOMAIN a.log /\ k \in DOMAIN a.log
      BY <1>3, <2>1, <3>1
    <3> QED
      BY <3>2 DEF Gradual
  <2>2. CASE k = n + 1 /\ j \in 1..n
    BY <1>2, <1>3, <1>6, <2>2
  <2>3. CASE k = n + 1 /\ j = n + 1
    BY <1>2, <1>3, <1>5, <2>3
  <2> QED
    BY <1>3, <2>1, <2>2, <2>3
<1> QED
  BY <1>4, <1>7

LEMMA FlowStep == ASSUME Shape, FlowInv, [Next]_vars PROVE FlowInv'
<1>1. ASSUME NEW v, NEW words, Commits(v, words), Opened(v, words) PROVE FlowInv'
  <2>0. PICK m, n : m = alerts'[n] /\ n = Len(alerts) + 1
    OBVIOUS
  <2>1. PICK a, s : a = NewAlert(v.event, v.overlaps) /\ GrownAt(n, a, v, s)
    BY <1>1, <2>0, OpenedShape
  <2>2. a.log = <<>> /\ a.sev = Low
    BY <2>1, NewAlertIsOne
  <2>3. Rated(a) /\ Gradual(a)
    BY <2>2, Nothing, Domain DEF Rated, Gradual, Low, High
  <2>4. v.at \in Nat
    BY <1>1 DEF Commits, InCall
  <2>5. IsAlert(a) /\ Grown(a, m, v, s) /\ s = TriageEvent(v.event, Len(a.log) + 1)
    BY <2>0, <2>1 DEF GrownAt
  <2>6. Rated(m) /\ Gradual(m)
    BY <2>2, <2>3, <2>4, <2>5, GrownFlow
  <2>7. /\ DOMAIN alerts = 1..(n - 1) /\ n \in Nat /\ DOMAIN alerts' = 1..n
        /\ \A i \in DOMAIN alerts : alerts'[i] = alerts[i]
    BY <1>1, <2>0, OpenedShape
  <2>8. ASSUME NEW i \in DOMAIN alerts' PROVE Rated(alerts'[i]) /\ Gradual(alerts'[i])
    BY <2>0, <2>6, <2>7 DEF FlowInv
  <2> QED
    BY <2>8 DEF FlowInv, Rated, Gradual
<1>2. ASSUME NEW v, NEW words, Commits(v, words), Continued(v, words) PROVE FlowInv'
  <2>0. PICK i : i = v.on /\ i \in DOMAIN alerts
    BY <1>2, ContinuedShape
  <2>1. PICK a, m, s : a = alerts[i] /\ m = alerts'[i] /\ GrownAt(i, a, v, s)
    BY <1>2, <2>0, ContinuedShape
  <2>2. v.at \in Nat /\ LastSeen(a) <= v.at /\ v.at <= LastSeen(a) + Window
    BY <1>2, <2>0, <2>1 DEF Continued, Commits, InCall
  <2>3. Rated(m) /\ Gradual(m)
    BY <2>0, <2>1, <2>2, GrownFlow DEF GrownAt, FlowInv
  <2>4. DOMAIN alerts' = DOMAIN alerts /\ \A j \in DOMAIN alerts \ {i} : alerts'[j] = alerts[j]
    BY <1>2, <2>0, ContinuedShape
  <2>5. ASSUME NEW j \in DOMAIN alerts' PROVE Rated(alerts'[j]) /\ Gradual(alerts'[j])
    BY <2>1, <2>3, <2>4 DEF FlowInv
  <2> QED
    BY <2>5 DEF FlowInv, Rated, Gradual
<1>3. CASE UpdateAlertStatus
  <2>1. PICK i \in DOMAIN alerts, st \in {"active", "closed"} :
          /\ SameBut(alerts[i], alerts'[i], st)
          /\ \A j \in DOMAIN alerts \ {i} : alerts'[j] = alerts[j]
    BY <1>3, ChangeShape
  <2>2. DOMAIN alerts' = DOMAIN alerts
    BY <1>3, ChangeShape
  <2> QED
    BY <2>1, <2>2 DEF SameBut, FlowInv, Rated, Gradual
<1>4. CASE Waits
  BY <1>4 DEF Waits, FlowInv, Rated, Gradual
<1> QED
  BY <1>1, <1>2, <1>3, <1>4, Steps DEF Goes, Commits

(* README.md says that a high alert of flows has 100 of them within the    *)
(* window.  What holds for any window and volume, without an indicator or  *)
(* a severity the sender states, is this.                                  *)
THEOREM FloodIsGradual == Spec => []FloodAddsUp
<1>1. Init => FlowInv
  BY Domain, Nothing DEF Init, WindowInit, FlowInv
<1>2. Shape /\ FlowInv /\ [Next]_vars => FlowInv'
  BY FlowStep
<1>3. ASSUME Shape, FlowInv, NEW i \in DOMAIN alerts, alerts[i].sev >= High,
             \A k \in DOMAIN alerts[i].log : PlainFlow(alerts[i].log[k].event)
      PROVE  \E k \in DOMAIN alerts[i].log :
               LET span == alerts[i].log[k].at - alerts[i].log[k - Vol.flow + 1].at
               IN  /\ k >= Vol.flow
                   /\ span <= (Vol.flow - 1) * Window
                   /\ LastSeen(alerts[i]) - alerts[i].log[1].at <= Window => span <= Window
  <2>1. PICK a : a = alerts[i]
    OBVIOUS
  <2>2. IsAlert(a) /\ Len(a.log) >= 1 /\ Rated(a) /\ Gradual(a)
    BY <1>3, <2>1 DEF Shape, Rows, HasEvents, FlowInv
  <2>3. PICK n : n = Len(a.log) /\ n \in Nat /\ n >= 1 /\ DOMAIN a.log = 1..n
    BY <2>2, Domain DEF IsAlert
  <2>4. PICK k \in 1..n : a.log[k].rank >= High
    BY <1>3, <2>1, <2>2, <2>3 DEF Rated
  <2>5. PICK v : v = Vol.flow /\ v \in Nat \ {0}
    BY VolAssumption DEF Volumes
  <2>6. k >= v
    <3>1. TriageEvent(a.log[k].event, k) # Low /\ PlainFlow(a.log[k].event)
      BY <1>3, <2>1, <2>2, <2>3, <2>4 DEF Rated, Low, High
    <3> QED
      BY <2>5, <3>1, FlowNeedsVolume
  <2>7. k - v + 1 \in 1..n /\ k - v + 1 <= k /\ k - (k - v + 1) = v - 1
    BY <2>3, <2>5, <2>6
  <2>8. a.log[k].at - a.log[k - v + 1].at <= (v - 1) * Window
    <3>1. a.log[k].at - a.log[k - v + 1].at <= (k - (k - v + 1)) * Window
      BY <2>2, <2>3, <2>7 DEF Gradual
    <3> QED
      BY <2>7, <3>1
  <2>9. a.log[1].at <= a.log[k - v + 1].at /\ a.log[k].at <= a.log[n].at
    <3>1. 1 \in DOMAIN a.log /\ n \in DOMAIN a.log /\ k \in DOMAIN a.log /\ k - v + 1 \in DOMAIN a.log
      BY <2>3, <2>7
    <3>2. 1 <= k - v + 1 /\ k <= n
      BY <2>3, <2>7
    <3> QED
      BY <2>2, <3>1, <3>2 DEF Gradual
  <2>10. \A j \in 1..n : a.log[j].at \in Nat
    BY <2>2, <2>3 DEF IsAlert
  <2>11. LastSeen(a) - a.log[1].at <= Window => a.log[k].at - a.log[k - v + 1].at <= Window
    <3>1. LastSeen(a) = a.log[n].at
      BY <2>3 DEF LastSeen
    <3>2. /\ a.log[1].at \in Nat /\ a.log[n].at \in Nat /\ a.log[k].at \in Nat
          /\ a.log[k - v + 1].at \in Nat
      BY <2>3, <2>7, <2>10
    <3> QED
      BY <2>9, <3>1, <3>2, WindowAssumption
  <2> QED
    BY <2>1, <2>3, <2>5, <2>6, <2>8, <2>11
<1>4. Shape /\ FlowInv => FloodAddsUp
  BY <1>3 DEF FloodAddsUp
<1> QED
  BY <1>1, <1>2, <1>4, ShapeHolds, PTL DEF Spec

=============================================================================
