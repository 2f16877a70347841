----------------------- MODULE CorrelationStore_proofs -----------------------
(***************************************************************************)
(* AlertPipeline implements CorrelationStore, for every value of the       *)
(* constants under which no call is suspended without the write lock.      *)
(***************************************************************************)
EXTENDS AlertPipeline_proofs

(* Serial is the stronger of the two assumptions on the configuration.     *)
LEMMA SerialIsExclusive == ASSUME Serial, ConstantsAssumption PROVE Exclusive
BY DEF Serial, Exclusive, ConstantsAssumption

(* While the handler that has the loop writes the alerts, every other task *)
(* is idle: suspended only for the webhook, it would hold the write lock.  *)
LEMMA WriterIsAlone ==
    ASSUME IInv, SightInv, Serial, ConstantsAssumption,
           NEW u \in Tasks, pc[u] # "idle", loop # u, u \notin Writers
    PROVE  FALSE
<1>1. pc[u] \in {"idle", "select", "analyze", "notify", "commit"}
  BY DEF IInv, AnyInv, TypeOK
<1>2. pc[u] = "notify"
  BY <1>1 DEF IInv, AnyInv, LoopInv, Serial
<1> QED
  BY <1>2 DEF SightInv, Serial, Writers

(* COMMIT leaves every task idle.                                          *)
LEMMA CommitEndsAll ==
    ASSUME IInv, SightInv, Serial, ConstantsAssumption, NEW t \in Tasks, Commit(t)
    PROVE  \A u \in Tasks : pc'[u] = "idle"
<1>1. loop = t /\ Writers \ {t} = {} /\ pc' = [pc EXCEPT ![t] = "idle"]
  BY DEF Commit, WriteLocked, Finish
<1>2. pc \in [Tasks -> {"idle", "select", "analyze", "notify", "commit"}]
  BY DEF IInv, AnyInv, TypeOK
<1>3. \A u \in Tasks : u # t => pc[u] = "idle"
  BY <1>1, WriterIsAlone
<1> QED
  BY <1>1, <1>2, <1>3

(* What a task reads of the alerts depends on its event and on the alerts. *)
LEMMA FoundStable ==
    ASSUME UNCHANGED alerts, NEW t \in Tasks, ev'[t] = ev[t]
    PROVE  Found(t)' = Found(t) /\ Newest(Found(t))' = Newest(Found(t))
BY DEF Found, Matching, Newest

(* A task that goes on without touching the alerts still sees what it saw. *)
LEMMA SightKept ==
    ASSUME SightInv, UNCHANGED <<now, alerts>>,
           \A u \in Tasks : pc'[u] # "idle" =>
               /\ pc[u] # "idle" /\ ev'[u] = ev[u]
               /\ pc'[u] = "notify" => NotifyWebhook
               /\ InFlight(u)' => InFlight(u) /\ sel'[u] = sel[u]
    PROVE  SightInv'
<1>1. ASSUME NEW u \in Tasks, pc'[u] # "idle"
      PROVE  /\ ev'[u].at <= now' /\ (pc'[u] = "notify" => NotifyWebhook)
             /\ \A a \in AlertIds : alerts'[a].last <= ev'[u].at
             /\ InFlight(u)' => IF sel'[u] = NoAlert THEN Found(u)' = {}
                                ELSE sel'[u] \in Newest(Found(u))'
  <2>1. pc[u] # "idle" /\ ev'[u] = ev[u] /\ (pc'[u] = "notify" => NotifyWebhook)
    BY <1>1
  <2>2. Found(u)' = Found(u) /\ Newest(Found(u))' = Newest(Found(u))
    BY <2>1, FoundStable
  <2> QED
    BY <1>1, <2>1, <2>2 DEF SightInv
<1> QED
  BY <1>1 DEF SightInv

(* The sight of the tasks is inductive with the invariant of the pipeline. *)
LEMMA SightStep ==
    ASSUME IInv, SightInv, Serial, ConstantsAssumption, [Next]_vars
    PROVE  SightInv'
<1>0. /\ pc \in [Tasks -> {"idle", "select", "analyze", "notify", "commit"}]
      /\ now \in Nat /\ alerts \in [AlertIds -> Row]
      /\ DOMAIN ev = Tasks /\ DOMAIN sel = Tasks
      /\ sel \in [Tasks -> AlertIds \cup {NoAlert}]
  BY DEF IInv, AnyInv, TypeOK
<1>1. ASSUME NEW t \in Tasks, Receive(t) PROVE SightInv'
  <2>1. UNCHANGED <<now, alerts, sel>> /\ pc' = [pc EXCEPT ![t] = "select"]
    BY <1>1 DEF Receive, db
  <2>2. ev'[t].at = now /\ \A u \in Tasks : u # t => ev'[u] = ev[u] /\ pc'[u] = pc[u]
    BY <1>0, <1>1 DEF Receive
  <2>3. ASSUME NEW u \in Tasks, pc'[u] # "idle"
        PROVE  /\ ev'[u].at <= now' /\ (pc'[u] = "notify" => NotifyWebhook)
               /\ \A a \in AlertIds : alerts'[a].last <= ev'[u].at
               /\ InFlight(u)' => IF sel'[u] = NoAlert THEN Found(u)' = {}
                                  ELSE sel'[u] \in Newest(Found(u))'
    <3>1. CASE u = t
      BY <1>0, <2>1, <2>2, <3>1 DEF SightInv, InFlight
    <3>2. CASE u # t
      <4>1. ev'[u] = ev[u] /\ pc'[u] = pc[u]
        BY <2>2, <3>2
      <4>2. Found(u)' = Found(u) /\ Newest(Found(u))' = Newest(Found(u))
        BY <2>1, <4>1, FoundStable
      <4> QED
        BY <2>1, <2>3, <4>1, <4>2 DEF SightInv, InFlight
    <3> QED
      BY <3>1, <3>2
  <2> QED
    BY <2>1, <2>3 DEF SightInv
<1>2. ASSUME NEW t \in Tasks, Select(t) PROVE SightInv'
  <2>1. /\ UNCHANGED <<now, alerts, ev>> /\ pc' = [pc EXCEPT ![t] = "analyze"]
        /\ pc[t] = "select"
    BY <1>2 DEF Select, db
  <2>2. sel[t] = NoAlert
    BY <2>1 DEF IInv, AnyInv, SelectionInv, InFlight
  <2>3. Newest(Found(t)) \subseteq AlertIds
    BY DEF Newest, Found, Matching
  <2>4. /\ IF sel'[t] = NoAlert THEN Found(t) = {} ELSE sel'[t] \in Newest(Found(t))
        /\ \A u \in Tasks : u # t => sel'[u] = sel[u]
    <3>1. CASE Found(t) = {} /\ UNCHANGED sel
      BY <2>2, <3>1
    <3>2. CASE \E a \in Newest(Found(t)) : sel' = [sel EXCEPT ![t] = a]
      BY <1>0, <2>3, <3>2 DEF AlertIds, NoAlert
    <3> QED
      BY <1>2, <3>1, <3>2 DEF Select
  <2>5. ASSUME NEW u \in Tasks, pc'[u] # "idle"
        PROVE  /\ ev'[u].at <= now' /\ (pc'[u] = "notify" => NotifyWebhook)
               /\ \A a \in AlertIds : alerts'[a].last <= ev'[u].at
               /\ InFlight(u)' => IF sel'[u] = NoAlert THEN Found(u)' = {}
                                  ELSE sel'[u] \in Newest(Found(u))'
    <3>1. Found(u)' = Found(u) /\ Newest(Found(u))' = Newest(Found(u))
      BY <2>1, FoundStable
    <3>2. CASE u = t
      BY <1>0, <2>1, <2>4, <3>1, <3>2 DEF SightInv
    <3>3. CASE u # t
      BY <1>0, <2>1, <2>4, <2>5, <3>1, <3>3 DEF SightInv, InFlight
    <3> QED
      BY <3>2, <3>3
  <2> QED
    BY <2>1, <2>5 DEF SightInv
<1>3. ASSUME NEW t \in Tasks, Apply(t) \/ Notified(t) PROVE SightInv'
  <2>1. /\ UNCHANGED <<now, alerts, ev, sel>>
        /\ pc' = [pc EXCEPT ![t] = "notify"] \/ pc' = [pc EXCEPT ![t] = "commit"]
        /\ pc[t] \in {"analyze", "notify"} /\ (pc'[t] = "notify" => NotifyWebhook)
    BY <1>0, <1>3 DEF Apply, Notified, MustWait, db
  <2> QED
    BY <1>0, <2>1, SightKept DEF InFlight, SightInv
<1>4. ASSUME NEW t \in Tasks, Commit(t) PROVE SightInv'
  <2>1. UNCHANGED now /\ alerts' = [alerts EXCEPT ![Target(t)] = Written(t)] /\ pc[t] = "commit"
    BY <1>4 DEF Commit
  <2>2. Written(t).last <= now
    BY <2>1, CommitValues DEF Merged, SightInv
  <2>3. \A a \in AlertIds : alerts'[a].last <= now'
    BY <1>0, <2>1, <2>2 DEF SightInv
  <2>4. \A u \in Tasks : pc'[u] = "idle"
    BY <1>4, CommitEndsAll
  <2> QED
    BY <2>3, <2>4 DEF SightInv
<1>5. ASSUME NEW t \in Tasks, Abort(t) PROVE SightInv'
  <2>1. /\ UNCHANGED <<now, alerts>> /\ pc' = [pc EXCEPT ![t] = "idle"]
        /\ \A u \in Tasks : u # t => ev'[u] = ev[u] /\ sel'[u] = sel[u]
    BY <1>0, <1>5 DEF Abort, Finish, db
  <2> QED
    BY <1>0, <2>1, SightKept DEF InFlight, SightInv
<1>6. ASSUME CommitStatus PROVE SightInv'
  <2>1. /\ UNCHANGED <<now, pc>> /\ loop = "analyst" /\ Writers = {}
        /\ alerts' = [alerts EXCEPT ![request.alert].st = request.st]
    BY <1>6 DEF CommitStatus, task
  <2>2. \A u \in Tasks : pc'[u] = "idle"
    BY <2>1, WriterIsAlone DEF ConstantsAssumption
  <2>3. \A a \in AlertIds : alerts'[a].last = alerts[a].last
    BY <1>0, <2>1 DEF Row
  <2> QED
    BY <2>1, <2>2, <2>3 DEF SightInv
<1>7. ASSUME RequestStatus \/ StatusBusy \/ UNCHANGED vars PROVE SightInv'
  <2>1. UNCHANGED <<now, alerts, pc, ev, sel>>
    BY <1>7 DEF RequestStatus, StatusBusy, vars, db, task
  <2> QED
    BY <2>1, SightKept DEF InFlight, SightInv
<1>8. ASSUME Tick PROVE SightInv'
  <2>1. now' = now + 1 /\ UNCHANGED <<alerts, pc, ev, sel>>
    BY <1>8 DEF Tick, db, task
  <2>2. \A u \in Tasks : Found(u)' = Found(u) /\ Newest(Found(u))' = Newest(Found(u))
    BY <2>1, FoundStable
  <2>3. \A a \in AlertIds : alerts[a].last \in Nat
    BY <1>0 DEF Row
  <2>4. \A u \in Tasks : ev[u].at \in Nat
    BY DEF IInv, AnyInv, TypeOK
  <2>5. /\ \A a \in AlertIds : alerts'[a].last <= now'
        /\ \A u \in Tasks : pc'[u] # "idle" => ev'[u].at <= now'
    BY <1>0, <2>1, <2>3, <2>4 DEF SightInv
  <2> QED
    BY <2>1, <2>2, <2>5 DEF SightInv, InFlight
<1>9. ASSUME Crash PROVE SightInv'
  BY <1>9 DEF Crash, SightInv, db
<1> QED
  BY <1>1, <1>2, <1>3, <1>4, <1>5, <1>6, <1>7, <1>8, <1>9 DEF Next, Step, Quiet

(* An empty database gives the tasks nothing to see.                       *)
LEMMA SightInit == ASSUME Init PROVE SightInv
BY DEF Init, SightInv, NoRow

(* Under Serial both invariants hold in every reachable state.             *)
LEMMA SerialInvariant == ASSUME Serial PROVE Spec => [](IInv /\ SightInv)
<1>1. Init => IInv /\ SightInv
  BY InvInit, SightInit, ConstantsAssumption
<1>2. IInv /\ SightInv /\ [Next]_vars => IInv' /\ SightInv'
  BY InvStep, SightStep, SerialIsExclusive, ConstantsAssumption
<1> QED
  BY <1>1, <1>2, PTL DEF Spec

-----------------------------------------------------------------------------
(* The refinement *)

(* The empty database is the empty store.                                  *)
LEMMA StoreInit == ASSUME Init PROVE Store!Init
BY DEF Init, Store!Init, Store!Absent, NoRow, StoredAlerts, Stored

(* A step that touches neither clock nor alerts nor incidents stutters.    *)
LEMMA StoreStutters == ASSUME UNCHANGED <<now, alerts, incidents>> PROVE UNCHANGED Store!vars
BY DEF Store!vars, StoredAlerts, Stored

(* A step that touches the rows of one alert changes that one in the store.*)
LEMMA StoredExcept ==
    ASSUME NEW a0 \in AlertIds, NEW r, Stored(a0)' = r,
           \A a \in AlertIds : a # a0 => alerts'[a] = alerts[a] /\ incidents'[a] = incidents[a]
    PROVE  StoredAlerts' = [StoredAlerts EXCEPT ![a0] = r]
<1>1. \A a \in AlertIds : a # a0 => Stored(a)' = Stored(a)
  BY DEF Stored
<1>2. StoredAlerts' = [a \in AlertIds |-> IF a = a0 THEN r ELSE Stored(a)]
  BY <1>1 DEF StoredAlerts
<1> QED
  BY <1>2 DEF StoredAlerts

(* What COMMIT leaves in the rows of its alert.                            *)
LEMMA CommitStored ==
    ASSUME IInv, IInv', Exclusive, ConstantsAssumption, NEW t \in Tasks, Commit(t),
           NEW a0 \in AlertIds, a0 = Target(t)
    PROVE  /\ \A a \in AlertIds : a # a0 => alerts'[a] = alerts[a] /\ incidents'[a] = incidents[a]
           /\ Stored(a0)' =
                [st |-> "active", fp |-> ev[t].fp, sev |-> EffectiveSeverity(t),
                 count |-> EventCount(t), last |-> ev[t].at,
                 incidents |-> IF EffectiveSeverity(t) >= High THEN 1 ELSE 0]
<1>1. /\ alerts \in [AlertIds -> Row] /\ incidents \in [AlertIds -> [n: Nat, priority: 0..4]]
      /\ pc[t] = "commit"
  BY DEF IInv, AnyInv, TypeOK, Commit
<1>2. Written(t) = Merged(t) /\ Merged(t).st = "active"
  BY <1>1, CommitValues
<1>3. \A a \in AlertIds : a # a0 => alerts'[a] = alerts[a] /\ incidents'[a] = incidents[a]
  BY <1>1 DEF Commit
<1>4. alerts'[a0] = Merged(t)
  BY <1>1, <1>2 DEF Commit
<1>5. incidents'[a0].n = IF EffectiveSeverity(t) >= High THEN 1 ELSE 0
  <2>1. alerts'[a0].sev = EffectiveSeverity(t)
    BY <1>4 DEF Merged
  <2>2. IF alerts'[a0].sev >= High
        THEN incidents'[a0] = [n |-> 1, priority |-> alerts'[a0].sev]
        ELSE incidents'[a0].n = 0
    BY DEF IInv, RowsInv, HighHasOneIncident
  <2> QED
    BY <2>1, <2>2
<1> QED
  BY <1>2, <1>3, <1>4, <1>5 DEF Stored, Merged

(* COMMIT is the one step in which an event joins its alert or opens one.  *)
LEMMA StoreCommit ==
    ASSUME IInv, IInv', SightInv, Serial, ConstantsAssumption, NEW t \in Tasks, Commit(t)
    PROVE  Store!Next
<1>1. pc[t] = "commit" /\ UNCHANGED now /\ InFlight(t)
  BY DEF Commit, InFlight
<1>2. PICK a0 \in AlertIds : a0 = Target(t)
  BY <1>1, TargetInRange DEF IInv, AnyInv
<1>3. PICK fp \in Fingerprints : fp = ev[t].fp
  BY <1>1 DEF IInv, AnyInv, NumberInv
<1>4. PICK s \in Severity : s = ev[t].sev
  BY DEF IInv, AnyInv, TypeOK
<1>5. PICK at \in 0..now : at = ev[t].at
  <2>1. now \in Nat /\ ev[t].at \in Nat
    BY DEF IInv, AnyInv, TypeOK
  <2>2. ev[t].at <= now
    BY <1>1 DEF SightInv
  <2> QED
    BY <2>1, <2>2
<1>6. /\ \A a \in AlertIds : a # a0 => alerts'[a] = alerts[a] /\ incidents'[a] = incidents[a]
      /\ Stored(a0)' =
           [st |-> "active", fp |-> fp, sev |-> EffectiveSeverity(t), count |-> EventCount(t),
            last |-> at, incidents |-> IF EffectiveSeverity(t) >= High THEN 1 ELSE 0]
  BY <1>2, <1>3, <1>5, CommitStored, SerialIsExclusive
<1>7. \A a \in AlertIds : Store!Covers(a, fp, at) <=> a \in Found(t)
  <2>1. \A a \in AlertIds : /\ StoredAlerts[a].st = alerts[a].st
                            /\ StoredAlerts[a].fp = alerts[a].fp
                            /\ StoredAlerts[a].last = alerts[a].last
    BY DEF StoredAlerts, Stored
  <2> QED
    BY <1>3, <1>5, <2>1 DEF Store!Covers, Found, Matching
<1>8. CASE sel[t] = NoAlert
  <2>1. alerts[a0].st = "absent" /\ snap[t] = NoRow /\ Found(t) = {}
    BY <1>1, <1>2, <1>8, SelectedExists DEF IInv, AnyInv, SelectionInv, SightInv, Target
  <2>2. EffectiveSeverity(t) = s /\ EventCount(t) = 1
    BY <1>4, <2>1 DEF EffectiveSeverity, EventCount, NoRow, Severity
  <2>3. PICK r : r = [st |-> "active", fp |-> fp, sev |-> s, count |-> 1, last |-> at,
                      incidents |-> IF s >= High THEN 1 ELSE 0]
    OBVIOUS
  <2>4. StoredAlerts' = [StoredAlerts EXCEPT ![a0] = r]
    BY <1>6, <2>2, <2>3, StoredExcept
  <2>5. StoredAlerts[a0].st = "absent"
    BY <2>1 DEF StoredAlerts, Stored
  <2>6. Store!Open(a0, fp, s, at)
    BY <1>1, <1>7, <2>1, <2>3, <2>4, <2>5 DEF Store!Open, Store!IncidentsOf
  <2> QED
    BY <2>6 DEF Store!Next
<1>9. CASE sel[t] # NoAlert
  <2>1. alerts[a0] = snap[t] /\ a0 \in Newest(Found(t))
    BY <1>1, <1>2, <1>9 DEF IInv, AnyInv, SnapshotInv, SightInv, Target
  <2>2. a0 \in Found(t) /\ (\A b \in Found(t) : alerts[b].last <= alerts[a0].last)
    BY <2>1 DEF Newest
  <2>3. alerts[a0].last <= at
    BY <1>1, <1>5 DEF SightInv
  <2>4. /\ EffectiveSeverity(t) = IF s > alerts[a0].sev THEN s ELSE alerts[a0].sev
        /\ EventCount(t) = alerts[a0].count + 1
    BY <1>4, <2>1 DEF EffectiveSeverity, EventCount
  <2>5. PICK r : r = [st |-> "active", fp |-> fp, sev |-> EffectiveSeverity(t),
                      count |-> EventCount(t), last |-> at,
                      incidents |-> IF EffectiveSeverity(t) >= High THEN 1 ELSE 0]
    OBVIOUS
  <2>6. StoredAlerts' = [StoredAlerts EXCEPT ![a0] = r]
    BY <1>6, <2>5, StoredExcept
  <2>7. \A b \in AlertIds : StoredAlerts[b].last = alerts[b].last
    BY DEF StoredAlerts, Stored
  <2>8. StoredAlerts[a0].sev = alerts[a0].sev /\ StoredAlerts[a0].count = alerts[a0].count
    BY DEF StoredAlerts, Stored
  <2>9. Store!Add(a0, fp, s, at)
    BY <1>1, <1>7, <2>2, <2>3, <2>4, <2>5, <2>6, <2>7, <2>8 DEF Store!Add, Store!IncidentsOf
  <2> QED
    BY <2>9 DEF Store!Next
<1> QED
  BY <1>8, <1>9

(* The analyst's COMMIT is the abstract status change.                     *)
LEMMA StoreStatus ==
    ASSUME IInv, CommitStatus
    PROVE  Store!Next
<1>1. PICK a0 \in AlertIds : a0 = request.alert /\ alerts[a0].st # "absent"
  BY DEF CommitStatus, IInv, AnyInv, RequestInv
<1>2. PICK st \in {"active", "closed"} : st = request.st
  BY DEF IInv, AnyInv, TypeOK
<1>3. /\ alerts \in [AlertIds -> Row] /\ UNCHANGED <<now, incidents>>
      /\ alerts' = [alerts EXCEPT ![a0].st = st]
  BY <1>1, <1>2 DEF CommitStatus, IInv, AnyInv, TypeOK
<1>4. PICK r : r = [Stored(a0) EXCEPT !.st = st]
  OBVIOUS
<1>5. StoredAlerts' = [StoredAlerts EXCEPT ![a0] = r]
  <2>1. Stored(a0)' = r
    BY <1>3, <1>4 DEF Stored, Row
  <2> QED
    BY <1>3, <2>1, StoredExcept
<1>6. StoredAlerts[a0] = Stored(a0) /\ Stored(a0).st # "absent"
  BY <1>1 DEF StoredAlerts, Stored
<1>7. Store!SetStatus(a0, st)
  BY <1>3, <1>4, <1>5, <1>6 DEF Store!SetStatus
<1> QED
  BY <1>7 DEF Store!Next

(* Every step of the program is a step of the store or leaves it alone.    *)
LEMMA StoreStep ==
    ASSUME IInv, IInv', SightInv, Serial, ConstantsAssumption, [Next]_vars
    PROVE  [Store!Next]_Store!vars
<1>1. ASSUME NEW t \in Tasks, Commit(t) PROVE Store!Next
  BY <1>1, StoreCommit
<1>2. ASSUME CommitStatus PROVE Store!Next
  BY <1>2, StoreStatus
<1>3. ASSUME Tick PROVE Store!Next
  BY <1>3 DEF Tick, db, Store!Next, Store!Tick, StoredAlerts, Stored
<1>4. CASE UNCHANGED <<now, alerts, incidents>>
  BY <1>4, StoreStutters
<1> QED
  BY <1>1, <1>2, <1>3, <1>4
  DEF Next, Step, Receive, Select, Apply, Notified, Abort, RequestStatus, StatusBusy,
      Crash, Quiet, db, vars

(* process(), with every failure, crash and handler that may come between  *)
(* its steps, is seen from outside as the one-step store.                  *)
THEOREM PipelineIsStore == ASSUME Serial PROVE Spec => ImplementsStore
<1>1. Init => Store!Init
  BY StoreInit
<1>2. IInv /\ SightInv /\ IInv' /\ [Next]_vars => [Store!Next]_Store!vars
  BY StoreStep, ConstantsAssumption
<1> QED
  BY <1>1, <1>2, SerialInvariant, PTL DEF Spec, ImplementsStore, Store!Spec

-----------------------------------------------------------------------------
(* What the store shows of the pipeline's steps *)

(* COMMIT replaces one row; its last_seen is the time of the event.        *)
LEMMA CommitRow ==
    ASSUME IInv, ConstantsAssumption, NEW t \in Tasks, Commit(t)
    PROVE  /\ InFlight(t) /\ ev[t].at \in Nat
           /\ \A a \in AlertIds : a # Target(t) => alerts'[a] = alerts[a]
           /\ \A a \in AlertIds : a = Target(t) => alerts'[a] = Merged(t)
<1>1. pc[t] = "commit" /\ alerts' = [alerts EXCEPT ![Target(t)] = Written(t)]
  BY DEF Commit
<1>2. Written(t) = Merged(t)
  BY <1>1, CommitValues
<1> QED
  BY <1>1, <1>2 DEF IInv, AnyInv, TypeOK, InFlight

(* The analyst changes the status of an existing alert and nothing else.   *)
LEMMA StatusRow ==
    ASSUME IInv, CommitStatus
    PROVE  \A a \in AlertIds : /\ alerts'[a].last = alerts[a].last
                               /\ alerts[a].st = "absent" => alerts'[a].st = "absent"
<1>1. /\ alerts \in [AlertIds -> Row] /\ alerts[request.alert].st # "absent"
      /\ alerts' = [alerts EXCEPT ![request.alert].st = request.st]
  BY DEF CommitStatus, IInv, AnyInv, TypeOK, RequestInv
<1> QED
  BY <1>1 DEF Row

(* An alert is opened only when no active one of its fingerprint was seen  *)
(* within the window.                                                      *)
THEOREM OpensOnlyAlone == ASSUME Serial PROVE Spec => OpensOnlyWhenNoneMatches
<1> DEFINE Alone == \A a \in AlertIds :
             (alerts[a].st = "absent" /\ alerts'[a].st # "absent")
               => \A b \in AlertIds : alerts[b].st = "active" /\ alerts[b].fp = alerts'[a].fp
                    => alerts[b].last < alerts'[a].last - Window
<1>1. ASSUME IInv, SightInv, [Next]_vars PROVE [Alone]_vars
  <2>1. ASSUME NEW t \in Tasks, Commit(t) PROVE Alone
    <3>1. SUFFICES ASSUME NEW a \in AlertIds, alerts[a].st = "absent", alerts'[a].st # "absent",
                          NEW b \in AlertIds, alerts[b].st = "active",
                          alerts[b].fp = alerts'[a].fp
                   PROVE  alerts[b].last < alerts'[a].last - Window
      OBVIOUS
    <3>2. a = Target(t) /\ alerts'[a] = Merged(t) /\ InFlight(t) /\ ev[t].at \in Nat
      BY <1>1, <2>1, <3>1, CommitRow, ConstantsAssumption
    <3>3. sel[t] = NoAlert
      BY <1>1, <3>1, <3>2, SelectedExists DEF IInv
    <3>4. b \notin Found(t)
      BY <1>1, <3>2, <3>3 DEF SightInv, InFlight
    <3>5. ~(alerts[b].last + Window >= ev[t].at)
      BY <3>1, <3>2, <3>4 DEF Found, Matching, Merged
    <3>6. alerts[b].last \in Nat /\ Window \in Nat
      BY <1>1, ConstantsAssumption DEF IInv, AnyInv, TypeOK, Row, ConstantsAssumption
    <3> QED
      BY <3>2, <3>5, <3>6 DEF Merged
  <2>2. ASSUME CommitStatus PROVE Alone
    BY <1>1, <2>2, StatusRow
  <2>3. CASE UNCHANGED alerts
    BY <2>3
  <2> QED
    BY <1>1, <2>1, <2>2, <2>3
    DEF Next, Step, Receive, Select, Apply, Notified, Abort, RequestStatus, StatusBusy,
        Tick, Crash, Quiet, db, vars
<1> QED
  BY <1>1, SerialInvariant, PTL DEF Spec, OpensOnlyWhenNoneMatches

(* The last_seen of an alert never moves backwards.                        *)
THEOREM LastSeenGrows == ASSUME Serial PROVE Spec => LastSeenNeverFalls
<1> DEFINE Grows == \A a \in AlertIds : alerts'[a].last >= alerts[a].last
<1>1. ASSUME IInv, SightInv, [Next]_vars PROVE [Grows]_vars
  <2>0. \A a \in AlertIds : alerts[a].last \in Nat
    BY <1>1 DEF IInv, AnyInv, TypeOK, Row
  <2>1. ASSUME NEW t \in Tasks, Commit(t) PROVE Grows
    <3>1. SUFFICES ASSUME NEW a \in AlertIds PROVE alerts'[a].last >= alerts[a].last
      OBVIOUS
    <3>2. CASE a = Target(t)
      <4>1. alerts'[a] = Merged(t) /\ InFlight(t) /\ ev[t].at \in Nat
        BY <1>1, <2>1, <3>2, CommitRow, ConstantsAssumption
      <4>2. alerts[a].last <= ev[t].at
        BY <1>1, <4>1 DEF SightInv, InFlight
      <4>3. alerts'[a].last = ev[t].at
        BY <4>1 DEF Merged
      <4> QED
        BY <2>0, <4>1, <4>2, <4>3
    <3>3. CASE a # Target(t)
      BY <1>1, <2>0, <2>1, <3>3, CommitRow, ConstantsAssumption
    <3> QED
      BY <3>2, <3>3
  <2>2. ASSUME CommitStatus PROVE Grows
    BY <1>1, <2>0, <2>2, StatusRow
  <2>3. CASE UNCHANGED alerts
    BY <2>0, <2>3
  <2> QED
    BY <1>1, <2>1, <2>2, <2>3
    DEF Next, Step, Receive, Select, Apply, Notified, Abort, RequestStatus, StatusBusy,
        Tick, Crash, Quiet, db, vars
<1> QED
  BY <1>1, SerialInvariant, PTL DEF Spec, LastSeenNeverFalls

=============================================================================
