------------------------ MODULE AlertPipeline_proofs ------------------------
(***************************************************************************)
(* Theorems about AlertPipeline for every value of its constants.          *)
(***************************************************************************)
EXTENDS AlertPipelineInv, TLAPS

-----------------------------------------------------------------------------
(* Type correctness *)

(* The values process() computes for an alert are of the column types.     *)
LEMMA ValuesType ==
    ASSUME TypeOK, ConstantsAssumption, NEW t \in Tasks
    PROVE  /\ EffectiveSeverity(t) \in 0..4
           /\ TriageInForce(t) \in 0..4
           /\ EventCount(t) \in Nat
           /\ Merged(t) \in Row
           /\ Written(t) \in Row
<1>1. snap[t] \in Row /\ ev[t] \in [n: 0..MaxEvents, fp: Fingerprints \cup {"none"},
                                     sev: Severity, at: Nat]
  BY DEF TypeOK
<1>2. EffectiveSeverity(t) \in 0..4 /\ TriageInForce(t) \in 0..4 /\ EventCount(t) \in Nat
  BY <1>1 DEF EffectiveSeverity, TriageInForce, ReplacesTriage, EventCount, Row, Severity
<1>3. Merged(t) \in Row
  BY <1>1, <1>2 DEF Merged, Row
<1>4. sel[t] # NoAlert => alerts[sel[t]] \in Row
  BY DEF TypeOK
<1>5. Written(t) \in Row
  BY <1>1, <1>2, <1>3, <1>4 DEF Written, Merged, Row
<1> QED
  BY <1>2, <1>3, <1>5

(* Closing the session leaves a task in a well-typed idle state.           *)
LEMMA FinishType ==
    ASSUME TypeOK, ConstantsAssumption, NEW t \in Tasks, Finish(t)
    PROVE  /\ loop' \in Tasks \cup {"free", "analyst"}
           /\ pc' \in [Tasks -> {"idle", "select", "analyze", "notify", "commit"}]
           /\ ev' \in [Tasks -> [n: 0..MaxEvents, fp: Fingerprints \cup {"none"},
                                 sev: Severity, at: Nat]]
           /\ sel' \in [Tasks -> AlertIds \cup {NoAlert}]
           /\ snap' \in [Tasks -> Row]
           /\ held' \in [Tasks -> SUBSET AlertIds]
           /\ work' \in [Tasks -> [opens: BOOLEAN, notice: {"skip", "executed", "failed"}]]
<1>1. NoEvent \in [n: 0..MaxEvents, fp: Fingerprints \cup {"none"}, sev: Severity, at: Nat]
  BY DEF NoEvent, ConstantsAssumption, Severity
<1>2. NoRow \in Row
  BY DEF NoRow, Row
<1>3. NoWork \in [opens: BOOLEAN, notice: {"skip", "executed", "failed"}]
  BY DEF NoWork
<1> QED
  BY <1>1, <1>2, <1>3 DEF TypeOK, Finish, NoAlert

(* The initial state is well typed.                                        *)
LEMMA TypeInit == ASSUME ConstantsAssumption, Init PROVE TypeOK
<1>1. NoEvent \in [n: 0..MaxEvents, fp: Fingerprints \cup {"none"}, sev: Severity, at: Nat]
  BY DEF NoEvent, ConstantsAssumption, Severity
<1>2. NoRow \in Row
  BY DEF NoRow, Row
<1>3. NoWork \in [opens: BOOLEAN, notice: {"skip", "executed", "failed"}]
  BY DEF NoWork
<1>4. NoRequest \in [alert: AlertIds \cup {NoAlert}, st: {"active", "closed"}]
  BY DEF NoRequest
<1> QED
  BY <1>1, <1>2, <1>3, <1>4 DEF TypeOK, Init, ConstantsAssumption, NoAlert

(* Every step of the program keeps the state well typed.                   *)
LEMMA TypeStep ==
    ASSUME ConstantsAssumption, TypeOK, [Next]_vars
    PROVE  TypeOK'
<1>1. ASSUME NEW t \in Tasks, Receive(t) PROVE TypeOK'
  <2>1. received' \in 0..MaxEvents
    BY <1>1 DEF Receive, TypeOK, ConstantsAssumption
  <2>2. ev' \in [Tasks -> [n: 0..MaxEvents, fp: Fingerprints \cup {"none"},
                           sev: Severity, at: Nat]]
    BY <1>1, <2>1 DEF Receive, TypeOK, ConstantsAssumption
  <2> QED
    BY <1>1, <2>1, <2>2 DEF Receive, TypeOK, db
<1>2. ASSUME NEW t \in Tasks, Select(t) PROVE TypeOK'
  <2>1. Found(t) \subseteq AlertIds /\ Newest(Found(t)) \subseteq AlertIds
    BY DEF Found, Matching, Newest
  <2>2. \/ UNCHANGED <<sel, snap>>
        \/ \E a \in AlertIds : /\ sel' = [sel EXCEPT ![t] = a]
                               /\ snap' = [snap EXCEPT ![t] = alerts[a]]
    BY <1>2, <2>1 DEF Select
  <2>3. sel' \in [Tasks -> AlertIds \cup {NoAlert}] /\ snap' \in [Tasks -> Row]
    <3>1. sel \in [Tasks -> AlertIds \cup {NoAlert}] /\ snap \in [Tasks -> Row]
      BY DEF TypeOK
    <3>2. \A a \in AlertIds : alerts[a] \in Row
      BY DEF TypeOK
    <3> QED
      BY <2>2, <3>1, <3>2
  <2>4. held' \in [Tasks -> SUBSET AlertIds]
    BY <1>2, <2>1 DEF Select, TypeOK
  <2> QED
    BY <1>2, <2>3, <2>4 DEF Select, TypeOK, db
<1>3. ASSUME NEW t \in Tasks, Apply(t) PROVE TypeOK'
  <2>1. OpensIncident(t) \in BOOLEAN
    BY DEF OpensIncident
  <2> QED
    BY <1>3, <2>1 DEF Apply, TypeOK, db
<1>4. ASSUME NEW t \in Tasks, Notified(t) PROVE TypeOK'
  <2>1. PICK outcome \in {"executed", "failed"} :
          work' = [work EXCEPT ![t].notice = outcome]
    BY <1>4 DEF Notified
  <2>2. work \in [Tasks -> [opens: BOOLEAN, notice: {"skip", "executed", "failed"}]]
    BY DEF TypeOK
  <2>3. work' \in [Tasks -> [opens: BOOLEAN, notice: {"skip", "executed", "failed"}]]
    BY <2>1, <2>2
  <2> QED
    BY <1>4, <2>3 DEF Notified, TypeOK, db
<1>5. ASSUME NEW t \in Tasks, Commit(t) PROVE TypeOK'
  <2>1. alerts' \in [AlertIds -> Row]
    <3>1. alerts \in [AlertIds -> Row] /\ Written(t) \in Row
      BY ValuesType DEF TypeOK
    <3> QED
      BY <1>5, <3>1 DEF Commit
  <2>2. evidence' \in [AlertIds -> [n: Nat, peak: 0..4]]
    <3>1. evidence \in [AlertIds -> [n: Nat, peak: 0..4]] /\ ev[t].sev \in 0..4
      BY DEF TypeOK, Severity
    <3>2. \A r \in [n: Nat, peak: 0..4] :
            [n |-> r.n + 1, peak |-> IF ev[t].sev > r.peak THEN ev[t].sev ELSE r.peak]
              \in [n: Nat, peak: 0..4]
      BY <3>1
    <3>3. evidence' = [evidence EXCEPT ![Target(t)] =
            [n |-> evidence[Target(t)].n + 1,
             peak |-> IF ev[t].sev > evidence[Target(t)].peak
                      THEN ev[t].sev ELSE evidence[Target(t)].peak]]
      BY <1>5 DEF Commit
    <3>4. CASE Target(t) \in AlertIds
      <4>1. evidence[Target(t)] \in [n: Nat, peak: 0..4]
        BY <3>1, <3>4
      <4> QED
        BY <3>1, <3>2, <3>3, <4>1
    <3>5. CASE Target(t) \notin AlertIds
      BY <3>1, <3>3, <3>5
    <3> QED
      BY <3>4, <3>5
  <2>3. incidents' \in [AlertIds -> [n: Nat, priority: 0..4]]
    <3>1. incidents \in [AlertIds -> [n: Nat, priority: 0..4]] /\ EffectiveSeverity(t) \in 0..4
      BY ValuesType DEF TypeOK
    <3>2. PICK r \in {incidents[Target(t)]} \cup [n: Nat, priority: 0..4] :
            /\ incidents' = [incidents EXCEPT ![Target(t)] = r]
            /\ Target(t) \in AlertIds => r \in [n: Nat, priority: 0..4]
      <4> DEFINE old == incidents[Target(t)]
                 new == [n |-> IF work[t].opens THEN old.n + 1 ELSE old.n,
                         priority |-> EffectiveSeverity(t)]
      <4>1. incidents' = [incidents EXCEPT ![Target(t)] =
                            IF EffectiveSeverity(t) >= High THEN new ELSE old]
        BY <1>5 DEF Commit
      <4>2. old \in [n: Nat, priority: 0..4] => new \in [n: Nat, priority: 0..4]
        BY <3>1
      <4>3. Target(t) \in AlertIds => old \in [n: Nat, priority: 0..4]
        BY <3>1
      <4>4. CASE Target(t) \notin AlertIds
        <5>1. incidents' = incidents /\ [incidents EXCEPT ![Target(t)] = old] = incidents
          BY <4>1, <4>4, <3>1
        <5> QED
          BY <4>4, <5>1
      <4>5. CASE Target(t) \in AlertIds
        BY <4>1, <4>2, <4>3, <4>5
      <4> QED
        BY <4>4, <4>5
    <3> QED
      BY <3>1, <3>2
  <2>4. notified' \in [AlertIds -> Nat]
    <3>1. notified \in [AlertIds -> Nat]
      BY DEF TypeOK
    <3>2. \A n \in Nat : n + (IF work[t].notice = "executed" THEN 1 ELSE 0) \in Nat
      OBVIOUS
    <3> QED
      BY <1>5, <3>1, <3>2 DEF Commit
  <2> QED
    BY <1>5, <2>1, <2>2, <2>3, <2>4, FinishType DEF Commit, TypeOK
<1>6. ASSUME NEW t \in Tasks, Abort(t) PROVE TypeOK'
  BY <1>6, FinishType DEF Abort, TypeOK, db
<1>7. ASSUME RequestStatus PROVE TypeOK'
  BY <1>7 DEF RequestStatus, TypeOK, db, task
<1>8. ASSUME CommitStatus PROVE TypeOK'
  <2>1. alerts' \in [AlertIds -> Row]
    <3>1. alerts \in [AlertIds -> Row] /\ request.st \in {"active", "closed"}
      BY DEF TypeOK
    <3>2. \A r \in Row : [r EXCEPT !.st = request.st] \in Row
      BY <3>1 DEF Row
    <3> QED
      BY <1>8, <3>1, <3>2 DEF CommitStatus
  <2> QED
    BY <1>8, <2>1 DEF CommitStatus, TypeOK, task, NoRequest
<1>9. ASSUME StatusBusy PROVE TypeOK'
  BY <1>9 DEF StatusBusy, TypeOK, db, task, NoRequest
<1>10. ASSUME Tick PROVE TypeOK'
  BY <1>10 DEF Tick, TypeOK, db, task
<1>11. ASSUME Crash PROVE TypeOK'
  <2>1. NoEvent \in [n: 0..MaxEvents, fp: Fingerprints \cup {"none"}, sev: Severity, at: Nat]
    BY DEF NoEvent, ConstantsAssumption, Severity
  <2>2. NoRow \in Row
    BY DEF NoRow, Row
  <2> QED
    BY <1>11, <2>1, <2>2 DEF Crash, TypeOK, db, NoWork, NoAlert, NoRequest
<1>12. ASSUME UNCHANGED vars PROVE TypeOK'
  BY <1>12 DEF vars, TypeOK, db, task
<1> QED
  BY <1>1, <1>2, <1>3, <1>4, <1>5, <1>6, <1>7, <1>8, <1>9, <1>10, <1>11, <1>12
  DEF Next, Step, Quiet

(* The state of the pipeline is always well typed.                         *)
THEOREM TypeCorrect == Spec => []TypeOK
<1>1. Init => TypeOK
  BY TypeInit, ConstantsAssumption
<1>2. TypeOK /\ [Next]_vars => TypeOK'
  BY TypeStep, ConstantsAssumption
<1> QED
  BY <1>1, <1>2, PTL DEF Spec


-----------------------------------------------------------------------------
(* One task per alert *)

(* A task that has an event works on an existing alert number.             *)
LEMMA TargetInRange ==
    ASSUME TypeOK, NumberInv, NEW t \in Tasks, pc[t] # "idle"
    PROVE  Target(t) \in AlertIds
<1>1. ev[t].n \in 1..received /\ received \in 0..MaxEvents
  BY DEF NumberInv, TypeOK
<1>2. ev[t].n \in AlertIds
  BY <1>1, ConstantsAssumption DEF AlertIds, ConstantsAssumption
<1>3. sel[t] \in AlertIds \cup {NoAlert}
  BY DEF TypeOK
<1> QED
  BY <1>2, <1>3 DEF Target

(* An alert found by the SELECT exists; the number of an event in hand is  *)
(* not yet the name of one.                                                *)
LEMMA SelectedExists ==
    ASSUME AnyInv, NEW t \in Tasks
    PROVE  /\ sel[t] # NoAlert => /\ InFlight(t)
                                  /\ sel[t] \in AlertIds
                                  /\ alerts[sel[t]].st # "absent"
                                  /\ Target(t) = sel[t]
           /\ pc[t] # "idle" => alerts[ev[t].n].st = "absent"
<1>1. sel[t] # NoAlert => InFlight(t)
  BY DEF AnyInv, SelectionInv
<1>2. sel[t] \in AlertIds \cup {NoAlert}
  BY DEF AnyInv, TypeOK
<1>3. sel[t] # NoAlert => alerts[sel[t]].st # "absent"
  BY DEF AnyInv, SeenInv
<1>4. pc[t] # "idle" => alerts[ev[t].n].st = "absent"
  BY DEF AnyInv, NumberInv
<1> QED
  BY <1>1, <1>2, <1>3, <1>4 DEF Target

(* While a task commits, no other task that has flushed works on the same  *)
(* alert: on Postgres its row is locked, on SQLite the other task either   *)
(* has the loop or has the write lock, and then this one could not commit. *)
LEMMA CommitAloneWith ==
    ASSUME AnyInv, ConstantsAssumption,
           NEW t \in Tasks, Commit(t),
           NEW u \in Tasks, u # t, pc[u] # "idle",
           Backend = "postgres" \/ sel[u] = NoAlert \/ Flushed(u)
    PROVE  Target(u) # Target(t)
<1>1. pc[t] = "commit" /\ loop = t /\ ~WriteLocked(t)
  BY DEF Commit
<1>2. ev[u].n # ev[t].n
  BY <1>1 DEF AnyInv, NumberInv
<1>3. CASE sel[u] = NoAlert \/ sel[t] = NoAlert
  BY <1>1, <1>2, <1>3, SelectedExists DEF Target
<1>4. CASE sel[u] # NoAlert /\ sel[t] # NoAlert
  <2>1. CASE Backend = "postgres"
    <3>1. sel[t] \in held[t] /\ sel[u] \in held[u] /\ held[t] \cap held[u] = {}
      BY <1>4, <2>1 DEF AnyInv, SelectionInv
    <3> QED
      BY <1>4, <3>1 DEF Target
  <2>2. CASE Backend # "postgres"
    <3>1. Backend = "sqlite" /\ Flushed(u)
      BY <1>4, <2>2 DEF ConstantsAssumption
    <3>2. pc[u] = "notify"
      BY <1>1, <3>1 DEF AnyInv, LoopInv, Flushed
    <3>3. WriteLocked(t)
      BY <3>1, <3>2 DEF WriteLocked, Writers
    <3> QED
      BY <1>1, <3>3
  <2> QED
    BY <2>1, <2>2
<1> QED
  BY <1>3, <1>4

(* With row locks, or without LLM calls, no other task at all works on it. *)
LEMMA CommitAlone ==
    ASSUME AnyInv, Exclusive, ConstantsAssumption,
           NEW t \in Tasks, Commit(t),
           NEW u \in Tasks, u # t, pc[u] # "idle"
    PROVE  Target(u) # Target(t)
<1>1. CASE Backend = "postgres" \/ sel[u] = NoAlert
  BY <1>1, CommitAloneWith
<1>2. CASE Backend # "postgres" /\ sel[u] # NoAlert
  <2>1. ~LLMEnabled /\ loop = t
    BY <1>2 DEF Exclusive, Commit
  <2>2. pc[u] \in {"analyze", "notify", "commit"}
    BY <1>2, SelectedExists DEF InFlight
  <2>3. Flushed(u)
    BY <2>1, <2>2 DEF AnyInv, LoopInv, Flushed
  <2> QED
    BY <2>3, CommitAloneWith
<1> QED
  BY <1>1, <1>2

-----------------------------------------------------------------------------
(* The steps that leave the database alone *)

(* What the rows say of each other is not touched by other state.          *)
LEMMA RowsStable ==
    ASSUME AnyInv, UNCHANGED db
    PROVE  /\ AbsentInv' /\ NeverOverstated' /\ HighHasIncident' /\ NotifiedOnce'
           /\ RowsInv => RowsInv'
BY DEF AnyInv, RowsInv, AbsentInv, db, NeverOverstated, HighHasIncident, CountMatchesEvidence,
       SeverityMatchesEvidence, TriageExplainsSeverity, HighHasOneIncident, NotifiedOnce

(* Nor is what a task has loaded, while it keeps the row it selected.      *)
LEMMA SeenStable ==
    ASSUME AnyInv, UNCHANGED <<alerts, evidence>>,
           \A u \in Tasks : \/ sel'[u] = NoAlert
                            \/ sel'[u] = sel[u] /\ snap'[u] = snap[u]
    PROVE  SeenInv' /\ (SnapshotInv => SnapshotInv')
BY DEF AnyInv, SeenInv, SnapshotInv

(* A new event has a number of its own and touches no row.                 *)
LEMMA AnyReceive ==
    ASSUME AnyInv, ConstantsAssumption, TypeOK', NEW t \in Tasks, Receive(t)
    PROVE  AnyInv'
<1>0. /\ TypeOK /\ LoopInv /\ NumberInv /\ AbsentInv /\ SelectionInv /\ SeenInv
      /\ WorkInv /\ RequestInv
      /\ NeverOverstated /\ HighHasIncident /\ NotifiedOnce
  BY DEF AnyInv
<1>1. /\ loop = "free" /\ pc[t] = "idle" /\ received' = received + 1
      /\ loop' = t /\ pc' = [pc EXCEPT ![t] = "select"]
      /\ UNCHANGED <<db, sel, snap, held, work, request>>
      /\ received < MaxEvents
  BY DEF Receive
<1>2. PICK fp \in Fingerprints, s \in Incoming :
        ev' = [ev EXCEPT ![t] = [n |-> received + 1, fp |-> fp, sev |-> s, at |-> now]]
  BY DEF Receive
<1>3. /\ received \in Nat /\ pc \in [Tasks -> {"idle", "select", "analyze", "notify", "commit"}]
      /\ DOMAIN ev = Tasks /\ "free" \notin Tasks /\ "analyst" \notin Tasks
  BY <1>0 DEF TypeOK, ConstantsAssumption
<1>4. \A u \in Tasks : u # t => pc'[u] = pc[u] /\ ev'[u] = ev[u]
  BY <1>1, <1>2, <1>3
<1>5. pc'[t] = "select" /\ ev'[t].n = received + 1 /\ ev'[t].fp = fp
  BY <1>1, <1>2, <1>3
<1>6. LoopInv'
  BY <1>0, <1>1, <1>3, <1>4, <1>5 DEF LoopInv
<1>7. NumberInv'
  <2>1. received + 1 \in AlertIds /\ alerts[received + 1].st = "absent"
    BY <1>0, <1>1, <1>3, ConstantsAssumption DEF NumberInv, AlertIds, ConstantsAssumption
  <2>2. \A u \in Tasks : pc'[u] # "idle" =>
          ev'[u].n \in 1..received' /\ ev'[u].fp \in Fingerprints /\ alerts'[ev'[u].n].st = "absent"
    BY <1>0, <1>1, <1>3, <1>4, <1>5, <2>1 DEF NumberInv, db
  <2>3. \A u, v \in Tasks : pc'[u] # "idle" /\ pc'[v] # "idle" /\ u # v => ev'[u].n # ev'[v].n
    <3>1. \A u \in Tasks : u # t /\ pc[u] # "idle" => ev[u].n # received + 1
      BY <1>0, <1>3 DEF NumberInv
    <3>2. \A u, v \in Tasks : pc[u] # "idle" /\ pc[v] # "idle" /\ u # v => ev[u].n # ev[v].n
      BY <1>0 DEF NumberInv
    <3> QED
      BY <1>4, <1>5, <3>1, <3>2
  <2>4. \A a \in AlertIds : alerts'[a].st # "absent" => a <= received'
    BY <1>0, <1>1, <1>3 DEF NumberInv, db, AlertIds
  <2> QED
    BY <2>2, <2>3, <2>4 DEF NumberInv
<1>8. SelectionInv'
  BY <1>0, <1>1, <1>4, <1>5 DEF SelectionInv, InFlight
<1>9. SeenInv'
  BY <1>0, <1>1, SeenStable DEF db
<1>10. WorkInv'
  BY <1>0, <1>1, <1>4, <1>5
  DEF WorkInv, Flushed, OpensIncident, EffectiveSeverity, Target, db
<1>11. RequestInv'
  BY <1>1, <1>3 DEF RequestInv
<1> QED
  BY <1>0, <1>1, <1>6, <1>7, <1>8, <1>9, <1>10, <1>11, RowsStable DEF AnyInv

(* The SELECT takes a row as it is and, on Postgres, locks it for itself.  *)
LEMMA AnySelect ==
    ASSUME AnyInv, ConstantsAssumption, TypeOK', NEW t \in Tasks, Select(t)
    PROVE  AnyInv'
<1>0. /\ TypeOK /\ LoopInv /\ NumberInv /\ AbsentInv /\ SelectionInv /\ SeenInv
      /\ WorkInv /\ RequestInv
      /\ NeverOverstated /\ HighHasIncident /\ NotifiedOnce
  BY DEF AnyInv
<1>1. /\ pc[t] = "select" /\ loop = t
      /\ Found(t) \cap LockedByOthers(t) = {}
      /\ held' = [held EXCEPT ![t] = IF Backend = "postgres" THEN Found(t) ELSE {}]
      /\ pc' = [pc EXCEPT ![t] = "analyze"]
      /\ loop' = IF LLMEnabled THEN "free" ELSE t
      /\ UNCHANGED <<db, received, ev, work, request>>
  BY DEF Select
<1>2. /\ DOMAIN pc = Tasks /\ DOMAIN held = Tasks /\ DOMAIN sel = Tasks /\ DOMAIN snap = Tasks
      /\ "free" \notin Tasks /\ "analyst" \notin Tasks
  BY <1>0 DEF TypeOK, ConstantsAssumption
<1>3. sel[t] = NoAlert /\ snap[t] = NoRow /\ held[t] = {}
  BY <1>0, <1>1 DEF SelectionInv, InFlight
<1>4. \A u \in Tasks : u # t => pc'[u] = pc[u] /\ held'[u] = held[u]
  BY <1>1, <1>2
<1>5. pc'[t] = "analyze" /\ held'[t] = IF Backend = "postgres" THEN Found(t) ELSE {}
  BY <1>1, <1>2
<1>6. /\ \A u \in Tasks : u # t => sel'[u] = sel[u] /\ snap'[u] = snap[u]
      /\ \/ sel'[t] = NoAlert /\ snap'[t] = NoRow
         \/ /\ sel'[t] \in Found(t)
            /\ snap'[t] = alerts[sel'[t]]
            /\ alerts[sel'[t]].st = "active"
  <2>1. CASE UNCHANGED <<sel, snap>>
    BY <1>3, <2>1
  <2>2. ASSUME NEW a \in Newest(Found(t)),
               sel' = [sel EXCEPT ![t] = a], snap' = [snap EXCEPT ![t] = alerts[a]]
        PROVE  /\ \A u \in Tasks : u # t => sel'[u] = sel[u] /\ snap'[u] = snap[u]
               /\ sel'[t] \in Found(t)
               /\ snap'[t] = alerts[sel'[t]]
               /\ alerts[sel'[t]].st = "active"
    BY <1>2, <2>2 DEF Newest, Found, Matching
  <2> QED
    BY <2>1, <2>2 DEF Select
<1>7. LoopInv'
  BY <1>0, <1>1, <1>2, <1>4, <1>5 DEF LoopInv
<1>8. NumberInv'
  BY <1>0, <1>1, <1>4, <1>5 DEF NumberInv, db
<1>9. SelectionInv'
  <2>1. \A u \in Tasks : u # t => held'[t] \cap held[u] = {}
    BY <1>1, <1>5 DEF LockedByOthers
  <2>2. NoAlert \notin Found(t)
    BY DEF Found, Matching, AlertIds, NoAlert
  <2>3. \A u \in Tasks : ~InFlight(u)' => sel'[u] = NoAlert /\ held'[u] = {}
    BY <1>0, <1>4, <1>5, <1>6 DEF SelectionInv, InFlight
  <2>4. \A u \in Tasks : sel'[u] = NoAlert => snap'[u] = NoRow
    BY <1>0, <1>6, <2>2 DEF SelectionInv
  <2>5. \A u \in Tasks : sel'[u] # NoAlert => snap'[u].st = "active"
    BY <1>0, <1>6 DEF SelectionInv
  <2>6. IF Backend = "postgres"
        THEN /\ \A u \in Tasks : sel'[u] # NoAlert => sel'[u] \in held'[u]
             /\ \A u, v \in Tasks : u # v => held'[u] \cap held'[v] = {}
        ELSE \A u \in Tasks : held'[u] = {}
    BY <1>0, <1>4, <1>5, <1>6, <2>1 DEF SelectionInv
  <2> QED
    BY <2>3, <2>4, <2>5, <2>6 DEF SelectionInv
<1>10. SeenInv'
  <2>1. NoAlert \notin AlertIds /\ Found(t) \subseteq AlertIds
    BY DEF Found, Matching, AlertIds, NoAlert
  <2>2. ASSUME NEW u \in Tasks, sel'[u] # NoAlert
        PROVE  /\ alerts[sel'[u]].st # "absent"
               /\ snap'[u].count <= evidence[sel'[u]].n
               /\ snap'[u].sev <= evidence[sel'[u]].peak
               /\ snap'[u].triage <= evidence[sel'[u]].peak
    <3>1. CASE u = t
      BY <1>0, <1>6, <2>1, <2>2, <3>1 DEF NeverOverstated
    <3>2. CASE u # t
      BY <1>0, <1>6, <2>2, <3>2 DEF SeenInv
    <3> QED
      BY <3>1, <3>2
  <2> QED
    BY <1>1, <2>2 DEF SeenInv, db
<1>11. WorkInv'
  BY <1>0, <1>1, <1>4, <1>5, <1>6
  DEF WorkInv, Flushed, OpensIncident, EffectiveSeverity, Target, db
<1>12. RequestInv'
  BY <1>1, <1>2 DEF RequestInv
<1> QED
  BY <1>0, <1>1, <1>7, <1>8, <1>9, <1>10, <1>11, <1>12, RowsStable DEF AnyInv

(* A step that only lets the loop go on to, or from, a task's own work.    *)
LEMMA AnyApply ==
    ASSUME AnyInv, ConstantsAssumption, TypeOK', NEW t \in Tasks, Apply(t)
    PROVE  AnyInv'
<1>0. /\ TypeOK /\ LoopInv /\ NumberInv /\ AbsentInv /\ SelectionInv /\ SeenInv
      /\ WorkInv /\ RequestInv
      /\ NeverOverstated /\ HighHasIncident /\ NotifiedOnce
  BY DEF AnyInv
<1>1. /\ pc[t] = "analyze" /\ loop \in {"free", t}
      /\ pc' = [pc EXCEPT ![t] = IF MustWait(t) THEN "notify" ELSE "commit"]
      /\ loop' = IF MustWait(t) THEN "free" ELSE t
      /\ work' = [work EXCEPT ![t] =
           [opens |-> OpensIncident(t),
            notice |-> IF Notifies(t) THEN "executed" ELSE "skip"]]
      /\ UNCHANGED <<db, received, ev, sel, snap, held, request>>
  BY DEF Apply, OnLoop
<1>2. /\ DOMAIN pc = Tasks /\ DOMAIN work = Tasks /\ "free" \notin Tasks /\ "analyst" \notin Tasks
  BY <1>0 DEF TypeOK, ConstantsAssumption
<1>3. /\ \A u \in Tasks : u # t => pc'[u] = pc[u] /\ work'[u] = work[u]
      /\ pc'[t] \in {"notify", "commit"} /\ (pc'[t] = "commit" => loop' = t)
      /\ pc'[t] = "notify" => NotifyWebhook
      /\ work'[t].opens = OpensIncident(t)
      /\ work'[t].notice # "skip" => Notifies(t)
      /\ pc'[t] = "notify" => work'[t].notice # "skip"
  BY <1>1, <1>2 DEF MustWait
<1>4. LoopInv'
  BY <1>0, <1>1, <1>2, <1>3 DEF LoopInv
<1>5. NumberInv'
  BY <1>0, <1>1, <1>3 DEF NumberInv, db
<1>6. SelectionInv'
  BY <1>0, <1>1, <1>3 DEF SelectionInv, InFlight
<1>7. SeenInv'
  BY <1>0, <1>1, SeenStable DEF db
<1>8. WorkInv'
  BY <1>0, <1>1, <1>3
  DEF WorkInv, Flushed, OpensIncident, EffectiveSeverity, Target, Notifies, db
<1>9. RequestInv'
  BY <1>1, <1>2 DEF RequestInv
<1> QED
  BY <1>0, <1>1, <1>4, <1>5, <1>6, <1>7, <1>8, <1>9, RowsStable DEF AnyInv

(* The answer of the webhook changes only the notification row in hand.    *)
LEMMA AnyNotified ==
    ASSUME AnyInv, ConstantsAssumption, TypeOK', NEW t \in Tasks, Notified(t)
    PROVE  AnyInv'
<1>0. /\ TypeOK /\ LoopInv /\ NumberInv /\ AbsentInv /\ SelectionInv /\ SeenInv
      /\ WorkInv /\ RequestInv
      /\ NeverOverstated /\ HighHasIncident /\ NotifiedOnce
  BY DEF AnyInv
<1>1. /\ pc[t] = "notify" /\ loop = "free" /\ loop' = t
      /\ pc' = [pc EXCEPT ![t] = "commit"]
      /\ UNCHANGED <<db, received, ev, sel, snap, held, request>>
  BY DEF Notified
<1>2. PICK outcome \in {"executed", "failed"} : work' = [work EXCEPT ![t].notice = outcome]
  BY DEF Notified
<1>3. /\ DOMAIN pc = Tasks /\ "free" \notin Tasks /\ "analyst" \notin Tasks
      /\ work \in [Tasks -> [opens: BOOLEAN, notice: {"skip", "executed", "failed"}]]
  BY <1>0 DEF TypeOK, ConstantsAssumption
<1>4. /\ \A u \in Tasks : u # t => pc'[u] = pc[u] /\ work'[u] = work[u]
      /\ pc'[t] = "commit" /\ work'[t].opens = work[t].opens
  BY <1>1, <1>2, <1>3
<1>5. LoopInv'
  BY <1>0, <1>1, <1>3, <1>4 DEF LoopInv
<1>6. NumberInv'
  BY <1>0, <1>1, <1>4 DEF NumberInv, db
<1>7. SelectionInv'
  BY <1>0, <1>1, <1>4 DEF SelectionInv, InFlight
<1>8. SeenInv'
  BY <1>0, <1>1, SeenStable DEF db
<1>9. WorkInv'
  <2>1. notified[Target(t)] = 0
    BY <1>0, <1>1 DEF WorkInv, Flushed
  <2> QED
    BY <1>0, <1>1, <1>4, <2>1
    DEF WorkInv, Flushed, OpensIncident, EffectiveSeverity, Target, db
<1>10. RequestInv'
  BY <1>1, <1>3 DEF RequestInv
<1> QED
  BY <1>0, <1>1, <1>5, <1>6, <1>7, <1>8, <1>9, <1>10, RowsStable DEF AnyInv

(* Closing a session, with the database as it is, for any of its reasons.  *)
LEMMA AnyAbort ==
    ASSUME AnyInv, ConstantsAssumption, TypeOK', NEW t \in Tasks, Abort(t)
    PROVE  AnyInv'
<1>0. /\ TypeOK /\ LoopInv /\ NumberInv /\ AbsentInv /\ SelectionInv /\ SeenInv
      /\ WorkInv /\ RequestInv
      /\ NeverOverstated /\ HighHasIncident /\ NotifiedOnce
  BY DEF AnyInv
<1>1. Finish(t) /\ UNCHANGED <<db, received, request>> /\ loop \in {"free", t}
  BY DEF Abort, Fails, LLMFails, OnLoop
<1>2. /\ DOMAIN pc = Tasks /\ DOMAIN sel = Tasks /\ DOMAIN snap = Tasks
      /\ DOMAIN held = Tasks /\ DOMAIN work = Tasks /\ DOMAIN ev = Tasks
      /\ "free" \notin Tasks /\ "analyst" \notin Tasks
  BY <1>0 DEF TypeOK, ConstantsAssumption
<1>3. /\ \A u \in Tasks : u # t =>
           /\ pc'[u] = pc[u] /\ ev'[u] = ev[u] /\ sel'[u] = sel[u]
           /\ snap'[u] = snap[u] /\ held'[u] = held[u] /\ work'[u] = work[u]
      /\ pc'[t] = "idle" /\ sel'[t] = NoAlert /\ snap'[t] = NoRow /\ held'[t] = {}
      /\ loop' = "free"
  BY <1>1, <1>2 DEF Finish
<1>4. LoopInv'
  BY <1>0, <1>1, <1>2, <1>3 DEF LoopInv
<1>5. NumberInv'
  BY <1>0, <1>1, <1>3 DEF NumberInv, db
<1>6. SelectionInv'
  BY <1>0, <1>1, <1>3 DEF SelectionInv, InFlight
<1>7. SeenInv'
  BY <1>0, <1>1, <1>3, SeenStable DEF db
<1>8. WorkInv'
  BY <1>0, <1>1, <1>3
  DEF WorkInv, Flushed, OpensIncident, EffectiveSeverity, Target, db
<1>9. RequestInv'
  BY <1>3 DEF RequestInv
<1> QED
  BY <1>0, <1>1, <1>4, <1>5, <1>6, <1>7, <1>8, <1>9, RowsStable DEF AnyInv

-----------------------------------------------------------------------------
(* The steps that change the database *)

(* What COMMIT writes for the alert follows from what is stored about it:  *)
(* the task's view of the row is current, or there is no row yet.          *)
LEMMA CommitValues ==
    ASSUME IInv, ConstantsAssumption, NEW t \in Tasks, pc[t] = "commit"
    PROVE  LET old == alerts[Target(t)]
           IN /\ snap[t].count = old.count /\ snap[t].sev = old.sev
              /\ snap[t].triage = old.triage /\ snap[t].fp \in {old.fp, "none"}
              /\ old.st # "closed"
              /\ Written(t) = Merged(t)
              /\ Written(t).st = "active"
<1>1. CASE sel[t] = NoAlert
  <2>1. Target(t) = ev[t].n /\ alerts[ev[t].n].st = "absent" /\ Target(t) \in AlertIds
    BY <1>1, SelectedExists, TargetInRange DEF IInv, AnyInv, Target
  <2>2. alerts[Target(t)] = NoRow /\ snap[t] = NoRow
    BY <1>1, <2>1 DEF IInv, AnyInv, AbsentInv, SelectionInv
  <2> QED
    BY <1>1, <2>2 DEF Written, Merged, NoRow
<1>2. CASE sel[t] # NoAlert
  <2>1. alerts[sel[t]] = snap[t] /\ snap[t].st = "active" /\ Target(t) = sel[t]
    BY <1>2 DEF IInv, AnyInv, SnapshotInv, SelectionInv, Target
  <2>2. snap[t].triage = snap[t].sev
    BY <1>2, <2>1, SelectedExists DEF IInv, AnyInv, RowsInv, TriageExplainsSeverity
  <2>3. Written(t) = Merged(t)
    BY <1>2, <2>1 DEF Written, Merged, TriageInForce, ReplacesTriage
  <2> QED
    BY <1>2, <2>1, <2>3 DEF Merged
<1> QED
  BY <1>1, <1>2

(* The rows of the alert a task commits to agree with each other.          *)
LEMMA CommitRows ==
    ASSUME IInv, Exclusive, ConstantsAssumption, TypeOK', NEW t \in Tasks, Commit(t)
    PROVE  RowsInv'
<1>0. TypeOK /\ WorkInv /\ RowsInv /\ pc[t] = "commit"
  BY DEF IInv, AnyInv, Commit
<1> DEFINE a0 == Target(t)
           old == alerts[a0]
<1>1. a0 \in AlertIds
  BY <1>0, TargetInRange DEF IInv, AnyInv
<1>2. /\ alerts \in [AlertIds -> Row] /\ evidence \in [AlertIds -> [n: Nat, peak: 0..4]]
      /\ incidents \in [AlertIds -> [n: Nat, priority: 0..4]]
      /\ notified \in [AlertIds -> Nat]
      /\ ev[t].sev \in 1..4 /\ snap[t] \in Row
  BY <1>0 DEF TypeOK, Severity
<1>3. /\ alerts' = [alerts EXCEPT ![a0] = Merged(t)]
      /\ snap[t].count = old.count /\ snap[t].sev = old.sev /\ snap[t].triage = old.triage
  BY <1>0, CommitValues DEF Commit
<1>4. \A a \in AlertIds : a # a0 =>
        /\ alerts'[a] = alerts[a] /\ evidence'[a] = evidence[a]
        /\ incidents'[a] = incidents[a] /\ notified'[a] = notified[a]
  BY <1>2 DEF Commit
<1>5. /\ alerts'[a0].count = old.count + 1
      /\ alerts'[a0].sev = (IF ev[t].sev > old.sev THEN ev[t].sev ELSE old.sev)
      /\ alerts'[a0].triage = (IF ev[t].sev >= old.sev THEN ev[t].sev ELSE old.triage)
  BY <1>1, <1>2, <1>3 DEF Merged, EventCount, EffectiveSeverity, TriageInForce, ReplacesTriage
<1>6. /\ evidence'[a0].n = evidence[a0].n + 1
      /\ evidence'[a0].peak = (IF ev[t].sev > evidence[a0].peak
                               THEN ev[t].sev ELSE evidence[a0].peak)
  BY <1>1, <1>2 DEF Commit
<1>7. old \in Row /\ evidence[a0] \in [n: Nat, peak: 0..4]
  BY <1>1, <1>2
<1>8. CountMatchesEvidence'
  BY <1>0, <1>1, <1>4, <1>5, <1>6 DEF RowsInv, CountMatchesEvidence
<1>9. SeverityMatchesEvidence'
  BY <1>0, <1>1, <1>4, <1>5, <1>6 DEF RowsInv, SeverityMatchesEvidence
<1>10. TriageExplainsSeverity'
  <2>1. old.triage = old.sev
    BY <1>0, <1>1 DEF RowsInv, TriageExplainsSeverity
  <2>2. alerts'[a0].triage = alerts'[a0].sev
    BY <1>2, <1>5, <1>7, <2>1 DEF Row
  <2> QED
    BY <1>0, <1>4, <2>2 DEF RowsInv, TriageExplainsSeverity
<1>11. HighHasOneIncident'
  <2>1. EffectiveSeverity(t) = alerts'[a0].sev
    BY <1>1, <1>2, <1>3 DEF Merged
  <2>2. work[t].opens = (EffectiveSeverity(t) >= High /\ incidents[a0].n = 0)
    BY <1>0 DEF WorkInv, Flushed, OpensIncident
  <2>3. IF old.sev >= High THEN incidents[a0] = [n |-> 1, priority |-> old.sev]
                           ELSE incidents[a0].n = 0
    BY <1>0, <1>1 DEF RowsInv, HighHasOneIncident
  <2>4. incidents'[a0] =
          IF EffectiveSeverity(t) >= High
          THEN [n |-> IF work[t].opens THEN incidents[a0].n + 1 ELSE incidents[a0].n,
                priority |-> EffectiveSeverity(t)]
          ELSE incidents[a0]
    BY <1>1, <1>2 DEF Commit
  <2>5. alerts'[a0].sev >= old.sev /\ old.sev \in 0..4
    BY <1>2, <1>5, <1>7 DEF Row
  <2>6. IF alerts'[a0].sev >= High
        THEN incidents'[a0] = [n |-> 1, priority |-> alerts'[a0].sev]
        ELSE incidents'[a0].n = 0
    <3>1. CASE alerts'[a0].sev >= High
      <4>1. incidents[a0].n = 0 \/ incidents[a0].n = 1
        BY <2>3
      <4>2. (IF work[t].opens THEN incidents[a0].n + 1 ELSE incidents[a0].n) = 1
        <5>1. EffectiveSeverity(t) >= High
          BY <3>1, <2>1
        <5>2. CASE incidents[a0].n = 0
          <6>1. work[t].opens
            BY <2>2, <5>1, <5>2, Zenon
          <6> QED
            BY <5>2, <6>1
        <5>3. CASE incidents[a0].n = 1
          <6>1. incidents[a0].n # 0
            BY <5>3
          <6>2. ~work[t].opens
            BY <2>2, <6>1, Zenon
          <6> QED
            BY <5>3, <6>2
        <5> QED
          BY <4>1, <5>2, <5>3
      <4>3. incidents'[a0] = [n |-> 1, priority |-> EffectiveSeverity(t)]
        BY <3>1, <2>1, <2>4, <4>2
      <4> QED
        BY <3>1, <2>1, <4>3
    <3>2. CASE ~(alerts'[a0].sev >= High)
      <4>1. ~(old.sev >= High)
        BY <3>2, <2>5, <1>5, <1>2 DEF High
      <4> QED
        BY <3>2, <4>1, <2>1, <2>3, <2>4
    <3> QED
      BY <3>1, <3>2
  <2> QED
    BY <1>0, <1>4, <2>6 DEF RowsInv, HighHasOneIncident
<1> QED
  BY <1>8, <1>9, <1>10, <1>11 DEF RowsInv

(* Whatever other tasks have done since the SELECT, the row written claims *)
(* nothing its evidence lacks, and a high one has its one incident.        *)
LEMMA CommitAny ==
    ASSUME AnyInv, ConstantsAssumption, NEW t \in Tasks, Commit(t)
    PROVE  /\ Written(t).st # "absent"
           /\ NeverOverstated' /\ HighHasIncident' /\ NotifiedOnce'
           /\ \A a \in AlertIds : /\ evidence'[a].n >= evidence[a].n
                                  /\ evidence'[a].peak >= evidence[a].peak
<1>0. TypeOK /\ WorkInv /\ NeverOverstated /\ HighHasIncident /\ NotifiedOnce
        /\ pc[t] = "commit"
  BY DEF AnyInv, Commit
<1> DEFINE a0 == Target(t)
           old == alerts[a0]
<1>1. a0 \in AlertIds
  BY <1>0, TargetInRange DEF AnyInv
<1>2. /\ alerts \in [AlertIds -> Row] /\ evidence \in [AlertIds -> [n: Nat, peak: 0..4]]
      /\ incidents \in [AlertIds -> [n: Nat, priority: 0..4]]
      /\ notified \in [AlertIds -> Nat]
      /\ ev[t].sev \in 1..4 /\ snap[t] \in Row
  BY <1>0 DEF TypeOK, Severity
<1>3. /\ old \in Row /\ evidence[a0] \in [n: Nat, peak: 0..4]
      /\ evidence[a0].n \in Nat /\ evidence[a0].peak \in 0..4
      /\ snap[t].count \in Nat /\ snap[t].sev \in 0..4 /\ snap[t].triage \in 0..4
      /\ old.sev \in 0..4 /\ old.triage \in 0..4
  BY <1>1, <1>2 DEF Row
<1>4. \A a \in AlertIds : a # a0 =>
        /\ alerts'[a] = alerts[a] /\ evidence'[a] = evidence[a]
        /\ incidents'[a] = incidents[a] /\ notified'[a] = notified[a]
  BY <1>2 DEF Commit
<1>5. alerts'[a0] = Written(t)
  BY <1>1, <1>2 DEF Commit
<1>6. /\ evidence'[a0].n = evidence[a0].n + 1
      /\ evidence'[a0].peak = (IF ev[t].sev > evidence[a0].peak
                               THEN ev[t].sev ELSE evidence[a0].peak)
  BY <1>1, <1>2 DEF Commit
<1>7. /\ snap[t].count <= evidence[a0].n
      /\ snap[t].sev <= evidence[a0].peak /\ snap[t].triage <= evidence[a0].peak
      /\ old.sev <= evidence[a0].peak /\ old.triage <= evidence[a0].peak
  <2>1. CASE sel[t] = NoAlert
    <3>1. snap[t] = NoRow
      BY <2>1 DEF AnyInv, SelectionInv
    <3> QED
      BY <1>0, <1>1, <1>3, <3>1 DEF NoRow, NeverOverstated
  <2>2. CASE sel[t] # NoAlert
    BY <1>0, <1>1, <2>2, SelectedExists DEF AnyInv, SeenInv, NeverOverstated
  <2> QED
    BY <2>1, <2>2
<1>8. /\ Written(t).count = snap[t].count + 1
      /\ Written(t).sev \in {EffectiveSeverity(t)} \cup {old.sev}
      /\ Written(t).sev = old.sev \/ Written(t).sev = EffectiveSeverity(t)
      /\ sel[t] = NoAlert \/ EffectiveSeverity(t) # snap[t].sev
           => Written(t).sev = EffectiveSeverity(t)
      /\ sel[t] # NoAlert /\ EffectiveSeverity(t) = snap[t].sev => Written(t).sev = old.sev
      /\ Written(t).triage \in {ev[t].sev, snap[t].triage, old.triage}
  BY DEF Written, Merged, EventCount, Target, TriageInForce
<1>9. Written(t).st # "absent"
  <2>1. sel[t] # NoAlert => alerts[sel[t]].st # "absent"
    BY SelectedExists
  <2> QED
    BY <2>1 DEF Written, Merged
<1>10. NeverOverstated'
  <2>1. Written(t).sev \in {ev[t].sev, snap[t].sev, old.sev}
    BY <1>8 DEF EffectiveSeverity
  <2>2. Written(t).count <= evidence'[a0].n
    BY <1>3, <1>6, <1>7, <1>8
  <2>3. \A x \in {ev[t].sev, snap[t].sev, snap[t].triage, old.sev, old.triage} :
          x <= evidence'[a0].peak
    BY <1>2, <1>3, <1>6, <1>7
  <2>4. Written(t).sev <= evidence'[a0].peak
    BY <2>1, <2>3
  <2>5. Written(t).triage <= evidence'[a0].peak
    BY <1>8, <2>3
  <2> QED
    BY <1>0, <1>4, <1>5, <2>2, <2>4, <2>5 DEF NeverOverstated
<1>11. HighHasIncident'
  <2>1. incidents[a0].n \in Nat /\ incidents[a0].n <= 1
    BY <1>0, <1>1, <1>2 DEF HighHasIncident
  <2>2. work[t].opens <=> (EffectiveSeverity(t) >= High /\ incidents[a0].n = 0)
    BY <1>0 DEF WorkInv, Flushed, OpensIncident
  <2>3. incidents'[a0] =
          IF EffectiveSeverity(t) >= High
          THEN [n |-> IF work[t].opens THEN incidents[a0].n + 1 ELSE incidents[a0].n,
                priority |-> EffectiveSeverity(t)]
          ELSE incidents[a0]
    BY <1>1, <1>2 DEF Commit
  <2>4. EffectiveSeverity(t) >= High => incidents'[a0].n = 1
    <3>1. CASE incidents[a0].n = 0
      BY <2>2, <2>3, <3>1
    <3>2. CASE incidents[a0].n = 1
      BY <2>2, <2>3, <3>2
    <3> QED
      BY <2>1, <3>1, <3>2
  <2>5. ~(EffectiveSeverity(t) >= High) => incidents'[a0].n = incidents[a0].n
    BY <2>3
  <2>6. ~(EffectiveSeverity(t) >= High) /\ Written(t).sev >= High => incidents[a0].n = 1
    BY <1>0, <1>1, <1>8 DEF HighHasIncident
  <2>7. incidents'[a0].n <= 1 /\ (alerts'[a0].sev >= High => incidents'[a0].n = 1)
    BY <1>5, <2>1, <2>4, <2>5, <2>6
  <2> QED
    BY <1>0, <1>4, <2>7 DEF HighHasIncident
<1>12. NotifiedOnce'
  <2>1. notified'[a0] = notified[a0] + IF work[t].notice = "executed" THEN 1 ELSE 0
    BY <1>1, <1>2 DEF Commit
  <2>2. notified[a0] \in Nat /\ notified[a0] <= 1
    BY <1>0, <1>1, <1>2 DEF NotifiedOnce
  <2>3. work[t].notice = "executed" => notified[a0] = 0
    BY <1>0 DEF WorkInv, Flushed
  <2>4. notified'[a0] <= 1
    BY <2>1, <2>2, <2>3
  <2> QED
    BY <1>0, <1>4, <2>4 DEF NotifiedOnce
<1>13. \A a \in AlertIds : /\ evidence'[a].n >= evidence[a].n
                           /\ evidence'[a].peak >= evidence[a].peak
  <2>1. \A a \in AlertIds : evidence[a].n \in Nat /\ evidence[a].peak \in 0..4
    BY <1>2
  <2> QED
    BY <1>2, <1>4, <1>6, <2>1
<1> QED
  BY <1>9, <1>10, <1>11, <1>12, <1>13

(* COMMIT changes one alert, and what another task has flushed is of       *)
(* another alert.                                                          *)
LEMMA AnyCommit ==
    ASSUME AnyInv, ConstantsAssumption, TypeOK', NEW t \in Tasks, Commit(t)
    PROVE  AnyInv'
<1>0. /\ TypeOK /\ LoopInv /\ NumberInv /\ AbsentInv /\ SelectionInv /\ SeenInv
      /\ WorkInv /\ RequestInv
      /\ NeverOverstated /\ HighHasIncident /\ NotifiedOnce
  BY DEF AnyInv
<1>1. pc[t] = "commit" /\ loop = t /\ Finish(t) /\ UNCHANGED <<received, request>>
  BY DEF Commit
<1>2. /\ DOMAIN pc = Tasks /\ DOMAIN sel = Tasks /\ DOMAIN snap = Tasks
      /\ DOMAIN held = Tasks /\ DOMAIN work = Tasks /\ DOMAIN ev = Tasks
      /\ DOMAIN alerts = AlertIds /\ DOMAIN evidence = AlertIds
      /\ DOMAIN incidents = AlertIds /\ DOMAIN notified = AlertIds
      /\ "free" \notin Tasks /\ "analyst" \notin Tasks
  BY <1>0 DEF TypeOK, ConstantsAssumption
<1>3. /\ \A u \in Tasks : u # t =>
           /\ pc'[u] = pc[u] /\ ev'[u] = ev[u] /\ sel'[u] = sel[u]
           /\ snap'[u] = snap[u] /\ held'[u] = held[u] /\ work'[u] = work[u]
      /\ pc'[t] = "idle" /\ sel'[t] = NoAlert /\ snap'[t] = NoRow /\ held'[t] = {}
      /\ loop' = "free"
  BY <1>1, <1>2 DEF Finish
<1>4. Target(t) \in AlertIds
  BY <1>0, <1>1, TargetInRange
<1>5. /\ alerts'[Target(t)] = Written(t)
      /\ \A a \in AlertIds : a # Target(t) =>
           /\ alerts'[a] = alerts[a] /\ evidence'[a] = evidence[a]
           /\ incidents'[a] = incidents[a] /\ notified'[a] = notified[a]
  BY <1>2, <1>4 DEF Commit
<1>6. alerts'[Target(t)].st # "absent"
  BY <1>5, CommitAny
<1>7. \A u \in Tasks : u # t /\ Flushed(u) => Target(u) # Target(t) /\ Target(u) \in AlertIds
  BY <1>0, CommitAloneWith, TargetInRange DEF Flushed
<1>8. LoopInv'
  BY <1>0, <1>1, <1>2, <1>3 DEF LoopInv
<1>9. NumberInv'
  <2>1. \A u \in Tasks : u # t /\ pc[u] # "idle" =>
          ev[u].n # Target(t) /\ ev[u].n \in AlertIds
    <3>1. ASSUME NEW u \in Tasks, u # t, pc[u] # "idle"
          PROVE  ev[u].n # Target(t) /\ ev[u].n \in AlertIds
      <4>1. ev[u].n # ev[t].n /\ ev[u].n \in 1..received /\ received \in 0..MaxEvents
        BY <1>0, <1>1, <3>1 DEF NumberInv, TypeOK
      <4>2. alerts[ev[u].n].st = "absent"
        BY <3>1, SelectedExists
      <4>3. sel[t] # NoAlert => alerts[sel[t]].st # "absent"
        BY SelectedExists
      <4> QED
        BY <4>1, <4>2, <4>3, ConstantsAssumption DEF Target, AlertIds, ConstantsAssumption
    <3> QED
      BY <3>1
  <2>2. \A u \in Tasks : pc'[u] # "idle" =>
          /\ ev'[u].n \in 1..received' /\ ev'[u].fp \in Fingerprints
          /\ alerts'[ev'[u].n].st = "absent"
    BY <1>0, <1>1, <1>3, <1>5, <2>1 DEF NumberInv
  <2>3. \A u, v \in Tasks : pc'[u] # "idle" /\ pc'[v] # "idle" /\ u # v => ev'[u].n # ev'[v].n
    BY <1>0, <1>3 DEF NumberInv
  <2>4. Target(t) <= received
    <3>1. ev[t].n \in 1..received /\ received \in 0..MaxEvents
      BY <1>0, <1>1 DEF NumberInv, TypeOK
    <3>2. sel[t] # NoAlert => sel[t] <= received
      BY <1>0, SelectedExists DEF NumberInv
    <3> QED
      BY <3>1, <3>2, ConstantsAssumption DEF Target, ConstantsAssumption
  <2>5. \A a \in AlertIds : alerts'[a].st # "absent" => a <= received'
    BY <1>0, <1>1, <1>5, <2>4 DEF NumberInv
  <2> QED
    BY <2>2, <2>3, <2>5 DEF NumberInv
<1>10. AbsentInv'
  BY <1>0, <1>5, <1>6 DEF AbsentInv
<1>11. SelectionInv'
  BY <1>0, <1>1, <1>3 DEF SelectionInv, InFlight
<1>12. SeenInv'
  <2>1. ASSUME NEW u \in Tasks, u # t, sel[u] # NoAlert
        PROVE  /\ alerts'[sel[u]].st # "absent"
               /\ snap[u].count <= evidence'[sel[u]].n
               /\ snap[u].sev <= evidence'[sel[u]].peak
               /\ snap[u].triage <= evidence'[sel[u]].peak
    <3>1. /\ sel[u] \in AlertIds /\ alerts[sel[u]].st # "absent"
          /\ snap[u].count <= evidence[sel[u]].n
          /\ snap[u].sev <= evidence[sel[u]].peak
          /\ snap[u].triage <= evidence[sel[u]].peak
      BY <1>0, <2>1, SelectedExists DEF SeenInv
    <3>2. /\ evidence'[sel[u]].n >= evidence[sel[u]].n
          /\ evidence'[sel[u]].peak >= evidence[sel[u]].peak
      BY <3>1, CommitAny
    <3>3. /\ evidence[sel[u]].n \in Nat /\ evidence[sel[u]].peak \in 0..4
          /\ snap[u].count \in Nat /\ snap[u].sev \in 0..4 /\ snap[u].triage \in 0..4
      BY <1>0, <3>1 DEF TypeOK, Row
    <3>4. evidence'[sel[u]].n \in Nat /\ evidence'[sel[u]].peak \in 0..4
      BY <3>1 DEF TypeOK
    <3> QED
      BY <1>5, <1>6, <3>1, <3>2, <3>3, <3>4
  <2> QED
    BY <1>3, <2>1 DEF SeenInv
<1>13. WorkInv'
  <2>1. ASSUME NEW u \in Tasks, u # t, Flushed(u)
        PROVE  /\ Target(u)' = Target(u)
               /\ incidents'[Target(u)] = incidents[Target(u)]
               /\ notified'[Target(u)] = notified[Target(u)]
               /\ EffectiveSeverity(u)' = EffectiveSeverity(u)
    BY <1>3, <1>5, <1>7, <2>1 DEF Target, EffectiveSeverity
  <2> QED
    BY <1>0, <1>3, <2>1 DEF WorkInv, Flushed, OpensIncident
<1>14. RequestInv'
  BY <1>3 DEF RequestInv
<1> QED
  BY <1>8, <1>9, <1>10, <1>11, <1>12, <1>13, <1>14, CommitAny DEF AnyInv

(* A status change is of a row that exists, and changes nothing but its    *)
(* status.                                                                 *)
LEMMA AnyCommitStatus ==
    ASSUME AnyInv, ConstantsAssumption, TypeOK', CommitStatus
    PROVE  AnyInv'
<1>0. /\ TypeOK /\ LoopInv /\ NumberInv /\ AbsentInv /\ SelectionInv /\ SeenInv
      /\ WorkInv /\ RequestInv
      /\ NeverOverstated /\ HighHasIncident /\ NotifiedOnce
  BY DEF AnyInv
<1> DEFINE a0 == request.alert
<1>1. /\ loop = "analyst" /\ loop' = "free" /\ Writers = {}
      /\ \A t \in Tasks : a0 \notin held[t]
      /\ alerts' = [alerts EXCEPT ![a0].st = request.st]
      /\ UNCHANGED <<evidence, incidents, notified, received, task>>
      /\ a0 \in AlertIds /\ alerts[a0].st # "absent"
      /\ request.st \in {"active", "closed"}
  BY <1>0 DEF CommitStatus, LockedByOthers, RequestInv, TypeOK
<1>2. alerts \in [AlertIds -> Row] /\ "free" \notin Tasks /\ "analyst" \notin Tasks
  BY <1>0 DEF TypeOK, ConstantsAssumption
<1>3. /\ \A a \in AlertIds : a # a0 => alerts'[a] = alerts[a]
      /\ alerts'[a0].st # "absent"
      /\ \A a \in AlertIds : /\ alerts'[a].count = alerts[a].count
                             /\ alerts'[a].sev = alerts[a].sev
                             /\ alerts'[a].triage = alerts[a].triage
  BY <1>1, <1>2 DEF Row
<1>5. LoopInv'
  BY <1>0, <1>1, <1>2 DEF LoopInv, task
<1>6. NumberInv'
  <2>1. \A t \in Tasks : pc[t] # "idle" => ev[t].n \in AlertIds /\ ev[t].n # a0
    BY <1>0, <1>1, ConstantsAssumption DEF NumberInv, AlertIds, TypeOK, ConstantsAssumption
  <2> QED
    BY <1>0, <1>1, <1>3, <2>1 DEF NumberInv, task
<1>7. AbsentInv'
  BY <1>0, <1>1, <1>3 DEF AbsentInv
<1>8. SelectionInv'
  BY <1>0, <1>1 DEF SelectionInv, InFlight, task
<1>9. SeenInv'
  <2>1. \A t \in Tasks : sel[t] # NoAlert => sel[t] \in AlertIds
    BY <1>0 DEF TypeOK
  <2> QED
    BY <1>0, <1>1, <1>3, <2>1 DEF SeenInv, task
<1>10. WorkInv'
  BY <1>0, <1>1 DEF WorkInv, Flushed, OpensIncident, EffectiveSeverity, Target, task
<1>11. RequestInv'
  BY <1>1 DEF RequestInv
<1>12. NeverOverstated' /\ HighHasIncident' /\ NotifiedOnce'
  BY <1>0, <1>1, <1>3 DEF NeverOverstated, HighHasIncident, NotifiedOnce
<1> QED
  BY <1>0, <1>5, <1>6, <1>7, <1>8, <1>9, <1>10, <1>11, <1>12 DEF AnyInv

(* The remaining steps: the clock, the start and the failure of a status   *)
(* change, a crash, and no step at all.                                    *)
LEMMA AnyOther ==
    ASSUME AnyInv, ConstantsAssumption, TypeOK',
           Tick \/ RequestStatus \/ StatusBusy \/ Crash \/ UNCHANGED vars
    PROVE  AnyInv'
<1>0. /\ TypeOK /\ LoopInv /\ NumberInv /\ AbsentInv /\ SelectionInv /\ SeenInv
      /\ WorkInv /\ RequestInv
      /\ NeverOverstated /\ HighHasIncident /\ NotifiedOnce
  BY DEF AnyInv
<1>1. "free" \notin Tasks /\ "analyst" \notin Tasks
  BY DEF ConstantsAssumption
<1>2. UNCHANGED db /\ UNCHANGED received
  BY DEF Tick, RequestStatus, StatusBusy, Crash, vars
<1>3. CASE Crash
  <2>1. /\ \A t \in Tasks : /\ pc'[t] = "idle" /\ sel'[t] = NoAlert
                            /\ snap'[t] = NoRow /\ held'[t] = {}
        /\ loop' = "free"
    BY <1>3 DEF Crash
  <2>2. LoopInv' /\ SelectionInv' /\ SeenInv' /\ WorkInv' /\ RequestInv'
    BY <2>1 DEF LoopInv, SelectionInv, SeenInv, WorkInv, RequestInv, Flushed
  <2>3. NumberInv'
    BY <1>0, <1>2, <2>1 DEF NumberInv, db
  <2> QED
    BY <1>0, <1>2, <2>2, <2>3, RowsStable DEF AnyInv
<1>4. CASE Tick \/ RequestStatus \/ StatusBusy \/ UNCHANGED vars
  <2>1. UNCHANGED task
    BY <1>4 DEF Tick, RequestStatus, StatusBusy, vars
  <2>2. NumberInv' /\ SelectionInv' /\ SeenInv'
    BY <1>0, <1>2, <2>1 DEF NumberInv, SelectionInv, SeenInv, InFlight, db, task
  <2>3. WorkInv'
    BY <1>0, <1>2, <2>1
    DEF WorkInv, Flushed, OpensIncident, EffectiveSeverity, Target, db, task
  <2>4. LoopInv' /\ RequestInv'
    <3>1. CASE Tick \/ UNCHANGED vars
      BY <1>0, <1>2, <2>1, <3>1 DEF LoopInv, RequestInv, Tick, vars, task, db
    <3>2. CASE RequestStatus
      BY <1>0, <1>1, <1>2, <2>1, <3>2 DEF LoopInv, RequestInv, RequestStatus, task, db
    <3>3. CASE StatusBusy
      BY <1>0, <1>1, <2>1, <3>3 DEF LoopInv, RequestInv, StatusBusy, task
    <3> QED
      BY <1>4, <3>1, <3>2, <3>3
  <2> QED
    BY <1>0, <1>2, <2>2, <2>3, <2>4, RowsStable DEF AnyInv
<1> QED
  BY <1>3, <1>4

-----------------------------------------------------------------------------
(* What holds in every configuration *)

(* Nothing is wrong with an empty database.                                *)
LEMMA AnyInit == ASSUME ConstantsAssumption, Init PROVE AnyInv
<1>1. TypeOK
  BY TypeInit
<1>2. LoopInv /\ SeenInv /\ WorkInv /\ RequestInv
  BY DEF Init, LoopInv, SeenInv, WorkInv, RequestInv, Flushed
<1>3. NumberInv /\ SelectionInv
  BY DEF Init, NumberInv, SelectionInv, NoRow
<1>4. AbsentInv
  BY DEF Init, AbsentInv
<1>5. NeverOverstated /\ HighHasIncident /\ NotifiedOnce
  BY DEF Init, NeverOverstated, HighHasIncident, NotifiedOnce, NoRow, High
<1> QED
  BY <1>1, <1>2, <1>3, <1>4, <1>5 DEF AnyInv

(* Every step keeps the invariant: one case per action, by the lemmas.     *)
LEMMA AnyStep ==
    ASSUME ConstantsAssumption, AnyInv, [Next]_vars
    PROVE  AnyInv'
<1>1. TypeOK'
  BY TypeStep DEF AnyInv
<1> QED
  BY <1>1, AnyReceive, AnySelect, AnyApply, AnyNotified, AnyCommit, AnyAbort,
     AnyCommitStatus, AnyOther
  DEF Next, Step, Quiet

(* On either database, with or without LLM and webhook, this part of the   *)
(* invariant holds in every reachable state.                               *)
THEOREM AnyInvariant == Spec => []AnyInv
<1>1. Init => AnyInv
  BY AnyInit, ConstantsAssumption
<1>2. AnyInv /\ [Next]_vars => AnyInv'
  BY AnyStep, ConstantsAssumption
<1> QED
  BY <1>1, <1>2, PTL DEF Spec

(* No alert has two notifications that succeeded, even where two calls of  *)
(* process() work on it: who waits for the webhook keeps its row, or the   *)
(* database, locked, so that no other call checks in between.              *)
THEOREM NotificationIsUnique == Spec => []NotifiedOnce
<1>1. AnyInv => NotifiedOnce
  BY DEF AnyInv
<1> QED
  BY <1>1, AnyInvariant, PTL

(* Where two calls of process() may overwrite each other, an alert loses   *)
(* events and severity but never claims one it has no evidence of.         *)
THEOREM NothingOverstated == Spec => []NeverOverstated
<1>1. AnyInv => NeverOverstated
  BY DEF AnyInv
<1> QED
  BY <1>1, AnyInvariant, PTL

(* A high alert has an incident, and only one, in every configuration.     *)
THEOREM HighHasItsIncident == Spec => []HighHasIncident
<1>1. AnyInv => HighHasIncident
  BY DEF AnyInv
<1> QED
  BY <1>1, AnyInvariant, PTL

(* Without a suspension between the SELECT and the COMMIT no handler ever  *)
(* finds a row locked, so no statement stops the event loop.               *)
THEOREM LoopIsNeverBlocked == ASSUME Unlocked PROVE Spec => []LoopNeverWaits
<1>1. ASSUME AnyInv, loop \in Tasks \cup {"analyst"} PROVE LockedByOthers(loop) = {}
  <2>1. SUFFICES ASSUME NEW u \in Tasks, u # loop PROVE held[u] = {}
    BY DEF LockedByOthers
  <2>2. CASE Backend = "sqlite"
    BY <1>1, <2>2 DEF AnyInv, SelectionInv
  <2>3. CASE Backend # "sqlite"
    <3>1. ~LLMEnabled /\ ~NotifyWebhook
      BY <2>3 DEF Unlocked
    <3>2. ~InFlight(u)
      BY <1>1, <2>1, <3>1 DEF AnyInv, LoopInv, InFlight
    <3> QED
      BY <1>1, <3>2 DEF AnyInv, SelectionInv
  <2> QED
    BY <2>2, <2>3
<1>2. AnyInv => LoopNeverWaits
  BY <1>1 DEF AnyInv, LoopInv, LoopNeverWaits
<1> QED
  BY <1>2, AnyInvariant, PTL

-----------------------------------------------------------------------------
(* What holds where no task can overwrite another's work *)

(* COMMIT writes what agrees with the rows of its own alert, and nobody    *)
(* else has that alert in hand.                                            *)
LEMMA InvCommit ==
    ASSUME IInv, Exclusive, ConstantsAssumption, AnyInv', NEW t \in Tasks, Commit(t)
    PROVE  SnapshotInv' /\ RowsInv'
<1>0. TypeOK /\ SnapshotInv /\ pc[t] = "commit" /\ Finish(t)
  BY DEF IInv, AnyInv, Commit
<1>1. /\ DOMAIN sel = Tasks /\ DOMAIN snap = Tasks /\ DOMAIN alerts = AlertIds
  BY <1>0 DEF TypeOK
<1>2. /\ \A u \in Tasks : u # t => sel'[u] = sel[u] /\ snap'[u] = snap[u]
      /\ sel'[t] = NoAlert
  BY <1>0, <1>1 DEF Finish
<1>3. \A a \in AlertIds : a # Target(t) => alerts'[a] = alerts[a]
  BY <1>1 DEF Commit
<1>4. ASSUME NEW u \in Tasks, u # t, sel[u] # NoAlert
      PROVE  alerts'[sel[u]] = snap[u]
  <2>1. /\ InFlight(u) /\ sel[u] \in AlertIds /\ Target(u) = sel[u]
        /\ alerts[sel[u]] = snap[u]
    BY <1>0, <1>4, SelectedExists DEF IInv, SnapshotInv
  <2>2. Target(u) # Target(t)
    BY <1>4, <2>1, CommitAlone DEF IInv, InFlight
  <2> QED
    BY <1>3, <2>1, <2>2
<1>5. SnapshotInv'
  BY <1>2, <1>4 DEF SnapshotInv
<1> QED
  BY <1>5, CommitRows DEF AnyInv

(* A status change waits for the row's lock, so no task has the row.       *)
LEMMA InvCommitStatus ==
    ASSUME IInv, Exclusive, ConstantsAssumption, CommitStatus
    PROVE  SnapshotInv' /\ RowsInv'
<1>0. TypeOK /\ LoopInv /\ SelectionInv /\ SnapshotInv /\ RequestInv /\ RowsInv
  BY DEF IInv, AnyInv
<1> DEFINE a0 == request.alert
<1>1. /\ loop = "analyst" /\ Writers = {}
      /\ \A t \in Tasks : a0 \notin held[t]
      /\ alerts' = [alerts EXCEPT ![a0].st = request.st]
      /\ UNCHANGED <<evidence, incidents, notified, task>>
      /\ a0 \in AlertIds
  BY <1>0 DEF CommitStatus, LockedByOthers, RequestInv
<1>2. alerts \in [AlertIds -> Row] /\ "analyst" \notin Tasks
  BY <1>0 DEF TypeOK, ConstantsAssumption
<1>3. /\ \A a \in AlertIds : a # a0 => alerts'[a] = alerts[a]
      /\ \A a \in AlertIds : /\ alerts'[a].count = alerts[a].count
                             /\ alerts'[a].sev = alerts[a].sev
                             /\ alerts'[a].triage = alerts[a].triage
  BY <1>1, <1>2 DEF Row
<1>4. \A t \in Tasks : sel[t] # a0
  <2>1. SUFFICES ASSUME NEW t \in Tasks, sel[t] = a0 PROVE FALSE
    OBVIOUS
  <2>2. sel[t] # NoAlert
    BY <1>1, <2>1 DEF AlertIds, NoAlert
  <2>3. CASE Backend = "postgres"
    BY <1>0, <1>1, <2>1, <2>2, <2>3 DEF SelectionInv
  <2>4. CASE Backend # "postgres"
    <3>1. Backend = "sqlite" /\ ~LLMEnabled
      BY <2>4 DEF Exclusive, ConstantsAssumption
    <3>2. pc[t] \in {"analyze", "notify", "commit"}
      BY <2>2, SelectedExists DEF IInv, InFlight
    <3>3. pc[t] = "notify"
      BY <1>0, <1>1, <1>2, <3>1, <3>2 DEF LoopInv
    <3> QED
      BY <1>1, <3>1, <3>3 DEF Writers
  <2> QED
    BY <2>3, <2>4
<1>5. SnapshotInv'
  <2>1. \A t \in Tasks : sel[t] # NoAlert => sel[t] \in AlertIds
    BY <1>0 DEF TypeOK
  <2> QED
    BY <1>0, <1>1, <1>3, <1>4, <2>1 DEF SnapshotInv, task
<1>6. RowsInv'
  BY <1>0, <1>1, <1>3
  DEF RowsInv, CountMatchesEvidence, SeverityMatchesEvidence, TriageExplainsSeverity,
      HighHasOneIncident
<1> QED
  BY <1>5, <1>6

(* A SELECT takes the row as it is.                                        *)
LEMMA InvSelect ==
    ASSUME IInv, NEW t \in Tasks, Select(t)
    PROVE  SnapshotInv' /\ RowsInv'
<1>1. UNCHANGED db /\ DOMAIN sel = Tasks /\ DOMAIN snap = Tasks /\ sel[t] = NoAlert
  BY DEF Select, IInv, AnyInv, TypeOK, SelectionInv, InFlight
<1>2. ASSUME NEW u \in Tasks, sel'[u] # NoAlert
      PROVE  snap'[u] = alerts[sel'[u]]
  <2>1. CASE UNCHANGED <<sel, snap>>
    BY <1>2, <2>1 DEF IInv, SnapshotInv
  <2>2. ASSUME NEW a \in Newest(Found(t)),
               sel' = [sel EXCEPT ![t] = a], snap' = [snap EXCEPT ![t] = alerts[a]]
        PROVE  snap'[u] = alerts[sel'[u]]
    BY <1>1, <1>2, <2>2 DEF IInv, SnapshotInv
  <2> QED
    BY <2>1, <2>2 DEF Select
<1> QED
  BY <1>1, <1>2, RowsStable DEF IInv, SnapshotInv, db

(* The other steps leave these rows, and what was loaded of them, alone.   *)
LEMMA InvOther ==
    ASSUME IInv, [Next]_vars,
           \A t \in Tasks : ~Select(t) /\ ~Commit(t), ~CommitStatus
    PROVE  SnapshotInv' /\ RowsInv'
<1>1. DOMAIN sel = Tasks /\ DOMAIN snap = Tasks
  BY DEF IInv, AnyInv, TypeOK
<1>2. /\ UNCHANGED <<alerts, evidence, incidents>>
      /\ \A u \in Tasks : \/ sel'[u] = NoAlert
                          \/ sel'[u] = sel[u] /\ snap'[u] = snap[u]
  <2>1. CASE \E t \in Tasks : Receive(t) \/ Apply(t) \/ Notified(t)
    BY <2>1 DEF Receive, Apply, Notified, db
  <2>2. CASE \E t \in Tasks : Abort(t)
    BY <1>1, <2>2 DEF Abort, Finish, db
  <2>3. CASE RequestStatus \/ StatusBusy \/ Tick \/ UNCHANGED vars
    BY <2>3 DEF RequestStatus, StatusBusy, Tick, vars, db, task
  <2>4. CASE Crash
    BY <2>4 DEF Crash, db
  <2> QED
    BY <2>1, <2>2, <2>3, <2>4 DEF Next, Step, Quiet
<1>3. SnapshotInv'
  BY <1>2, SeenStable DEF IInv
<1>4. RowsInv'
  BY <1>2 DEF IInv, RowsInv, CountMatchesEvidence, SeverityMatchesEvidence,
              TriageExplainsSeverity, HighHasOneIncident
<1> QED
  BY <1>3, <1>4

(* The invariant holds of an empty database.                               *)
LEMMA InvInit == ASSUME ConstantsAssumption, Init PROVE IInv
<1>1. AnyInv
  BY AnyInit
<1>2. SnapshotInv
  BY DEF Init, SnapshotInv
<1>3. RowsInv
  BY DEF Init, RowsInv, CountMatchesEvidence, SeverityMatchesEvidence,
         TriageExplainsSeverity, HighHasOneIncident, NoRow, High
<1> QED
  BY <1>1, <1>2, <1>3 DEF IInv

(* Every step keeps the invariant.                                         *)
LEMMA InvStep ==
    ASSUME ConstantsAssumption, Exclusive, IInv, [Next]_vars
    PROVE  IInv'
<1>1. AnyInv'
  BY AnyStep DEF IInv
<1>2. SnapshotInv' /\ RowsInv'
  BY <1>1, InvSelect, InvCommit, InvCommitStatus, InvOther
<1> QED
  BY <1>1, <1>2 DEF IInv

(* With Postgres row locks, or without LLM calls, the inductive invariant  *)
(* holds in every reachable state.                                         *)
THEOREM Invariant == ASSUME Exclusive PROVE Spec => []IInv
<1>1. Init => IInv
  BY InvInit, ConstantsAssumption
<1>2. IInv /\ [Next]_vars => IInv'
  BY InvStep, ConstantsAssumption
<1> QED
  BY <1>1, <1>2, PTL DEF Spec

(* No number of concurrent events, crashes and status changes makes an     *)
(* alert's event_count differ from the evidence kept for it.               *)
THEOREM CountIsExact == ASSUME Exclusive PROVE Spec => []CountMatchesEvidence
<1>1. IInv => CountMatchesEvidence
  BY DEF IInv, RowsInv
<1> QED
  BY <1>1, Invariant, PTL

(* The severity of an alert is always the highest its evidence was given.  *)
THEOREM SeverityIsExact == ASSUME Exclusive PROVE Spec => []SeverityMatchesEvidence
<1>1. IInv => SeverityMatchesEvidence
  BY DEF IInv, RowsInv
<1> QED
  BY <1>1, Invariant, PTL

(* The stored triage is always that of the severity shown.                 *)
THEOREM TriageIsExact == ASSUME Exclusive PROVE Spec => []TriageExplainsSeverity
<1>1. IInv => TriageExplainsSeverity
  BY DEF IInv, RowsInv
<1> QED
  BY <1>1, Invariant, PTL

(* A high or critical alert always has its one incident.                   *)
THEOREM IncidentIsUnique == ASSUME Exclusive PROVE Spec => []HighHasOneIncident
<1>1. IInv => HighHasOneIncident
  BY DEF IInv, RowsInv
<1> QED
  BY <1>1, Invariant, PTL

(* No event is ever added to an alert that is closed at that moment.       *)
THEOREM ClosedIsQuiet == ASSUME Exclusive PROVE Spec => ClosedStaysQuiet
<1> DEFINE Quietly == \A a \in AlertIds :
                        evidence'[a].n # evidence[a].n => alerts[a].st # "closed"
<1>1. ASSUME IInv, [Next]_vars PROVE [Quietly]_vars
  <2>1. ASSUME NEW t \in Tasks, Commit(t) PROVE Quietly
    <3>1. pc[t] = "commit" /\ DOMAIN evidence = AlertIds
      BY <1>1, <2>1 DEF Commit, IInv, AnyInv, TypeOK
    <3>2. \A a \in AlertIds : a # Target(t) => evidence'[a] = evidence[a]
      BY <2>1, <3>1 DEF Commit
    <3>3. alerts[Target(t)].st # "closed"
      BY <1>1, <3>1, CommitValues, ConstantsAssumption
    <3> QED
      BY <3>2, <3>3
  <2>2. CASE UNCHANGED evidence
    BY <2>2
  <2> QED
    BY <1>1, <2>1, <2>2
    DEF Next, Step, Receive, Select, Apply, Notified, Abort, RequestStatus, CommitStatus,
        StatusBusy, Tick, Crash, Quiet, db, vars
<1> QED
  BY <1>1, Invariant, PTL DEF Spec, ClosedStaysQuiet

=============================================================================
