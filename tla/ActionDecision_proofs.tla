------------------------ MODULE ActionDecision_proofs ------------------------
(***************************************************************************)
(* What holds of the approval gate for any number of concurrent decisions, *)
(* rows, crashes and late requests, in every response mode.                *)
(*                                                                         *)
(* The counting argument: each approval is a ticket for one effect.  The   *)
(* ticket is spent (effects), held by a waiting handler whose request has  *)
(* not been carried out (Outstanding), or travels with a request its       *)
(* handler gave up on (late), when it failed or the process crashed.       *)
(***************************************************************************)
EXTENDS ActionDecision, FiniteSetTheorems, TLAPS

Outstanding(a) == {h \in Handlers : on[h] = a /\ request[h] = "sent"}

(* A waiting handler has loaded a row whose kind no longer changes, and    *)
(* has sent one request, which leaves a trace once it is carried out.      *)
WaitingInv ==
    \A h \in Handlers :
        IF pc[h] = "idle"
        THEN on[h] = NoAction /\ request[h] = "none"
        ELSE /\ on[h] \in ActionIds /\ request[h] # "none"
             /\ status[on[h]] # "absent"
             /\ Adapter(kind[on[h]]) = "external"
             /\ request[h] = "performed" => effects[on[h]] > 0

TicketInv ==
    \A a \in ActionIds :
        effects[a] + late[a] + Cardinality(Outstanding(a)) <= asked[a].approve

IInv == TypeOK /\ WaitingInv /\ AuditMatchesStatus /\ ExecutedMeansDone /\ TicketInv

-----------------------------------------------------------------------------
(* A set of handlers is finite and so has a size.                          *)
LEMMA OutstandingFinite ==
    ASSUME NEW a
    PROVE  IsFiniteSet(Outstanding(a)) /\ Cardinality(Outstanding(a)) \in Nat
<1>1. IsFiniteSet(Handlers)
  BY ConstantsAssumption
<1>2. Outstanding(a) \subseteq Handlers
  BY DEF Outstanding
<1>3. IsFiniteSet(Outstanding(a))
  BY <1>1, <1>2, FS_Subset
<1> QED
  BY <1>3, FS_CardinalityType

(* The statuses a decision ends in are exactly those the audit log knows.  *)
LEMMA OutcomeType == ASSUME NEW k PROVE Outcome(k) \in {"executed", "failed"}
  BY DEF Outcome

(* The type invariant holds initially.                                     *)
LEMMA TypeInit == Init => TypeOK
<1> SUFFICES ASSUME Init PROVE TypeOK
  OBVIOUS
<1> QED
  BY DEF Init, TypeOK, NoVotes, NoAction

(* Every step preserves the type invariant and, with it, the consistency   *)
(* of handlers, rows and audit log.                                        *)
LEMMA TypeStep == TypeOK /\ WaitingInv /\ [Next]_vars => TypeOK'
<1> SUFFICES ASSUME TypeOK, WaitingInv, [Next]_vars PROVE TypeOK'
  OBVIOUS
<1> USE DEF TypeOK, NoAction
<1>1. ASSUME NEW a \in ActionIds, Propose(a) PROVE TypeOK'
  <2>1. kind' \in [ActionIds -> {"none", "block_ip", "isolate_host"}]
    BY <1>1, ConstantsAssumption DEF Propose
  <2> QED
    BY <1>1, <2>1 DEF Propose, ProposeRow, handler
<1>2. ASSUME NEW a \in ActionIds, Late(a) PROVE TypeOK'
  <2>1. late' \in [ActionIds -> Nat] /\ effects' \in [ActionIds -> Nat]
    BY <1>2 DEF Late
  <2> QED
    BY <1>2, <2>1 DEF Late, rows, handler
<1>3. ASSUME NEW h \in Handlers, NEW a \in ActionIds, Reject(h, a) PROVE TypeOK'
  BY <1>3 DEF Reject, MayDecide, Record, handler
<1>4. ASSUME NEW h \in Handlers, NEW a \in ActionIds, ApproveAtOnce(h, a) PROVE TypeOK'
  BY <1>4, OutcomeType DEF ApproveAtOnce, MayDecide, Record, handler
<1>5. ASSUME NEW h \in Handlers, NEW a \in ActionIds, Approve(h, a) PROVE TypeOK'
  BY <1>5 DEF Approve, MayDecide, rows
<1>6. ASSUME NEW h \in Handlers, Perform(h) PROVE TypeOK'
  <2>1. on[h] \in ActionIds
    BY <1>6 DEF Perform, Posted, WaitingInv
  <2>2. effects' \in [ActionIds -> Nat]
    BY <1>6, <2>1 DEF Perform
  <2> QED
    BY <1>6, <2>2 DEF Perform, Posted, rows
<1>7. ASSUME NEW h \in Handlers, Succeed(h) PROVE TypeOK'
  <2>1. on[h] \in ActionIds
    BY <1>7 DEF Succeed, IsSuccess, WaitingInv
  <2> QED
    BY <1>7, <2>1 DEF Succeed, Record, Done
<1>8. ASSUME NEW h \in Handlers, Fail(h) PROVE TypeOK'
  <2>1. on[h] \in ActionIds
    BY <1>8 DEF Fail, WaitingInv
  <2>2. late' \in [ActionIds -> Nat]
    BY <1>8, <2>1 DEF Fail, GiveUp
  <2> QED
    BY <1>8, <2>1, <2>2 DEF Fail, GiveUp, Record, Done
<1>9. ASSUME NEW h \in Handlers, CommitFails(h) PROVE TypeOK'
  <2>1. on[h] \in ActionIds
    BY <1>9 DEF CommitFails, WaitingInv
  <2>2. late' \in [ActionIds -> Nat]
    BY <1>9, <2>1 DEF CommitFails, GiveUp
  <2> QED
    BY <1>9, <2>1, <2>2 DEF CommitFails, GiveUp, Done, rows
<1>10. ASSUME Crash PROVE TypeOK'
  <2>1. late' = [a \in ActionIds |-> late[a] + Cardinality(Outstanding(a))]
    BY <1>10 DEF Crash, Outstanding
  <2>2. late' \in [ActionIds -> Nat]
    BY <2>1, OutstandingFinite
  <2>3. \A h \in Handlers : pc[h] = "waiting" => on[h] \in ActionIds
    BY DEF WaitingInv
  <2> QED
    BY <1>10, <2>2, <2>3 DEF Crash, rows
<1>11. ASSUME UNCHANGED vars PROVE TypeOK'
  BY <1>11 DEF vars, rows, handler
<1> QED
  BY <1>1, <1>2, <1>3, <1>4, <1>5, <1>6, <1>7, <1>8, <1>9, <1>10, <1>11 DEF Next, Quiet

(* Handlers and rows stay consistent.                                      *)
LEMMA WaitingStep == TypeOK /\ WaitingInv /\ [Next]_vars => WaitingInv'
<1> SUFFICES ASSUME TypeOK, WaitingInv, [Next]_vars PROVE WaitingInv'
  OBVIOUS
<1> USE DEF TypeOK, WaitingInv, NoAction
<1>1. ASSUME NEW a \in ActionIds, Propose(a) PROVE WaitingInv'
  <2>1. ASSUME NEW h \in Handlers, pc[h] # "idle"
        PROVE  on[h] # a /\ kind'[on[h]] = kind[on[h]] /\ status'[on[h]] = status[on[h]]
    BY <1>1, <2>1 DEF Propose, ProposeRow
  <2>2. pc' = pc /\ on' = on /\ request' = request /\ effects' = effects
    BY <1>1 DEF Propose, ProposeRow, handler
  <2> QED
    BY <2>1, <2>2 DEF Adapter
<1>2. ASSUME NEW a \in ActionIds, Late(a) PROVE WaitingInv'
  <2>1. \A b \in ActionIds : effects'[b] \in Nat /\ effects'[b] >= effects[b]
    BY <1>2 DEF Late
  <2>2. pc' = pc /\ on' = on /\ request' = request /\ status' = status /\ kind' = kind
    BY <1>2 DEF Late, handler, rows
  <2> QED
    BY <2>1, <2>2 DEF Adapter
<1>3. ASSUME NEW h \in Handlers, NEW a \in ActionIds, Reject(h, a) PROVE WaitingInv'
  BY <1>3 DEF Reject, Record, handler, Adapter
<1>4. ASSUME NEW h \in Handlers, NEW a \in ActionIds, ApproveAtOnce(h, a) PROVE WaitingInv'
  <2>1. Outcome(kind[a]) # "absent"
    BY OutcomeType
  <2>2. /\ kind' = kind /\ pc' = pc /\ on' = on /\ request' = request /\ effects' = effects
        /\ status' = [status EXCEPT ![a] = Outcome(kind[a])]
    BY <1>4 DEF ApproveAtOnce, Record, handler
  <2> QED
    BY <2>1, <2>2 DEF Adapter
<1>5. ASSUME NEW h \in Handlers, NEW a \in ActionIds, Approve(h, a) PROVE WaitingInv'
  BY <1>5 DEF Approve, rows, MayDecide, IsPending, Adapter
<1>6. ASSUME NEW h \in Handlers, Perform(h) PROVE WaitingInv'
  <2>1. on[h] \in ActionIds
    BY <1>6 DEF Perform, Posted
  <2>2. \A b \in ActionIds : effects'[b] >= effects[b] /\ effects'[b] \in Nat
    BY <1>6, <2>1 DEF Perform
  <2>3. effects'[on[h]] > 0
    BY <1>6, <2>1 DEF Perform
  <2>4. /\ kind' = kind /\ pc' = pc /\ on' = on /\ status' = status
        /\ request' = [request EXCEPT ![h] = "performed"]
    BY <1>6 DEF Perform, rows
  <2>5. ASSUME NEW g \in Handlers, pc[g] # "idle"
        PROVE  /\ request'[g] # "none" /\ on[g] \in ActionIds
               /\ request'[g] = "performed" => effects'[on[g]] > 0
    <3>1. CASE g = h
      BY <1>6, <2>1, <2>3, <2>4, <3>1
    <3>2. CASE g # h
      <4>1. on[g] \in ActionIds /\ request'[g] = request[g] /\ request[g] # "none"
        BY <2>4, <2>5, <3>2
      <4>2. request[g] = "performed" => effects[on[g]] > 0
        BY <2>5
      <4> QED
        BY <2>2, <4>1, <4>2
    <3> QED
      BY <3>1, <3>2
  <2>6. pc[h] # "idle"
    BY <1>6 DEF Perform, Posted
  <2> QED
    BY <2>4, <2>5, <2>6 DEF Adapter
<1>7. ASSUME NEW h \in Handlers, NEW s \in {"executed", "failed"},
             pc[h] = "waiting", Record(on[h], s), Done(h), UNCHANGED <<kind, effects>>
      PROVE  WaitingInv'
  BY <1>7 DEF Record, Done, Adapter
<1>8. ASSUME NEW h \in Handlers, Succeed(h) PROVE WaitingInv'
  BY <1>7, <1>8 DEF Succeed, IsSuccess
<1>9. ASSUME NEW h \in Handlers, Fail(h) PROVE WaitingInv'
  BY <1>7, <1>9 DEF Fail, GiveUp
<1>10. ASSUME NEW h \in Handlers, CommitFails(h) PROVE WaitingInv'
  BY <1>10 DEF CommitFails, GiveUp, Done, rows, Adapter
<1>11. ASSUME Crash PROVE WaitingInv'
  BY <1>11 DEF Crash, rows
<1>12. ASSUME UNCHANGED vars PROVE WaitingInv'
  BY <1>12 DEF vars, rows, handler, Adapter
<1> QED
  BY <1>1, <1>2, <1>3, <1>4, <1>5, <1>6, <1>8, <1>9, <1>10, <1>11, <1>12 DEF Next, Quiet

(* Status and audit record change together.                                *)
LEMMA AuditStep == TypeOK /\ WaitingInv /\ AuditMatchesStatus /\ [Next]_vars => AuditMatchesStatus'
<1> SUFFICES ASSUME TypeOK, WaitingInv, AuditMatchesStatus, [Next]_vars
             PROVE  AuditMatchesStatus'
  OBVIOUS
<1> USE DEF TypeOK, AuditMatchesStatus
<1>1. ASSUME NEW a \in ActionIds, NEW s \in {"rejected", "executed", "failed"}, Record(a, s)
      PROVE  AuditMatchesStatus'
  <2>1. status'[a] = s /\ s \in audit'[a]
    BY <1>1 DEF Record
  <2>2. \A b \in ActionIds : b # a => status'[b] = status[b] /\ audit'[b] = audit[b]
    BY <1>1 DEF Record
  <2> QED
    BY <2>1, <2>2
<1>2. ASSUME UNCHANGED <<status, audit>> PROVE AuditMatchesStatus'
  BY <1>2
<1>3. ASSUME NEW a \in ActionIds, Propose(a) PROVE AuditMatchesStatus'
  BY <1>3 DEF Propose, ProposeRow
<1>4. ASSUME NEW h \in Handlers, NEW a \in ActionIds, Reject(h, a) \/ ApproveAtOnce(h, a)
      PROVE  AuditMatchesStatus'
  <2>1. Record(a, "rejected") \/ Record(a, Outcome(kind[a]))
    BY <1>4 DEF Reject, ApproveAtOnce
  <2>2. Outcome(kind[a]) \in {"rejected", "executed", "failed"}
    BY OutcomeType
  <2> QED
    BY <1>1, <2>1, <2>2
<1>5. ASSUME NEW h \in Handlers, Succeed(h) \/ Fail(h) PROVE AuditMatchesStatus'
  <2>1. on[h] \in ActionIds
    BY <1>5 DEF Succeed, Fail, IsSuccess, WaitingInv
  <2> QED
    BY <1>1, <1>5, <2>1 DEF Succeed, Fail
<1> QED
  BY <1>2, <1>3, <1>4, <1>5
  DEF Next, Quiet, Late, Approve, Perform, CommitFails, Crash, vars, rows

(* A row becomes executed, in a live mode, only by a success report.       *)
LEMMA DoneStep == TypeOK /\ WaitingInv /\ ExecutedMeansDone /\ [Next]_vars => ExecutedMeansDone'
<1> SUFFICES ASSUME TypeOK, WaitingInv, ExecutedMeansDone, [Next]_vars
             PROVE  ExecutedMeansDone'
  OBVIOUS
<1> USE DEF TypeOK, ExecutedMeansDone
<1>1. ASSUME NEW a \in ActionIds, Propose(a) PROVE ExecutedMeansDone'
  BY <1>1 DEF Propose, ProposeRow, Adapter
<1>2. ASSUME NEW a \in ActionIds, Late(a) PROVE ExecutedMeansDone'
  <2>1. \A b \in ActionIds : effects'[b] \in Nat /\ effects'[b] >= effects[b]
    BY <1>2 DEF Late
  <2> QED
    BY <1>2, <2>1 DEF Late, rows, Adapter
<1>3. ASSUME NEW h \in Handlers, NEW a \in ActionIds, Reject(h, a) PROVE ExecutedMeansDone'
  BY <1>3 DEF Reject, Record, Adapter
<1>4. ASSUME NEW h \in Handlers, NEW a \in ActionIds, ApproveAtOnce(h, a)
      PROVE  ExecutedMeansDone'
  BY <1>4 DEF ApproveAtOnce, Record, Adapter
<1>5. ASSUME NEW h \in Handlers, Perform(h) PROVE ExecutedMeansDone'
  <2>1. on[h] \in ActionIds
    BY <1>5 DEF Perform, Posted, WaitingInv
  <2>2. \A b \in ActionIds : effects'[b] >= effects[b] /\ effects'[b] \in Nat
    BY <1>5, <2>1 DEF Perform
  <2> QED
    BY <1>5, <2>2 DEF Perform, rows, Adapter
<1>6. ASSUME NEW h \in Handlers, Succeed(h) PROVE ExecutedMeansDone'
  BY <1>6 DEF Succeed, IsSuccess, WaitingInv, Record, Adapter
<1>7. ASSUME NEW h \in Handlers, Fail(h) PROVE ExecutedMeansDone'
  BY <1>7 DEF Fail, Record, Adapter
<1>8. ASSUME UNCHANGED <<rows, effects>> PROVE ExecutedMeansDone'
  BY <1>8 DEF rows, Adapter
<1> QED
  BY <1>1, <1>2, <1>3, <1>4, <1>5, <1>6, <1>7, <1>8
  DEF Next, Quiet, Approve, CommitFails, Crash, vars

(* Tickets are made by approvals only and never multiply.                  *)
LEMMA TicketStep == TypeOK /\ WaitingInv /\ TicketInv /\ [Next]_vars => TicketInv'
<1> SUFFICES ASSUME TypeOK, WaitingInv, TicketInv, [Next]_vars, NEW b \in ActionIds
             PROVE  effects'[b] + late'[b] + Cardinality(Outstanding(b)') <= asked'[b].approve
  BY DEF TicketInv
<1> DEFINE O == Outstanding(b)
           Tickets == effects[b] + late[b] + Cardinality(O)
<1>a. /\ effects[b] \in Nat /\ late[b] \in Nat /\ Cardinality(O) \in Nat
      /\ asked[b].approve \in Nat /\ IsFiniteSet(O)
      /\ effects[b] + late[b] + Cardinality(O) <= asked[b].approve
  BY OutstandingFinite DEF TypeOK, TicketInv
<1>b. O' \subseteq O => Cardinality(O') \in Nat /\ Cardinality(O') <= Cardinality(O)
  BY <1>a, FS_Subset, FS_CardinalityType
<1>c. ASSUME NEW h \in O, O' = O \ {h}
      PROVE  Cardinality(O') = Cardinality(O) - 1 /\ Cardinality(O') \in Nat
  BY <1>a, <1>c, FS_RemoveElement, FS_Subset, FS_CardinalityType
<1> HIDE DEF O
<1>1. ASSUME NEW a \in ActionIds, Propose(a) PROVE Tickets' <= asked'[b].approve
  BY <1>1, <1>a DEF Propose, ProposeRow, handler, O, Outstanding
<1>2. ASSUME NEW a \in ActionIds, Late(a) PROVE Tickets' <= asked'[b].approve
  <2>1. O' = O /\ asked' = asked
    BY <1>2 DEF Late, handler, O, Outstanding
  <2>2. effects'[b] + late'[b] <= effects[b] + late[b] /\ effects'[b] + late'[b] \in Nat
    BY <1>2 DEF Late, TypeOK
  <2>3. effects'[b] \in Nat /\ late'[b] \in Nat
    BY <1>2 DEF Late, TypeOK
  <2> QED
    BY <2>1, <2>2, <2>3, <1>a
<1>3. ASSUME NEW h \in Handlers, NEW a \in ActionIds, Reject(h, a)
      PROVE  Tickets' <= asked'[b].approve
  BY <1>3, <1>a DEF Reject, handler, O, Outstanding, TypeOK
<1>4. ASSUME NEW h \in Handlers, NEW a \in ActionIds, ApproveAtOnce(h, a)
      PROVE  Tickets' <= asked'[b].approve
  <2>1. O' = O /\ late' = late /\ effects' = effects
    BY <1>4 DEF ApproveAtOnce, handler, O, Outstanding
  <2>2. asked'[b].approve >= asked[b].approve /\ asked'[b].approve \in Nat
    BY <1>4 DEF ApproveAtOnce, TypeOK
  <2> QED
    BY <2>1, <2>2, <1>a
<1>5. ASSUME NEW h \in Handlers, NEW a \in ActionIds, Approve(h, a)
      PROVE  Tickets' <= asked'[b].approve
  <2>1. late' = late /\ effects' = effects
    BY <1>5 DEF Approve
  <2>2. request[h] = "none" /\ h \notin O
    BY <1>5 DEF Approve, MayDecide, WaitingInv, O, Outstanding
  <2>3. CASE a = b
    <3>1. O' = O \cup {h}
      BY <1>5, <2>2, <2>3 DEF Approve, O, Outstanding, TypeOK
    <3>2. Cardinality(O') = Cardinality(O) + 1
      BY <3>1, <2>2, <1>a, FS_AddElement
    <3>3. asked'[b].approve = asked[b].approve + 1
      BY <1>5, <2>3 DEF Approve, TypeOK
    <3> QED
      BY <2>1, <3>2, <3>3, <1>a
  <2>4. CASE a # b
    <3>1. O' = O
      BY <1>5, <2>2, <2>4 DEF Approve, O, Outstanding, TypeOK
    <3>2. asked'[b].approve = asked[b].approve
      BY <1>5, <2>4 DEF Approve, TypeOK
    <3> QED
      BY <2>1, <3>1, <3>2, <1>a
  <2> QED
    BY <2>3, <2>4
<1>6. ASSUME NEW h \in Handlers, Perform(h) PROVE Tickets' <= asked'[b].approve
  <2>1. late' = late /\ asked' = asked
    BY <1>6 DEF Perform
  <2>2. CASE on[h] = b
    <3>1. h \in O /\ O' = O \ {h}
      BY <1>6, <2>2 DEF Perform, Posted, O, Outstanding, TypeOK
    <3>2. effects'[b] = effects[b] + 1
      BY <1>6, <2>2 DEF Perform, TypeOK
    <3> QED
      BY <2>1, <3>1, <3>2, <1>a, <1>c
  <2>3. CASE on[h] # b
    <3>1. O' = O
      BY <1>6, <2>3 DEF Perform, Posted, O, Outstanding, TypeOK
    <3>2. effects'[b] = effects[b]
      BY <1>6, <2>3 DEF Perform, TypeOK
    <3> QED
      BY <2>1, <3>1, <3>2, <1>a
  <2> QED
    BY <2>2, <2>3
<1>7. ASSUME NEW h \in Handlers, Succeed(h) PROVE Tickets' <= asked'[b].approve
  <2>1. late' = late /\ asked' = asked /\ effects' = effects
    BY <1>7 DEF Succeed
  <2>2. O' \subseteq O
    BY <1>7 DEF Succeed, Done, O, Outstanding, TypeOK
  <2> QED
    BY <2>1, <2>2, <1>a, <1>b
<1>8. ASSUME NEW h \in Handlers, GiveUp(h), pc[h] = "waiting", UNCHANGED <<effects, asked>>
      PROVE  Tickets' <= asked'[b].approve
  <2>1. effects' = effects /\ asked' = asked
    BY <1>8
  <2>2. CASE h \in O
    <3>1. O' = O \ {h}
      BY <1>8, <2>2 DEF GiveUp, Done, O, Outstanding, TypeOK
    <3>2. late'[b] = late[b] + 1
      BY <1>8, <2>2 DEF GiveUp, O, Outstanding, TypeOK
    <3> QED
      BY <2>1, <2>2, <3>1, <3>2, <1>a, <1>c
  <2>3. CASE h \notin O
    <3>1. O' \subseteq O
      BY <1>8 DEF GiveUp, Done, O, Outstanding, TypeOK
    <3>2. late'[b] = late[b]
      BY <1>8, <2>3 DEF GiveUp, O, Outstanding, TypeOK
    <3> QED
      BY <2>1, <3>1, <3>2, <1>a, <1>b
  <2> QED
    BY <2>2, <2>3
<1>9. ASSUME NEW h \in Handlers, Fail(h) \/ CommitFails(h) PROVE Tickets' <= asked'[b].approve
  BY <1>8, <1>9 DEF Fail, CommitFails
<1>10. ASSUME Crash PROVE Tickets' <= asked'[b].approve
  <2>1. effects' = effects /\ asked' = asked /\ late'[b] = late[b] + Cardinality(O)
    BY <1>10 DEF Crash, O, Outstanding
  <2>2. O' = {}
    BY <1>10 DEF Crash, O, Outstanding
  <2>3. Cardinality(O') = 0
    BY <2>2, FS_EmptySet
  <2> QED
    BY <2>1, <2>3, <1>a
<1>11. ASSUME UNCHANGED vars PROVE Tickets' <= asked'[b].approve
  BY <1>11, <1>a DEF vars, handler, O, Outstanding
<1> QED
  BY <1>1, <1>2, <1>3, <1>4, <1>5, <1>6, <1>7, <1>8, <1>9, <1>10, <1>11 DEF Next, Quiet, O

(* Nothing is proposed, decided or sent at the start.                      *)
LEMMA InvInit == Init => IInv
<1> SUFFICES ASSUME Init PROVE IInv
  OBVIOUS
<1>1. WaitingInv /\ AuditMatchesStatus /\ ExecutedMeansDone
  BY DEF Init, WaitingInv, AuditMatchesStatus, ExecutedMeansDone
<1>2. TicketInv
  <2>1. \A a \in ActionIds : Outstanding(a) = {}
    BY DEF Init, Outstanding
  <2>2. \A a \in ActionIds :
          effects[a] = 0 /\ late[a] = 0 /\ asked[a].approve = 0 /\ Cardinality(Outstanding(a)) = 0
    BY <2>1, FS_EmptySet DEF Init, NoVotes
  <2> QED
    BY <2>2 DEF TicketInv
<1> QED
  BY <1>1, <1>2, TypeInit DEF IInv

(* The inductive invariant holds in every reachable state.                 *)
THEOREM Invariant == Spec => []IInv
<1>1. IInv /\ [Next]_vars => IInv'
  BY TypeStep, WaitingStep, AuditStep, DoneStep, TicketStep DEF IInv
<1> QED
  BY InvInit, <1>1, PTL DEF Spec

(* The tables, handlers and counters keep their types.                     *)
THEOREM TypeCorrect == Spec => []TypeOK
  BY Invariant, PTL DEF IInv

(* Each approval is carried out at most once, for any number of concurrent *)
(* decisions, timeouts, late deliveries, failed commits and crashes.       *)
THEOREM OneEffectPerApproval == Spec => []EffectPerApproval
<1>1. IInv => EffectPerApproval
  BY OutstandingFinite DEF IInv, TypeOK, TicketInv, EffectPerApproval
<1> QED
  BY Invariant, <1>1, PTL

(* The approval gate: nothing is carried out that no analyst approved.     *)
THEOREM ApprovalGate == Spec => []EffectNeedsApproval
<1>1. IInv => EffectNeedsApproval
  BY OutstandingFinite DEF IInv, TypeOK, TicketInv, EffectNeedsApproval
<1> QED
  BY Invariant, <1>1, PTL

(* Executed, in a live mode, means carried out.                            *)
THEOREM ExecutedIsTrue == Spec => []ExecutedMeansDone
  BY Invariant, PTL DEF IInv

(* A row is decided exactly when the audit log says so.                    *)
THEOREM AuditIsComplete == Spec => []AuditMatchesStatus
  BY Invariant, PTL DEF IInv

-----------------------------------------------------------------------------
(* Rows without a contest *)

(* A row no two decisions contest, and no lost one, is decided once: by    *)
(* the analyst's one vote, which a single handler holds while it waits.    *)
ClearInv ==
    \A a \in ActionIds \ contested :
        /\ asked[a].approve + asked[a].reject <= 1
        /\ status[a] = "rejected" => asked[a].approve = 0
        /\ status[a] = "absent" => asked[a] = NoVotes
        /\ status[a] = "pending" => asked[a] = NoVotes \/ \E h \in Handlers : on[h] = a
        /\ \A h \in Handlers : on[h] = a => status[a] = "pending" /\ asked[a].reject = 0
        /\ \A h, g \in Handlers : on[h] = a /\ on[g] = a => h = g

(* A vote is the first one for the row, or the row becomes contested.      *)
LEMMA FirstVote ==
    ASSUME TypeOK, ClearInv, NEW h \in Handlers, NEW a \in ActionIds, MayDecide(h, a)
    PROVE  /\ status[a] = "pending" /\ pc[h] = "idle"
           /\ contested \subseteq contested' /\ contested' \subseteq contested \cup {a}
           /\ a \notin contested' => /\ asked[a] = NoVotes
                                     /\ \A g \in Handlers : on[g] # a
  BY DEF MayDecide, IsPending, ClearInv

(* Recording a decision on the spot keeps the uncontested rows clear.      *)
LEMMA ClearRecord ==
    ASSUME TypeOK, ClearInv, NEW h \in Handlers, NEW a \in ActionIds, MayDecide(h, a),
           NEW s \in {"rejected", "executed", "failed"}, Record(a, s), UNCHANGED handler,
           \/ asked' = [asked EXCEPT ![a].approve = @ + 1] /\ s # "rejected"
           \/ asked' = [asked EXCEPT ![a].reject = @ + 1]
    PROVE  ClearInv'
<1>1. SUFFICES ASSUME NEW b \in ActionIds, b \notin contested'
               PROVE  /\ asked'[b].approve + asked'[b].reject <= 1
                      /\ status'[b] = "rejected" => asked'[b].approve = 0
                      /\ status'[b] = "absent" => asked'[b] = NoVotes
                      /\ status'[b] = "pending" =>
                           asked'[b] = NoVotes \/ \E g \in Handlers : on'[g] = b
                      /\ \A g \in Handlers : on'[g] = b =>
                           status'[b] = "pending" /\ asked'[b].reject = 0
                      /\ \A g, k \in Handlers : on'[g] = b /\ on'[k] = b => g = k
  BY DEF ClearInv
<1>2. b \notin contested /\ on' = on
  BY <1>1, FirstVote DEF handler
<1>3. CASE b # a
  <2>1. asked'[b] = asked[b] /\ status'[b] = status[b]
    BY <1>3 DEF TypeOK, Record
  <2> QED
    BY <1>1, <1>2, <2>1 DEF ClearInv
<1>4. CASE b = a
  <2>1. asked[a] = NoVotes /\ (\A g \in Handlers : on[g] # a) /\ status'[a] = s
    BY <1>1, <1>4, FirstVote DEF Record, TypeOK
  <2>2. /\ asked'[a].approve + asked'[a].reject <= 1
        /\ s = "rejected" => asked'[a].approve = 0
    BY <2>1 DEF NoVotes, TypeOK
  <2> QED
    BY <1>2, <1>4, <2>1, <2>2
<1> QED
  BY <1>3, <1>4

(* A handler that ends leaves its row decided, or contested.               *)
LEMMA ClearEnd ==
    ASSUME TypeOK, WaitingInv, ClearInv, NEW h \in Handlers, pc[h] = "waiting",
           Done(h), UNCHANGED <<kind, asked>>,
           \/ contested' = contested /\ \E s \in {"executed", "failed"} : Record(on[h], s)
           \/ contested' = contested \cup {on[h]} /\ UNCHANGED rows
    PROVE  ClearInv'
<1>1. on[h] \in ActionIds /\ \A g \in Handlers : on'[g] = IF g = h THEN NoAction ELSE on[g]
  BY DEF WaitingInv, Done, TypeOK
<1>2. SUFFICES ASSUME NEW b \in ActionIds, b \notin contested'
               PROVE  /\ asked'[b].approve + asked'[b].reject <= 1
                      /\ status'[b] = "rejected" => asked'[b].approve = 0
                      /\ status'[b] = "absent" => asked'[b] = NoVotes
                      /\ status'[b] = "pending" =>
                           asked'[b] = NoVotes \/ \E g \in Handlers : on'[g] = b
                      /\ \A g \in Handlers : on'[g] = b =>
                           status'[b] = "pending" /\ asked'[b].reject = 0
                      /\ \A g, k \in Handlers : on'[g] = b /\ on'[k] = b => g = k
  BY DEF ClearInv
<1>3. b \notin contested /\ asked'[b] = asked[b] /\ NoAction # b
  BY <1>2 DEF ActionIds, NoAction
<1>4. CASE b # on[h]
  <2>1. status'[b] = status[b]
    BY <1>4 DEF Record, rows, TypeOK
  <2> QED
    BY <1>1, <1>2, <1>3, <1>4, <2>1 DEF ClearInv
<1>5. CASE b = on[h]
  <2>1. status'[b] \in {"executed", "failed"}
    BY <1>1, <1>2, <1>5 DEF Record, TypeOK
  <2>2. \A g \in Handlers : on'[g] # b
    BY <1>1, <1>3, <1>5 DEF ClearInv
  <2> QED
    BY <1>2, <1>3, <2>1, <2>2 DEF ClearInv
<1> QED
  BY <1>4, <1>5

(* Every step keeps the uncontested rows clear.                            *)
LEMMA ClearStep == ASSUME IInv, ClearInv, [Next]_vars PROVE ClearInv'
<1> USE DEF IInv
<1>1. ASSUME NEW a \in ActionIds, Propose(a) PROVE ClearInv'
  <2>1. /\ status[a] = "absent" /\ status' = [status EXCEPT ![a] = "pending"]
        /\ UNCHANGED <<on, asked, contested>>
    BY <1>1 DEF Propose, ProposeRow, handler
  <2>2. \A h \in Handlers : on[h] # a \/ a \in contested
    BY <2>1 DEF ClearInv
  <2> QED
    BY <2>1, <2>2 DEF ClearInv, TypeOK
<1>2. ASSUME NEW h \in Handlers, NEW a \in ActionIds, Reject(h, a) \/ ApproveAtOnce(h, a)
      PROVE  ClearInv'
  BY <1>2, ClearRecord, OutcomeType DEF Reject, ApproveAtOnce
<1>3. ASSUME NEW h \in Handlers, NEW a \in ActionIds, Approve(h, a) PROVE ClearInv'
  <2>1. /\ UNCHANGED status /\ MayDecide(h, a)
        /\ asked' = [asked EXCEPT ![a].approve = @ + 1]
        /\ on' = [on EXCEPT ![h] = a]
    BY <1>3 DEF Approve, rows
  <2>2. SUFFICES ASSUME NEW b \in ActionIds, b \notin contested'
                 PROVE  /\ asked'[b].approve + asked'[b].reject <= 1
                        /\ status'[b] = "rejected" => asked'[b].approve = 0
                        /\ status'[b] = "absent" => asked'[b] = NoVotes
                        /\ status'[b] = "pending" =>
                             asked'[b] = NoVotes \/ \E g \in Handlers : on'[g] = b
                        /\ \A g \in Handlers : on'[g] = b =>
                             status'[b] = "pending" /\ asked'[b].reject = 0
                        /\ \A g, k \in Handlers : on'[g] = b /\ on'[k] = b => g = k
    BY DEF ClearInv
  <2>3. b \notin contested /\ on[h] = NoAction /\ NoAction # b
    BY <2>1, <2>2, FirstVote DEF WaitingInv, ActionIds, NoAction
  <2>4. CASE b # a
    <3>1. asked'[b] = asked[b] /\ status'[b] = status[b]
      BY <2>1, <2>4 DEF TypeOK
    <3>2. \A g \in Handlers : on'[g] = b <=> on[g] = b
      BY <2>1, <2>3, <2>4 DEF TypeOK
    <3>3. /\ asked[b].approve + asked[b].reject <= 1
          /\ status[b] = "rejected" => asked[b].approve = 0
          /\ status[b] = "absent" => asked[b] = NoVotes
          /\ status[b] = "pending" => asked[b] = NoVotes \/ \E g \in Handlers : on[g] = b
          /\ \A g \in Handlers : on[g] = b => status[b] = "pending" /\ asked[b].reject = 0
          /\ \A g, k \in Handlers : on[g] = b /\ on[k] = b => g = k
      BY <2>3 DEF ClearInv
    <3>4. /\ status'[b] = "pending" =>
               asked'[b] = NoVotes \/ \E g \in Handlers : on'[g] = b
          /\ \A g \in Handlers : on'[g] = b =>
               status'[b] = "pending" /\ asked'[b].reject = 0
          /\ \A g, k \in Handlers : on'[g] = b /\ on'[k] = b => g = k
      BY <3>1, <3>2, <3>3
    <3> QED
      BY <3>1, <3>3, <3>4
  <2>5. CASE b = a
    <3>1. asked[a] = NoVotes /\ (\A g \in Handlers : on[g] # a) /\ status[a] = "pending"
      BY <2>1, <2>2, <2>5, FirstVote
    <3>2. asked'[a].approve = 1 /\ asked'[a].reject = 0
      BY <2>1, <3>1 DEF NoVotes, TypeOK
    <3>3. \A g \in Handlers : on'[g] = a <=> g = h
      BY <2>1, <3>1 DEF TypeOK
    <3> QED
      BY <2>1, <2>5, <3>1, <3>2, <3>3
  <2> QED
    BY <2>4, <2>5
<1>4. ASSUME NEW h \in Handlers, Succeed(h) \/ Fail(h) \/ CommitFails(h) PROVE ClearInv'
  BY <1>4, ClearEnd DEF Succeed, Fail, CommitFails, IsSuccess, GiveUp, rows
<1>5. ASSUME Crash PROVE ClearInv'
  <2>1. /\ UNCHANGED <<status, asked>> /\ \A g \in Handlers : on'[g] = NoAction
        /\ contested' = contested \cup {on[h] : h \in {g \in Handlers : pc[g] = "waiting"}}
    BY <1>5 DEF Crash, rows
  <2>2. \A b \in ActionIds : b \notin contested' => \A g \in Handlers : on[g] # b
    BY <2>1 DEF TypeOK, WaitingInv, ActionIds, NoAction
  <2>3. \A b \in ActionIds : b # NoAction
    BY DEF ActionIds, NoAction
  <2> QED
    BY <2>1, <2>2, <2>3 DEF ClearInv
<1>6. CASE UNCHANGED <<status, on, asked, contested>>
  BY <1>6 DEF ClearInv
<1> QED
  BY <1>1, <1>2, <1>3, <1>4, <1>5, <1>6 DEF Next, Quiet, Late, Perform, vars, rows, handler

(* It holds of every reachable state.                                      *)
LEMMA Clear == Spec => [](IInv /\ ClearInv)
<1>1. Init => ClearInv
  BY DEF Init, ClearInv, NoVotes, NoAction, ActionIds
<1>2. IInv /\ ClearInv /\ [Next]_vars => ClearInv'
  BY ClearStep
<1> QED
  BY <1>1, <1>2, Invariant, PTL DEF Spec

(* Without overlapping or lost decisions nothing is carried out twice, and *)
(* nothing that was rejected.                                              *)
THEOREM OnceIfUncontested == Spec => []ExecutedOnce
<1>1. IInv /\ ClearInv => ExecutedOnce
  <2>1. SUFFICES ASSUME IInv, ClearInv, NEW a \in ActionIds \ contested
                 PROVE  effects[a] <= IF status[a] = "rejected" THEN 0 ELSE 1
    BY DEF ExecutedOnce
  <2>2. effects[a] <= asked[a].approve
    BY <2>1, OutstandingFinite DEF IInv, TypeOK, TicketInv
  <2>3. effects[a] \in Nat /\ asked[a] \in [approve: Nat, reject: Nat]
    BY <2>1 DEF IInv, TypeOK
  <2> QED
    BY <2>1, <2>2, <2>3 DEF ClearInv
<1> QED
  BY <1>1, Clear, PTL

(* What was carried out is audited, or its handler is still at work.       *)
THEOREM AuditedIfUncontested == Spec => []EffectIsAudited
<1>1. IInv /\ ClearInv => EffectIsAudited
  <2>1. SUFFICES ASSUME IInv, ClearInv, NEW a \in ActionIds \ contested, effects[a] > 0,
                        \A h \in Handlers : on[h] # a
                 PROVE  audit[a] # {}
    BY DEF EffectIsAudited
  <2>2. effects[a] <= asked[a].approve /\ effects[a] \in Nat
    BY <2>1, OutstandingFinite DEF IInv, TypeOK, TicketInv
  <2>3. asked[a] # NoVotes
    BY <2>1, <2>2 DEF NoVotes
  <2>4. status[a] \notin {"absent", "pending"}
    BY <2>1, <2>3 DEF ClearInv
  <2> QED
    BY <2>1, <2>4 DEF IInv, AuditMatchesStatus
<1> QED
  BY <1>1, Clear, PTL

(* A decision is final unless another one was under way.                   *)
THEOREM FinalIfUncontested == Spec => DecisionIsFinal
<1> DEFINE Final == \A a \in ActionIds \ contested' :
                      status[a] \notin {"absent", "pending"} => status'[a] = status[a]
<1>1. ASSUME IInv, ClearInv, [Next]_vars PROVE [Final]_vars
  <2> USE <1>1 DEF IInv, TypeOK
  <2>1. ASSUME NEW a \in ActionIds, Propose(a) PROVE Final
    BY <2>1 DEF Propose, ProposeRow
  <2>2. ASSUME NEW h \in Handlers, NEW a \in ActionIds, Reject(h, a) \/ ApproveAtOnce(h, a)
        PROVE  Final
    BY <2>2 DEF Reject, ApproveAtOnce, Record, MayDecide, IsPending
  <2>3. ASSUME NEW h \in Handlers, Succeed(h) \/ Fail(h) PROVE Final
    <3>1. /\ on[h] \in ActionIds /\ contested' = contested
          /\ \A a \in ActionIds : a # on[h] => status'[a] = status[a]
      BY <2>3 DEF Succeed, Fail, Record, IsSuccess, WaitingInv
    <3>2. on[h] \notin contested => status[on[h]] = "pending"
      BY <3>1 DEF ClearInv
    <3> QED
      BY <3>1, <3>2
  <2>4. ASSUME status' = status PROVE Final
    BY <2>4
  <2> QED
    BY <1>1, <2>1, <2>2, <2>3, <2>4
    DEF Next, Quiet, Late, Approve, Perform, CommitFails, Crash, vars, rows
<1> QED
  BY <1>1, Clear, PTL DEF Spec, DecisionIsFinal

(* An alert has two live actions of one kind only after a contest.         *)
THEOREM OneLiveIfUncontested == Spec => []OneLivePerKind
<1>1. Init => OneLivePerKind
  BY DEF Init, OneLivePerKind, Live
<1>2. ASSUME IInv, ClearInv, OneLivePerKind, [Next]_vars PROVE OneLivePerKind'
  <2> USE <1>2 DEF IInv, TypeOK, OneLivePerKind, Live
  <2>1. ASSUME NEW a \in ActionIds, Propose(a) PROVE OneLivePerKind'
    BY <2>1 DEF Propose, ProposeRow, NoLiveOf
  <2>2. ASSUME NEW a \in ActionIds, NEW s \in {"rejected", "executed", "failed"},
               status' = [status EXCEPT ![a] = s], kind' = kind, contested \subseteq contested',
               a \notin contested' => status[a] = "pending"
        PROVE  OneLivePerKind'
    BY <2>2
  <2>3. ASSUME NEW h \in Handlers, NEW a \in ActionIds, Reject(h, a) \/ ApproveAtOnce(h, a)
        PROVE  OneLivePerKind'
    <3>1. PICK s \in {"rejected", "executed", "failed"} : status' = [status EXCEPT ![a] = s]
      BY <2>3, OutcomeType DEF Reject, ApproveAtOnce, Record
    <3>2. /\ kind' = kind /\ contested \subseteq contested'
          /\ a \notin contested' => status[a] = "pending"
      BY <2>3, FirstVote DEF Reject, ApproveAtOnce
    <3> QED
      BY <2>2, <3>1, <3>2
  <2>4. ASSUME NEW h \in Handlers, Succeed(h) \/ Fail(h) PROVE OneLivePerKind'
    <3>1. on[h] \in ActionIds /\ contested' = contested /\ kind' = kind
      BY <2>4 DEF Succeed, Fail, IsSuccess, WaitingInv
    <3>2. on[h] \notin contested => status[on[h]] = "pending"
      BY <3>1 DEF ClearInv
    <3> QED
      BY <2>2, <2>4, <3>1, <3>2 DEF Succeed, Fail, Record
  <2>5. ASSUME status' = status, kind' = kind, contested \subseteq contested'
        PROVE  OneLivePerKind'
    BY <2>5
  <2> QED
    BY <1>2, <2>1, <2>3, <2>4, <2>5
    DEF Next, Quiet, Late, Approve, MayDecide, Perform, CommitFails, Crash, vars, rows
<1> QED
  BY <1>1, <1>2, Clear, PTL DEF Spec

(* Without an external adapter (dry_run, or one that is not configured) a  *)
(* decision is one step of the event loop, and no row is ever contested.   *)
AtOnce == \A k \in {"none", "block_ip", "isolate_host"} : Adapter(k) # "external"

(* Then every decision is final and every record exact.                    *)
THEOREM NoContestAtOnce == ASSUME AtOnce PROVE Spec => [](contested = {})
<1>1. ASSUME IInv, contested = {}, [Next]_vars PROVE (contested = {})'
  <2>1. \A h \in Handlers : pc[h] = "idle" /\ on[h] = NoAction
    BY <1>1, AtOnce DEF AtOnce, IInv, TypeOK, WaitingInv
  <2>2. \A h \in Handlers, a \in ActionIds : on[h] # a
    BY <2>1 DEF ActionIds, NoAction
  <2> QED
    BY <1>1, <2>1, <2>2
    DEF Next, Quiet, Propose, Late, Reject, ApproveAtOnce, Approve, MayDecide, Perform,
        Succeed, Fail, CommitFails, Crash, IsSuccess, vars
<1>2. Init => contested = {}
  BY DEF Init
<1> QED
  BY <1>1, <1>2, Invariant, PTL DEF Spec

(* Nor is one contested where analysts decide one row at a time and no     *)
(* decision is lost between its answer and its COMMIT.                     *)
OneAtATime == MaxCrashes = 0 /\ \A g, h \in Handlers : g = h

(* Two decisions in progress, or a lost one, are what a contest takes.     *)
THEOREM NoContestSingly == ASSUME OneAtATime PROVE Spec => [](contested = {})
<1>1. ASSUME IInv, contested = {}, [Next]_vars PROVE (contested = {})'
  <2>1. \A h \in Handlers, a \in ActionIds : MayDecide(h, a) => contested' = {}
    <3>1. SUFFICES ASSUME NEW h \in Handlers, NEW a \in ActionIds, MayDecide(h, a)
                   PROVE  \A g \in Handlers : on[g] # a
      BY <1>1 DEF MayDecide
    <3>2. \A g \in Handlers : on[g] = NoAction
      BY <1>1, <3>1, OneAtATime DEF OneAtATime, MayDecide, IInv, WaitingInv
    <3> QED
      BY <3>2 DEF ActionIds, NoAction
  <2>2. ~(crashes < MaxCrashes)
    BY <1>1, OneAtATime DEF OneAtATime, IInv, TypeOK
  <2> QED
    BY <1>1, <2>1, <2>2
    DEF Next, Quiet, Propose, Late, Reject, ApproveAtOnce, Approve, Perform, Succeed, Fail,
        CommitFails, Crash, vars
<1>2. Init => contested = {}
  BY DEF Init
<1> QED
  BY <1>1, <1>2, Invariant, PTL DEF Spec

(* In both cases an action an analyst has rejected is never carried out,   *)
(* however late the requests of earlier decisions arrive.                  *)
THEOREM RejectedIsHonoured ==
    ASSUME AtOnce \/ OneAtATime PROVE Spec => []RejectedNeverExecuted
<1>1. Spec => [](contested = {})
  BY NoContestAtOnce, NoContestSingly
<1>2. IInv /\ ExecutedOnce /\ contested = {} => RejectedNeverExecuted
  BY DEF ExecutedOnce, RejectedNeverExecuted, IInv, TypeOK
<1> QED
  BY <1>1, <1>2, Invariant, OnceIfUncontested, PTL

=============================================================================
