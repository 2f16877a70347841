--------------------------- MODULE ActionDecision ---------------------------
(***************************************************************************)
(* The life of the response actions of one alert, whose events are of one  *)
(* source and one host, so that a kind has one target: proposed by         *)
(* process() (_ensure_actions in src/app/pipeline.py), decided by analysts *)
(* (decide_action in src/app/main.py), carried out by the ResponseExecutor *)
(* against a webhook or an OPNsense firewall.                              *)
(*                                                                         *)
(* decide_action reads the row without a lock, checks that it is pending,  *)
(* and, when it approves in a live mode, waits for the adapter before it   *)
(* commits.  Every stretch between two suspensions is one action here,     *)
(* since the event loop runs nothing else during it.                       *)
(***************************************************************************)
EXTENDS Integers, FiniteSets

CONSTANTS
    Handlers,    \* decision requests that can be in progress at once
    Mode,        \* RESPONSE_MODE: "dry_run", "webhook", "opnsense" or another
    Configured,  \* the webhook URL, or the OPNsense URL and credentials, are set
    Kinds,       \* the containment kinds the alert calls for
    MaxActions,  \* bound: rows proposed for the alert
    MaxCrashes,  \* bound: crashes and failed commits
    MaxAsked     \* bound: decisions sent for one row

ASSUME ConstantsAssumption ==
    /\ IsFiniteSet(Handlers)
    /\ Configured \in BOOLEAN
    /\ Kinds \subseteq {"block_ip", "isolate_host"}
    /\ MaxActions \in Nat /\ MaxCrashes \in Nat /\ MaxAsked \in Nat

ActionIds == 1..MaxActions
NoAction == 0
Live == {"pending", "approved", "executed"}

VARIABLES
    kind, status, \* the committed response_actions rows; "absent" before
    audit,        \* committed audit outcomes of decisions per row
    pc,           \* per handler: "idle" or "waiting" for the adapter
    on,           \* the row the handler has loaded
    request,      \* its request to the adapter: "none", "sent" or "performed"
    late,         \* requests the handler gave up on that may still arrive
    effects,      \* how often the adapter has carried out the row's action
    asked,        \* how often analysts approved and rejected it when it was pending
    crashes,      \* crashes and failed commits so far
    contested     \* history: rows decided while a handler still waited on them,
                  \* or left by a handler that did not record its decision

rows == <<kind, status, audit>>
handler == <<pc, on, request>>
vars == <<rows, handler, late, effects, asked, crashes, contested>>

NoVotes == [approve |-> 0, reject |-> 0]

Init ==
    /\ kind = [a \in ActionIds |-> "none"]
    /\ status = [a \in ActionIds |-> "absent"]
    /\ audit = [a \in ActionIds |-> {}]
    /\ pc = [h \in Handlers |-> "idle"]
    /\ on = [h \in Handlers |-> NoAction]
    /\ request = [h \in Handlers |-> "none"]
    /\ late = [a \in ActionIds |-> 0]
    /\ effects = [a \in ActionIds |-> 0]
    /\ asked = [a \in ActionIds |-> NoVotes]
    /\ crashes = 0
    /\ contested = {}

-----------------------------------------------------------------------------
(* ResponseExecutor.execute: what becomes of an approved action.  An       *)
(* unknown mode is dry_run, and OPNsense can only block addresses.         *)
Adapter(k) ==
    IF Mode \notin {"webhook", "opnsense"} THEN "simulate"
    ELSE IF Mode = "opnsense" /\ k # "block_ip" THEN "refuse"
    ELSE IF Configured THEN "external" ELSE "refuse"

(* The status an approval leads to when no external call is made.          *)
Outcome(k) == IF Adapter(k) = "simulate" THEN "executed" ELSE "failed"

-----------------------------------------------------------------------------
(* Another high event is correlated: _ensure_actions proposes the action   *)
(* unless a live one exists.  Mutant: only pending rows count.             *)
NoPendingOf(k) == \A a \in ActionIds : kind[a] = k => status[a] # "pending"
NoLiveOf(k) == \A a \in ActionIds : kind[a] = k => status[a] \notin Live

ProposeRow(a) == status' = [status EXCEPT ![a] = "pending"] /\ UNCHANGED effects

Propose(a) ==
    /\ status[a] = "absent" /\ \A b \in ActionIds : b < a => status[b] # "absent"
    /\ \E k \in Kinds : /\ NoLiveOf(k)
                        /\ kind' = [kind EXCEPT ![a] = k]
    /\ ProposeRow(a)
    /\ UNCHANGED <<audit, handler, late, asked, crashes, contested>>

-----------------------------------------------------------------------------
(* decide_action *)

(* db.get finds the row pending; otherwise the answer is 404 or 409, and   *)
(* nothing changes.  Mutant: the check is missing.                         *)
IsStored(a) == status[a] # "absent"
IsPending(a) == status[a] = "pending"

MayDecide(h, a) ==
    /\ pc[h] = "idle" /\ IsPending(a)
    /\ asked[a].approve + asked[a].reject < MaxAsked
    /\ contested' = IF \E g \in Handlers : on[g] = a THEN contested \cup {a} ELSE contested

(* The transaction that ends a decision: new status and audit record.      *)
(* Mutant: the status is saved first, the record is lost with the process. *)
RecordStatusOnly(a, s) ==
    /\ status' = [status EXCEPT ![a] = s]
    /\ UNCHANGED audit
Record(a, s) ==
    /\ status' = [status EXCEPT ![a] = s]
    /\ audit' = [audit EXCEPT ![a] = @ \cup {s}]

Reject(h, a) ==
    /\ MayDecide(h, a)
    /\ asked' = [asked EXCEPT ![a].reject = @ + 1]
    /\ Record(a, "rejected")
    /\ UNCHANGED <<kind, handler, late, effects, crashes>>

(* An approval that needs no external call is decided on the spot ...      *)
ApproveAtOnce(h, a) ==
    /\ MayDecide(h, a) /\ Adapter(kind[a]) # "external"
    /\ asked' = [asked EXCEPT ![a].approve = @ + 1]
    /\ Record(a, Outcome(kind[a]))
    /\ UNCHANGED <<kind, handler, late, effects, crashes>>

(* ... any other sets the status in memory only and awaits the adapter.    *)
Approve(h, a) ==
    /\ MayDecide(h, a) /\ Adapter(kind[a]) = "external"
    /\ asked' = [asked EXCEPT ![a].approve = @ + 1]
    /\ pc' = [pc EXCEPT ![h] = "waiting"]
    /\ on' = [on EXCEPT ![h] = a]
    /\ request' = [request EXCEPT ![h] = "sent"]
    /\ UNCHANGED <<rows, late, effects, crashes>>

(* The adapter carries out the request, which is posted once.  Mutant: the *)
(* client posts it again.                                                  *)
PostedAgain(h) == request[h] # "none"
Posted(h) == request[h] = "sent"

Perform(h) ==
    /\ Posted(h)
    /\ request' = [request EXCEPT ![h] = "performed"]
    /\ effects' = [effects EXCEPT ![on[h]] = @ + 1]
    /\ UNCHANGED <<rows, pc, on, late, asked, crashes, contested>>

Done(h) ==
    /\ pc' = [pc EXCEPT ![h] = "idle"]
    /\ on' = [on EXCEPT ![h] = NoAction]
    /\ request' = [request EXCEPT ![h] = "none"]

(* The handler is gone, but a request it has sent may still arrive.        *)
GiveUp(h) ==
    /\ Done(h)
    /\ late' = [late EXCEPT ![on[h]] = @ + IF request[h] = "sent" THEN 1 ELSE 0]

(* Success is reported only for a request that was carried out.            *)
IsSuccess(h) == pc[h] = "waiting" /\ request[h] = "performed"

Succeed(h) ==
    /\ IsSuccess(h)
    /\ Record(on[h], "executed")
    /\ Done(h)
    /\ UNCHANGED <<kind, late, effects, asked, crashes, contested>>

(* An error status, or no answer in time: recorded as failed, although the *)
(* request may have been, or may still be, carried out.                    *)
Fail(h) ==
    /\ pc[h] = "waiting"
    /\ Record(on[h], "failed")
    /\ GiveUp(h)
    /\ UNCHANGED <<kind, effects, asked, crashes, contested>>

(* A request nobody waits for reaches the adapter after all, or is lost.   *)
Late(a) ==
    /\ late[a] > 0
    /\ late' = [late EXCEPT ![a] = @ - 1]
    /\ \/ effects' = [effects EXCEPT ![a] = @ + 1]
       \/ UNCHANGED effects
    /\ UNCHANGED <<rows, handler, asked, crashes, contested>>

-----------------------------------------------------------------------------
(* COMMIT fails after the wait (SQLite reports that the database is        *)
(* locked), or the answer is JSON but no object, an error that execute()   *)
(* does not catch: the decision ends in an error, the row stays.           *)
CommitFails(h) ==
    /\ crashes < MaxCrashes /\ pc[h] = "waiting"
    /\ crashes' = crashes + 1
    /\ GiveUp(h)
    /\ contested' = contested \cup {on[h]}
    /\ UNCHANGED <<rows, effects, asked>>

(* The process dies: handlers and what they had not committed are gone,    *)
(* requests on their way to the adapter are not.                           *)
Crash ==
    /\ crashes < MaxCrashes /\ \E h \in Handlers : pc[h] # "idle"
    /\ crashes' = crashes + 1
    /\ pc' = [h \in Handlers |-> "idle"]
    /\ on' = [h \in Handlers |-> NoAction]
    /\ request' = [h \in Handlers |-> "none"]
    /\ late' = [a \in ActionIds |->
                   late[a] + Cardinality({h \in Handlers : on[h] = a /\ request[h] = "sent"})]
    /\ contested' = contested \cup {on[h] : h \in {g \in Handlers : pc[g] = "waiting"}}
    /\ UNCHANGED <<rows, effects, asked>>

(* No event, decision or answer is outstanding within the bounds.          *)
Quiet ==
    /\ \A h \in Handlers : pc[h] = "idle"
    /\ UNCHANGED vars

Next ==
    \/ \E a \in ActionIds : Propose(a) \/ Late(a)
    \/ \E h \in Handlers, a \in ActionIds : Reject(h, a) \/ ApproveAtOnce(h, a) \/ Approve(h, a)
    \/ \E h \in Handlers : Perform(h) \/ Succeed(h) \/ Fail(h) \/ CommitFails(h)
    \/ Crash \/ Quiet

Spec == Init /\ [][Next]_vars

-----------------------------------------------------------------------------
(* Type invariant.                                                         *)
TypeOK ==
    /\ kind \in [ActionIds -> {"none", "block_ip", "isolate_host"}]
    /\ status \in [ActionIds -> {"absent", "pending", "rejected", "executed", "failed"}]
    /\ audit \in [ActionIds -> SUBSET {"rejected", "executed", "failed"}]
    /\ pc \in [Handlers -> {"idle", "waiting"}]
    /\ on \in [Handlers -> ActionIds \cup {NoAction}]
    /\ request \in [Handlers -> {"none", "sent", "performed"}]
    /\ late \in [ActionIds -> Nat]
    /\ effects \in [ActionIds -> Nat]
    /\ asked \in [ActionIds -> [approve: Nat, reject: Nat]]
    /\ crashes \in Nat
    /\ contested \subseteq ActionIds

(* Approval gate: the firewall or webhook acts on an action only after an  *)
(* analyst approved it, whatever retries, timeouts and crashes happen.     *)
EffectNeedsApproval ==
    \A a \in ActionIds : effects[a] > 0 => asked[a].approve > 0

(* Each approval is carried out at most once.                              *)
EffectPerApproval ==
    \A a \in ActionIds : effects[a] <= asked[a].approve

(* In a live mode a row shown as executed has been carried out.            *)
ExecutedMeansDone ==
    \A a \in ActionIds : status[a] = "executed" /\ Adapter(kind[a]) = "external" => effects[a] > 0

(* A decided row has its decision in the audit log, an undecided one has   *)
(* none: status and record are one transaction.                            *)
AuditMatchesStatus ==
    \A a \in ActionIds : IF status[a] \in {"absent", "pending"}
                         THEN audit[a] = {}
                         ELSE status[a] \in audit[a]

(* For each kind at most one action is live, so that a flood of events     *)
(* does not ask for the same containment twice: only a row decided twice   *)
(* can come back to life beside its successor.                             *)
OneLivePerKind ==
    \A a, b \in ActionIds \ contested :
        a # b /\ kind[a] = kind[b] => ~(status[a] \in Live /\ status[b] \in Live)

(* A decision is final: unless it was sent while another one was waiting   *)
(* for the adapter, a decided row keeps its status.                        *)
DecisionIsFinal ==
    [][\A a \in ActionIds \ contested' :
         status[a] \notin {"absent", "pending"} => status'[a] = status[a]]_vars

(* The adapter never acts on an action after, or although, it is rejected. *)
RejectedNeverExecuted ==
    \A a \in ActionIds : status[a] = "rejected" => effects[a] = 0

(* No action is carried out twice, and none that was rejected, however     *)
(* late requests arrive and however often decisions are repeated, unless   *)
(* decisions overlapped or the first was never recorded.                   *)
ExecutedOnce ==
    \A a \in ActionIds \ contested :
        effects[a] <= IF status[a] = "rejected" THEN 0 ELSE 1

(* An action carried out is in the audit log, or a handler is about to     *)
(* write it there; only an error between the two loses the record.         *)
EffectIsAudited ==
    \A a \in ActionIds \ contested : effects[a] > 0 =>
        audit[a] # {} \/ \E h \in Handlers : on[h] = a

=============================================================================
