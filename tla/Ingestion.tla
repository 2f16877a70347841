----------------------------- MODULE Ingestion -----------------------------
(***************************************************************************)
(* The endpoints that take events in (ingest, hec_event, hec_raw in        *)
(* src/app/main.py) and what can become of a request: every value is       *)
(* processed and committed on its own, so a request that ends early leaves *)
(* a prefix of its values in the store; and a client that stops waiting    *)
(* does not stop the server.                                               *)
(***************************************************************************)
EXTENDS Integers, Sequences

CONSTANTS
    Events,         \* what is to be taken in, numbered
    Limit,          \* values taken from one request, 500 in the code
    MaxRequests     \* bound: requests

ASSUME IngestionAssumption ==
    Events \subseteq Nat \ {0} /\ Limit \in Nat \ {0} /\ MaxRequests \in Nat

NoEvent == 0            \* a HEC payload without the field "event"
Undecodable == -1       \* a HEC payload that is no JSON object

VARIABLES
    store,          \* how often each event is stored
    requests,       \* the requests, in the order they came
    faults          \* bound: failures, restarts and lost answers still to come

server == <<store, requests, faults>>

ServerInit ==
    /\ store = [e \in Events |-> 0]
    /\ requests = <<>>

Fault == faults > 0 /\ faults' = faults - 1

(* The values of a request that are looked at, whatever the answer says.   *)
Taken(values) == IF Len(values) < Limit THEN Len(values) ELSE Limit

(* A request with values arrives.  ingest refuses an empty one, hec_event  *)
(* decodes the whole body before it processes the first event.             *)
Refused(endpoint, values) ==
    \/ endpoint = "ingest" /\ values = <<>>
    \/ endpoint = "hec_event" /\ \E i \in DOMAIN values : values[i] = Undecodable
Send(endpoint, values) ==
    /\ Len(requests) < MaxRequests
    /\ requests' = Append(requests,
         [values |-> values, done |-> 0,
          st |-> IF Refused(endpoint, values) THEN "refused" ELSE "running"])

Running(q) == requests[q].st = "running"
NextValue(q) == requests[q].values[requests[q].done + 1]

(* Mutant: the loop stops before the last value.                           *)
AtLast(q) == requests[q].done + 1 >= Taken(requests[q].values)
AtEnd(q) == requests[q].done = Taken(requests[q].values)

(* process() of the next value, which commits.                             *)
ProcessValue(q) ==
    /\ Running(q) /\ ~AtEnd(q) /\ NextValue(q) # NoEvent
    /\ store' = [store EXCEPT ![NextValue(q)] = @ + 1]
    /\ requests' = [requests EXCEPT ![q].done = @ + 1]
    /\ UNCHANGED faults

(* A payload without an event ends the request, after those before it.     *)
RefuseValue(q) ==
    /\ Running(q) /\ ~AtEnd(q) /\ NextValue(q) = NoEvent
    /\ requests' = [requests EXCEPT ![q].st = "refused"]
    /\ UNCHANGED <<store, faults>>

Answer(q) ==
    /\ Running(q) /\ AtEnd(q)
    /\ requests' = [requests EXCEPT ![q].st = "ok"]
    /\ UNCHANGED <<store, faults>>

(* process() raises; the values before this one are committed.             *)
FailValue(q) ==
    /\ Running(q) /\ ~AtEnd(q) /\ Fault
    /\ requests' = [requests EXCEPT ![q].st = "failed"]
    /\ UNCHANGED store

(* The server is killed and started again: what has been committed stays,  *)
(* and whoever waits for an answer sees the connection close.              *)
Restart ==
    /\ \E q \in DOMAIN requests : Running(q)
    /\ Fault
    /\ requests' = [q \in DOMAIN requests |->
         IF Running(q) THEN [requests[q] EXCEPT !.st = "cut"] ELSE requests[q]]
    /\ UNCHANGED store

Serve(q) == ProcessValue(q) \/ RefuseValue(q) \/ Answer(q)
ServerStep == Restart \/ \E q \in DOMAIN requests : Serve(q) \/ FailValue(q)

-----------------------------------------------------------------------------
(* A request that was answered with success has had its first Limit values *)
(* stored, each of them; the values after these are lost without a word.   *)
SuccessMeansStored ==
    \A q \in DOMAIN requests : requests[q].st = "ok" =>
        \A i \in 1..Taken(requests[q].values) : store[requests[q].values[i]] > 0

=============================================================================
