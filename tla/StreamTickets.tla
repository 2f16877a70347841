--------------------------- MODULE StreamTickets ---------------------------
(***************************************************************************)
(* The tickets that admit a dashboard to the live stream: stream_ticket()  *)
(* in src/app/main.py issues them, require_stream_ticket() in              *)
(* src/app/auth.py checks them.  Both are plain functions, which FastAPI   *)
(* runs on a pool of threads, and they share one attribute,                *)
(* app.state.stream_tickets, without a lock.                               *)
(*                                                                         *)
(* A step ends where CPython may switch threads: inside the comprehension, *)
(* before the attribute is assigned, and before the new entry is stored.   *)
(* Looking up the attribute and storing into the dict it holds is one      *)
(* step, as is looking up a ticket and comparing its expiry.               *)
(***************************************************************************)
EXTENDS Integers, FiniteSets

CONSTANTS
    Threads,    \* threads of the pool
    Lifetime,   \* expires_in, eight hours in the code
    MaxIssued,  \* bound: tickets issued
    MaxNow      \* bound: clock

(* The n-th request for a ticket creates ticket n and dict n; dict 0 is    *)
(* the one create_app starts with.                                         *)
Tickets == 1..MaxIssued
Dicts == 0..MaxIssued

VARIABLES
    now,        \* time.time()
    dict,       \* the contents of every dict object
    current,    \* the dict app.state.stream_tickets refers to
    expiry,     \* the expiry stored with a ticket
    requests,   \* requests for a ticket so far
    pc, job,    \* what each thread does, and its local variables
    issued,     \* tickets whose response has been sent
    overlapped, \* of these, the ones issued while another request was at work
    admitted    \* streams opened: the ticket and the time

vars == <<now, dict, current, expiry, requests, pc, job, issued, overlapped, admitted>>

NoJob == [n |-> 0, at |-> 0, from |-> 0, size |-> 0]

Init ==
    /\ now = 0
    /\ dict = [d \in Dicts |-> {}]
    /\ current = 0
    /\ expiry = [k \in Tickets |-> 0]
    /\ requests = 0
    /\ pc = [t \in Threads |-> "idle"]
    /\ job = [t \in Threads |-> NoJob]
    /\ issued = {} /\ overlapped = {}
    /\ admitted = {}

Issuing == {t \in Threads : pc[t] \in {"filter", "assign", "add"}}

-----------------------------------------------------------------------------
(* stream_ticket() reads the clock and starts to iterate over the dict ... *)
Request(t) ==
    /\ pc[t] = "idle" /\ requests < MaxIssued
    /\ requests' = requests + 1
    /\ job' = [job EXCEPT ![t] =
         [n |-> requests + 1, at |-> now, from |-> current, size |-> Cardinality(dict[current])]]
    /\ pc' = [pc EXCEPT ![t] = "filter"]
    /\ UNCHANGED <<now, dict, current, expiry, issued, overlapped, admitted>>

(* ... copies the tickets that have not expired ...  Mutant: it starts     *)
(* with an empty dict.                                                     *)
KeptNone(t) == {}
Kept(t) == {k \in dict[job[t].from] : expiry[k] > job[t].at}

SizeChanged(t) == Cardinality(dict[job[t].from]) # job[t].size

Filter(t) ==
    /\ pc[t] = "filter" /\ ~SizeChanged(t)
    /\ dict' = [dict EXCEPT ![job[t].n] = Kept(t)]
    /\ pc' = [pc EXCEPT ![t] = "assign"]
    /\ UNCHANGED <<now, current, expiry, requests, job, issued, overlapped, admitted>>

(* ... unless another thread changed the size of the dict meanwhile:       *)
(* RuntimeError, and the dashboard gets an error instead of a ticket ...   *)
FilterFails(t) ==
    /\ pc[t] = "filter" /\ SizeChanged(t)
    /\ pc' = [pc EXCEPT ![t] = "idle"]
    /\ job' = [job EXCEPT ![t] = NoJob]
    /\ UNCHANGED <<now, dict, current, expiry, requests, issued, overlapped, admitted>>

(* ... makes the copy the dict in use ...                                  *)
Assign(t) ==
    /\ pc[t] = "assign"
    /\ current' = job[t].n
    /\ pc' = [pc EXCEPT ![t] = "add"]
    /\ UNCHANGED <<now, dict, expiry, requests, job, issued, overlapped, admitted>>

(* ... and stores the new ticket in the dict in use by then.               *)
Expiry(t) == job[t].at + Lifetime

Add(t) ==
    /\ pc[t] = "add"
    /\ dict' = [dict EXCEPT ![current] = @ \cup {job[t].n}]
    /\ expiry' = [expiry EXCEPT ![job[t].n] = Expiry(t)]
    /\ issued' = issued \cup {job[t].n}
    /\ overlapped' = IF Issuing = {t} THEN overlapped ELSE overlapped \cup {job[t].n}
    /\ pc' = [pc EXCEPT ![t] = "idle"]
    /\ job' = [job EXCEPT ![t] = NoJob]
    /\ UNCHANGED <<now, current, requests, admitted>>

-----------------------------------------------------------------------------
(* require_stream_ticket(): a known ticket is good up to its expiry; it is *)
(* not used up.                                                            *)
IsGood(k) == k \in dict[current] /\ expiry[k] >= now

Admit(t, k) ==
    /\ pc[t] = "idle" /\ k \in issued /\ IsGood(k)
    /\ admitted' = admitted \cup {[ticket |-> k, at |-> now]}
    /\ UNCHANGED <<now, dict, current, expiry, requests, pc, job, issued, overlapped>>

(* Any other is refused, and its entry removed in a second step.           *)
Refuse(t, k) ==
    /\ pc[t] = "idle" /\ k \in issued /\ ~IsGood(k)
    /\ pc' = [pc EXCEPT ![t] = "pop"]
    /\ job' = [job EXCEPT ![t].n = k]
    /\ UNCHANGED <<now, dict, current, expiry, requests, issued, overlapped, admitted>>

Pop(t) ==
    /\ pc[t] = "pop"
    /\ dict' = [dict EXCEPT ![current] = @ \ {job[t].n}]
    /\ pc' = [pc EXCEPT ![t] = "idle"]
    /\ job' = [job EXCEPT ![t] = NoJob]
    /\ UNCHANGED <<now, current, expiry, requests, issued, overlapped, admitted>>

Tick ==
    /\ now < MaxNow
    /\ now' = now + 1
    /\ UNCHANGED <<dict, current, expiry, requests, pc, job, issued, overlapped, admitted>>

(* Nobody asks for a ticket or presents one.                               *)
Quiet == (\A t \in Threads : pc[t] = "idle") /\ UNCHANGED vars

Next ==
    \/ \E t \in Threads :
         \/ Request(t) \/ Filter(t) \/ FilterFails(t) \/ Assign(t) \/ Add(t) \/ Pop(t)
         \/ \E k \in Tickets : Admit(t, k) \/ Refuse(t, k)
    \/ Tick \/ Quiet

Spec == Init /\ [][Next]_vars

-----------------------------------------------------------------------------
(* Type invariant; no stored expiry is further away than the lifetime.     *)
TypeOK ==
    /\ now \in 0..MaxNow
    /\ dict \in [Dicts -> SUBSET Tickets] /\ current \in Dicts
    /\ expiry \in [Tickets -> 0..(now + Lifetime)]
    /\ requests \in 0..MaxIssued
    /\ pc \in [Threads -> {"idle", "filter", "assign", "add", "pop"}]
    /\ job \in [Threads -> [n: 0..MaxIssued, at: 0..now, from: Dicts, size: Nat]]
    /\ overlapped \subseteq issued /\ issued \subseteq Tickets
    /\ admitted \subseteq [ticket: issued, at: 0..now]

(* No stream is opened with a ticket that had expired, although expired    *)
(* tickets stay in the dict, or return to it with a copy taken earlier.    *)
AdmittedWhileGood ==
    \A s \in admitted : s.at <= expiry[s.ticket]

=============================================================================
