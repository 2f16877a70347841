------------------------------ MODULE EventBus ------------------------------
(***************************************************************************)
(* The event bus behind the dashboard's live stream (src/app/event_bus.py, *)
(* and stream() in src/app/main.py).  Each open stream has a bounded queue *)
(* of its own; publish() never waits: a subscriber whose queue is full is  *)
(* taken off the bus.  Its generator is not told.                          *)
(*                                                                         *)
(* The bus's lock is held across no suspension, so publish() and joining   *)
(* the bus are single steps of the event loop.                             *)
(***************************************************************************)
EXTENDS Integers, Sequences

CONSTANTS
    Clients,      \* dashboards
    QueueMax,     \* size of a subscriber's queue, 100 in the code
    MaxPublished  \* bound: events published

ASSUME ConstantsAssumption == QueueMax \in Nat \ {0} /\ MaxPublished \in Nat

VARIABLES
    published,    \* events published so far; an event is its number
    open,         \* clients whose stream is open
    subscribers,  \* clients whose queue is on the bus
    queue,        \* the queue of each open stream
    since,        \* events published when the client subscribed
    seen          \* events the client has received on this stream

stream == <<open, since>>
vars == <<published, stream, subscribers, queue, seen>>

Init ==
    /\ published = 0
    /\ open = {} /\ subscribers = {}
    /\ queue = [c \in Clients |-> <<>>]
    /\ since = [c \in Clients |-> 0]
    /\ seen = [c \in Clients |-> <<>>]

-----------------------------------------------------------------------------
(* subscribe() creates the queue and puts it on the bus.                   *)
Subscribe(c) ==
    /\ c \notin open
    /\ open' = open \cup {c}
    /\ subscribers' = subscribers \cup {c}
    /\ since' = [since EXCEPT ![c] = published]
    /\ seen' = [seen EXCEPT ![c] = <<>>]
    /\ UNCHANGED <<published, queue>>

(* publish() puts the event into every queue that has room and discards    *)
(* the subscribers whose queue is full.  Mutant: they only miss the event. *)
Fits(c) == Len(queue[c]) < QueueMax

NoneStale == {}
Stale == {c \in subscribers : ~Fits(c)}

Publish ==
    /\ published < MaxPublished
    /\ published' = published + 1
    /\ queue' = [c \in Clients |->
         IF c \in subscribers /\ Fits(c) THEN Append(queue[c], published + 1) ELSE queue[c]]
    /\ subscribers' = subscribers \ Stale
    /\ UNCHANGED <<stream, seen>>

(* The generator yields the next event, which is sent before it asks for   *)
(* another one; a slow connection delays this step.  Mutant: it ends once  *)
(* its queue is off the bus.                                               *)
YieldsWhileOnBus(c) == c \in subscribers
Yields(c) == c \in open

Deliver(c) ==
    /\ Yields(c) /\ queue[c] # <<>>
    /\ seen' = [seen EXCEPT ![c] = Append(@, Head(queue[c]))]
    /\ queue' = [queue EXCEPT ![c] = Tail(@)]
    /\ UNCHANGED <<published, stream, subscribers>>

(* wait_for times out on an empty queue: the stream carries a heartbeat,   *)
(* on the bus or not.                                                      *)
Heartbeat(c) ==
    /\ c \in open /\ queue[c] = <<>>
    /\ UNCHANGED vars

(* The stream ends: the generator's finally takes its queue off the bus.   *)
Leave(c) ==
    /\ c \in open
    /\ open' = open \ {c}
    /\ subscribers' = subscribers \ {c}
    /\ queue' = [queue EXCEPT ![c] = <<>>]
    /\ UNCHANGED <<published, since, seen>>

Next ==
    \/ Publish
    \/ \E c \in Clients : Subscribe(c) \/ Deliver(c) \/ Heartbeat(c) \/ Leave(c)

Spec == Init /\ [][Next]_vars

(* A client that keeps its stream open keeps reading from it.              *)
FairSpec == Spec /\ \A c \in Clients : WF_vars(Deliver(c))

-----------------------------------------------------------------------------
(* Type invariant; memory stays bounded, however slow the readers are.     *)
TypeOK ==
    /\ published \in 0..MaxPublished
    /\ open \subseteq Clients /\ subscribers \subseteq open
    /\ queue \in [Clients -> Seq(Nat)] 
    /\ \A c \in Clients : Len(queue[c]) <= QueueMax /\ (c \notin open => queue[c] = <<>>)
    /\ since \in [Clients -> 0..MaxPublished]
    /\ seen \in [Clients -> Seq(Nat)]

(* A stream carries the events published since it was opened, in order,    *)
(* without gap or repetition; what is missing is always the newest part,   *)
(* and nothing is missing from a stream that is still on the bus.          *)
NoGap ==
    \A c \in open :
        /\ \A i \in DOMAIN seen[c] : seen[c][i] = since[c] + i
        /\ \A i \in DOMAIN queue[c] : queue[c][i] = since[c] + Len(seen[c]) + i
        /\ c \in subscribers => published = since[c] + Len(seen[c]) + Len(queue[c])

(* What was queued for a client reaches it, unless the stream ends, even   *)
(* after its queue was taken off the bus.                                  *)
QueuedIsDelivered ==
    \A c \in Clients, n \in 1..MaxPublished :
        (\E i \in DOMAIN queue[c] : queue[c][i] = n)
          ~> (c \notin open \/ \E i \in DOMAIN seen[c] : seen[c][i] = n)

=============================================================================
