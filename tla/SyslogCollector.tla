-------------------------- MODULE SyslogCollector --------------------------
(***************************************************************************)
(* The UDP syslog collector (SyslogProtocol, src/app/integrations/         *)
(* syslog.py) from the lifespan that opens it to the one that closes it: a *)
(* bounded asyncio queue between datagram_received and a fixed number of   *)
(* workers, each of which runs process() on one datagram at a time.        *)
(*                                                                         *)
(* Everything runs on one event loop.  A worker gives the loop up inside   *)
(* process() or when the queue is empty, so its steps are: take a          *)
(* datagram, and finish it.                                                *)
(***************************************************************************)
EXTENDS Integers, Sequences, FiniteSets

CONSTANTS
    Workers,       \* the worker tasks, syslog_worker_count of them
    QueueMax,      \* syslog_queue_maxsize
    MaxDatagrams   \* bound: datagrams received

ASSUME ConstantsAssumption ==
    /\ IsFiniteSet(Workers)
    /\ QueueMax \in Nat \ {0}
    /\ MaxDatagrams \in Nat

(* A datagram is named by its number of arrival.                           *)
Datagrams == 1..MaxDatagrams
Nothing == 0

VARIABLES
    phase,      \* of the transport: "new", "open", "closing" or "closed"
    queue,      \* the asyncio queue
    hand,       \* the datagram each worker is processing
    running,    \* the workers whose task has not ended
    received, processed, dropped, failed, \* the counters of stats()
    cancelled,  \* datagrams in process() when their worker was cancelled
    finished    \* the datagrams done with, in that order

counters == <<received, processed, dropped, failed>>
vars == <<phase, queue, hand, running, counters, cancelled, finished>>

Busy == {w \in Workers : hand[w] # Nothing}

Init ==
    /\ phase = "new"
    /\ queue = <<>>
    /\ hand = [w \in Workers |-> Nothing]
    /\ running = {}
    /\ received = 0 /\ processed = 0 /\ dropped = 0 /\ failed = 0
    /\ cancelled = 0
    /\ finished = <<>>

-----------------------------------------------------------------------------
(* lifespan: the socket is bound and connection_made starts the workers,   *)
(* or binding it fails and the application runs without a collector.       *)
Open ==
    /\ phase = "new"
    /\ phase' = "open"
    /\ running' = Workers
    /\ UNCHANGED <<queue, hand, counters, cancelled, finished>>

OpenFails ==
    /\ phase = "new"
    /\ phase' = "closed"
    /\ UNCHANGED <<queue, hand, running, counters, cancelled, finished>>

(* datagram_received.  Mutant: a datagram is counted only when it is       *)
(* queued.                                                                 *)
HasRoom == Len(queue) < QueueMax

CountQueued == IF HasRoom THEN received + 1 ELSE received
CountReceived == received + 1

DatagramReceived ==
    /\ phase = "open" /\ received < MaxDatagrams
    /\ received' = CountReceived
    /\ IF HasRoom
       THEN queue' = Append(queue, received + 1) /\ UNCHANGED dropped
       ELSE dropped' = dropped + 1 /\ UNCHANGED queue
    /\ UNCHANGED <<phase, hand, running, processed, failed, cancelled, finished>>

(* _worker: a task that waits in queue.get(), or calls it again, gets the  *)
(* head of the queue.  Mutants: the datagram stays in the queue; the       *)
(* newest one is taken first.                                              *)
PeekOldest(w) ==
    /\ hand' = [hand EXCEPT ![w] = Head(queue)]
    /\ UNCHANGED queue
TakeNewest(w) ==
    /\ hand' = [hand EXCEPT ![w] = queue[Len(queue)]]
    /\ queue' = SubSeq(queue, 1, Len(queue) - 1)
TakeOldest(w) ==
    /\ hand' = [hand EXCEPT ![w] = Head(queue)]
    /\ queue' = Tail(queue)

Take(w) ==
    /\ w \in running /\ hand[w] = Nothing /\ queue # <<>>
    /\ TakeOldest(w)
    /\ UNCHANGED <<phase, running, counters, cancelled, finished>>

Release(w) ==
    /\ hand' = [hand EXCEPT ![w] = Nothing]
    /\ finished' = Append(finished, hand[w])

(* _process returns True ...                                               *)
Processed(w) ==
    /\ w \in running /\ hand[w] # Nothing
    /\ Release(w)
    /\ processed' = processed + 1
    /\ UNCHANGED <<phase, queue, running, received, dropped, failed, cancelled>>

(* ... or process() raised, the exception is logged, the datagram counted  *)
(* as failed and the worker goes on.  Mutant: the exception ends it.       *)
WorkerDies(w) == running' = running \ {w}
WorkerGoesOn(w) == UNCHANGED running

Failed(w) ==
    /\ w \in running /\ hand[w] # Nothing
    /\ Release(w)
    /\ failed' = failed + 1
    /\ WorkerGoesOn(w)
    /\ UNCHANGED <<phase, queue, received, processed, dropped, cancelled>>

(* The end of the lifespan: the transport stops reading and schedules      *)
(* connection_lost; until that runs, the workers may go on.                *)
Close ==
    /\ phase = "open"
    /\ phase' = "closing"
    /\ UNCHANGED <<queue, hand, running, counters, cancelled, finished>>

(* connection_lost cancels the workers.  CancelledError passes `except     *)
(* Exception`, so that a datagram in process() is rolled back and counted  *)
(* nowhere, and what is queued stays there.                                *)
ConnectionLost ==
    /\ phase = "closing"
    /\ phase' = "closed"
    /\ running' = {}
    /\ cancelled' = cancelled + Cardinality(Busy)
    /\ hand' = [w \in Workers |-> Nothing]
    /\ UNCHANGED <<queue, counters, finished>>

Stopped == phase = "closed" /\ UNCHANGED vars

Next ==
    \/ Open \/ OpenFails \/ DatagramReceived
    \/ \E w \in Workers : Take(w) \/ Processed(w) \/ Failed(w)
    \/ Close \/ ConnectionLost \/ Stopped

Spec == Init /\ [][Next]_vars

(* A worker that can take a datagram or has one goes on: asyncio runs      *)
(* every ready task, and process() is assumed to end, as it does in the    *)
(* configurations where AlertPipeline shows EventSettles.                  *)
FairSpec == Spec /\ \A w \in Workers : WF_vars(Take(w) \/ Processed(w) \/ Failed(w))

-----------------------------------------------------------------------------
(* Type invariant; the queue never outgrows its bound.                     *)
TypeOK ==
    /\ phase \in {"new", "open", "closing", "closed"}
    /\ queue \in Seq(Datagrams) /\ Len(queue) <= QueueMax
    /\ hand \in [Workers -> Datagrams \cup {Nothing}]
    /\ running \subseteq Workers
    /\ received \in 0..MaxDatagrams
    /\ processed \in Nat /\ dropped \in Nat /\ failed \in Nat /\ cancelled \in Nat
    /\ finished \in Seq(Datagrams)

(* Every datagram received is accounted for exactly once: processed,       *)
(* failed, dropped, queued or in the hands of a worker, and only shutting  *)
(* down makes an exception.                                                *)
Conservation ==
    received = processed + failed + dropped + Len(queue) + Cardinality(Busy) + cancelled

(* What is dropped at the door is never processed, and nothing is          *)
(* processed twice: queue, hands and finished hold distinct datagrams.     *)
NothingTwice ==
    /\ \A i, j \in DOMAIN queue : i # j => queue[i] # queue[j]
    /\ \A i, j \in DOMAIN finished : i # j => finished[i] # finished[j]
    /\ \A i \in DOMAIN queue, j \in DOMAIN finished : queue[i] # finished[j]
    /\ \A w \in Busy :
         /\ \A v \in Workers \ {w} : hand[v] # hand[w]
         /\ \A i \in DOMAIN queue : queue[i] # hand[w]
         /\ \A j \in DOMAIN finished : finished[j] # hand[w]

(* No datagram overtakes one that waits: the queue is in order of arrival, *)
(* and all that was taken from it arrived before what is still in it.      *)
TakenInOrder ==
    /\ \A i, j \in DOMAIN queue : i < j => queue[i] < queue[j]
    /\ \A i \in DOMAIN queue :
         /\ \A w \in Busy : hand[w] < queue[i]
         /\ \A j \in DOMAIN finished : finished[j] < queue[i]

(* Datagrams are finished in the order they arrived, so that the timeline  *)
(* and last_seen of an alert follow the sensor: so it is with one worker.  *)
InOrder ==
    \A i, j \in DOMAIN finished : i < j => finished[i] < finished[j]

(* While the collector is open a datagram that was queued is eventually    *)
(* taken and finished, whatever other datagrams fail.                      *)
QueuedIsFinished ==
    \A d \in Datagrams :
        (\E i \in DOMAIN queue : queue[i] = d)
          ~> (phase # "open" \/ \E i \in DOMAIN finished : finished[i] = d)

=============================================================================
