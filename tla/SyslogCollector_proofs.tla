----------------------- MODULE SyslogCollector_proofs -----------------------
(***************************************************************************)
(* The accounting of the syslog collector for any number of workers, any   *)
(* queue bound and any number of datagrams.                                *)
(***************************************************************************)
EXTENDS SyslogCollector, FiniteSetTheorems, SequenceTheorems, TLAPS

(* Datagrams are named in the order of arrival, so nothing that is queued, *)
(* held or finished has a number above the counter.                        *)
NamesInv ==
    /\ \A i \in DOMAIN queue : queue[i] \in 1..received
    /\ \A w \in Workers : hand[w] \in 0..received
    /\ \A j \in DOMAIN finished : finished[j] \in 1..received

IInv == TypeOK /\ NamesInv /\ NothingTwice /\ TakenInOrder /\ Conservation

(* The busy workers can be counted.                                        *)
LEMMA BusyFinite == IsFiniteSet(Busy) /\ Cardinality(Busy) \in Nat
  BY ConstantsAssumption, FS_Subset, FS_CardinalityType DEF Busy

(* The head and the tail of the queue, by position.                        *)
LEMMA QueueHead ==
    ASSUME TypeOK, queue # <<>>
    PROVE  /\ Len(queue) \in Nat /\ Len(queue) > 0
           /\ Head(queue) = queue[1] /\ Head(queue) \in Datagrams
           /\ Tail(queue) \in Seq(Datagrams) /\ Len(Tail(queue)) = Len(queue) - 1
           /\ DOMAIN queue = 1..Len(queue) /\ DOMAIN Tail(queue) = 1..(Len(queue) - 1)
           /\ \A i \in 1..(Len(queue) - 1) : Tail(queue)[i] = queue[i + 1]
  BY DEF TypeOK

(* Appending keeps the old positions and adds one.                         *)
LEMMA Appended ==
    ASSUME NEW s \in Seq(Datagrams), NEW d \in Datagrams
    PROVE  /\ Append(s, d) \in Seq(Datagrams) /\ Len(Append(s, d)) = Len(s) + 1
           /\ Len(s) \in Nat
           /\ DOMAIN s = 1..Len(s) /\ DOMAIN Append(s, d) = 1..(Len(s) + 1)
           /\ \A i \in 1..Len(s) : Append(s, d)[i] = s[i]
           /\ Append(s, d)[Len(s) + 1] = d
  OBVIOUS

(* The type invariant is preserved.                                        *)
LEMMA TypeStep == TypeOK /\ [Next]_vars => TypeOK'
<1> SUFFICES ASSUME TypeOK, [Next]_vars PROVE TypeOK'
  OBVIOUS
<1> USE ConstantsAssumption DEF Datagrams, Nothing
<1>1. CASE Open
  BY <1>1 DEF Open, TypeOK, counters
<1>2. CASE OpenFails
  BY <1>2 DEF OpenFails, TypeOK, counters
<1>3. CASE DatagramReceived
  <2>1. received + 1 \in Datagrams /\ received' \in 0..MaxDatagrams
    BY <1>3 DEF DatagramReceived, CountReceived, TypeOK
  <2>2. CASE HasRoom
    <3> HIDE DEF Datagrams
    <3>1. queue' = Append(queue, received + 1) /\ dropped' = dropped
      BY <1>3, <2>2 DEF DatagramReceived
    <3>2. queue' \in Seq(Datagrams) /\ Len(queue') <= QueueMax
      BY <2>1, <2>2, <3>1, Appended DEF HasRoom, TypeOK
    <3> QED
      BY <1>3, <2>1, <3>1, <3>2 DEF DatagramReceived, TypeOK
  <2>3. CASE ~HasRoom
    BY <1>3, <2>1, <2>3 DEF DatagramReceived, TypeOK
  <2> QED
    BY <2>2, <2>3
<1>4. ASSUME NEW w \in Workers, Take(w) PROVE TypeOK'
  <2>1. queue' \in Seq(Datagrams) /\ Len(queue') <= QueueMax /\ Head(queue) \in Datagrams
    BY <1>4, QueueHead DEF Take, TakeOldest, TypeOK
  <2>2. hand' \in [Workers -> Datagrams \cup {Nothing}]
    BY <1>4, <2>1 DEF Take, TakeOldest, TypeOK
  <2> HIDE DEF Datagrams
  <2> QED
    BY <1>4, <2>1, <2>2 DEF Take, TypeOK, counters
<1>5. ASSUME NEW w \in Workers, Processed(w) \/ Failed(w) PROVE TypeOK'
  <2>1. hand[w] \in Datagrams
    BY <1>5 DEF Processed, Failed, TypeOK
  <2> HIDE DEF Datagrams
  <2>2. finished' = Append(finished, hand[w]) /\ hand' = [hand EXCEPT ![w] = 0]
    BY <1>5 DEF Processed, Failed, Release
  <2>3. finished' \in Seq(Datagrams)
    BY <2>1, <2>2, Appended DEF TypeOK
  <2>4. hand' \in [Workers -> Datagrams \cup {Nothing}]
    BY <2>2 DEF TypeOK
  <2>5. /\ UNCHANGED <<phase, queue, running, received, dropped, cancelled>>
        /\ processed' \in Nat /\ failed' \in Nat
    BY <1>5 DEF Processed, Failed, WorkerGoesOn, TypeOK
  <2> QED
    BY <2>3, <2>4, <2>5 DEF TypeOK
<1>6. CASE Close
  BY <1>6 DEF Close, TypeOK, counters
<1>7. CASE ConnectionLost
  BY <1>7, BusyFinite DEF ConnectionLost, TypeOK, counters
<1>8. CASE UNCHANGED vars
  BY <1>8 DEF vars, counters, TypeOK
<1> QED
  BY <1>1, <1>2, <1>3, <1>4, <1>5, <1>6, <1>7, <1>8 DEF Next, Stopped

(* Names stay below the counter and stay distinct.                         *)
LEMMA NamesStep == TypeOK /\ NamesInv /\ NothingTwice /\ [Next]_vars => NamesInv' /\ NothingTwice'
<1> SUFFICES ASSUME TypeOK, NamesInv, NothingTwice, [Next]_vars PROVE NamesInv' /\ NothingTwice'
  OBVIOUS
<1> USE DEF NamesInv, NothingTwice, Busy, Nothing
<1>1. CASE UNCHANGED <<queue, hand, finished, received>>
  BY <1>1
<1>2. CASE DatagramReceived
  <2>1. received' = received + 1 /\ received \in Nat /\ received + 1 \in Datagrams
    BY <1>2, ConstantsAssumption DEF DatagramReceived, CountReceived, TypeOK, Datagrams
  <2>2. hand' = hand /\ finished' = finished
    BY <1>2 DEF DatagramReceived
  <2>3. CASE queue' = queue
    BY <2>1, <2>2, <2>3
  <2>4. CASE queue' = Append(queue, received + 1)
    <3>1. \A i \in DOMAIN queue' :
            \/ i \in DOMAIN queue /\ queue'[i] = queue[i]
            \/ i = Len(queue) + 1 /\ queue'[i] = received + 1
      BY <2>1, <2>4, Appended DEF TypeOK
    <3>2. \A i \in DOMAIN queue' : i \in Nat
      BY <2>1, <2>4, Appended DEF TypeOK
    <3>3. \A i \in DOMAIN queue' : queue'[i] \in 1..received'
      BY <2>1, <3>1
    <3>4. \A i, j \in DOMAIN queue' : i # j => queue'[i] # queue'[j]
      BY <2>1, <3>1
    <3> QED
      BY <2>1, <2>2, <3>1, <3>3, <3>4
  <2> QED
    BY <1>2, <2>3, <2>4 DEF DatagramReceived
<1>3. ASSUME NEW w \in Workers, Take(w) PROVE NamesInv' /\ NothingTwice'
  <2>1. /\ queue # <<>> /\ hand[w] = 0
        /\ hand' = [hand EXCEPT ![w] = queue[1]] /\ queue' = Tail(queue)
        /\ finished' = finished /\ received' = received
    BY <1>3, QueueHead DEF Take, TakeOldest, counters
  <2>2. 1 \in DOMAIN queue /\ queue[1] \in 1..received
    BY <2>1, QueueHead
  <2>3. \A i \in DOMAIN queue' : i \in Nat /\ i + 1 \in DOMAIN queue /\ i + 1 # 1 /\ queue'[i] = queue[i + 1]
    BY <2>1, QueueHead
  <2>4. \A i, j \in DOMAIN queue' : i # j => i + 1 # j + 1
    BY <2>3
  <2>5. \A i, j \in DOMAIN queue' : i # j => queue'[i] # queue'[j]
    BY <2>3, <2>4
  <2>6. \A i \in DOMAIN queue' : queue'[i] # queue[1] /\ queue'[i] \in 1..received
    BY <2>2, <2>3
  <2>7. hand'[w] = queue[1] /\ \A v \in Workers \ {w} : hand'[v] = hand[v] /\ hand[v] # queue[1]
    BY <2>1, <2>2 DEF TypeOK
  <2>8. \A i \in DOMAIN queue', j \in DOMAIN finished : queue'[i] # finished[j]
    BY <2>3
  <2>9. \A i \in DOMAIN queue', v \in Workers : v # w => queue'[i] # hand[v]
    BY <2>3, <2>6
  <2>10. \A j \in DOMAIN finished : finished[j] # queue[1]
    BY <2>2
  <2>11. NamesInv'
    BY <2>1, <2>2, <2>6, <2>7
  <2>12. \A v \in Busy' :
           /\ \A u \in Workers \ {v} : hand'[u] # hand'[v]
           /\ \A i \in DOMAIN queue' : queue'[i] # hand'[v]
           /\ \A j \in DOMAIN finished' : finished'[j] # hand'[v]
    <3> SUFFICES ASSUME NEW v \in Busy'
                 PROVE  /\ \A u \in Workers \ {v} : hand'[u] # hand'[v]
                        /\ \A i \in DOMAIN queue' : queue'[i] # hand'[v]
                        /\ \A j \in DOMAIN finished' : finished'[j] # hand'[v]
      OBVIOUS
    <3>1. CASE v = w
      BY <2>1, <2>6, <2>7, <2>10, <3>1
    <3>2. CASE v # w
      BY <2>1, <2>7, <2>9, <3>2
    <3> QED
      BY <3>1, <3>2
  <2> QED
    BY <2>1, <2>5, <2>8, <2>11, <2>12
<1>4. ASSUME NEW w \in Workers, Processed(w) \/ Failed(w) PROVE NamesInv' /\ NothingTwice'
  <2>1. /\ hand[w] # 0 /\ hand' = [hand EXCEPT ![w] = 0] /\ finished' = Append(finished, hand[w])
        /\ queue' = queue /\ received' = received
    BY <1>4 DEF Processed, Failed, Release
  <2>2. w \in Busy /\ hand[w] \in Datagrams /\ hand[w] \in 1..received
    BY <2>1 DEF TypeOK
  <2>3. \A i \in DOMAIN finished' :
          \/ i \in DOMAIN finished /\ finished'[i] = finished[i]
          \/ i = Len(finished) + 1 /\ finished'[i] = hand[w]
    BY <2>1, <2>2, Appended DEF TypeOK
  <2>4. hand'[w] = 0 /\ \A v \in Workers \ {w} : hand'[v] = hand[v]
    BY <2>1 DEF TypeOK
  <2>5. \A i, j \in DOMAIN finished' : i # j => finished'[i] # finished'[j]
    BY <2>2, <2>3
  <2>6. \A i \in DOMAIN queue, j \in DOMAIN finished' : queue[i] # finished'[j]
    BY <2>2, <2>3
  <2>7. \A v \in Busy' : v # w /\ v \in Busy /\ hand'[v] = hand[v]
    BY <2>4
  <2>8. \A v \in Busy', j \in DOMAIN finished' : finished'[j] # hand'[v]
    BY <2>2, <2>3, <2>7
  <2>9. NamesInv'
    <3>1. \A j \in DOMAIN finished' : finished'[j] \in 1..received
      BY <2>2, <2>3
    <3>2. \A v \in Workers : hand'[v] \in 0..received
      BY <2>4 DEF TypeOK
    <3> QED
      BY <2>1, <3>1, <3>2
  <2>10. \A v \in Busy' : \A u \in Workers \ {v} : hand'[u] # hand'[v]
    BY <2>4, <2>7
  <2> QED
    BY <2>1, <2>5, <2>6, <2>7, <2>8, <2>9, <2>10
<1>5. CASE ConnectionLost
  <2>1. /\ queue' = queue /\ finished' = finished /\ received' = received
        /\ hand' = [v \in Workers |-> 0] /\ received \in Nat
    BY <1>5 DEF ConnectionLost, counters, TypeOK
  <2> QED
    BY <2>1
<1> QED
  BY <1>1, <1>2, <1>3, <1>4, <1>5
  DEF Next, Stopped, Open, OpenFails, Close, counters, vars

(* What arrives is newer than everything, what is taken was the oldest.    *)
LEMMA OrderStep == TypeOK /\ NamesInv /\ TakenInOrder /\ [Next]_vars => TakenInOrder'
<1> SUFFICES ASSUME TypeOK, NamesInv, TakenInOrder, [Next]_vars PROVE TakenInOrder'
  OBVIOUS
<1> USE DEF NamesInv, TakenInOrder, Busy, Nothing
<1>1. CASE UNCHANGED <<queue, hand, finished>>
  BY <1>1
<1>2. CASE DatagramReceived
  <2>1. /\ received \in Nat /\ received + 1 \in Datagrams
        /\ hand' = hand /\ finished' = finished
    BY <1>2, ConstantsAssumption DEF DatagramReceived, TypeOK, Datagrams
  <2>2. CASE queue' = queue
    BY <2>1, <2>2
  <2>3. CASE queue' = Append(queue, received + 1)
    <3>1. /\ Len(queue) \in Nat /\ DOMAIN queue = 1..Len(queue)
          /\ DOMAIN queue' = 1..(Len(queue) + 1)
          /\ \A i \in DOMAIN queue : queue'[i] = queue[i]
          /\ queue'[Len(queue) + 1] = received + 1
      BY <2>1, <2>3, Appended DEF TypeOK
    <3>2. \A i, j \in DOMAIN queue' : i < j => queue'[i] < queue'[j]
      BY <2>1, <3>1
    <3>3. \A i \in DOMAIN queue' : i \in DOMAIN queue \/ queue'[i] = received + 1
      BY <3>1
    <3> QED
      BY <2>1, <3>1, <3>2, <3>3
  <2> QED
    BY <1>2, <2>2, <2>3 DEF DatagramReceived
<1>3. ASSUME NEW w \in Workers, Take(w) PROVE TakenInOrder'
  <2>1. /\ queue # <<>> /\ hand' = [hand EXCEPT ![w] = queue[1]] /\ queue' = Tail(queue)
        /\ finished' = finished
    BY <1>3, QueueHead DEF Take, TakeOldest, counters
  <2>2. \A i \in DOMAIN queue' :
          /\ i \in Nat /\ i + 1 \in DOMAIN queue /\ 1 < i + 1 /\ 1 \in DOMAIN queue
          /\ queue'[i] = queue[i + 1]
    BY <2>1, QueueHead
  <2>3. \A i, j \in DOMAIN queue' : i < j => queue'[i] < queue'[j]
    BY <2>2
  <2>4. hand'[w] = queue[1] /\ \A v \in Workers \ {w} : hand'[v] = hand[v]
    BY <2>1 DEF TypeOK
  <2>5. \A i \in DOMAIN queue', v \in Workers : hand'[v] # 0 => hand'[v] < queue'[i]
    BY <2>2, <2>4
  <2>6. \A i \in DOMAIN queue', j \in DOMAIN finished : finished[j] < queue'[i]
    BY <2>2
  <2> QED
    BY <2>1, <2>3, <2>5, <2>6
<1>4. ASSUME NEW w \in Workers, Processed(w) \/ Failed(w) PROVE TakenInOrder'
  <2>1. /\ hand[w] # 0 /\ hand' = [hand EXCEPT ![w] = 0]
        /\ finished' = Append(finished, hand[w]) /\ queue' = queue
    BY <1>4 DEF Processed, Failed, Release
  <2>2. \A j \in DOMAIN finished' :
          \/ j \in DOMAIN finished /\ finished'[j] = finished[j]
          \/ finished'[j] = hand[w]
    BY <2>1, Appended DEF TypeOK
  <2>3. \A v \in Workers : hand'[v] # 0 => hand'[v] = hand[v]
    BY <2>1 DEF TypeOK
  <2> QED
    BY <2>1, <2>2, <2>3
<1>5. CASE ConnectionLost
  BY <1>5 DEF ConnectionLost
<1> QED
  BY <1>1, <1>2, <1>3, <1>4, <1>5
  DEF Next, Stopped, Open, OpenFails, Close, counters, vars

(* With one worker what is finished next is newer than what is finished.   *)
HeldIsNext ==
    \A w \in Busy, j \in DOMAIN finished : finished[j] < hand[w]

(* A lone worker finishes in the order in which it takes.                  *)
LEMMA LoneWorkerStep ==
    ASSUME NEW w0, Workers = {w0},
           TypeOK, TakenInOrder, HeldIsNext, InOrder, [Next]_vars
    PROVE  HeldIsNext' /\ InOrder'
<1> USE DEF HeldIsNext, InOrder, Busy, Nothing
<1>1. CASE UNCHANGED <<hand, finished>>
  BY <1>1
<1>2. ASSUME NEW w \in Workers, Take(w) PROVE HeldIsNext' /\ InOrder'
  <2>1. /\ queue # <<>> /\ hand' = [hand EXCEPT ![w] = queue[1]] /\ finished' = finished
        /\ 1 \in DOMAIN queue
    BY <1>2, QueueHead DEF Take, TakeOldest
  <2>2. \A v \in Workers : hand'[v] = queue[1]
    BY <2>1 DEF TypeOK
  <2> QED
    BY <2>1, <2>2 DEF TakenInOrder
<1>3. ASSUME NEW w \in Workers, Processed(w) \/ Failed(w) PROVE HeldIsNext' /\ InOrder'
  <2>1. /\ w \in Busy /\ hand' = [hand EXCEPT ![w] = 0]
        /\ finished' = Append(finished, hand[w]) /\ hand[w] \in Datagrams
    BY <1>3 DEF Processed, Failed, Release, TypeOK
  <2>2. Busy' = {}
    BY <2>1 DEF TypeOK
  <2>3. /\ Len(finished) \in Nat /\ DOMAIN finished = 1..Len(finished)
        /\ DOMAIN finished' = 1..(Len(finished) + 1)
        /\ \A i \in DOMAIN finished : finished'[i] = finished[i]
        /\ finished'[Len(finished) + 1] = hand[w]
    BY <2>1, Appended DEF TypeOK
  <2>4. \A i, j \in DOMAIN finished' : i < j => finished'[i] < finished'[j]
    BY <2>1, <2>3
  <2> QED
    BY <2>2, <2>4
<1>4. CASE ConnectionLost
  BY <1>4 DEF ConnectionLost
<1> QED
  BY <1>1, <1>2, <1>3, <1>4
  DEF Next, Stopped, Open, OpenFails, DatagramReceived, Close, counters, vars

(* A step moves a datagram from one place to the next.                     *)
LEMMA ConservationStep == TypeOK /\ Conservation /\ [Next]_vars => Conservation'
<1> SUFFICES ASSUME TypeOK, Conservation, [Next]_vars PROVE Conservation'
  OBVIOUS
<1> USE DEF Conservation, Nothing
<1>a. /\ IsFiniteSet(Busy) /\ Cardinality(Busy) \in Nat /\ Len(queue) \in Nat
      /\ received \in Nat /\ processed \in Nat /\ failed \in Nat
      /\ dropped \in Nat /\ cancelled \in Nat
  BY BusyFinite DEF TypeOK
<1>1. CASE UNCHANGED <<queue, hand, counters, cancelled>>
  BY <1>1 DEF counters, Busy
<1>2. CASE DatagramReceived
  <2>1. \/ Len(queue') = Len(queue) + 1 /\ dropped' = dropped
        \/ Len(queue') = Len(queue) /\ dropped' = dropped + 1
    <3>1. CASE HasRoom
      <4>1. queue' = Append(queue, received + 1) /\ dropped' = dropped
        BY <1>2, <3>1 DEF DatagramReceived
      <4>2. received + 1 \in Datagrams
        BY <1>2, <1>a, ConstantsAssumption DEF DatagramReceived, Datagrams
      <4>3. Len(queue') = Len(queue) + 1
        BY <4>1, <4>2, Appended DEF TypeOK
      <4> QED
        BY <1>a, <4>1, <4>3
    <3>2. CASE ~HasRoom
      BY <1>2, <1>a, <3>2 DEF DatagramReceived, TypeOK
    <3> QED
      BY <3>1, <3>2
  <2>2. /\ received' = received + 1 /\ hand' = hand
        /\ processed' = processed /\ failed' = failed /\ cancelled' = cancelled
    BY <1>2 DEF DatagramReceived, CountReceived
  <2>3. Cardinality(Busy') = Cardinality(Busy)
    BY <2>2 DEF Busy
  <2>4. CASE Len(queue') = Len(queue) + 1 /\ dropped' = dropped
    BY <1>a, <2>2, <2>3, <2>4
  <2>5. CASE Len(queue') = Len(queue) /\ dropped' = dropped + 1
    BY <1>a, <2>2, <2>3, <2>5
  <2> QED
    BY <2>1, <2>4, <2>5
<1>3. ASSUME NEW w \in Workers, Take(w) PROVE Conservation'
  <2>1. queue # <<>> /\ Len(queue') = Len(queue) - 1
    BY <1>3, QueueHead DEF Take, TakeOldest
  <2>2. w \notin Busy /\ Busy' = Busy \cup {w}
    BY <1>3, QueueHead DEF Take, TakeOldest, Busy, TypeOK, Datagrams
  <2>3. Cardinality(Busy') = Cardinality(Busy) + 1
    BY <1>a, <2>2, FS_AddElement
  <2> QED
    BY <1>3, <1>a, <2>1, <2>3 DEF Take, counters
<1>4. ASSUME NEW w \in Workers, Processed(w) \/ Failed(w) PROVE Conservation'
  <2>1. w \in Busy /\ Busy' = Busy \ {w}
    BY <1>4 DEF Processed, Failed, Release, Busy, TypeOK
  <2>2. Cardinality(Busy') = Cardinality(Busy) - 1
    BY <1>a, <2>1, FS_RemoveElement
  <2> QED
    BY <1>4, <1>a, <2>2 DEF Processed, Failed
<1>5. CASE ConnectionLost
  <2>1. Busy' = {}
    BY <1>5 DEF ConnectionLost, Busy
  <2>2. Cardinality(Busy') = 0
    BY <2>1, FS_EmptySet
  <2>3. /\ cancelled' = cancelled + Cardinality(Busy) /\ Len(queue') = Len(queue)
        /\ received' = received /\ processed' = processed /\ failed' = failed /\ dropped' = dropped
    BY <1>5 DEF ConnectionLost, counters
  <2>4. received = processed + failed + dropped + Len(queue) + 0 + (cancelled + Cardinality(Busy))
    BY <1>a
  <2> QED
    BY <2>2, <2>3, <2>4
<1> QED
  BY <1>1, <1>2, <1>3, <1>4, <1>5
  DEF Next, Stopped, Open, OpenFails, Close, counters, vars

(* Nothing has been received at the start.                                 *)
LEMMA InvInit == Init => IInv
<1> SUFFICES ASSUME Init PROVE IInv
  OBVIOUS
<1>1. TypeOK
  BY ConstantsAssumption DEF Init, TypeOK
<1>2. Busy = {} /\ Cardinality(Busy) = 0
  BY FS_EmptySet DEF Init, Busy
<1>3. NamesInv /\ NothingTwice /\ TakenInOrder
  BY <1>2 DEF Init, NamesInv, NothingTwice, TakenInOrder, Nothing
<1> QED
  BY <1>1, <1>2, <1>3 DEF Init, IInv, Conservation

(* The inductive invariant holds in every reachable state.                 *)
THEOREM Invariant == Spec => []IInv
<1>1. IInv /\ [Next]_vars => IInv'
  BY TypeStep, NamesStep, OrderStep, ConservationStep DEF IInv
<1> QED
  BY InvInit, <1>1, PTL DEF Spec

(* The queue never outgrows its bound, and the state keeps its types.      *)
THEOREM TypeCorrect == Spec => []TypeOK
  BY Invariant, PTL DEF IInv

(* Every datagram is accounted for exactly once in the counters of stats().*)
THEOREM EveryDatagramCounted == Spec => []Conservation
  BY Invariant, PTL DEF IInv

(* No datagram is processed twice or after it was dropped.                 *)
THEOREM NoDatagramTwice == Spec => []NothingTwice
  BY Invariant, PTL DEF IInv

(* Workers take datagrams in the order in which they arrived.              *)
THEOREM NoneOvertakes == Spec => []TakenInOrder
  BY Invariant, PTL DEF IInv

(* With the default of one worker datagrams are finished in that order.    *)
THEOREM LoneWorkerInOrder == ASSUME NEW w0, Workers = {w0} PROVE Spec => []InOrder
<1>1. Init => HeldIsNext /\ InOrder
  BY DEF Init, HeldIsNext, InOrder
<1>2. IInv /\ HeldIsNext /\ InOrder /\ [Next]_vars => HeldIsNext' /\ InOrder'
  BY LoneWorkerStep DEF IInv
<1> QED
  BY Invariant, <1>1, <1>2, PTL DEF Spec

=============================================================================
