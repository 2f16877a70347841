--------------------------- MODULE Console_proofs ---------------------------
(***************************************************************************)
(* The event bus, and the dashboard with its server for any number of      *)
(* overlapping calls of connectStream(), logins, events and failures: its  *)
(* streams are those of an EventBus, its tickets are refused for a reason  *)
(* only, and it never stays without a stream or an attempt to get one.     *)
(***************************************************************************)
EXTENDS Console, FiniteSetTheorems, TLAPS

-----------------------------------------------------------------------------
(* The event bus: what a stream carries, for any number of clients, any    *)
(* queue size and any number of events                                     *)

(* Appending keeps the old positions and adds one.                         *)
LEMMA Appended ==
    ASSUME NEW s \in Seq(Nat), NEW n \in Nat
    PROVE  /\ Append(s, n) \in Seq(Nat) /\ Len(s) \in Nat /\ Len(Append(s, n)) = Len(s) + 1
           /\ DOMAIN s = 1..Len(s) /\ DOMAIN Append(s, n) = 1..(Len(s) + 1)
           /\ \A i \in 1..Len(s) : Append(s, n)[i] = s[i]
           /\ Append(s, n)[Len(s) + 1] = n
  OBVIOUS

(* The head and the tail of a sequence, by position.                       *)
LEMMA HeadAndTail ==
    ASSUME NEW s \in Seq(Nat), s # <<>>
    PROVE  /\ Head(s) \in Nat /\ Head(s) = s[1] /\ 1 \in DOMAIN s
           /\ Tail(s) \in Seq(Nat) /\ Len(s) \in Nat /\ Len(Tail(s)) = Len(s) - 1
           /\ DOMAIN s = 1..Len(s) /\ DOMAIN Tail(s) = 1..(Len(s) - 1)
           /\ \A i \in 1..(Len(s) - 1) : Tail(s)[i] = s[i + 1]
  OBVIOUS

(* Moving an event from the queue to the client shifts the numbering.      *)
LEMMA Shift ==
    ASSUME NEW a \in Nat, NEW m \in Nat
    PROVE  /\ a + m + 1 = a + (m + 1)
           /\ \A q \in Nat : a + m + q = a + (m + 1) + (q - 1)
  OBVIOUS

(* ... also of the events behind it.                                       *)
LEMMA ShiftRest ==
    ASSUME NEW a \in Nat, NEW m \in Nat, NEW i \in Nat
    PROVE  a + m + (i + 1) = a + (m + 1) + i
  OBVIOUS

(* The type invariant is preserved.                                        *)
LEMMA TypeStep == TypeOK /\ [Next]_vars => TypeOK'
<1> SUFFICES ASSUME TypeOK, [Next]_vars PROVE TypeOK'
  OBVIOUS
<1> USE ConstantsAssumption DEF TypeOK
<1>1. CASE Publish
  <2>1. published + 1 \in Nat /\ published' \in 0..MaxPublished
    BY <1>1 DEF Publish
  <2>2. ASSUME NEW c \in Clients
        PROVE  /\ queue'[c] \in Seq(Nat) /\ Len(queue'[c]) <= QueueMax
               /\ c \notin open => queue'[c] = <<>>
    <3>1. CASE c \in subscribers /\ Fits(c)
      <4>1. queue'[c] = Append(queue[c], published + 1)
        BY <1>1, <3>1 DEF Publish
      <4> QED
        BY <2>1, <3>1, <4>1, Appended DEF Fits
    <3>2. CASE ~(c \in subscribers /\ Fits(c))
      <4>1. queue'[c] = queue[c]
        BY <1>1, <3>2 DEF Publish
      <4> QED
        BY <4>1
    <3> QED
      BY <3>1, <3>2
  <2>3. queue' \in [Clients -> Seq(Nat)]
    BY <1>1, <2>2 DEF Publish
  <2> QED
    BY <1>1, <2>1, <2>2, <2>3 DEF Publish, stream
<1>2. ASSUME NEW c \in Clients, Subscribe(c) PROVE TypeOK'
  <2>1. seen' \in [Clients -> Seq(Nat)]
    BY <1>2 DEF Subscribe
  <2> QED
    BY <1>2, <2>1 DEF Subscribe
<1>3. ASSUME NEW c \in Clients, Deliver(c) PROVE TypeOK'
  <2>1. /\ queue[c] \in Seq(Nat) /\ queue[c] # <<>> /\ seen[c] \in Seq(Nat)
    BY <1>3 DEF Deliver
  <2>2. /\ Tail(queue[c]) \in Seq(Nat) /\ Len(Tail(queue[c])) <= QueueMax
        /\ Append(seen[c], Head(queue[c])) \in Seq(Nat)
    BY <2>1, HeadAndTail, Appended
  <2> QED
    BY <1>3, <2>2 DEF Deliver, Yields, stream
<1>4. ASSUME NEW c \in Clients, Leave(c) PROVE TypeOK'
  <2>1. <<>> \in Seq(Nat) /\ Len(<<>>) = 0
    OBVIOUS
  <2> QED
    BY <1>4, <2>1 DEF Leave
<1>5. CASE UNCHANGED vars
  BY <1>5 DEF vars, stream
<1> QED
  BY <1>1, <1>2, <1>3, <1>4, <1>5 DEF Next, Heartbeat

(* The streams stay free of gaps.                                          *)
LEMMA NoGapStep == TypeOK /\ NoGap /\ [Next]_vars => NoGap'
<1> SUFFICES ASSUME TypeOK, NoGap, [Next]_vars, NEW c \in open'
             PROVE  /\ \A i \in DOMAIN seen'[c] : seen'[c][i] = since'[c] + i
                    /\ \A i \in DOMAIN queue'[c] : queue'[c][i] = since'[c] + Len(seen'[c]) + i
                    /\ c \in subscribers' => published' = since'[c] + Len(seen'[c]) + Len(queue'[c])
  BY DEF NoGap
<1> DEFINE Goal == /\ \A i \in DOMAIN seen'[c] : seen'[c][i] = since'[c] + i
                   /\ \A i \in DOMAIN queue'[c] : queue'[c][i] = since'[c] + Len(seen'[c]) + i
                   /\ c \in subscribers' => published' = since'[c] + Len(seen'[c]) + Len(queue'[c])
<1>a. c \in Clients
  BY TypeStep DEF TypeOK
<1>b. /\ queue[c] \in Seq(Nat) /\ seen[c] \in Seq(Nat) /\ since[c] \in Nat /\ published \in Nat
      /\ Len(queue[c]) \in Nat /\ Len(seen[c]) \in Nat
      /\ DOMAIN queue[c] = 1..Len(queue[c]) /\ DOMAIN seen[c] = 1..Len(seen[c])
  BY <1>a DEF TypeOK
<1>c. c \in open => /\ \A i \in DOMAIN seen[c] : seen[c][i] = since[c] + i
                    /\ \A i \in DOMAIN queue[c] : queue[c][i] = since[c] + Len(seen[c]) + i
                    /\ c \in subscribers => published = since[c] + Len(seen[c]) + Len(queue[c])
  BY DEF NoGap
<1>1. CASE Publish
  <2>1. seen' = seen /\ since' = since /\ open' = open /\ published' = published + 1
    BY <1>1 DEF Publish, stream
  <2>a. /\ \A i \in 1..Len(seen[c]) : seen[c][i] = since[c] + i
        /\ \A i \in 1..Len(queue[c]) : queue[c][i] = since[c] + Len(seen[c]) + i
        /\ c \in subscribers => published = since[c] + Len(seen[c]) + Len(queue[c])
    BY <2>1, <1>b, <1>c
  <2>2. CASE c \in subscribers /\ Fits(c)
    <3>1. queue'[c] = Append(queue[c], published + 1)
      BY <1>1, <1>a, <2>2 DEF Publish
    <3>2. published + 1 = since[c] + Len(seen[c]) + (Len(queue[c]) + 1)
      BY <1>b, <2>2, <2>a
    <3>3. /\ DOMAIN queue'[c] = 1..(Len(queue[c]) + 1) /\ Len(queue'[c]) = Len(queue[c]) + 1
          /\ \A i \in 1..Len(queue[c]) : queue'[c][i] = queue[c][i]
          /\ queue'[c][Len(queue[c]) + 1] = published + 1
      BY <1>b, <3>1, Appended
    <3>4. ASSUME NEW i \in DOMAIN queue'[c]
          PROVE  queue'[c][i] = since[c] + Len(seen[c]) + i
      <4>1. i \in 1..Len(queue[c]) \/ i = Len(queue[c]) + 1
        BY <1>b, <3>3
      <4> QED
        BY <1>b, <2>a, <3>2, <3>3, <4>1
    <3> QED
      BY <1>b, <2>1, <2>a, <3>2, <3>3, <3>4
  <2>3. CASE ~(c \in subscribers /\ Fits(c))
    <3>1. queue'[c] = queue[c] /\ c \notin subscribers'
      BY <1>1, <1>a, <2>3 DEF Publish, Stale
    <3> QED
      BY <1>c, <2>1, <3>1
  <2> QED
    BY <2>2, <2>3
<1>2. ASSUME NEW d \in Clients, Subscribe(d) PROVE Goal
  <2>1. CASE c = d
    <3>1. queue'[c] = <<>> /\ seen'[c] = <<>> /\ since'[c] = published /\ published' = published
      BY <1>2, <2>1, <1>a DEF Subscribe, TypeOK
    <3>2. DOMAIN queue'[c] = {} /\ DOMAIN seen'[c] = {} /\ Len(queue'[c]) = 0 /\ Len(seen'[c]) = 0
      BY <3>1
    <3> QED
      BY <1>b, <3>1, <3>2
  <2>2. CASE c # d
    <3>1. /\ queue'[c] = queue[c] /\ seen'[c] = seen[c] /\ since'[c] = since[c]
          /\ published' = published /\ c \in open /\ (c \in subscribers' => c \in subscribers)
      BY <1>2, <2>2, <1>a DEF Subscribe, TypeOK
    <3> QED
      BY <1>c, <3>1
  <2> QED
    BY <2>1, <2>2
<1>3. ASSUME NEW d \in Clients, Deliver(d) PROVE Goal
  <2>1. since' = since /\ open' = open /\ published' = published /\ subscribers' = subscribers
    BY <1>3 DEF Deliver, stream
  <2>a. /\ \A i \in 1..Len(seen[c]) : seen[c][i] = since[c] + i
        /\ \A i \in 1..Len(queue[c]) : queue[c][i] = since[c] + Len(seen[c]) + i
        /\ c \in subscribers => published = since[c] + Len(seen[c]) + Len(queue[c])
    BY <2>1, <1>b, <1>c
  <2>2. CASE c = d
    <3>1. /\ queue[c] # <<>> /\ queue'[c] = Tail(queue[c])
          /\ seen'[c] = Append(seen[c], Head(queue[c]))
      BY <1>3, <2>2, <1>a DEF Deliver, TypeOK
    <3>2. Head(queue[c]) = since[c] + Len(seen[c]) + 1 /\ Head(queue[c]) \in Nat
      BY <1>b, <2>a, <3>1, HeadAndTail
    <3>3. /\ DOMAIN seen'[c] = 1..(Len(seen[c]) + 1) /\ Len(seen'[c]) = Len(seen[c]) + 1
          /\ \A i \in 1..Len(seen[c]) : seen'[c][i] = seen[c][i]
          /\ seen'[c][Len(seen[c]) + 1] = Head(queue[c])
      BY <1>b, <3>1, <3>2, Appended
    <3>4. /\ DOMAIN queue'[c] = 1..(Len(queue[c]) - 1) /\ Len(queue'[c]) = Len(queue[c]) - 1
          /\ \A i \in 1..(Len(queue[c]) - 1) : queue'[c][i] = queue[c][i + 1]
      BY <1>b, <3>1, HeadAndTail
    <3>5. ASSUME NEW i \in DOMAIN seen'[c] PROVE seen'[c][i] = since[c] + i
      <4>1. CASE i \in 1..Len(seen[c])
        BY <2>a, <3>3, <4>1
      <4>2. CASE i = Len(seen[c]) + 1
        <5>1. seen'[c][i] = since[c] + Len(seen[c]) + 1
          BY <3>2, <3>3, <4>2
        <5> QED
          BY <1>b, <4>2, <5>1, Shift
      <4> QED
        BY <1>b, <3>3, <4>1, <4>2
    <3>6. ASSUME NEW i \in DOMAIN queue'[c]
          PROVE  queue'[c][i] = since[c] + (Len(seen[c]) + 1) + i
      <4>1. i \in 1..(Len(queue[c]) - 1) /\ i + 1 \in 1..Len(queue[c])
        BY <1>b, <3>4
      <4>i. i \in Nat
        BY <4>1
      <4>2. queue'[c][i] = queue[c][i + 1]
        BY <3>4, <4>1
      <4>3. queue[c][i + 1] = since[c] + Len(seen[c]) + (i + 1)
        BY <2>a, <4>1
      <4>4. since[c] + Len(seen[c]) + (i + 1) = since[c] + (Len(seen[c]) + 1) + i
        <5>1. since[c] \in Nat /\ Len(seen[c]) \in Nat /\ i \in Nat
          BY <1>b, <4>i
        <5> QED
          BY <5>1, ShiftRest, Zenon
      <4> QED
        BY <4>2, <4>3, <4>4
    <3>7. c \in subscribers =>
            published = since[c] + (Len(seen[c]) + 1) + (Len(queue[c]) - 1)
      <4>1. since[c] + Len(seen[c]) + Len(queue[c])
              = since[c] + (Len(seen[c]) + 1) + (Len(queue[c]) - 1)
        BY <1>b, Shift
      <4> QED
        BY <2>a, <4>1
    <3> QED
      BY <1>b, <2>1, <3>3, <3>4, <3>5, <3>6, <3>7
  <2>3. CASE c # d
    <3>1. queue'[c] = queue[c] /\ seen'[c] = seen[c]
      BY <1>3, <2>3, <1>a DEF Deliver, TypeOK
    <3> QED
      BY <1>c, <2>1, <3>1
  <2> QED
    BY <2>2, <2>3
<1>4. ASSUME NEW d \in Clients, Leave(d) PROVE Goal
  <2>1. c # d /\ c \in open
    BY <1>4 DEF Leave
  <2>2. /\ queue'[c] = queue[c] /\ seen' = seen /\ since' = since /\ published' = published
        /\ (c \in subscribers' => c \in subscribers)
    BY <1>4, <2>1, <1>a DEF Leave, TypeOK
  <2> QED
    BY <1>c, <2>1, <2>2
<1>5. CASE UNCHANGED vars
  BY <1>5, <1>c DEF vars, stream
<1> QED
  BY <1>1, <1>2, <1>3, <1>4, <1>5 DEF Next, Heartbeat

(* At the start nobody is connected.                                       *)
LEMMA InvInit == Init => TypeOK /\ NoGap
<1> SUFFICES ASSUME Init PROVE TypeOK /\ NoGap
  OBVIOUS
<1>1. <<>> \in Seq(Nat) /\ Len(<<>>) = 0
  OBVIOUS
<1>2. TypeOK
  BY <1>1, ConstantsAssumption DEF Init, TypeOK
<1>3. NoGap
  BY DEF Init, NoGap
<1> QED
  BY <1>2, <1>3

(* Type correctness; in particular no queue outgrows its bound.            *)
THEOREM TypeCorrect == Spec => []TypeOK
<1>1. Init => TypeOK
  BY InvInit
<1> QED
  BY <1>1, TypeStep, PTL DEF Spec

(* However publishing, delivery and slow connections interleave, a stream  *)
(* carries the events since it was opened without gap or repetition.       *)
THEOREM StreamsHaveNoGap == Spec => []NoGap
<1>1. TypeOK /\ NoGap /\ [Next]_vars => (TypeOK /\ NoGap)'
  BY TypeStep, NoGapStep
<1> QED
  BY <1>1, InvInit, PTL DEF Spec

-----------------------------------------------------------------------------
(* The streams *)

(* Every step of the console is a step of the event bus or leaves it alone.*)
LEMMA BusStep == ConsoleNext => [Next]_vars
<1> SUFFICES ASSUME ConsoleNext PROVE Next \/ UNCHANGED bus
  BY DEF bus, vars
<1>1. CASE Submit \/ Lock \/ Clock \/ RefreshAll \/ Interval \/ Visibility \/ Answer \/ Synchronize \/ RefreshFails \/ BodyStalls
  BY <1>1 DEF Submit, Lock, Clock, RefreshAll, Interval, Visibility, Answer, Synchronize, RefreshFails, BodyStalls
<1>2. CASE Events
  BY <1>2 DEF Events, Next
<1>3. ASSUME NEW c \in Clients, Handle(c) PROVE Next \/ UNCHANGED bus
  BY <1>3 DEF Handle, Connect, GiveUp, OpenSource, OnError, Message, Next
<1>4. ASSUME NEW c \in Clients, Serve(c) PROVE Next \/ UNCHANGED bus
  BY <1>4 DEF Serve, AskTicket, TicketThread, TicketFails, TicketComes, Admitted, Refused, Closed, Next
<1>5. ASSUME NEW c \in Clients, TicketLost(c) \/ Dropped(c) PROVE Next \/ UNCHANGED bus
  BY <1>5 DEF TicketLost, Dropped, Next
<1> QED
  BY <1>1, <1>2, <1>3, <1>4, <1>5 DEF ConsoleNext

(* The dashboard uses the event bus as EventBus specifies it.              *)
THEOREM ConsoleIsBus == ConsoleSpec => Spec
<1>1. ConsoleInit => Init
  BY DEF ConsoleInit
<1>2. [ConsoleNext]_allVars => [Next]_vars
  BY BusStep DEF allVars, bus, vars
<1> QED
  BY <1>1, <1>2, PTL DEF ConsoleSpec, Spec

(* So none of its streams has a gap, however they come and go.             *)
THEOREM ConsoleHasNoGap == ConsoleSpec => []NoGap
  BY ConsoleIsBus, StreamsHaveNoGap, PTL

-----------------------------------------------------------------------------
(* The reconnection *)

CallStates == {"idle", "asking", "waiting", "failed", "answered", "opening", "open",
               "refused", "dropped", "closed"}
AtWork == {"asking", "waiting", "failed", "answered"}

(* What the page's own variables hold.                                     *)
PageTypes ==
    /\ token \in BOOLEAN /\ timer \in BOOLEAN /\ pending \in Nat
    /\ source \in Clients \cup {None}
    /\ call \in [Clients -> CallStates]

(* Closing a stream touches no other call.                                 *)
LEMMA CloseType ==
    ASSUME PageTypes PROVE Close(source) \in [Clients -> CallStates]
  BY DEF PageTypes, Close, CallStates

(* The types, and that the page never gives up, are inductive: a call that *)
(* ends without a stream has started the timer or left its stream.         *)
LEMMA PageStep ==
    ASSUME PageTypes, NeverGivesUp, ConsoleNext PROVE PageTypes' /\ NeverGivesUp'
<1> USE DEF PageTypes, NeverGivesUp
<1>1. CASE Events \/ Clock \/ RefreshAll \/ Interval \/ Visibility \/ Answer \/ Synchronize \/ RefreshFails \/ BodyStalls
  BY <1>1 DEF Events, Clock, RefreshAll, Interval, Visibility, Answer, Synchronize, RefreshFails, BodyStalls, page
<1>2. CASE Submit
  BY <1>2 DEF Submit
<1>3. CASE Lock
  <2>1. pending' \in Nat
    BY <1>3 DEF Lock
  <2>2. ~token' /\ ~timer' /\ token' \in BOOLEAN /\ timer' \in BOOLEAN
    BY <1>3 DEF Lock
  <2>3. source' = None /\ call' \in [Clients -> CallStates]
    BY <1>3, CloseType DEF Lock
  <2> QED
    BY <2>1, <2>2, <2>3
<1>4. ASSUME NEW c \in Clients, Handle(c) PROVE PageTypes' /\ NeverGivesUp'
  <2>1. CASE Connect(c)
    <3>1. pending' \in Nat /\ timer' = FALSE /\ token' = token
      BY <2>1 DEF Connect
    <3>2. CASE token
      <4>1. /\ source' = None
            /\ call' \in [Clients -> CallStates] /\ call'[c] = "asking"
        BY <2>1, <3>2, CloseType DEF Connect, CallStates
      <4> QED
        BY <3>1, <4>1
    <3>3. CASE ~token
      <4>1. UNCHANGED <<source, call, token>> /\ ~token'
        BY <2>1, <3>3 DEF Connect
      <4> QED
        BY <3>1, <4>1
    <3> QED
      BY <3>2, <3>3
  <2>2. CASE GiveUp(c)
    BY <2>2 DEF GiveUp, Scheduled, CallStates
  <2>3. CASE OpenSource(c)
    BY <2>3, ConsoleAssumption DEF OpenSource, CallStates
  <2>4. CASE OnError(c)
    BY <2>4 DEF OnError, Scheduled, CallStates
  <2>5. CASE Message(c)
    BY <2>5, CloseType DEF Message
  <2> QED
    BY <1>4, <2>1, <2>2, <2>3, <2>4, <2>5 DEF Handle
<1>5. ASSUME NEW c \in Clients, Serve(c) PROVE PageTypes' /\ NeverGivesUp'
  <2>1. CASE AskTicket(c)
    BY <2>1 DEF AskTicket, CallStates
  <2>2. CASE TicketThread(c)
    BY <2>2 DEF TicketThread, page
  <2>3. CASE TicketFails(c) \/ TicketComes(c)
    BY <2>3 DEF TicketFails, TicketComes, CallStates
  <2>4. CASE Admitted(c) \/ Refused(c) \/ Closed(c)
    BY <2>4 DEF Admitted, Refused, Closed, CallStates
  <2> QED
    BY <1>5, <2>1, <2>2, <2>3, <2>4 DEF Serve
<1>6. ASSUME NEW c \in Clients, TicketLost(c) \/ Dropped(c) PROVE PageTypes' /\ NeverGivesUp'
  BY <1>6 DEF TicketLost, Dropped, CallStates
<1> QED
  BY <1>1, <1>2, <1>3, <1>4, <1>5, <1>6 DEF ConsoleNext

LEMMA PageInvariant == ConsoleSpec => [](PageTypes /\ NeverGivesUp)
<1>1. ASSUME ConsoleInit PROVE PageTypes /\ NeverGivesUp
  <2>1. pending \in Nat /\ source = None /\ call \in [Clients -> CallStates]
    BY <1>1 DEF ConsoleInit, PageInit, CallStates
  <2>2. ~token /\ token \in BOOLEAN /\ timer \in BOOLEAN
    BY <1>1 DEF ConsoleInit, PageInit
  <2> QED
    BY <2>1, <2>2 DEF PageTypes, NeverGivesUp
<1>2. PageTypes /\ NeverGivesUp /\ [ConsoleNext]_allVars => (PageTypes /\ NeverGivesUp)'
  BY PageStep DEF allVars, page, PageTypes, NeverGivesUp
<1> QED
  BY <1>1, <1>2, PTL DEF ConsoleSpec

(* A page that is logged in has a stream or is about to get one, however   *)
(* many calls of connectStream() overlap and fail.                         *)
THEOREM PageNeverGivesUp == ConsoleSpec => []NeverGivesUp
  BY PageInvariant, PTL

-----------------------------------------------------------------------------
(* The tickets *)

Jobs == [n: 0..MaxIssued, at: Nat, from: 0..MaxIssued, size: Nat]
Busy == {"filter", "assign", "add"}

TicketTypes ==
    /\ now \in Nat
    /\ dict \in [0..MaxIssued -> SUBSET (1..MaxIssued)] /\ current \in 0..MaxIssued
    /\ expiry \in [1..MaxIssued -> Nat]
    /\ requests \in 0..MaxIssued
    /\ pc \in [Clients -> {"idle", "filter", "assign", "add", "pop"}]
    /\ job \in [Clients -> Jobs]
    /\ issued \subseteq 1..MaxIssued /\ overlapped \subseteq issued

(* Nothing is known of a ticket before it is requested.                    *)
Bounded ==
    /\ current <= requests
    /\ \A k \in issued : k <= requests
    /\ \A t \in Clients : job[t].at <= now /\ job[t].from <= requests

(* A request in progress has a ticket of its own, not yet answered, and    *)
(* until it is assigned nobody else uses its dict.                         *)
Own(t) == job[t].n \in 1..requests /\ job[t].n \notin issued
FreshInv ==
    /\ \A t \in Clients : pc[t] \in Busy => Own(t)
    /\ \A t, u \in Clients : t # u /\ pc[t] \in Busy /\ pc[u] \in Busy => job[u].n # job[t].n
    /\ \A t \in Clients : pc[t] \in {"filter", "assign"} => current # job[t].n
    /\ \A t, u \in Clients : pc[t] \in {"filter", "assign"} /\ pc[u] = "filter" => job[u].from # job[t].n

(* The tickets that were issued while nothing else was at work, and have   *)
(* not expired: they are in the dict in use, and in those a request copies *)
(* from and is about to assign.                                            *)
Clean == {k \in issued \ overlapped : expiry[k] > now}
CleanInv ==
    /\ Clean \subseteq dict[current]
    /\ \A t \in Clients : pc[t] = "filter" => Clean \subseteq dict[job[t].from]
    /\ \A t \in Clients : pc[t] = "assign" => Clean \subseteq dict[job[t].n]
    /\ \A t \in Clients : pc[t] = "pop" => job[t].n \in issued /\ job[t].n \notin Clean

TicketInv == TicketTypes /\ Bounded /\ FreshInv /\ CleanInv

(* What a step of thread t does to pc and job.                             *)
Moves(t, to) ==
    /\ pc' \in [Clients -> {"idle", "filter", "assign", "add", "pop"}]
    /\ pc'[t] = to /\ \A u \in Clients \ {t} : pc'[u] = pc[u]
    /\ job' \in [Clients -> Jobs]
    /\ \A u \in Clients \ {t} : job'[u] = job[u]

LEMMA NoJobIsJob == Server!NoJob \in Jobs /\ Server!NoJob.at = 0 /\ Server!NoJob.from = 0
  BY ConsoleAssumption DEF Server!NoJob, Jobs

LEMMA Sizes == ASSUME TicketTypes PROVE \A d \in 0..MaxIssued : Cardinality(dict[d]) \in Nat
<1> TAKE d \in 0..MaxIssued
<1>1. IsFiniteSet(1..MaxIssued) /\ dict[d] \subseteq 1..MaxIssued
  BY ConsoleAssumption, FS_Interval DEF TicketTypes
<1> QED
  BY <1>1, FS_Subset, FS_CardinalityType

LEMMA RequestStep ==
    ASSUME TicketInv, NEW t \in Clients, Server!Request(t) PROVE TicketInv'
<1> USE ConsoleAssumption DEF TicketInv, Busy
<1> DEFINE new == [n |-> requests + 1, at |-> now, from |-> current, size |-> Cardinality(dict[current])]
<1>1. /\ pc[t] = "idle" /\ requests < MaxIssued /\ requests' = requests + 1
      /\ UNCHANGED <<now, dict, current, expiry, issued, overlapped>>
  BY DEF Server!Request
<1>2. requests + 1 \in 1..MaxIssued
  BY <1>1 DEF TicketTypes
<1>3. new \in Jobs
  BY <1>2, Sizes DEF TicketTypes, Jobs
<1>4. Moves(t, "filter") /\ job'[t] = new
  <2>1. pc' = [pc EXCEPT ![t] = "filter"]
    BY DEF Server!Request
  <2>2. job' = [job EXCEPT ![t] = new]
    BY DEF Server!Request, Server!Cardinality, Cardinality
  <2> HIDE DEF new
  <2> QED
    BY <1>3, <2>1, <2>2 DEF Moves, TicketTypes
<1>5. TicketTypes'
  BY <1>1, <1>2, <1>4 DEF TicketTypes, Moves
<1> HIDE DEF new
<1>6. job'[t].n = requests + 1 /\ job'[t].at = now /\ job'[t].from = current
  BY <1>4 DEF new
<1>7. Bounded'
  <2>1. current <= requests + 1 /\ \A k \in issued : k <= requests + 1
    BY DEF TicketTypes, Bounded
  <2>2. \A u \in Clients : job'[u].at <= now /\ job'[u].from <= requests + 1
    <3> TAKE u \in Clients
    <3>1. job[u].at <= now /\ job[u].from <= requests /\ job[u].from \in Nat /\ requests \in Nat
          /\ now \in Nat /\ current <= requests /\ current \in Nat
      BY DEF TicketTypes, Bounded, Jobs
    <3>2. CASE u = t
      BY <1>6, <3>1, <3>2
    <3>3. CASE u # t
      <4>1. job'[u] = job[u]
        BY <1>4, <3>3 DEF Moves
      <4> QED
        BY <3>1, <4>1
    <3> QED
      BY <3>2, <3>3
  <2> QED
    BY <1>1, <2>1, <2>2 DEF Bounded
<1>8. \A u \in Clients : job[u].n \in 0..MaxIssued
  BY DEF TicketTypes, Jobs
<1>9. FreshInv'
  <2>1. \A u \in Clients : pc'[u] \in Busy => Own(u)'
    BY <1>1, <1>2, <1>4, <1>6, <1>8 DEF TicketTypes, Bounded, FreshInv, Moves, Own
  <2>2. \A u, v \in Clients : u # v /\ pc'[u] \in Busy /\ pc'[v] \in Busy => job'[v].n # job'[u].n
    BY <1>1, <1>4, <1>6, <1>8 DEF TicketTypes, FreshInv, Moves, Own
  <2>3. \A u \in Clients : pc'[u] \in {"filter", "assign"} => current' # job'[u].n
    BY <1>1, <1>4, <1>6 DEF TicketTypes, Bounded, FreshInv, Moves
  <2>4. \A u, v \in Clients : pc'[u] \in {"filter", "assign"} /\ pc'[v] = "filter" => job'[v].from # job'[u].n
    <3> TAKE u, v \in Clients
    <3>1. job[v].from <= requests /\ current <= requests /\ job[v].from \in Nat /\ current \in Nat /\ requests \in Nat
      BY DEF Bounded, TicketTypes, Jobs
    <3>2. CASE u = t
      BY <1>4, <1>6, <3>1, <3>2 DEF Moves
    <3>3. CASE u # t /\ v = t
      BY <1>4, <1>6, <3>3 DEF Moves, FreshInv
    <3>4. CASE u # t /\ v # t
      BY <1>4, <3>4 DEF Moves, FreshInv
    <3> QED
      BY <3>2, <3>3, <3>4
  <2> QED
    BY <2>1, <2>2, <2>3, <2>4 DEF FreshInv
<1>10. Clean' = Clean
  BY <1>1 DEF Clean
<1>11. CleanInv'
  BY <1>1, <1>4, <1>6, <1>10 DEF CleanInv, Moves
<1> QED
  BY <1>5, <1>7, <1>9, <1>11

LEMMA FilterStep ==
    ASSUME TicketInv, NEW t \in Clients, Server!Filter(t) PROVE TicketInv'
<1> USE ConsoleAssumption DEF TicketInv, Busy
<1> DEFINE n == job[t].n
           kept == {k \in dict[job[t].from] : expiry[k] > job[t].at}
<1>1. /\ pc[t] = "filter" /\ UNCHANGED <<now, current, expiry, requests, job, issued, overlapped>>
      /\ dict' = [dict EXCEPT ![n] = kept]
  BY DEF Server!Filter, Server!Kept
<1>2. Moves(t, "assign")
  BY <1>1 DEF Server!Filter, Moves, TicketTypes
<1>3. job[t].from \in 0..MaxIssued /\ n \in 0..MaxIssued /\ job[t].at \in Nat /\ job[t].at <= now
  BY DEF TicketTypes, Jobs, Bounded
<1>4. kept \in SUBSET (1..MaxIssued)
  BY <1>3 DEF TicketTypes
<1> HIDE DEF kept
<1>5. /\ dict' \in [0..MaxIssued -> SUBSET (1..MaxIssued)] /\ dict'[n] = kept
      /\ \A d \in 0..MaxIssued : d # n => dict'[d] = dict[d]
  BY <1>1, <1>3, <1>4 DEF TicketTypes
<1>6. TicketTypes'
  BY <1>1, <1>2, <1>5 DEF TicketTypes, Moves
<1>7. Bounded'
  BY <1>1 DEF Bounded
<1>8. FreshInv'
  BY <1>1, <1>2 DEF FreshInv, Moves, Own
<1>9. Clean' = Clean
  BY <1>1 DEF Clean
<1>10. Clean \subseteq kept
  <2> SUFFICES ASSUME NEW k \in Clean PROVE k \in kept
    OBVIOUS
  <2>1. k \in dict[job[t].from]
    BY <1>1 DEF CleanInv
  <2>2. k \in 1..MaxIssued /\ expiry[k] \in Nat /\ expiry[k] > now /\ now \in Nat
    BY DEF Clean, TicketTypes
  <2> QED
    BY <1>3, <2>1, <2>2 DEF kept
<1>11. CleanInv'
  <2>1. Clean \subseteq dict'[current']
    BY <1>1, <1>5 DEF FreshInv, TicketTypes, CleanInv
  <2>2. \A u \in Clients : pc'[u] = "filter" => Clean \subseteq dict'[job'[u].from]
    <3> SUFFICES ASSUME NEW u \in Clients, pc'[u] = "filter" PROVE Clean \subseteq dict'[job[u].from]
      BY <1>1
    <3>1. pc[u] = "filter"
      BY <1>2 DEF Moves
    <3>2. job[u].from # n /\ job[u].from \in 0..MaxIssued /\ Clean \subseteq dict[job[u].from]
      BY <1>1, <3>1 DEF FreshInv, CleanInv, TicketTypes, Jobs
    <3> QED
      BY <1>5, <3>2
  <2>3. \A u \in Clients : pc'[u] = "assign" => Clean \subseteq dict'[job'[u].n]
    <3> SUFFICES ASSUME NEW u \in Clients, pc'[u] = "assign", u # t PROVE Clean \subseteq dict'[job[u].n]
      BY <1>1, <1>5, <1>10
    <3>1. pc[u] = "assign"
      BY <1>2 DEF Moves
    <3>2. job[u].n # n /\ job[u].n \in 0..MaxIssued /\ Clean \subseteq dict[job[u].n]
      BY <1>1, <3>1 DEF FreshInv, CleanInv, TicketTypes, Jobs
    <3> QED
      BY <1>5, <3>2
  <2>4. \A u \in Clients : pc'[u] = "pop" => job'[u].n \in issued' /\ job'[u].n \notin Clean
    BY <1>1, <1>2 DEF CleanInv, Moves
  <2> QED
    BY <1>9, <2>1, <2>2, <2>3, <2>4 DEF CleanInv
<1> QED
  BY <1>6, <1>7, <1>8, <1>11

(* A thread that ends with its step.                                       *)
LEMMA EndMoves ==
    ASSUME TicketTypes, NEW t \in Clients, pc' = [pc EXCEPT ![t] = "idle"],
           job' = [job EXCEPT ![t] = Server!NoJob]
    PROVE  Moves(t, "idle") /\ job'[t].at = 0 /\ job'[t].from = 0
  BY NoJobIsJob DEF Moves, TicketTypes

LEMMA FilterFailsStep ==
    ASSUME TicketInv, NEW t \in Clients, Server!FilterFails(t) PROVE TicketInv'
<1> USE ConsoleAssumption DEF TicketInv, Busy
<1>1. UNCHANGED <<now, dict, current, expiry, requests, issued, overlapped>>
  BY DEF Server!FilterFails
<1>2. Moves(t, "idle") /\ job'[t].at = 0 /\ job'[t].from = 0
  BY EndMoves DEF Server!FilterFails
<1>3. TicketTypes'
  BY <1>1, <1>2 DEF TicketTypes, Moves
<1>4. Bounded'
  BY <1>1, <1>2 DEF TicketTypes, Bounded, Moves
<1>5. FreshInv'
  BY <1>1, <1>2 DEF FreshInv, Moves, Own
<1>6. CleanInv'
  BY <1>1, <1>2 DEF CleanInv, Moves, Clean
<1> QED
  BY <1>3, <1>4, <1>5, <1>6

LEMMA AssignStep ==
    ASSUME TicketInv, NEW t \in Clients, Server!Assign(t) PROVE TicketInv'
<1> USE ConsoleAssumption DEF TicketInv, Busy
<1>1. /\ pc[t] = "assign" /\ current' = job[t].n
      /\ UNCHANGED <<now, dict, expiry, requests, job, issued, overlapped>>
  BY DEF Server!Assign
<1>2. Moves(t, "add")
  BY DEF Server!Assign, Moves, TicketTypes
<1>3. TicketTypes'
  BY <1>1, <1>2 DEF TicketTypes, Moves, Jobs
<1>4. Bounded'
  BY <1>1 DEF Bounded, FreshInv, Own
<1>5. FreshInv'
  <2>1. \A u \in Clients : pc'[u] \in Busy => Own(u)'
    BY <1>1, <1>2 DEF FreshInv, Moves, Own
  <2>2. \A u, v \in Clients : u # v /\ pc'[u] \in Busy /\ pc'[v] \in Busy => job'[v].n # job'[u].n
    BY <1>1, <1>2 DEF FreshInv, Moves
  <2>3. \A u \in Clients : pc'[u] \in {"filter", "assign"} => current' # job'[u].n
    BY <1>1, <1>2 DEF FreshInv, Moves
  <2>4. \A u, v \in Clients : pc'[u] \in {"filter", "assign"} /\ pc'[v] = "filter" => job'[v].from # job'[u].n
    BY <1>1, <1>2 DEF FreshInv, Moves
  <2> QED
    BY <2>1, <2>2, <2>3, <2>4 DEF FreshInv
<1>6. CleanInv'
  BY <1>1, <1>2 DEF CleanInv, Moves, Clean
<1> QED
  BY <1>3, <1>4, <1>5, <1>6

LEMMA AddStep ==
    ASSUME TicketInv, NEW t \in Clients, Server!Add(t) PROVE TicketInv'
<1> USE ConsoleAssumption DEF TicketInv, Busy
<1> DEFINE n == job[t].n
<1>1. /\ pc[t] = "add" /\ issued' = issued \cup {n}
      /\ dict' = [dict EXCEPT ![current] = @ \cup {n}]
      /\ expiry' = [expiry EXCEPT ![n] = job[t].at + Lifetime]
      /\ UNCHANGED <<now, current, requests>>
  BY DEF Server!Add, Server!Expiry
<1>2. overlapped' = overlapped \/ overlapped' = overlapped \cup {n}
  BY DEF Server!Add
<1>3. Moves(t, "idle") /\ job'[t].at = 0 /\ job'[t].from = 0
  BY EndMoves DEF Server!Add
<1>4. n \in 1..requests /\ n \notin issued /\ n \in 1..MaxIssued
  BY <1>1 DEF FreshInv, Own, TicketTypes
<1>5. /\ expiry' \in [1..MaxIssued -> Nat]
      /\ \A k \in 1..MaxIssued : k # n => expiry'[k] = expiry[k]
  <2>1. job[t].at + Lifetime \in Nat
    BY DEF TicketTypes, Jobs
  <2> QED
    BY <1>1, <2>1 DEF TicketTypes
<1>6. /\ dict' \in [0..MaxIssued -> SUBSET (1..MaxIssued)]
      /\ \A d \in 0..MaxIssued : dict[d] \subseteq dict'[d]
      /\ n \in dict'[current]
  BY <1>1, <1>4 DEF TicketTypes
<1>7. TicketTypes'
  BY <1>1, <1>2, <1>3, <1>4, <1>5, <1>6 DEF TicketTypes, Moves
<1>8. Bounded'
  <2>1. \A u \in Clients : job'[u].at <= now /\ job'[u].from <= requests
    <3> TAKE u \in Clients
    <3>1. CASE u = t
      BY <1>3, <3>1 DEF TicketTypes
    <3>2. CASE u # t
      BY <1>3, <3>2 DEF Bounded, Moves
    <3> QED
      BY <3>1, <3>2
  <2>2. n <= requests /\ \A k \in issued' : k \in issued \/ k = n
    BY <1>1, <1>4
  <2>3. \A k \in issued' : k <= requests'
    BY <1>1, <2>2 DEF Bounded
  <2> QED
    BY <1>1, <2>1, <2>3 DEF Bounded
<1>9. FreshInv'
  <2>1. \A u \in Clients : pc'[u] \in Busy => Own(u)'
    BY <1>1, <1>3 DEF FreshInv, Moves, Own
  <2>2. \A u, v \in Clients : u # v /\ pc'[u] \in Busy /\ pc'[v] \in Busy => job'[v].n # job'[u].n
    BY <1>3 DEF FreshInv, Moves
  <2>3. \A u \in Clients : pc'[u] \in {"filter", "assign"} => current' # job'[u].n
    BY <1>1, <1>3 DEF FreshInv, Moves
  <2>4. \A u, v \in Clients : pc'[u] \in {"filter", "assign"} /\ pc'[v] = "filter" => job'[v].from # job'[u].n
    BY <1>3 DEF FreshInv, Moves
  <2> QED
    BY <2>1, <2>2, <2>3, <2>4 DEF FreshInv
<1>10. Clean' \subseteq Clean \cup {n}
  BY <1>1, <1>2, <1>5 DEF TicketTypes, Clean
<1>11. ASSUME n \in Clean', NEW u \in Clients, u # t
       PROVE  pc[u] \notin Busy
  <2>1. n \notin overlapped'
    BY <1>11 DEF Clean
  <2>2. Server!Issuing = {t}
    BY <2>1 DEF Server!Add
  <2> QED
    BY <1>11, <2>2 DEF Server!Issuing
<1>12. CleanInv'
  <2>1. Clean' \subseteq dict'[current']
    BY <1>1, <1>6, <1>10 DEF CleanInv, TicketTypes
  <2>2. \A u \in Clients : pc'[u] = "filter" => Clean' \subseteq dict'[job'[u].from]
    <3> SUFFICES ASSUME NEW u \in Clients, pc'[u] = "filter" PROVE Clean' \subseteq dict'[job'[u].from]
      OBVIOUS
    <3>1. u # t /\ pc[u] = "filter" /\ job'[u] = job[u]
      BY <1>3 DEF Moves
    <3>2. n \notin Clean' /\ Clean \subseteq dict[job[u].from] /\ job[u].from \in 0..MaxIssued
      BY <1>11, <3>1 DEF CleanInv, TicketTypes, Jobs
    <3> QED
      BY <1>6, <1>10, <3>1, <3>2
  <2>3. \A u \in Clients : pc'[u] = "assign" => Clean' \subseteq dict'[job'[u].n]
    <3> SUFFICES ASSUME NEW u \in Clients, pc'[u] = "assign" PROVE Clean' \subseteq dict'[job'[u].n]
      OBVIOUS
    <3>1. u # t /\ pc[u] = "assign" /\ job'[u] = job[u]
      BY <1>3 DEF Moves
    <3>2. n \notin Clean' /\ Clean \subseteq dict[job[u].n] /\ job[u].n \in 0..MaxIssued
      BY <1>11, <3>1 DEF CleanInv, TicketTypes, Jobs
    <3> QED
      BY <1>6, <1>10, <3>1, <3>2
  <2>4. \A u \in Clients : pc'[u] = "pop" => job'[u].n \in issued' /\ job'[u].n \notin Clean'
    BY <1>1, <1>3, <1>4, <1>10 DEF CleanInv, Moves
  <2> QED
    BY <2>1, <2>2, <2>3, <2>4 DEF CleanInv
<1> QED
  BY <1>7, <1>8, <1>9, <1>12

LEMMA PopStep ==
    ASSUME TicketInv, NEW t \in Clients, Server!Pop(t) PROVE TicketInv'
<1> USE ConsoleAssumption DEF TicketInv, Busy
<1>1. /\ pc[t] = "pop" /\ dict' = [dict EXCEPT ![current] = @ \ {job[t].n}]
      /\ UNCHANGED <<now, current, expiry, requests, issued, overlapped>>
  BY DEF Server!Pop
<1>2. Moves(t, "idle") /\ job'[t].at = 0 /\ job'[t].from = 0
  BY EndMoves DEF Server!Pop
<1>3. dict' \in [0..MaxIssued -> SUBSET (1..MaxIssued)]
  BY <1>1 DEF TicketTypes
<1>4. \A d \in 0..MaxIssued : dict[d] \ {job[t].n} \subseteq dict'[d]
  BY <1>1 DEF TicketTypes
<1>5. TicketTypes'
  BY <1>1, <1>2, <1>3 DEF TicketTypes, Moves
<1>6. Bounded'
  <2>1. \A u \in Clients : job'[u].at <= now /\ job'[u].from <= requests
    <3> TAKE u \in Clients
    <3>1. CASE u = t
      BY <1>2, <3>1 DEF TicketTypes
    <3>2. CASE u # t
      BY <1>2, <3>2 DEF Bounded, Moves
    <3> QED
      BY <3>1, <3>2
  <2> QED
    BY <1>1, <2>1 DEF Bounded
<1>7. FreshInv'
  BY <1>1, <1>2 DEF FreshInv, Moves, Own
<1>8. Clean' = Clean /\ job[t].n \notin Clean
  BY <1>1 DEF CleanInv, Clean
<1>9. \A d \in 0..MaxIssued : Clean \subseteq dict[d] => Clean \subseteq dict'[d]
  BY <1>4, <1>8
<1>10. CleanInv'
  BY <1>1, <1>2, <1>8, <1>9 DEF CleanInv, Moves, TicketTypes, Jobs
<1> QED
  BY <1>5, <1>6, <1>7, <1>10

LEMMA RefuseStep ==
    ASSUME TicketInv, NEW t \in Clients, NEW k \in 1..MaxIssued, Server!Refuse(t, k) PROVE TicketInv'
<1> USE ConsoleAssumption DEF TicketInv, Busy
<1>1. /\ pc[t] = "idle" /\ k \in issued
      /\ UNCHANGED <<now, dict, current, expiry, requests, issued, overlapped>>
  BY DEF Server!Refuse
<1>2. Moves(t, "pop") /\ job'[t].n = k /\ job'[t].at = job[t].at /\ job'[t].from = job[t].from
  <2>1. [job[t] EXCEPT !.n = k] \in Jobs
    <3>1. job[t] \in Jobs
      BY DEF TicketTypes
    <3> QED
      BY <3>1 DEF Jobs
  <2>2. job' = [job EXCEPT ![t] = [job[t] EXCEPT !.n = k]]
    BY DEF Server!Refuse
  <2>3. Moves(t, "pop") /\ job'[t] = [job[t] EXCEPT !.n = k]
    BY <2>1, <2>2 DEF Server!Refuse, Moves, TicketTypes
  <2> QED
    BY <2>3 DEF TicketTypes, Jobs
<1>3. k \notin Clean
  BY DEF Server!Refuse, Server!IsGood, CleanInv, Clean, TicketTypes
<1>4. TicketTypes'
  BY <1>1, <1>2 DEF TicketTypes, Moves
<1>5. Bounded'
  BY <1>1, <1>2 DEF Bounded, Moves
<1>6. FreshInv'
  BY <1>1, <1>2 DEF FreshInv, Moves, Own
<1>7. Clean' = Clean
  BY <1>1 DEF Clean
<1>8. CleanInv'
  BY <1>1, <1>2, <1>3, <1>7 DEF CleanInv, Moves
<1> QED
  BY <1>4, <1>5, <1>6, <1>8

LEMMA TickStep == ASSUME TicketInv, Server!Tick PROVE TicketInv'
<1> USE ConsoleAssumption DEF TicketInv, Busy
<1>1. /\ now' = now + 1
      /\ UNCHANGED <<dict, current, expiry, requests, pc, job, issued, overlapped>>
  BY DEF Server!Tick
<1>2. TicketTypes'
  BY <1>1 DEF TicketTypes
<1>3. Bounded'
  BY <1>1 DEF TicketTypes, Bounded, Jobs
<1>4. FreshInv'
  BY <1>1 DEF FreshInv, Own
<1>5. Clean' \subseteq Clean
  <2> SUFFICES ASSUME NEW k \in Clean' PROVE k \in Clean
    OBVIOUS
  <2>1. k \in issued \ overlapped /\ expiry[k] > now + 1
    BY <1>1 DEF Clean
  <2>2. expiry[k] \in Nat /\ now \in Nat
    BY <2>1 DEF TicketTypes
  <2> QED
    BY <2>1, <2>2 DEF Clean
<1>6. CleanInv'
  BY <1>1, <1>5 DEF CleanInv
<1> QED
  BY <1>2, <1>3, <1>4, <1>6

LEMMA TicketStutter ==
    ASSUME TicketInv, UNCHANGED <<now, dict, current, expiry, requests, pc, job, issued, overlapped>>
    PROVE  TicketInv'
  BY DEF TicketInv, TicketTypes, Bounded, FreshInv, Own, CleanInv, Clean

-----------------------------------------------------------------------------
(* The tickets of the calls *)

(* A step of the console does at most one thing to the tickets.            *)
Steps(t) ==
    \/ Server!Request(t) \/ Server!Filter(t) \/ Server!FilterFails(t)
    \/ Server!Assign(t) \/ Server!Add(t) \/ Server!Pop(t)
    \/ \E k \in 1..MaxIssued : Server!Refuse(t, k)
Idles == UNCHANGED <<now, dict, current, expiry, requests, pc, job, issued, overlapped>>

(* What was answered stays answered, and why it may be refused stays true. *)
Grows ==
    /\ issued \subseteq issued' /\ overlapped \subseteq overlapped' /\ now <= now'
    /\ \A k \in issued : expiry'[k] = expiry[k]

LEMMA TicketStep ==
    ASSUME TicketInv, (\E t \in Clients : Steps(t)) \/ Server!Tick \/ Idles
    PROVE  TicketInv'
  BY RequestStep, FilterStep, FilterFailsStep, AssignStep, AddStep, PopStep, RefuseStep,
     TickStep, TicketStutter DEF Steps, Idles

LEMMA TicketGrows ==
    ASSUME TicketInv, (\E t \in Clients : Steps(t)) \/ Server!Tick \/ Idles
    PROVE  Grows
<1> USE DEF TicketInv
<1>1. CASE Server!Tick \/ Idles
  <2>1. now \in Nat /\ (now' = now \/ now' = now + 1) /\ UNCHANGED <<issued, overlapped, expiry>>
    BY <1>1 DEF Server!Tick, Idles, TicketTypes
  <2> QED
    BY <2>1 DEF Grows
<1>2. ASSUME NEW t \in Clients, Steps(t) PROVE Grows
  <2>1. CASE Server!Add(t)
    <3>1. /\ issued' = issued \cup {job[t].n} /\ overlapped \subseteq overlapped' /\ now' = now
          /\ expiry' = [expiry EXCEPT ![job[t].n] = job[t].at + Lifetime]
      BY <2>1 DEF Server!Add, Server!Expiry
    <3>2. job[t].n \notin issued
      BY <2>1 DEF Server!Add, FreshInv, Busy, Own
    <3> QED
      BY <3>1, <3>2 DEF Grows, TicketTypes
  <2>2. CASE ~Server!Add(t)
    <3>1. UNCHANGED <<now, expiry, issued, overlapped>>
      BY <1>2, <2>2 DEF Steps, Server!Request, Server!Filter, Server!FilterFails,
                        Server!Assign, Server!Pop, Server!Refuse
    <3> QED
      BY <3>1 DEF Grows, TicketTypes
  <2> QED
    BY <2>1, <2>2
<1> QED
  BY <1>1, <1>2

LEMMA ConsoleTickets ==
    ASSUME TicketInv, ConsoleNext PROVE (\E t \in Clients : Steps(t)) \/ Server!Tick \/ Idles
<1>1. CASE Submit \/ Lock \/ Events \/ RefreshAll \/ Interval \/ Visibility \/ Answer \/ Synchronize \/ RefreshFails \/ BodyStalls
  BY <1>1 DEF Submit, Lock, Events, RefreshAll, Interval, Visibility, Answer, Synchronize, RefreshFails, BodyStalls, server, Idles
<1>2. CASE Clock
  BY <1>2 DEF Clock
<1>3. ASSUME NEW c \in Clients, Handle(c) PROVE Idles
  BY <1>3 DEF Handle, Connect, GiveUp, OpenSource, OnError, Message, server, Idles
<1>4. ASSUME NEW c \in Clients, Serve(c) PROVE Steps(c) \/ Idles
  <2>1. CASE Refused(c)
    <3>1. Server!Refuse(c, ticket[c]) /\ ticket[c] \in 1..MaxIssued
      BY <2>1 DEF Refused, Server!Refuse, TicketInv, TicketTypes
    <3> QED
      BY <3>1 DEF Steps
  <2>2. CASE Admitted(c) \/ Closed(c)
    BY <2>2 DEF Admitted, Closed, Server!Admit, server, Idles
  <2>3. CASE AskTicket(c) \/ TicketThread(c) \/ TicketFails(c) \/ TicketComes(c)
    BY <2>3 DEF AskTicket, TicketThread, TicketFails, TicketComes, Steps
  <2> QED
    BY <1>4, <2>1, <2>2, <2>3 DEF Serve
<1>5. ASSUME NEW c \in Clients, TicketLost(c) \/ Dropped(c) PROVE Idles
  BY <1>5 DEF TicketLost, Dropped, server, Idles
<1> QED
  BY <1>1, <1>2, <1>3, <1>4, <1>5 DEF ConsoleNext

(* A call that has been answered holds a ticket of the server.             *)
Answered == {"answered", "opening", "open", "refused", "dropped"}
HoldsTicket == \A c \in Clients : call[c] \in Answered => ticket[c] \in issued
TicketType == ticket \in [Clients -> Nat]
CallInv == TicketType /\ HoldsTicket /\ RefusedOnlyForCause

(* What is true of the call c alone.                                       *)
Holds(c) ==
    /\ call[c] \in Answered => ticket[c] \in issued
    /\ call[c] = "refused" => ticket[c] \in overlapped \/ expiry[ticket[c]] <= now

LEMMA HoldsStays ==
    ASSUME TicketInv, TicketInv', Grows, NEW c \in Clients, Holds(c), ticket'[c] = ticket[c],
           call'[c] \in Answered => call[c] \in Answered,
           call'[c] = "refused" => call[c] = "refused"
    PROVE  Holds(c)'
<1>1. call'[c] \in Answered => ticket'[c] \in issued'
  BY DEF Holds, Grows
<1>2. ASSUME call'[c] = "refused" PROVE ticket'[c] \in overlapped' \/ expiry'[ticket'[c]] <= now'
  <2>1. ticket[c] \in issued /\ (ticket[c] \in overlapped \/ expiry[ticket[c]] <= now)
    BY <1>2 DEF Holds, Answered
  <2>2. expiry[ticket[c]] \in Nat /\ now \in Nat /\ now' \in Nat
    BY <2>1 DEF TicketInv, TicketTypes
  <2> QED
    BY <2>1, <2>2 DEF Grows
<1> QED
  BY <1>1, <1>2 DEF Holds

(* Closing the page's stream answers no call.                              *)
LEMMA CloseHolds ==
    ASSUME PageTypes, NEW c \in Clients
    PROVE  Close(source)[c] \in {call[c], "closed", "idle"}
  BY DEF PageTypes, Close

LEMMA HoldsStep ==
    ASSUME TicketInv, TicketInv', Grows, PageTypes, CallInv, ConsoleNext,
           NEW d \in Clients
    PROVE  Holds(d)'
<1> USE DEF PageTypes
<1>0. Holds(d)
  BY DEF CallInv, HoldsTicket, RefusedOnlyForCause, Holds
<1>1. CASE /\ ticket'[d] = ticket[d]
           /\ call'[d] \in Answered => call[d] \in Answered
           /\ call'[d] = "refused" => call[d] = "refused"
  BY <1>0, <1>1, HoldsStays
<1>2. CASE Submit \/ Events \/ Clock \/ RefreshAll \/ Interval \/ Visibility \/ Answer \/ Synchronize \/ RefreshFails \/ BodyStalls
  BY <1>1, <1>2 DEF Submit, Events, Clock, RefreshAll, Interval, Visibility, Answer, Synchronize, RefreshFails, BodyStalls, page
<1>3. CASE Lock
  BY <1>1, <1>3, CloseHolds DEF Lock, Answered
<1>4. ASSUME NEW c \in Clients, Handle(c) PROVE Holds(d)'
  <2>1. CASE Connect(c)
    <3>1. ticket' = ticket
      BY <2>1 DEF Connect
    <3>2. call'[d] \in {call[d], "closed", "idle", "asking"}
      <4>1. CASE token
        <5>1. call' = [Close(source) EXCEPT ![c] = "asking"]
          BY <2>1, <4>1 DEF Connect
        <5> QED
          BY <5>1, CloseType, CloseHolds
      <4> QED
        BY <2>1, <4>1 DEF Connect
    <3> QED
      BY <1>1, <3>1, <3>2 DEF Answered
  <2>2. CASE GiveUp(c)
    BY <1>1, <2>2 DEF GiveUp, Answered
  <2>3. CASE OpenSource(c)
    BY <1>1, <2>3 DEF OpenSource, Answered
  <2>4. CASE OnError(c)
    BY <1>1, <2>4 DEF OnError, Answered
  <2>5. CASE Message(c)
    BY <1>1, <2>5, CloseHolds DEF Message, Answered
  <2> QED
    BY <1>4, <2>1, <2>2, <2>3, <2>4, <2>5 DEF Handle
<1>5. ASSUME NEW c \in Clients, Serve(c) PROVE Holds(d)'
  <2>1. CASE AskTicket(c)
    BY <1>1, <2>1 DEF AskTicket, Answered
  <2>2. CASE TicketThread(c)
    BY <1>1, <2>2 DEF TicketThread, page
  <2>3. CASE TicketFails(c)
    BY <1>1, <2>3 DEF TicketFails, Answered
  <2>4. CASE TicketComes(c)
    <3>1. CASE d = c /\ call[c] = "waiting"
      <4>1. call'[d] = "answered" /\ ticket'[d] = job[c].n
        BY <2>4, <3>1 DEF TicketComes, CallInv, TicketType
      <4>2. job[c].n \in issued'
        BY <2>4 DEF TicketComes, Server!Add
      <4> QED
        BY <4>1, <4>2 DEF Holds
    <3>2. CASE ~(d = c /\ call[c] = "waiting")
      BY <1>1, <2>4, <3>2 DEF TicketComes, CallInv, TicketType
    <3> QED
      BY <3>1, <3>2
  <2>5. CASE Refused(c)
    <3>1. CASE d = c
      <4>1. ticket[c] \in issued /\ ~Server!IsGood(ticket[c]) /\ ticket' = ticket
            /\ UNCHANGED <<now, issued, overlapped, expiry>>
        BY <2>5 DEF Refused, Server!Refuse
      <4>2. ticket[c] \notin Clean
        BY <4>1 DEF Server!IsGood, TicketInv, TicketTypes, CleanInv, Clean
      <4>3. expiry[ticket[c]] \in Nat /\ now \in Nat
        BY <4>1 DEF TicketInv, TicketTypes
      <4> QED
        BY <3>1, <4>1, <4>2, <4>3 DEF Holds, Clean
    <3>2. CASE d # c
      BY <1>1, <2>5, <3>2 DEF Refused
    <3> QED
      BY <3>1, <3>2
  <2>6. CASE Admitted(c) \/ Closed(c)
    BY <1>1, <2>6 DEF Admitted, Closed, Answered
  <2> QED
    BY <1>5, <2>1, <2>2, <2>3, <2>4, <2>5, <2>6 DEF Serve
<1>6. ASSUME NEW c \in Clients, TicketLost(c) \/ Dropped(c) PROVE Holds(d)'
  BY <1>1, <1>6 DEF TicketLost, Dropped, Answered
<1> QED
  BY <1>2, <1>3, <1>4, <1>5, <1>6 DEF ConsoleNext

LEMMA TicketTypeStep ==
    ASSUME TicketInv, TicketType, ConsoleNext PROVE TicketType'
<1> USE DEF TicketType
<1>1. CASE Submit \/ Lock \/ Events \/ Clock \/ RefreshAll \/ Interval \/ Visibility \/ Answer \/ Synchronize \/ RefreshFails \/ BodyStalls
  BY <1>1 DEF Submit, Lock, Events, Clock, RefreshAll, Interval, Visibility, Answer, Synchronize, RefreshFails, BodyStalls, page
<1>2. ASSUME NEW c \in Clients, Handle(c) \/ TicketLost(c) \/ Dropped(c) PROVE TicketType'
  BY <1>2 DEF Handle, Connect, GiveUp, OpenSource, OnError, Message, TicketLost, Dropped
<1>3. ASSUME NEW c \in Clients, TicketComes(c) PROVE TicketType'
  <2>1. job[c].n \in Nat
    BY DEF TicketInv, TicketTypes, Jobs
  <2> QED
    BY <1>3, <2>1 DEF TicketComes
<1>4. ASSUME NEW c \in Clients, Serve(c), ~TicketComes(c) PROVE TicketType'
  BY <1>4 DEF Serve, AskTicket, TicketThread, TicketFails, Admitted, Refused, Closed, page
<1> QED
  BY <1>1, <1>2, <1>3, <1>4 DEF ConsoleNext

(* A ticket is refused only because it expires, or because another request *)
(* was at work while it was issued, for any number of overlapping calls.   *)
THEOREM RefusedForCause == ConsoleSpec => []RefusedOnlyForCause
<1> DEFINE Inv == TicketInv /\ CallInv
<1>1. ConsoleInit => Inv
  <2> SUFFICES ASSUME ConsoleInit PROVE Inv
    OBVIOUS
  <2> USE ConsoleAssumption DEF ConsoleInit, Server!Init, Server!Tickets, Server!Dicts, PageInit
  <2>1. TicketTypes
    <3>1. \A c \in Clients : job[c] \in Jobs
      BY NoJobIsJob
    <3> QED
      BY <3>1, NoJobIsJob DEF TicketTypes
  <2>2. Bounded
    BY NoJobIsJob DEF Bounded
  <2>3. FreshInv /\ CleanInv
    BY DEF FreshInv, CleanInv, Clean, Busy
  <2>4. CallInv
    BY DEF CallInv, TicketType, HoldsTicket, RefusedOnlyForCause, Answered
  <2> QED
    BY <2>1, <2>2, <2>3, <2>4 DEF TicketInv
<1>2. PageTypes /\ Inv /\ [ConsoleNext]_allVars => Inv'
  <2> SUFFICES ASSUME PageTypes, Inv, [ConsoleNext]_allVars PROVE Inv'
    OBVIOUS
  <2>1. CASE ConsoleNext
    <3>1. TicketInv' /\ Grows
      BY <2>1, ConsoleTickets, TicketStep, TicketGrows
    <3>2. \A d \in Clients : Holds(d)'
      BY <2>1, <3>1, HoldsStep
    <3>3. CallInv'
      BY <2>1, <3>2, TicketTypeStep DEF Holds, CallInv, HoldsTicket, RefusedOnlyForCause
    <3> QED
      BY <3>1, <3>3
  <2>2. CASE UNCHANGED allVars
    <3>1. TicketInv'
      BY <2>2, TicketStutter DEF allVars, server
    <3>2. CallInv'
      BY <2>2 DEF allVars, server, page, CallInv, TicketType, HoldsTicket, RefusedOnlyForCause
    <3> QED
      BY <3>1, <3>2
  <2> QED
    BY <2>1, <2>2
<1>3. Inv => RefusedOnlyForCause
  BY DEF CallInv
<1> QED
  BY <1>1, <1>2, <1>3, PageInvariant, PTL DEF ConsoleSpec

=============================================================================
