-------------------------- MODULE Delivery_proofs --------------------------
(***************************************************************************)
(* What is stored, how often and in which order, for any number of lines,  *)
(* events, requests, rotations, failures, restarts and lost answers.       *)
(***************************************************************************)
EXTENDS Delivery, SequenceTheorems, FiniteSetTheorems, TLAPS

-----------------------------------------------------------------------------
(* The requests *)

Values == Seq(Events \cup {NoEvent, Undecodable})
Statuses == {"running", "ok", "failed", "cut", "refused"}
Requests == [values: Values, done: Nat, st: Statuses]

Differ(v) == \A i, j \in DOMAIN v : v[i] = v[j] /\ v[i] \in Events => i = j

Proper(r) ==
    /\ r.done <= Taken(r.values)
    /\ r.st = "ok" => r.done = Taken(r.values)
    /\ \A i \in 1..r.done : r.values[i] \in Events
    /\ r.st = "running" => \A i \in DOMAIN r.values : r.values[i] # Undecodable
    /\ Differ(r.values)

(* The requests that have stored event e, and those that were asked to.    *)
StoredIn(rs, e) == {q \in DOMAIN rs : \E i \in 1..rs[q].done : rs[q].values[i] = e}
SentIn(rs, e)   == {q \in DOMAIN rs : \E i \in 1..Taken(rs[q].values) : rs[q].values[i] = e}

Sound(rs)   == rs \in Seq(Requests) /\ \A q \in DOMAIN rs : Proper(rs[q])
Counts(rs, st) ==
    /\ st \in [Events -> Nat]
    /\ \A e \in Events : st[e] = Cardinality(StoredIn(rs, e))

LEMMA TakenBound ==
    ASSUME NEW v \in Values PROVE Taken(v) \in Nat /\ Taken(v) <= Len(v) /\ DOMAIN v = 1..Len(v) /\ Len(v) \in Nat
  BY IngestionAssumption, LenProperties DEF Taken, Values

LEMMA Finite ==
    ASSUME NEW rs \in Seq(Requests), NEW e
    PROVE  /\ IsFiniteSet(StoredIn(rs, e)) /\ Cardinality(StoredIn(rs, e)) \in Nat
           /\ IsFiniteSet(SentIn(rs, e)) /\ Cardinality(SentIn(rs, e)) \in Nat
<1>1. IsFiniteSet(DOMAIN rs)
  BY FS_Interval, LenProperties
<1>2. StoredIn(rs, e) \subseteq DOMAIN rs /\ SentIn(rs, e) \subseteq DOMAIN rs
  BY DEF StoredIn, SentIn
<1> QED
  BY <1>1, <1>2, FS_Subset, FS_CardinalityType

(* No request stores what it was not asked to.                             *)
LEMMA StoredWasSent ==
    ASSUME NEW rs, Sound(rs), NEW e
    PROVE  StoredIn(rs, e) \subseteq SentIn(rs, e) /\ Cardinality(StoredIn(rs, e)) <= Cardinality(SentIn(rs, e))
<1>1. \A q \in DOMAIN rs : rs[q] \in Requests /\ Proper(rs[q])
  BY ElementOfSeq, LenProperties DEF Sound
<1>2. \A q \in DOMAIN rs : rs[q].done \in Nat /\ Taken(rs[q].values) \in Nat /\ rs[q].done <= Taken(rs[q].values)
  BY <1>1, TakenBound DEF Requests, Proper
<1>3. StoredIn(rs, e) \subseteq SentIn(rs, e)
  BY <1>2 DEF StoredIn, SentIn
<1> QED
  BY <1>3, Finite, FS_Subset DEF Sound

(* Requests whose values and progress stay as they are.                    *)
Alike(rs, ts) ==
    /\ ts \in Seq(Requests) /\ Len(ts) = Len(rs) /\ DOMAIN ts = DOMAIN rs
    /\ \A q \in DOMAIN rs : ts[q].values = rs[q].values /\ ts[q].done = rs[q].done

LEMMA AlikeSame ==
    ASSUME NEW rs, NEW ts, Alike(rs, ts), NEW e
    PROVE  StoredIn(ts, e) = StoredIn(rs, e) /\ SentIn(ts, e) = SentIn(rs, e)
  BY DEF Alike, StoredIn, SentIn

LEMMA AlikeCounts ==
    ASSUME NEW rs, NEW ts, NEW st, Alike(rs, ts), Counts(rs, st) PROVE Counts(ts, st)
  BY AlikeSame DEF Counts

(* A step of the server leaves what requests ask for, and forgets nothing. *)
Serves(rs, ts) ==
    /\ Len(ts) = Len(rs) /\ DOMAIN ts = DOMAIN rs
    /\ \A q \in DOMAIN rs : ts[q].values = rs[q].values
    /\ \A e : StoredIn(rs, e) \subseteq StoredIn(ts, e)
    /\ \A e : SentIn(ts, e) = SentIn(rs, e)

LEMMA SentKept ==
    ASSUME NEW rs, NEW ts, DOMAIN ts = DOMAIN rs, \A q \in DOMAIN rs : ts[q].values = rs[q].values
    PROVE  \A e : SentIn(ts, e) = SentIn(rs, e)
  BY DEF SentIn

LEMMA AlikeServes ==
    ASSUME NEW rs, NEW ts, Alike(rs, ts) PROVE Serves(rs, ts)
  BY AlikeSame DEF Alike, Serves

(* A client sends v.                                                       *)
Asks(rs, ts, v) ==
    /\ Len(ts) = Len(rs) + 1 /\ DOMAIN ts = 1..(Len(rs) + 1)
    /\ \A q \in DOMAIN rs : ts[q] = rs[q]
    /\ ts[Len(rs) + 1].values = v
    /\ \A e : StoredIn(ts, e) = StoredIn(rs, e)
    /\ \A e : SentIn(ts, e) = SentIn(rs, e)
                \cup (IF \E i \in 1..Taken(v) : v[i] = e THEN {Len(rs) + 1} ELSE {})

-----------------------------------------------------------------------------
(* What the steps of the server and of its clients make of the requests *)

LEMMA RequestKnown ==
    ASSUME NEW rs, Sound(rs), NEW q \in DOMAIN rs
    PROVE  /\ rs[q] \in Requests /\ Proper(rs[q]) /\ q \in 1..Len(rs)
           /\ rs[q].values \in Values /\ rs[q].done \in Nat /\ rs[q].st \in Statuses
           /\ rs[q] = [values |-> rs[q].values, done |-> rs[q].done, st |-> rs[q].st]
           /\ Taken(rs[q].values) \in Nat /\ DOMAIN rs[q].values = 1..Len(rs[q].values)
           /\ Taken(rs[q].values) <= Len(rs[q].values) /\ Len(rs[q].values) \in Nat
<1>1. rs \in Seq(Requests) /\ DOMAIN rs = 1..Len(rs) /\ rs[q] \in Requests /\ Proper(rs[q])
  BY ElementOfSeq, LenProperties DEF Sound
<1> QED
  BY <1>1, TakenBound DEF Requests

(* One request changes its status.                                         *)
LEMMA StatusChanged ==
    ASSUME NEW rs, NEW st, Sound(rs), Counts(rs, st), NEW q \in DOMAIN rs, NEW s \in Statuses, s # "running",
           s = "ok" => rs[q].done = Taken(rs[q].values)
    PROVE  LET ts == [rs EXCEPT ![q].st = s]
           IN  Sound(ts) /\ Counts(ts, st) /\ Alike(rs, ts)
<1> DEFINE r == [rs[q] EXCEPT !.st = s]
           ts == [rs EXCEPT ![q] = r]
<1>1. rs \in Seq(Requests) /\ q \in 1..Len(rs) /\ DOMAIN rs = 1..Len(rs)
  BY RequestKnown, LenProperties DEF Sound
<1>2. /\ r = [values |-> rs[q].values, done |-> rs[q].done, st |-> s]
      /\ r \in Requests
  BY RequestKnown DEF Requests
<1>3. Proper(r)
  BY <1>2, RequestKnown DEF Proper
<1> HIDE DEF r
<1>4. /\ ts \in Seq(Requests) /\ Len(ts) = Len(rs)
      /\ \A k \in 1..Len(rs) : ts[k] = IF k = q THEN r ELSE rs[k]
  BY <1>1, <1>2, ExceptSeq
<1>5. DOMAIN ts = 1..Len(rs)
  BY <1>4, LenProperties
<1> HIDE DEF ts
<1>6. Sound(ts)
  BY <1>1, <1>3, <1>4, <1>5 DEF Sound
<1>7. Alike(rs, ts)
  BY <1>1, <1>2, <1>4, <1>5 DEF Alike
<1>8. ts = [rs EXCEPT ![q].st = s]
  BY DEF ts, r
<1> QED
  BY <1>6, <1>7, <1>8, AlikeCounts

(* Request q stores its next value, which is e.                            *)
Takes(rs, q, e) ==
    /\ q \in DOMAIN rs /\ rs[q].st = "running" /\ rs[q].done # Taken(rs[q].values)
    /\ e = rs[q].values[rs[q].done + 1] /\ e # NoEvent
Stores(rs, st, q, e, ts, su) == ts = [rs EXCEPT ![q].done = @ + 1] /\ su = [st EXCEPT ![e] = @ + 1]

LEMMA ValueStored ==
    ASSUME NEW rs, NEW st, Sound(rs), Counts(rs, st), NEW q, NEW e, Takes(rs, q, e), NEW new, NEW stored
    PROVE  Stores(rs, st, q, e, new, stored) => Sound(new) /\ Counts(new, stored) /\ Serves(rs, new)
<1>0. q \in DOMAIN rs /\ rs[q].st = "running" /\ rs[q].done # Taken(rs[q].values)
      /\ e = rs[q].values[rs[q].done + 1] /\ e # NoEvent
  BY DEF Takes
<1> DEFINE n == rs[q].done + 1
           v == rs[q].values
           r == [rs[q] EXCEPT !.done = n]
           ts == [rs EXCEPT ![q] = r]
           su == [st EXCEPT ![e] = @ + 1]
<1>1. rs \in Seq(Requests) /\ q \in 1..Len(rs) /\ DOMAIN rs = 1..Len(rs)
  BY <1>0, RequestKnown, LenProperties DEF Sound
<1>2. /\ v \in Values /\ n \in Nat /\ n >= 1 /\ n <= Taken(v) /\ n <= Len(v) /\ n \in DOMAIN v
      /\ Proper(rs[q]) /\ rs[q].done = n - 1
  BY <1>0, RequestKnown DEF Proper
<1>3. e \in Events
  <2>1. e \in Events \cup {NoEvent, Undecodable}
    BY <1>0, <1>2, ElementOfSeq DEF Values
  <2>2. \A i \in DOMAIN v : v[i] # Undecodable
    BY <1>0, <1>2 DEF Proper
  <2>3. e = v[n]
    BY <1>0
  <2> QED
    BY <1>0, <1>2, <2>1, <2>2, <2>3
<1>4. r = [values |-> v, done |-> n, st |-> "running"] /\ r \in Requests
  BY <1>0, <1>2, RequestKnown DEF Requests, Statuses
<1>5. Proper(r)
  <2>1. \A i \in 1..n : v[i] \in Events
    BY <1>0, <1>2, <1>3 DEF Proper
  <2> QED
    BY <1>0, <1>2, <1>4, <2>1 DEF Proper
<1> HIDE DEF r
<1>6. /\ ts \in Seq(Requests) /\ Len(ts) = Len(rs)
      /\ \A k \in 1..Len(rs) : ts[k] = IF k = q THEN r ELSE rs[k]
  BY <1>1, <1>4, ExceptSeq
<1>7. DOMAIN ts = 1..Len(rs)
  BY <1>6, LenProperties
<1> HIDE DEF ts
<1>8. Sound(ts)
  BY <1>1, <1>5, <1>6, <1>7 DEF Sound
<1>9. \A k \in DOMAIN rs : ts[k].values = rs[k].values
  BY <1>1, <1>4, <1>6
<1>10. ASSUME NEW f PROVE StoredIn(ts, f) = StoredIn(rs, f) \cup (IF f = e THEN {q} ELSE {})
  <2>1. \A k \in DOMAIN rs : k # q => ts[k] = rs[k]
    BY <1>1, <1>6
  <2>2. (\E i \in 1..n : v[i] = f) <=> (\E i \in 1..(n - 1) : v[i] = f) \/ f = e
    BY <1>0, <1>2
  <2>3. ts[q].done = n /\ ts[q].values = v
    BY <1>1, <1>4, <1>6
  <2>4. q \in StoredIn(ts, f) <=> q \in StoredIn(rs, f) \/ f = e
    BY <1>1, <1>2, <1>7, <2>2, <2>3 DEF StoredIn
  <2>5. ASSUME NEW k, k # q PROVE k \in StoredIn(ts, f) <=> k \in StoredIn(rs, f)
    BY <1>1, <1>7, <2>1, <2>5 DEF StoredIn
  <2> QED
    BY <2>4, <2>5
<1>11. q \notin StoredIn(rs, e)
  <2>1. \A i \in 1..(n - 1) : v[i] # e
    BY <1>0, <1>2, <1>3 DEF Proper, Differ
  <2> QED
    BY <1>2, <2>1 DEF StoredIn
<1>12. Counts(ts, su)
  <2>1. su \in [Events -> Nat] /\ \A f \in Events : su[f] = IF f = e THEN st[e] + 1 ELSE st[f]
    BY <1>3 DEF Counts
  <2> HIDE DEF su
  <2>2. Cardinality(StoredIn(ts, e)) = Cardinality(StoredIn(rs, e)) + 1
    BY <1>1, <1>10, <1>11, Finite, FS_AddElement
  <2>3. ASSUME NEW f \in Events, f # e PROVE StoredIn(ts, f) = StoredIn(rs, f)
    BY <1>10, <2>3
  <2> QED
    BY <1>3, <2>1, <2>2, <2>3 DEF Counts
<1>13. Serves(rs, ts)
  BY <1>1, <1>6, <1>7, <1>9, <1>10, SentKept DEF Serves
<1>14. ts = [rs EXCEPT ![q].done = @ + 1]
  BY DEF ts, r
<1> QED
  BY <1>8, <1>12, <1>13, <1>14 DEF Stores

(* A restart cuts every request that is running.                           *)
LEMMA AllCut ==
    ASSUME NEW rs, NEW st, Sound(rs), Counts(rs, st),
           NEW ts, ts = [q \in DOMAIN rs |-> IF rs[q].st = "running" THEN [rs[q] EXCEPT !.st = "cut"] ELSE rs[q]]
    PROVE  Sound(ts) /\ Counts(ts, st) /\ Alike(rs, ts)
<1>1. rs \in Seq(Requests) /\ DOMAIN rs = 1..Len(rs) /\ Len(rs) \in Nat
  BY LenProperties DEF Sound
<1>2. ASSUME NEW q \in DOMAIN rs
      PROVE  /\ ts[q] \in Requests /\ Proper(ts[q])
             /\ ts[q].values = rs[q].values /\ ts[q].done = rs[q].done
  <2>1. CASE rs[q].st = "running"
    <3>1. ts[q] = [values |-> rs[q].values, done |-> rs[q].done, st |-> "cut"]
      BY <2>1, RequestKnown
    <3> QED
      BY <3>1, RequestKnown DEF Requests, Statuses, Proper
  <2>2. CASE rs[q].st # "running"
    BY <2>2, RequestKnown
  <2> QED
    BY <2>1, <2>2
<1>3. ts \in Seq(Requests)
  BY <1>1, <1>2, SeqDef
<1>4. Len(ts) = Len(rs) /\ DOMAIN ts = DOMAIN rs
  BY <1>1, <1>3, LenProperties
<1>5. Sound(ts) /\ Alike(rs, ts)
  BY <1>2, <1>3, <1>4 DEF Sound, Alike
<1> QED
  BY <1>5, AlikeCounts

(* A new request.                                                          *)
LEMMA RequestSent ==
    ASSUME NEW rs, NEW st, Sound(rs), Counts(rs, st), NEW v \in Values, Differ(v), NEW s \in {"running", "refused"},
           s = "running" => \A i \in DOMAIN v : v[i] # Undecodable,
           NEW ts, ts = Append(rs, [values |-> v, done |-> 0, st |-> s])
    PROVE  Sound(ts) /\ Counts(ts, st) /\ Asks(rs, ts, v)
<1> DEFINE r == [values |-> v, done |-> 0, st |-> s]
<1>1. rs \in Seq(Requests) /\ DOMAIN rs = 1..Len(rs) /\ Len(rs) \in Nat
  BY LenProperties DEF Sound
<1>2. r \in Requests
  BY DEF Requests, Statuses
<1>3. Proper(r)
  BY TakenBound DEF Proper
<1>4. /\ ts \in Seq(Requests) /\ Len(ts) = Len(rs) + 1
      /\ \A q \in 1..Len(rs) : ts[q] = rs[q]
      /\ ts[Len(rs) + 1] = r
  BY <1>1, <1>2, AppendProperties
<1>5. DOMAIN ts = 1..(Len(rs) + 1)
  BY <1>4, LenProperties
<1>6. r.done = 0 /\ r.values = v
  OBVIOUS
<1> HIDE DEF r
<1>7. Sound(ts)
  BY <1>1, <1>3, <1>4, <1>5 DEF Sound
<1>8. ASSUME NEW e PROVE StoredIn(ts, e) = StoredIn(rs, e)
  BY <1>1, <1>4, <1>5, <1>6 DEF StoredIn
<1>9. ASSUME NEW e
      PROVE SentIn(ts, e) = SentIn(rs, e) \cup (IF \E i \in 1..Taken(v) : v[i] = e THEN {Len(rs) + 1} ELSE {})
  BY <1>1, <1>4, <1>5, <1>6 DEF SentIn
<1>10. Counts(ts, st)
  BY <1>8 DEF Counts
<1> QED
  BY <1>1, <1>4, <1>5, <1>6, <1>7, <1>8, <1>9, <1>10 DEF Asks

(***************************************************************************)
(* The server, and those who send to it                                    *)
(***************************************************************************)

ServerOK(rs, st) == Sound(rs) /\ Counts(rs, st) /\ Len(rs) <= MaxRequests
ServerInv == ServerOK(requests, store)

LEMMA ServerPrimed == ServerOK(requests', store') => ServerInv'
  BY DEF ServerInv, ServerOK, Sound, Counts, StoredIn, Proper, Taken, Differ, Requests, Values, Statuses

LEMMA ServerSteps ==
    ASSUME ServerInv, ServerStep PROVE ServerOK(requests', store') /\ Serves(requests, requests')
<1>1. PICK rs, st, ts, su : rs = requests /\ st = store /\ ts = requests' /\ su = store'
  OBVIOUS
<1> SUFFICES ServerOK(ts, su) /\ Serves(rs, ts)
  BY <1>1
<1>2. Sound(rs) /\ Counts(rs, st) /\ Len(rs) <= MaxRequests
  BY <1>1 DEF ServerInv, ServerOK
<1>3. ASSUME Sound(ts), Counts(ts, st), Alike(rs, ts), su = st
      PROVE  ServerOK(ts, su) /\ Serves(rs, ts)
  BY <1>2, <1>3, AlikeServes DEF ServerOK, Alike
<1>4. ASSUME NEW q \in DOMAIN rs, NEW s \in Statuses, s # "running", s = "ok" => rs[q].done = Taken(rs[q].values),
             ts = [rs EXCEPT ![q].st = s], su = st
      PROVE  ServerOK(ts, su) /\ Serves(rs, ts)
  BY <1>2, <1>3, <1>4, StatusChanged
<1>5. CASE Restart
  <2>1. ts = [q \in DOMAIN rs |-> IF rs[q].st = "running" THEN [rs[q] EXCEPT !.st = "cut"] ELSE rs[q]] /\ su = st
    BY <1>1, <1>5 DEF Restart, Running
  <2> QED
    BY <1>2, <1>3, <2>1, AllCut
<1>6. ASSUME NEW q \in DOMAIN requests, ProcessValue(q) PROVE ServerOK(ts, su) /\ Serves(rs, ts)
  <2>1. PICK e : e = rs[q].values[rs[q].done + 1]
    OBVIOUS
  <2>2. Takes(rs, q, e)
    BY <1>1, <1>6, <2>1 DEF ProcessValue, Running, AtEnd, NextValue, Takes
  <2>3. Stores(rs, st, q, e, ts, su)
    BY <1>1, <1>6, <2>1 DEF ProcessValue, NextValue, Stores
  <2>4. Sound(ts) /\ Counts(ts, su) /\ Serves(rs, ts)
    BY <1>2, <2>2, <2>3, ValueStored
  <2> QED
    BY <1>2, <2>4 DEF ServerOK, Serves
<1>7. ASSUME NEW q \in DOMAIN requests, RefuseValue(q) \/ Answer(q) \/ FailValue(q)
      PROVE  ServerOK(ts, su) /\ Serves(rs, ts)
  <2>1. su = st /\ q \in DOMAIN rs
        /\ \/ ts = [rs EXCEPT ![q].st = "refused"]
           \/ ts = [rs EXCEPT ![q].st = "ok"] /\ rs[q].done = Taken(rs[q].values)
           \/ ts = [rs EXCEPT ![q].st = "failed"]
    BY <1>1, <1>7 DEF RefuseValue, Answer, FailValue, AtEnd
  <2>2. {"refused", "ok", "failed"} \subseteq Statuses
    BY DEF Statuses
  <2>3. CASE ts = [rs EXCEPT ![q].st = "refused"]
    BY <1>4, <2>1, <2>2, <2>3
  <2>4. CASE ts = [rs EXCEPT ![q].st = "ok"] /\ rs[q].done = Taken(rs[q].values)
    BY <1>4, <2>1, <2>2, <2>4
  <2>5. CASE ts = [rs EXCEPT ![q].st = "failed"]
    BY <1>4, <2>1, <2>2, <2>5
  <2> QED
    BY <2>1, <2>3, <2>4, <2>5
<1> QED
  BY <1>5, <1>6, <1>7 DEF ServerStep, Serve

LEMMA Sending ==
    ASSUME ServerInv, NEW endpoint, NEW v \in Values, Differ(v), Send(endpoint, v), store' = store,
           endpoint = "hec_event" \/ \A i \in DOMAIN v : v[i] # Undecodable
    PROVE  ServerOK(requests', store') /\ Asks(requests, requests', v)
<1>1. PICK s : s = IF Refused(endpoint, v) THEN "refused" ELSE "running"
  OBVIOUS
<1>2. PICK rs, ts, st : rs = requests /\ ts = requests' /\ st = store
  OBVIOUS
<1>3. ts = Append(rs, [values |-> v, done |-> 0, st |-> s]) /\ Len(rs) < MaxRequests
  BY <1>1, <1>2 DEF Send
<1>4. s \in {"running", "refused"} /\ (s = "running" => \A i \in DOMAIN v : v[i] # Undecodable)
  BY <1>1 DEF Refused
<1>5. Sound(rs) /\ Counts(rs, st)
  BY <1>2 DEF ServerInv, ServerOK
<1>6. Sound(ts) /\ Counts(ts, st) /\ Asks(rs, ts, v)
  BY <1>3, <1>4, <1>5, RequestSent
<1>7. Len(rs) \in Nat /\ MaxRequests \in Nat
  BY <1>5, LenProperties, IngestionAssumption DEF Sound
<1>8. ServerOK(ts, st)
  BY <1>3, <1>6, <1>7 DEF ServerOK, Asks
<1> QED
  BY <1>2, <1>6, <1>8

(* One value that is an event makes a request that may be sent.            *)
LEMMA SingleValue ==
    ASSUME NEW l \in Events
    PROVE  /\ <<l>> \in Values /\ Differ(<<l>>) /\ \A i \in DOMAIN <<l>> : <<l>>[i] # Undecodable
           /\ Taken(<<l>>) = 1 /\ \A e : (\E i \in 1..Taken(<<l>>) : <<l>>[i] = e) <=> e = l
<1>1. Undecodable \notin Events
  BY IngestionAssumption DEF Undecodable
<1>2. Taken(<<l>>) = 1
  BY IngestionAssumption DEF Taken
<1> QED
  BY <1>1, <1>2 DEF Values, Differ

(***************************************************************************)
(* Types                                                                   *)
(***************************************************************************)

LogTypes ==
    /\ files \in Seq(Seq(Lines)) /\ path \in 1..Len(files) /\ writer \in 1..Len(files)
    /\ written \in 0..MaxLines /\ turns \in Nat

TailTypes ==
    /\ tail \in [at: {"open", "read", "stat", "send"}, ino: Nat, pos: Nat]
    /\ tail.ino <= Len(files) /\ (tail.at # "open" => tail.ino # 0)
    /\ line \in 0..MaxLines /\ given \subseteq Lines
    /\ (tail.at = "send" => line \in given)

PollTypes ==
    /\ now \in 0..MaxNow /\ searched \in 0..now /\ due \in 0..(MaxNow + Interval)
    /\ indexed \in [Events -> Int] /\ \A e \in Events : indexed[e] <= now
    /\ restarts \in Nat /\ covered \in 0..searched /\ longest \in Nat

OtherTypes ==
    /\ deployed \in {"shipper", "poller", "hec", "replay"}
    /\ waiting \in 0..Len(requests) /\ doubted \in [Events -> Nat]
    /\ replay \in [sent: Nat, ended: BOOLEAN]

(* Who changes what.                                                       *)
Frame ==
    /\ Write \/ Rotate \/ Reopen \/ UNCHANGED fileVars
    /\ Open \/ ReadLine \/ Stat \/ LineSent \/ PostFails \/ Dies \/ UNCHANGED tailVars
    /\ Index \/ PollOnce \/ CycleEnds \/ SearchFails \/ PollerRestarts \/ Tick \/ UNCHANGED pollVars
    /\ \/ ServerStep /\ UNCHANGED waiting
       \/ PostLine \/ PollOnce \/ SendBatch \/ PostRow
       \/ UNCHANGED <<store, requests>> /\ waiting' \in {0, waiting}
    /\ UNCHANGED deployed
    /\ RowSent \/ RowFails \/ UNCHANGED replay
    /\ PostFails \/ Dies \/ BatchFails \/ UNCHANGED doubted

LEMMA Frames == ASSUME [Next]_vars PROVE Frame
<1>1. CASE UNCHANGED vars
  BY <1>1 DEF Frame, vars, server, clients, fileVars, tailVars, pollVars
<1>2. CASE ServerStep /\ UNCHANGED <<deployed, clients>>
  BY <1>2 DEF Frame, clients, fileVars, tailVars, pollVars
<1>3. CASE Write \/ Rotate \/ Reopen
  BY <1>3 DEF Frame, Write, Rotate, Reopen, server, tailVars, pollVars
<1>4. CASE Open \/ ReadLine \/ Stat \/ LineSent
  BY <1>4 DEF Frame, Open, ReadLine, Stat, LineSent, server, fileVars, pollVars
<1>5. CASE PostLine
  BY <1>5 DEF Frame, PostLine, fileVars, tailVars, pollVars
<1>6. CASE PostFails \/ Dies
  BY <1>6 DEF Frame, PostFails, Dies, server, fileVars, pollVars
<1>7. CASE Index \/ Tick
  BY <1>7 DEF Frame, Index, Tick, server, fileVars, tailVars
<1>8. CASE PollOnce
  BY <1>8 DEF Frame, PollOnce, fileVars, tailVars
<1>9. CASE CycleEnds \/ SearchFails \/ PollerRestarts
  BY <1>9 DEF Frame, CycleEnds, SearchFails, PollerRestarts, fileVars, tailVars
<1>10. CASE SendBatch \/ BatchFails
  BY <1>10 DEF Frame, SendBatch, BatchFails, fileVars, tailVars, pollVars
<1>11. CASE PostRow \/ RowSent \/ RowFails
  BY <1>11 DEF Frame, PostRow, RowSent, RowFails, server, fileVars, tailVars, pollVars
<1> QED
  BY <1>1, <1>2, <1>3, <1>4, <1>5, <1>6, <1>7, <1>8, <1>9, <1>10, <1>11 DEF Next, Shipper, Poller, Replay

(* What happens to the files of the log.                                   *)
FileSame(i) == Len(files'[i]) = Len(files[i]) /\ \A k \in 1..Len(files[i]) : files'[i][k] = files[i][k]

LEMMA FileKnown ==
    ASSUME LogTypes
    PROVE  /\ Len(files) \in Nat /\ DOMAIN files = 1..Len(files)
           /\ \A i \in 1..Len(files) :
                /\ files[i] \in Seq(Lines) /\ Len(files[i]) \in Nat /\ DOMAIN files[i] = 1..Len(files[i])
                /\ \A k \in 1..Len(files[i]) : files[i][k] \in Lines
  BY LenProperties, ElementOfSeq DEF LogTypes

LEMMA WriteMakes ==
    ASSUME LogTypes, Write
    PROVE  /\ files' \in Seq(Seq(Lines)) /\ Len(files') = Len(files) /\ written + 1 \in Lines
           /\ \A i \in 1..Len(files) : i # writer => files'[i] = files[i]
           /\ Len(files'[writer]) = Len(files[writer]) + 1
           /\ \A k \in 1..Len(files[writer]) : files'[writer][k] = files[writer][k]
           /\ files'[writer][Len(files[writer]) + 1] = written + 1
<1>1. files' = [files EXCEPT ![writer] = Append(files[writer], written + 1)] /\ writer \in 1..Len(files)
  BY DEF Write, LogTypes
<1>2. written + 1 \in Lines
  BY DeliveryAssumption DEF Write, LogTypes, Lines
<1>3. PICK g : g = Append(files[writer], written + 1)
  OBVIOUS
<1>4. /\ g \in Seq(Lines) /\ Len(g) = Len(files[writer]) + 1
      /\ \A k \in 1..Len(files[writer]) : g[k] = files[writer][k]
      /\ g[Len(files[writer]) + 1] = written + 1
  BY <1>1, <1>2, <1>3, FileKnown, AppendProperties
<1>5. files' = [files EXCEPT ![writer] = g]
  BY <1>1, <1>3
<1>6. /\ files' \in Seq(Seq(Lines)) /\ Len(files') = Len(files)
      /\ \A i \in 1..Len(files) : files'[i] = IF i = writer THEN g ELSE files[i]
  <2>1. files \in Seq(Seq(Lines)) /\ writer \in 1..Len(files) /\ g \in Seq(Lines)
    BY <1>4 DEF LogTypes
  <2> QED
    BY <1>5, <2>1, ExceptSeq
<1> QED
  BY <1>1, <1>2, <1>4, <1>6

LEMMA RotateMakes ==
    ASSUME LogTypes, Rotate
    PROVE  /\ files' \in Seq(Seq(Lines)) /\ Len(files'[path']) = 0 /\ path' \in 1..Len(files')
           /\ \A i \in 1..Len(files) : i # path' => files'[i] = files[i]
           /\ \/ Len(files') = Len(files) + 1 /\ path' = Len(files')
              \/ Len(files') = Len(files) /\ path' = path
<1>1. <<>> \in Seq(Lines) /\ Len(<<>>) = 0
  OBVIOUS
<1>2. CASE files' = Append(files, <<>>) /\ path' = Len(files) + 1
  <2>1. /\ files' \in Seq(Seq(Lines)) /\ Len(files') = Len(files) + 1
        /\ \A i \in 1..Len(files) : files'[i] = files[i]
        /\ files'[Len(files) + 1] = <<>>
    BY <1>1, <1>2, AppendProperties DEF LogTypes
  <2> QED
    BY <1>1, <1>2, <2>1, FileKnown
<1>3. CASE files' = [files EXCEPT ![path] = <<>>] /\ path' = path
  <2>1. /\ files' \in Seq(Seq(Lines)) /\ Len(files') = Len(files)
        /\ \A i \in 1..Len(files) : files'[i] = IF i = path THEN <<>> ELSE files[i]
    BY <1>1, <1>3, ExceptSeq DEF LogTypes
  <2> QED
    BY <1>1, <1>3, <2>1, FileKnown DEF LogTypes
<1> QED
  BY <1>2, <1>3 DEF Rotate

LEMMA LogTypesStep == ASSUME LogTypes, [Next]_vars PROVE LogTypes' /\ Len(files) <= Len(files')
<1>1. CASE Write
  BY <1>1, WriteMakes, FileKnown, DeliveryAssumption DEF LogTypes, Write, Lines
<1>2. CASE Rotate
  <2>1. /\ turns' \in Nat /\ UNCHANGED <<writer, written>> /\ Len(files) <= Len(files')
        /\ Len(files) \in Nat /\ Len(files') \in Nat
    <3>1. turns' = turns + 1 /\ UNCHANGED <<writer, written>>
      BY <1>2 DEF Rotate
    <3>2. Len(files) \in Nat /\ Len(files) <= Len(files')
      BY <1>2, RotateMakes, FileKnown
    <3> QED
      BY <1>2, <3>1, <3>2, RotateMakes DEF LogTypes
  <2> QED
    BY <1>2, <2>1, RotateMakes DEF LogTypes
<1>3. CASE Reopen
  BY <1>3, FileKnown DEF LogTypes, Reopen
<1>4. CASE UNCHANGED fileVars
  BY <1>4, FileKnown DEF LogTypes, fileVars
<1> QED
  BY <1>1, <1>2, <1>3, <1>4, Frames DEF Frame

LEMMA TailTypesStep == ASSUME LogTypes, TailTypes, [Next]_vars PROVE TailTypes'
<1> USE DEF TailTypes
<1>1. Len(files) <= Len(files') /\ Len(files) \in Nat /\ Len(files') \in Nat
  BY LogTypesStep, FileKnown DEF LogTypes
<1>2. CASE Open
  <2>1. UNCHANGED files /\ path \in 1..Len(files) /\ Len(files[path]) \in Nat
    BY <1>2, FileKnown DEF Open, fileVars, LogTypes
  <2>2. tail' \in [at: {"open", "read", "stat", "send"}, ino: Nat, pos: Nat] /\ tail'.ino = path /\ tail'.at = "read"
    BY <1>2, <2>1 DEF Open
  <2>3. UNCHANGED <<line, given>>
    BY <1>2 DEF Open
  <2> QED
    BY <2>1, <2>2, <2>3
<1>3. CASE ReadLine
  <2>1. CASE tail.pos < Len(files[tail.ino])
    <3>1. /\ line' = files[tail.ino][tail.pos + 1] /\ given' = given \cup {line'} /\ UNCHANGED files
          /\ tail' = [tail EXCEPT !.at = "send", !.pos = @ + 1] /\ tail.at = "read"
      BY <1>3, <2>1 DEF ReadLine, fileVars
    <3>2. tail.ino \in 1..Len(files) /\ tail.pos + 1 \in 1..Len(files[tail.ino])
      BY <2>1, <3>1, FileKnown
    <3>3. line' \in Lines
      BY <3>1, <3>2, FileKnown
    <3>4. line' \in 0..MaxLines
      BY <3>3, DeliveryAssumption DEF Lines
    <3>5. tail' \in [at: {"open", "read", "stat", "send"}, ino: Nat, pos: Nat]
          /\ tail'.ino = tail.ino /\ tail'.at = "send"
      <4>1. tail = [at |-> tail.at, ino |-> tail.ino, pos |-> tail.pos] /\ tail.ino \in Nat /\ tail.pos \in Nat
        OBVIOUS
      <4>2. tail' = [at |-> "send", ino |-> tail.ino, pos |-> tail.pos + 1]
        BY <3>1, <4>1
      <4> QED
        BY <4>1, <4>2
    <3>6. given' \subseteq Lines /\ line' \in given'
      BY <3>1, <3>3
    <3>7. tail'.ino <= Len(files')
      BY <3>1, <3>2, <3>5
    <3> QED
      BY <3>2, <3>4, <3>5, <3>6, <3>7
  <2>2. CASE ~(tail.pos < Len(files[tail.ino]))
    BY <1>3, <2>2 DEF ReadLine, fileVars
  <2> QED
    BY <2>1, <2>2
<1>4. CASE Stat
  BY <1>4 DEF Stat, fileVars
<1>5. CASE LineSent
  BY <1>5, DeliveryAssumption DEF LineSent, fileVars
<1>6. CASE PostFails
  BY <1>6 DEF PostFails, StaysAt, fileVars
<1>7. CASE Dies
  BY <1>7, <1>1, DeliveryAssumption DEF Dies, fileVars
<1>8. CASE UNCHANGED tailVars
  BY <1>1, <1>8 DEF tailVars
<1> QED
  BY <1>2, <1>3, <1>4, <1>5, <1>6, <1>7, <1>8, Frames DEF Frame

LEMMA PollTypesStep == ASSUME PollTypes, [Next]_vars PROVE PollTypes'
<1> USE DEF PollTypes
<1> USE DeliveryAssumption
<1>1. CASE Index
  <2>1. PICK e \in Events : indexed' = [indexed EXCEPT ![e] = now]
    BY <1>1 DEF Index
  <2> QED
    BY <1>1, <2>1 DEF Index
<1>7. ASSUME NEW t \in 0..now, Covers(t), covered <= t PROVE covered' = t /\ longest' \in Nat
  BY <1>7 DEF Covers
<1>2. CASE PollOnce
  <2>1. /\ searched' = now /\ UNCHANGED <<now, indexed, restarts>>
        /\ \/ due' = now + Interval /\ Covers(now)
           \/ UNCHANGED <<due, covered, longest>>
    BY <1>2 DEF PollOnce, Searches
  <2> QED
    BY <1>7, <2>1
<1>3. CASE CycleEnds
  <2>1. /\ due' = now + Interval /\ UNCHANGED <<now, searched, indexed, restarts>>
        /\ Covers(searched) \/ UNCHANGED <<covered, longest>>
    BY <1>3 DEF CycleEnds, Delay
  <2> QED
    BY <1>7, <2>1
<1>4. CASE SearchFails
  BY <1>4 DEF SearchFails, Searches, Delay
<1>8. CASE PollerRestarts
  BY <1>8 DEF PollerRestarts
<1>5. CASE Tick
  BY <1>5 DEF Tick
<1>6. CASE UNCHANGED pollVars
  BY <1>6 DEF pollVars
<1> QED
  BY <1>1, <1>2, <1>3, <1>4, <1>5, <1>6, <1>8, Frames DEF Frame

(***************************************************************************)
(* Who sends what                                                          *)
(***************************************************************************)

(* What the poller takes of a search: an order of all that is found, as far*)
(* as the limit.                                                           *)
Polled(v, S) ==
    /\ v \in Values /\ Differ(v) /\ \A i \in DOMAIN v : v[i] # Undecodable
    /\ \A i \in 1..Taken(v) : v[i] \in S
    /\ Cardinality(S) <= Limit => \A e \in S : \E i \in 1..Taken(v) : v[i] = e

LEMMA OrderPolled ==
    ASSUME NEW S, S \subseteq Events, NEW s \in [1..Cardinality(S) -> S],
           \A i, j \in 1..Cardinality(S) : i < j => s[i] # s[j]
    PROVE  Polled(SubSeq(s, 1, Taken(s)), S)
<1>1. IsFiniteSet(S) /\ Cardinality(S) \in Nat
  BY DeliveryAssumption, FS_Subset, FS_CardinalityType
<1>2. PICK n : n = Cardinality(S)
  OBVIOUS
<1>3. n \in Nat /\ s \in [1..n -> S] /\ \A i, j \in 1..n : i < j => s[i] # s[j]
  BY <1>1, <1>2
<1>4. s \in Seq(S) /\ Len(s) = n
  BY <1>3, SeqDef, LenProperties
<1>5. PICK t : t = Taken(s)
  OBVIOUS
<1>6. t \in Nat /\ t <= n /\ t <= Limit /\ (n <= Limit => t = n)
  BY <1>3, <1>4, <1>5, IngestionAssumption DEF Taken
<1>7. PICK v : v = SubSeq(s, 1, t)
  OBVIOUS
<1>8. v \in Seq(S) /\ Len(v) = t /\ \A i \in 1..t : v[i] = s[i]
  <2>1. \A i \in 1..t : s[i] \in S
    <3>1. \A i \in 1..t : i \in 1..n
      BY <1>3, <1>6
    <3> QED
      BY <1>3, <3>1, Zenon
  <2>2. v \in Seq(S) /\ Len(v) = (IF 1 <= t THEN t - 1 + 1 ELSE 0) /\ \A i \in 1..(t - 1 + 1) : v[i] = s[1 + i - 1]
    BY <1>6, <1>7, <2>1, SubSeqProperties
  <2> QED
    BY <1>6, <2>2
<1>9. DOMAIN v = 1..t /\ Taken(v) = t
  BY <1>6, <1>8, LenProperties, IngestionAssumption DEF Taken
<1>10. v \in Values /\ \A i \in 1..t : v[i] \in S
  <2>1. \A i \in 1..t : v[i] \in S
    BY <1>3, <1>6, <1>8
  <2>2. \A i \in 1..t : v[i] \in Events \cup {NoEvent, Undecodable}
    BY <2>1
  <2> QED
    BY <1>6, <1>8, <1>9, <2>1, <2>2, SeqDef DEF Values
<1>11. \A i \in DOMAIN v : v[i] # Undecodable
  <2>1. Undecodable \notin Events
    BY IngestionAssumption DEF Undecodable
  <2> QED
    BY <1>9, <1>10, <2>1
<1>12. Differ(v)
  <2>1. \A i, j \in 1..t : v[i] = v[j] => i = j
    BY <1>3, <1>6, <1>8
  <2> QED
    BY <1>9, <2>1 DEF Differ
<1>13. ASSUME n <= Limit PROVE \A e \in S : \E i \in 1..t : v[i] = e
  <2>1. s \in Injection(1..n, S)
    <3>1. DOMAIN s = 1..n
      BY <1>3
    <3>2. \A i, j \in 1..n : s[i] = s[j] => i = j
      BY <1>3
    <3> QED
      BY <1>3, <3>1, <3>2 DEF Injection, IsInjective
  <2>2. Cardinality(1..n) = n
    BY <1>3, FS_Interval
  <2>3. s \in Surjection(1..n, S)
    BY <1>1, <1>2, <2>1, <2>2, FS_Injection
  <2>4. \A e \in S : \E i \in 1..n : s[i] = e
    BY <2>3 DEF Surjection
  <2> QED
    BY <1>6, <1>8, <1>13, <2>4
<1> QED
  BY <1>2, <1>5, <1>7, <1>9, <1>10, <1>11, <1>12, <1>13 DEF Polled

LEMMA PollAsks ==
    ASSUME PollOnce
    PROVE  \/ Recent = {} /\ UNCHANGED <<store, requests, waiting>>
           \/ \E v : /\ Polled(v, Recent) /\ Send("ingest", v)
                     /\ store' = store /\ waiting' = Len(requests) + 1
<1>1. CASE Recent = {}
  BY <1>1 DEF PollOnce
<1>2. CASE Recent # {}
  <2>1. PICK s \in Orders(Recent) : Send("ingest", SubSeq(s, 1, Taken(s)))
    BY <1>2 DEF PollOnce
  <2>2. PICK S : S = Recent
    OBVIOUS
  <2>3. S \subseteq Events /\ s \in [1..Cardinality(S) -> S] /\ \A i, j \in 1..Cardinality(S) : i < j => s[i] # s[j]
    BY <2>1, <2>2 DEF Orders, Recent
  <2>4. Polled(SubSeq(s, 1, Taken(s)), S)
    BY <2>3, OrderPolled
  <2>5. store' = store /\ waiting' = Len(requests) + 1
    BY <1>2 DEF PollOnce
  <2> QED
    BY <2>1, <2>2, <2>4, <2>5
<1> QED
  BY <1>1, <1>2

(* One step, as the requests see it: nothing is sent, or the client that   *)
(* is deployed sends v and waits.                                          *)
Sends(v) == ServerOK(requests', store') /\ Asks(requests, requests', v) /\ waiting' = Len(requests) + 1 /\ waiting = 0

LEMMA Moves ==
    ASSUME ServerInv, LogTypes, TailTypes, OtherTypes, [Next]_vars
    PROVE  /\ ServerOK(requests', store')
           /\ \/ Serves(requests, requests') /\ waiting' \in {0, waiting}
              \/ PostLine /\ Sends(<<line>>)
              \/ PollOnce /\ \E v : Polled(v, Recent) /\ Sends(v)
              \/ SendBatch /\ \E v : Sends(v)
              \/ PostRow /\ Sends(<<replay.sent + 1>>)
<1>1. CASE ServerStep /\ UNCHANGED waiting
  BY <1>1, ServerSteps
<1>2. CASE UNCHANGED <<store, requests>> /\ waiting' \in {0, waiting}
  <2>1. ServerOK(requests, store) /\ Serves(requests, requests)
    BY DEF ServerInv, Serves
  <2> QED
    BY <1>2, <2>1
<1>3. CASE PostLine
  <2>1. line \in Events
    BY <1>3, DeliveryAssumption DEF PostLine, TailTypes
  <2>2. Send("ingest", <<line>>) /\ store' = store /\ waiting' = Len(requests) + 1 /\ waiting = 0
    BY <1>3 DEF PostLine
  <2>3. ServerOK(requests', store') /\ Asks(requests, requests', <<line>>)
    BY <2>1, <2>2, SingleValue, Sending
  <2> QED
    BY <1>3, <2>2, <2>3 DEF Sends
<1>4. CASE PollOnce
  <2>1. CASE UNCHANGED <<store, requests, waiting>>
    BY <1>2, <2>1
  <2>2. ASSUME NEW v, Polled(v, Recent), Send("ingest", v), store' = store, waiting' = Len(requests) + 1
        PROVE  Sends(v)
    <3>1. v \in Values /\ Differ(v) /\ \A i \in DOMAIN v : v[i] # Undecodable
      BY <2>2 DEF Polled
    <3>2. ServerOK(requests', store') /\ Asks(requests, requests', v)
      BY <2>2, <3>1, Sending
    <3> QED
      BY <1>4, <2>2, <3>2 DEF Sends, PollOnce, Searches
  <2> QED
    BY <1>4, <2>1, <2>2, PollAsks DEF Sends
<1>5. CASE SendBatch
  <2>1. PICK v \in IF requests = <<>> THEN Batches ELSE {requests[1].values} : Send("hec_event", v)
    BY <1>5 DEF SendBatch
  <2>2. v \in Values /\ Differ(v)
    <3>1. CASE requests = <<>>
      BY <2>1, <3>1, DeliveryAssumption DEF Values, Differ
    <3>2. CASE requests # <<>>
      <4>1. PICK rs : rs = requests
        OBVIOUS
      <4>2. Sound(rs) /\ rs # <<>>
        BY <3>2, <4>1 DEF ServerInv, ServerOK
      <4>3. 1 \in DOMAIN rs
        BY <4>2, EmptySeq, LenProperties DEF Sound
      <4>4. v = rs[1].values
        BY <2>1, <3>2, <4>1
      <4> QED
        BY <4>2, <4>3, <4>4, RequestKnown DEF Proper
    <3> QED
      BY <3>1, <3>2
  <2>3. store' = store /\ waiting' = Len(requests) + 1 /\ waiting = 0
    BY <1>5 DEF SendBatch
  <2>4. ServerOK(requests', store') /\ Asks(requests, requests', v)
    BY <2>1, <2>2, <2>3, Sending
  <2> QED
    BY <1>5, <2>3, <2>4 DEF Sends
<1>6. CASE PostRow
  <2>1. replay.sent + 1 \in Events
    BY <1>6, DeliveryAssumption DEF PostRow, OtherTypes, Lines
  <2>2. Send("ingest", <<replay.sent + 1>>) /\ store' = store /\ waiting' = Len(requests) + 1 /\ waiting = 0
    BY <1>6 DEF PostRow
  <2>3. ServerOK(requests', store') /\ Asks(requests, requests', <<replay.sent + 1>>)
    BY <2>1, <2>2, SingleValue, Sending
  <2> QED
    BY <1>6, <2>2, <2>3 DEF Sends
<1> QED
  BY <1>1, <1>2, <1>3, <1>4, <1>5, <1>6, Frames DEF Frame

LEMMA OtherTypesStep ==
    ASSUME ServerInv, LogTypes, TailTypes, OtherTypes, [Next]_vars PROVE OtherTypes'
<1>1. Len(requests) \in Nat /\ Len(requests') \in Nat /\ waiting \in 0..Len(requests)
  BY Moves, LenProperties DEF ServerInv, ServerOK, Sound, OtherTypes
<1>2. ASSUME Serves(requests, requests'), waiting' \in {0, waiting} PROVE waiting' \in 0..Len(requests')
  <2>1. Len(requests') = Len(requests)
    BY <1>2 DEF Serves
  <2> QED
    BY <1>1, <1>2, <2>1
<1>3. ASSUME NEW v, Sends(v) PROVE waiting' \in 0..Len(requests')
  <2>1. Len(requests') = Len(requests) + 1 /\ waiting' = Len(requests) + 1
    BY <1>3 DEF Sends, Asks
  <2> QED
    BY <1>1, <2>1
<1>4. doubted' \in [Events -> Nat]
  <2>1. ASSUME NEW v, Doubt(v) PROVE doubted' \in [Events -> Nat]
    <3>1. \A e \in Events : doubted[e] \in Nat /\ doubted[e] + 1 \in Nat /\ doubted[e] + 0 \in Nat
      BY DEF OtherTypes
    <3> QED
      BY <2>1, <3>1 DEF Doubt
  <2>2. (\E v : Doubt(v)) \/ UNCHANGED doubted
    BY Frames DEF Frame, PostFails, Dies, BatchFails
  <2> QED
    BY <2>1, <2>2 DEF OtherTypes
<1>5. replay' \in [sent: Nat, ended: BOOLEAN]
  <2>1. \/ replay' = [replay EXCEPT !.sent = @ + 1] \/ replay' = [replay EXCEPT !.ended = TRUE]
        \/ replay' = replay
    BY Frames DEF Frame, RowSent, RowFails
  <2>2. /\ replay = [sent |-> replay.sent, ended |-> replay.ended]
        /\ replay.sent \in Nat /\ replay.ended \in BOOLEAN
    BY DEF OtherTypes
  <2>3. \/ replay' = [sent |-> replay.sent + 1, ended |-> replay.ended]
        \/ replay' = [sent |-> replay.sent, ended |-> TRUE]
        \/ replay' = [sent |-> replay.sent, ended |-> replay.ended]
    BY <2>1, <2>2
  <2>4. replay.sent + 1 \in Nat
    BY <2>2
  <2>5. \A n \in Nat, b \in BOOLEAN : [sent |-> n, ended |-> b] \in [sent: Nat, ended: BOOLEAN]
    BY Zenon
  <2>6. TRUE \in BOOLEAN
    OBVIOUS
  <2> QED
    BY <2>2, <2>3, <2>4, <2>5, <2>6, Zenon
<1>6. deployed' = deployed
  BY Frames DEF Frame
<1>7. waiting' \in 0..Len(requests')
  BY <1>2, <1>3, Moves
<1> QED
  BY <1>4, <1>5, <1>6, <1>7 DEF OtherTypes

Base == ServerInv /\ LogTypes /\ TailTypes /\ PollTypes /\ OtherTypes

LEMMA BaseInit == Init => Base
<1> SUFFICES ASSUME Init PROVE Base
  OBVIOUS
<1>1. ServerInv
  <2>1. PICK rs, st : rs = requests /\ st = store
    OBVIOUS
  <2>2. rs = <<>> /\ st = [e \in Events |-> 0]
    BY <2>1 DEF Init, ServerInit
  <2>3. rs \in Seq(Requests) /\ Len(rs) = 0 /\ DOMAIN rs = {}
    BY <2>2
  <2>4. \A e : StoredIn(rs, e) = {}
    BY <2>3 DEF StoredIn
  <2>5. Sound(rs) /\ Counts(rs, st)
    BY <2>2, <2>3, <2>4, FS_EmptySet DEF Sound, Counts
  <2>6. ServerOK(rs, st)
    BY <2>3, <2>5, IngestionAssumption DEF ServerOK
  <2> QED
    BY <2>1, <2>6 DEF ServerInv
<1>2. LogTypes
  <2>1. <<>> \in Seq(Lines)
    OBVIOUS
  <2>2. files = <<<<>>>> /\ path = 1 /\ writer = 1 /\ written = 0 /\ turns = 0
    BY DEF Init
  <2>3. files \in Seq(Seq(Lines)) /\ Len(files) = 1
    BY <2>1, <2>2
  <2> QED
    BY <2>2, <2>3, DeliveryAssumption DEF LogTypes
<1>3. TailTypes
  <2>1. Len(files) = 1
    BY DEF Init
  <2> QED
    BY <2>1, DeliveryAssumption DEF Init, TailTypes
<1>4. PollTypes
  BY DeliveryAssumption DEF Init, PollTypes
<1>5. OtherTypes
  <2>1. replay \in [sent: Nat, ended: BOOLEAN]
    <3>1. \A n \in Nat, b \in BOOLEAN : [sent |-> n, ended |-> b] \in [sent: Nat, ended: BOOLEAN]
      BY Zenon
    <3>2. 0 \in Nat /\ FALSE \in BOOLEAN
      OBVIOUS
    <3> QED
      BY <3>1, <3>2, Zenon DEF Init
  <2>2. Len(requests) = 0
    BY DEF Init, ServerInit
  <2>3. deployed \in {"shipper", "poller", "hec", "replay"}
    BY DEF Init, Deployments
  <2>4. waiting = 0 /\ doubted \in [Events -> Nat]
    BY DEF Init
  <2> QED
    BY <2>1, <2>2, <2>3, <2>4 DEF OtherTypes
<1> QED
  BY <1>1, <1>2, <1>3, <1>4, <1>5 DEF Base

LEMMA BaseStep == Base /\ [Next]_vars => Base'
<1> SUFFICES ASSUME Base, [Next]_vars PROVE Base'
  OBVIOUS
<1>1. ServerInv'
  BY Moves, ServerPrimed DEF Base
<1> QED
  BY <1>1, LogTypesStep, TailTypesStep, PollTypesStep, OtherTypesStep DEF Base

(* The requests a client may still hear of are requests of the server that *)
(* are running or were answered, and what an event's count says is how     *)
(* many requests stored it.                                                *)
THEOREM BaseInvariant == Spec => []Base
  BY BaseInit, BaseStep, PTL DEF Spec

(* A request answered with success has its first values stored.            *)
LEMMA AnsweredStored ==
    ASSUME NEW rs, NEW st, Sound(rs), Counts(rs, st), NEW q \in DOMAIN rs, rs[q].st = "ok",
           NEW i \in 1..Taken(rs[q].values)
    PROVE  rs[q].values[i] \in Events /\ st[rs[q].values[i]] > 0
<1>1. PICK e : e = rs[q].values[i]
  OBVIOUS
<1>2. rs[q].done = Taken(rs[q].values) /\ rs \in Seq(Requests)
  BY RequestKnown DEF Proper, Sound
<1>3. e \in Events
  BY <1>1, <1>2, RequestKnown DEF Proper
<1>4. q \in StoredIn(rs, e)
  BY <1>1, <1>2 DEF StoredIn
<1>5. Cardinality(StoredIn(rs, e)) # 0
  BY <1>2, <1>4, Finite, FS_EmptySet
<1> QED
  BY <1>1, <1>2, <1>3, <1>5, Finite DEF Counts

(* What success says.  However often a request is repeated, cut off or     *)
(* failed, and whichever of the clients sends: a request that was answered *)
(* with success has had its first Limit values stored.                     *)
THEOREM SuccessIsStored == Spec => []SuccessMeansStored
<1>1. Base => SuccessMeansStored
  <2> SUFFICES ASSUME Base PROVE SuccessMeansStored
    OBVIOUS
  <2>1. PICK rs, st : rs = requests /\ st = store
    OBVIOUS
  <2>2. Sound(rs) /\ Counts(rs, st)
    BY <2>1 DEF Base, ServerInv, ServerOK
  <2>3. ASSUME NEW q \in DOMAIN rs, rs[q].st = "ok", NEW i \in 1..Taken(rs[q].values)
        PROVE  st[rs[q].values[i]] > 0
    BY <2>2, <2>3, AnsweredStored
  <2> QED
    BY <2>1, <2>3 DEF SuccessMeansStored
<1> QED
  BY <1>1, BaseInvariant, PTL

(***************************************************************************)
(* The poller                                                              *)
(***************************************************************************)

(* Only the shipper reads the log.                                         *)
OnlyShipper == deployed # "shipper" => tail.at = "open" /\ given = {}

LEMMA OnlyShipperStep == ASSUME OnlyShipper, [Next]_vars PROVE OnlyShipper'
<1>1. deployed' = deployed
  BY Frames DEF Frame
<1>2. CASE deployed # "shipper"
  BY <1>1, <1>2, Frames
     DEF OnlyShipper, Frame, Open, ReadLine, Stat, LineSent, PostFails, Dies, tailVars
<1> QED
  BY <1>1, <1>2 DEF OnlyShipper

LEMMA PollerOnly ==
    ASSUME deployed = "poller", OnlyShipper, [Next]_vars
    PROVE  Index \/ Tick \/ CycleEnds \/ SearchFails \/ PollerRestarts \/ PollOnce \/ UNCHANGED <<pollVars, waiting, deployed>>
<1>1. tail.at = "open" /\ deployed \notin {"hec", "replay", "shipper"}
  BY DEF OnlyShipper
<1>2. CASE UNCHANGED vars
  BY <1>2 DEF vars, clients
<1>6. CASE ServerStep /\ UNCHANGED <<deployed, clients>>
  BY <1>6 DEF clients
<1>3. CASE Write \/ Rotate \/ Reopen \/ Shipper
  BY <1>1, <1>3 DEF Write, Rotate, Reopen, Shipper, Open, ReadLine, Stat, PostLine, LineSent, PostFails, Dies
<1>4. CASE SendBatch \/ BatchFails \/ Replay
  BY <1>1, <1>4 DEF SendBatch, BatchFails, Replay, PostRow, RowSent, RowFails
<1>5. CASE Index \/ Tick \/ Poller
  BY <1>5 DEF Poller
<1> QED
  BY <1>2, <1>3, <1>4, <1>5, <1>6 DEF Next

LEMMA PollSends ==
    ASSUME Base, PollOnce
    PROVE  \/ Recent = {} /\ UNCHANGED <<store, requests, waiting>>
           \/ \E v : Polled(v, Recent) /\ Sends(v)
<1>1. ASSUME NEW v, Polled(v, Recent), Send("ingest", v), store' = store, waiting' = Len(requests) + 1
      PROVE  Sends(v)
  <2>1. v \in Values /\ Differ(v) /\ \A i \in DOMAIN v : v[i] # Undecodable
    BY <1>1 DEF Polled
  <2>2. ServerOK(requests', store') /\ Asks(requests, requests', v)
    BY <1>1, <2>1, Sending DEF Base
  <2> QED
    BY <1>1, <2>2 DEF Sends, PollOnce, Searches
<1> QED
  BY <1>1, PollAsks

(* How often event e was sent.                                             *)
Times(rs, e) == Cardinality(SentIn(rs, e))

LEMMA AsksTimes ==
    ASSUME NEW rs, NEW ts, NEW v, NEW e, Sound(rs), Asks(rs, ts, v)
    PROVE  /\ Times(rs, e) \in Nat
           /\ (\E i \in 1..Taken(v) : v[i] = e) => Times(ts, e) = Times(rs, e) + 1
           /\ ~(\E i \in 1..Taken(v) : v[i] = e) => Times(ts, e) = Times(rs, e)
<1>1. IsFiniteSet(SentIn(rs, e)) /\ Cardinality(SentIn(rs, e)) \in Nat
  BY Finite DEF Sound
<1>2. Len(rs) + 1 \notin SentIn(rs, e)
  BY LenProperties DEF Sound, SentIn
<1>3. SentIn(ts, e) = SentIn(rs, e) \cup (IF \E i \in 1..Taken(v) : v[i] = e THEN {Len(rs) + 1} ELSE {})
  BY DEF Asks
<1>4. CASE \E i \in 1..Taken(v) : v[i] = e
  <2>1. SentIn(ts, e) = SentIn(rs, e) \cup {Len(rs) + 1}
    BY <1>3, <1>4
  <2> QED
    BY <1>1, <1>2, <1>4, <2>1, FS_AddElement DEF Times
<1>5. CASE ~\E i \in 1..Taken(v) : v[i] = e
  <2>1. SentIn(ts, e) = SentIn(rs, e)
    BY <1>3, <1>5
  <2> QED
    BY <1>1, <1>5, <2>1 DEF Times
<1> QED
  BY <1>4, <1>5

LEMMA ServesTimes ==
    ASSUME NEW rs, NEW ts, Serves(rs, ts), NEW e PROVE Times(ts, e) = Times(rs, e)
  BY DEF Serves, Times

(* How often an event was sent.  A search that finds it comes an interval  *)
(* after the one before, unless the poller has been restarted since: such  *)
(* a restart has been counted, but not yet been used.                      *)
Unused == IF waiting = 0 /\ due < searched + Interval THEN 0 ELSE 1
SentWhen(n, at, last, m) ==
    /\ n \in Nat /\ (n >= 1 => at <= last)
    /\ n <= m \/ (n <= m + 1 /\ at + Interval <= last)
TwiceInv ==
    deployed = "poller" =>
        \A e \in Events :
            /\ SentWhen(Times(requests, e), Happened(e), searched, restarts + Unused)
            /\ Times(requests, e) >= 1 => indexed[e] >= 0

LEMMA SentStays ==
    ASSUME NEW n, NEW at \in Int, NEW last \in Nat, NEW m \in Nat, SentWhen(n, at, last, m),
           NEW last2 \in Nat, NEW m2 \in Nat, last <= last2, m <= m2
    PROVE  SentWhen(n, at, last2, m2)
  BY DeliveryAssumption DEF SentWhen

(* A search at last2 finds the event.                                      *)
LEMMA SentAgain ==
    ASSUME Earliest < 2 * Interval, NEW n, NEW at \in Int, NEW last \in Nat, NEW x \in Nat, NEW k \in {0, 1},
           SentWhen(n, at, last, x + k), NEW last2 \in Nat, last <= last2, at <= last2, at >= last2 - Earliest,
           k = 1 => last + Interval <= last2
    PROVE  SentWhen(n + 1, at, last2, x + 1)
<1>1. n \in Nat /\ Interval \in Nat /\ Earliest \in Nat
  BY DeliveryAssumption DEF SentWhen
<1>2. CASE k = 0
  BY <1>1, <1>2 DEF SentWhen
<1>3. CASE k = 1
  <2>1. last + Interval <= last2 /\ n <= x + 1
    BY <1>1, <1>3 DEF SentWhen
  <2>2. CASE n = 0
    BY <1>1, <2>1, <2>2 DEF SentWhen
  <2>3. CASE n >= 1
    <3>1. at <= last
      BY <2>3 DEF SentWhen
    <3> QED
      BY <1>1, <2>1, <3>1 DEF SentWhen
  <2> QED
    BY <1>1, <2>2, <2>3
<1> QED
  BY <1>2, <1>3

LEMMA UnusedType == Unused \in {0, 1}
  BY DEF Unused

LEMMA HappenedType ==
    ASSUME PollTypes, NEW e \in Events PROVE Happened(e) \in Int /\ Happened(e) <= indexed[e] /\ indexed[e] \in Int
  BY DeliveryAssumption DEF PollTypes, Happened

LEMMA TwiceStep ==
    ASSUME Earliest < 2 * Interval, Base, OnlyShipper, TwiceInv, [Next]_vars PROVE TwiceInv'
<1>1. deployed' = deployed
  BY Frames DEF Frame
<1> SUFFICES ASSUME deployed = "poller", NEW e \in Events
             PROVE  /\ SentWhen(Times(requests, e)', Happened(e)', searched', restarts' + Unused')
                    /\ Times(requests, e)' >= 1 => indexed'[e] >= 0
  BY <1>1 DEF TwiceInv
<1> DEFINE Goal == /\ SentWhen(Times(requests, e)', Happened(e)', searched', restarts' + Unused')
                   /\ Times(requests, e)' >= 1 => indexed'[e] >= 0
<1>2. PICK n, rs, ts : n = Times(rs, e) /\ rs = requests /\ ts = requests'
  OBVIOUS
<1>3. PICK r, s : r = restarts /\ s = searched
  OBVIOUS
<1>4. PICK k : k = Unused
  OBVIOUS
<1>5. PICK h : h = Happened(e)
  OBVIOUS
<1>6. /\ now \in Nat /\ s \in 0..now /\ due \in Nat /\ r \in Nat /\ k \in {0, 1} /\ h \in Int
      /\ h <= indexed[e] /\ indexed[e] \in Int /\ indexed[e] <= now
      /\ Interval \in Nat \ {0} /\ Earliest \in Nat
  BY <1>3, <1>4, <1>5, UnusedType, HappenedType, DeliveryAssumption DEF Base, PollTypes
<1>7. SentWhen(n, h, s, r + k) /\ n \in Nat /\ (n >= 1 => indexed[e] >= 0)
  BY <1>2, <1>3, <1>4, <1>5 DEF TwiceInv, SentWhen
<1>8. ASSUME Times(ts, e) = n, s <= searched', searched' \in Nat, restarts' + Unused' \in Nat,
             r + k <= restarts' + Unused', indexed'[e] = indexed[e] \/ indexed[e] < 0
      PROVE  Goal
  <2>1. Times(requests, e)' = n
    BY <1>2, <1>8 DEF Times, SentIn, Taken
  <2>2. PICK m2, s2 : m2 = restarts' + Unused' /\ s2 = searched'
    OBVIOUS
  <2>3. CASE indexed'[e] = indexed[e]
    <3>1. Happened(e)' = h
      BY <1>5, <2>3 DEF Happened
    <3>2. SentWhen(n, h, s2, m2)
      BY <1>6, <1>7, <1>8, <2>2, SentStays
    <3> QED
      BY <1>7, <2>1, <2>2, <2>3, <3>1, <3>2
  <2>4. CASE indexed[e] < 0
    <3>1. n = 0
      BY <1>6, <1>7, <2>4
    <3> QED
      BY <1>8, <2>1, <3>1 DEF SentWhen
  <2> QED
    BY <1>8, <2>3, <2>4
<1>9. CASE Index \/ Tick
  <2>1. /\ UNCHANGED <<requests, searched, restarts, waiting, due>>
        /\ indexed'[e] = indexed[e] \/ indexed[e] < 0
    BY <1>9 DEF Index, Tick, server, Base, PollTypes
  <2>2. Unused' = k
    BY <1>4, <2>1 DEF Unused
  <2> QED
    BY <1>2, <1>3, <1>6, <1>8, <2>1, <2>2
<1>10. CASE CycleEnds \/ SearchFails
  <2>1. UNCHANGED <<requests, searched, restarts, indexed>> /\ waiting' = 0 /\ due' = now + Interval
    BY <1>10 DEF CycleEnds, SearchFails, Searches, Delay
  <2>2. Unused' = 1
    BY <1>3, <1>6, <2>1 DEF Unused
  <2> QED
    BY <1>2, <1>3, <1>6, <1>8, <2>1, <2>2
<1>11. CASE PollerRestarts
  <2>1. UNCHANGED <<requests, searched, indexed>> /\ restarts' = r + 1
    BY <1>3, <1>11 DEF PollerRestarts
  <2>2. PICK u \in {0, 1} : u = Unused'
    BY DEF Unused
  <2>3. restarts' + Unused' \in Nat /\ r + k <= restarts' + Unused'
    <3>1. PICK w : w = restarts'
      OBVIOUS
    <3>2. r \in Nat /\ k \in {0, 1} /\ w = r + 1
      BY <1>6, <2>1, <3>1
    <3>3. u \in {0, 1}
      BY <2>2
    <3>4. w + u \in Nat /\ r + k <= w + u
      BY <3>2, <3>3
    <3> QED
      BY <2>2, <3>1, <3>4, Zenon
  <2>4. Times(ts, e) = n /\ s <= searched' /\ searched' \in Nat
    BY <1>2, <1>3, <1>6, <2>1
  <2> QED
    BY <1>8, <2>1, <2>3, <2>4
<1>12. CASE Serves(requests, requests') /\ UNCHANGED <<pollVars, waiting>>
  <2>1. Times(ts, e) = n
    BY <1>2, <1>12, ServesTimes
  <2>2. UNCHANGED <<searched, restarts, indexed, due, waiting>>
    BY <1>12 DEF pollVars
  <2>3. Unused' = k
    BY <1>4, <2>2 DEF Unused
  <2> QED
    BY <1>2, <1>3, <1>6, <1>8, <2>1, <2>2, <2>3
<1>13. CASE PollOnce
  <2>1. searched' = now /\ now >= due /\ waiting = 0 /\ UNCHANGED <<indexed, restarts>>
    BY <1>13 DEF PollOnce, Searches
  <2>2. k = 1 => s + Interval <= now
    BY <1>3, <1>4, <1>6, <2>1 DEF Unused
  <2>3. Unused' = 1
    <3>1. CASE Recent = {}
      <4>1. due' = now + Interval
        BY <1>13, <3>1 DEF PollOnce
      <4> QED
        BY <1>6, <2>1, <4>1 DEF Unused
    <3>2. CASE Recent # {}
      <4>1. waiting' = Len(requests) + 1
        BY <1>13, <3>2 DEF PollOnce
      <4>2. Len(requests) \in Nat
        BY LenProperties DEF Base, ServerInv, ServerOK, Sound
      <4> QED
        BY <4>1, <4>2 DEF Unused
    <3> QED
      BY <3>1, <3>2
  <2>4. CASE Times(ts, e) = n
    BY <1>3, <1>6, <1>8, <2>1, <2>3, <2>4
  <2>5. ASSUME NEW v, Polled(v, Recent), Sends(v), \E i \in 1..Taken(v) : v[i] = e PROVE Goal
    <3>1. Sound(rs) /\ Asks(rs, ts, v)
      BY <1>2, <2>5 DEF Base, ServerInv, ServerOK, Sends
    <3>2. Times(ts, e) = n + 1
      BY <1>2, <2>5, <3>1, AsksTimes
    <3>3. e \in Recent
      BY <2>5 DEF Polled
    <3>4. indexed[e] >= 0 /\ h >= now - Earliest /\ h <= now
      BY <1>5, <1>6, <3>3 DEF Recent
    <3>5. SentWhen(n + 1, h, now, r + 1)
      <4>1. PICK t : t = now
        OBVIOUS
      <4>2. /\ s \in Nat /\ t \in Nat /\ s <= t /\ h <= t /\ h >= t - Earliest /\ h \in Int
            /\ r \in Nat /\ k \in {0, 1} /\ (k = 1 => s + Interval <= t)
        BY <1>6, <2>2, <3>4, <4>1
      <4> QED
        BY <1>7, <4>1, <4>2, SentAgain
    <3>6. Times(requests, e)' = n + 1 /\ Happened(e)' = h
      BY <1>2, <1>5, <2>1, <3>2 DEF Times, SentIn, Taken, Happened
    <3> QED
      BY <1>3, <2>1, <2>3, <3>4, <3>5, <3>6
  <2>6. ASSUME NEW v, Polled(v, Recent), Sends(v), ~\E i \in 1..Taken(v) : v[i] = e PROVE Goal
    <3>1. Sound(rs) /\ Asks(rs, ts, v)
      BY <1>2, <2>6 DEF Base, ServerInv, ServerOK, Sends
    <3> QED
      BY <1>2, <2>4, <2>6, <3>1, AsksTimes
  <2>7. CASE UNCHANGED <<store, requests, waiting>>
    BY <1>2, <2>4, <2>7
  <2> QED
    BY <1>13, <2>5, <2>6, <2>7, PollSends
<1>14. UNCHANGED <<pollVars, waiting>> => Serves(requests, requests') \/ PollOnce
  <2>1. ~PostLine /\ ~SendBatch /\ ~PostRow
    BY DEF OnlyShipper, PostLine, SendBatch, PostRow
  <2> QED
    BY <2>1, Moves DEF Base
<1> QED
  BY <1>9, <1>10, <1>11, <1>12, <1>13, <1>14, PollerOnly

LEMMA StoredOften ==
    ASSUME NEW rs, NEW st, Sound(rs), Counts(rs, st), NEW e \in Events
    PROVE  /\ st[e] \in Nat /\ st[e] <= Times(rs, e) /\ Times(rs, e) \in Nat
           /\ st[e] > 0 <=> StoredIn(rs, e) # {}
<1>1. /\ IsFiniteSet(StoredIn(rs, e)) /\ Cardinality(StoredIn(rs, e)) \in Nat
      /\ Cardinality(SentIn(rs, e)) \in Nat
  BY Finite DEF Sound
<1>2. Cardinality(StoredIn(rs, e)) <= Cardinality(SentIn(rs, e))
  BY StoredWasSent
<1>3. Cardinality(StoredIn(rs, e)) = 0 <=> StoredIn(rs, e) = {}
  BY <1>1, FS_EmptySet
<1>4. st[e] = Cardinality(StoredIn(rs, e))
  BY DEF Counts
<1> QED
  BY <1>1, <1>2, <1>3, <1>4 DEF Times

LEMMA StartTimes == ASSUME Init PROVE Len(requests) = 0 /\ \A e : SentIn(requests, e) = {} /\ Times(requests, e) = 0
<1>1. requests = <<>> /\ DOMAIN <<>> = {}
  BY DEF Init, ServerInit
<1>2. \A e : SentIn(requests, e) = {}
  BY <1>1 DEF SentIn
<1> QED
  BY <1>1, <1>2, FS_EmptySet DEF Times

(* The windows of the search overlap by less than an interval, 30 of 60 s  *)
(* as the code is delivered, so whatever fails, is late or is lost, an     *)
(* event is forwarded, and stored, at most twice, and once more for each   *)
(* restart of the poller.                                                  *)
THEOREM StoredTwiceAndPerRestart == ASSUME Earliest < 2 * Interval PROVE Spec => []TwiceAndPerRestart
<1>1. Init => OnlyShipper /\ TwiceInv
  <2> SUFFICES ASSUME Init PROVE OnlyShipper /\ TwiceInv
    OBVIOUS
  <2>1. OnlyShipper
    BY DEF Init, OnlyShipper
  <2>2. PICK k \in {0, 1} : k = Unused
    BY UnusedType
  <2>3. \A e \in Events : Times(requests, e) = 0
    BY StartTimes
  <2>4. restarts = 0
    BY DEF Init
  <2>5. \A h, t : SentWhen(0, h, t, 0 + k)
    BY <2>2 DEF SentWhen
  <2>6. TwiceInv
    <3> SUFFICES ASSUME NEW e \in Events
                 PROVE  /\ SentWhen(Times(requests, e), Happened(e), searched, restarts + Unused)
                        /\ Times(requests, e) >= 1 => indexed[e] >= 0
      BY DEF TwiceInv
    <3>1. SentWhen(0, Happened(e), searched, 0 + k)
      BY <2>5
    <3>2. SentWhen(Times(requests, e), Happened(e), searched, restarts + Unused)
      BY <2>2, <2>3, <2>4, <3>1, Zenon
    <3>3. ~(Times(requests, e) >= 1)
      BY <2>3
    <3> QED
      BY <3>2, <3>3
  <2> QED
    BY <2>1, <2>6
<1>2. Base /\ OnlyShipper /\ TwiceInv /\ [Next]_vars => OnlyShipper' /\ TwiceInv'
  BY OnlyShipperStep, TwiceStep
<1>3. Base /\ TwiceInv => TwiceAndPerRestart
  <2> SUFFICES ASSUME Base, TwiceInv, deployed = "poller", NEW e \in Events PROVE store[e] <= 2 + restarts
    BY DEF TwiceAndPerRestart
  <2>1. PICK rs, st : rs = requests /\ st = store
    OBVIOUS
  <2>2. PICK n, k : n = Times(rs, e) /\ k = Unused
    OBVIOUS
  <2>3. n \in Nat /\ n <= restarts + k + 1 /\ k \in {0, 1} /\ restarts \in Nat
    BY <2>1, <2>2, UnusedType DEF TwiceInv, SentWhen, Base, PollTypes
  <2>4. st[e] \in Nat /\ st[e] <= n
    BY <2>1, <2>2, StoredOften DEF Base, ServerInv, ServerOK
  <2> QED
    BY <2>1, <2>3, <2>4
<1> QED
  BY <1>1, <1>2, <1>3, BaseInvariant, PTL DEF Spec

(* Every event that was indexed before the last search that was forwarded  *)
(* in full is stored, and of those indexed since, the request under way    *)
(* has what its search had to find.                                        *)
Late(e, since) == Lag[e] + since > Earliest
GapInv ==
    deployed = "poller" /\ ~overfull =>
        \A e \in Events : 0 <= indexed[e] =>
            /\ indexed[e] < covered => Late(e, longest) \/ StoredIn(requests, e) # {}
            /\ waiting # 0 /\ covered <= indexed[e] /\ indexed[e] < searched
                 => Late(e, searched - covered) \/ waiting \in SentIn(requests, e)

LEMMA GapStep == ASSUME Base, OnlyShipper, GapInv, [Next]_vars PROVE GapInv'
<1>1. deployed' = deployed
  BY Frames DEF Frame
<1>2. PICK rs, ts : rs = requests /\ ts = requests'
  OBVIOUS
<1> SUFFICES ASSUME deployed = "poller", ~overfull', NEW e \in Events, 0 <= indexed'[e]
             PROVE  /\ indexed'[e] < covered' => Late(e, longest') \/ StoredIn(ts, e) # {}
                    /\ waiting' # 0 /\ covered' <= indexed'[e] /\ indexed'[e] < searched'
                         => Late(e, searched' - covered') \/ waiting' \in SentIn(ts, e)
  BY <1>1, <1>2 DEF GapInv, Late, StoredIn, SentIn, Taken
<1>3. /\ now \in Nat /\ searched \in 0..now /\ covered \in 0..searched /\ longest \in Nat
      /\ indexed[e] \in Int /\ indexed[e] <= now /\ Lag[e] \in Nat /\ Earliest \in Nat
  BY DeliveryAssumption DEF Base, PollTypes
<1>4. Sound(rs)
  BY <1>2 DEF Base, ServerInv, ServerOK
<1>5. ~overfull /\ 0 <= indexed[e] =>
        /\ indexed[e] < covered => Late(e, longest) \/ StoredIn(rs, e) # {}
        /\ waiting # 0 /\ covered <= indexed[e] /\ indexed[e] < searched
             => Late(e, searched - covered) \/ waiting \in SentIn(rs, e)
  BY <1>2 DEF GapInv
<1>6. CASE Index \/ Tick
  <2>1. UNCHANGED <<requests, waiting, overfull, searched, covered, longest>>
    BY <1>6 DEF Index, Tick, server
  <2>2. indexed'[e] = indexed[e] \/ indexed'[e] = now
    BY <1>6 DEF Index, Tick, Base, PollTypes
  <2> QED
    BY <1>2, <1>3, <1>5, <2>1, <2>2
<1>7. CASE CycleEnds
  <2>1. UNCHANGED <<requests, indexed, searched, overfull>> /\ waiting' = 0 /\ waiting # 0
    BY <1>7 DEF CycleEnds
  <2>2. CASE UNCHANGED <<covered, longest>>
    BY <1>2, <1>5, <2>1, <2>2
  <2>3. CASE EndOf(waiting) = "ok" /\ Covers(searched)
    <3>1. PICK q : q = waiting
      OBVIOUS
    <3>2. rs[q].st = "ok" /\ ts = rs
      BY <1>2, <2>1, <2>3, <3>1 DEF EndOf
    <3>3. q \in SentIn(rs, e) => q \in StoredIn(rs, e)
      <4>1. ASSUME q \in DOMAIN rs PROVE rs[q].done = Taken(rs[q].values)
        BY <1>4, <3>2, <4>1, RequestKnown DEF Proper
      <4> QED
        BY <4>1 DEF SentIn, StoredIn
    <3>4. covered' = searched /\ longest' \in Nat /\ longest <= longest' /\ searched - covered <= longest'
      BY <1>3, <2>3 DEF Covers
    <3>5. Late(e, longest) \/ Late(e, searched - covered) => Late(e, longest')
      BY <1>3, <3>4 DEF Late
    <3> QED
      BY <1>3, <1>5, <2>1, <3>1, <3>2, <3>3, <3>4, <3>5
  <2> QED
    BY <1>7, <2>2, <2>3 DEF CycleEnds
<1>8. CASE SearchFails \/ PollerRestarts
  <2>1. UNCHANGED <<requests, indexed, searched, covered, longest, overfull>> /\ waiting' = 0
    BY <1>8 DEF SearchFails, PollerRestarts, Searches
  <2> QED
    BY <1>2, <1>5, <2>1
<1>9. CASE Serves(requests, requests') /\ UNCHANGED <<pollVars, waiting>>
  <2>1. Serves(rs, ts) /\ UNCHANGED <<indexed, searched, covered, longest, overfull, waiting>>
    BY <1>2, <1>9 DEF pollVars
  <2> QED
    BY <1>5, <2>1 DEF Serves
<1>10. CASE PollOnce
  <2>1. searched' = now /\ waiting = 0 /\ UNCHANGED indexed /\ ~overfull /\ Cardinality(Recent) <= Limit
    <3>1. /\ searched' = now /\ waiting = 0 /\ UNCHANGED indexed
          /\ overfull' = (overfull \/ Cardinality(Recent) > Limit)
      BY <1>10 DEF PollOnce, Searches
    <3>2. ~overfull /\ ~(Cardinality(Recent) > Limit)
      BY <3>1, Zenon
    <3>3. Cardinality(Recent) \in Nat
      <4>1. Recent \subseteq Events
        BY DEF Recent
      <4> QED
        BY <4>1, DeliveryAssumption, FS_Subset, FS_CardinalityType
    <3> QED
      BY <3>1, <3>2, <3>3, IngestionAssumption
  <2>2. covered <= indexed[e] => Late(e, now - covered) \/ e \in Recent
    BY <1>3, <2>1 DEF Late, Recent, Happened
  <2>3. CASE Recent = {} /\ UNCHANGED <<store, requests, waiting>>
    <3>1. Covers(now)
      BY <1>10, <2>3 DEF PollOnce
    <3>2. covered' = now /\ longest' \in Nat /\ longest <= longest' /\ now - covered <= longest'
      BY <1>3, <3>1 DEF Covers
    <3>3. Late(e, longest) \/ Late(e, now - covered) => Late(e, longest')
      BY <1>3, <3>2 DEF Late
    <3> QED
      BY <1>2, <1>3, <1>5, <2>1, <2>2, <2>3, <3>2, <3>3
  <2>4. ASSUME NEW v, Polled(v, Recent), Sends(v), Recent # {}
        PROVE  /\ indexed'[e] < covered' => Late(e, longest') \/ StoredIn(ts, e) # {}
               /\ waiting' # 0 /\ covered' <= indexed'[e] /\ indexed'[e] < searched'
                    => Late(e, searched' - covered') \/ waiting' \in SentIn(ts, e)
    <3>1. Asks(rs, ts, v) /\ waiting' = Len(rs) + 1
      BY <1>2, <2>4 DEF Sends
    <3>2. StoredIn(ts, e) = StoredIn(rs, e) /\ UNCHANGED <<covered, longest>>
      BY <1>10, <2>4, <3>1 DEF Asks, PollOnce
    <3>3. e \in Recent => \E i \in 1..Taken(v) : v[i] = e
      BY <2>1, <2>4 DEF Polled
    <3>4. e \in Recent => waiting' \in SentIn(ts, e)
      BY <3>1, <3>3 DEF Asks
    <3> QED
      BY <1>5, <2>1, <2>2, <3>2, <3>4
  <2>5. ASSUME NEW v, Sends(v) PROVE Recent # {}
    <3>1. waiting' # waiting
      BY <2>1, <2>5, LenProperties DEF Sends, Base, ServerInv, ServerOK, Sound
    <3>2. Recent = {} => waiting' = waiting
      BY <1>10 DEF PollOnce
    <3> QED
      BY <3>1, <3>2
  <2> QED
    BY <1>10, <2>3, <2>4, <2>5, PollSends
<1>11. UNCHANGED <<pollVars, waiting>> => Serves(requests, requests') \/ PollOnce
  <2>1. ~PostLine /\ ~SendBatch /\ ~PostRow
    BY DEF OnlyShipper, PostLine, SendBatch, PostRow
  <2> QED
    BY <2>1, Moves DEF Base
<1> QED
  BY <1>6, <1>7, <1>8, <1>9, <1>10, <1>11, PollerOnly

(* An event is missed only when the time until it was indexed and the      *)
(* longest time between two searches that were forwarded in full do not    *)
(* fit into the window, or a search found more than may be taken.          *)
THEOREM NoSilentGap == Spec => []GapNeedsDelay
<1>1. Init => OnlyShipper /\ GapInv
  BY DEF Init, OnlyShipper, GapInv
<1>2. Base /\ OnlyShipper /\ GapInv /\ [Next]_vars => OnlyShipper' /\ GapInv'
  BY OnlyShipperStep, GapStep
<1>3. Base /\ GapInv => GapNeedsDelay
  <2> SUFFICES ASSUME Base, GapInv, deployed = "poller", ~overfull,
                      NEW e \in Events, indexed[e] \in 0..(covered - 1), Lag[e] + longest <= Earliest
               PROVE  store[e] > 0
    BY DEF GapNeedsDelay
  <2>1. PICK rs, st : rs = requests /\ st = store
    OBVIOUS
  <2>2. Sound(rs) /\ Counts(rs, st)
    BY <2>1 DEF Base, ServerInv, ServerOK
  <2>3. 0 <= indexed[e] /\ indexed[e] < covered /\ ~Late(e, longest)
    BY DeliveryAssumption DEF Base, PollTypes, Late
  <2>4. StoredIn(rs, e) # {}
    BY <2>1, <2>3 DEF GapInv
  <2> QED
    BY <2>1, <2>2, <2>4, StoredOften
<1> QED
  BY <1>1, <1>2, <1>3, BaseInvariant, PTL DEF Spec

(***************************************************************************)
(* The log                                                                 *)
(***************************************************************************)

(* Lines lie in the files in the order they were written, and nothing has  *)
(* been written to a file that the web server has not opened yet.          *)
FilesInv ==
    /\ path = Len(files) /\ writer <= path
    /\ \A i \in 1..Len(files) : i > writer => Len(files[i]) = 0
    /\ \A i \in 1..Len(files) : \A k \in 1..Len(files[i]) : files[i][k] <= written
    /\ \A i, j \in 1..Len(files) : \A k \in 1..Len(files[i]) : \A m \in 1..Len(files[j]) :
         i < j \/ (i = j /\ k < m) => files[i][k] < files[j][m]

LEMMA FilesStep == ASSUME LogTypes, FilesInv, [Next]_vars PROVE FilesInv'
<1>1. CASE Write
  <2>1. writer' = writer /\ path' = path /\ written' = written + 1 /\ written \in Nat /\ Len(files') = Len(files)
        /\ writer \in 1..Len(files) /\ Len(files) \in Nat
    BY <1>1, WriteMakes, FileKnown DEF Write, LogTypes
  <2>2. ASSUME NEW i \in 1..Len(files), NEW k \in 1..Len(files'[i])
        PROVE  \/ k \in 1..Len(files[i]) /\ files'[i][k] = files[i][k]
               \/ i = writer /\ k = Len(files[i]) + 1 /\ files'[i][k] = written + 1
    <3>1. CASE i = writer
      <4>1. /\ Len(files'[i]) = Len(files[i]) + 1 /\ files'[i][Len(files[i]) + 1] = written + 1
            /\ \A m \in 1..Len(files[i]) : files'[i][m] = files[i][m]
        BY <1>1, <3>1, WriteMakes
      <4>2. Len(files[i]) \in Nat
        BY FileKnown
      <4> QED
        BY <3>1, <4>1, <4>2
    <3>2. CASE i # writer
      BY <1>1, <3>2, WriteMakes
    <3> QED
      BY <3>1, <3>2
  <2>3. \A i \in 1..Len(files) : i > writer => Len(files'[i]) = 0
    <3> SUFFICES ASSUME NEW i \in 1..Len(files), i > writer PROVE Len(files'[i]) = 0
      OBVIOUS
    <3>1. i # writer /\ Len(files[i]) = 0
      BY <2>1 DEF FilesInv
    <3> QED
      BY <1>1, <3>1, WriteMakes
  <2>4. \A i \in 1..Len(files) : \A k \in 1..Len(files'[i]) : files'[i][k] \in Int /\ files'[i][k] <= written + 1
    <3> SUFFICES ASSUME NEW i \in 1..Len(files), NEW k \in 1..Len(files'[i])
                 PROVE  files'[i][k] \in Int /\ files'[i][k] <= written + 1
      OBVIOUS
    <3>1. CASE k \in 1..Len(files[i]) /\ files'[i][k] = files[i][k]
      <4>1. files[i][k] \in Int /\ files[i][k] <= written
        BY <3>1, FileKnown, DeliveryAssumption DEF FilesInv, Lines
      <4> QED
        BY <2>1, <3>1, <4>1
    <3> QED
      BY <2>1, <2>2, <3>1
  <2>5. ASSUME NEW i \in 1..Len(files), NEW j \in 1..Len(files),
               NEW k \in 1..Len(files'[i]), NEW m \in 1..Len(files'[j]), i < j \/ (i = j /\ k < m)
        PROVE  files'[i][k] < files'[j][m]
    <3>1. Len(files[i]) \in Nat /\ Len(files[j]) \in Nat
      BY FileKnown
    <3>2. CASE k \in 1..Len(files[i]) /\ files'[i][k] = files[i][k]
      <4>1. files[i][k] \in Int /\ files[i][k] <= written
        BY <3>2, FileKnown, DeliveryAssumption DEF FilesInv, Lines
      <4>2. CASE m \in 1..Len(files[j]) /\ files'[j][m] = files[j][m]
        BY <2>5, <3>2, <4>2 DEF FilesInv
      <4>3. CASE files'[j][m] = written + 1
        BY <2>1, <3>2, <4>1, <4>3
      <4> QED
        BY <2>2, <4>2, <4>3
    <3>3. CASE i = writer /\ k = Len(files[i]) + 1
      <4>1. i < j => Len(files'[j]) = 0
        BY <2>1, <2>3, <3>3
      <4>2. i = j => m \in 1..Len(files[i]) \/ m = Len(files[i]) + 1
        BY <2>2
      <4> QED
        BY <2>5, <3>1, <3>3, <4>1, <4>2
    <3> QED
      BY <2>2, <3>2, <3>3
  <2> QED
    BY <2>1, <2>3, <2>4, <2>5 DEF FilesInv
<1>2. CASE Rotate
  <2>1. writer' = writer /\ written' = written /\ path = writer /\ path = Len(files) /\ Len(files) \in Nat
    BY <1>2, FileKnown DEF Rotate, FilesInv
  <2>2. /\ path' = Len(files') /\ writer' <= path' /\ Len(files') \in Nat
        /\ Len(files'[path']) = 0
        /\ \A i \in 1..Len(files') : i # path' => i \in 1..Len(files) /\ files'[i] = files[i]
        /\ \A i \in 1..Len(files') : i > writer => i = path'
    <3>1. /\ Len(files'[path']) = 0
          /\ \A i \in 1..Len(files) : i # path' => files'[i] = files[i]
          /\ \/ Len(files') = Len(files) + 1 /\ path' = Len(files')
             \/ Len(files') = Len(files) /\ path' = path
      BY <1>2, RotateMakes
    <3>2. path' = Len(files') /\ writer' <= path' /\ Len(files') \in Nat
      BY <2>1, <3>1
    <3>3. \A i \in 1..Len(files') : i # path' => i \in 1..Len(files)
      BY <2>1, <3>1
    <3>4. \A i \in 1..Len(files') : i > writer => i = path'
      BY <2>1, <3>1
    <3> QED
      BY <3>1, <3>2, <3>3, <3>4
  <2>4. ASSUME NEW i \in 1..Len(files'), NEW k \in 1..Len(files'[i])
        PROVE  i \in 1..Len(files) /\ files'[i] = files[i]
    <3>1. i # path'
      <4>1. CASE i = path'
        <5>1. Len(files'[i]) = 0
          BY <2>2, <4>1
        <5> QED
          BY <5>1
      <4> QED
        BY <4>1
    <3> QED
      BY <2>2, <3>1, Zenon
  <2>5. \A i \in 1..Len(files') : i > writer => Len(files'[i]) = 0
    BY <2>2
  <2>6. \A i \in 1..Len(files') : \A k \in 1..Len(files'[i]) : files'[i][k] <= written
    BY <2>4 DEF FilesInv
  <2>7. \A i, j \in 1..Len(files') : \A k \in 1..Len(files'[i]) : \A m \in 1..Len(files'[j]) :
          i < j \/ (i = j /\ k < m) => files'[i][k] < files'[j][m]
    <3> SUFFICES ASSUME NEW i \in 1..Len(files'), NEW j \in 1..Len(files'),
                        NEW k \in 1..Len(files'[i]), NEW m \in 1..Len(files'[j]), i < j \/ (i = j /\ k < m)
                 PROVE  files'[i][k] < files'[j][m]
      OBVIOUS
    <3>1. i \in 1..Len(files) /\ files'[i] = files[i] /\ j \in 1..Len(files) /\ files'[j] = files[j]
      BY <2>4
    <3> QED
      BY <3>1 DEF FilesInv
  <2> QED
    BY <2>1, <2>2, <2>5, <2>6, <2>7 DEF FilesInv
<1>3. CASE Reopen
  <2>1. UNCHANGED <<files, path, written>> /\ writer' = path
    BY <1>3 DEF Reopen
  <2> QED
    BY <2>1, FileKnown DEF FilesInv, LogTypes
<1>4. CASE UNCHANGED fileVars
  BY <1>4 DEF FilesInv, fileVars
<1> QED
  BY <1>1, <1>2, <1>3, <1>4, Frames DEF Frame

(* What the shipper can still read.                                        *)
Pending(i, k) ==
    IF tail.at = "open" THEN tail.ino # 0 /\ i = path
    ELSE i > tail.ino \/ (i = tail.ino /\ (k > tail.pos \/ tail.pos > Len(files[i])))

(***************************************************************************)
(* The shipper                                                             *)
(***************************************************************************)

LEMMA ShipperOnly ==
    ASSUME deployed = "shipper", Base, [Next]_vars
    PROVE  \/ Serves(requests, requests') /\ UNCHANGED clients
           \/ Write \/ Rotate \/ Reopen
           \/ Open \/ ReadLine \/ Stat \/ LineSent \/ PostFails \/ Dies
           \/ PostLine /\ Sends(<<line>>)
<1>1. CASE UNCHANGED vars
  <2>1. Serves(requests, requests)
    BY DEF Serves
  <2> QED
    BY <1>1, <2>1 DEF vars, server
<1>2. CASE ServerStep /\ UNCHANGED <<deployed, clients>>
  BY <1>2, ServerSteps DEF Base
<1>3. CASE Index \/ Tick \/ Poller \/ SendBatch \/ BatchFails \/ Replay
  BY <1>3 DEF Index, Tick, Poller, PollOnce, CycleEnds, SearchFails, PollerRestarts, Searches, SendBatch, BatchFails,
              Replay, PostRow, RowSent, RowFails
<1>4. CASE PostLine
  <2>1. line \in Events
    BY <1>4, DeliveryAssumption DEF Base, PostLine, TailTypes
  <2>2. Send("ingest", <<line>>) /\ store' = store /\ waiting' = Len(requests) + 1 /\ waiting = 0
    BY <1>4 DEF PostLine
  <2>3. ServerOK(requests', store') /\ Asks(requests, requests', <<line>>)
    BY <2>1, <2>2, SingleValue, Sending DEF Base
  <2> QED
    BY <1>4, <2>2, <2>3 DEF Sends
<1> QED
  BY <1>1, <1>2, <1>3, <1>4 DEF Next, Shipper

(* What the shipper waits for is the line it has in hand.                  *)
WaitInv ==
    deployed = "shipper" /\ waiting # 0 => tail.at = "send" /\ requests[waiting].values = <<line>>

LEMMA WaitStep == ASSUME Base, WaitInv, [Next]_vars PROVE WaitInv'
<1>1. deployed' = deployed
  BY Frames DEF Frame
<1> SUFFICES ASSUME deployed = "shipper", waiting' # 0
             PROVE  tail'.at = "send" /\ requests'[waiting'].values = <<line'>>
  BY <1>1 DEF WaitInv
<1>2. waiting \in 0..Len(requests) /\ DOMAIN requests = 1..Len(requests)
  BY LenProperties DEF Base, OtherTypes, ServerInv, ServerOK, Sound
<1>3. CASE Serves(requests, requests') /\ UNCHANGED clients
  <2>1. waiting' = waiting /\ tail' = tail /\ line' = line /\ waiting \in DOMAIN requests
    BY <1>2, <1>3 DEF clients, tailVars
  <2>2. requests'[waiting].values = requests[waiting].values
    BY <1>3, <2>1 DEF Serves
  <2> QED
    BY <2>1, <2>2 DEF WaitInv
<1>4. CASE Write \/ Rotate \/ Reopen
  BY <1>4 DEF WaitInv, Write, Rotate, Reopen, server, tailVars
<1>5. CASE Open \/ ReadLine \/ Stat
  BY <1>5 DEF WaitInv, Open, ReadLine, Stat, server
<1>6. CASE LineSent \/ PostFails \/ Dies
  BY <1>6 DEF LineSent, PostFails, Dies
<1>7. CASE PostLine /\ Sends(<<line>>)
  <2>1. requests'[Len(requests) + 1].values = <<line>> /\ waiting' = Len(requests) + 1
    BY <1>7 DEF Sends, Asks
  <2> QED
    BY <1>7, <2>1 DEF PostLine, tailVars
<1> QED
  BY <1>3, <1>4, <1>5, <1>6, <1>7, ShipperOnly

(* A line that has been read or sent is older than all that can be read.   *)
Reached(rs, g, l) == l \in g \/ SentIn(rs, l) # {}
Older(l) ==
    l <= written /\ \A i \in 1..Len(files) : \A k \in 1..Len(files[i]) : Pending(i, k) => l < files[i][k]
ReachInv == deployed = "shipper" => \A l \in Lines : Reached(requests, given, l) => Older(l)

(* What is older stays older, whatever happens to the log and to the tail. *)
LEMMA OlderStays ==
    ASSUME Base, FilesInv, [Next]_vars, deployed = "shipper", NEW l \in Lines, Older(l) PROVE Older(l)'
<1>0. tail = [at |-> tail.at, ino |-> tail.ino, pos |-> tail.pos]
  BY DEF Base, TailTypes
<1>1. /\ Len(files) \in Nat /\ path = Len(files) /\ path \in 1..Len(files) /\ written \in Nat /\ l \in Nat
      /\ tail.ino \in 0..Len(files) /\ tail.pos \in Nat /\ (tail.at # "open" => tail.ino # 0)
  BY FileKnown, DeliveryAssumption DEF Base, LogTypes, TailTypes, FilesInv, Lines
<1>2. l <= written /\ \A i \in 1..Len(files) : \A k \in 1..Len(files[i]) : Pending(i, k) => l < files[i][k]
  BY DEF Older
<1>3. \A i \in 1..Len(files) : Len(files[i]) \in Nat
  BY FileKnown DEF Base
<1>4. ASSUME files' = files, written' = written, path' = path,
             \A i \in 1..Len(files) : \A k \in 1..Len(files[i]) : Pending(i, k)' => Pending(i, k)
      PROVE  Older(l)'
  BY <1>2, <1>4 DEF Older
<1>5. CASE UNCHANGED fileVars /\ UNCHANGED tailVars
  BY <1>4, <1>5 DEF fileVars, tailVars, Pending
<1>6. CASE Write
  <2>1. /\ path' = path /\ tail' = tail /\ writer \in 1..Len(files) /\ written' = written + 1
    BY <1>6 DEF Write, tailVars, Base, LogTypes
  <2>2. /\ Len(files') = Len(files)
        /\ \A i \in 1..Len(files) : i # writer => files'[i] = files[i]
        /\ Len(files'[writer]) = Len(files[writer]) + 1
        /\ \A k \in 1..Len(files[writer]) : files'[writer][k] = files[writer][k]
        /\ files'[writer][Len(files[writer]) + 1] = written + 1
    BY <1>6, WriteMakes DEF Base
  <2> SUFFICES ASSUME NEW i \in 1..Len(files), NEW k \in 1..Len(files'[i]), Pending(i, k)'
               PROVE  l < files'[i][k]
    BY <1>1, <1>2, <2>1, <2>2 DEF Older
  <2>3. CASE i # writer
    BY <1>2, <2>1, <2>2, <2>3 DEF Pending
  <2>4. CASE i = writer /\ k = Len(files[writer]) + 1
    BY <1>1, <1>2, <2>2, <2>4
  <2>5. CASE i = writer /\ k \in 1..Len(files[writer])
    <3>1. Pending(i, k)
      BY <1>1, <1>3, <2>1, <2>2, <2>5 DEF Pending
    <3> QED
      BY <1>2, <2>2, <2>5, <3>1
  <2>6. i = writer => k \in 1..Len(files[writer]) \/ k = Len(files[writer]) + 1
    BY <1>3, <2>1, <2>2
  <2> QED
    BY <2>3, <2>4, <2>5, <2>6
<1>7. CASE Rotate
  <2>1. written' = written /\ tail' = tail
    BY <1>7 DEF Rotate, tailVars
  <2> SUFFICES ASSUME NEW i \in 1..Len(files'), NEW k \in 1..Len(files'[i]), Pending(i, k)'
               PROVE  l < files'[i][k]
    BY <1>1, <1>2, <2>1 DEF Older
  <2>2. /\ Len(files'[path']) = 0
        /\ \A j \in 1..Len(files) : j # path' => files'[j] = files[j]
        /\ \/ Len(files') = Len(files) + 1 /\ path' = Len(files')
           \/ Len(files') = Len(files) /\ path' = path
    BY <1>7, RotateMakes DEF Base
  <2>3. i # path'
    <3>1. CASE i = path'
      <4>1. Len(files'[i]) = 0
        BY <2>2, <3>1
      <4> QED
        BY <4>1
    <3> QED
      BY <3>1
  <2>4. i \in 1..Len(files)
    BY <1>1, <2>2, <2>3
  <2>5. files'[i] = files[i]
    BY <2>2, <2>3, <2>4
  <2>6. Pending(i, k)
    BY <1>1, <2>1, <2>3, <2>5 DEF Pending
  <2> QED
    BY <1>2, <2>4, <2>5, <2>6
<1>8. CASE Reopen
  BY <1>4, <1>8 DEF Reopen, tailVars, Pending
<1>9. CASE Open
  <2>1. files' = files /\ written' = written /\ path' = path
        /\ tail' = [at |-> "read", ino |-> path, pos |-> IF tail.ino = 0 THEN Len(files[path]) ELSE 0]
        /\ tail.at = "open"
    BY <1>9 DEF Open, fileVars
  <2>2. ASSUME NEW i \in 1..Len(files), NEW k \in 1..Len(files[i]), Pending(i, k)' PROVE Pending(i, k)
    BY <1>1, <1>3, <2>1, <2>2 DEF Pending
  <2> QED
    BY <1>4, <2>1, <2>2
<1>10. CASE ReadLine
  <2>1. files' = files /\ written' = written /\ path' = path /\ tail.at = "read" /\ tail.ino # 0
    BY <1>1, <1>10 DEF ReadLine, fileVars
  <2>2. /\ tail'.ino = tail.ino
        /\ \/ tail'.at = "send" /\ tail'.pos = tail.pos + 1 /\ tail.pos < Len(files[tail.ino])
           \/ tail'.at = "stat" /\ tail'.pos = tail.pos
    <3>1. \/ tail' = [tail EXCEPT !.at = "send", !.pos = @ + 1] /\ tail.pos < Len(files[tail.ino])
          \/ tail' = [tail EXCEPT !.at = "stat"]
      BY <1>10 DEF ReadLine
    <3>2. \/ tail' = [at |-> "send", ino |-> tail.ino, pos |-> tail.pos + 1] /\ tail.pos < Len(files[tail.ino])
          \/ tail' = [at |-> "stat", ino |-> tail.ino, pos |-> tail.pos]
      BY <1>0, <3>1
    <3> QED
      BY <3>2
  <2>3. ASSUME NEW i \in 1..Len(files), NEW k \in 1..Len(files[i]), Pending(i, k)' PROVE Pending(i, k)
    <3>1. tail'.at # "open" /\ (i > tail.ino \/ (i = tail.ino /\ (k > tail'.pos \/ tail'.pos > Len(files[i]))))
      BY <2>1, <2>2, <2>3 DEF Pending
    <3>2. i > tail.ino \/ (i = tail.ino /\ (k > tail.pos \/ tail.pos > Len(files[i])))
      <4>1. CASE i = tail.ino
        <5>1. Len(files[i]) \in Nat /\ k \in Nat
          BY <1>3
        <5>2. k > tail'.pos \/ tail'.pos > Len(files[i])
          BY <3>1, <4>1
        <5>3. tail'.pos = tail.pos \/ (tail'.pos = tail.pos + 1 /\ tail.pos < Len(files[i]))
          BY <2>2, <4>1
        <5> QED
          BY <1>1, <4>1, <5>1, <5>2, <5>3
      <4> QED
        BY <3>1, <4>1
    <3> QED
      BY <2>1, <3>2 DEF Pending
  <2> QED
    BY <1>4, <2>1, <2>3
<1>11. CASE Stat
  <2>1. files' = files /\ written' = written /\ path' = path /\ tail.at = "stat" /\ tail.ino # 0
    BY <1>1, <1>11 DEF Stat, fileVars
  <2>2. /\ tail'.ino = tail.ino /\ tail'.pos = tail.pos
        /\ \/ tail'.at = "open" /\ (path # tail.ino \/ Len(files[tail.ino]) < tail.pos)
           \/ tail'.at = "read"
    <3>1. tail' = [tail EXCEPT !.at = IF Replaced THEN "open" ELSE "read"]
      BY <1>11 DEF Stat
    <3>2. CASE Replaced
      <4>1. tail' = [at |-> "open", ino |-> tail.ino, pos |-> tail.pos]
        BY <1>0, <3>1, <3>2
      <4> QED
        BY <3>2, <4>1 DEF Replaced
    <3>3. CASE ~Replaced
      <4>1. tail' = [at |-> "read", ino |-> tail.ino, pos |-> tail.pos]
        BY <1>0, <3>1, <3>3
      <4> QED
        BY <4>1
    <3> QED
      BY <3>2, <3>3
  <2>3. ASSUME NEW i \in 1..Len(files), NEW k \in 1..Len(files[i]), Pending(i, k)' PROVE Pending(i, k)
    <3>1. CASE tail'.at = "open"
      <4>1. i = path
        BY <2>1, <2>3, <3>1 DEF Pending
      <4>2. i > tail.ino \/ (i = tail.ino /\ tail.pos > Len(files[i]))
        <5>1. CASE path # tail.ino
          BY <1>1, <4>1, <5>1
        <5>2. CASE path = tail.ino /\ Len(files[tail.ino]) < tail.pos
          <6>1. Len(files[tail.ino]) \in Nat
            BY <1>1, <1>3, <5>2
          <6> QED
            BY <1>1, <4>1, <5>2, <6>1
        <5> QED
          BY <2>2, <3>1, <5>1, <5>2
      <4> QED
        BY <2>1, <4>2 DEF Pending
    <3>2. CASE tail'.at = "read"
      <4>1. i > tail.ino \/ (i = tail.ino /\ (k > tail.pos \/ tail.pos > Len(files[i])))
        BY <2>1, <2>2, <2>3, <3>2 DEF Pending
      <4> QED
        BY <2>1, <4>1 DEF Pending
    <3> QED
      BY <2>2, <3>1, <3>2
  <2> QED
    BY <1>4, <2>1, <2>3
<1>12. CASE LineSent \/ PostFails
  <2>1. files' = files /\ written' = written /\ path' = path /\ tail.at = "send"
        /\ \/ tail' = [tail EXCEPT !.at = "read"] \/ tail' = [tail EXCEPT !.at = "send"]
    BY <1>12 DEF LineSent, PostFails, StaysAt, fileVars
  <2>2. ASSUME NEW i \in 1..Len(files), NEW k \in 1..Len(files[i]), Pending(i, k)' PROVE Pending(i, k)
    BY <1>1, <1>3, <2>1, <2>2 DEF Pending, Base, TailTypes
  <2> QED
    BY <1>4, <2>1, <2>2
<1>13. CASE Dies
  BY <1>4, <1>13 DEF Dies, fileVars, Pending
<1>14. CASE PostLine
  BY <1>5, <1>14 DEF PostLine
<1>15. CASE UNCHANGED clients
  BY <1>5, <1>15 DEF clients
<1> QED
  BY <1>6, <1>7, <1>8, <1>9, <1>10, <1>11, <1>12, <1>13, <1>14, <1>15, ShipperOnly

(* The line that is read is newer than all lines reached before.           *)
LEMMA LineRead ==
    ASSUME Base, FilesInv, ReachInv, deployed = "shipper", ReadLine, tail.pos < Len(files[tail.ino])
    PROVE  /\ line' \in Lines /\ given' = given \cup {line'} /\ tail'.at = "send"
           /\ \A l \in Lines : Reached(requests, given, l) => l < line'
           /\ \A n : n = line' => Older(n)'
           /\ UNCHANGED <<requests, waiting, doubted, files, path, written, turns>>
           /\ tail' = [at |-> "send", ino |-> tail.ino, pos |-> tail.pos + 1]
           /\ tail.ino \in 1..Len(files) /\ tail.pos + 1 \in 1..Len(files[tail.ino])
           /\ line' = files[tail.ino][tail.pos + 1]
<1>1. /\ line' = files[tail.ino][tail.pos + 1] /\ given' = given \cup {line'}
      /\ tail' = [tail EXCEPT !.at = "send", !.pos = @ + 1] /\ tail.at = "read"
      /\ UNCHANGED <<requests, waiting, doubted, files, path, written, turns>>
  BY DEF ReadLine, server, fileVars
<1>2. tail' = [at |-> "send", ino |-> tail.ino, pos |-> tail.pos + 1]
  <2>1. tail = [at |-> tail.at, ino |-> tail.ino, pos |-> tail.pos]
    BY DEF Base, TailTypes
  <2> QED
    BY <1>1, <2>1
<1>3. /\ tail.ino \in 1..Len(files) /\ tail.pos \in Nat /\ tail.pos + 1 \in 1..Len(files[tail.ino])
      /\ Len(files) \in Nat /\ Len(files[tail.ino]) \in Nat
  <2>1. tail.ino \in 1..Len(files) /\ tail.pos \in Nat /\ Len(files) \in Nat
    BY <1>1, FileKnown DEF Base, TailTypes
  <2> QED
    BY <2>1, FileKnown DEF Base
<1>4. line' \in Lines
  BY <1>1, <1>3, FileKnown DEF Base
<1>5. Pending(tail.ino, tail.pos + 1)
  BY <1>1, <1>3 DEF Pending
<1>6. ASSUME NEW l \in Lines, Reached(requests, given, l) PROVE l < line'
  <2>1. Older(l)
    BY <1>6 DEF ReachInv
  <2> QED
    BY <1>1, <1>3, <1>5, <2>1 DEF Older
<1>7. ASSUME NEW n, n = line' PROVE Older(n)'
  <2>1. n <= written /\ n = files[tail.ino][tail.pos + 1]
    BY <1>1, <1>3, <1>7 DEF FilesInv
  <2>2. ASSUME NEW i \in 1..Len(files), NEW k \in 1..Len(files[i]), Pending(i, k)' PROVE n < files[i][k]
    <3>1. i > tail.ino \/ (i = tail.ino /\ (k > tail.pos + 1 \/ tail.pos + 1 > Len(files[i])))
      BY <1>1, <1>2, <2>2 DEF Pending
    <3>2. tail.ino < i \/ (tail.ino = i /\ tail.pos + 1 < k)
      <4>1. Len(files[i]) \in Nat
        BY FileKnown DEF Base
      <4> QED
        BY <1>3, <3>1, <4>1
    <3> QED
      BY <1>3, <2>1, <3>2 DEF FilesInv
  <2>3. UNCHANGED <<files, written>>
    BY <1>1
  <2> QED
    BY <2>1, <2>2, <2>3 DEF Older
<1> QED
  BY <1>1, <1>2, <1>3, <1>4, <1>6, <1>7

LEMMA ReachStep == ASSUME Base, FilesInv, ReachInv, [Next]_vars PROVE ReachInv'
<1>1. deployed' = deployed
  BY Frames DEF Frame
<1>2. PICK rs, ts : rs = requests /\ ts = requests'
  OBVIOUS
<1> SUFFICES ASSUME deployed = "shipper", NEW l \in Lines, Reached(ts, given', l) PROVE Older(l)'
  BY <1>1, <1>2 DEF ReachInv, Reached, SentIn, Taken
<1>3. Reached(rs, given, l) => Older(l)'
  BY <1>2, OlderStays DEF ReachInv
<1>4. CASE Serves(requests, requests') /\ UNCHANGED clients
  <2>1. Serves(rs, ts) /\ given' = given
    BY <1>2, <1>4 DEF clients, tailVars
  <2> QED
    BY <1>3, <2>1 DEF Serves, Reached
<1>5. CASE Write \/ Rotate \/ Reopen
  BY <1>2, <1>3, <1>5 DEF Write, Rotate, Reopen, server, tailVars
<1>6. CASE Open \/ Stat \/ LineSent \/ PostFails
  BY <1>2, <1>3, <1>6 DEF Open, Stat, LineSent, PostFails, server
<1>7. CASE ReadLine
  <2>1. CASE tail.pos < Len(files[tail.ino])
    <3>1. ts = rs /\ given' = given \cup {line'}
      BY <1>2, <1>7, <2>1, LineRead
    <3>2. l = line' => Older(l)'
      BY <1>7, <2>1, LineRead
    <3> QED
      BY <1>3, <3>1, <3>2 DEF Reached
  <2>2. CASE ~(tail.pos < Len(files[tail.ino]))
    <3>1. ts = rs /\ given' = given
      BY <1>2, <1>7, <2>2 DEF ReadLine, server
    <3> QED
      BY <1>3, <3>1
  <2> QED
    BY <2>1, <2>2
<1>8. CASE Dies
  <2>1. ts = rs /\ given' = {}
    BY <1>2, <1>8 DEF Dies, server
  <2> QED
    BY <1>3, <2>1 DEF Reached
<1>9. CASE PostLine /\ Sends(<<line>>)
  <2>1. Asks(rs, ts, <<line>>) /\ given' = given /\ line \in given /\ line \in Events
    BY <1>2, <1>9, DeliveryAssumption DEF Sends, PostLine, tailVars, Base, TailTypes
  <2>2. SentIn(ts, l) # {} => SentIn(rs, l) # {} \/ l = line
    BY <2>1, SingleValue DEF Asks
  <2> QED
    BY <1>3, <2>1, <2>2 DEF Reached
<1> QED
  BY <1>4, <1>5, <1>6, <1>7, <1>8, <1>9, ShipperOnly

(* The line in hand is the newest of those read, and the only one that may *)
(* not be stored yet.                                                      *)
GivenInv ==
    deployed = "shipper" =>
        /\ tail.at = "send" => \A k \in given : k <= line
        /\ \A k \in given : StoredIn(requests, k) # {} \/ (tail.at = "send" /\ k = line)

LEMMA GivenStep == ASSUME Base, FilesInv, WaitInv, ReachInv, GivenInv, [Next]_vars PROVE GivenInv'
<1>1. deployed' = deployed
  BY Frames DEF Frame
<1>2. PICK rs, ts : rs = requests /\ ts = requests'
  OBVIOUS
<1>3. Sound(rs)
  BY <1>2 DEF Base, ServerInv, ServerOK
<1> SUFFICES ASSUME deployed = "shipper"
             PROVE  /\ tail'.at = "send" => \A k \in given' : k <= line'
                    /\ \A k \in given' : StoredIn(ts, k) # {} \/ (tail'.at = "send" /\ k = line')
  BY <1>1, <1>2 DEF GivenInv, StoredIn
<1>4. /\ tail.at = "send" => \A k \in given : k <= line
      /\ \A k \in given : StoredIn(rs, k) # {} \/ (tail.at = "send" /\ k = line)
  BY <1>2 DEF GivenInv
<1>5. CASE Serves(requests, requests') /\ UNCHANGED clients
  <2>1. Serves(rs, ts) /\ given' = given /\ tail' = tail /\ line' = line
    BY <1>2, <1>5 DEF clients, tailVars
  <2> QED
    BY <1>4, <2>1 DEF Serves
<1>6. CASE Write \/ Rotate \/ Reopen
  BY <1>2, <1>4, <1>6 DEF Write, Rotate, Reopen, server, tailVars
<1>7. CASE Open \/ Stat
  <2>1. ts = rs /\ given' = given /\ line' = line /\ tail.at # "send" /\ tail'.at # "send"
    BY <1>2, <1>7 DEF Open, Stat, server, Base, TailTypes
  <2> QED
    BY <1>4, <2>1
<1>8. CASE ReadLine
  <2>1. CASE tail.pos < Len(files[tail.ino])
    <3>1. /\ ts = rs /\ given' = given \cup {line'} /\ tail'.at = "send" /\ line' \in Lines
          /\ \A l \in Lines : Reached(rs, given, l) => l < line'
      BY <1>2, <1>8, <2>1, LineRead
    <3>2. \A k \in given : k \in Lines /\ k < line'
      BY <3>1 DEF Reached, Base, TailTypes
    <3>3. tail.at # "send"
      BY <1>8 DEF ReadLine
    <3>4. Lines \subseteq Nat
      BY DeliveryAssumption DEF Lines
    <3>5. ASSUME NEW k \in given' PROVE k <= line'
      <4>1. PICK n : n = line'
        OBVIOUS
      <4>2. n \in Nat /\ (k = n \/ (k \in Nat /\ k < n))
        BY <3>1, <3>2, <3>4, <4>1
      <4>3. k <= n
        BY <4>2
      <4> QED
        BY <4>1, <4>3
    <3> QED
      BY <1>4, <3>1, <3>3, <3>5
  <2>2. CASE ~(tail.pos < Len(files[tail.ino]))
    <3>1. ts = rs /\ given' = given /\ tail'.at = "stat" /\ tail.at = "read"
      BY <1>2, <1>8, <2>2 DEF ReadLine, server, Base, TailTypes
    <3> QED
      BY <1>4, <3>1
  <2> QED
    BY <2>1, <2>2
<1>9. CASE LineSent
  <2>1. ts = rs /\ given' = given /\ tail.at = "send" /\ tail'.at = "read" /\ waiting # 0 /\ EndOf(waiting) = "ok"
    BY <1>2, <1>9 DEF LineSent, server, Base, TailTypes
  <2>2. line \in Events /\ waiting \in DOMAIN rs /\ rs[waiting].values = <<line>> /\ rs[waiting].st = "ok"
    BY <1>2, <1>3, <2>1, DeliveryAssumption, LenProperties
       DEF WaitInv, EndOf, Base, OtherTypes, TailTypes, Sound
  <2>3. PICK q : q = waiting
    OBVIOUS
  <2>4. rs[q].done = Taken(<<line>>)
    BY <1>3, <2>2, <2>3, RequestKnown DEF Proper
  <2>5. rs[q].done = 1 /\ <<line>>[1] = line
    BY <2>2, <2>4, SingleValue
  <2>6. q \in StoredIn(rs, line)
    BY <2>2, <2>3, <2>5 DEF StoredIn
  <2> QED
    BY <1>4, <2>1, <2>6
<1>10. CASE PostFails
  <2>1. ts = rs /\ given' = given /\ line' = line /\ tail.at = "send" /\ tail'.at = "send"
    BY <1>2, <1>10 DEF PostFails, StaysAt, server, Base, TailTypes
  <2> QED
    BY <1>4, <2>1
<1>11. CASE Dies
  BY <1>11 DEF Dies
<1>12. CASE PostLine /\ Sends(<<line>>)
  <2>1. Asks(rs, ts, <<line>>) /\ given' = given /\ tail' = tail /\ line' = line
    BY <1>2, <1>12 DEF Sends, PostLine, tailVars
  <2> QED
    BY <1>4, <2>1 DEF Asks
<1> QED
  BY <1>5, <1>6, <1>7, <1>8, <1>9, <1>10, <1>11, <1>12, ShipperOnly

LEMMA DoubtMakes ==
    ASSUME OtherTypes, NEW v, Doubt(v), NEW e \in Events
    PROVE  /\ doubted[e] \in Nat /\ doubted'[e] \in Nat /\ doubted[e] <= doubted'[e]
           /\ (\E i \in DOMAIN v : v[i] = e) => doubted'[e] = doubted[e] + 1
<1>1. doubted[e] \in Nat
  BY DEF OtherTypes
<1>2. doubted'[e] = doubted[e] + IF \E i \in DOMAIN v : v[i] = e THEN 1 ELSE 0
  BY DEF Doubt
<1>3. CASE \E i \in DOMAIN v : v[i] = e
  BY <1>1, <1>2, <1>3
<1>4. CASE ~\E i \in DOMAIN v : v[i] = e
  BY <1>1, <1>2, <1>4
<1> QED
  BY <1>3, <1>4

(* An event is sent once more only when it is not known what became of the *)
(* request before.                                                         *)
CopiesInv ==
    deployed = "shipper" =>
        /\ \A e \in Events : Times(requests, e) <= doubted[e] + 1
        /\ tail.at = "send" /\ waiting = 0 => Times(requests, line) <= doubted[line]

LEMMA CopiesStep == ASSUME Base, FilesInv, WaitInv, ReachInv, CopiesInv, [Next]_vars PROVE CopiesInv'
<1>1. deployed' = deployed
  BY Frames DEF Frame
<1>2. PICK rs, ts : rs = requests /\ ts = requests'
  OBVIOUS
<1>3. Sound(rs)
  BY <1>2 DEF Base, ServerInv, ServerOK
<1> SUFFICES ASSUME deployed = "shipper"
             PROVE  /\ \A e \in Events : Times(ts, e) <= doubted'[e] + 1
                    /\ tail'.at = "send" /\ waiting' = 0 => Times(ts, line') <= doubted'[line']
  BY <1>1, <1>2 DEF CopiesInv, Times, SentIn, Taken
<1>4. /\ \A e \in Events : Times(rs, e) <= doubted[e] + 1 /\ doubted[e] \in Nat /\ Times(rs, e) \in Nat
      /\ tail.at = "send" /\ waiting = 0 => Times(rs, line) <= doubted[line]
  <2>1. \A e \in Events : doubted[e] \in Nat /\ Times(rs, e) \in Nat
    BY <1>3, Finite DEF Base, OtherTypes, Times, Sound
  <2> QED
    BY <1>2, <2>1 DEF CopiesInv
<1>5. tail.at = "send" => line \in Events
  BY DeliveryAssumption DEF Base, TailTypes
<1>6. CASE Serves(requests, requests') /\ UNCHANGED clients
  <2>1. UNCHANGED <<doubted, tail, line, waiting>> /\ Serves(rs, ts)
    BY <1>2, <1>6 DEF clients, tailVars
  <2>2. \A e : Times(ts, e) = Times(rs, e)
    BY <2>1, ServesTimes
  <2> QED
    BY <1>4, <2>1, <2>2
<1>7. CASE Write \/ Rotate \/ Reopen
  BY <1>2, <1>4, <1>7 DEF Write, Rotate, Reopen, server, tailVars
<1>8. CASE Open \/ Stat
  <2>1. ts = rs /\ doubted' = doubted /\ tail'.at # "send"
    BY <1>2, <1>8 DEF Open, Stat, server, Base, TailTypes
  <2> QED
    BY <1>4, <2>1
<1>9. CASE ReadLine
  <2>1. CASE tail.pos < Len(files[tail.ino])
    <3>1. /\ ts = rs /\ doubted' = doubted /\ line' \in Lines
          /\ \A l \in Lines : Reached(rs, given, l) => l < line'
      BY <1>2, <1>9, <2>1, LineRead
    <3>2. PICK n : n = line'
      OBVIOUS
    <3>3. n \in Nat /\ n \in Events
      BY <3>1, <3>2, DeliveryAssumption DEF Lines
    <3>4. ~Reached(rs, given, n)
      <4>1. Reached(rs, given, n) => n < n
        BY <3>1, <3>2
      <4> QED
        BY <3>3, <4>1
    <3>5. Times(rs, n) = 0
      BY <3>4, FS_EmptySet DEF Reached, Times
    <3> QED
      BY <1>4, <3>1, <3>2, <3>3, <3>5
  <2>2. CASE ~(tail.pos < Len(files[tail.ino]))
    <3>1. ts = rs /\ doubted' = doubted /\ tail'.at = "stat"
      BY <1>2, <1>9, <2>2 DEF ReadLine, server, Base, TailTypes
    <3> QED
      BY <1>4, <3>1
  <2> QED
    BY <2>1, <2>2
<1>10. CASE LineSent
  <2>1. ts = rs /\ doubted' = doubted /\ tail'.at = "read"
    BY <1>2, <1>10 DEF LineSent, server, Base, TailTypes
  <2> QED
    BY <1>4, <2>1
<1>11. CASE PostFails \/ Dies
  <2>1. ts = rs /\ Doubt(<<line>>) /\ line \in Events
        /\ ((line' = line /\ tail'.at = "send") \/ tail'.at = "open")
    <3>1. waiting # 0 /\ tail.at = "send" /\ Doubt(requests[waiting].values) /\ ts = rs
      BY <1>2, <1>11 DEF PostFails, Dies, server
    <3>2. requests[waiting].values = <<line>>
      BY <3>1 DEF WaitInv
    <3>3. (line' = line /\ tail'.at = "send") \/ tail'.at = "open"
      BY <1>11, <3>1 DEF PostFails, Dies, StaysAt, Base, TailTypes
    <3> QED
      BY <1>5, <3>1, <3>2, <3>3
  <2>2. \A e \in Events : doubted'[e] \in Nat /\ doubted[e] <= doubted'[e]
    BY <2>1, DoubtMakes DEF Base
  <2>3. doubted'[line] = doubted[line] + 1
    <3>1. \E i \in DOMAIN <<line>> : <<line>>[i] = line
      OBVIOUS
    <3> QED
      BY <2>1, <3>1, DoubtMakes DEF Base
  <2>4. \A e \in Events : Times(ts, e) <= doubted'[e] + 1
    BY <1>4, <2>1, <2>2
  <2>5. Times(ts, line) <= doubted'[line]
    BY <1>4, <2>1, <2>3
  <2> QED
    BY <2>1, <2>4, <2>5
<1>12. CASE PostLine /\ Sends(<<line>>)
  <2>1. /\ Asks(rs, ts, <<line>>) /\ doubted' = doubted /\ line \in Events
        /\ tail.at = "send" /\ waiting = 0 /\ waiting' = Len(rs) + 1
    BY <1>2, <1>5, <1>12 DEF Sends, PostLine
  <2>2. waiting' # 0
    BY <1>3, <2>1, LenProperties DEF Sound
  <2>3. ASSUME NEW e \in Events PROVE Times(ts, e) <= doubted'[e] + 1
    <3>1. CASE e = line
      <4>1. Times(ts, e) = Times(rs, e) + 1
        BY <1>3, <2>1, <3>1, SingleValue, AsksTimes
      <4> QED
        BY <1>4, <2>1, <3>1, <4>1
    <3>2. CASE e # line
      <4>1. Times(ts, e) = Times(rs, e)
        BY <1>3, <2>1, <3>2, SingleValue, AsksTimes
      <4> QED
        BY <1>4, <2>1, <4>1
    <3> QED
      BY <3>1, <3>2
  <2> QED
    BY <2>2, <2>3
<1> QED
  BY <1>6, <1>7, <1>8, <1>9, <1>10, <1>11, <1>12, ShipperOnly

(* The same of a HEC client, for all the events of its batch.              *)
HecInv ==
    deployed = "hec" =>
        \A e \in Events : Times(requests, e) <= doubted[e] + IF waiting \in SentIn(requests, e) THEN 1 ELSE 0

LEMMA HecStep == ASSUME Base, OnlyShipper, HecInv, [Next]_vars PROVE HecInv'
<1>1. deployed' = deployed
  BY Frames DEF Frame
<1>2. PICK rs, ts : rs = requests /\ ts = requests'
  OBVIOUS
<1>3. Sound(rs)
  BY <1>2 DEF Base, ServerInv, ServerOK
<1> SUFFICES ASSUME deployed = "hec", NEW e \in Events
             PROVE  Times(ts, e) <= doubted'[e] + IF waiting' \in SentIn(ts, e) THEN 1 ELSE 0
  BY <1>1, <1>2 DEF HecInv, Times, SentIn, Taken
<1>4. /\ Times(rs, e) <= doubted[e] + IF waiting \in SentIn(rs, e) THEN 1 ELSE 0
      /\ Times(rs, e) \in Nat /\ doubted[e] \in Nat
  <2>1. doubted[e] \in Nat /\ Times(rs, e) \in Nat
    BY <1>3, Finite DEF Base, OtherTypes, Times, Sound
  <2> QED
    BY <1>2, <2>1 DEF HecInv
<1>5. CASE Serves(requests, requests') /\ UNCHANGED <<waiting, doubted>>
  <2>1. SentIn(ts, e) = SentIn(rs, e) /\ Times(ts, e) = Times(rs, e)
    BY <1>2, <1>5, ServesTimes DEF Serves
  <2> QED
    BY <1>4, <1>5, <2>1
<1>6. CASE BatchFails
  <2>1. ts = rs /\ Doubt(rs[waiting].values) /\ waiting' = 0
    BY <1>2, <1>6 DEF BatchFails
  <2>2. PICK v : v = rs[waiting].values
    OBVIOUS
  <2>3. waiting \in SentIn(rs, e) => \E i \in DOMAIN v : v[i] = e
    <3>1. waiting \in DOMAIN rs => \A i \in 1..Taken(v) : i \in DOMAIN v
      BY <1>3, <2>2, RequestKnown
    <3> QED
      BY <2>2, <3>1 DEF SentIn
  <2>4. doubted'[e] \in Nat /\ doubted[e] <= doubted'[e] /\ (waiting \in SentIn(rs, e) => doubted'[e] = doubted[e] + 1)
    BY <2>1, <2>2, <2>3, DoubtMakes DEF Base
  <2>5. Times(rs, e) <= doubted'[e]
    BY <1>4, <2>4
  <2> QED
    BY <1>4, <2>1, <2>4, <2>5
<1>7. ASSUME NEW v, SendBatch, Sends(v) PROVE Times(ts, e) <= doubted'[e] + IF waiting' \in SentIn(ts, e) THEN 1 ELSE 0
  <2>1. Asks(rs, ts, v) /\ doubted' = doubted /\ waiting = 0 /\ waiting' = Len(rs) + 1
    BY <1>2, <1>7 DEF Sends, SendBatch
  <2>2. waiting \notin SentIn(rs, e)
    BY <1>3, <2>1, LenProperties DEF Sound, SentIn
  <2>3. Times(rs, e) <= doubted[e]
    BY <1>4, <2>2
  <2>4. CASE \E i \in 1..Taken(v) : v[i] = e
    <3>1. Times(ts, e) = Times(rs, e) + 1
      BY <1>3, <2>1, <2>4, AsksTimes
    <3>2. waiting' \in SentIn(ts, e)
      BY <2>1, <2>4 DEF Asks
    <3> QED
      BY <1>4, <2>1, <2>3, <3>1, <3>2
  <2>5. CASE ~\E i \in 1..Taken(v) : v[i] = e
    <3>1. Times(ts, e) = Times(rs, e)
      BY <1>3, <2>1, <2>5, AsksTimes
    <3> QED
      BY <1>4, <2>1, <2>3, <3>1
  <2> QED
    BY <2>4, <2>5
<1>8. tail.at = "open"
  BY DEF OnlyShipper
<1>9. \/ Serves(requests, requests') /\ UNCHANGED <<waiting, doubted>>
      \/ BatchFails \/ \E v : SendBatch /\ Sends(v)
  <2>1. Serves(requests, requests)
    BY DEF Serves
  <2>2. CASE UNCHANGED vars
    BY <2>1, <2>2 DEF vars, server, clients
  <2>3. CASE ServerStep /\ UNCHANGED <<deployed, clients>>
    BY <2>3, ServerSteps DEF Base, clients
  <2>4. CASE Write \/ Rotate \/ Reopen \/ Shipper
    BY <1>8, <2>1, <2>4 DEF Write, Rotate, Reopen, Shipper, Open, ReadLine, Stat, PostLine, LineSent, PostFails, Dies, server
  <2>5. CASE Index \/ Tick \/ Poller \/ Replay
    BY <2>5 DEF Index, Tick, Poller, PollOnce, CycleEnds, SearchFails, PollerRestarts, Searches, Replay, PostRow, RowSent, RowFails
  <2>6. CASE SendBatch
    <3>1. \E v : Sends(v)
      <4>1. waiting' # waiting /\ waiting' # 0
        BY <2>6, LenProperties DEF SendBatch, Base, ServerInv, ServerOK, Sound
      <4>2. ~PostRow /\ ~PollOnce
        BY DEF PostRow, PollOnce, Searches
      <4> QED
        BY <4>1, <4>2, Moves DEF Base
    <3> QED
      BY <2>6, <3>1
  <2> QED
    BY <2>2, <2>3, <2>4, <2>5, <2>6 DEF Next
<1> QED
  BY <1>5, <1>6, <1>7, <1>9

(* As long as the log is neither rotated nor truncated, line k is at place *)
(* k and the shipper has read all from its first line on.                  *)
WholeLog ==
    /\ Len(files) = 1 /\ Len(files[1]) = written
    /\ \A k \in 1..written : files[1][k] = k
WholeTail ==
    IF tail.at = "open" THEN given = {} /\ tail.ino = 0
    ELSE /\ tail.ino = 1 /\ tail.pos <= written
         /\ \A l \in given : l <= tail.pos
         /\ \A j \in given, k \in Lines : j < k /\ k <= tail.pos => k \in given
WholeInv == turns = 0 => WholeLog /\ WholeTail

LEMMA WholeStep == ASSUME Base, WholeInv, [Next]_vars PROVE WholeInv'
<1>1. turns \in Nat /\ written \in Nat /\ tail.pos \in Nat /\ Lines \subseteq Nat /\ given \subseteq Lines
      /\ tail = [at |-> tail.at, ino |-> tail.ino, pos |-> tail.pos]
  BY DeliveryAssumption DEF Base, LogTypes, TailTypes, Lines
<1> SUFFICES ASSUME turns' = 0 PROVE WholeLog' /\ WholeTail'
  BY DEF WholeInv
<1>2. ~Rotate /\ turns = 0
  <2>1. turns' = turns + 1 \/ turns' = turns
    BY Frames DEF Frame, Write, Rotate, Reopen, fileVars
  <2>2. turns = 0
    BY <1>1, <2>1
  <2> QED
    BY <2>2 DEF Rotate
<1>3. WholeLog /\ WholeTail
  BY <1>2 DEF WholeInv
<1>4. written <= written' /\ written' \in Nat /\ WholeLog'
  <2>1. CASE Write
    <3>1. writer = 1 /\ written' = written + 1
      BY <1>3, <2>1 DEF WholeLog, Write, Base, LogTypes
    <3>2. /\ Len(files') = 1 /\ Len(files'[1]) = written + 1
          /\ \A k \in 1..written : files'[1][k] = k
          /\ files'[1][written + 1] = written + 1
      BY <1>3, <2>1, <3>1, WriteMakes DEF WholeLog, Base
    <3>3. \A k \in 1..(written + 1) : files'[1][k] = k
      BY <1>1, <3>2
    <3> QED
      BY <1>1, <3>1, <3>2, <3>3 DEF WholeLog
  <2>2. CASE UNCHANGED <<files, written>>
    BY <1>1, <1>3, <2>2 DEF WholeLog
  <2> QED
    BY <1>2, <2>1, <2>2, Frames DEF Frame, Reopen, fileVars
<1> SUFFICES WholeTail'
  BY <1>4
<1>10. ASSUME tail'.at # "open", tail'.ino = 1, tail'.pos <= written', \A l \in given' : l <= tail'.pos,
              \A j \in given', k \in Lines : j < k /\ k <= tail'.pos => k \in given'
       PROVE  WholeTail'
  BY <1>10 DEF WholeTail
<1>5. CASE UNCHANGED tailVars
  <2>1. tail' = tail /\ given' = given
    BY <1>5 DEF tailVars
  <2>2. CASE tail.at = "open"
    BY <1>3, <2>1, <2>2 DEF WholeTail
  <2>3. CASE tail.at # "open"
    <3>1. /\ tail.ino = 1 /\ tail.pos <= written
          /\ \A l \in given : l <= tail.pos
          /\ \A j \in given, k \in Lines : j < k /\ k <= tail.pos => k \in given
      BY <1>3, <2>3 DEF WholeTail
    <3>2. tail.pos <= written'
      BY <1>1, <1>4, <3>1
    <3> QED
      BY <1>10, <2>1, <2>3, <3>1, <3>2
  <2> QED
    BY <2>2, <2>3
<1>6. CASE Open
  <2>1. tail.at = "open" /\ given' = given /\ path = 1 /\ written' = written
    BY <1>3, <1>6 DEF Open, fileVars, WholeLog, Base, LogTypes
  <2>2. given = {} /\ tail.ino = 0
    BY <1>3, <2>1 DEF WholeTail
  <2>3. tail' = [at |-> "read", ino |-> 1, pos |-> written]
    BY <1>3, <1>6, <2>1, <2>2 DEF Open, WholeLog
  <2> QED
    BY <1>1, <1>10, <2>1, <2>2, <2>3
<1>7. CASE ReadLine
  <2>1. tail.ino = 1 /\ tail.at = "read" /\ tail.pos <= written /\ written' = written /\ Len(files[1]) = written
        /\ \A l \in given : l <= tail.pos
        /\ \A j \in given, k \in Lines : j < k /\ k <= tail.pos => k \in given
    BY <1>3, <1>7 DEF ReadLine, WholeTail, WholeLog, fileVars
  <2>2. CASE tail.pos < written
    <3>1. /\ line' = files[1][tail.pos + 1] /\ given' = given \cup {line'}
          /\ tail' = [tail EXCEPT !.at = "send", !.pos = @ + 1]
      BY <1>7, <2>1, <2>2 DEF ReadLine
    <3>2. tail' = [at |-> "send", ino |-> 1, pos |-> tail.pos + 1]
      BY <1>1, <2>1, <3>1
    <3>3. line' = tail.pos + 1
      BY <1>1, <1>3, <2>2, <3>1 DEF WholeLog
    <3>4. given' = given \cup {tail.pos + 1} /\ given \subseteq Nat
      BY <1>1, <3>1, <3>3
    <3>5. \A l \in given' : l <= tail.pos + 1
      BY <1>1, <2>1, <3>4
    <3>6. ASSUME NEW j \in given', NEW k \in Lines, j < k, k <= tail.pos + 1 PROVE k \in given'
      <4>1. k \in Nat /\ j \in Nat
        BY <1>1, <3>4
      <4>2. CASE k = tail.pos + 1
        BY <3>4, <4>2
      <4>3. CASE k <= tail.pos
        <5>1. j # tail.pos + 1
          BY <1>1, <3>6, <4>1, <4>3
        <5> QED
          BY <2>1, <3>4, <3>6, <4>3, <5>1
      <4> QED
        BY <1>1, <3>6, <4>1, <4>2, <4>3
    <3> QED
      BY <1>1, <1>10, <2>1, <2>2, <3>2, <3>5, <3>6
  <2>3. CASE ~(tail.pos < written)
    <3>1. tail' = [tail EXCEPT !.at = "stat"] /\ given' = given
      BY <1>7, <2>1, <2>3 DEF ReadLine
    <3>2. tail' = [at |-> "stat", ino |-> 1, pos |-> tail.pos]
      BY <1>1, <2>1, <3>1
    <3> QED
      BY <1>10, <2>1, <3>1, <3>2
  <2> QED
    BY <2>2, <2>3
<1>8. CASE Stat \/ LineSent \/ PostFails
  <2>1. /\ tail.at # "open" /\ tail.ino = 1 /\ tail.pos <= written /\ Len(files[1]) = written /\ path = 1
        /\ UNCHANGED <<given, written>>
        /\ \A l \in given : l <= tail.pos
        /\ \A j \in given, k \in Lines : j < k /\ k <= tail.pos => k \in given
    BY <1>3, <1>8 DEF Stat, LineSent, PostFails, WholeTail, WholeLog, fileVars, Base, LogTypes
  <2>2. Stat => ~Replaced
    BY <1>1, <2>1 DEF Replaced
  <2>3. \E a \in {"read", "send"} : tail' = [tail EXCEPT !.at = a]
    BY <1>8, <2>2 DEF Stat, LineSent, PostFails, StaysAt
  <2>4. tail'.at # "open" /\ tail'.ino = 1 /\ tail'.pos = tail.pos
    BY <1>1, <2>1, <2>3
  <2> QED
    BY <1>10, <2>1, <2>4
<1>9. CASE Dies
  BY <1>9 DEF Dies, WholeTail
<1> QED
  BY <1>5, <1>6, <1>7, <1>8, <1>9, Frames DEF Frame

(***************************************************************************)
(* The replay                                                              *)
(***************************************************************************)

(* Request q posts row q; the rows that are counted are stored.            *)
ReplayInv ==
    IF deployed = "replay"
    THEN /\ \A q \in 1..Len(requests) : requests[q].values = <<q>> /\ q \in Lines
         /\ \A q \in 1..replay.sent : StoredIn(requests, q) # {}
         /\ replay.sent <= Len(requests) /\ Len(requests) <= replay.sent + 1
         /\ waiting # 0 => waiting = replay.sent + 1 /\ Len(requests) = waiting
         /\ waiting = 0 /\ ~replay.ended => Len(requests) = replay.sent
    ELSE replay.sent = 0

LEMMA ReplayOnly ==
    ASSUME deployed = "replay", Base, OnlyShipper, [Next]_vars
    PROVE  \/ Serves(requests, requests') /\ UNCHANGED <<waiting, replay>>
           \/ PostRow /\ Sends(<<replay.sent + 1>>)
           \/ RowSent \/ RowFails
<1>1. tail.at = "open" /\ Serves(requests, requests)
  BY DEF OnlyShipper, Serves
<1>2. CASE UNCHANGED vars
  BY <1>1, <1>2 DEF vars, server, clients
<1>3. CASE ServerStep /\ UNCHANGED <<deployed, clients>>
  BY <1>3, ServerSteps DEF Base, clients
<1>4. CASE Write \/ Rotate \/ Reopen \/ Shipper
  BY <1>1, <1>4 DEF Write, Rotate, Reopen, Shipper, Open, ReadLine, Stat, PostLine, LineSent, PostFails, Dies, server
<1>5. CASE Index \/ Tick \/ Poller \/ SendBatch \/ BatchFails
  BY <1>5 DEF Index, Tick, Poller, PollOnce, CycleEnds, SearchFails, PollerRestarts, Searches, SendBatch, BatchFails
<1>6. CASE PostRow
  <2>1. waiting' # waiting /\ waiting' # 0
    BY <1>6, LenProperties DEF PostRow, Base, ServerInv, ServerOK, Sound
  <2>2. ~PostLine /\ ~PollOnce /\ ~SendBatch
    BY <1>1 DEF PostLine, PollOnce, Searches, SendBatch
  <2> QED
    BY <1>6, <2>1, <2>2, Moves DEF Base
<1> QED
  BY <1>2, <1>3, <1>4, <1>5, <1>6 DEF Next, Replay

LEMMA ReplayStep == ASSUME Base, OnlyShipper, ReplayInv, [Next]_vars PROVE ReplayInv'
<1>1. deployed' = deployed
  BY Frames DEF Frame
<1>2. CASE deployed # "replay"
  <2>1. replay' = replay
    BY <1>2, Frames DEF Frame, RowSent, RowFails
  <2> QED
    BY <1>1, <1>2, <2>1 DEF ReplayInv
<1> SUFFICES ASSUME deployed = "replay" PROVE ReplayInv'
  BY <1>2
<1>3. PICK rs, ts : rs = requests /\ ts = requests'
  OBVIOUS
<1>4. Sound(rs) /\ Len(rs) \in Nat /\ DOMAIN rs = 1..Len(rs)
  BY <1>3, LenProperties DEF Base, ServerInv, ServerOK, Sound
<1>5. PICK n : n = replay.sent
  OBVIOUS
<1>6. /\ n \in Nat /\ n <= Len(rs) /\ Len(rs) <= n + 1
      /\ \A q \in 1..Len(rs) : rs[q].values = <<q>> /\ q \in Lines
      /\ \A q \in 1..n : StoredIn(rs, q) # {}
      /\ waiting # 0 => waiting = n + 1 /\ Len(rs) = waiting
      /\ waiting = 0 /\ ~replay.ended => Len(rs) = n
  BY <1>3, <1>5 DEF ReplayInv, Base, OtherTypes
<1>7. ASSUME /\ \A q \in 1..Len(ts) : ts[q].values = <<q>> /\ q \in Lines
             /\ \A q \in 1..replay'.sent : StoredIn(ts, q) # {}
             /\ replay'.sent <= Len(ts) /\ Len(ts) <= replay'.sent + 1
             /\ waiting' # 0 => waiting' = replay'.sent + 1 /\ Len(ts) = waiting'
             /\ waiting' = 0 /\ ~replay'.ended => Len(ts) = replay'.sent
      PROVE  ReplayInv'
  BY <1>1, <1>3, <1>7 DEF ReplayInv, StoredIn
<1>8. CASE Serves(requests, requests') /\ UNCHANGED <<waiting, replay>>
  <2>1. Serves(rs, ts) /\ replay' = replay /\ waiting' = waiting
    BY <1>3, <1>8
  <2>2. Len(ts) = Len(rs) /\ \A q \in 1..Len(rs) : ts[q].values = rs[q].values
    BY <1>4, <2>1 DEF Serves
  <2>3. \A q \in 1..n : StoredIn(ts, q) # {}
    BY <1>6, <2>1 DEF Serves
  <2> QED
    BY <1>5, <1>6, <1>7, <2>1, <2>2, <2>3
<1>9. CASE PostRow /\ Sends(<<replay.sent + 1>>)
  <2>1. /\ Asks(rs, ts, <<n + 1>>) /\ waiting = 0 /\ waiting' = Len(rs) + 1 /\ replay' = replay
        /\ ~replay.ended /\ n < MaxLines
    BY <1>3, <1>5, <1>9 DEF Sends, PostRow
  <2>2. Len(rs) = n /\ n + 1 \in Lines
    BY <1>6, <2>1, DeliveryAssumption DEF Lines
  <2>3. /\ Len(ts) = n + 1 /\ ts[n + 1].values = <<n + 1>>
        /\ \A q \in 1..n : ts[q] = rs[q]
        /\ \A q : StoredIn(ts, q) = StoredIn(rs, q)
    BY <1>4, <2>1, <2>2 DEF Asks
  <2>4. ASSUME NEW q \in 1..Len(ts) PROVE ts[q].values = <<q>> /\ q \in Lines
    <3>1. CASE q = n + 1
      BY <2>2, <2>3, <3>1
    <3>2. CASE q \in 1..n
      BY <1>6, <2>2, <2>3, <3>2
    <3> QED
      BY <1>6, <2>3, <3>1, <3>2
  <2>5. \A q \in 1..n : StoredIn(ts, q) # {}
    BY <1>6, <2>3
  <2> QED
    BY <1>5, <1>6, <1>7, <2>1, <2>2, <2>3, <2>4, <2>5
<1>10. CASE RowSent
  <2>1. ts = rs /\ waiting' = 0 /\ waiting # 0 /\ rs[waiting].st = "ok" /\ replay' = [replay EXCEPT !.sent = @ + 1]
    BY <1>3, <1>10 DEF RowSent, EndOf, server
  <2>2. replay'.sent = n + 1 /\ Len(rs) = n + 1 /\ waiting = n + 1 /\ waiting \in 1..Len(rs)
    BY <1>5, <1>6, <2>1 DEF Base, OtherTypes
  <2>3. PICK q : q = waiting
    OBVIOUS
  <2>4. q \in DOMAIN rs /\ rs[q].values = <<q>> /\ q \in Lines /\ rs[q].st = "ok" /\ q = n + 1
    BY <1>4, <1>6, <2>1, <2>2, <2>3
  <2>5. rs[q].done = Taken(<<q>>)
    BY <1>4, <2>4, RequestKnown DEF Proper
  <2>6. rs[q].done = 1 /\ <<q>>[1] = q
    BY <2>4, <2>5, SingleValue, DeliveryAssumption
  <2>7. StoredIn(rs, n + 1) # {}
    BY <2>4, <2>6 DEF StoredIn
  <2>8. \A k \in 1..(n + 1) : StoredIn(rs, k) # {}
    BY <1>6, <2>7
  <2> QED
    BY <1>6, <1>7, <2>1, <2>2, <2>8
<1>11. CASE RowFails
  <2>1. ts = rs /\ waiting' = 0 /\ replay' = [replay EXCEPT !.ended = TRUE]
    BY <1>3, <1>11 DEF RowFails
  <2>2. replay'.sent = n /\ replay'.ended
    BY <1>5, <2>1 DEF Base, OtherTypes
  <2> QED
    BY <1>6, <1>7, <2>1, <2>2
<1> QED
  BY <1>8, <1>9, <1>10, <1>11, ReplayOnly

(***************************************************************************)
(* Who holds how many copies, and in which order                           *)
(***************************************************************************)

Whole == Base /\ OnlyShipper /\ FilesInv /\ WaitInv /\ ReachInv /\ GivenInv /\ CopiesInv /\ HecInv /\ WholeInv /\ ReplayInv

LEMMA WholeInvariant == Spec => []Whole
<1>1. Init => Whole
  <2> SUFFICES ASSUME Init PROVE Whole
    OBVIOUS
  <2>1. /\ files = <<<<>>>> /\ path = 1 /\ writer = 1 /\ written = 0 /\ given = {} /\ waiting = 0
        /\ tail = [at |-> "open", ino |-> 0, pos |-> 0] /\ replay.sent = 0
        /\ Len(files) = 1 /\ Len(files[1]) = 0
    BY DEF Init
  <2>2. OnlyShipper /\ WaitInv /\ GivenInv /\ WholeInv
    BY <2>1 DEF OnlyShipper, WaitInv, GivenInv, WholeInv, WholeLog, WholeTail
  <2>3. FilesInv
    BY <2>1 DEF FilesInv
  <2>4. ReachInv
    BY <2>1, StartTimes DEF ReachInv, Reached
  <2>5. \A e \in Events : Times(requests, e) = 0 /\ doubted[e] = 0 /\ SentIn(requests, e) = {}
    BY StartTimes DEF Init
  <2>6. CopiesInv /\ HecInv
    BY <2>1, <2>5 DEF CopiesInv, HecInv
  <2>7. ReplayInv
    BY <2>1, StartTimes DEF ReplayInv
  <2> QED
    BY <2>2, <2>3, <2>4, <2>6, <2>7, BaseInit DEF Whole
<1>2. Whole /\ [Next]_vars => Whole'
  <2> SUFFICES ASSUME Whole, [Next]_vars PROVE Whole'
    OBVIOUS
  <2>1. LogTypes
    BY DEF Whole, Base
  <2> QED
    BY <2>1, BaseStep, OnlyShipperStep, FilesStep, WaitStep, ReachStep, GivenStep, CopiesStep, HecStep,
       WholeStep, ReplayStep DEF Whole
<1> QED
  BY <1>1, <1>2, PTL DEF Spec

(* A line of the shipper or an event of a HEC client is stored once, and   *)
(* once more for each attempt of which the client could not know what      *)
(* became, however the log is rotated and the processes die.               *)
THEOREM CopiesAreDoubts == Spec => []CopiesNeedDoubt
<1>1. Whole => CopiesNeedDoubt
  <2> SUFFICES ASSUME Whole, deployed \in {"shipper", "hec"}, NEW e \in Events PROVE store[e] <= doubted[e] + 1
    BY DEF CopiesNeedDoubt
  <2>1. PICK rs, st : rs = requests /\ st = store
    OBVIOUS
  <2>2. st[e] \in Nat /\ st[e] <= Times(rs, e) /\ Times(rs, e) \in Nat /\ doubted[e] \in Nat
    BY <2>1, StoredOften DEF Whole, Base, ServerInv, ServerOK, OtherTypes
  <2>3. CASE deployed = "shipper"
    <3>1. Times(rs, e) <= doubted[e] + 1
      BY <2>1, <2>3 DEF Whole, CopiesInv
    <3> QED
      BY <2>1, <2>2, <3>1
  <2>4. CASE deployed = "hec"
    <3>1. Times(rs, e) <= doubted[e] + IF waiting \in SentIn(rs, e) THEN 1 ELSE 0
      BY <2>1, <2>4 DEF Whole, HecInv
    <3> QED
      BY <2>1, <2>2, <3>1
  <2> QED
    BY <2>3, <2>4
<1> QED
  BY <1>1, WholeInvariant, PTL

(* The shipper gives up no line and changes no order, and what a replay    *)
(* counts as sent is stored, once.                                         *)
THEOREM OrderIsKept == Spec => []FirstCopiesInOrder
<1>1. Whole => FirstCopiesInOrder
  <2> SUFFICES ASSUME Whole PROVE FirstCopiesInOrder
    OBVIOUS
  <2>1. PICK rs, st : rs = requests /\ st = store
    OBVIOUS
  <2>2. /\ Sound(rs) /\ Counts(rs, st) /\ given \subseteq Lines /\ Lines \subseteq Nat /\ Lines \subseteq Events
        /\ DOMAIN rs = 1..Len(rs) /\ Len(rs) \in Nat
    BY <2>1, DeliveryAssumption, LenProperties
       DEF Whole, Base, ServerInv, ServerOK, Sound, TailTypes, Lines
  <2>3. ASSUME NEW l \in given, st[l] > 0, NEW k \in given, k < l PROVE st[k] > 0
    <3>1. StoredIn(rs, k) # {}
      <4>1. deployed = "shipper"
        BY DEF Whole, OnlyShipper
      <4>2. /\ tail.at = "send" => l <= line
            /\ StoredIn(rs, k) # {} \/ (tail.at = "send" /\ k = line)
        BY <2>1, <4>1 DEF Whole, GivenInv
      <4> QED
        BY <2>2, <2>3, <4>2
    <3> QED
      BY <2>2, <3>1, StoredOften
  <2>4. ASSUME turns = 0, NEW l \in given, NEW k \in Lines, \E j \in given : j < k, k < l PROVE k \in given
    <3>1. WholeTail /\ tail.pos \in Nat
      BY <2>4 DEF Whole, WholeInv, Base, TailTypes
    <3>2. tail.at # "open"
      BY <3>1 DEF WholeTail
    <3>3. l <= tail.pos /\ \A j \in given : j < k /\ k <= tail.pos => k \in given
      BY <3>1, <3>2 DEF WholeTail
    <3>4. k <= tail.pos
      BY <2>2, <2>4, <3>1, <3>3
    <3> QED
      BY <2>4, <3>3, <3>4
  <2>5. ASSUME deployed = "replay", NEW l \in Lines
        PROVE  IF l = replay.sent + 1 THEN st[l] <= 1 ELSE st[l] = IF l <= replay.sent THEN 1 ELSE 0
    <3>1. /\ \A q \in 1..Len(rs) : rs[q].values = <<q>> /\ q \in Lines
          /\ \A q \in 1..replay.sent : StoredIn(rs, q) # {}
          /\ replay.sent <= Len(rs) /\ Len(rs) <= replay.sent + 1 /\ replay.sent \in Nat
      BY <2>1, <2>5 DEF Whole, ReplayInv, Base, OtherTypes
    <3>2. st[l] = Cardinality(StoredIn(rs, l)) /\ l \in Nat
      BY <2>2 DEF Counts
    <3>3. ASSUME NEW q \in StoredIn(rs, l) PROVE q = l
      <4>1. PICK i \in 1..rs[q].done : rs[q].values[i] = l
        BY DEF StoredIn
      <4>2. q \in DOMAIN rs /\ rs[q].values = <<q>> /\ q \in Lines
        BY <2>2, <3>1 DEF StoredIn
      <4>3. rs[q].done \in Nat /\ rs[q].done <= Taken(<<q>>)
        BY <2>2, <4>2, RequestKnown DEF Proper
      <4>4. i = 1
        BY <2>2, <4>2, <4>3, SingleValue
      <4> QED
        BY <4>1, <4>2, <4>4
    <3>4. CASE StoredIn(rs, l) = {}
      <4>1. st[l] = 0
        BY <3>2, <3>4, FS_EmptySet
      <4>2. ~(l <= replay.sent)
        BY <2>2, <3>1, <3>4, DeliveryAssumption DEF Lines
      <4> QED
        BY <4>1, <4>2
    <3>5. CASE StoredIn(rs, l) # {}
      <4>1. StoredIn(rs, l) = {l}
        BY <3>3, <3>5
      <4>2. st[l] = 1
        BY <3>2, <4>1, FS_Singleton
      <4>3. l \in DOMAIN rs
        BY <4>1 DEF StoredIn
      <4>4. l = replay.sent + 1 \/ l <= replay.sent
        BY <2>2, <3>1, <3>2, <4>3
      <4> QED
        BY <4>2, <4>4
    <3> QED
      BY <3>4, <3>5
  <2> QED
    BY <2>1, <2>3, <2>4, <2>5 DEF FirstCopiesInOrder
<1> QED
  BY <1>1, WholeInvariant, PTL

(* Types: the log, the shipper, the replay, the poller and the HEC client  *)
(* keep to the sets their variables are declared for.                      *)
THEOREM TypeCorrect == Spec => []TypeOK
<1>1. Whole => TypeOK
  <2> SUFFICES ASSUME Whole PROVE TypeOK
    OBVIOUS
  <2>1. PICK rs, st : rs = requests /\ st = store
    OBVIOUS
  <2>2. /\ Sound(rs) /\ Counts(rs, st) /\ Len(rs) <= MaxRequests /\ DOMAIN rs = 1..Len(rs) /\ Len(rs) \in Nat
    BY <2>1, LenProperties DEF Whole, Base, ServerInv, ServerOK, Sound
  <2>3. \A q \in DOMAIN rs : rs[q].done \in 0..Taken(rs[q].values)
    BY <2>2, RequestKnown DEF Proper
  <2>4. /\ st \in [Events -> Nat] /\ doubted \in [Events -> Nat] /\ waiting \in 0..Len(rs)
        /\ tail.at \in {"open", "read", "stat", "send"} /\ tail.ino \in 0..Len(files)
    BY <2>1, <2>2, FileKnown DEF Whole, Base, OtherTypes, TailTypes, Counts
  <2>5. /\ path \in DOMAIN files /\ writer \in DOMAIN files
        /\ line \in 0..MaxLines /\ given \subseteq Lines /\ due \in 0..(MaxNow + Interval)
    BY FileKnown DEF Whole, Base, LogTypes, TailTypes, PollTypes
  <2>7. covered \in 0..searched
    BY DEF Whole, Base, PollTypes
  <2>6. replay \in [sent: 0..MaxLines, ended: BOOLEAN]
    <3>1. replay.sent \in 0..MaxLines
      <4>1. CASE deployed = "replay"
        <5>1. /\ \A q \in 1..Len(rs) : q \in Lines
              /\ replay.sent <= Len(rs) /\ replay.sent \in Nat
          BY <2>1, <4>1 DEF Whole, ReplayInv, Base, OtherTypes
        <5>2. replay.sent = 0 \/ replay.sent \in Lines
          BY <2>2, <5>1
        <5> QED
          BY <5>1, <5>2, DeliveryAssumption DEF Lines
      <4>2. CASE deployed # "replay"
        BY <4>2, DeliveryAssumption DEF Whole, ReplayInv
      <4> QED
        BY <4>1, <4>2
    <3>2. \A n \in 0..MaxLines, b \in BOOLEAN : [sent |-> n, ended |-> b] \in [sent: 0..MaxLines, ended: BOOLEAN]
      BY Zenon
    <3>3. replay = [sent |-> replay.sent, ended |-> replay.ended] /\ replay.ended \in BOOLEAN
      BY DEF Whole, Base, OtherTypes
    <3> QED
      BY <3>1, <3>2, <3>3, Zenon
  <2> QED
    BY <2>1, <2>2, <2>3, <2>4, <2>5, <2>6, <2>7 DEF TypeOK
<1> QED
  BY <1>1, WholeInvariant, PTL

=============================================================================
