------------------------------ MODULE Delivery ------------------------------
(***************************************************************************)
(* Four ways for events to reach the ingestion endpoints: the Apache log   *)
(* shipper (src/scripts/ship_apache_access.py), which tails a file and     *)
(* repeats each line until it is answered; the Splunk poller               *)
(* (src/app/integrations/splunk_poller.py), which forwards a search over   *)
(* the recent past again and again; a HEC client, which repeats a whole    *)
(* batch; and src/scripts/replay_cicids_flows.py, which sends the rows of  *)
(* a file once each and stops at the first failure.                        *)
(***************************************************************************)
EXTENDS Ingestion, FiniteSets

CONSTANTS
    Batches,        \* what the HEC client may send, sequences
    Earliest,       \* how far back the search looks, 90 s in the code
    Interval,       \* seconds between polls, 60 in the code
    Lag,            \* per event: how long it takes until Splunk has indexed it
    MaxLines,       \* bound: lines written to the log, numbered from 1
    MaxTurns,       \* bound: rotations and truncations of the log
    MaxNow,         \* bound: clock
    MaxFaults       \* bound: failures, restarts and lost answers, by deployment

Lines == 1..MaxLines
Deployments == {"shipper", "poller", "hec", "replay"}

ASSUME DeliveryAssumption ==
    /\ MaxLines \in Nat /\ MaxTurns \in Nat /\ MaxNow \in Nat /\ MaxFaults \in [Deployments -> Nat]
    /\ IsFiniteSet(Events) /\ Lines \subseteq Events
    /\ Interval \in Nat \ {0} /\ Earliest \in Nat /\ Interval <= Earliest /\ Lag \in [Events -> Nat]
    /\ Batches \subseteq Seq(Events \cup {NoEvent, Undecodable})
    /\ \A b \in Batches : \A i, j \in DOMAIN b : b[i] = b[j] /\ b[i] \in Events => i = j

VARIABLES
    deployed,       \* the client of this deployment
    waiting,        \* the request the client waits for, or 0
    now,            \* the clock
    files,          \* the log's inodes and the lines in them
    path, writer,   \* the inode the log's name, and that the web server, has
    written, turns, \* lines written, rotations and truncations so far
    tail,           \* follow(): where it is, its inode, its position
    line,           \* the line the shipper has in hand, or 0
    given,          \* lines follow() has yielded to this shipper process
    deaths,         \* shipper processes that have ended
    doubted,        \* per event: requests that failed or were given up
    indexed,        \* per event: when Splunk indexed it, or -1
    searched, due,  \* when the poller last searched, and polls next
    restarts,       \* poller processes that have been replaced
    covered,        \* when it last searched and then forwarded all it had found
    longest,        \* the longest time from one such search to the next
    overfull,       \* a search found more than it may take
    replay          \* the replay: rows it has counted as sent, whether it has ended

fileVars == <<files, path, writer, written, turns>>
tailVars == <<tail, line, given, deaths>>
pollVars == <<now, indexed, searched, due, restarts, covered, longest, overfull>>
clients == <<waiting, doubted, fileVars, tailVars, pollVars, replay>>
vars == <<server, deployed, clients>>

Init ==
    /\ ServerInit
    /\ deployed \in Deployments /\ faults = MaxFaults[deployed]
    /\ waiting = 0 /\ now = 0
    /\ files = <<<<>>>> /\ path = 1 /\ writer = 1 /\ written = 0 /\ turns = 0
    /\ tail = [at |-> "open", ino |-> 0, pos |-> 0]
    /\ line = 0 /\ given = {} /\ deaths = 0
    /\ doubted = [e \in Events |-> 0]
    /\ indexed = [e \in Events |-> -1]
    /\ searched = 0 /\ due = 0 /\ restarts = 0 /\ covered = 0 /\ longest = 0 /\ overfull = FALSE
    /\ replay = [sent |-> 0, ended |-> FALSE]

-----------------------------------------------------------------------------
(* The web server and logrotate: it writes to the inode it has open; the   *)
(* log is renamed and created anew, and the web server told later; or it   *)
(* is copied and truncated in place.                                       *)
Write ==
    /\ deployed = "shipper" /\ written < MaxLines
    /\ written' = written + 1
    /\ files' = [files EXCEPT ![writer] = Append(@, written + 1)]
    /\ UNCHANGED <<server, deployed, waiting, doubted, path, writer, turns, tailVars, pollVars, replay>>

Rotate ==
    /\ deployed = "shipper" /\ turns < MaxTurns /\ path = writer
    /\ turns' = turns + 1
    /\ \/ files' = Append(files, <<>>) /\ path' = Len(files) + 1
       \/ files' = [files EXCEPT ![path] = <<>>] /\ UNCHANGED path
    /\ UNCHANGED <<server, deployed, waiting, doubted, writer, written, tailVars, pollVars, replay>>

Reopen ==
    /\ writer # path
    /\ writer' = path
    /\ UNCHANGED <<server, deployed, waiting, doubted, files, path, written, turns, tailVars, pollVars, replay>>

-----------------------------------------------------------------------------
(* follow(): opens the file (the first time at its end), yields line after *)
(* line, and at the end looks whether the name still leads to this file.   *)
Open ==
    /\ deployed = "shipper" /\ tail.at = "open"
    /\ tail' = [at |-> "read", ino |-> path, pos |-> IF tail.ino = 0 THEN Len(files[path]) ELSE 0]
    /\ UNCHANGED <<server, deployed, waiting, doubted, fileVars, line, given, deaths, pollVars, replay>>

ReadLine ==
    /\ tail.at = "read"
    /\ IF tail.pos < Len(files[tail.ino])
       THEN /\ line' = files[tail.ino][tail.pos + 1]
            /\ given' = given \cup {line'}
            /\ tail' = [tail EXCEPT !.at = "send", !.pos = @ + 1]
       ELSE tail' = [tail EXCEPT !.at = "stat"] /\ UNCHANGED <<line, given>>
    /\ UNCHANGED <<server, deployed, waiting, doubted, fileVars, deaths, pollVars, replay>>

(* Mutant: every look reopens the file.                                    *)
AlwaysReplaced == TRUE
Replaced == path # tail.ino \/ Len(files[tail.ino]) < tail.pos

Stat ==
    /\ tail.at = "stat"
    /\ tail' = [tail EXCEPT !.at = IF Replaced THEN "open" ELSE "read"]
    /\ UNCHANGED <<server, deployed, waiting, doubted, fileVars, line, given, deaths, pollVars, replay>>

(* send_with_retry: the line is posted until an answer of success comes.   *)
PostLine ==
    /\ tail.at = "send" /\ waiting = 0
    /\ Send("ingest", <<line>>)
    /\ waiting' = Len(requests) + 1
    /\ UNCHANGED <<store, faults, deployed, doubted, fileVars, tailVars, pollVars, replay>>

EndOf(q) == requests[q].st

LineSent ==
    /\ tail.at = "send" /\ waiting # 0 /\ EndOf(waiting) = "ok"
    /\ tail' = [tail EXCEPT !.at = "read"]
    /\ line' = 0 /\ waiting' = 0
    /\ UNCHANGED <<server, deployed, doubted, fileVars, given, deaths, pollVars, replay>>

(* A client stops waiting for an answer that is late or lost.  It cannot   *)
(* know what has been stored, no more than after a failure.                *)
GivesUp == EndOf(waiting) \in {"running", "ok"} /\ Fault
Doubt(values) ==
    doubted' = [e \in Events |-> doubted[e] + IF \E i \in DOMAIN values : values[i] = e THEN 1 ELSE 0]

(* An error status and a timeout are caught and the line is posted again.  *)
(* Mutant: the shipper goes on with the next line.                         *)
GoesOn == "read"
StaysAt == "send"
PostFails ==
    /\ tail.at = "send" /\ waiting # 0
    /\ \/ EndOf(waiting) = "failed" /\ UNCHANGED faults
       \/ GivesUp
    /\ Doubt(requests[waiting].values)
    /\ waiting' = 0
    /\ tail' = [tail EXCEPT !.at = StaysAt]
    /\ UNCHANGED <<store, requests, deployed, fileVars, line, given, deaths, pollVars, replay>>

(* A connection that closes before the answer raises RemoteDisconnected or *)
(* IncompleteRead, neither of which send_with_retry catches: the process   *)
(* ends, and systemd starts one that opens the log at its end.             *)
Dies ==
    /\ tail.at = "send" /\ waiting # 0 /\ EndOf(waiting) = "cut"
    /\ Doubt(requests[waiting].values)
    /\ waiting' = 0
    /\ tail' = [at |-> "open", ino |-> 0, pos |-> 0]
    /\ line' = 0 /\ given' = {} /\ deaths' = deaths + 1
    /\ UNCHANGED <<server, deployed, fileVars, pollVars, replay>>

-----------------------------------------------------------------------------
(* Splunk indexes events, numbered in that order, at once or some time     *)
(* after they happened.  The search asks for the events of the last        *)
(* Earliest seconds, by the time they happened, the newest first, and      *)
(* takes no more than Limit.                                               *)
Index ==
    /\ deployed = "poller"
    /\ \E e \in Events : /\ indexed[e] < 0 /\ \A f \in Events : f < e => indexed[f] >= 0
                         /\ indexed' = [indexed EXCEPT ![e] = now]
    /\ UNCHANGED <<server, deployed, waiting, doubted, fileVars, tailVars, replay>>
    /\ UNCHANGED <<now, searched, due, restarts, covered, longest, overfull>>

Happened(e) == indexed[e] - Lag[e]

(* Mutant: the search looks back no further than the interval.             *)
RecentInterval == {e \in Events : indexed[e] >= 0 /\ Happened(e) > now - Interval}
Recent == {e \in Events : indexed[e] >= 0 /\ Happened(e) >= now - Earliest}
Orders(S) == {s \in [1..Cardinality(S) -> S] :
                \A i, j \in 1..Cardinality(S) : i < j => s[i] # s[j] /\ Happened(s[i]) >= Happened(s[j])}

(* poll_once: the search may fail; nothing found is not forwarded.         *)
Searches == deployed = "poller" /\ waiting = 0 /\ now >= due

Covers(t) ==
    /\ covered' = t
    /\ longest' = IF t - covered > longest THEN t - covered ELSE longest

PollOnce ==
    /\ Searches
    /\ searched' = now
    /\ overfull' = (overfull \/ Cardinality(Recent) > Limit)
    /\ IF Recent = {}
       THEN due' = now + Interval /\ Covers(now) /\ UNCHANGED <<waiting, requests>>
       ELSE /\ \E s \in Orders(Recent) : Send("ingest", SubSeq(s, 1, Taken(s)))
            /\ waiting' = Len(requests) + 1
            /\ UNCHANGED <<due, covered, longest>>
    /\ UNCHANGED <<store, faults, deployed, doubted, fileVars, tailVars, now, indexed, restarts, replay>>

(* The cycle ends, in failure too, and the interval starts.  Mutant: it is *)
(* too short for the window.                                               *)
ShortDelay == Interval - 1
Delay == Interval
CycleEnds ==
    /\ deployed = "poller" /\ waiting # 0
    /\ due' = now + Delay
    /\ waiting' = 0
    /\ \/ EndOf(waiting) = "ok" /\ Covers(searched) /\ UNCHANGED faults
       \/ EndOf(waiting) \in {"failed", "cut"} /\ UNCHANGED <<faults, covered, longest>>
       \/ GivesUp /\ UNCHANGED <<covered, longest>>
    /\ UNCHANGED <<store, requests, deployed, doubted, fileVars, tailVars, replay>>
    /\ UNCHANGED <<now, searched, indexed, restarts, overfull>>

SearchFails ==
    /\ Searches /\ Fault
    /\ due' = now + Delay
    /\ UNCHANGED <<store, requests, deployed, waiting, doubted, fileVars, tailVars, replay>>
    /\ UNCHANGED <<now, indexed, searched, restarts, covered, longest, overfull>>

(* The poller's container ends, whatever it was doing, and is started      *)
(* again: main() polls at once.  What it has sent goes on at the server.   *)
PollerRestarts ==
    /\ deployed = "poller" /\ Fault
    /\ waiting' = 0 /\ due' = now
    /\ restarts' = restarts + 1
    /\ UNCHANGED <<store, requests, deployed, doubted, fileVars, tailVars, replay>>
    /\ UNCHANGED <<now, indexed, searched, covered, longest, overfull>>

Tick ==
    /\ deployed = "poller" /\ now < MaxNow
    /\ now' = now + 1
    /\ UNCHANGED <<server, deployed, waiting, doubted, fileVars, tailVars, replay>>
    /\ UNCHANGED <<indexed, searched, due, restarts, covered, longest, overfull>>

-----------------------------------------------------------------------------
(* A HEC client sends its batch until it is told of success.               *)
SendBatch ==
    /\ deployed = "hec" /\ waiting = 0
    /\ \E b \in IF requests = <<>> THEN Batches ELSE {requests[1].values} : Send("hec_event", b)
    /\ waiting' = Len(requests) + 1
    /\ UNCHANGED <<store, faults, deployed, doubted, fileVars, tailVars, pollVars, replay>>

BatchFails ==
    /\ deployed = "hec" /\ waiting # 0
    /\ \/ EndOf(waiting) \in {"failed", "refused", "cut"} /\ UNCHANGED faults
       \/ GivesUp
    /\ Doubt(requests[waiting].values)
    /\ waiting' = 0
    /\ UNCHANGED <<store, requests, deployed, fileVars, tailVars, pollVars, replay>>

(* The replay posts row after row and counts those that were answered; any *)
(* failure ends it.                                                        *)
PostRow ==
    /\ deployed = "replay" /\ waiting = 0 /\ ~replay.ended /\ replay.sent < MaxLines
    /\ Send("ingest", <<replay.sent + 1>>)
    /\ waiting' = Len(requests) + 1
    /\ UNCHANGED <<store, faults, deployed, doubted, fileVars, tailVars, pollVars, replay>>

RowSent ==
    /\ deployed = "replay" /\ waiting # 0 /\ EndOf(waiting) = "ok"
    /\ replay' = [replay EXCEPT !.sent = @ + 1]
    /\ waiting' = 0
    /\ UNCHANGED <<server, deployed, doubted, fileVars, tailVars, pollVars>>

RowFails ==
    /\ deployed = "replay" /\ waiting # 0
    /\ \/ EndOf(waiting) \in {"failed", "cut"} /\ UNCHANGED faults
       \/ GivesUp
    /\ replay' = [replay EXCEPT !.ended = TRUE]
    /\ waiting' = 0
    /\ UNCHANGED <<store, requests, deployed, doubted, fileVars, tailVars, pollVars>>

Shipper == Open \/ ReadLine \/ Stat \/ PostLine \/ LineSent \/ PostFails \/ Dies
Poller  == PollOnce \/ CycleEnds \/ SearchFails \/ PollerRestarts
Replay  == PostRow \/ RowSent \/ RowFails

Next ==
    \/ ServerStep /\ UNCHANGED <<deployed, clients>>
    \/ Write \/ Rotate \/ Reopen \/ Shipper
    \/ Index \/ Poller \/ Tick
    \/ SendBatch \/ BatchFails
    \/ Replay

Spec == Init /\ [][Next]_vars

(* The server serves what it runs, and the shipper's loop never pauses for *)
(* good.  Nothing is assumed of faults, rotations or the other clients.    *)
FairSpec ==
    /\ Spec
    /\ WF_vars(Shipper)
    /\ WF_vars(UNCHANGED <<deployed, clients>> /\ \E q \in DOMAIN requests : Serve(q))

-----------------------------------------------------------------------------
(* Type invariant.                                                         *)
TypeOK ==
    /\ store \in [Events -> Nat] /\ doubted \in [Events -> Nat]
    /\ waiting \in 0..Len(requests) /\ Len(requests) <= MaxRequests
    /\ \A q \in DOMAIN requests : requests[q].done \in 0..Taken(requests[q].values)
    /\ tail.at \in {"open", "read", "stat", "send"} /\ tail.ino \in 0..Len(files)
    /\ path \in DOMAIN files /\ writer \in DOMAIN files
    /\ line \in 0..MaxLines /\ given \subseteq Lines /\ due \in 0..(MaxNow + Interval)
    /\ covered \in 0..searched
    /\ replay \in [sent: 0..MaxLines, ended: BOOLEAN]

(* The shipper gives up no line and changes no order, whatever fails or is *)
(* answered late: a line it has read is stored after those it read before, *)
(* and as long as the log is neither rotated nor truncated it reads every  *)
(* line from the first on.  What a replay counts as sent is stored, once,  *)
(* and of the row it ended at at most one copy more.                       *)
FirstCopiesInOrder ==
    /\ \A l \in given : store[l] > 0 => \A k \in given : k < l => store[k] > 0
    /\ turns = 0 => \A l \in given, k \in Lines : (\E j \in given : j < k) /\ k < l => k \in given
    /\ deployed = "replay" =>
         \A l \in Lines : IF l = replay.sent + 1 THEN store[l] <= 1
                          ELSE store[l] = IF l <= replay.sent THEN 1 ELSE 0

(* A line or a batch is stored once more for each attempt whose outcome    *)
(* the client could not know, and never without such a doubt.              *)
CopiesNeedDoubt ==
    deployed \in {"shipper", "hec"} => \A e \in Events : store[e] <= doubted[e] + 1

(* The search windows overlap, so an event may be forwarded twice, by the  *)
(* defaults alone; but however cycles fail or are late, only a restart of  *)
(* the poller, which polls at once, makes one copy more.                   *)
TwiceAndPerRestart ==
    deployed = "poller" => \A e \in Events : store[e] <= 2 + restarts

(* An event indexed before the last search that was forwarded in full is   *)
(* stored, whatever cycles failed or were cut off meanwhile, as long as    *)
(* the time it took to be indexed and the longest time between two such    *)
(* searches fit into the window, and none found more than the limit.       *)
GapNeedsDelay ==
    deployed = "poller" /\ ~overfull =>
        \A e \in Events :
            indexed[e] \in 0..(covered - 1) /\ Lag[e] + longest <= Earliest
              => store[e] > 0

(* A line that is ahead of the shipper in the file it has open is stored   *)
(* in the end, unless it is truncated away or the process dies.            *)
Ahead(l) == /\ tail.at \in {"read", "send"}
            /\ \E k \in DOMAIN files[tail.ino] : k > tail.pos /\ files[tail.ino][k] = l
Truncated(l) == \A f \in DOMAIN files : \A k \in DOMAIN files[f] : files[f][k] # l
AheadIsStored ==
    \A l \in Lines : Ahead(l) ~> (store[l] > 0 \/ Truncated(l) \/ deaths > 0)

=============================================================================
