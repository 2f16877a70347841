---------------------------- MODULE MCLiveTrial ----------------------------
(* Instance of LiveTrial: a lab of a few hosts, and a feed per kind of     *)
(* source.  The volumes keep the order of the code's (a trial's burst is   *)
(* as large as the medium thresholds and below the high ones).             *)
EXTENDS LiveTrial, TLC

MCAddressKind == [kali |-> "private", web |-> "private", gw |-> "private", pub |-> "global",
                  ioc |-> "global", lo |-> "loopback", bcast |-> "broadcast"]
                 @@ "203.0.113.66" :> "private" @@ "93.184.216.34" :> "global"
                 @@ "192.168.1.100" :> "private"
MCAssetType == [gw |-> "firewall", web |-> "web-server", kali |-> "security-test"]
                 @@ "192.168.1.100" :> "web-server"
MCVol == [v \in Volumes |->
            IF v \in {"suspicious", "failed_medium", "lab_scan", "ssh_medium", "sudo_medium", "logon_medium"} THEN 2
            ELSE IF v \in {"repeat", "failed_high", "ssh_high", "sudo_high", "logon_high", "flow"} THEN 3 ELSE 4]

Line == [NoRaw EXCEPT !.looks = {"apache"}, !.means = "plain", !.src = "kali"]
Log  == [NoRaw EXCEPT !.looks = {"bsd"}, !.hint = "syslog"]
Wall == [Log EXCEPT !.program = "filterlog", !.src = "kali", !.dst = "web", !.port = 443,
                    !.proto = "tcp", !.action = "block", !.dir = "in"]
Win  == [NoRaw EXCEPT !.keys = {"event_id"}, !.words = {"windows"}]
Eve  == [NoRaw EXCEPT !.keys = {"alert", "event_type"}, !.type = <<"suricata", "alert">>, !.id = "scan",
                      !.src = "pub", !.dst = "web", !.priority = 1]

WebFeed == {[Line EXCEPT !.status = 404]}
BusyFeed == {[Line EXCEPT !.status = 403]}
LoneFeed == {[NoRaw EXCEPT !.words = {"cicids"}, !.src = "pub", !.dst = "web", !.port = 80]}
IDSFeed  == {[Eve EXCEPT !.host = "s1"], [Eve EXCEPT !.priority = 3, !.host = "s2"]}
MCFeeds == {{}, WebFeed, BusyFeed, LoneFeed, IDSFeed, DemoRecords, {[Line EXCEPT !.means = "attack_path"], [Line EXCEPT !.src = "lo"]},
    {Wall, [Wall EXCEPT !.proto = "udp", !.dir = "out"], [Wall EXCEPT !.src = "gw"]},
    {[Wall EXCEPT !.dst = "bcast", !.proto = "udp", !.port = 67], [Wall EXCEPT !.src = "ioc", !.dst = "gw", !.action = "pass"]},
    {[Log EXCEPT !.program = "sshd", !.means = "failure", !.src = "kali", !.host = "web"],
     [Log EXCEPT !.program = "sudo", !.means = "failure", !.host = "web"],
     [Log EXCEPT !.program = "sudo", !.means = "risky_command", !.host = "gw"]},
    {[Win EXCEPT !.id = "1102", !.host = "w1"], [Win EXCEPT !.id = "1102", !.host = "w2"],
     [Win EXCEPT !.id = "4625", !.host = "w1"]},
    {[NoRaw EXCEPT !.keys = {"event_type"}, !.type = <<"app", "alert">>, !.rated = 4, !.src = "pub", !.host = "w1"],
     [NoRaw EXCEPT !.looks = {"text"}, !.mark = "plain text"]}}

MCPlans == [f \in MCFeeds |->
    CASE f = {} -> {<<"attack", "benign">>} [] f = WebFeed -> {<<"attack">>}
      [] f = BusyFeed -> {<<"benign">>} [] OTHER -> {<<>>}]
MCSlots == [f \in MCFeeds |-> IF f \in {BusyFeed, LoneFeed, IDSFeed} THEN {"slot"} ELSE {}]
MCMarkers == <<"trial1", "trial2">>
MCRequest == Line

=============================================================================
