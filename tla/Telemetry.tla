----------------------------- MODULE Telemetry -----------------------------
(***************************************************************************)
(* normalize_event, fingerprint (src/app/parsers.py) and EnrichmentAgent   *)
(* (src/app/agents/enrichment.py) as operators from raw records to events. *)
(*                                                                         *)
(* A raw record is abstracted to what the code looks at: the patterns its  *)
(* text matches, the keys and the source words it carries, and the fields  *)
(* the parsers copy.  "none" and 0 stand for None.  An event type is the   *)
(* pair of the part before its first dot and the part after it.            *)
(***************************************************************************)
EXTENDS Integers

CONSTANTS
    AddressKind,    \* [address -> what the ipaddress module says of it]
    AssetType,      \* [IP address listed in assets.json -> type of the asset]
    CriticalAssets, \* those of them whose criticality is "critical"
    IOCs            \* the values in iocs.json

Kinds == {"global", "private", "loopback", "multicast", "unspecified", "broadcast"}

ASSUME EnrichmentAssumption ==
    /\ \A a \in DOMAIN AddressKind : AddressKind[a] \in Kinds
    /\ CriticalAssets \subseteq DOMAIN AssetType
    /\ "none" \notin DOMAIN AddressKind \cup DOMAIN AssetType \cup IOCs

(* A record without anything in it.  words: the sources that its hint,     *)
(* sourcetype and source name; means: what the patterns find in its        *)
(* message or path; mark: the text that tells its message from others.     *)
NoRaw == [looks |-> {"json"}, keys |-> {}, words |-> {}, hint |-> "none", type |-> <<"none", "none">>,
          program |-> "none", means |-> "none", status |-> 200, id |-> "none",
          src |-> "none", dst |-> "none", port |-> 0, sport |-> 0, host |-> "none", proto |-> "none",
          action |-> "none", dir |-> "none", priority |-> 0, rated |-> 0, mark |-> "none"]

Blank == [source |-> "none", type |-> <<"generic", "event">>, sign |-> "none",
          src |-> "none", dst |-> "none", port |-> 0, sport |-> 0, host |-> "none",
          proto |-> "none", action |-> "none", dir |-> "none", priority |-> 0, rated |-> 0,
          risky |-> FALSE, mark |-> "none"]

Or(value, default) == IF value = "none" THEN default ELSE value

(* The first of a sequence of <<test, value>> pairs whose test holds.      *)
First(cases) == cases[CHOOSE i \in DOMAIN cases :
                        cases[i][1] /\ \A j \in 1..(i - 1) : ~cases[j][1]][2]

-----------------------------------------------------------------------------
(* The parsers *)

(* _parse_text: JSON first, then an Apache line anywhere in the text.      *)
Format(r) ==
    First(<< <<"json" \in r.looks, "json">>, <<"apache" \in r.looks, "apache">>,
             <<r.looks \cap {"rfc5424", "bsd", "bsd_nohost"} # {}, "syslog">>, <<TRUE, "text">> >>)

(* What the copies of a record's common fields have in common.             *)
Addressed(r) == [Blank EXCEPT !.src = r.src, !.dst = r.dst, !.port = r.port,
                              !.host = r.host, !.mark = r.mark]

Suricata(r) ==
    [Addressed(r) EXCEPT !.source = "suricata", !.type = <<"suricata", Or(r.type[2], "alert")>>,
        !.sign = Or(r.id, "Suricata alert"), !.sport = r.sport, !.proto = r.proto,
        !.priority = r.priority]

OpnsenseFilterlog(r) ==
    [Addressed(r) EXCEPT !.source = "opnsense", !.sport = r.sport, !.host = Or(r.host, "opnsense"),
        !.type = <<"opnsense", IF r.action \in {"block", "reject"} THEN "firewall_block"
                               ELSE IF r.action = "pass" THEN "firewall_pass" ELSE "firewall_event">>,
        !.proto = r.proto, !.action = r.action, !.dir = r.dir]

Apache(r) ==
    [Addressed(r) EXCEPT !.source = "apache", !.port = IF r.port = 0 THEN 80 ELSE r.port,
        !.type = <<"web", IF r.means = "attack_path" THEN "suspicious_request"
                          ELSE IF r.status \in {401, 403, 404} THEN "failed_request" ELSE "access">>]

Windows(r) ==
    [Addressed(r) EXCEPT !.source = "windows", !.type = <<"windows", Or(r.id, "event")>>,
        !.sign = r.id, !.risky = r.means = "risky_powershell"]

(* sshd and sudo lines: only sshd names the peer.                          *)
UbuntuSyslog(r) ==
    LET line == [Blank EXCEPT !.source = "ubuntu", !.host = r.host, !.mark = r.mark]
        ssh  == [line EXCEPT !.src = r.src, !.sport = r.sport, !.port = 22]
    IN  First(<<
          <<r.program = "sshd" /\ r.means = "failure", [ssh EXCEPT !.type = <<"linux", "ssh_auth_failure">>]>>,
          <<r.program = "sshd" /\ r.means = "success", [ssh EXCEPT !.type = <<"linux", "ssh_auth_success">>]>>,
          <<r.program = "sshd", [line EXCEPT !.type = <<"linux", "sshd_event">>]>>,
          <<r.means \in {"command", "risky_command"},
            [line EXCEPT !.type = <<"linux", "sudo_command">>, !.risky = r.means = "risky_command"]>>,
          <<r.means = "failure", [line EXCEPT !.type = <<"linux", "sudo_auth_failure">>]>>,
          <<TRUE, [line EXCEPT !.type = <<"linux", "syslog_event">>]>> >>)

Flow(r) ==
    [Blank EXCEPT !.source = "cicids_flow", !.type = <<"network", "flow">>,
        !.src = r.src, !.dst = r.dst, !.port = r.port, !.mark = r.mark]

(* Anything else, and what a client says of itself is taken over.          *)
Generic(r) ==
    [Addressed(r) EXCEPT !.source = "generic", !.priority = r.priority, !.rated = r.rated,
        !.type = IF "event_type" \in r.keys THEN r.type ELSE <<"generic", "event">>]

(* normalize_event: the first branch that claims the record parses it.     *)
Dispatch(r) ==
    LET f == Format(r)
    IN  << <<"cicids" \in r.words, Flow(r)>>,
           <<"alert" \in r.keys /\ ("event_type" \in r.keys \/ "suricata" \in r.words), Suricata(r)>>,
           <<f = "syslog" /\ r.program \in {"sshd", "sudo"}, UbuntuSyslog(r)>>,
           <<f = "syslog" /\ r.program = "filterlog", OpnsenseFilterlog(r)>>,
           <<"apache" \in r.words \/ f = "apache" \/ "access" \in r.keys, Apache(r)>>,
           <<"windows" \in r.words \/ "event_id" \in r.keys, Windows(r)>>,
           <<TRUE, Generic(r)>> >>

(* A source hint names the source, unless it only names the transport.     *)
Normalize(r) ==
    LET e == First(Dispatch(r))
    IN  IF r.hint \in {"none", "syslog", "udp-syslog"} THEN e ELSE [e EXCEPT !.source = r.hint]

(* Protocol, direction, action and host are no part of it.                 *)
Sign(e) == IF e.sign = "none" /\ e.type[1] = "generic" THEN e.mark ELSE e.sign
Fingerprint(e) == <<e.source, e.type, e.src, e.dst, e.port, Sign(e)>>

-----------------------------------------------------------------------------
(* EnrichmentAgent *)

InfrastructureTypes == {"firewall", "gateway", "infrastructure", "soc", "soc-server"}

IPContext(address) == IF address \in DOMAIN AddressKind THEN AddressKind[address] ELSE "invalid"

SourceType(e) == IF e.src \in DOMAIN AssetType THEN AssetType[e.src] ELSE "none"

(* The asset of the destination or, failing that, of the reporting host.   *)
AssetKey(e) == IF e.dst \in DOMAIN AssetType THEN e.dst ELSE e.host

Enrich(e) ==
    [source_ip |-> IPContext(e.src), destination_ip |-> IPContext(e.dst),
     critical_asset |-> AssetKey(e) \in CriticalAssets,
     source_is_infrastructure |-> SourceType(e) \in InfrastructureTypes,
     lab_source |-> SourceType(e) = "security-test",
     ioc_matches |-> {e.src, e.dst} \cap IOCs]

=============================================================================
