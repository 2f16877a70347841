------------------------------- MODULE Triage -------------------------------
(***************************************************************************)
(* The rules of triage_event (src/app/agents/triage.py) and the proposals  *)
(* of propose_actions (src/app/agents/response.py).                        *)
(*                                                                         *)
(* The severity an event gets is the highest that a rule gives.  The ML    *)
(* prediction changes title, description and confidence, never severity.   *)
(***************************************************************************)
EXTENDS Telemetry

CONSTANT Vol    \* the event counts from which the volume rules fire

Volumes == {"suspicious", "failed_medium", "failed_high", "access", "flow",
            "flood", "scan", "lab_scan", "repeat", "ssh_medium", "ssh_high",
            "sudo_medium", "sudo_high", "logon_medium", "logon_high"}

(* The values in the code; a small instance keeps their order.             *)
CodeVol == [suspicious |-> 5, failed_medium |-> 5, failed_high |-> 20, access |-> 100, flow |-> 100,
            flood |-> 50, scan |-> 20, lab_scan |-> 5, repeat |-> 8, ssh_medium |-> 3, ssh_high |-> 8,
            sudo_medium |-> 5, sudo_high |-> 10, logon_medium |-> 3, logon_high |-> 10]

ASSUME VolAssumption == Vol \in [Volumes -> Nat \ {0}]

Low      == 1
Medium   == 2
High     == 3
Critical == 4
WebPorts     == {80, 443, 8000, 8080, 8443}
ServicePorts == {53, 67, 68, 123}
NonEndpoint  == {"unspecified", "multicast", "broadcast"}

(* max_severity over a set of ranks.                                       *)
Highest(S) ==
    IF Critical \in S THEN Critical ELSE IF High \in S THEN High
    ELSE IF Medium \in S THEN Medium ELSE Low

-----------------------------------------------------------------------------
(* Each rule: does it give an event e, in context x and as the n-th of its *)
(* alert, the severity s?                                                  *)

ByVolume(s, n, medium, high) == (s = Medium /\ n >= medium) \/ (s = High /\ n >= high)

SensorRule(e, s) ==
    /\ e.type[1] = "suricata"
    /\ s = IF e.priority = 1 THEN Critical ELSE IF e.priority = 2 THEN High ELSE Medium

(* Mutant: the two thresholds of failed requests are swapped.              *)
WebRuleSwapped(e, x, n, s) ==
    e.type = <<"web", "failed_request">> /\ ByVolume(s, n, Vol.failed_high, Vol.failed_medium)
WebRule(e, x, n, s) ==
    \/ e.type = <<"web", "suspicious_request">> /\ ByVolume(s, n, 1, Vol.suspicious)
    \/ /\ e.type = <<"web", "failed_request">>
       /\ ByVolume(s, n, Vol.failed_medium, Vol.failed_high)
    \/ /\ e.type = <<"web", "access">> /\ s = High /\ n >= Vol.access
       /\ x.source_ip # "loopback" /\ ~x.source_is_infrastructure

FlowRule(e, n, s) ==
    e.type = <<"network", "flow">> /\ s = High /\ n >= Vol.flow /\ e.port \in WebPorts

IsFirewall(e) == e.type \in {"opnsense"} \X {"firewall_block", "firewall_pass", "firewall_event"}
Denied(e)     == e.action \in {"block", "reject"}
ServiceTraffic(e) == e.proto = "udp" /\ {e.sport, e.port} \cap ServicePorts # {}

(* Traffic of the network's own services, which the firewall rules ignore. *)
(* Mutant: infrastructure sources are not recognised.                      *)
NoiseButInfrastructure(e, x) ==
    x.source_ip \in NonEndpoint \/ x.destination_ip \in NonEndpoint \/ ServiceTraffic(e)
Noise(e, x) ==
    \/ x.source_is_infrastructure
    \/ x.source_ip \in NonEndpoint \/ x.destination_ip \in NonEndpoint
    \/ ServiceTraffic(e)

Eligible(e, x) ==
    e.action \in {"pass", "block", "reject"} /\ e.dir \in {"in", "inbound"} /\ ~Noise(e, x)

FirewallRule(e, x, n, s) ==
    /\ IsFirewall(e)
    /\ \/ /\ s = High /\ Eligible(e, x) /\ e.proto = "tcp"
          /\ \/ n >= Vol.flood /\ e.port \in WebPorts
             \/ Denied(e) /\ (n >= Vol.scan \/ (x.lab_source /\ n >= Vol.lab_scan))
       \/ s = Medium /\ Denied(e) /\ n >= Vol.repeat /\ ~Noise(e, x)

LinuxRule(e, n, s) ==
    \/ /\ e.type = <<"linux", "ssh_auth_failure">>
       /\ ByVolume(s, n, Vol.ssh_medium, Vol.ssh_high)
    \/ /\ e.type = <<"linux", "sudo_auth_failure">>
       /\ ByVolume(s, n, Vol.sudo_medium, Vol.sudo_high)
    \/ e.type = <<"linux", "sudo_command">> /\ s = Medium /\ e.risky

WindowsRule(e, n, s) ==
    \/ /\ e.type = <<"windows", "4625">>
       /\ ByVolume(s, n, Vol.logon_medium, Vol.logon_high)
    \/ e.type = <<"windows", "4688">> /\ s = High /\ e.risky
    \/ e.type = <<"windows", "4720">> /\ s = High
    \/ e.type = <<"windows", "1102">> /\ s = Critical

Fires(e, x, n, s) ==
    \/ SensorRule(e, s) \/ WebRule(e, x, n, s) \/ FlowRule(e, n, s) \/ FirewallRule(e, x, n, s)
    \/ LinuxRule(e, n, s) \/ WindowsRule(e, n, s)

(* The rules, raised by a severity the sensor states, by a known indicator *)
(* and by a critical asset.                                                *)
RuleRank(e, x, n) == Highest({s \in Low..Critical : Fires(e, x, n, s) \/ s = e.rated})
WithIOC(e, x, n)  == Highest({RuleRank(e, x, n)} \cup {s \in {High} : x.ioc_matches # {}})
TriageEvent(e, n) ==
    LET x == Enrich(e)
        s == WithIOC(e, x, n)
    IN  Highest({s} \cup {h \in {High} : x.critical_asset /\ s >= Medium})

-----------------------------------------------------------------------------
(* propose_actions *)

IsSafeBlockTarget(address) == IPContext(address) = "global"

ProposeActions(e, severity) ==
    IF severity < High THEN {}
    ELSE {<<"notify_soc", "soc-analyst">>}
           \cup {<<"block_ip", a>> : a \in {b \in {e.src} : IsSafeBlockTarget(b)}}
           \cup {<<"isolate_host", h>> : h \in {g \in {e.host} : g # "none" /\ severity = Critical}}

=============================================================================
