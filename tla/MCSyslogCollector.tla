------------------------- MODULE MCSyslogCollector -------------------------
(* Instances of SyslogCollector for TLC. *)
EXTENDS SyslogCollector

=============================================================================
