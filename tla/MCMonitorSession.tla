-------------------------- MODULE MCMonitorSession --------------------------
(* Two scripts that request fields, one of which has no on_event, and room *)
(* for two loads of the larger one.                                        *)
EXTENDS MonitorSession

MCScript == {"a", "b"}
MCSilent == {"b"}
MCNFields == [s \in MCScript |-> IF s = "b" THEN 1 ELSE 2]
==============================================================================
