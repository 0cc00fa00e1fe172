---- MODULE MCReportFile ----
(* Two runs with the same PID, in a directory where earlier ones were killed. *)
EXTENDS ReportFile
CONSTANTS a, b

MCRuns == {a, b}
MCPidOf == [r \in MCRuns |-> 1]
====
