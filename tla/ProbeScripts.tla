---- MODULE ProbeScripts ----
(***************************************************************************)
(* One of the probe scripts that race with the host they look at: the walk *)
(* of /proc (ProcessSample) or the one of a temporary directory (TempWalk).*)
(* The collector runs one script after the other; they share no state.     *)
(***************************************************************************)
EXTENDS ProcessSample, TempWalk

VARIABLE script       \* "sample" or "walk"
vars == <<script, sampleVars, walkVars>>

\* The state of the script that does not run.
NoSample ==
  /\ life = [p \in Pids |-> "absent"] /\ changes = 0 /\ steady = {} /\ file = "none"
  /\ phase = "idle" /\ todo = <<>> /\ kept = <<>>
  /\ recorded = <<>> /\ skipped = {} /\ markers = {}
NoWalk ==
  /\ table = <<>> /\ moves = 0 /\ moved = {} /\ walk = "idle" /\ position = 1 /\ pruned = {}
  /\ batch = {} /\ reported = {} /\ complaints = {} /\ partial = FALSE

Init ==
  \/ script = "sample" /\ SampleInit /\ NoWalk
  \/ script = "walk" /\ WalkInit /\ NoSample
Next ==
  \/ script = "sample" /\ SampleNext /\ UNCHANGED <<script, walkVars>>
  \/ script = "walk" /\ WalkNext /\ UNCHANGED <<script, sampleVars>>
Spec == Init /\ [][Next]_vars
====
