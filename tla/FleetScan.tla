---- MODULE FleetScan ----
(***************************************************************************)
(* What scanning a fleet promises, whichever scheduler does it: targets    *)
(* are dispatched in order and at most Width at a time, every target is    *)
(* scanned at most once and counted at most once, and a scan that ends     *)
(* without being cut short has counted them all. A scan that is cut short  *)
(* (its consumer refused a report) still counts what it dispatched; only a *)
(* crash of the process may lose a report.                                 *)
(***************************************************************************)
EXTENDS Naturals, FiniteSets

CONSTANTS Targets, Width     \* Targets == 1..N

VARIABLES phase, status
vars == <<phase, status>>

Phase == {"queued", "scanning", "scanned", "counted"}
In(p) == {t \in Targets : phase[t] = p}

\* The variables hold values of their types.
TypeOK == /\ phase \in [Targets -> Phase]
          /\ status \in {"running", "cut", "over", "crashed"}

Init == /\ phase = [t \in Targets |-> "queued"]
        /\ status = "running"

Dispatch(t) ==
  /\ phase[t] = "queued"
  /\ \A u \in In("queued") : t <= u
  /\ Cardinality(In("scanning")) < Width
  /\ phase' = [phase EXCEPT ![t] = "scanning"]
  /\ UNCHANGED status

Complete(t) ==
  /\ phase[t] = "scanning"
  /\ phase' = [phase EXCEPT ![t] = "scanned"]
  /\ UNCHANGED status

\* One report at a time, or a whole batch at once.
Count(S) ==
  /\ S # {} /\ S \subseteq In("scanned")
  /\ status \in {"running", "cut"}
  /\ phase' = [t \in Targets |-> IF t \in S THEN "counted" ELSE phase[t]]
  /\ UNCHANGED status

Cut == /\ status = "running"
       /\ status' = "cut"
       /\ UNCHANGED phase

Finish ==
  /\ In("scanning") = {} /\ In("scanned") = {}
  /\ \/ status = "running" /\ In("queued") = {}
     \/ status = "cut"
  /\ status' = "over"
  /\ UNCHANGED phase

Crash == /\ status \in {"running", "cut"}
         /\ status' = "crashed"
         /\ UNCHANGED phase

Next == \/ \E t \in Targets : Dispatch(t) \/ Complete(t)
        \/ \E S \in SUBSET Targets : Count(S)
        \/ Cut \/ Finish \/ Crash

Spec == Init /\ [][Next]_vars
====
