---- MODULE MCFleetStream ----
EXTENDS FleetStream

V(severity, collector, incomplete) ==
  [severity |-> severity, collector |-> collector, incomplete |-> incomplete]

Clean       == [panics |-> FALSE, verdict |-> V(0, FALSE, FALSE)]
MediumGap   == [panics |-> FALSE, verdict |-> V(3, FALSE, TRUE)]   \* and a failed probe
Critical    == [panics |-> FALSE, verdict |-> V(5, FALSE, FALSE)]
Unreachable == [panics |-> FALSE, verdict |-> V(0, TRUE, TRUE)]
Panics      == [panics |-> TRUE,  verdict |-> V(0, FALSE, FALSE)]

\* The first target may behave in any way, the second is always the partly scanned
\* one, the others are clean.
MCHosts == [t \in 1..N |->
  CASE t = 1 -> {Clean, MediumGap, Critical, Unreachable, Panics}
    [] t = 2 -> {MediumGap}
    [] OTHER -> {Clean}]
====
