---- MODULE FleetBatch ----
(***************************************************************************)
(* The batch scheduler (scan_all_with in engine.rs): the same workers as   *)
(* FleetStream, but each keeps its reports to itself; the main thread      *)
(* joins them and sorts all the reports by target label and position.      *)
(* There is no stopped flag and no channel. Invocation is the run around   *)
(* it.                                                                     *)
(***************************************************************************)
EXTENDS ExitStatus, SequencesExt

CONSTANTS
  N, Concurrency,
  Label,        \* Label[t]: rank of the target's label; two targets may share one
  Hosts         \* Hosts[t]: what scanning target t may do

Targets == 1..N
HostBehaviour == [panics : BOOLEAN, verdict : Verdict]

ASSUME NAssumption == N \in Nat
ASSUME ConcurrencyAssumption == Concurrency \in Nat \ {0}
ASSUME LabelAssumption == Label \in [Targets -> Nat]
ASSUME HostsAssumption == Hosts \in [Targets -> SUBSET HostBehaviour]

WorkerCount == IF Concurrency < N THEN Concurrency ELSE N
Workers == 1..WorkerCount

VARIABLES
  host,      \* what the scan of a target has done, once it has ended
  next, pc, held,
  local,     \* reports each worker has collected, in its own order
  main, reports
batchVars == <<host, next, pc, held, local, main, reports>>

ReportOf(t) == IF host[t].panics THEN PanickedVerdict ELSE host[t].verdict
Unscanned == [panics |-> TRUE, verdict |-> PanickedVerdict]

BatchInit ==
  /\ host = [t \in Targets |-> Unscanned]
  /\ next = 0
  /\ pc = [w \in Workers |-> "unborn"] /\ held = [w \in Workers |-> 0]
  /\ local = [w \in Workers |-> <<>>]
  /\ main = "spawning" /\ reports = <<>>

-----------------------------------------------------------------------------
\* next.fetch_add(1), which passes the last target once per worker.
FetchNext(w) ==
  /\ pc[w] = "fetch"
  /\ next' = next + 1
  /\ IF next < N
       THEN held' = [held EXCEPT ![w] = next + 1] /\ pc' = [pc EXCEPT ![w] = "scan"]
       ELSE pc' = [pc EXCEPT ![w] = "done"] /\ UNCHANGED held
  /\ UNCHANGED <<host, local, main, reports>>

\* scan_target under catch_unwind, and the push of (index, report).
Scan(w) ==
  /\ pc[w] = "scan"
  /\ \E h \in Hosts[held[w]] : host' = [host EXCEPT ![held[w]] = h]
  /\ local' = [local EXCEPT ![w] = Append(@, held[w])]
  /\ pc' = [pc EXCEPT ![w] = "fetch"] /\ held' = [held EXCEPT ![w] = 0]
  /\ UNCHANGED <<next, main, reports>>

Worker(w) == FetchNext(w) \/ Scan(w)

Unborn == {w \in Workers : pc[w] = "unborn"}
\* Mutant of AllDone: only the first handle is joined.
AllDoneFirst == \A w \in Workers : w = 1 => pc[w] \in {"done", "unborn"}

AllDone == \A w \in Workers : pc[w] \in {"done", "unborn"}

SpawnWorker(w) ==
  /\ main = "spawning"
  /\ pc[w] = "unborn" /\ \A v \in Unborn : w <= v
  /\ pc' = [pc EXCEPT ![w] = "fetch"]
  /\ UNCHANGED <<host, next, held, local, main, reports>>

\* scope.spawn panics; the scope still waits for the workers that were born.
SpawnFails ==
  /\ main = "spawning" /\ Unborn # {}
  /\ main' = "unwinding"
  /\ UNCHANGED <<host, next, pc, held, local, reports>>

\* Mutant of Before: the position does not break ties.
BeforeByLabel(t, u) == Label[t] < Label[u]

Before(t, u) == Label[t] < Label[u] \/ (Label[t] = Label[u] /\ t < u)

\* sort_by: a permutation in which nothing comes after what it should come before.
Sorted(s) ==
  LET order == CHOOSE p \in Bijection(DOMAIN s, DOMAIN s) :
                 \A j, k \in DOMAIN s : j < k => ~Before(s[p[k]], s[p[j]])
  IN [k \in DOMAIN s |-> s[order[k]]]

\* Join in the order of the handles, concatenate, sort by (label, index).
JoinAndSort ==
  /\ main = "spawning" /\ Unborn = {} /\ AllDone
  /\ reports' = Sorted(FlattenSeq(local))
  /\ main' = "collected" /\ local' = [w \in Workers |-> <<>>]
  /\ UNCHANGED <<host, next, pc, held>>

Summary ==
  FoldLeft(LAMBDA s, t : Include(s, ReportOf(t)), EmptySummary(N), reports)

\* The scope has waited for the workers that were born; the panic goes on.
Panicked ==
  /\ main = "unwinding" /\ AllDone
  /\ main' = "panicked"
  /\ UNCHANGED <<host, next, pc, held, local, reports>>

Collector == \/ \E w \in Workers : SpawnWorker(w)
             \/ SpawnFails \/ JoinAndSort \/ Panicked

-----------------------------------------------------------------------------
(* Properties *)

\* Whichever worker scanned what and in which order they ended, the document holds
\* one report per target, in the one order that labels and positions give: two runs
\* over the same fleet list the same targets in the same order.
OneReportEachInOrder ==
  main = "collected" =>
    /\ Len(reports) = N /\ Range(reports) = Targets
    /\ \A j, k \in 1..N : j < k =>
         \/ Label[reports[j]] < Label[reports[k]]
         \/ Label[reports[j]] = Label[reports[k]] /\ reports[j] < reports[k]
====
