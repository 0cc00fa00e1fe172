---- MODULE FleetStream ----
(***************************************************************************)
(* The streaming scheduler (scan_all_unordered_with in engine.rs) and the  *)
(* run around it in main.rs: worker threads take target indices from an    *)
(* atomic counter, scan, and send reports through a bounded channel to the *)
(* main thread, which counts each one and hands it to on_report. The first *)
(* error of on_report raises the stopped flag that the workers poll.       *)
(*                                                                         *)
(* A report is named by the index of its target: ReportOf gives the rest.  *)
(* Indices start at 1, so `next` is the number of fetch_add calls so far.  *)
(***************************************************************************)
EXTENDS ExitStatus, Sequences, FiniteSets

CONSTANTS
  N,            \* targets on the command line
  Concurrency,  \* --concurrency
  Hosts,        \* Hosts[t]: what scanning target t may do
  Handler,      \* how a call of on_report may end
  FailOns       \* values of --fail-on

Targets == 1..N
HostBehaviour == [panics : BOOLEAN, verdict : Verdict]

ASSUME NAssumption == N \in Nat
ASSUME ConcurrencyAssumption == Concurrency \in Nat \ {0}
ASSUME HostsAssumption == Hosts \in [Targets -> SUBSET HostBehaviour]
ASSUME HandlerAssumption == Handler \subseteq {"ok", "BrokenPipe", "Other", "panic"}
ASSUME FailOnAssumption == FailOns \subseteq Severity

WorkerCount == IF Concurrency < N THEN Concurrency ELSE N
Workers == 1..WorkerCount
Capacity == IF WorkerCount = 0 THEN 1 ELSE WorkerCount   \* of the sync_channel

VARIABLES
  host,        \* ground truth: the behaviour of each target, never changed
  next, stopped,
  pc, held,    \* per worker: where it is, and the target it works on
  chan,        \* reports sent and not received
  main, current,
  summary, firstError,
  received,    \* targets counted in the summary
  accepted,    \* targets whose report on_report took without error
  exit
vars == <<host, next, stopped, pc, held, chan, main, current,
          summary, firstError, received, accepted, exit>>
workerVars == <<next, pc, held>>
mainVars == <<stopped, main, current, summary, firstError, received, accepted, exit>>

ExitRecord == [code : {0, 1, 2, 101, 255}, strict : BOOLEAN,
               failOn : {NoSeverity} \cup Severity, wrote : WriteError]
NoCode(code) == [code |-> code, strict |-> FALSE, failOn |-> NoSeverity, wrote |-> "none"]
NotExited == NoCode(255)
WorkerState == {"unborn", "check", "fetch", "scan", "send", "done"}
MainState == {"spawning", "recv", "handle", "joined", "unwinding", "exited"}

ReportOf(t) == IF host[t].panics THEN PanickedVerdict ELSE host[t].verdict

Init ==
  /\ host \in {h \in [Targets -> UNION {Hosts[t] : t \in Targets}] :
                 \A t \in Targets : h[t] \in Hosts[t]}
  /\ next = 0 /\ stopped = FALSE
  /\ pc = [w \in Workers |-> "unborn"]
  /\ held = [w \in Workers |-> 0]
  /\ chan = <<>>
  /\ main = "spawning" /\ current = 0
  /\ summary = EmptySummary(N)
  /\ firstError = "none"
  /\ received = {} /\ accepted = {}
  /\ exit = NotExited

-----------------------------------------------------------------------------
(* Worker threads *)

\* Mutant of CheckStopped: the flag is not looked at.
CheckNothing(w) ==
  /\ pc[w] = "check"
  /\ pc' = [pc EXCEPT ![w] = "fetch"]
  /\ UNCHANGED <<host, next, held, chan, mainVars>>

\* stopped.load(Acquire)
CheckStopped(w) ==
  /\ pc[w] = "check"
  /\ pc' = [pc EXCEPT ![w] = IF stopped THEN "done" ELSE "fetch"]
  /\ UNCHANGED <<host, next, held, chan, mainVars>>

\* Mutant of FetchNext: a load and a store, so that two workers may take one target.
FetchNextRacy(w) ==
  /\ pc[w] = "fetch"
  /\ next' = IF \E v \in Workers \ {w} : pc[v] = "fetch" THEN next ELSE next + 1
  /\ IF next < N
       THEN /\ held' = [held EXCEPT ![w] = next + 1]
            /\ pc' = [pc EXCEPT ![w] = "scan"]
       ELSE /\ pc' = [pc EXCEPT ![w] = "done"]
            /\ UNCHANGED held
  /\ UNCHANGED <<host, chan, mainVars>>

\* next.fetch_add(1), which passes the last target once per worker.
FetchNext(w) ==
  /\ pc[w] = "fetch"
  /\ next' = next + 1
  /\ IF next < N
       THEN /\ held' = [held EXCEPT ![w] = next + 1]
            /\ pc' = [pc EXCEPT ![w] = "scan"]
       ELSE /\ pc' = [pc EXCEPT ![w] = "done"]
            /\ UNCHANGED held
  /\ UNCHANGED <<host, chan, mainVars>>

\* scan_target under catch_unwind: a panic becomes a report like any other.
Scan(w) ==
  /\ pc[w] = "scan"
  /\ pc' = [pc EXCEPT ![w] = "send"]
  /\ UNCHANGED <<host, next, held, chan, mainVars>>

\* Mutant of ReceiverDropped: a panic of the main thread keeps the receiver.
ReceiverKept == main = "exited"

ReceiverDropped == main \in {"unwinding", "exited"}

\* Mutant of Send: an unbounded channel.
SendUnbounded(w) ==
  /\ pc[w] = "send" /\ ~ReceiverDropped
  /\ chan' = Append(chan, held[w])
  /\ pc' = [pc EXCEPT ![w] = "check"]
  /\ held' = [held EXCEPT ![w] = 0]
  /\ UNCHANGED <<host, next, mainVars>>

\* sender.send blocks while the channel is full.
Send(w) ==
  /\ pc[w] = "send" /\ ~ReceiverDropped
  /\ Len(chan) < Capacity
  /\ chan' = Append(chan, held[w])
  /\ pc' = [pc EXCEPT ![w] = "check"]
  /\ held' = [held EXCEPT ![w] = 0]
  /\ UNCHANGED <<host, next, mainVars>>

\* ... and wakes with an error when the receiver has gone.
SendFails(w) ==
  /\ pc[w] = "send" /\ ReceiverDropped
  /\ pc' = [pc EXCEPT ![w] = "done"]
  /\ UNCHANGED <<host, next, held, chan, mainVars>>

Worker(w) == CheckStopped(w) \/ FetchNext(w) \/ Scan(w) \/ Send(w) \/ SendFails(w)

-----------------------------------------------------------------------------
(* The main thread *)

Unborn == {w \in Workers : pc[w] = "unborn"}
AllDone == \A w \in Workers : pc[w] \in {"done", "unborn"}

SpawnWorker(w) ==
  /\ main = "spawning"
  /\ pc[w] = "unborn" /\ \A v \in Unborn : w <= v
  /\ pc' = [pc EXCEPT ![w] = "check"]
  /\ UNCHANGED <<host, next, held, chan, mainVars>>

\* scope.spawn panics when the system refuses a thread: both channel ends drop.
SpawnFails ==
  /\ main = "spawning" /\ Unborn # {}
  /\ main' = "unwinding"
  /\ UNCHANGED <<host, workerVars, stopped, current, summary, firstError,
                 received, accepted, exit>>
  /\ chan' = <<>>

\* drop(sender): only the workers hold senders now.
SpawnedAll ==
  /\ main = "spawning" /\ Unborn = {}
  /\ main' = "recv"
  /\ UNCHANGED <<host, workerVars, chan, stopped, current, summary, firstError,
                 received, accepted, exit>>

\* Mutant of Receive: after an error of on_report nothing more is counted.
ReceiveDiscards ==
  /\ main = "recv" /\ chan # <<>>
  /\ chan' = Tail(chan)
  /\ IF firstError = "none"
       THEN /\ summary' = Include(summary, ReportOf(Head(chan)))
            /\ received' = received \cup {Head(chan)}
            /\ main' = "handle" /\ current' = Head(chan)
       ELSE UNCHANGED <<main, current, summary, received>>
  /\ UNCHANGED <<host, workerVars, stopped, firstError, accepted, exit>>

\* The next report is counted; on_report is skipped once it has failed.
Receive ==
  /\ main = "recv" /\ chan # <<>>
  /\ chan' = Tail(chan)
  /\ summary' = Include(summary, ReportOf(Head(chan)))
  /\ received' = received \cup {Head(chan)}
  /\ IF firstError = "none"
       THEN main' = "handle" /\ current' = Head(chan)
       ELSE UNCHANGED <<main, current>>
  /\ UNCHANGED <<host, workerVars, stopped, firstError, accepted, exit>>

HandlerAccepts ==
  /\ main = "handle" /\ "ok" \in Handler
  /\ accepted' = accepted \cup {current}
  /\ main' = "recv" /\ current' = 0
  /\ UNCHANGED <<host, workerVars, chan, stopped, summary, firstError, received, exit>>

HandlerFails(error) ==
  /\ main = "handle" /\ error \in Handler
  /\ stopped' = TRUE /\ firstError' = error
  /\ main' = "recv" /\ current' = 0
  /\ UNCHANGED <<host, workerVars, chan, summary, received, accepted, exit>>

\* on_report panics: the receiver and what it holds are dropped on the way out.
HandlerPanics ==
  /\ main = "handle" /\ "panic" \in Handler
  /\ main' = "unwinding" /\ current' = 0
  /\ chan' = <<>>
  /\ UNCHANGED <<host, workerVars, stopped, summary, firstError, received,
                 accepted, exit>>

\* Mutant of Join: the loop ends when the channel is empty.
JoinEarly ==
  /\ main = "recv" /\ chan = <<>>
  /\ main' = "joined"
  /\ UNCHANGED <<host, workerVars, chan, stopped, current, summary, firstError,
                 received, accepted, exit>>

\* The loop ends when every sender is dropped; the scope then joins the workers.
Join ==
  /\ main = "recv" /\ chan = <<>> /\ AllDone
  /\ main' = "joined"
  /\ UNCHANGED <<host, workerVars, chan, stopped, current, summary, firstError,
                 received, accepted, exit>>

\* The writer is persisted only after a scan that on_report never failed.
Exit(strict, failOn) ==
  /\ main = "joined"
  /\ main' = "exited"
  /\ \E wrote \in IF firstError = "none" THEN WriteError ELSE {firstError} :
       exit' = [code |-> ExitAfterWrite(wrote, summary, strict, failOn),
                strict |-> strict, failOn |-> failOn, wrote |-> wrote]
  /\ UNCHANGED <<host, workerVars, chan, stopped, current, summary, firstError,
                 received, accepted>>

ExitPanicked ==
  /\ main = "unwinding" /\ AllDone
  /\ main' = "exited"
  /\ exit' = NoCode(101)
  /\ UNCHANGED <<host, workerVars, chan, stopped, current, summary, firstError,
                 received, accepted>>

Main == \/ \E w \in Workers : SpawnWorker(w)
        \/ SpawnFails \/ SpawnedAll
        \/ Receive \/ HandlerAccepts \/ HandlerPanics
        \/ \E error \in WriteError \ {"none"} : HandlerFails(error)
        \/ Join \/ ExitPanicked
        \/ \E strict \in BOOLEAN, failOn \in FailOns : Exit(strict, failOn)

Next == Main \/ \E w \in Workers : Worker(w)

\* Threads are scheduled fairly, scans end (transport.rs bounds each one by its
\* timeout) and on_report returns.
Fairness == WF_vars(Main) /\ \A w \in Workers : WF_vars(Worker(w))
Spec == Init /\ [][Next]_vars /\ Fairness

-----------------------------------------------------------------------------
(* Properties *)

Busy == {w \in Workers : pc[w] \in {"scan", "send"}}
Dispatched == IF next < N THEN next ELSE N
InChan == {chan[k] : k \in 1..Len(chan)}

\* The variables hold values of their types; the channel never exceeds its bound.
TypeOK ==
  /\ host \in [Targets -> HostBehaviour]
  /\ next \in Nat /\ stopped \in BOOLEAN
  /\ pc \in [Workers -> WorkerState]
  /\ held \in [Workers -> 0..N]
  /\ chan \in Seq(Targets) /\ Len(chan) <= Capacity
  /\ main \in MainState /\ current \in 0..N
  /\ summary \in SummaryType
  /\ firstError \in WriteError
  /\ received \subseteq Targets /\ accepted \subseteq Targets
  /\ exit \in ExitRecord

\* However slow the consumer is, the workers are at most two rounds ahead of it:
\* no more than 2 * WorkerCount reports are dispatched and not yet counted.
BoundedRunAhead == Dispatched <= summary.completed + 2 * WorkerCount

\* Once on_report has failed, at most the reports queued, those being scanned and
\* one target per worker that had already read the flag are dispatched: the flag
\* bounds the work done for a consumer that has gone. (One more than the test at
\* engine.rs:721-724 allows for a consumer that refuses the first report.)
StopBound ==
  firstError # "none" =>
    Dispatched <= Cardinality(accepted) + 1 + 2 * WorkerCount

\* A target is in one place at a time: it is held by one worker, or queued once,
\* or counted, and it was dispatched before. So no report is counted twice.
OnePlaceEach ==
  /\ \A v, w \in Busy : v # w => held[v] # held[w]
  /\ \A j, k \in 1..Len(chan) : j # k => chan[j] # chan[k]
  /\ InChan \cap received = {}
  /\ \A w \in Busy : held[w] \in 1..next /\ held[w] \notin InChan \cup received
  /\ InChan \cup received \subseteq 1..next
  /\ summary.completed = Cardinality(received)

\* In-flight targets still finish and count toward the summary, after an error of
\* on_report as well: at the join everything dispatched was counted, and without
\* an error everything was dispatched and accepted.
JoinedCountsAll ==
  main = "joined" =>
    /\ received = 1..Dispatched
    /\ firstError = "none" => received = Targets /\ accepted = Targets

\* The exit code tells the truth about the targets: 0 or 1 only if every one of
\* them was scanned by a collector that worked, 1 exactly when a severity reached
\* the threshold, and a report that could not be written is never a success.
ExitIsHonest ==
  (main = "exited" /\ exit.code # 101) =>
    IF exit.wrote = "Other" THEN exit.code = 2
    ELSE HonestExit(exit.code, Targets, [t \in received |-> ReportOf(t)],
                    exit.strict, exit.failOn)

\* The process always exits: no worker waits for ever on a full channel, also when
\* the main thread has stopped receiving because it panicked.
Terminates == <>(main = "exited")

\* The streaming scheduler implements FleetScan.
Abstract == INSTANCE FleetScan WITH
  Width <- WorkerCount,
  phase <- [t \in Targets |->
              IF t > next THEN "queued"
              ELSE IF \E w \in Workers : pc[w] = "scan" /\ held[w] = t THEN "scanning"
              ELSE IF t \in received THEN "counted" ELSE "scanned"],
  status <- IF main = "unwinding" \/ exit.code = 101 THEN "crashed"
            ELSE IF main \in {"joined", "exited"} THEN "over"
            ELSE IF firstError # "none" THEN "cut" ELSE "running"
ImplementsFleetScan == Abstract!Spec
====
