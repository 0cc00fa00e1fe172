---- MODULE FleetStreamProofs ----
(***************************************************************************)
(* Theorems about the streaming scheduler, for every number of targets and *)
(* workers, every behaviour of the hosts and every way on_report may end.  *)
(***************************************************************************)
EXTENDS FleetStream, FiniteSetTheorems, TLAPS

USE NAssumption, ConcurrencyAssumption

\* There is a worker unless there are no targets.
LEMMA WorkerCountType == WorkerCount \in Nat /\ Capacity \in Nat \ {0}
BY DEF WorkerCount, Capacity

\* Every report has the type of a verdict, whatever the host did.
LEMMA ReportType ==
  ASSUME TypeOK, NEW t \in Targets
  PROVE  /\ ReportOf(t) \in Verdict
         /\ ReportOf(t).severity \in {NoSeverity} \cup Severity
         /\ ReportOf(t).collector \in BOOLEAN
         /\ ReportOf(t).incomplete \in BOOLEAN
<1>1. host[t] \in HostBehaviour
  BY DEF TypeOK
<1>2. PanickedVerdict \in Verdict
  BY DEF PanickedVerdict, Verdict
<1>3. ReportOf(t) \in Verdict
  BY <1>1, <1>2 DEF ReportOf, HostBehaviour
<1> QED BY <1>3 DEF Verdict

\* Including a report keeps the summary's type.
LEMMA IncludeType ==
  ASSUME NEW s \in SummaryType, NEW v \in Verdict
  PROVE  Include(s, v) \in SummaryType
<1>1. Higher(s.highest, v.severity) \in {NoSeverity} \cup Severity
  BY DEF SummaryType, Verdict, Higher
<1>2. s.requested \in Nat /\ s.completed + 1 \in Nat
  BY DEF SummaryType
<1> QED BY <1>1, <1>2 DEF Include, SummaryType

-----------------------------------------------------------------------------
(* Types *)

\* A busy worker holds a target it was given by the counter; the report being
\* handled has been counted. TypeOK is inductive together with these two.
HeldIsDispatched == \A w \in Workers : pc[w] \in {"scan", "send"} => held[w] \in 1..Dispatched
CurrentIsCounted == main = "handle" => current \in received
TypeInv == TypeOK /\ HeldIsDispatched /\ CurrentIsCounted

\* The types hold at the start.
LEMMA TypeInit == Init => TypeInv
<1> SUFFICES ASSUME Init PROVE TypeInv
  OBVIOUS
<1>1. host \in [Targets -> HostBehaviour]
  BY HostsAssumption DEF Init
<1>2. summary \in SummaryType
  BY DEF Init, EmptySummary, SummaryType
<1>3. exit \in ExitRecord
  BY DEF Init, NotExited, NoCode, WriteError, ExitRecord
<1>4. chan \in Seq(Targets) /\ Len(chan) <= Capacity
  BY WorkerCountType DEF Init
<1>5. pc \in [Workers -> WorkerState] /\ held \in [Workers -> 0..N]
  BY DEF Init, WorkerState
<1>6. next \in Nat /\ current \in 0..N
  BY DEF Init
<1>7. main \in MainState /\ firstError \in WriteError
  BY DEF Init, MainState, WriteError
<1>8. stopped \in BOOLEAN
  BY DEF Init
<1>9. received \subseteq Targets /\ accepted \subseteq Targets
  BY DEF Init
<1>10. TypeOK
  BY <1>1, <1>2, <1>3, <1>4, <1>5, <1>6, <1>7, <1>8, <1>9 DEF TypeOK
<1> QED
  BY <1>10 DEF Init, TypeInv, HeldIsDispatched, CurrentIsCounted

\* A step that leaves the types of what it writes intact.
LEMMA TypeStep == TypeInv /\ [Next]_vars => TypeInv'
<1> SUFFICES ASSUME TypeInv, [Next]_vars PROVE TypeInv'
  OBVIOUS
<1> USE WorkerCountType DEF TypeInv, TypeOK, HeldIsDispatched, CurrentIsCounted, workerVars,
        mainVars
<1>1. ASSUME NEW w \in Workers, CheckStopped(w) PROVE TypeInv'
  BY <1>1 DEF CheckStopped, WorkerState, Dispatched
<1>2. ASSUME NEW w \in Workers, FetchNext(w) PROVE TypeInv'
  <2>1. CASE next < N
    <3>1. next + 1 \in 0..N /\ next' = next + 1 /\ next' \in Nat
      BY <1>2, <2>1, NAssumption DEF FetchNext
    <3>2. held' = [held EXCEPT ![w] = next + 1] /\ pc' = [pc EXCEPT ![w] = "scan"]
      BY <1>2, <2>1 DEF FetchNext
    <3>3. pc' \in [Workers -> WorkerState] /\ held' \in [Workers -> 0..N]
      BY <3>1, <3>2 DEF WorkerState
    <3>4. HeldIsDispatched'
      BY <3>1, <3>2, <2>1 DEF Dispatched
    <3> QED BY <1>2, <3>1, <3>3, <3>4 DEF FetchNext
  <2>2. CASE ~(next < N)
    <3>1. next' \in Nat /\ pc' = [pc EXCEPT ![w] = "done"] /\ held' = held
      BY <1>2, <2>2 DEF FetchNext
    <3>2. HeldIsDispatched'
      BY <1>2, <3>1, <2>2 DEF FetchNext, Dispatched
    <3> QED BY <1>2, <3>1, <3>2 DEF FetchNext, WorkerState
  <2> QED BY <2>1, <2>2
<1>3. ASSUME NEW w \in Workers, Scan(w) PROVE TypeInv'
  BY <1>3 DEF Scan, WorkerState, Dispatched
<1>4. ASSUME NEW w \in Workers, Send(w) PROVE TypeInv'
  <2>1. held[w] \in Targets
    BY <1>4 DEF Send, Dispatched, Targets
  <2>2. chan' \in Seq(Targets) /\ Len(chan') <= Capacity
    BY <1>4, <2>1 DEF Send
  <2> QED BY <1>4, <2>2 DEF Send, WorkerState, Dispatched
<1>5. ASSUME NEW w \in Workers, SendFails(w) PROVE TypeInv'
  BY <1>5 DEF SendFails, WorkerState, Dispatched
<1>6. ASSUME NEW w \in Workers, SpawnWorker(w) PROVE TypeInv'
  BY <1>6 DEF SpawnWorker, WorkerState, Dispatched
<1>7. CASE SpawnFails
  BY <1>7 DEF SpawnFails, MainState, Dispatched
<1>8. CASE SpawnedAll
  BY <1>8 DEF SpawnedAll, MainState, Dispatched
<1>9. CASE Receive
  <2>1. Head(chan) \in Targets /\ chan' \in Seq(Targets) /\ Len(chan') <= Capacity
    BY <1>9 DEF Receive
  <2>2. ReportOf(Head(chan)) \in Verdict
    BY <2>1, ReportType
  <2>3. summary' \in SummaryType
    BY <1>9, <2>2, IncludeType DEF Receive
  <2>4. received' \subseteq Targets
    BY <1>9, <2>1 DEF Receive
  <2>5. main' \in MainState /\ current' \in 0..N /\ (main' = "handle" => current' \in received')
    BY <1>9, <2>1 DEF Receive, MainState, Targets
  <2> QED BY <1>9, <2>1, <2>3, <2>4, <2>5 DEF Receive, Dispatched
<1>10. CASE HandlerAccepts
  BY <1>10 DEF HandlerAccepts, MainState, Dispatched
<1>11. ASSUME NEW error \in WriteError \ {"none"}, HandlerFails(error) PROVE TypeInv'
  BY <1>11 DEF HandlerFails, MainState, Dispatched
<1>12. CASE HandlerPanics
  BY <1>12 DEF HandlerPanics, MainState, Dispatched
<1>13. CASE Join
  BY <1>13 DEF Join, MainState, Dispatched
<1>14. ASSUME NEW strict \in BOOLEAN, NEW failOn \in FailOns, Exit(strict, failOn)
       PROVE  TypeInv'
  <2>1. PICK wrote \in WriteError :
          exit' = [code |-> ExitAfterWrite(wrote, summary, strict, failOn),
                   strict |-> strict, failOn |-> failOn, wrote |-> wrote]
    BY <1>14 DEF Exit
  <2>2. ExitAfterWrite(wrote, summary, strict, failOn) \in {0, 1, 2}
    BY DEF ExitAfterWrite, ReportExit
  <2>3. failOn \in Severity
    BY FailOnAssumption
  <2>4. exit' \in ExitRecord
    BY <2>1, <2>2, <2>3 DEF ExitRecord
  <2> QED BY <1>14, <2>4 DEF Exit, MainState, Dispatched
<1>15. CASE ExitPanicked
  <2>1. exit' \in ExitRecord
    BY <1>15 DEF ExitPanicked, NoCode, ExitRecord, WriteError
  <2> QED BY <1>15, <2>1 DEF ExitPanicked, MainState, Dispatched
<1>16. CASE UNCHANGED vars
  BY <1>16 DEF vars, Dispatched
<1> QED
  BY <1>1, <1>2, <1>3, <1>4, <1>5, <1>6, <1>7, <1>8, <1>9, <1>10, <1>11, <1>12, <1>13,
     <1>14, <1>15, <1>16
  DEF Next, Main, Worker

\* Every behaviour of the scheduler is well typed: in particular the channel
\* (sync_channel in scan_all_unordered_with) never holds more than its capacity.
THEOREM TypeCorrect == Spec => []TypeOK
<1>1. Spec => []TypeInv
  BY TypeInit, TypeStep, PTL DEF Spec
<1>2. TypeInv => TypeOK
  BY DEF TypeInv
<1> QED BY <1>1, <1>2, PTL

-----------------------------------------------------------------------------
(* Where each report is *)

\* Sending moves a report to the end of the channel, receiving takes the first.
LEMMA ChannelAppend ==
  ASSUME NEW c \in Seq(Targets), NEW t \in Targets
  PROVE  /\ Len(Append(c, t)) = Len(c) + 1
         /\ \A k \in 1..Len(c) : Append(c, t)[k] = c[k]
         /\ Append(c, t)[Len(c) + 1] = t
OBVIOUS

\* What is left of the channel when its first report is received.
LEMMA ChannelTail ==
  ASSUME NEW c \in Seq(Targets), c # <<>>
  PROVE  /\ Len(c) \in Nat \ {0} /\ Head(c) = c[1] /\ Head(c) \in Targets
         /\ Len(Tail(c)) = Len(c) - 1
         /\ \A k \in 1..Len(Tail(c)) : Tail(c)[k] = c[k + 1]
OBVIOUS

\* The received reports are finitely many, N at most.
LEMMA ReceivedFinite ==
  ASSUME NAssumption, TypeOK
  PROVE  IsFiniteSet(Targets) /\ Cardinality(Targets) = N /\ IsFiniteSet(received)
<1>1. IsFiniteSet(Targets) /\ Cardinality(Targets) = N
  BY FS_Interval DEF Targets
<1> QED BY <1>1, FS_Subset DEF TypeOK

\* At the start no report is anywhere.
LEMMA PlaceInit == Init => OnePlaceEach
BY FS_EmptySet DEF Init, OnePlaceEach, Busy, InChan, EmptySummary

\* A step moves at most one report, from one place to the next.
LEMMA PlaceStep == TypeInv /\ OnePlaceEach /\ [Next]_vars => OnePlaceEach'
<1> SUFFICES ASSUME TypeInv, OnePlaceEach, [Next]_vars PROVE OnePlaceEach'
  OBVIOUS
<1> USE DEF TypeInv, TypeOK, workerVars, mainVars
<1>0. ASSUME UNCHANGED <<next, held, chan, summary, received>>,
             \A w \in Workers : pc'[w] \in {"scan", "send"} => pc[w] \in {"scan", "send"}
      PROVE  OnePlaceEach'
  BY <1>0 DEF OnePlaceEach, Busy, InChan
<1>1. ASSUME NEW w \in Workers, CheckStopped(w) PROVE OnePlaceEach'
  BY <1>0, <1>1 DEF CheckStopped
<1>2. ASSUME NEW w \in Workers, FetchNext(w) PROVE OnePlaceEach'
  <2>1. CASE next < N
    <3>1. /\ next' = next + 1
          /\ held' = [held EXCEPT ![w] = next + 1] /\ pc' = [pc EXCEPT ![w] = "scan"]
          /\ UNCHANGED <<chan, summary, received>>
      BY <1>2, <2>1 DEF FetchNext
    <3>2. Busy' = Busy \cup {w}
      BY <3>1 DEF Busy
    <3>3. InChan' = InChan /\ InChan \cup received \subseteq 1..next
      BY <3>1 DEF InChan, OnePlaceEach
    <3>4. \A v \in Busy : held[v] \in 1..next /\ (v # w => held'[v] = held[v])
      BY <3>1 DEF OnePlaceEach, Busy
    <3>5. w \notin Busy /\ held'[w] = next + 1
      BY <1>2, <3>1 DEF FetchNext, Busy
    <3>6. \A u, v \in Busy' : u # v => held'[u] # held'[v]
      BY <3>2, <3>4, <3>5 DEF OnePlaceEach, Busy
    <3>7. \A v \in Busy' : held'[v] \in 1..next' /\ held'[v] \notin InChan' \cup received'
      BY <3>1, <3>2, <3>3, <3>4, <3>5 DEF OnePlaceEach
    <3> QED BY <3>1, <3>3, <3>6, <3>7 DEF OnePlaceEach
  <2>2. CASE ~(next < N)
    <3>1. /\ next' = next + 1 /\ pc' = [pc EXCEPT ![w] = "done"]
          /\ UNCHANGED <<held, chan, summary, received>>
      BY <1>2, <2>2 DEF FetchNext
    <3>2. Busy' \subseteq Busy /\ InChan' = InChan
      BY <3>1 DEF Busy, InChan
    <3>3. 1..next \subseteq 1..next'
      BY <3>1
    <3> QED BY <3>1, <3>2, <3>3 DEF OnePlaceEach
  <2> QED BY <2>1, <2>2
<1>3. ASSUME NEW w \in Workers, Scan(w) PROVE OnePlaceEach'
  BY <1>0, <1>3 DEF Scan
<1>4. ASSUME NEW w \in Workers, Send(w) PROVE OnePlaceEach'
  <2> DEFINE t == held[w]
  <2>1. /\ w \in Busy /\ chan' = Append(chan, t)
        /\ pc' = [pc EXCEPT ![w] = "check"] /\ held' = [held EXCEPT ![w] = 0]
        /\ UNCHANGED <<next, summary, received>>
    BY <1>4 DEF Send, Busy
  <2>2. t \in Targets
    BY <2>1, <1>4 DEF HeldIsDispatched, Dispatched, Targets, Send
  <2>3. /\ Len(chan') = Len(chan) + 1 /\ chan'[Len(chan) + 1] = t
        /\ \A k \in 1..Len(chan) : chan'[k] = chan[k]
    BY <2>1, <2>2, ChannelAppend
  <2>4. InChan' = InChan \cup {t}
    <3>0. Len(chan) \in Nat
      OBVIOUS
    <3>1. ASSUME NEW k \in 1..Len(chan') PROVE chan'[k] \in InChan \cup {t}
      <4>1. k \in 1..Len(chan) \/ k = Len(chan) + 1
        BY <2>3, <3>0
      <4> QED BY <2>3, <4>1 DEF InChan
    <3>2. ASSUME NEW k \in 1..Len(chan) PROVE chan[k] \in InChan'
      <4>1. k \in 1..Len(chan') /\ chan'[k] = chan[k]
        BY <2>3, <3>0
      <4> QED BY <4>1 DEF InChan
    <3>3. t \in InChan'
      <4>1. Len(chan) + 1 \in 1..Len(chan')
        BY <2>3, <3>0
      <4> QED BY <2>3, <4>1 DEF InChan
    <3>4. InChan' \subseteq InChan \cup {t}
      BY <3>1 DEF InChan
    <3>5. InChan \subseteq InChan'
      BY <3>2 DEF InChan
    <3> QED BY <3>3, <3>4, <3>5
  <2>5. Busy' = Busy \ {w} /\ \A v \in Busy' : held'[v] = held[v] /\ held[v] # t
    BY <2>1 DEF Busy, OnePlaceEach
  <2>6. t \in 1..next /\ t \notin InChan /\ t \notin received
    BY <2>1 DEF OnePlaceEach
  <2>7. \A j, k \in 1..Len(chan') : j # k => chan'[j] # chan'[k]
    <3> SUFFICES ASSUME NEW j \in 1..Len(chan'), NEW k \in 1..Len(chan'), j # k
                 PROVE  chan'[j] # chan'[k]
      OBVIOUS
    <3>1. \A i \in 1..Len(chan) : chan[i] # t
      BY <2>6 DEF InChan
    <3>2. CASE j \in 1..Len(chan) /\ k \in 1..Len(chan)
      BY <2>3, <3>2 DEF OnePlaceEach
    <3>3. CASE j \notin 1..Len(chan) \/ k \notin 1..Len(chan)
      <4>1. (j = Len(chan) + 1 /\ k \in 1..Len(chan)) \/ (k = Len(chan) + 1 /\ j \in 1..Len(chan))
        BY <2>3, <3>3
      <4> QED BY <2>3, <3>1, <4>1
    <3> QED BY <3>2, <3>3
  <2> HIDE DEF t
  <2> QED BY <2>1, <2>4, <2>5, <2>6, <2>7 DEF OnePlaceEach
<1>5. ASSUME NEW w \in Workers, SendFails(w) PROVE OnePlaceEach'
  BY <1>0, <1>5 DEF SendFails
<1>6. ASSUME NEW w \in Workers, SpawnWorker(w) PROVE OnePlaceEach'
  BY <1>0, <1>6 DEF SpawnWorker
<1>7. ASSUME chan' = <<>>, UNCHANGED <<next, held, pc, summary, received>>
      PROVE  OnePlaceEach'
  <2>1. InChan' = {} /\ Busy' = Busy /\ Len(chan') = 0
    BY <1>7 DEF InChan, Busy
  <2> QED BY <1>7, <2>1 DEF OnePlaceEach
<1>8. CASE SpawnFails \/ HandlerPanics
  BY <1>7, <1>8 DEF SpawnFails, HandlerPanics
<1>9. CASE Receive
  <2> DEFINE t == Head(chan)
  <2>1. /\ chan # <<>> /\ chan' = Tail(chan) /\ received' = received \cup {t}
        /\ summary' = Include(summary, ReportOf(t)) /\ UNCHANGED <<next, held, pc>>
    BY <1>9 DEF Receive
  <2>2. /\ Len(chan) \in Nat \ {0} /\ t = chan[1] /\ t \in Targets
        /\ Len(chan') = Len(chan) - 1 /\ \A k \in 1..Len(chan') : chan'[k] = chan[k + 1]
    BY <2>1, ChannelTail
  <2>3. t \in InChan /\ t \notin InChan' /\ InChan' \subseteq InChan
    BY <2>2 DEF InChan, OnePlaceEach
  <2>4. ASSUME NEW j \in 1..Len(chan'), NEW k \in 1..Len(chan'), j # k
        PROVE  chan'[j] # chan'[k]
    <3> DEFINE n == Len(chan)
               m == Len(chan')
    <3>0. n \in Nat /\ m = n - 1 /\ j \in 1..m /\ k \in 1..m
      BY <2>2
    <3> HIDE DEF n, m
    <3>1. j + 1 \in 1..n /\ k + 1 \in 1..n /\ j + 1 # k + 1
      BY <3>0, <2>4
    <3>2. chan[j + 1] # chan[k + 1]
      BY <3>1 DEF OnePlaceEach, n
    <3> QED BY <2>2, <3>2
  <2>5. Busy' = Busy
    BY <2>1 DEF Busy
  <2>6. summary'.completed = Cardinality(received')
    <3>1. t \notin received /\ summary.completed = Cardinality(received)
      BY <2>3 DEF OnePlaceEach
    <3>2. Cardinality(received') = Cardinality(received) + 1
      BY <2>1, <3>1, FS_AddElement, ReceivedFinite, NAssumption
    <3> QED BY <2>1, <3>1, <3>2 DEF Include
  <2>7. InChan' \cap received' = {} /\ InChan' \cup received' \subseteq 1..next'
    <3>1. InChan \cap received = {} /\ InChan \cup received \subseteq 1..next /\ next' = next
      BY <2>1 DEF OnePlaceEach
    <3> HIDE DEF t
    <3> QED BY <2>1, <2>3, <3>1
  <2>8. \A v \in Busy : held[v] \in 1..next /\ held[v] \notin InChan' \cup received'
    BY <2>1, <2>3 DEF OnePlaceEach
  <2> HIDE DEF t
  <2> QED BY <2>1, <2>4, <2>5, <2>6, <2>7, <2>8 DEF OnePlaceEach
<1>10. CASE SpawnedAll \/ HandlerAccepts \/ Join \/ ExitPanicked
  BY <1>0, <1>10 DEF SpawnedAll, HandlerAccepts, Join, ExitPanicked
<1>11. ASSUME NEW error \in WriteError \ {"none"}, HandlerFails(error) PROVE OnePlaceEach'
  BY <1>0, <1>11 DEF HandlerFails
<1>12. ASSUME NEW strict \in BOOLEAN, NEW failOn \in FailOns, Exit(strict, failOn)
       PROVE  OnePlaceEach'
  BY <1>0, <1>12 DEF Exit
<1>13. CASE UNCHANGED vars
  BY <1>0, <1>13 DEF vars
<1> QED
  BY <1>1, <1>2, <1>3, <1>4, <1>5, <1>6, <1>8, <1>9, <1>10, <1>11, <1>12, <1>13
  DEF Next, Main, Worker

\* No report is duplicated or counted twice, whatever the interleaving of the
\* workers (engine.rs: the atomic counter, the channel and the receiving loop).
THEOREM NoDuplicate == Spec => []OnePlaceEach
<1>1. Spec => [](TypeInv /\ OnePlaceEach)
  BY TypeInit, TypeStep, PlaceInit, PlaceStep, PTL DEF Spec
<1> QED BY <1>1, PTL

-----------------------------------------------------------------------------
(* No report is lost before the process unwinds *)

\* While the main thread is not unwinding, each dispatched target is counted, in the
\* channel or with a worker; a worker gives up only when it was told to stop or the
\* targets ran out; each counted report was accepted, is being handled, or came
\* after an error.
Alive == main \in {"spawning", "recv", "handle", "joined"}
Cover ==
  /\ Alive =>
       /\ \A t \in 1..Dispatched :
            t \in received \cup InChan \/ \E w \in Busy : held[w] = t
       /\ stopped => firstError # "none"
       /\ main # "spawning" => Unborn = {}
       /\ \A w \in Workers : pc[w] = "done" => stopped \/ next >= N
       /\ firstError = "none" =>
            \A t \in received : t \in accepted \/ (main = "handle" /\ t = current)
  /\ accepted \subseteq received
  /\ main = "joined" => chan = <<>> /\ AllDone

Inv == TypeInv /\ OnePlaceEach /\ Cover

\* Cover holds at the start.
LEMMA CoverInit == Init => Cover
BY DEF Init, Cover, Alive, Dispatched, Busy, NAssumption

\* Every step preserves Cover.
LEMMA CoverStep == Inv /\ [Next]_vars => Cover'
<1> SUFFICES ASSUME Inv, [Next]_vars PROVE Cover'
  OBVIOUS
<1> USE DEF Inv, TypeInv, TypeOK, workerVars, mainVars
<1>1. ASSUME NEW w \in Workers, CheckStopped(w) PROVE Cover'
  <2>1. /\ pc[w] = "check" /\ pc' = [pc EXCEPT ![w] = IF stopped THEN "done" ELSE "fetch"]
        /\ UNCHANGED <<next, held, chan, main, current, stopped, firstError, received, accepted>>
    BY <1>1 DEF CheckStopped
  <2>2. Busy' = Busy /\ InChan' = InChan /\ Dispatched' = Dispatched
    BY <2>1 DEF Busy, InChan, Dispatched
  <2>3. Unborn' = Unborn /\ ~AllDone
    BY <2>1 DEF Unborn, AllDone
  <2>4. \A v \in Workers : pc'[v] = "done" => pc[v] = "done" \/ stopped
    BY <2>1
  <2> QED BY <2>1, <2>2, <2>3, <2>4 DEF Cover, Alive
<1>2. ASSUME NEW w \in Workers, FetchNext(w) PROVE Cover'
  <2>0. UNCHANGED <<main, current, stopped, firstError, received, accepted, chan>>
        /\ next' = next + 1 /\ pc[w] = "fetch"
    BY <1>2 DEF FetchNext
  <2>1. CASE next < N
    <3>1. held' = [held EXCEPT ![w] = next + 1] /\ pc' = [pc EXCEPT ![w] = "scan"]
      BY <1>2, <2>1 DEF FetchNext
    <3>2. Dispatched' = Dispatched + 1 /\ Dispatched = next
      BY <2>0, <2>1 DEF Dispatched
    <3>3. w \in Busy' /\ held'[w] = next + 1 /\ \A v \in Busy : v \in Busy' /\ held'[v] = held[v]
      BY <2>0, <3>1 DEF Busy
    <3>4. InChan' = InChan
      BY <2>0 DEF InChan
    <3>5. ASSUME Alive, NEW t \in 1..Dispatched'
          PROVE  t \in received' \cup InChan' \/ \E v \in Busy' : held'[v] = t
      <4>1. t \in 1..Dispatched \/ t = next + 1
        BY <2>1, <3>2
      <4> QED BY <2>0, <3>3, <3>4, <3>5, <4>1 DEF Cover
    <3> QED BY <2>0, <2>1, <3>1, <3>5 DEF Cover, Alive, Unborn, AllDone
  <2>2. CASE ~(next < N)
    <3>1. held' = held /\ pc' = [pc EXCEPT ![w] = "done"]
      BY <1>2, <2>2 DEF FetchNext
    <3>2. Dispatched' = Dispatched /\ Busy' = Busy /\ InChan' = InChan
      BY <2>0, <2>2, <3>1 DEF Dispatched, Busy, InChan
    <3>3. next' >= N
      BY <2>0, <2>2
    <3>4. Unborn' = Unborn /\ ~AllDone
      BY <2>0, <3>1 DEF Unborn, AllDone
    <3>5. \A v \in Workers : pc'[v] = "done" => next' >= N
      BY <3>3
    <3> HIDE DEF Inv, TypeInv, TypeOK
    <3>6. Cover
      BY DEF Inv
    <3> QED BY <2>0, <3>1, <3>2, <3>4, <3>5, <3>6 DEF Cover, Alive
  <2> QED BY <2>1, <2>2
<1>3. ASSUME NEW w \in Workers, Scan(w) PROVE Cover'
  <2>1. /\ pc[w] = "scan" /\ pc' = [pc EXCEPT ![w] = "send"]
        /\ UNCHANGED <<next, held, chan, main, current, stopped, firstError, received, accepted>>
    BY <1>3 DEF Scan
  <2>2. Busy' = Busy /\ InChan' = InChan /\ Dispatched' = Dispatched
    BY <2>1 DEF Busy, InChan, Dispatched
  <2>3. Unborn' = Unborn /\ ~AllDone
    BY <2>1 DEF Unborn, AllDone
  <2>4. \A v \in Workers : pc'[v] = "done" => pc[v] = "done"
    BY <2>1
  <2> QED BY <2>1, <2>2, <2>3, <2>4 DEF Cover, Alive
<1>4. ASSUME NEW w \in Workers, Send(w) PROVE Cover'
  <2>1. /\ pc' = [pc EXCEPT ![w] = "check"] /\ held' = [held EXCEPT ![w] = 0]
        /\ pc[w] = "send" /\ chan' = Append(chan, held[w])
        /\ UNCHANGED <<next, main, current, stopped, firstError, received, accepted>>
    BY <1>4 DEF Send
  <2>2. held[w] \in Targets
    BY <2>1 DEF HeldIsDispatched, Dispatched, Targets
  <2>3. InChan \subseteq InChan' /\ held[w] \in InChan'
    <3> HIDE DEF Inv, TypeInv
    <3>1. chan \in Seq(Targets)
      BY DEF Inv, TypeInv
    <3>2. /\ Len(chan') = Len(chan) + 1 /\ chan'[Len(chan) + 1] = held[w]
          /\ \A k \in 1..Len(chan) : chan'[k] = chan[k]
      BY <2>1, <2>2, <3>1, ChannelAppend
    <3> HIDE DEF TypeOK
    <3>3. Len(chan) \in Nat
      BY <3>1
    <3> QED BY <3>2, <3>3 DEF InChan
  <2>4. \A v \in Busy : v = w \/ (v \in Busy' /\ held'[v] = held[v])
    BY <2>1 DEF Busy
  <2>5. \A t : (t \in received \cup InChan \/ \E v \in Busy : held[v] = t)
             => (t \in received' \cup InChan' \/ \E v \in Busy' : held'[v] = t)
    BY <2>1, <2>3, <2>4
  <2>6. Dispatched' = Dispatched /\ ~AllDone
    BY <2>1 DEF Dispatched, AllDone
  <2> QED BY <2>1, <2>5, <2>6 DEF Cover, Alive, Unborn
<1>5. ASSUME NEW w \in Workers, SendFails(w) PROVE Cover'
  BY <1>5 DEF SendFails, ReceiverDropped, Cover, Alive
<1>6. ASSUME NEW w \in Workers, SpawnWorker(w) PROVE Cover'
  BY <1>6 DEF SpawnWorker, Cover, Alive, Dispatched, InChan, Busy, Unborn, AllDone
<1>7. CASE SpawnFails \/ HandlerPanics
  BY <1>7 DEF SpawnFails, HandlerPanics, Cover, Alive
<1>8. CASE SpawnedAll
  BY <1>8 DEF SpawnedAll, Cover, Alive, Dispatched, InChan, Busy, Unborn, AllDone
<1>9. CASE Receive
  <2> DEFINE r == Head(chan)
  <2>1. /\ chan # <<>> /\ chan' = Tail(chan) /\ received' = received \cup {r} /\ main = "recv"
        /\ IF firstError = "none" THEN main' = "handle" /\ current' = r
                                  ELSE UNCHANGED <<main, current>>
        /\ UNCHANGED <<next, held, pc, stopped, firstError, accepted>>
    BY <1>9 DEF Receive
  <2>2. InChan \subseteq InChan' \cup {r}
    <3>1. /\ Len(chan) \in Nat \ {0} /\ r = chan[1] /\ Len(chan') = Len(chan) - 1
          /\ \A k \in 1..Len(chan') : chan'[k] = chan[k + 1]
      BY <2>1, ChannelTail
    <3>2. ASSUME NEW k \in 1..Len(chan), k # 1 PROVE chan[k] \in InChan'
      <4>1. k - 1 \in 1..Len(chan') /\ chan'[k - 1] = chan[k]
        BY <3>1, <3>2
      <4> QED BY <4>1 DEF InChan
    <3> QED BY <3>1, <3>2 DEF InChan
  <2>3. Busy' = Busy /\ Dispatched' = Dispatched /\ Unborn' = Unborn
    BY <2>1 DEF Busy, Dispatched, Unborn
  <2> HIDE DEF r
  <2> QED BY <2>1, <2>2, <2>3 DEF Cover, Alive
<1>10. CASE HandlerAccepts
  BY <1>10 DEF HandlerAccepts, CurrentIsCounted, Cover, Alive, Dispatched, InChan, Busy,
               Unborn, AllDone
<1>11. ASSUME NEW error \in WriteError \ {"none"}, HandlerFails(error) PROVE Cover'
  BY <1>11 DEF HandlerFails, Cover, Alive, Dispatched, InChan, Busy, Unborn, AllDone
<1>12. CASE Join
  BY <1>12 DEF Join, Cover, Alive, Dispatched, InChan, Busy, Unborn, AllDone
<1>13. ASSUME NEW strict \in BOOLEAN, NEW failOn \in FailOns, Exit(strict, failOn) PROVE Cover'
  BY <1>13 DEF Exit, Cover, Alive
<1>14. CASE ExitPanicked
  BY <1>14 DEF ExitPanicked, Cover, Alive
<1>15. CASE UNCHANGED vars
  BY <1>15 DEF vars, Cover, Alive, Dispatched, InChan, Busy, Unborn, AllDone
<1> QED
  BY <1>1, <1>2, <1>3, <1>4, <1>5, <1>6, <1>7, <1>8, <1>9, <1>10, <1>11, <1>12, <1>13,
     <1>14, <1>15
  DEF Next, Main, Worker

\* The conjunction of the three is an invariant.
LEMMA InvInvariant == Spec => []Inv
BY TypeInit, TypeStep, PlaceInit, PlaceStep, CoverInit, CoverStep, PTL DEF Spec, Inv

\* Once the workers are joined every dispatched target is received, and without an error
\* all of them are counted.
LEMMA JoinedIsCovered == Inv => JoinedCountsAll
<1> SUFFICES ASSUME Inv, main = "joined" PROVE
               /\ received = 1..Dispatched
               /\ firstError = "none" => received = Targets /\ accepted = Targets
  BY DEF JoinedCountsAll
<1> USE DEF Inv, TypeInv, TypeOK
<1>1. Alive /\ chan = <<>> /\ AllDone /\ Unborn = {}
  BY DEF Cover, Alive
<1>2. InChan = {} /\ Busy = {} /\ \A w \in Workers : pc[w] = "done"
  BY <1>1 DEF InChan, Busy, AllDone, Unborn
<1>3. 1..Dispatched \subseteq received
  BY <1>1, <1>2 DEF Cover
<1>4. received \subseteq 1..Dispatched
  BY DEF OnePlaceEach, Dispatched, Targets
<1>5. ASSUME firstError = "none" PROVE received = Targets /\ accepted = Targets
  <2>1. next >= N
    <3>1. CASE WorkerCount = 0
      BY <3>1, NAssumption, ConcurrencyAssumption DEF WorkerCount
    <3>2. CASE WorkerCount # 0
      <4>1. 1 \in Workers
        BY <3>2, WorkerCountType DEF Workers
      <4> QED BY <1>1, <1>2, <1>5, <4>1 DEF Cover
    <3> QED BY <3>1, <3>2
  <2>2. received = Targets
    <3>1. Dispatched = N
      BY <2>1, NAssumption DEF Dispatched
    <3> QED BY <1>3, <1>4, <3>1 DEF Targets
  <2>3. accepted = Targets
    BY <1>1, <1>5, <2>2 DEF Cover
  <2> QED BY <2>2, <2>3
<1> QED BY <1>3, <1>4, <1>5

\* Nothing dispatched is lost, and a run without an error reports every target once
\* (engine.rs:359-361: in-flight targets still finish and count).
THEOREM NothingLost == Spec => []JoinedCountsAll
BY InvInvariant, JoinedIsCovered, PTL

-----------------------------------------------------------------------------
(* The summary and the exit code *)

\* The summary s says of the reports of S what the reports say.
ReflectsOn(s, R, S) ==
  /\ s.failed <=> \E t \in S : R[t].collector
  /\ s.incomplete <=> \E t \in S : R[t].incomplete
  /\ \A t \in S : R[t].severity <= s.highest
  /\ s.highest # NoSeverity => \E t \in S : R[t].severity = s.highest

Reports == [t \in Targets |-> ReportOf(t)]
Reflects == summary.requested = N /\ ReflectsOn(summary, Reports, received)

\* Including one more report keeps that true, whatever the reports are.
LEMMA IncludeReflects ==
  ASSUME NEW T, NEW R \in [T -> Verdict], NEW S \in SUBSET T, NEW t \in T,
         NEW s \in SummaryType, ReflectsOn(s, R, S)
  PROVE  ReflectsOn(Include(s, R[t]), R, S \cup {t})
<1> DEFINE i == Include(s, R[t])
<1>1. (i.failed <=> s.failed \/ R[t].collector) /\ (i.incomplete <=> s.incomplete \/ R[t].incomplete)
  BY DEF Include
<1>2. i.highest = Higher(s.highest, R[t].severity)
  BY DEF Include
<1>3. s.highest \in Nat /\ \A u \in S \cup {t} : R[u].severity \in Nat
  BY DEF SummaryType, Verdict, NoSeverity, Severity
<1>4. /\ s.highest <= i.highest /\ R[t].severity <= i.highest
      /\ i.highest = s.highest \/ i.highest = R[t].severity
      /\ i.highest \in Nat
  BY <1>2, <1>3 DEF Higher
<1> HIDE DEF i
<1>5. (i.failed <=> \E u \in S \cup {t} : R[u].collector)
  BY <1>1 DEF ReflectsOn
<1>6. (i.incomplete <=> \E u \in S \cup {t} : R[u].incomplete)
  BY <1>1 DEF ReflectsOn
<1>7. \A u \in S \cup {t} : R[u].severity <= i.highest
  BY <1>3, <1>4 DEF ReflectsOn
<1>8. i.highest # NoSeverity => \E u \in S \cup {t} : R[u].severity = i.highest
  BY <1>4 DEF ReflectsOn
<1>9. ReflectsOn(i, R, S \cup {t})
  BY <1>5, <1>6, <1>7, <1>8 DEF ReflectsOn
<1> QED BY <1>9 DEF i

\* The empty summary reflects no report.
LEMMA ReflectsInit == Init => Reflects
BY DEF Init, Reflects, ReflectsOn, EmptySummary, NoSeverity

\* Every step keeps the summary that of the accepted reports.
LEMMA ReflectsStep == Inv /\ Reflects /\ [Next]_vars => Reflects'
<1> SUFFICES ASSUME Inv, Reflects, [Next]_vars PROVE Reflects'
  OBVIOUS
<1>0. host' = host
  BY DEF Next, Main, Worker, vars, CheckStopped, FetchNext, Scan, Send, SendFails, SpawnWorker,
         SpawnFails, SpawnedAll, Receive, HandlerAccepts, HandlerFails, HandlerPanics, Join,
         Exit, ExitPanicked
<1>1. Reports' = Reports
  BY <1>0 DEF Reports, ReportOf
<1>2. CASE Receive
  <2> DEFINE t == Head(chan)
  <2>1. summary' = Include(summary, ReportOf(t)) /\ received' = received \cup {t}
    BY <1>2 DEF Receive
  <2>2. t \in Targets /\ received \in SUBSET Targets /\ summary \in SummaryType
    BY <1>2, ChannelTail DEF Receive, Inv, TypeInv, TypeOK
  <2>3. Reports \in [Targets -> Verdict] /\ ReportOf(t) = Reports[t]
    BY <2>2, ReportType DEF Inv, TypeInv, Reports
  <2>4. summary'.requested = N
    BY <2>1 DEF Reflects, Include
  <2>5. ReflectsOn(Include(summary, Reports[t]), Reports, received \cup {t})
    BY <2>2, <2>3, IncludeReflects DEF Reflects
  <2> QED BY <1>1, <2>1, <2>3, <2>4, <2>5 DEF Reflects
<1>3. CASE UNCHANGED <<summary, received>>
  BY <1>1, <1>3 DEF Reflects
<1>4. Receive \/ UNCHANGED <<summary, received>>
  BY DEF Next, Main, Worker, vars, mainVars, CheckStopped, FetchNext, Scan, Send, SendFails,
         SpawnWorker, SpawnFails, SpawnedAll, HandlerAccepts, HandlerFails, HandlerPanics, Join,
         Exit, ExitPanicked
<1> QED BY <1>2, <1>3, <1>4

\* From a summary that reflects its reports, report_exit computes the code that the
\* verdicts of the targets themselves call for.
LEMMA ExitCodeHonest ==
  ASSUME Inv, Reflects, NEW strict \in BOOLEAN, NEW failOn \in Severity
  PROVE  HonestExit(ReportExit(summary, strict, failOn), Targets,
                    [t \in received |-> ReportOf(t)], strict, failOn)
<1> DEFINE V == [t \in received |-> ReportOf(t)]
<1>1. received \in SUBSET Targets /\ DOMAIN V = received
  BY DEF Inv, TypeInv, TypeOK
<1>2. \A t \in received : V[t] = Reports[t] /\ Reports[t] \in Verdict
  BY <1>1, ReportType DEF Reports, Inv, TypeInv
<1>3. CoverageComplete(summary) <=> received = Targets
  <2>1. summary.completed = Cardinality(received) /\ summary.requested = N
    BY DEF Inv, OnePlaceEach, Reflects
  <2>2. Cardinality(received) = N <=> received = Targets
    BY <1>1, FS_Subset, ReceivedFinite, NAssumption DEF Inv, TypeInv
  <2> QED BY <2>1, <2>2 DEF CoverageComplete
<1>4. summary.failed <=> \E t \in received : V[t].collector
  BY <1>2 DEF Reflects, ReflectsOn
<1>5. summary.incomplete <=> \E t \in received : V[t].incomplete
  BY <1>2 DEF Reflects, ReflectsOn
<1>6. (summary.highest # NoSeverity /\ summary.highest >= failOn)
        <=> \E t \in received : V[t].severity >= failOn
  <2>1. /\ summary.highest \in Nat /\ failOn \in Nat \ {0}
        /\ \A t \in received : V[t].severity \in Nat /\ V[t].severity <= summary.highest
    <3>1. summary.highest \in Nat /\ failOn \in Nat \ {0}
      BY DEF Inv, TypeInv, TypeOK, SummaryType, NoSeverity, Severity
    <3>2. ASSUME NEW v \in Verdict PROVE v.severity \in Nat
      BY DEF Verdict, NoSeverity, Severity
    <3>3. \A t \in received : V[t] \in Verdict /\ V[t].severity <= summary.highest
      BY <1>2 DEF Reflects, ReflectsOn
    <3> HIDE DEF V
    <3> QED BY <3>1, <3>2, <3>3
  <2>2. summary.highest # NoSeverity => \E t \in received : V[t].severity = summary.highest
    BY <1>2 DEF Reflects, ReflectsOn
  <2> HIDE DEF V
  <2> QED BY <2>1, <2>2 DEF NoSeverity
<1> HIDE DEF V
<1>7. HonestExit(ReportExit(summary, strict, failOn), Targets, V, strict, failOn)
  <2> DEFINE usable == /\ received = Targets
                       /\ \A t \in received : ~V[t].collector /\ (strict => ~V[t].incomplete)
  <2>1. usable <=> /\ CoverageComplete(summary) /\ ~summary.failed
                   /\ ~(strict /\ summary.incomplete)
    BY <1>3, <1>4, <1>5
  <2> HIDE DEF usable
  <2>2. ReportExit(summary, strict, failOn) =
          IF ~usable THEN 2
          ELSE IF \E t \in received : V[t].severity >= failOn THEN 1 ELSE 0
    BY <1>6, <2>1 DEF ReportExit
  <2> QED BY <1>1, <2>2 DEF HonestExit, usable
<1> QED BY <1>7 DEF V

\* No run has exited at the start.
LEMMA ExitInit == Init => ExitIsHonest
BY DEF Init, ExitIsHonest

\* The exit status is computed from a summary that is complete.
LEMMA ExitStep == Inv /\ Reflects /\ ExitIsHonest /\ [Next]_vars => ExitIsHonest'
<1> SUFFICES ASSUME Inv, Reflects, ExitIsHonest, [Next]_vars PROVE ExitIsHonest'
  OBVIOUS
<1>1. ASSUME NEW strict \in BOOLEAN, NEW failOn \in FailOns, Exit(strict, failOn)
      PROVE  ExitIsHonest'
  <2>1. PICK wrote \in WriteError :
          exit' = [code |-> ExitAfterWrite(wrote, summary, strict, failOn),
                   strict |-> strict, failOn |-> failOn, wrote |-> wrote]
    BY <1>1 DEF Exit, Inv, TypeInv, TypeOK
  <2>2. failOn \in Severity
    BY FailOnAssumption
  <2>3. CASE wrote = "Other"
    BY <2>1, <2>3 DEF ExitIsHonest, ExitAfterWrite
  <2>4. CASE wrote # "Other"
    <3>1. HonestExit(ReportExit(summary, strict, failOn), Targets,
                     [t \in received |-> ReportOf(t)], strict, failOn)
      BY <2>2, ExitCodeHonest
    <3>2. UNCHANGED <<host, received>>
      BY <1>1 DEF Exit
    <3>3. [t \in received |-> ReportOf(t)]' = [t \in received |-> ReportOf(t)]
      BY <3>2 DEF ReportOf
    <3>4. /\ exit'.code = ReportExit(summary, strict, failOn) /\ exit'.wrote # "Other"
          /\ exit'.strict = strict /\ exit'.failOn = failOn
      BY <2>1, <2>4 DEF ExitAfterWrite
    <3> QED BY <3>1, <3>3, <3>4 DEF ExitIsHonest
  <2> QED BY <2>3, <2>4
<1>2. CASE ExitPanicked
  BY <1>2 DEF ExitPanicked, NoCode, ExitIsHonest
<1>3. CASE main # "exited" /\ main' # "exited"
  BY <1>3 DEF ExitIsHonest
<1>4. ASSUME UNCHANGED <<main, exit, host, received>> PROVE ExitIsHonest'
  BY <1>4 DEF ExitIsHonest, ReportOf
<1>5. \/ UNCHANGED <<main, exit, host, received>>
      \/ main # "exited" /\ main' # "exited"
      \/ ExitPanicked
      \/ \E strict \in BOOLEAN, failOn \in FailOns : Exit(strict, failOn)
  BY DEF Next, Main, Worker, vars, mainVars, CheckStopped, FetchNext, Scan, Send, SendFails,
         SpawnWorker, SpawnFails, SpawnedAll, Receive, HandlerAccepts, HandlerFails,
         HandlerPanics, Join
<1> QED BY <1>1, <1>2, <1>3, <1>4, <1>5

\* The exit code is the one the targets call for (main.rs, streamed_exit and
\* report_exit): a fleet with an unreachable or unscanned host never exits with 0 or 1.
THEOREM ExitHonest == Spec => []ExitIsHonest
<1>1. Spec => [](Inv /\ Reflects /\ ExitIsHonest)
  <2>1. Init => Reflects /\ ExitIsHonest
    BY ReflectsInit, ExitInit
  <2>2. Inv /\ (Reflects /\ ExitIsHonest) /\ [Next]_vars => (Reflects /\ ExitIsHonest)'
    BY ReflectsStep, ExitStep
  <2> QED BY <2>1, <2>2, InvInvariant, PTL DEF Spec
<1> QED BY <1>1, PTL

-----------------------------------------------------------------------------
(* How far the workers run ahead *)

\* A set of workers has at most WorkerCount members.
LEMMA WorkerSubset ==
  ASSUME NEW S \in SUBSET Workers
  PROVE  IsFiniteSet(S) /\ Cardinality(S) \in 0..WorkerCount
<1>1. IsFiniteSet(Workers) /\ Cardinality(Workers) = WorkerCount
  BY FS_Interval, WorkerCountType DEF Workers
<1>2. IsFiniteSet(S) /\ Cardinality(S) <= Cardinality(Workers)
  BY <1>1, FS_Subset
<1>3. Cardinality(S) \in Nat
  BY <1>2, FS_CardinalityType
<1> QED BY <1>1, <1>2, <1>3

\* Two disjoint sets of workers have at most WorkerCount members together.
LEMMA DisjointWorkers ==
  ASSUME NEW S \in SUBSET Workers, NEW T \in SUBSET Workers, S \cap T = {}
  PROVE  Cardinality(S) + Cardinality(T) <= WorkerCount
<1>1. /\ IsFiniteSet(S) /\ Cardinality(S) \in Nat
      /\ IsFiniteSet(T) /\ Cardinality(T) \in Nat
  BY WorkerSubset
<1>2. Cardinality(S \cup T) = Cardinality(S) + Cardinality(T)
  BY <1>1, FS_Union, FS_EmptySet
<1>3. Cardinality(S \cup T) <= WorkerCount
  BY WorkerSubset
<1> QED BY <1>2, <1>3

\* Workers that may still take a target, and those that have read the flag already.
Young == {w \in Workers : pc[w] \in {"unborn", "check", "fetch"}}
Fetching == {w \in Workers : pc[w] = "fetch"}

\* The books: while no report can be lost they balance; once the receiver is gone
\* each worker takes at most one more target; once on_report has failed only the
\* workers past the flag take one.
Books ==
  /\ main = "handle" => firstError = "none"
  /\ Alive => Dispatched = summary.completed + Len(chan) + Cardinality(Busy)
  /\ ~Alive => Dispatched + Cardinality(Young) <= summary.completed + 2 * WorkerCount
  /\ firstError # "none" =>
       /\ stopped
       /\ Dispatched + Cardinality(Fetching) <= Cardinality(accepted) + 1 + 2 * WorkerCount
  /\ (Alive /\ firstError = "none") =>
       IF main = "handle"
       THEN current \notin accepted /\ summary.completed = Cardinality(accepted) + 1
       ELSE summary.completed = Cardinality(accepted)

\* The books balance at the start.
LEMMA BooksInit == Init => Books
<1> SUFFICES ASSUME Init PROVE Books
  OBVIOUS
<1>1. Busy = {} /\ Cardinality({}) = 0 /\ Len(chan) = 0 /\ Dispatched = 0
  BY FS_EmptySet, NAssumption DEF Init, Busy, Dispatched
<1> QED BY <1>1 DEF Init, Books, Alive, EmptySummary

\* While reports are not lost, the channel and the workers bound the difference.
LEMMA AliveBound ==
  ASSUME Inv, Books, Alive
  PROVE  \A T \in SUBSET Workers : T \cap Busy = {} =>
           Dispatched + Cardinality(T) <= summary.completed + 2 * WorkerCount
<1> TAKE T \in SUBSET Workers
<1> HAVE T \cap Busy = {}
<1>1. Busy \in SUBSET Workers
  BY DEF Busy
<1>2. Cardinality(Busy) + Cardinality(T) <= WorkerCount
  BY <1>1, DisjointWorkers
<1>3. /\ Cardinality(Busy) \in Nat /\ Cardinality(T) \in Nat /\ Len(chan) \in Nat
      /\ summary.completed \in Nat /\ Dispatched \in Nat /\ Len(chan) <= Capacity
      /\ WorkerCount \in Nat
  BY <1>1, WorkerSubset, WorkerCountType, NAssumption
  DEF Inv, TypeInv, TypeOK, SummaryType, Dispatched
<1>4. CASE WorkerCount # 0
  <2>1. Len(chan) <= WorkerCount
    BY <1>3, <1>4 DEF Capacity
  <2> QED BY <1>2, <1>3, <2>1 DEF Books
<1>5. CASE WorkerCount = 0
  <2>1. Dispatched = 0
    BY <1>3, <1>5, NAssumption, ConcurrencyAssumption DEF WorkerCount, Dispatched
  <2>2. Cardinality(T) = 0
    BY <1>2, <1>3, <1>5
  <2> QED BY <1>3, <1>5, <2>1, <2>2
<1> QED BY <1>4, <1>5

\* Every step keeps the books balanced.
LEMMA BooksStep == Inv /\ Books /\ [Next]_vars => Books'
<1> SUFFICES ASSUME Inv, Books, [Next]_vars PROVE Books'
  OBVIOUS
<1> USE DEF Inv, TypeInv, TypeOK, workerVars, mainVars
<1>0. /\ Busy \in SUBSET Workers /\ Young \in SUBSET Workers /\ Fetching \in SUBSET Workers
      /\ IsFiniteSet(Busy) /\ IsFiniteSet(Young) /\ IsFiniteSet(Fetching)
      /\ Cardinality(Busy) \in Nat /\ Cardinality(Young) \in Nat /\ Cardinality(Fetching) \in Nat
  BY WorkerSubset DEF Busy, Young, Fetching
<1>t. /\ summary.completed \in Nat /\ Dispatched \in Nat /\ WorkerCount \in Nat
      /\ Len(chan) \in Nat /\ Cardinality(accepted) \in Nat /\ IsFiniteSet(accepted)
  <2>1. IsFiniteSet(accepted)
    BY ReceivedFinite, FS_Subset, NAssumption
  <2> QED BY <2>1, FS_CardinalityType, WorkerCountType, NAssumption DEF SummaryType, Dispatched
<1>1. ASSUME NEW w \in Workers, CheckStopped(w) PROVE Books'
  <2>1. /\ pc[w] = "check" /\ pc' = [pc EXCEPT ![w] = IF stopped THEN "done" ELSE "fetch"]
        /\ UNCHANGED <<next, chan, stopped, main, current, summary, firstError, accepted>>
    BY <1>1 DEF CheckStopped
  <2>2. Busy' = Busy /\ Dispatched' = Dispatched
    BY <2>1 DEF Busy, Dispatched
  <2>3. Cardinality(Young') <= Cardinality(Young)
    <3>1. Young' \in SUBSET Young
      BY <2>1 DEF Young
    <3> QED BY <3>1, <1>0, FS_Subset
  <2>4. firstError # "none" => Fetching' = Fetching
    BY <2>1 DEF Books, Fetching
  <2>5. Cardinality(Young') \in Nat
    <3>1. Young' \in SUBSET Workers
      BY DEF Young
    <3> QED BY <3>1, WorkerSubset
  <2> QED BY <1>0, <1>t, <2>1, <2>2, <2>3, <2>4, <2>5 DEF Books, Alive
<1>2. ASSUME NEW w \in Workers, FetchNext(w) PROVE Books'
  <2>1. /\ pc[w] = "fetch" /\ next' = next + 1
        /\ pc' = [pc EXCEPT ![w] = IF next < N THEN "scan" ELSE "done"]
        /\ UNCHANGED <<chan, stopped, main, current, summary, firstError, accepted>>
    BY <1>2 DEF FetchNext
  <2>2. Young' = Young \ {w} /\ Fetching' = Fetching \ {w} /\ w \in Young /\ w \in Fetching
    BY <2>1 DEF Young, Fetching
  <2>3. /\ Cardinality(Young') = Cardinality(Young) - 1
        /\ Cardinality(Fetching') = Cardinality(Fetching) - 1
    BY <1>0, <2>2, FS_RemoveElement
  <2>4. CASE next < N
    <3>1. Dispatched' = Dispatched + 1
      BY <2>1, <2>4, NAssumption DEF Dispatched
    <3>2. Busy' = Busy \cup {w} /\ w \notin Busy
      BY <2>1, <2>4 DEF Busy
    <3>3. Cardinality(Busy') = Cardinality(Busy) + 1
      BY <1>0, <3>2, FS_AddElement
    <3>4. Alive' <=> Alive
      BY <2>1 DEF Alive
    <3> HIDE DEF Inv, TypeInv, TypeOK
    <3>5. Alive => Dispatched' = summary'.completed + Len(chan') + Cardinality(Busy')
      <4>1. Alive => Dispatched = summary.completed + Len(chan) + Cardinality(Busy)
        BY DEF Books
      <4>2. summary' = summary /\ Len(chan') = Len(chan)
        BY <2>1
      <4> QED BY <1>0, <1>t, <3>1, <3>3, <4>1, <4>2
    <3>6. ~Alive => Dispatched' + Cardinality(Young') <= summary'.completed + 2 * WorkerCount
      BY <1>0, <1>t, <2>1, <2>3, <3>1 DEF Books
    <3>7. firstError' # "none" =>
            /\ stopped'
            /\ Dispatched' + Cardinality(Fetching') <= Cardinality(accepted') + 1 + 2 * WorkerCount
      BY <1>0, <1>t, <2>1, <2>3, <3>1 DEF Books
    <3> QED BY <2>1, <3>4, <3>5, <3>6, <3>7 DEF Books
  <2>5. CASE ~(next < N)
    <3>1. Dispatched' = Dispatched
      BY <2>1, <2>5, NAssumption DEF Dispatched
    <3>2. Busy' = Busy
      BY <2>1, <2>5 DEF Busy
    <3>3. Alive' <=> Alive
      BY <2>1 DEF Alive
    <3> HIDE DEF Inv, TypeInv, TypeOK
    <3>4. Alive => Dispatched' = summary'.completed + Len(chan') + Cardinality(Busy')
      BY <2>1, <3>1, <3>2 DEF Books
    <3>5. ~Alive => Dispatched' + Cardinality(Young') <= summary'.completed + 2 * WorkerCount
      BY <1>0, <1>t, <2>1, <2>3, <3>1 DEF Books
    <3>6. firstError' # "none" =>
            /\ stopped'
            /\ Dispatched' + Cardinality(Fetching') <= Cardinality(accepted') + 1 + 2 * WorkerCount
      BY <1>0, <1>t, <2>1, <2>3, <3>1 DEF Books
    <3> QED BY <2>1, <3>3, <3>4, <3>5, <3>6 DEF Books
  <2> QED BY <2>4, <2>5
<1>3. ASSUME UNCHANGED <<Busy, Young, Fetching, next, chan, stopped, current, summary, firstError,
                         accepted>>,
             Alive' <=> Alive, main' = "handle" <=> main = "handle"
      PROVE  Books'
  BY <1>3 DEF Books, Dispatched
<1>4. ASSUME NEW w \in Workers, Scan(w) PROVE Books'
  <2>1. UNCHANGED <<Busy, Young, Fetching>>
    BY <1>4 DEF Scan, Busy, Young, Fetching
  <2> QED BY <1>3, <1>4, <2>1 DEF Scan, Alive
<1>5. ASSUME NEW w \in Workers, Send(w) PROVE Books'
  <2>1. /\ pc[w] = "send" /\ pc' = [pc EXCEPT ![w] = "check"] /\ chan' = Append(chan, held[w])
        /\ Alive /\ Alive' /\ held[w] \in Targets
        /\ UNCHANGED <<next, stopped, main, current, summary, firstError, accepted>>
    BY <1>5 DEF Send, Alive, ReceiverDropped, MainState, HeldIsDispatched, Dispatched, Targets
  <2>2. Busy' = Busy \ {w} /\ w \in Busy /\ Fetching' = Fetching
    BY <2>1 DEF Busy, Fetching
  <2>3. Cardinality(Busy') = Cardinality(Busy) - 1
    BY <1>0, <2>2, FS_RemoveElement
  <2>4. Len(chan') = Len(chan) + 1 /\ Dispatched' = Dispatched
    BY <2>1, ChannelAppend DEF Dispatched
  <2> HIDE DEF Inv, TypeInv, TypeOK
  <2>5. summary' = summary /\ stopped' = stopped /\ main' = main /\ current' = current
        /\ firstError' = firstError /\ accepted' = accepted
    BY <2>1
  <2>6. Dispatched' = summary'.completed + Len(chan') + Cardinality(Busy')
    <3>1. Dispatched = summary.completed + Len(chan) + Cardinality(Busy)
      BY <2>1 DEF Books
    <3>2. summary'.completed = summary.completed
      BY <2>5
    <3>3. Len(chan') + Cardinality(Busy') = Len(chan) + Cardinality(Busy)
      BY <1>0, <1>t, <2>3, <2>4
    <3>4. Dispatched' = Dispatched
      BY <2>4
    <3> QED BY <1>0, <1>t, <2>3, <2>4, <3>1, <3>2, <3>3, <3>4
  <2>7. firstError' # "none" =>
          /\ stopped'
          /\ Dispatched' + Cardinality(Fetching') <= Cardinality(accepted') + 1 + 2 * WorkerCount
    BY <2>2, <2>4, <2>5 DEF Books
  <2> QED BY <2>1, <2>5, <2>6, <2>7 DEF Books
<1>6. ASSUME NEW w \in Workers, SendFails(w) PROVE Books'
  <2>1. ~Alive /\ UNCHANGED <<Young, Fetching, Dispatched, main, stopped, summary, firstError, accepted>>
    BY <1>6 DEF SendFails, Young, Fetching, Dispatched, Alive, ReceiverDropped
  <2> QED BY <2>1 DEF Books, Alive
<1>7. ASSUME NEW w \in Workers, SpawnWorker(w) PROVE Books'
  <2>1. UNCHANGED <<Busy, Young, Fetching>>
    BY <1>7 DEF SpawnWorker, Busy, Young, Fetching
  <2> QED BY <1>3, <1>7, <2>1 DEF SpawnWorker, Alive
\* The receiver goes: what is queued and what is in flight stays within the bound.
<1>8. ASSUME Alive, ~Alive', UNCHANGED <<next, pc, stopped, summary, firstError, accepted>>
      PROVE  Books'
  <2>1. UNCHANGED <<Young, Fetching, Dispatched>>
    BY <1>8 DEF Young, Fetching, Dispatched
  <2>2. Young \cap Busy = {}
    BY DEF Young, Busy
  <2>3. Dispatched + Cardinality(Young) <= summary.completed + 2 * WorkerCount
    BY <1>0, <1>8, <2>2, AliveBound
  <2>4. main' # "handle"
    BY <1>8 DEF Alive
  <2> QED BY <1>8, <2>1, <2>3, <2>4 DEF Books
<1>9. CASE SpawnFails \/ HandlerPanics
  BY <1>8, <1>9 DEF SpawnFails, HandlerPanics, Alive
<1>10. CASE SpawnedAll \/ Join \/ ExitPanicked
  <2>1. UNCHANGED <<Busy, Young, Fetching>>
    BY <1>10 DEF SpawnedAll, Join, ExitPanicked, Busy, Young, Fetching
  <2> QED BY <1>3, <1>10, <2>1 DEF SpawnedAll, Join, ExitPanicked, Alive
<1>11. CASE Receive
  <2>1. /\ chan # <<>> /\ chan' = Tail(chan) /\ main = "recv" /\ Alive'
        /\ IF firstError = "none" THEN main' = "handle" /\ current' = Head(chan)
                                  ELSE UNCHANGED <<main, current>>
        /\ summary' = Include(summary, ReportOf(Head(chan)))
        /\ UNCHANGED <<next, pc, stopped, firstError, accepted>>
    BY <1>11 DEF Receive, Alive
  <2>2. Len(chan') = Len(chan) - 1 /\ Head(chan) \in InChan
    BY <2>1, ChannelTail DEF InChan
  <2>3. summary'.completed = summary.completed + 1
    BY <2>1 DEF Include
  <2>4. UNCHANGED <<Busy, Fetching, Dispatched>>
    BY <2>1 DEF Busy, Fetching, Dispatched
  <2>5. Head(chan) \notin accepted
    BY <2>2 DEF Cover, OnePlaceEach
  <2> QED BY <1>0, <1>t, <2>1, <2>2, <2>3, <2>4, <2>5 DEF Books, Alive
<1>12. CASE HandlerAccepts
  <2>1. /\ main = "handle" /\ main' = "recv" /\ accepted' = accepted \cup {current}
        /\ UNCHANGED <<next, pc, chan, stopped, summary, firstError>>
    BY <1>12 DEF HandlerAccepts
  <2>2. UNCHANGED <<Busy, Fetching, Dispatched>> /\ Alive /\ Alive'
    BY <2>1 DEF Busy, Fetching, Dispatched, Alive
  <2>3. Cardinality(accepted') =
          IF current \in accepted THEN Cardinality(accepted) ELSE Cardinality(accepted) + 1
    BY <1>t, <2>1, FS_AddElement
  <2> QED BY <1>0, <1>t, <2>1, <2>2, <2>3 DEF Books
<1>13. ASSUME NEW error \in WriteError \ {"none"}, HandlerFails(error) PROVE Books'
  <2>1. /\ main = "handle" /\ main' = "recv" /\ stopped' = TRUE /\ firstError' # "none"
        /\ UNCHANGED <<next, pc, chan, summary, accepted>>
    BY <1>13 DEF HandlerFails
  <2>2. UNCHANGED <<Busy, Fetching, Dispatched>> /\ Alive /\ Alive'
    BY <2>1 DEF Busy, Fetching, Dispatched, Alive
  <2>3. Fetching \cap Busy = {}
    BY DEF Fetching, Busy
  <2>4. Dispatched + Cardinality(Fetching) <= summary.completed + 2 * WorkerCount
    BY <1>0, <2>2, <2>3, AliveBound
  <2>5. summary.completed <= Cardinality(accepted) + 1
    BY <1>13, <1>t, <2>1, <2>2 DEF Books, HandlerFails
  <2> QED BY <1>0, <1>t, <2>1, <2>2, <2>4, <2>5 DEF Books
<1>14. ASSUME NEW strict \in BOOLEAN, NEW failOn \in FailOns, Exit(strict, failOn) PROVE Books'
  BY <1>8, <1>14 DEF Exit, Alive
<1>15. CASE UNCHANGED vars
  BY <1>15, <1>3 DEF vars, Busy, Young, Fetching, Alive
<1> QED
  BY <1>1, <1>2, <1>4, <1>5, <1>6, <1>7, <1>9, <1>10, <1>11, <1>12, <1>13, <1>14, <1>15
  DEF Next, Main, Worker

\* The books always balance.
LEMMA BooksInvariant == Spec => [](Inv /\ Books)
BY BooksInit, BooksStep, InvInvariant, PTL DEF Spec

\* The channel's bound holds the workers back: however slow on_report is, they never
\* run more than two rounds ahead of the reports already counted.
THEOREM RunAheadBounded == Spec => []BoundedRunAhead
<1>1. ASSUME Inv, Books PROVE BoundedRunAhead
  <2>1. /\ summary.completed \in Nat /\ Dispatched \in Nat /\ WorkerCount \in Nat
        /\ Cardinality(Young) \in Nat /\ {} \in SUBSET Workers /\ Cardinality({}) = 0
    BY WorkerSubset, FS_EmptySet, WorkerCountType, NAssumption, <1>1
    DEF Inv, TypeInv, TypeOK, SummaryType, Dispatched, Young
  <2>2. CASE Alive
    BY <1>1, <2>1, <2>2, AliveBound DEF BoundedRunAhead
  <2>3. CASE ~Alive
    BY <1>1, <2>1, <2>3 DEF Books, BoundedRunAhead
  <2> QED BY <2>2, <2>3
<1>2. Inv /\ Books => BoundedRunAhead
  BY <1>1
<1> QED BY <1>2, BooksInvariant, PTL

\* The first error of on_report bounds what is still dispatched (the stopped flag of
\* engine.rs): no worker takes more than the one target it was about to take.
THEOREM StopIsBounded == Spec => []StopBound
<1>1. ASSUME Inv, Books PROVE StopBound
  <2>1. Fetching \in SUBSET Workers
    BY DEF Fetching
  <2>2. Cardinality(Fetching) \in Nat /\ Dispatched \in Nat /\ WorkerCount \in Nat
    BY <1>1, <2>1, WorkerSubset, WorkerCountType, NAssumption
    DEF Inv, TypeInv, TypeOK, Dispatched
  <2>3. Cardinality(accepted) \in Nat
    BY <1>1, ReceivedFinite, FS_Subset, FS_CardinalityType, NAssumption
    DEF Inv, TypeInv, TypeOK
  <2> QED BY <1>1, <2>2, <2>3 DEF Books, StopBound
<1>2. Inv /\ Books => StopBound
  BY <1>1
<1> QED BY <1>2, BooksInvariant, PTL

-----------------------------------------------------------------------------
(* The refinement of FleetScan *)

\* What FleetScan sees of a state, in the words of its instance Abstract.
Scans(w, t) == pc[w] = "scan" /\ held[w] = t
Phase == [t \in Targets |->
            IF t > next THEN "queued"
            ELSE IF \E w \in Workers : pc[w] = "scan" /\ held[w] = t THEN "scanning"
            ELSE IF t \in received THEN "counted" ELSE "scanned"]
Status == IF main = "unwinding" \/ exit.code = 101 THEN "crashed"
          ELSE IF main \in {"joined", "exited"} THEN "over"
          ELSE IF firstError # "none" THEN "cut" ELSE "running"

\* The exit code is written at the exit and not before.
ExitPending == main # "exited" => exit.code # 101

\* Nothing is pending at the start.
LEMMA PendingInit == Init => ExitPending
BY DEF Init, ExitPending, NotExited, NoCode

\* Every step preserves ExitPending.
LEMMA PendingStep == ExitPending /\ [Next]_vars => ExitPending'
<1> SUFFICES ASSUME ExitPending, [Next]_vars PROVE ExitPending'
  OBVIOUS
<1>1. ASSUME NEW strict \in BOOLEAN, NEW failOn \in FailOns, Exit(strict, failOn)
      PROVE  ExitPending'
  BY <1>1 DEF Exit, ExitPending
<1>2. CASE ExitPanicked
  BY <1>2 DEF ExitPanicked, ExitPending
<1>3. CASE exit' = exit /\ main # "exited"
  BY <1>3 DEF ExitPending
<1>4. CASE exit' = exit /\ main' = main
  BY <1>4 DEF ExitPending
<1> QED
  BY <1>1, <1>2, <1>3, <1>4
  DEF Next, Main, Worker, vars, mainVars, CheckStopped, FetchNext, Scan, Send, SendFails,
      SpawnWorker, SpawnFails, SpawnedAll, Receive, HandlerAccepts, HandlerFails,
      HandlerPanics, Join

\* An exit after a scan that was joined has a code of its own.
LEMMA ExitNotPanicked ==
  ASSUME NEW wrote, NEW s, NEW strict, NEW failOn
  PROVE  ExitAfterWrite(wrote, s, strict, failOn) # 101
BY DEF ExitAfterWrite, ReportExit

\* At most as many targets are being scanned as workers are scanning.
LEMMA ScanningBound ==
  ASSUME TypeInv, NEW w \in Workers, pc[w] # "scan"
  PROVE  Cardinality({t \in Targets : Phase[t] = "scanning"}) < WorkerCount
<1> DEFINE S == {v \in Workers : pc[v] = "scan"}
<1> DEFINE T == {t \in Targets : Phase[t] = "scanning"}
<1> DEFINE h == [v \in S |-> held[v]]
<1>1. S \in SUBSET (Workers \ {w}) /\ S \in SUBSET Workers
  OBVIOUS
<1>2. IsFiniteSet(Workers) /\ Cardinality(Workers) = WorkerCount
  BY FS_Interval, WorkerCountType DEF Workers
<1>3. IsFiniteSet(Workers \ {w}) /\ Cardinality(Workers \ {w}) = WorkerCount - 1
  BY <1>2, FS_RemoveElement
<1>4. IsFiniteSet(S) /\ Cardinality(S) <= WorkerCount - 1
  BY <1>1, <1>3, FS_Subset
<1>5. T = {h[v] : v \in S}
  <2>1. \A t \in Targets : Phase[t] = "scanning" <=> t <= next /\ \E v \in S : held[v] = t
    BY DEF Phase, TypeInv, TypeOK, Targets
  <2>2. \A v \in S : held[v] \in Targets /\ held[v] <= next
    <3>1. next \in Nat /\ \A v \in S : held[v] \in 1..Dispatched
      BY DEF TypeInv, TypeOK, HeldIsDispatched
    <3> HIDE DEF S
    <3> QED BY <3>1 DEF Dispatched, Targets
  <2>3. \A v \in S : h[v] = held[v]
    OBVIOUS
  <2> HIDE DEF S, h
  <2> QED BY <2>1, <2>2, <2>3
<1>6. IsFiniteSet(T) /\ Cardinality(T) <= Cardinality(S)
  <2> HIDE DEF S, T
  <2>1. h \in [S -> T] /\ \A t \in T : \E v \in S : h[v] = t
    BY <1>5
  <2>2. h \in Surjection(S, T)
    BY <2>1 DEF Surjection
  <2> QED BY <1>4, <2>2, FS_Surjection
<1> HIDE DEF S, T
<1>7. Cardinality(S) \in Nat /\ Cardinality(T) \in Nat
  BY <1>4, <1>6, FS_CardinalityType
<1> QED BY <1>4, <1>6, <1>7, WorkerCountType DEF T

-----------------------------------------------------------------------------
(* Steps of FleetScan, in terms of Phase and Status *)

\* FleetScan counts sets as this module does.
LEMMA SameCardinality ==
  ASSUME NEW S
  PROVE  Abstract!Cardinality(S) = Cardinality(S)
BY DEF Abstract!Cardinality, Cardinality

\* What a step of FleetScan is in the mapped variables: Dispatch takes the next target.
LEMMA DispatchMaps ==
  ASSUME NEW t \in Targets, Phase[t] = "queued",
         \A u \in Targets : Phase[u] = "queued" => t <= u,
         Cardinality({u \in Targets : Phase[u] = "scanning"}) < WorkerCount,
         Phase' = [Phase EXCEPT ![t] = "scanning"], Status' = Status
  PROVE  Abstract!Dispatch(t)
<1>1. /\ Abstract!In("queued") = {u \in Targets : Phase[u] = "queued"}
      /\ Abstract!In("scanning") = {u \in Targets : Phase[u] = "scanning"}
  BY DEF Abstract!In, Phase
<1>2. \A u \in Abstract!In("queued") : t <= u
  BY <1>1
<1>3. Abstract!Cardinality(Abstract!In("scanning")) < WorkerCount
  BY <1>1, SameCardinality
<1> QED BY <1>2, <1>3 DEF Abstract!Dispatch, Phase, Status

\* Complete ends the scan of a target that was taken.
LEMMA CompleteMaps ==
  ASSUME NEW t \in Targets, Phase[t] = "scanning",
         Phase' = [Phase EXCEPT ![t] = "scanned"], Status' = Status
  PROVE  Abstract!Complete(t)
BY DEF Abstract!Complete, Phase, Status

\* Count counts one completed target.
LEMMA CountMaps ==
  ASSUME NEW t \in Targets, Phase[t] = "scanned", Status \in {"running", "cut"},
         Phase' = [u \in Targets |-> IF u \in {t} THEN "counted" ELSE Phase[u]],
         Status' = Status
  PROVE  Abstract!Count({t})
BY DEF Abstract!Count, Abstract!In, Phase, Status

\* Cut stops the dispatch, and nothing else changes.
LEMMA CutMaps ==
  ASSUME Status = "running", Status' = "cut", Phase' = Phase
  PROVE  Abstract!Cut
BY DEF Abstract!Cut, Phase, Status

\* Finish is for a run that has counted every target.
LEMMA FinishMaps ==
  ASSUME \A t \in Targets : Phase[t] # "scanning" /\ Phase[t] # "scanned",
         \/ Status = "running" /\ \A t \in Targets : Phase[t] # "queued"
         \/ Status = "cut",
         Status' = "over", Phase' = Phase
  PROVE  Abstract!Finish
BY DEF Abstract!Finish, Abstract!In, Phase, Status

\* Crash is for a run that has not finished.
LEMMA CrashMaps ==
  ASSUME Status \in {"running", "cut"}, Status' = "crashed", Phase' = Phase
  PROVE  Abstract!Crash
BY DEF Abstract!Crash, Phase, Status

\* A step that leaves the mapped variables alone is a stutter of FleetScan.
LEMMA StutterMaps ==
  ASSUME Phase' = Phase, Status' = Status
  PROVE  UNCHANGED Abstract!vars
BY DEF Abstract!vars, Phase, Status

\* Any of them is a step of FleetScan.
LEMMA NextMaps ==
  ASSUME \/ \E t \in Targets : Abstract!Dispatch(t) \/ Abstract!Complete(t) \/ Abstract!Count({t})
         \/ Abstract!Cut \/ Abstract!Finish \/ Abstract!Crash
         \/ UNCHANGED Abstract!vars
  PROVE  [Abstract!Next]_Abstract!vars
BY DEF Abstract!Next

\* The initial states map to those of FleetScan.
LEMMA InitMaps == Init => Abstract!Init
<1> SUFFICES ASSUME Init PROVE Abstract!Init
  OBVIOUS
<1>1. Phase = [t \in Targets |-> "queued"]
  BY DEF Init, Phase, Targets
<1>2. Status = "running"
  BY DEF Init, Status, NotExited, NoCode
<1> QED BY <1>1, <1>2 DEF Abstract!Init, Phase, Status

-----------------------------------------------------------------------------
(* Steps of the workers *)

\* Taking a target is Dispatch; a worker that finds none leaves FleetScan alone.
LEMMA FetchImplements ==
  ASSUME Inv, NEW w \in Workers, FetchNext(w)
  PROVE  (\E t \in Targets : Abstract!Dispatch(t)) \/ UNCHANGED Abstract!vars
<1>1. /\ pc[w] = "fetch" /\ next' = next + 1 /\ next \in Nat
      /\ UNCHANGED <<main, exit, firstError, received>>
  BY DEF FetchNext, mainVars, Inv, TypeInv, TypeOK
<1>2. Status' = Status
  BY <1>1 DEF Status
<1>3. CASE next < N
  <2>1. next + 1 \in Targets
    BY <1>1, <1>3 DEF Targets
  <2>2. PICK t \in Targets : t = next + 1
    BY <2>1
  <2>3. pc' = [pc EXCEPT ![w] = "scan"] /\ held' = [held EXCEPT ![w] = t]
    BY <1>3, <2>2 DEF FetchNext
  <2>4. pc \in [Workers -> WorkerState] /\ held \in [Workers -> 0..N]
    BY DEF Inv, TypeInv, TypeOK
  <2>5. \A v \in Workers, u \in Targets : u # t => (Scans(v, u)' <=> Scans(v, u))
    <3>1. ASSUME NEW v \in Workers, v # w PROVE pc'[v] = pc[v] /\ held'[v] = held[v]
      BY <2>3, <2>4, <3>1
    <3>2. pc'[w] = "scan" /\ held'[w] = t
      BY <2>3, <2>4
    <3> QED BY <1>1, <3>1, <3>2 DEF Scans
  <2>6. Scans(w, t)'
    BY <2>3, <2>4 DEF Scans
  <2>7. Phase[t] = "queued" /\ \A u \in Targets : Phase[u] = "queued" => t <= u
    BY <1>1, <2>2 DEF Phase, Targets
  <2>8. Cardinality({u \in Targets : Phase[u] = "scanning"}) < WorkerCount
    BY <1>1, ScanningBound DEF Inv
  <2>9. Phase' = [Phase EXCEPT ![t] = "scanning"]
    <3>1. \A u \in Targets : u # t => (u > next' <=> u > next)
      BY <1>1, <2>2 DEF Targets
    <3>2. ~(t > next')
      BY <1>1, <2>2
    <3>3. Phase'[t] = "scanning"
      BY <2>2, <2>6, <3>2 DEF Phase, Scans
    <3>4. ASSUME NEW u \in Targets, u # t PROVE Phase'[u] = Phase[u]
      <4>1. (\E v \in Workers : Scans(v, u)') <=> (\E v \in Workers : Scans(v, u))
        BY <2>5, <3>4
      <4> QED BY <1>1, <3>1, <3>4, <4>1 DEF Phase, Scans
    <3>5. Phase' = [u \in Targets |-> Phase'[u]] /\ Phase = [u \in Targets |-> Phase[u]]
      BY DEF Phase
    <3> QED BY <3>3, <3>4, <3>5
  <2>10. Abstract!Dispatch(t)
    BY <1>2, <2>7, <2>8, <2>9, DispatchMaps
  <2> QED BY <2>10
<1>4. CASE ~(next < N)
  <2>1. pc' = [pc EXCEPT ![w] = "done"] /\ held' = held
    BY <1>4 DEF FetchNext
  <2>2. \A v \in Workers : (pc'[v] = "scan" <=> pc[v] = "scan")
    BY <1>1, <2>1 DEF Inv, TypeInv, TypeOK
  <2>3. \A u \in Targets : ~(u > next) /\ ~(u > next')
    BY <1>1, <1>4 DEF Targets
  <2>4. Phase' = Phase
    BY <1>1, <2>1, <2>2, <2>3 DEF Phase
  <2> QED BY <1>2, <2>4, StutterMaps
<1> QED BY <1>3, <1>4

\* The end of a scan is Complete.
LEMMA ScanImplements ==
  ASSUME Inv, NEW w \in Workers, Scan(w)
  PROVE  \E t \in Targets : Abstract!Complete(t)
<1>1. /\ pc[w] = "scan" /\ pc' = [pc EXCEPT ![w] = "send"]
      /\ UNCHANGED <<next, held, main, exit, firstError, received>>
  BY DEF Scan, mainVars
<1>2. Status' = Status
  BY <1>1 DEF Status
<1>3. w \in Busy /\ pc \in [Workers -> WorkerState]
  BY <1>1 DEF Busy, Inv, TypeInv, TypeOK
<1>4. held[w] \in Targets
  <2>1. held[w] \in 0..N /\ held[w] \in 1..next /\ next \in Nat
    BY <1>3 DEF Inv, TypeInv, TypeOK, OnePlaceEach
  <2> QED BY <2>1 DEF Targets
<1>5. PICK t \in Targets : t = held[w]
  BY <1>4
<1>6. t \in 1..next /\ t \notin received
  BY <1>3, <1>5 DEF Inv, OnePlaceEach
<1>7. ~(t > next)
  <2>1. next \in Nat
    BY DEF Inv, TypeInv, TypeOK
  <2> QED BY <1>6, <2>1
<1>8. \A v \in Workers : v # w /\ pc[v] = "scan" => held[v] # t
  BY <1>3, <1>5 DEF Inv, OnePlaceEach, Busy
<1>9. pc'[w] # "scan" /\ \A v \in Workers : v # w => pc'[v] = pc[v]
  BY <1>1, <1>3
<1>10. Scans(w, t)
  BY <1>1, <1>5 DEF Scans
<1>11. Phase[t] = "scanning"
  BY <1>7, <1>10 DEF Phase, Scans
<1>12. Phase'[t] = "scanned"
  <2>1. ~\E v \in Workers : pc'[v] = "scan" /\ held'[v] = t
    BY <1>1, <1>8, <1>9
  <2> QED BY <1>1, <1>6, <1>7, <2>1 DEF Phase
<1>13. ASSUME NEW u \in Targets, u # t PROVE Phase'[u] = Phase[u]
  <2>1. \A v \in Workers : Scans(v, u)' <=> Scans(v, u)
    <3>1. held[w] # u
      BY <1>5, <1>13
    <3> QED BY <1>1, <1>9, <3>1 DEF Scans
  <2> QED BY <1>1, <2>1 DEF Phase, Scans
<1>14. Phase' = [Phase EXCEPT ![t] = "scanned"]
  <2>1. Phase' = [u \in Targets |-> Phase'[u]] /\ Phase = [u \in Targets |-> Phase[u]]
    BY DEF Phase
  <2> QED BY <1>12, <1>13, <2>1
<1>15. Abstract!Complete(t)
  BY <1>2, <1>11, <1>14, CompleteMaps
<1> QED BY <1>15

\* No other step of a worker is seen by FleetScan: a report that is sent, or that is
\* dropped because the receiver has gone, stays scanned.
LEMMA OtherWorkerSteps ==
  ASSUME Inv, NEW w \in Workers,
         CheckStopped(w) \/ Send(w) \/ SendFails(w) \/ SpawnWorker(w)
  PROVE  UNCHANGED Abstract!vars
<1>1. UNCHANGED <<next, main, exit, firstError, received>>
  BY DEF CheckStopped, Send, SendFails, SpawnWorker, mainVars
<1>2. pc \in [Workers -> WorkerState] /\ held \in [Workers -> 0..N]
  BY DEF Inv, TypeInv, TypeOK
<1>3. \A v \in Workers, t \in Targets : Scans(v, t)' <=> Scans(v, t)
  <2>1. ASSUME NEW v \in Workers, v # w PROVE pc'[v] = pc[v] /\ held'[v] = held[v]
    BY <1>2, <2>1 DEF CheckStopped, Send, SendFails, SpawnWorker
  <2>2. pc[w] # "scan" /\ pc'[w] # "scan"
    BY <1>2 DEF CheckStopped, Send, SendFails, SpawnWorker
  <2> QED BY <2>1, <2>2 DEF Scans
<1>4. Phase' = Phase
  BY <1>1, <1>3 DEF Phase, Scans
<1>5. Status' = Status
  BY <1>1 DEF Status
<1> QED BY <1>4, <1>5, StutterMaps

-----------------------------------------------------------------------------
(* Steps of the main thread *)

\* Receiving a report is Count.
LEMMA ReceiveImplements ==
  ASSUME Inv, ExitPending, Receive
  PROVE  \E t \in Targets : Abstract!Count({t})
<1>1. /\ chan # <<>> /\ main = "recv" /\ main' \in {"recv", "handle"}
      /\ received' = received \cup {Head(chan)}
      /\ UNCHANGED <<next, pc, held, exit, firstError>>
  BY DEF Receive, workerVars
<1>2. Status' = Status /\ Status \in {"running", "cut"}
  BY <1>1 DEF Status, ExitPending
<1>3. Head(chan) \in Targets /\ Head(chan) \in InChan
  BY <1>1, ChannelTail DEF Inv, TypeInv, TypeOK, InChan
<1>4. PICK t \in Targets : t = Head(chan)
  BY <1>3
<1>5. t \in 1..next /\ t \notin received /\ \A v \in Busy : held[v] # t
  BY <1>3, <1>4 DEF Inv, OnePlaceEach
<1>6. ~(t > next)
  <2>1. next \in Nat
    BY DEF Inv, TypeInv, TypeOK
  <2> QED BY <1>5, <2>1
<1>7. ~\E v \in Workers : pc[v] = "scan" /\ held[v] = t
  BY <1>5 DEF Busy
<1>8. Phase[t] = "scanned"
  BY <1>5, <1>6, <1>7 DEF Phase
<1>9. Phase'[t] = "counted"
  BY <1>1, <1>4, <1>6, <1>7 DEF Phase
<1>10. ASSUME NEW u \in Targets, u # t PROVE Phase'[u] = Phase[u]
  BY <1>1, <1>4, <1>10 DEF Phase
<1>11. Phase' = [u \in Targets |-> Phase'[u]]
  BY DEF Phase
<1>12. Phase' = [u \in Targets |-> IF u \in {t} THEN "counted" ELSE Phase[u]]
  BY <1>9, <1>10, <1>11
<1>13. Abstract!Count({t})
  BY <1>2, <1>8, <1>12, CountMaps
<1> QED BY <1>13

\* The join is Finish: nothing dispatched is still to be counted, and without an error
\* everything was dispatched.
LEMMA JoinImplements ==
  ASSUME Inv, Inv', ExitPending, Join
  PROVE  Abstract!Finish
<1>1. /\ main = "recv" /\ main' = "joined" /\ AllDone
      /\ UNCHANGED <<next, pc, held, exit, firstError, received>>
  BY DEF Join, workerVars
<1>2. JoinedCountsAll'
  BY JoinedIsCovered, PTL
<1>3. /\ received = 1..Dispatched
      /\ firstError = "none" => received = Targets
  BY <1>1, <1>2 DEF JoinedCountsAll, Dispatched
<1>4. next \in Nat
  BY DEF Inv, TypeInv, TypeOK
<1>5. \A t \in Targets : t <= next => t \in received
  BY <1>3, <1>4 DEF Dispatched, Targets
<1>6. \A w \in Workers : pc[w] # "scan"
  BY <1>1 DEF AllDone
<1>7. \A t \in Targets : Phase[t] # "scanning" /\ Phase[t] # "scanned"
  BY <1>4, <1>5, <1>6 DEF Phase, Targets
<1>8. Phase' = Phase
  BY <1>1 DEF Phase
<1>9. Status' = "over" /\ Status = (IF firstError # "none" THEN "cut" ELSE "running")
  BY <1>1 DEF Status, ExitPending
<1>10. ASSUME firstError = "none", NEW t \in Targets PROVE Phase[t] # "queued"
  <2>1. t \in 1..Dispatched
    BY <1>3, <1>10
  <2>2. ~(t > next)
    BY <1>4, <2>1 DEF Dispatched, Targets
  <2> QED BY <2>2 DEF Phase
<1> QED BY <1>7, <1>8, <1>9, <1>10, FinishMaps

\* The first error of on_report is Cut (a main thread in its handler has had none).
LEMMA FailureImplements ==
  ASSUME ExitPending, NEW error \in WriteError \ {"none"}, HandlerFails(error)
  PROVE  Abstract!Cut \/ UNCHANGED Abstract!vars
<1>1. /\ main = "handle" /\ main' = "recv" /\ firstError' # "none"
      /\ UNCHANGED <<next, pc, held, exit, received>>
  BY DEF HandlerFails, workerVars
<1>2. Phase' = Phase
  BY <1>1 DEF Phase
<1>3. Status' = "cut" /\ Status \in {"cut", "running"}
  BY <1>1 DEF Status, ExitPending
<1> QED BY <1>2, <1>3, CutMaps, StutterMaps

\* A panic of the main thread is Crash.
LEMMA PanicImplements ==
  ASSUME ExitPending, SpawnFails \/ HandlerPanics
  PROVE  Abstract!Crash
<1>1. /\ main \in {"spawning", "handle"} /\ main' = "unwinding"
      /\ UNCHANGED <<next, pc, held, exit, firstError, received>>
  BY DEF SpawnFails, HandlerPanics, workerVars
<1>2. Phase' = Phase
  BY <1>1 DEF Phase
<1>3. Status' = "crashed" /\ Status \in {"running", "cut"}
  BY <1>1 DEF Status, ExitPending
<1> QED BY <1>2, <1>3, CrashMaps

\* No other step of the main thread is seen by FleetScan.
LEMMA OtherMainSteps ==
  ASSUME ExitPending,
         \/ SpawnedAll \/ HandlerAccepts \/ ExitPanicked \/ UNCHANGED vars
         \/ \E strict \in BOOLEAN, failOn \in FailOns : Exit(strict, failOn)
  PROVE  UNCHANGED Abstract!vars
<1>1. UNCHANGED <<next, pc, held, received, firstError>>
  BY DEF SpawnedAll, HandlerAccepts, ExitPanicked, Exit, vars, workerVars
<1>2. Phase' = Phase
  BY <1>1 DEF Phase
<1>3. CASE SpawnedAll \/ HandlerAccepts
  <2>1. Status' = Status
    BY <1>1, <1>3 DEF SpawnedAll, HandlerAccepts, Status
  <2> QED BY <1>2, <2>1, StutterMaps
<1>4. CASE ExitPanicked
  <2>1. Status' = Status
    BY <1>4 DEF ExitPanicked, NoCode, Status
  <2> QED BY <1>2, <2>1, StutterMaps
<1>5. CASE UNCHANGED vars
  <2>1. Status' = Status
    BY <1>5 DEF vars, Status
  <2> QED BY <1>2, <2>1, StutterMaps
<1>6. ASSUME NEW strict \in BOOLEAN, NEW failOn \in FailOns, Exit(strict, failOn)
      PROVE  UNCHANGED Abstract!vars
  <2>1. main = "joined" /\ main' = "exited" /\ exit'.code # 101
    BY <1>6, ExitNotPanicked DEF Exit
  <2>2. Status' = Status
    BY <2>1 DEF Status, ExitPending
  <2> QED BY <1>2, <2>2, StutterMaps
<1> QED BY <1>3, <1>4, <1>5, <1>6

-----------------------------------------------------------------------------

\* The streaming scheduler is an implementation of FleetScan: whatever the
\* interleaving, targets are dispatched in order and at most WorkerCount at a time,
\* each is scanned and counted at most once, and a scan that ends has counted
\* everything it dispatched - and, unless on_report cut it short, every target.
THEOREM StreamImplementsFleetScan == Spec => ImplementsFleetScan
<1>1. ASSUME Inv, Inv', ExitPending, [Next]_vars PROVE [Abstract!Next]_Abstract!vars
  <2>1. ASSUME NEW w \in Workers, Worker(w) PROVE [Abstract!Next]_Abstract!vars
    BY <1>1, <2>1, FetchImplements, ScanImplements, OtherWorkerSteps, NextMaps DEF Worker
  <2>2. CASE Main
    BY <1>1, <2>2, OtherWorkerSteps, ReceiveImplements, JoinImplements, FailureImplements,
       PanicImplements, OtherMainSteps, NextMaps
    DEF Main
  <2>3. CASE UNCHANGED vars
    BY <1>1, <2>3, OtherMainSteps, NextMaps
  <2> QED BY <1>1, <2>1, <2>2, <2>3 DEF Next
<1>2. Spec => [](Inv /\ ExitPending)
  BY InvInvariant, PendingInit, PendingStep, PTL DEF Spec
<1> QED BY <1>1, <1>2, InitMaps, PTL DEF Spec, ImplementsFleetScan, Abstract!Spec
====
