---- MODULE InvocationProofs ----
(***************************************************************************)
(* Promises of Invocation, for all fleets, packs, arguments and contents   *)
(* of the three files: an unusable run touches no host, a pack is run as   *)
(* it was signed, the batch collects one report of every target, in the    *)
(* document's order, and seen from outside it is FleetScan; the document   *)
(* claims no more than the scans earned and the exit code agrees with it.  *)
(***************************************************************************)
EXTENDS Invocation, SequenceLemmas, FiniteSetTheorems, FunctionTheorems, TLAPS

-----------------------------------------------------------------------------
(* UnusableStartsNothing *)

BeforeScan == {"args", "pack", "list", "open", "stream"}
AfterScan == {"write", "summary"}

\* What has been settled at each stage of main. A run that has exited may have stopped
\* before the scan or after it: what it promises then is the property itself.
Settled ==
  /\ stage \in BeforeScan \cup AfterScan \cup {"scan", "exited"}
  /\ next \in Nat
  /\ stage \in BeforeScan => next = 0
  /\ stage \in {"pack", "list", "open", "scan"} => ~UsageError
  /\ pack \in {"none", "loading", "rejected", "accepted"}
  /\ stage \in {"list", "open", "scan"} => pack \in {"none", "accepted"}
  /\ stage = "scan" => writer # "none"
  /\ UnusableStartsNothing

\* Nothing has been taken when the program starts.
LEMMA SettledInit == Init => Settled
  BY DEF Init, PackInit, BatchInit, Settled, BeforeScan, AfterScan, UnusableStartsNothing

\* Before the scan ends the arguments stay, and only Load changes the pack.
LEMMA SettledNext == Settled /\ [Next]_vars => Settled'
<1> SUFFICES ASSUME Settled, [Next]_vars PROVE Settled'
  OBVIOUS
<1> USE DEF Settled, BeforeScan, AfterScan, UnusableStartsNothing, UsageError, packVars,
            batchVars, runVars, GoTo, ExitWith
<1>1. CASE CheckArgs
  BY <1>1 DEF CheckArgs
<1>2. CASE LoadPack
  BY <1>2 DEF LoadPack, Load, Stat, Open, Fstat, Read, VerifyAndParse, Loading, Reject, Return,
              TurnEnds
<1>3. CASE PackLoaded
  BY <1>3 DEF PackLoaded
<1>4. CASE ListProbes
  BY <1>4 DEF ListProbes
<1>5. CASE CannotOpen
  BY <1>5 DEF CannotOpen
<1>6. CASE OpenWriter
  BY <1>6 DEF OpenWriter
<1>7. CASE Scanning /\ Collector
  BY <1>7 DEF Scanning, Collector, SpawnWorker, SpawnFails, JoinAndSort, Panicked
<1>8. CASE Scanned
  BY <1>8 DEF Scanned
<1>9. CASE WriteItems
  BY <1>9 DEF WriteItems
<1>10. CASE WriteFails
  BY <1>10 DEF WriteFails
<1>11. CASE Persist
  BY <1>11 DEF Persist
<1>12. CASE Conclude
  BY <1>12 DEF Conclude
<1>13. CASE \E w \in Workers : Scanning /\ Worker(w)
  BY <1>13 DEF Scanning, Worker, FetchNext, Scan
<1>14. CASE stage = "pack" /\ Meddle /\ UNCHANGED <<batchVars, runVars>>
  BY <1>14 DEF Meddle, Rewrite, IoError, Replace, Reject, Return
<1>15. CASE UNCHANGED vars
  BY <1>15 DEF vars
<1> HIDE DEF Settled
<1> QED
  BY <1>1, <1>2, <1>3, <1>4, <1>5, <1>6, <1>7, <1>8, <1>9, <1>10, <1>11, <1>12, <1>13,
     <1>14, <1>15 DEF Next, Run

\* No target is taken by a run of main whose arguments do not fit together, whose pack was
\* rejected or is still being read, or whose report has no place: for every fleet, every
\* --concurrency and all contents of the pack files, at every step.
THEOREM NothingStarted == Spec => []UnusableStartsNothing
<1>1. Settled => UnusableStartsNothing
  BY DEF Settled
<1> QED
  BY SettledInit, SettledNext, <1>1, PTL DEF Spec

-----------------------------------------------------------------------------
(* PackIsWhatWasSigned *)

Reads(k) ==
  /\ texts[Roles[k]] \in Stored[Roles[k]]
  /\ texts[Roles[k]].size <= Limit[Roles[k]]

\* How far load has come, and that what was read is what was stored, within its limit.
PackRead ==
  /\ turn \in 1..3 /\ step \in {"stat", "open", "fstat", "read", "verify"}
  /\ texts = [r \in Role |-> texts[r]] /\ path = [r \in Role |-> path[r]]
  /\ pack = "loading" =>
       /\ \A r \in Role : path[r] \in Stored[r]
       /\ step \in {"fstat", "read"} => handle \in Stored[Reading]
       /\ \A k \in 1..3 : k < turn \/ step = "verify" => Reads(k)

\* The three files, in the order in which load reads them, are three different ones.
LEMMA ThreeRoles ==
  /\ Role = {"manifest", "signature", "key"} /\ Len(Roles) = 3
  /\ Roles[1] = "manifest" /\ Roles[2] = "signature" /\ Roles[3] = "key"
  /\ \A j, k \in 1..3 : Roles[k] \in Role /\ (Roles[j] = Roles[k] => j = k)
<1>1. DOMAIN Roles = {1, 2, 3}
  BY DEF Roles
<1> QED
  BY <1>1 DEF Roles, Role, Range

\* Nothing has been read at first, and each path leads to something stored there.
LEMMA PackReadInit == Init => PackRead
  BY ThreeRoles DEF Init, PackInit, PackRead, NoPaths, Reads

\* Once load has returned, nothing is known of the files.
LEMMA ReturnReads == ASSUME NEW result \in {"rejected", "accepted"}, NEW probes,
                            Return(result, probes)
                     PROVE  PackRead'
  BY DEF Return, PackRead, NoPaths

\* A step of load reads what is stored, at most up to the limit: the file was checked when
\* opened, and read_bounded looks at the size once more after the read.
LEMMA LoadReads == PackRead /\ Load => PackRead'
<1> SUFFICES ASSUME PackRead, Load PROVE PackRead'
  OBVIOUS
<1> USE DEF PackRead, Reads, Loading, Reading
<1>1. CASE Reject
  BY <1>1, ReturnReads DEF Reject
<1>2. CASE Stat /\ ~Reject
  BY <1>2 DEF Stat
<1>3. CASE Open /\ ~Reject
  BY <1>3, ThreeRoles DEF Open
<1>4. CASE Fstat /\ ~Reject
  BY <1>4 DEF Fstat
<1>5. CASE Read /\ ~Reject
  <2> DEFINE role == Roles[turn]
  <2>1. pack = "loading" => handle.size \in Nat /\ Limit[role] \in Nat
    <3>1. role \in Role
      BY ThreeRoles
    <3>2. pack = "loading" => handle \in File
      BY <1>5, <3>1, StoredAssumption DEF Read
    <3> QED
      BY <3>1, <3>2, LimitAssumption DEF File
  <2>2. /\ pack = "loading" /\ step = "read" /\ handle.size <= Limit[Roles[turn]]
        /\ texts' = [texts EXCEPT ![Roles[turn]] = handle]
        /\ TurnEnds /\ UNCHANGED <<path, pack, active>>
    BY <1>5, <2>1 DEF Read
  <2>3. \A k \in 1..3 : k < turn \/ k = turn => Reads(k)'
    BY <2>2, ThreeRoles
  <2>4. texts' = [r \in Role |-> texts'[r]]
    BY <2>2
  <2>5. CASE turn < 3
    BY <2>2, <2>3, <2>4, <2>5, ThreeRoles DEF TurnEnds
  <2>6. CASE turn = 3
    BY <2>2, <2>3, <2>4, <2>6, ThreeRoles DEF TurnEnds
  <2> QED
    BY <2>5, <2>6
<1>6. CASE VerifyAndParse /\ ~Reject
  BY <1>6, ReturnReads DEF VerifyAndParse
<1> QED
  BY <1>1, <1>2, <1>3, <1>4, <1>5, <1>6 DEF Load

\* Replacing a path, or rewriting the open file, changes nothing that has been read.
LEMMA MeddleReads == PackRead /\ Meddle => PackRead'
<1> SUFFICES ASSUME PackRead, Meddle PROVE PackRead'
  OBVIOUS
<1> USE DEF PackRead, Reads, Reading
<1>1. CASE Rewrite
  BY <1>1 DEF Rewrite
<1>2. CASE IoError
  BY <1>2, ReturnReads DEF IoError, Reject
<1>3. ASSUME NEW r \in Role, Replace(r) PROVE PackRead'
  BY <1>3 DEF Replace
<1> QED
  BY <1>1, <1>2, <1>3 DEF Meddle

\* The rest of main leaves the pack alone.
LEMMA PackReadNext == PackRead /\ [Next]_vars => PackRead'
<1> SUFFICES ASSUME PackRead, [Next]_vars PROVE PackRead'
  OBVIOUS
<1>1. CASE Load
  BY <1>1, LoadReads
<1>2. CASE Meddle
  BY <1>2, MeddleReads
<1>3. CASE UNCHANGED packVars
  BY <1>3 DEF packVars, PackRead, Reads, Reading
<1>4. Load \/ Meddle \/ UNCHANGED packVars
  BY DEF Next, Run, vars, CheckArgs, LoadPack, PackLoaded, ListProbes, CannotOpen, OpenWriter,
         Scanning, Scanned, WriteItems, WriteFails, Persist, Conclude
<1> QED
  BY <1>1, <1>2, <1>3, <1>4

\* A sequence without repetition, all of it in a set, has as many members there as places.
LEMMA AllDistinct ==
  ASSUME NEW S, NEW s \in Seq(S), IsInjective(s), NEW T, Range(s) \subseteq T
  PROVE  Cardinality(Range(s) \cap T) = Len(s)
<1>1. s \in Bijection(1..Len(s), Range(s))
  BY DEF Bijection, Injection, Surjection, IsInjective, Range
<1>2. Cardinality(Range(s)) = Len(s)
  BY <1>1, FS_CountingElements DEF ExistsBijection
<1> QED
  BY <1>2, Range(s) \cap T = Range(s)

\* The only step that changes the pack to an accepted one verifies what has been read.
LEMMA AcceptedStep ==
  ASSUME PackRead, Loading("verify"), Verified(texts),
         NEW text, text = texts["manifest"].text, text \in DOMAIN Manifests,
         Valid(Manifests[text]), active' = Manifests[text].probes
  PROVE  AcceptedAsSigned
<1>1. \A r \in Role : texts[r] \in Stored[r] /\ texts[r].size <= Limit[r]
  BY ThreeRoles DEF PackRead, Reads, Loading
<1>2. active' \in Seq(STRING) /\ active' # <<>>
  BY ManifestsAssumption DEF Valid
<1>3. Cardinality(Range(active') \cap Range(Builtins)) = Len(active')
  BY <1>2, AllDistinct DEF Valid
<1> QED
  BY <1>1, <1>2, <1>3 DEF AcceptedAsSigned, Verified

\* The step at which packs::load accepts a pack has verified exactly the bytes whose
\* probes the run then uses, within the limits, each a compiled-in probe and none twice,
\* and no other step changes the probes: for any pack files, keys and signatures, however
\* often the files are replaced, rewritten or unreadable meanwhile.
THEOREM PackRunAsSigned == Spec => PackIsWhatWasSigned
<1> DEFINE Step == /\ pack' = "accepted" /\ pack # "accepted" => AcceptedAsSigned
                   /\ active' # active => pack' = "accepted" /\ pack = "loading"
<1>1. PackRead /\ [Next]_vars => [Step]_<<pack, active, texts>>
  <2> SUFFICES ASSUME PackRead, [Next]_vars PROVE Step \/ UNCHANGED <<pack, active, texts>>
    OBVIOUS
  <2>1. CASE VerifyAndParse
    BY <2>1, AcceptedStep DEF VerifyAndParse, Reject, Return, Loading
  <2>2. CASE Stat \/ Open \/ Fstat \/ Read
    BY <2>2 DEF Stat, Open, Fstat, Read, Reject, Return
  <2>3. CASE Meddle
    BY <2>3 DEF Meddle, Rewrite, IoError, Replace, Reject, Return
  <2>4. CASE UNCHANGED packVars
    BY <2>4 DEF packVars
  <2>5. Load \/ Meddle \/ UNCHANGED packVars
    BY DEF Next, Run, vars, CheckArgs, LoadPack, PackLoaded, ListProbes, CannotOpen,
           OpenWriter, Scanning, Scanned, WriteItems, WriteFails, Persist, Conclude
  <2> QED
    BY <2>1, <2>2, <2>3, <2>4, <2>5 DEF Load
<1> QED
  BY PackReadInit, PackReadNext, <1>1, PTL DEF Spec, PackIsWhatWasSigned

-----------------------------------------------------------------------------
(* OneReportEachInOrder *)

\* There is a worker unless there are no targets.
LEMMA WorkerCountType == N \in Nat /\ WorkerCount \in Nat /\ (WorkerCount = 0 => N = 0)
BY NAssumption, ConcurrencyAssumption DEF WorkerCount

\* The variables of the scheduler hold values of their types.
BatchTypes ==
  /\ host \in [Targets -> HostBehaviour] /\ next \in Nat
  /\ pc \in [Workers -> {"unborn", "fetch", "scan", "done"}]
  /\ held \in [Workers -> 0..N]
  /\ local \in [Workers -> Seq(Targets)]
  /\ main \in {"spawning", "unwinding", "collected", "panicked"}
  /\ reports \in Seq(Targets)

Scans(w, t) == pc[w] = "scan" /\ held[w] = t
Keeps(w, j, t) == j \in 1..Len(local[w]) /\ local[w][j] = t

\* A target that has been taken is in one place: with the worker that scans it, or once
\* among the reports of one worker.
Owned ==
  /\ \A w \in Workers : pc[w] = "scan" => held[w] \in Targets /\ held[w] <= next
  /\ \A v, w \in Workers, t \in Targets : Scans(v, t) /\ Scans(w, t) => v = w
  /\ \A w \in Workers, j \in Nat, t \in Targets : Keeps(w, j, t) => t <= next
  /\ \A v, w \in Workers, j \in Nat, t \in Targets : ~(Scans(v, t) /\ Keeps(w, j, t))
  /\ \A v, w \in Workers, j, k \in Nat, t \in Targets :
       Keeps(v, j, t) /\ Keeps(w, k, t) => v = w /\ j = k

\* ... and it is nowhere else until the reports are collected. A worker stops when there
\* are no more targets, and the workers have stopped when the reports are collected.
Held ==
  /\ main # "collected" =>
       /\ reports = <<>>
       /\ \A t \in Targets : t <= next =>
            \/ \E w \in Workers : Scans(w, t)
            \/ \E w \in Workers : \E j \in Nat : Keeps(w, j, t)
  /\ \A w \in Workers : pc[w] = "done" => next >= N
  /\ main = "collected" => AllDone /\ next >= N /\ OneReportEachInOrder

BatchInv == BatchTypes /\ Owned /\ Held

\* BatchInv holds at the start: no target has been taken.
LEMMA BatchInvInit == Init => BatchInv
<1> SUFFICES ASSUME Init PROVE BatchInv
  OBVIOUS
<1>1. /\ host = [t \in Targets |-> Unscanned] /\ next = 0 /\ reports = <<>>
      /\ pc = [w \in Workers |-> "unborn"] /\ held = [w \in Workers |-> 0]
      /\ local = [w \in Workers |-> <<>>] /\ main = "spawning"
  BY DEF Init, BatchInit
<1>2. Unscanned \in HostBehaviour
  BY DEF Unscanned, HostBehaviour, PanickedVerdict, Verdict
<1>3. BatchTypes
  BY <1>1, <1>2, WorkerCountType DEF BatchTypes
<1>4. (\A w \in Workers, t \in Targets : ~Scans(w, t))
      /\ \A w \in Workers, j \in Nat, t \in Targets : ~Keeps(w, j, t)
  BY <1>1 DEF Scans, Keeps
<1>5. Owned
  BY <1>1, <1>4 DEF Owned
<1>6. Held
  BY <1>1, <1>4 DEF Held, Targets
<1> QED BY <1>3, <1>5, <1>6 DEF BatchInv

\* A step that takes no target, ends no scan and collects nothing.
LEMMA QuietStep ==
  ASSUME BatchInv, BatchTypes',
         UNCHANGED <<next, local, reports>>,
         \A w \in Workers, t \in Targets : Scans(w, t)' <=> Scans(w, t),
         \A w \in Workers : pc'[w] = "done" => next >= N,
         \A w \in Workers : pc'[w] = "scan" => pc[w] = "scan" /\ held'[w] = held[w],
         \/ main' # "collected" /\ main # "collected"
         \/ main' = main /\ pc' = pc
  PROVE  BatchInv'
<1>1. \A w \in Workers, j \in Nat, t \in Targets : Keeps(w, j, t)' <=> Keeps(w, j, t)
  BY DEF Keeps
<1>2. Owned'
  <2>1. \A w \in Workers : pc'[w] = "scan" => held'[w] \in Targets /\ held'[w] <= next'
    BY DEF BatchInv, Owned
  <2> QED BY <1>1, <2>1 DEF BatchInv, Owned
<1>3. Held'
  <2>1. CASE main' # "collected"
    BY <1>1, <2>1 DEF BatchInv, Held
  <2>2. CASE main' = "collected"
    <3>1. main = "collected" /\ main' = main /\ pc' = pc
      BY <2>2
    <3>2. AllDone' /\ next' >= N /\ OneReportEachInOrder'
      BY <3>1 DEF BatchInv, Held, AllDone, OneReportEachInOrder
    <3> QED BY <3>1, <3>2 DEF Held
  <2> QED BY <2>1, <2>2
<1> QED BY <1>2, <1>3 DEF BatchInv

\* The next target is taken by one worker, and no one had it before.
LEMMA FetchNextOwns ==
  ASSUME BatchInv, NEW w \in Workers, FetchNext(w)
  PROVE  BatchInv'
<1>1. /\ pc[w] = "fetch" /\ next' = next + 1 /\ next \in Nat
      /\ UNCHANGED <<host, local, main, reports>>
      /\ pc \in [Workers -> {"unborn", "fetch", "scan", "done"}] /\ held \in [Workers -> 0..N]
  BY DEF FetchNext, BatchInv, BatchTypes
<1>2. \A v \in Workers, j \in Nat, t \in Targets : Keeps(v, j, t)' <=> Keeps(v, j, t)
  BY <1>1 DEF Keeps
<1>3. main # "collected"
  BY <1>1 DEF BatchInv, Held, AllDone
<1>4. CASE next < N
  <2>1. PICK t \in Targets : t = next + 1
    BY <1>1, <1>4, WorkerCountType DEF Targets
  <2>2. held' = [held EXCEPT ![w] = t] /\ pc' = [pc EXCEPT ![w] = "scan"]
    BY <1>4, <2>1 DEF FetchNext
  <2>3. /\ pc'[w] = "scan" /\ held'[w] = t
        /\ \A v \in Workers : v # w => pc'[v] = pc[v] /\ held'[v] = held[v]
    BY <1>1, <2>2
  <2>4. BatchTypes'
    <3>1. t \in 0..N
      BY DEF Targets
    <3>2. /\ pc' \in [Workers -> {"unborn", "fetch", "scan", "done"}]
          /\ held' \in [Workers -> 0..N] /\ next' \in Nat
      BY <1>1, <2>2, <3>1
    <3> QED BY <1>1, <3>2 DEF BatchInv, BatchTypes
  <2>5. \A u \in Targets : u <= next' <=> u <= next \/ u = t
    BY <1>1, <2>1 DEF Targets
  <2>6. \A v \in Workers, u \in Targets :
          Scans(v, u)' <=> (v = w /\ u = t) \/ (v # w /\ Scans(v, u))
    BY <2>3 DEF Scans
  <2>7. \A v \in Workers, u \in Targets : Scans(v, u) => v # w /\ u <= next
    BY <1>1 DEF Scans, BatchInv, Owned
  <2>8. ~(t <= next)
    BY <1>1, <2>1
  <2>9. Owned'
    <3>1. \A v \in Workers : pc'[v] = "scan" => held'[v] \in Targets /\ held'[v] <= next'
      <4>1. ASSUME NEW v \in Workers, v # w, pc'[v] = "scan"
            PROVE  held'[v] \in Targets /\ held'[v] <= next'
        BY <2>3, <2>5, <4>1 DEF BatchInv, Owned
      <4> QED BY <2>3, <2>5, <4>1
    <3>2. \A v \in Workers, j \in Nat, u \in Targets : Keeps(v, j, u)' => u <= next'
      BY <1>2, <2>5 DEF BatchInv, Owned
    <3>3. \A u, v \in Workers, x \in Targets : Scans(u, x)' /\ Scans(v, x)' => u = v
      BY <2>6, <2>7, <2>8 DEF BatchInv, Owned
    <3>4. \A u, v \in Workers, j \in Nat, x \in Targets : ~(Scans(u, x)' /\ Keeps(v, j, x)')
      BY <1>2, <2>6, <2>8 DEF BatchInv, Owned
    <3>5. \A u, v \in Workers, j, k \in Nat, x \in Targets :
            Keeps(u, j, x)' /\ Keeps(v, k, x)' => u = v /\ j = k
      BY <1>2 DEF BatchInv, Owned
    <3> QED BY <3>1, <3>2, <3>3, <3>4, <3>5 DEF Owned
  <2>10. Held'
    <3>1. ASSUME NEW u \in Targets, u <= next'
          PROVE  \/ \E v \in Workers : Scans(v, u)'
                 \/ \E v \in Workers : \E j \in Nat : Keeps(v, j, u)'
      <4>1. CASE u = t
        BY <2>6, <4>1
      <4>2. CASE u # t
        <5>1. \/ \E v \in Workers : Scans(v, u)
              \/ \E v \in Workers : \E j \in Nat : Keeps(v, j, u)
          BY <1>3, <2>5, <3>1, <4>2 DEF BatchInv, Held
        <5> QED BY <1>2, <2>6, <2>7, <5>1
      <4> QED BY <4>1, <4>2
    <3>2. \A v \in Workers : pc'[v] = "done" => next' >= N
      <4>1. \A v \in Workers : pc'[v] = "done" => next >= N
        BY <2>3 DEF BatchInv, Held
      <4> QED BY <1>1, <4>1, WorkerCountType
    <3> QED BY <1>1, <1>3, <3>1, <3>2 DEF BatchInv, Held
  <2> QED BY <2>4, <2>9, <2>10 DEF BatchInv
<1>5. CASE ~(next < N)
  <2>1. pc' = [pc EXCEPT ![w] = "done"] /\ held' = held
    BY <1>5 DEF FetchNext
  <2>2. pc'[w] = "done" /\ \A v \in Workers : v # w => pc'[v] = pc[v]
    BY <1>1, <2>1
  <2>3. BatchTypes'
    <3>1. pc' \in [Workers -> {"unborn", "fetch", "scan", "done"}] /\ next' \in Nat
      BY <1>1, <2>1
    <3> QED BY <1>1, <2>1, <3>1 DEF BatchInv, BatchTypes
  <2>4. \A v \in Workers, u \in Targets : Scans(v, u)' <=> Scans(v, u)
    BY <1>1, <2>1, <2>2 DEF Scans
  <2>5. next >= N /\ next' >= N
    BY <1>1, <1>5, WorkerCountType
  <2>6. \A u \in Targets : u <= next' /\ u <= next
    BY <1>1, <2>5, WorkerCountType DEF Targets
  <2>7. Owned'
    <3>1. \A v \in Workers : pc'[v] = "scan" => held'[v] \in Targets /\ held'[v] <= next'
      BY <2>1, <2>2, <2>6 DEF BatchInv, Owned
    <3> QED BY <1>2, <2>4, <2>6, <3>1 DEF BatchInv, Owned
  <2>8. Held'
    BY <1>1, <1>2, <1>3, <2>4, <2>5, <2>6 DEF BatchInv, Held
  <2> QED BY <2>3, <2>7, <2>8 DEF BatchInv
<1> QED BY <1>4, <1>5

\* A target whose scan ends goes to the reports of its worker.
LEMMA ScanOwns ==
  ASSUME BatchInv, NEW w \in Workers, Scan(w)
  PROVE  BatchInv'
<1>1. /\ pc[w] = "scan" /\ pc' = [pc EXCEPT ![w] = "fetch"] /\ held' = [held EXCEPT ![w] = 0]
      /\ local' = [local EXCEPT ![w] = Append(local[w], held[w])]
      /\ UNCHANGED <<next, main, reports>>
      /\ pc \in [Workers -> {"unborn", "fetch", "scan", "done"}] /\ held \in [Workers -> 0..N]
      /\ local \in [Workers -> Seq(Targets)] /\ next \in Nat
  BY DEF Scan, BatchInv, BatchTypes
<1>2. PICK t \in Targets : t = held[w]
  BY <1>1 DEF BatchInv, Owned
<1>3. Scans(w, t) /\ t <= next
  BY <1>1, <1>2 DEF Scans, BatchInv, Owned
<1>4. main # "collected"
  BY <1>1 DEF BatchInv, Held, AllDone
<1>5. /\ pc'[w] = "fetch" /\ held'[w] = 0 /\ local'[w] = Append(local[w], t)
      /\ \A v \in Workers : v # w => pc'[v] = pc[v] /\ held'[v] = held[v] /\ local'[v] = local[v]
  BY <1>1, <1>2
<1>6. BatchTypes'
  <2>1. host' \in [Targets -> HostBehaviour]
    <3>1. PICK h \in Hosts[t] : host' = [host EXCEPT ![t] = h]
      BY <1>2 DEF Scan
    <3>2. h \in HostBehaviour
      BY HostsAssumption
    <3> QED BY <3>1, <3>2 DEF BatchInv, BatchTypes
  <2>2. pc' \in [Workers -> {"unborn", "fetch", "scan", "done"}] /\ held' \in [Workers -> 0..N]
    BY <1>1, WorkerCountType
  <2>3. local' \in [Workers -> Seq(Targets)]
    <3>1. Append(local[w], t) \in Seq(Targets)
      BY <1>1
    <3> QED BY <1>1, <1>2, <3>1
  <2> QED BY <1>1, <2>1, <2>2, <2>3 DEF BatchInv, BatchTypes
<1>7. \A v \in Workers, u \in Targets : Scans(v, u)' <=> v # w /\ Scans(v, u)
  BY <1>5 DEF Scans
<1>8. \A u \in Targets : Scans(w, u) => u = t
  BY <1>2 DEF Scans
<1> DEFINE n == Len(local[w]) + 1
<1>9. n \in Nat \ {0}
  BY <1>1
<1>10. \A v \in Workers, j \in Nat, u \in Targets :
         Keeps(v, j, u)' <=> Keeps(v, j, u) \/ (v = w /\ j = n /\ u = t)
  <2>1. ASSUME NEW v \in Workers, v # w, NEW j \in Nat, NEW u \in Targets
        PROVE  Keeps(v, j, u)' <=> Keeps(v, j, u)
    BY <1>5, <2>1 DEF Keeps
  <2>2. ASSUME NEW j \in Nat, NEW u \in Targets
        PROVE  Keeps(w, j, u)' <=> Keeps(w, j, u) \/ (j = n /\ u = t)
    <3>1. PICK s \in Seq(Targets) : s = local[w]
      BY <1>1
    <3>2. /\ Len(Append(s, t)) = Len(s) + 1 /\ Append(s, t)[Len(s) + 1] = t
          /\ \A k \in 1..Len(s) : Append(s, t)[k] = s[k]
          /\ Len(s) \in Nat
      OBVIOUS
    <3>3. j \in 1..Len(s) + 1 <=> j \in 1..Len(s) \/ j = Len(s) + 1
      BY <3>2
    <3>4. Len(s) + 1 \notin 1..Len(s)
      BY <3>2
    <3> QED BY <1>5, <3>1, <3>2, <3>3, <3>4 DEF Keeps
  <2> QED BY <2>1, <2>2
<1>11. \A j \in Nat, u \in Targets : Keeps(w, j, u) => j # n
  BY <1>1 DEF Keeps
<1> HIDE DEF n
<1>12. Owned'
  <2>1. \A v \in Workers : pc'[v] = "scan" => held'[v] \in Targets /\ held'[v] <= next'
    BY <1>1, <1>5 DEF BatchInv, Owned
  <2>2. \A u, v \in Workers, x \in Targets : Scans(u, x)' /\ Scans(v, x)' => u = v
    BY <1>7 DEF BatchInv, Owned
  <2>3. \A v \in Workers, j \in Nat, u \in Targets : Keeps(v, j, u)' => u <= next'
    BY <1>1, <1>3, <1>10 DEF BatchInv, Owned
  <2>4. \A u, v \in Workers, j \in Nat, x \in Targets : ~(Scans(u, x)' /\ Keeps(v, j, x)')
    <3>1. \A u \in Workers : Scans(u, t) => u = w
      BY <1>3 DEF BatchInv, Owned
    <3> QED BY <1>7, <1>10, <3>1 DEF BatchInv, Owned
  <2>5. \A u, v \in Workers, j, k \in Nat, x \in Targets :
          Keeps(u, j, x)' /\ Keeps(v, k, x)' => u = v /\ j = k
    <3>1. \A v \in Workers, j \in Nat : ~Keeps(v, j, t)
      BY <1>3 DEF BatchInv, Owned
    <3> QED BY <1>10, <3>1 DEF BatchInv, Owned
  <2> QED BY <2>1, <2>2, <2>3, <2>4, <2>5 DEF Owned
<1>13. Held'
  <2>1. ASSUME NEW u \in Targets, u <= next
        PROVE  \/ \E v \in Workers : Scans(v, u)'
               \/ \E v \in Workers : \E j \in Nat : Keeps(v, j, u)'
    <3>1. CASE u = t
      BY <1>9, <1>10, <3>1
    <3>2. CASE u # t
      <4>1. \/ \E v \in Workers : Scans(v, u)
            \/ \E v \in Workers : \E j \in Nat : Keeps(v, j, u)
        BY <1>4, <2>1 DEF BatchInv, Held
      <4> QED BY <1>7, <1>8, <1>10, <3>2, <4>1
    <3> QED BY <3>1, <3>2
  <2>2. \A v \in Workers : pc'[v] = "done" => next' >= N
    BY <1>1, <1>5 DEF BatchInv, Held
  <2> QED BY <1>1, <1>4, <2>1, <2>2 DEF BatchInv, Held
<1> QED BY <1>6, <1>12, <1>13 DEF BatchInv

-----------------------------------------------------------------------------
(* The reports are collected *)

\* Before puts any two different targets in one order, by their labels and positions.
LEMMA BeforeIsOrder ==
  /\ \A t \in Targets : ~Before(t, t)
  /\ \A t, u, v \in Targets : Before(t, u) /\ Before(u, v) => Before(t, v)
  /\ \A t, u \in Targets : t # u => Before(t, u) \/ Before(u, t)
<1>1. \A t \in Targets : Label[t] \in Nat /\ t \in Nat
  BY LabelAssumption DEF Targets
<1> QED BY <1>1 DEF Before

\* Reports of different targets are put in the order of their labels and positions.
LEMMA SortedOrder ==
  ASSUME NEW s \in Seq(Targets), \A j, k \in 1..Len(s) : s[j] = s[k] => j = k
  PROVE  /\ Sorted(s) \in Seq(Targets) /\ Len(Sorted(s)) = Len(s)
         /\ \A j, k \in 1..Len(s) : j < k => Before(Sorted(s)[j], Sorted(s)[k])
         /\ \A k \in 1..Len(s) : \E j \in 1..Len(s) : Sorted(s)[j] = s[k]
<1> DEFINE D == 1..Len(s)
           R == {jk \in D \X D : Before(s[jk[1]], s[jk[2]])}
           Goes(p) == \A j, k \in D : j < k => ~Before(s[p[k]], s[p[j]])
           order == CHOOSE p \in Bijection(D, D) : Goes(p)
<1>1. Len(s) \in Nat /\ DOMAIN s = D /\ \A k \in D : s[k] \in Targets
  OBVIOUS
<1>2. \A j, k \in D : <<j, k>> \in R <=> Before(s[j], s[k])
  OBVIOUS
<1>3. R \in SUBSET (D \X D)
  OBVIOUS
<1> HIDE DEF R
<1>4. /\ \A i \in D : <<i, i>> \notin R
      /\ \A i, j, k \in D : <<i, j>> \in R /\ <<j, k>> \in R => <<i, k>> \in R
      /\ \A i, j \in D : i # j => <<i, j>> \in R \/ <<j, i>> \in R
  BY <1>1, <1>2, BeforeIsOrder
<1>5. PICK q \in Bijection(D, D) : \A j, k \in D : j < k => <<q[j], q[k]>> \in R
  BY <1>1, <1>3, <1>4, SortingExists
<1>6. Goes(q)
  <2>1. \A j \in D : q[j] \in D
    BY <1>5 DEF Bijection, Injection
  <2> QED BY <1>1, <1>2, <1>5, <2>1, BeforeIsOrder
<1>7. order \in Bijection(D, D) /\ Goes(order)
  <2> HIDE DEF Goes
  <2> QED BY <1>6
<1>8. Sorted(s) = [k \in D |-> s[order[k]]]
  BY <1>1 DEF Sorted
<1> HIDE DEF order
<1>9. /\ \A k \in D : order[k] \in D
      /\ \A j, k \in D : order[j] = order[k] => j = k
      /\ \A k \in D : \E j \in D : order[j] = k
  BY <1>7 DEF Bijection, Injection, Surjection, IsInjective
<1>10. Sorted(s) \in Seq(Targets) /\ Len(Sorted(s)) = Len(s)
  BY <1>1, <1>8, <1>9
<1>11. ASSUME NEW j \in D, NEW k \in D, j < k PROVE Before(Sorted(s)[j], Sorted(s)[k])
  <2>1. order[j] # order[k]
    BY <1>9, <1>11
  <2>2. /\ s[order[j]] # s[order[k]] /\ ~Before(s[order[k]], s[order[j]])
        /\ s[order[j]] \in Targets /\ s[order[k]] \in Targets
    BY <1>1, <1>7, <1>9, <1>11, <2>1
  <2> QED BY <1>8, <2>2, BeforeIsOrder
<1>12. ASSUME NEW k \in D PROVE \E j \in D : Sorted(s)[j] = s[k]
  <2>1. PICK j \in D : order[j] = k
    BY <1>9
  <2>2. Sorted(s)[j] = s[k]
    BY <1>8, <2>1
  <2> QED BY <2>2
<1> QED BY <1>10, <1>11, <1>12

\* What the workers have kept is one report of every target.
LEMMA JoinCollectsAll ==
  ASSUME BatchInv, main = "spawning", Unborn = {}, AllDone
  PROVE  /\ next >= N
         /\ FlattenSeq(local) \in Seq(Targets) /\ Len(FlattenSeq(local)) = N
         /\ \A j, k \in 1..N : FlattenSeq(local)[j] = FlattenSeq(local)[k] => j = k
         /\ \A t \in Targets : \E j \in 1..N : FlattenSeq(local)[j] = t
<1> DEFINE all == FlattenSeq(local)
<1>1. next >= N
  <2>1. CASE WorkerCount = 0
    BY <2>1, WorkerCountType DEF BatchInv, BatchTypes
  <2>2. CASE WorkerCount # 0
    <3>1. 1 \in Workers
      BY <2>2, WorkerCountType DEF Workers
    <3>2. pc[1] = "done"
      BY <3>1 DEF AllDone, Unborn
    <3> QED BY <3>1, <3>2 DEF BatchInv, Held
  <2> QED BY <2>1, <2>2
<1>2. local \in Seq(Seq(Targets)) /\ Len(local) = WorkerCount /\ WorkerCount \in Nat
      /\ \A w \in 1..WorkerCount : local[w] \in Seq(Targets)
  <2>1. local \in [1..WorkerCount -> Seq(Targets)]
    BY DEF BatchInv, BatchTypes, Workers
  <2> QED BY <2>1, WorkerCountType
<1>3. all \in Seq(Targets) /\ \E off : Lays(local, WorkerCount, all, off)
  BY <1>2, FlattenLays
<1> HIDE DEF all
<1>4. PICK off : Lays(local, WorkerCount, all, off)
  BY <1>3
<1>5. /\ off \in [1..WorkerCount+1 -> Nat] /\ Len(all) = off[WorkerCount + 1]
      /\ \A w \in 1..WorkerCount : off[w + 1] = off[w] + Len(local[w])
      /\ \A w \in 1..WorkerCount : off[w + 1] <= off[WorkerCount + 1]
      /\ \A w \in 1..WorkerCount : \A k \in 1..Len(local[w]) : all[off[w] + k] = local[w][k]
      /\ \A p \in 1..Len(all) :
           \E w \in 1..WorkerCount : \E k \in 1..Len(local[w]) : p = off[w] + k
  BY <1>4 DEF Lays
<1>6. ASSUME NEW t \in Targets PROVE \E p \in 1..Len(all) : all[p] = t
  <2>1. t <= next
    BY <1>1, WorkerCountType DEF BatchInv, BatchTypes, Targets
  <2>2. ~\E w \in Workers : Scans(w, t)
    BY DEF AllDone, Scans
  <2>3. PICK w \in Workers : \E j \in Nat : Keeps(w, j, t)
    BY <2>1, <2>2 DEF BatchInv, Held
  <2>4. PICK j \in Nat : j \in 1..Len(local[w]) /\ local[w][j] = t
    BY <2>3 DEF Keeps
  <2>5. w \in 1..WorkerCount /\ Len(local[w]) \in Nat
    BY <1>2 DEF Workers
  <2>6. all[off[w] + j] = t
    BY <1>5, <2>4, <2>5
  <2>7. off[w] \in Nat /\ Len(all) \in Nat /\ off[w] + Len(local[w]) <= Len(all)
    <3>1. off[w] + Len(local[w]) <= Len(all)
      BY <1>5, <2>5
    <3>2. off[w] \in Nat
      BY <1>2, <1>5, <2>5
    <3> QED BY <1>3, <3>1, <3>2
  <2>8. off[w] + j \in 1..Len(all)
    BY <2>4, <2>5, <2>7, WithinSum
  <2> QED BY <2>6, <2>8
<1>7. ASSUME NEW p \in 1..Len(all), NEW q \in 1..Len(all), all[p] = all[q]
      PROVE  p = q
  <2>1. PICK v \in 1..WorkerCount : \E j \in 1..Len(local[v]) : p = off[v] + j
    BY <1>5
  <2>2. PICK j \in 1..Len(local[v]) : p = off[v] + j
    BY <2>1
  <2>3. PICK w \in 1..WorkerCount : \E k \in 1..Len(local[w]) : q = off[w] + k
    BY <1>5
  <2>4. PICK k \in 1..Len(local[w]) : q = off[w] + k
    BY <2>3
  <2>5. local[v][j] = local[w][k] /\ local[v][j] \in Targets
    <3>1. all[p] = local[v][j] /\ all[q] = local[w][k]
      BY <1>5, <2>2, <2>4
    <3>2. local[v] \in Seq(Targets)
      BY <1>2
    <3>3. local[v][j] \in Targets
      BY <3>2
    <3> QED BY <1>7, <3>1, <3>3
  <2>6. PICK t \in Targets : t = local[v][j]
    BY <2>5
  <2>7. Keeps(v, j, t) /\ Keeps(w, k, t)
    BY <2>5, <2>6 DEF Keeps
  <2>8. j \in Nat /\ k \in Nat /\ v \in Workers /\ w \in Workers
    BY DEF Workers
  <2>9. v = w /\ j = k
    BY <2>7, <2>8 DEF BatchInv, Owned
  <2> QED BY <2>2, <2>4, <2>9
<1>8. Len(all) = N
  <2> DEFINE D == 1..Len(all)
  <2>1. Len(all) \in Nat /\ all \in [D -> Targets]
    BY <1>3
  <2>2. all \in Bijection(D, Targets)
    BY <1>6, <1>7, <2>1 DEF Bijection, Injection, Surjection, IsInjective
  <2>3. Cardinality(Targets) = Len(all)
    BY <2>1, <2>2, FS_CountingElements DEF ExistsBijection
  <2>4. Cardinality(Targets) = N
    BY FS_Interval, WorkerCountType DEF Targets
  <2> QED BY <2>3, <2>4
<1> QED BY <1>1, <1>3, <1>6, <1>7, <1>8 DEF all

\* Collecting them puts one report of every target in the document's order.
LEMMA JoinOwns ==
  ASSUME BatchInv, JoinAndSort
  PROVE  BatchInv' /\ reports = <<>> /\ Range(reports') = Targets
<1> DEFINE all == FlattenSeq(local)
<1>1. /\ main = "spawning" /\ Unborn = {} /\ AllDone /\ main' = "collected"
      /\ reports' = Sorted(all) /\ local' = [w \in Workers |-> <<>>]
      /\ UNCHANGED <<host, next, pc, held>>
  BY DEF JoinAndSort
<1>2. /\ next >= N /\ all \in Seq(Targets) /\ Len(all) = N
      /\ \A j, k \in 1..N : all[j] = all[k] => j = k
      /\ \A t \in Targets : \E j \in 1..N : all[j] = t
  BY <1>1, JoinCollectsAll
<1> HIDE DEF all
<1>3. /\ reports' \in Seq(Targets) /\ Len(reports') = N
      /\ \A j, k \in 1..N : j < k => Before(reports'[j], reports'[k])
      /\ \A k \in 1..N : \E j \in 1..N : reports'[j] = all[k]
  <2>1. \A j, k \in 1..Len(all) : all[j] = all[k] => j = k
    BY <1>2
  <2>2. /\ Sorted(all) \in Seq(Targets) /\ Len(Sorted(all)) = Len(all)
        /\ \A j, k \in 1..Len(all) : j < k => Before(Sorted(all)[j], Sorted(all)[k])
        /\ \A k \in 1..Len(all) : \E j \in 1..Len(all) : Sorted(all)[j] = all[k]
    BY <1>2, <2>1, SortedOrder
  <2> QED BY <1>1, <1>2, <2>2
<1>4. Range(reports') = Targets
  <2>1. DOMAIN reports' = 1..N /\ \A k \in 1..N : reports'[k] \in Targets
    BY <1>3
  <2>2. \A t \in Targets : \E j \in 1..N : reports'[j] = t
    BY <1>2, <1>3
  <2> QED BY <2>1, <2>2 DEF Range
<1>5. OneReportEachInOrder'
  BY <1>3, <1>4 DEF OneReportEachInOrder, Before
<1>6. \A w \in Workers, t \in Targets : ~Scans(w, t)'
  BY <1>1 DEF AllDone, Scans
<1>7. \A w \in Workers, j \in Nat, t \in Targets : ~Keeps(w, j, t)'
  BY <1>1 DEF Keeps
<1>8. BatchTypes'
  <2>1. local' \in [Workers -> Seq(Targets)]
    BY <1>1
  <2> QED BY <1>1, <1>3, <2>1 DEF BatchInv, BatchTypes
<1>9. Owned'
  <2>1. \A w \in Workers : pc'[w] # "scan"
    BY <1>1 DEF AllDone
  <2> QED BY <1>6, <1>7, <2>1 DEF Owned
<1>10. Held'
  <2>1. AllDone'
    BY <1>1 DEF AllDone
  <2> QED BY <1>1, <1>2, <1>5, <2>1 DEF Held
<1> QED BY <1>1, <1>4, <1>8, <1>9, <1>10 DEF BatchInv, Held

\* Spawning and unwinding move no target.
LEMMA QuietSteps ==
  ASSUME BatchInv,
         \/ \E w \in Workers : SpawnWorker(w)
         \/ SpawnFails \/ Panicked \/ UNCHANGED batchVars
  PROVE  BatchInv' /\ UNCHANGED <<next, local, reports>>
         /\ \A w \in Workers, t \in Targets : Scans(w, t)' <=> Scans(w, t)
<1>1. CASE SpawnFails \/ Panicked \/ UNCHANGED batchVars
  <2>1. UNCHANGED <<host, next, pc, held, local, reports>>
    BY <1>1 DEF SpawnFails, Panicked, batchVars
  <2>2. /\ main' \in {"spawning", "unwinding", "collected", "panicked"}
        /\ (main' # "collected" /\ main # "collected") \/ main' = main
    BY <1>1 DEF SpawnFails, Panicked, batchVars, BatchInv, BatchTypes
  <2>3. BatchTypes'
    BY <2>1, <2>2 DEF BatchInv, BatchTypes
  <2>4. \A w \in Workers, t \in Targets : Scans(w, t)' <=> Scans(w, t)
    BY <2>1 DEF Scans
  <2>5. \A w \in Workers : pc'[w] = "done" => next >= N
    BY <2>1 DEF BatchInv, Held
  <2>6. BatchInv'
    BY <2>1, <2>2, <2>3, <2>4, <2>5, QuietStep
  <2> QED BY <2>1, <2>4, <2>6
<1>2. ASSUME NEW v \in Workers, SpawnWorker(v)
      PROVE  BatchInv' /\ UNCHANGED <<next, local, reports>>
             /\ \A w \in Workers, t \in Targets : Scans(w, t)' <=> Scans(w, t)
  <2>1. /\ main = "spawning" /\ pc[v] = "unborn" /\ pc' = [pc EXCEPT ![v] = "fetch"]
        /\ UNCHANGED <<host, next, held, local, main, reports>>
    BY <1>2 DEF SpawnWorker
  <2>2. pc \in [Workers -> {"unborn", "fetch", "scan", "done"}]
    BY DEF BatchInv, BatchTypes
  <2>3. /\ pc'[v] = "fetch" /\ \A w \in Workers : w # v => pc'[w] = pc[w]
        /\ pc' \in [Workers -> {"unborn", "fetch", "scan", "done"}]
    BY <2>1, <2>2
  <2>4. BatchTypes'
    BY <2>1, <2>3 DEF BatchInv, BatchTypes
  <2>5. \A w \in Workers, t \in Targets : Scans(w, t)' <=> Scans(w, t)
    BY <2>1, <2>3 DEF Scans
  <2>6. \A w \in Workers : pc'[w] = "done" => next >= N
    BY <2>3 DEF BatchInv, Held
  <2>7. \A w \in Workers : pc'[w] = "scan" => pc[w] = "scan" /\ held'[w] = held[w]
    BY <2>1, <2>3
  <2>8. BatchInv'
    BY <2>1, <2>4, <2>5, <2>6, <2>7, QuietStep
  <2> QED BY <2>1, <2>5, <2>8
<1> QED BY <1>1, <1>2

\* Every step of Invocation is one of the batch scheduler or leaves it alone.
LEMMA BatchSteps ==
  ASSUME [Next]_vars
  PROVE  \/ stage = "scan" /\ UNCHANGED runVars
            /\ \/ \E w \in Workers : FetchNext(w) \/ Scan(w) \/ SpawnWorker(w)
               \/ SpawnFails \/ JoinAndSort \/ Panicked
         \/ UNCHANGED batchVars
BY DEF Next, Run, vars, Scanning, Collector, Worker, CheckArgs, LoadPack, PackLoaded, ListProbes,
       CannotOpen, OpenWriter, Scanned, WriteItems, WriteFails, Persist, Conclude

\* Every step preserves BatchInv.
LEMMA BatchInvNext == BatchInv /\ [Next]_vars => BatchInv'
BY BatchSteps, FetchNextOwns, ScanOwns, QuietSteps, JoinOwns

\* BatchInv is an invariant.
LEMMA BatchInvariant == Spec => []BatchInv
BY BatchInvInit, BatchInvNext, PTL DEF Spec

\* Whatever the workers did, in whatever order they ended, and however labels are shared,
\* the batch scheduler collects one report of each target, in the one order of labels
\* and positions.
THEOREM OneReportEach == Spec => []OneReportEachInOrder
<1>1. BatchInv => OneReportEachInOrder
  BY DEF BatchInv, Held, OneReportEachInOrder
<1> QED BY <1>1, BatchInvariant, PTL

-----------------------------------------------------------------------------
(* The refinement of FleetScan *)

\* What FleetScan sees of a state, in the words of its instance Abstract.
Phase == [t \in Targets |->
            IF t > next THEN "queued"
            ELSE IF \E w \in Workers : pc[w] = "scan" /\ held[w] = t THEN "scanning"
            ELSE IF t \in Range(reports) THEN "counted" ELSE "scanned"]
Status == IF main \in {"unwinding", "panicked"} THEN "crashed"
          ELSE IF main = "collected" /\ stage = "exited" THEN "over" ELSE "running"

\* The scan is not over before it starts, and the document is written when it is.
ScanStage ==
  /\ stage \in BeforeScan => main = "spawning"
  /\ stage \in AfterScan => main = "collected"

\* ScanStage holds at the start.
LEMMA ScanStageInit == Init => ScanStage
BY DEF Init, BatchInit, ScanStage, BeforeScan, AfterScan

\* Every step preserves ScanStage.
LEMMA ScanStageNext == ScanStage /\ [Next]_vars => ScanStage'
<1> SUFFICES ASSUME ScanStage, [Next]_vars PROVE ScanStage'
  OBVIOUS
<1> USE DEF ScanStage, BeforeScan, AfterScan
<1>1. CASE stage = "scan" /\ UNCHANGED runVars
  BY <1>1 DEF runVars
<1>2. CASE UNCHANGED batchVars
  <2>1. main' = main
    BY <1>2 DEF batchVars
  <2>2. \/ stage' = stage
        \/ stage' = "exited" \/ stage' = "scan"
        \/ stage \in BeforeScan /\ stage' \in BeforeScan
        \/ stage \in AfterScan /\ stage' \in AfterScan
        \/ main = "collected" /\ stage' = "write"
    BY DEF Next, Run, vars, runVars, Scanning, GoTo, ExitWith, CheckArgs, LoadPack, PackLoaded,
           ListProbes, CannotOpen, OpenWriter, Scanned, WriteItems, WriteFails, Persist, Conclude
  <2> QED BY <2>1, <2>2
<1> QED BY <1>1, <1>2, BatchSteps

\* FleetScan counts sets as this module does.
LEMMA SameCardinality ==
  ASSUME NEW S
  PROVE  Abstract!Cardinality(S) = Cardinality(S)
BY DEF Abstract!Cardinality, Cardinality

\* What a step of FleetScan is in the mapped variables: Dispatch takes the next target.
LEMMA DispatchMaps ==
  ASSUME NEW t \in Targets, Phase[t] = "queued",
         \A u \in Targets : Phase[u] = "queued" => t <= u,
         Cardinality({u \in Targets : Phase[u] = "scanning"}) < WorkerCount,
         Phase' = [Phase EXCEPT ![t] = "scanning"], Status' = Status
  PROVE  Abstract!Dispatch(t)
<1>1. /\ Abstract!In("queued") = {u \in Targets : Phase[u] = "queued"}
      /\ Abstract!In("scanning") = {u \in Targets : Phase[u] = "scanning"}
  BY DEF Abstract!In, Phase
<1>2. \A u \in Abstract!In("queued") : t <= u
  BY <1>1
<1>3. Abstract!Cardinality(Abstract!In("scanning")) < WorkerCount
  BY <1>1, SameCardinality
<1> QED BY <1>2, <1>3 DEF Abstract!Dispatch, Phase, Status

\* Complete ends the scan of a target that was taken.
LEMMA CompleteMaps ==
  ASSUME NEW t \in Targets, Phase[t] = "scanning",
         Phase' = [Phase EXCEPT ![t] = "scanned"], Status' = Status
  PROVE  Abstract!Complete(t)
BY DEF Abstract!Complete, Phase, Status

\* Count may count all completed targets at once.
LEMMA CountAllMaps ==
  ASSUME Targets # {}, \A t \in Targets : Phase[t] = "scanned", Status = "running",
         Phase' = [t \in Targets |-> "counted"], Status' = Status
  PROVE  Abstract!Count(Targets)
<1>1. Abstract!In("scanned") = Targets
  BY DEF Abstract!In, Phase
<1>2. Phase' = [t \in Targets |-> IF t \in Targets THEN "counted" ELSE Phase[t]]
  OBVIOUS
<1> QED BY <1>1, <1>2 DEF Abstract!Count, Phase, Status

\* Finish is for a run that has counted every target.
LEMMA FinishMaps ==
  ASSUME \A t \in Targets : Phase[t] = "counted",
         Status = "running", Status' = "over", Phase' = Phase
  PROVE  Abstract!Finish
BY DEF Abstract!Finish, Abstract!In, Phase, Status

\* Crash is for a run that has not finished.
LEMMA CrashMaps ==
  ASSUME Status = "running", Status' = "crashed", Phase' = Phase
  PROVE  Abstract!Crash
BY DEF Abstract!Crash, Phase, Status

\* A step that leaves the mapped variables alone is a stutter of FleetScan.
LEMMA StutterMaps ==
  ASSUME Phase' = Phase, Status' = Status
  PROVE  UNCHANGED Abstract!vars
BY DEF Abstract!vars, Phase, Status

\* Any of them is a step of FleetScan.
LEMMA NextMaps ==
  ASSUME \/ \E t \in Targets : Abstract!Dispatch(t) \/ Abstract!Complete(t)
         \/ Abstract!Count(Targets) \/ Abstract!Finish \/ Abstract!Crash
         \/ UNCHANGED Abstract!vars
  PROVE  [Abstract!Next]_Abstract!vars
BY DEF Abstract!Next

\* The initial states map to those of FleetScan.
LEMMA InitMaps == Init => Abstract!Init
<1> SUFFICES ASSUME Init PROVE Abstract!Init
  OBVIOUS
<1>1. Phase = [t \in Targets |-> "queued"]
  BY WorkerCountType DEF Init, BatchInit, Phase, Targets
<1>2. Status = "running"
  BY DEF Init, BatchInit, Status
<1> QED BY <1>1, <1>2 DEF Abstract!Init, Phase, Status

\* At most as many targets are being scanned as workers are scanning.
LEMMA ScanningBound ==
  ASSUME BatchInv, NEW w \in Workers, pc[w] # "scan"
  PROVE  Cardinality({t \in Targets : Phase[t] = "scanning"}) < WorkerCount
<1> DEFINE S == {v \in Workers : pc[v] = "scan"}
<1> DEFINE T == {t \in Targets : Phase[t] = "scanning"}
<1> DEFINE h == [v \in S |-> held[v]]
<1>1. S \in SUBSET (Workers \ {w}) /\ S \in SUBSET Workers
  OBVIOUS
<1>2. IsFiniteSet(Workers) /\ Cardinality(Workers) = WorkerCount
  BY FS_Interval, WorkerCountType DEF Workers
<1>3. IsFiniteSet(Workers \ {w}) /\ Cardinality(Workers \ {w}) = WorkerCount - 1
  BY <1>2, FS_RemoveElement
<1>4. IsFiniteSet(S) /\ Cardinality(S) <= WorkerCount - 1
  BY <1>1, <1>3, FS_Subset
<1>5. T = {h[v] : v \in S}
  <2>1. next \in Nat /\ \A t \in Targets : t \in Nat
    BY WorkerCountType DEF BatchInv, BatchTypes, Targets
  <2>2. \A t \in Targets : Phase[t] = "scanning" <=> t <= next /\ \E v \in S : held[v] = t
    BY <2>1 DEF Phase
  <2>3. \A v \in S : held[v] \in Targets /\ held[v] <= next
    BY DEF BatchInv, Owned
  <2>4. \A v \in S : h[v] = held[v]
    OBVIOUS
  <2> HIDE DEF S, h
  <2> QED BY <2>2, <2>3, <2>4
<1>6. IsFiniteSet(T) /\ Cardinality(T) <= Cardinality(S)
  <2> HIDE DEF S, T
  <2>1. h \in [S -> T] /\ \A t \in T : \E v \in S : h[v] = t
    BY <1>5
  <2>2. h \in Surjection(S, T)
    BY <2>1 DEF Surjection
  <2> QED BY <1>4, <2>2, FS_Surjection
<1> HIDE DEF S, T
<1>7. Cardinality(S) \in Nat /\ Cardinality(T) \in Nat
  BY <1>4, <1>6, FS_CardinalityType
<1> QED BY <1>4, <1>6, <1>7, WorkerCountType DEF T

\* Taking a target is Dispatch; a worker that finds none leaves FleetScan alone.
LEMMA FetchImplements ==
  ASSUME BatchInv, NEW w \in Workers, FetchNext(w), stage' = stage
  PROVE  (\E t \in Targets : Abstract!Dispatch(t)) \/ UNCHANGED Abstract!vars
<1>1. /\ pc[w] = "fetch" /\ next' = next + 1 /\ next \in Nat
      /\ UNCHANGED <<main, reports>>
      /\ pc \in [Workers -> {"unborn", "fetch", "scan", "done"}] /\ held \in [Workers -> 0..N]
  BY DEF FetchNext, BatchInv, BatchTypes
<1>2. Status' = Status
  BY <1>1 DEF Status
<1>3. \A u \in Targets : u \in Nat
  BY WorkerCountType DEF Targets
<1>4. CASE next < N
  <2>1. PICK t \in Targets : t = next + 1
    BY <1>1, <1>4, WorkerCountType DEF Targets
  <2>2. held' = [held EXCEPT ![w] = t] /\ pc' = [pc EXCEPT ![w] = "scan"]
    BY <1>4, <2>1 DEF FetchNext
  <2>3. /\ pc'[w] = "scan" /\ held'[w] = t
        /\ \A v \in Workers : v # w => pc'[v] = pc[v] /\ held'[v] = held[v]
    BY <1>1, <2>2
  <2>4. Phase[t] = "queued" /\ \A u \in Targets : Phase[u] = "queued" => t <= u
    BY <1>1, <1>3, <2>1 DEF Phase
  <2>5. Cardinality({u \in Targets : Phase[u] = "scanning"}) < WorkerCount
    BY <1>1, ScanningBound
  <2>6. ~(t > next') /\ \A u \in Targets : u # t => (u > next' <=> u > next)
    BY <1>1, <1>3, <2>1
  <2>7. Phase'[t] = "scanning"
    BY <2>3, <2>6 DEF Phase
  <2>8. ASSUME NEW u \in Targets, u # t PROVE Phase'[u] = Phase[u]
    <3>1. (\E v \in Workers : Scans(v, u)') <=> (\E v \in Workers : Scans(v, u))
      BY <1>1, <2>3, <2>8 DEF Scans
    <3> QED BY <1>1, <2>6, <2>8, <3>1 DEF Phase, Scans
  <2>9. Phase' = [Phase EXCEPT ![t] = "scanning"]
    <3>1. Phase' = [u \in Targets |-> Phase'[u]] /\ Phase = [u \in Targets |-> Phase[u]]
      BY DEF Phase
    <3> QED BY <2>7, <2>8, <3>1
  <2>10. Abstract!Dispatch(t)
    BY <1>2, <2>4, <2>5, <2>9, DispatchMaps
  <2> QED BY <2>10
<1>5. CASE ~(next < N)
  <2>1. pc' = [pc EXCEPT ![w] = "done"] /\ held' = held
    BY <1>5 DEF FetchNext
  <2>2. \A v \in Workers : (pc'[v] = "scan" <=> pc[v] = "scan")
    BY <1>1, <2>1
  <2>3. \A u \in Targets : ~(u > next) /\ ~(u > next')
    BY <1>1, <1>5, WorkerCountType DEF Targets
  <2>4. Phase' = Phase
    BY <1>1, <2>1, <2>2, <2>3 DEF Phase
  <2> QED BY <1>2, <2>4, StutterMaps
<1> QED BY <1>4, <1>5

\* The end of a scan is Complete.
LEMMA ScanImplements ==
  ASSUME BatchInv, NEW w \in Workers, Scan(w), stage' = stage
  PROVE  \E t \in Targets : Abstract!Complete(t)
<1>1. /\ pc[w] = "scan" /\ pc' = [pc EXCEPT ![w] = "fetch"] /\ held' = [held EXCEPT ![w] = 0]
      /\ UNCHANGED <<next, main, reports>>
      /\ pc \in [Workers -> {"unborn", "fetch", "scan", "done"}] /\ held \in [Workers -> 0..N]
      /\ next \in Nat
  BY DEF Scan, BatchInv, BatchTypes
<1>2. Status' = Status
  BY <1>1 DEF Status
<1>3. PICK t \in Targets : t = held[w]
  BY <1>1 DEF BatchInv, Owned
<1>4. ~(t > next)
  <2>1. t <= next /\ t \in Nat
    BY <1>1, <1>3, WorkerCountType DEF BatchInv, Owned, Targets
  <2> QED BY <1>1, <2>1
<1>5. main # "collected" /\ reports = <<>>
  BY <1>1 DEF BatchInv, Held, AllDone
<1>6. t \notin Range(reports)
  BY <1>5 DEF Range
<1>7. \A v \in Workers, u \in Targets : Scans(v, u)' <=> v # w /\ Scans(v, u)
  BY <1>1 DEF Scans
<1>8. Scans(w, t) /\ \A v \in Workers : Scans(v, t) => v = w
  BY <1>1, <1>3 DEF Scans, BatchInv, Owned
<1>9. \A u \in Targets : Scans(w, u) => u = t
  BY <1>3 DEF Scans
<1>10. Phase[t] = "scanning"
  BY <1>4, <1>8 DEF Phase, Scans
<1>11. Phase'[t] = "scanned"
  <2>1. ~\E v \in Workers : Scans(v, t)'
    BY <1>7, <1>8
  <2> QED BY <1>1, <1>4, <1>6, <2>1 DEF Phase, Scans
<1>12. ASSUME NEW u \in Targets, u # t PROVE Phase'[u] = Phase[u]
  <2>1. (\E v \in Workers : Scans(v, u)') <=> (\E v \in Workers : Scans(v, u))
    BY <1>7, <1>9, <1>12
  <2> QED BY <1>1, <2>1 DEF Phase, Scans
<1>13. Phase' = [Phase EXCEPT ![t] = "scanned"]
  <2>1. Phase' = [u \in Targets |-> Phase'[u]] /\ Phase = [u \in Targets |-> Phase[u]]
    BY DEF Phase
  <2> QED BY <1>11, <1>12, <2>1
<1>14. Abstract!Complete(t)
  BY <1>2, <1>10, <1>13, CompleteMaps
<1> QED BY <1>14

\* The end of the batch is Count, of all targets at once.
LEMMA JoinImplements ==
  ASSUME BatchInv, JoinAndSort, stage = "scan", stage' = stage
  PROVE  Abstract!Count(Targets) \/ UNCHANGED Abstract!vars
<1>1. /\ main = "spawning" /\ main' = "collected" /\ Unborn = {} /\ AllDone
      /\ UNCHANGED <<next, pc, held>>
  BY DEF JoinAndSort
<1>2. reports = <<>> /\ Range(reports') = Targets
  BY JoinOwns
<1>3. next >= N /\ next \in Nat
  BY <1>1, JoinCollectsAll DEF BatchInv, BatchTypes
<1>4. Status = "running" /\ Status' = Status
  BY <1>1 DEF Status
<1>5. \A t \in Targets : ~(t > next)
  BY <1>3, WorkerCountType DEF Targets
<1>6. \A w \in Workers : pc[w] # "scan"
  BY <1>1 DEF AllDone
<1>7. \A t \in Targets : Phase[t] = "scanned"
  <2>1. Range(reports) = {}
    BY <1>2 DEF Range
  <2> QED BY <1>5, <1>6, <2>1 DEF Phase
<1>8. Phase' = [t \in Targets |-> "counted"]
  BY <1>1, <1>2, <1>5, <1>6 DEF Phase
<1>9. CASE Targets = {}
  <2>1. Phase' = Phase
    BY <1>8, <1>9 DEF Phase
  <2> QED BY <1>4, <2>1, StutterMaps
<1>10. CASE Targets # {}
  BY <1>4, <1>7, <1>8, <1>10, CountAllMaps
<1> QED BY <1>9, <1>10

\* A thread that cannot be created is Crash; nothing else in the scheduler is seen.
LEMMA SpawnImplements ==
  ASSUME BatchInv, stage = "scan", stage' = stage,
         (\E w \in Workers : SpawnWorker(w)) \/ SpawnFails \/ Panicked
  PROVE  Abstract!Crash \/ UNCHANGED Abstract!vars
<1>1. /\ UNCHANGED <<next, reports>>
      /\ \A w \in Workers, t \in Targets : Scans(w, t)' <=> Scans(w, t)
  BY QuietSteps
<1>2. Phase' = Phase
  BY <1>1 DEF Phase, Scans
<1>3. Status' = Status \/ (Status = "running" /\ Status' = "crashed")
  BY DEF Status, SpawnWorker, SpawnFails, Panicked
<1> QED BY <1>2, <1>3, CrashMaps, StutterMaps

\* Outside the scheduler only the end of the run is seen: it is Finish.
LEMMA RunImplements ==
  ASSUME BatchInv, ScanStage, [Next]_vars, UNCHANGED batchVars
  PROVE  Abstract!Finish \/ UNCHANGED Abstract!vars
<1>1. UNCHANGED <<next, pc, held, main, reports>>
  BY DEF batchVars
<1>2. Phase' = Phase
  BY <1>1 DEF Phase
<1>3. CASE main # "collected" \/ (stage = "exited" <=> stage' = "exited")
  <2>1. Status' = Status
    BY <1>1, <1>3 DEF Status
  <2> QED BY <1>2, <2>1, StutterMaps
<1>4. CASE main = "collected" /\ stage # "exited" /\ stage' = "exited"
  <2>1. Status = "running" /\ Status' = "over"
    BY <1>1, <1>4 DEF Status
  <2>2. /\ AllDone /\ next >= N /\ next \in Nat /\ Range(reports) = Targets
    BY <1>4 DEF BatchInv, BatchTypes, Held, OneReportEachInOrder
  <2>3. \A t \in Targets : ~(t > next)
    BY <2>2, WorkerCountType DEF Targets
  <2>4. \A t \in Targets : Phase[t] = "counted"
    BY <2>2, <2>3 DEF Phase, AllDone
  <2> QED BY <1>2, <2>1, <2>4, FinishMaps
<1>5. stage = "exited" => stage' = "exited"
  BY DEF Next, Run, vars, runVars, Scanning, GoTo, ExitWith, CheckArgs, LoadPack, PackLoaded,
         ListProbes, CannotOpen, OpenWriter, Scanned, WriteItems, WriteFails, Persist, Conclude
<1> QED BY <1>3, <1>4, <1>5

\* The batch scheduler with the run around it is an implementation of FleetScan: targets
\* are taken in order, at most WorkerCount at a time, each is scanned and counted once,
\* and a run that was not ended by a panic has counted every target.
THEOREM BatchImplementsFleetScan == Spec => ImplementsFleetScan
<1>1. ASSUME BatchInv, ScanStage, [Next]_vars PROVE [Abstract!Next]_Abstract!vars
  <2>1. CASE UNCHANGED batchVars
    BY <1>1, <2>1, RunImplements, NextMaps
  <2>2. CASE ~(UNCHANGED batchVars)
    <3>1. /\ stage = "scan" /\ stage' = stage
          /\ \/ \E w \in Workers : FetchNext(w) \/ Scan(w) \/ SpawnWorker(w)
             \/ SpawnFails \/ JoinAndSort \/ Panicked
      BY <1>1, <2>2, BatchSteps DEF runVars
    <3> QED BY <1>1, <3>1, FetchImplements, ScanImplements, JoinImplements, SpawnImplements,
               NextMaps
  <2> QED BY <2>1, <2>2
<1>2. Spec => [](BatchInv /\ ScanStage)
  BY BatchInvariant, ScanStageInit, ScanStageNext, PTL DEF Spec
<1> QED BY <1>1, <1>2, InitMaps, PTL DEF Spec, ImplementsFleetScan, Abstract!Spec

-----------------------------------------------------------------------------
(* What the documents say *)

Kinds == {"target", "pack", "host", "PASS", "INCOMPLETE", "findings", "observations", "errors",
          "finding", "cut", "observation", "partial", "truncated", "limit", "line", "error",
          "end", "rule", "rule index", "omitted", "successful", "Completed", "Success"}
Results == {"finding", "observation", "error"}

\* The items with a number of M.n, of which a rule index points where M.rules says.
Items(M) == {i \in [is : Kinds, on : Nat, id : STRING \cup {"", "collector"}, n : M.n] :
               i.is = "rule index" => <<i.id, i.n>> \in M.rules}

\* What may be said of the target of a report.
About(r, M) ==
  {i \in Items(M) :
     /\ i.on = r.target /\ i.is # "successful"
     /\ i.is = "PASS" => r.findings = <<>> /\ r.errors = <<>>
     /\ i.is = "Success" => r.errors = <<>>
     /\ i.is = "Completed" => ~CollectorFailed(r)
     /\ i.is = "finding" => \E j \in DOMAIN r.findings : i.n = r.findings[j].severity
     /\ i.is = "error" => \E j \in DOMAIN r.errors : i.id = r.errors[j]}

\* Every finding and every error of a report is among the items.
Complete(r, items) ==
  /\ \A j \in DOMAIN r.findings :
       Item("finding", r.target, r.findings[j].id, r.findings[j].severity) \in items
  /\ \A j \in DOMAIN r.errors : Item("error", r.target, r.errors[j], 0) \in items

\* What Counts adds up is of no concern here.
Counted(on, rs, M) == \A k \in 1..3 : Counts(on, rs)[k].n \in M.n

\* The rules are among the items.
RulesIn(M, items) == \A p \in M.rules : Item("rule", Fleet, p[1], p[2]) \in items

\* A sequence of items about a report, with which of its findings and errors it has.
Pieces(r, M) == Seq(About(r, M))

\* What the numbers of a report are told with, the items with none of it, and those of a
\* finding or an observation.
Loud == {"finding", "line", "omitted"}
Soft(S) == {i \in S : i.is \notin Loud}
Named(S, id) == {i \in S : i.id = id /\ i.is # "omitted"}

\* The heading, the verdict and the errors of a report say what is so of it.
LEMMA SmallPieces ==
  ASSUME NEW M, Nat \subseteq M.n, NEW r \in Report
  PROVE  /\ Heading(r) \in Seq(Soft(About(r, M))) /\ Heading(r) \in Pieces(r, M)
         /\ PassOrNot(r) \in Seq(Soft(About(r, M))) /\ PassOrNot(r) \in Pieces(r, M)
         /\ Errors(r) \in Seq(Soft(About(r, M))) /\ Errors(r) \in Pieces(r, M)
         /\ Range(Errors(r)) = {Item("error", r.target, r.errors[j], 0) : j \in DOMAIN r.errors}
<1> DEFINE S == Soft(About(r, M))
<1>1. r.target \in Nat /\ 0 \in M.n /\ r.errors \in Seq({"collector"} \cup STRING)
  BY DEF Report
<1>2. /\ Item("target", r.target, "", 0) \in S /\ Item("pack", r.target, "", 0) \in S
      /\ Item("host", r.target, "", 0) \in S /\ Item("INCOMPLETE", r.target, "", 0) \in S
  BY <1>1 DEF About, Items, Kinds, Item, Soft, Loud
<1>3. ~Incomplete(r) /\ ~Flagged(r) => Item("PASS", r.target, "", 0) \in S
  BY <1>1 DEF About, Items, Kinds, Item, Incomplete, Flagged, Soft, Loud
<1>4. ASSUME NEW j \in DOMAIN r.errors PROVE Item("error", r.target, r.errors[j], 0) \in S
  <2>1. r.errors[j] \in STRING \cup {"collector"}
    BY <1>1
  <2> QED BY <1>1, <2>1 DEF About, Items, Kinds, Item, Soft, Loud
<1> HIDE DEF S
<1>5. Heading(r) \in Seq(S)
  <2> DEFINE a == Item("target", r.target, "", 0)
             b == Item("pack", r.target, "", 0)
             c == Item("host", r.target, "", 0)
  <2>1. Heading(r) = <<a>> \o When(r.packed, <<b>>) \o When(r.host, <<c>>)
    BY DEF Heading
  <2>2. a \in S /\ b \in S /\ c \in S
    BY <1>2
  <2> HIDE DEF a, b, c
  <2>3. <<a>> \in Seq(S) /\ When(r.packed, <<b>>) \in Seq(S) /\ When(r.host, <<c>>) \in Seq(S)
    BY <2>2 DEF When
  <2> DEFINE p == When(r.packed, <<b>>)
             h == When(r.host, <<c>>)
  <2>4. Heading(r) = (<<a>> \o p) \o h /\ p \in Seq(S) /\ h \in Seq(S)
    BY <2>1, <2>3
  <2> HIDE DEF p, h
  <2> QED BY <2>3, <2>4
<1>6. PassOrNot(r) \in Seq(S)
  <2> DEFINE a == Item("INCOMPLETE", r.target, "", 0)
             b == Item("PASS", r.target, "", 0)
  <2>1. PassOrNot(r) = IF Incomplete(r) THEN <<a>> ELSE When(~Flagged(r), <<b>>)
    BY DEF PassOrNot
  <2>2. a \in S /\ (~Incomplete(r) /\ ~Flagged(r) => b \in S)
    BY <1>2, <1>3
  <2> HIDE DEF a, b
  <2> QED BY <2>1, <2>2 DEF When
<1>7. Errors(r) \in Seq(S)
  BY <1>1, <1>4 DEF Errors
<1>8. Range(Errors(r)) = {Item("error", r.target, r.errors[j], 0) : j \in DOMAIN r.errors}
  BY DEF Errors, Range
<1>9. \A s \in Seq(S) : s \in Seq(Soft(About(r, M))) /\ s \in Pieces(r, M)
  BY SeqMono DEF S, Soft, Pieces
<1> QED BY <1>5, <1>6, <1>7, <1>8, <1>9

\* ... and so does what is said of a finding, its severity included,
LEMMA FindingPieces ==
  ASSUME NEW M, Nat \subseteq M.n, NEW r \in Report, NEW j \in DOMAIN r.findings
  PROVE  LET f == r.findings[j]
             S == Named(About(r, M), f.id)
         IN /\ FindingItem(r, f) \in Seq(S) /\ FindingItem(r, f) \in Pieces(r, M)
            /\ Item("finding", r.target, f.id, f.severity) \in Range(FindingItem(r, f))
            /\ Lines(r, f) \in Seq(S) /\ Lines(r, f) \in Pieces(r, M)
            /\ \A n \in Nat : Preview(r, f, n) \in Seq(S) /\ Preview(r, f, n) \in Pieces(r, M)
<1> DEFINE S == Named(About(r, M), r.findings[j].id)
           f == r.findings[j]
<1>1. r.target \in Nat /\ 0 \in M.n /\ 1 \in M.n /\ f \in Finding /\ r.findings \in Seq(Finding)
  BY DEF Report
<1>2. f.id \in STRING /\ f.severity \in 1..5 /\ f.lines \in Nat
      /\ f.lines \in M.n /\ f.severity \in M.n
  BY <1>1 DEF Finding
<1>3. Item("finding", r.target, f.id, f.severity) \in S /\ Item("cut", r.target, f.id, 0) \in S
  BY <1>1, <1>2 DEF About, Items, Kinds, Item, Named
<1>4. \A n \in M.n : Item("line", r.target, f.id, n) \in S
  BY <1>1, <1>2 DEF About, Items, Kinds, Item, Named
<1>5. \A n \in Nat : f.lines > n => f.lines - n \in M.n
  BY <1>2
<1>6. \A n \in Nat : \A x : x \in S => Times(Least(f.lines, n), x) \in Seq(S)
  <2>1. \A n \in Nat : Least(f.lines, n) \in Nat
    BY <1>2 DEF Least
  <2> HIDE DEF S, f
  <2>2. \A n \in Nat, x \in S : Times(n, x) \in Seq(S)
    BY DEF Times
  <2> QED BY <2>1, <2>2
<1> HIDE DEF S, f
<1>7. FindingItem(r, f) \in Seq(S)
  BY <1>3 DEF FindingItem, When
<1>8. Item("finding", r.target, f.id, f.severity) \in Range(FindingItem(r, f))
  <2> DEFINE a == <<Item("finding", r.target, f.id, f.severity)>>
             b == When(f.cut, <<Item("cut", r.target, f.id, 0)>>)
  <2>1. a \in Seq(S) /\ b \in Seq(S)
    BY <1>3 DEF When
  <2>2. Item("finding", r.target, f.id, f.severity) \in Range(a)
    BY DEF Range
  <2>3. FindingItem(r, f) = a \o b
    BY DEF FindingItem
  <2> HIDE DEF a, b
  <2> QED BY <2>1, <2>2, <2>3, ConcatRange
<1>9. Lines(r, f) \in Seq(S)
  BY <1>2, <1>4 DEF Lines
<1>10. ASSUME NEW n \in Nat PROVE Preview(r, f, n) \in Seq(S)
  <2>1. Times(Least(f.lines, n), Item("line", r.target, f.id, 1)) \in Seq(S)
    BY <1>1, <1>4, <1>6
  <2>2. When(f.lines > n, <<Item("line", r.target, f.id, f.lines - n)>>) \in Seq(S)
    BY <1>4, <1>5 DEF When
  <2> QED BY <2>1, <2>2 DEF Preview
<1>11. \A s \in Seq(S) : s \in Pieces(r, M)
  BY SeqMono DEF S, Named, Pieces
<1> QED BY <1>7, <1>8, <1>9, <1>10, <1>11 DEF S, f

\* ... what is said of an observation,
LEMMA ObservationPieces ==
  ASSUME NEW M, Nat \subseteq M.n, NEW r \in Report, NEW j \in DOMAIN r.observations
  PROVE  LET o == r.observations[j]
             S == Named(About(r, M), o.id)
         IN /\ ObservationItem(r, o) \in Seq(S) /\ ObservationItem(r, o) \in Pieces(r, M)
            /\ Lines(r, o) \in Seq(S) /\ Lines(r, o) \in Pieces(r, M)
            /\ \A n \in Nat : Preview(r, o, n) \in Seq(S) /\ Preview(r, o, n) \in Pieces(r, M)
<1> DEFINE S == Named(About(r, M), r.observations[j].id)
           o == r.observations[j]
<1>1. r.target \in Nat /\ 0 \in M.n /\ 1 \in M.n /\ o \in Observation
  BY DEF Report
<1>2. o.id \in STRING /\ o.limits \in Nat /\ o.lines \in Nat /\ o.lines \in M.n
  BY <1>1 DEF Observation
<1>3. \A is \in {"observation", "partial", "truncated", "limit", "cut"} :
        Item(is, r.target, o.id, 0) \in S
  BY <1>1, <1>2 DEF About, Items, Kinds, Item, Named
<1>4. \A n \in M.n : Item("line", r.target, o.id, n) \in S
  BY <1>1, <1>2 DEF About, Items, Kinds, Item, Named
<1>5. \A n \in Nat : o.lines > n => o.lines - n \in M.n
  BY <1>2
<1>6. \A n \in Nat : \A x : x \in S => Times(Least(o.lines, n), x) \in Seq(S)
  <2>1. \A n \in Nat : Least(o.lines, n) \in Nat
    BY <1>2 DEF Least
  <2> HIDE DEF S, o
  <2>2. \A n \in Nat, x \in S : Times(n, x) \in Seq(S)
    BY DEF Times
  <2> QED BY <2>1, <2>2
<1> HIDE DEF S, o
<1>7. ObservationItem(r, o) \in Seq(S)
  <2>1. Times(o.limits, Item("limit", r.target, o.id, 0)) \in Seq(S)
    BY <1>2, <1>3 DEF Times
  <2>2. /\ <<Item("observation", r.target, o.id, 0)>> \in Seq(S)
        /\ When(o.partial, <<Item("partial", r.target, o.id, 0)>>) \in Seq(S)
        /\ When(o.cut \/ o.limits > 0, <<Item("truncated", r.target, o.id, 0)>>) \in Seq(S)
        /\ When(o.cut, <<Item("cut", r.target, o.id, 0)>>) \in Seq(S)
    BY <1>3 DEF When
  <2> QED BY <2>1, <2>2 DEF ObservationItem
<1>8. Lines(r, o) \in Seq(S)
  BY <1>2, <1>4 DEF Lines
<1>9. ASSUME NEW n \in Nat PROVE Preview(r, o, n) \in Seq(S)
  <2>1. Times(Least(o.lines, n), Item("line", r.target, o.id, 1)) \in Seq(S)
    BY <1>1, <1>4, <1>6
  <2>2. When(o.lines > n, <<Item("line", r.target, o.id, o.lines - n)>>) \in Seq(S)
    BY <1>4, <1>5 DEF When
  <2> QED BY <2>1, <2>2 DEF Preview
<1>10. \A s \in Seq(S) : s \in Pieces(r, M)
  BY SeqMono DEF S, Named, Pieces
<1> QED BY <1>7, <1>8, <1>9, <1>10 DEF S, o

\* The elements of a sequence of three.
LEMMA Triple ==
  ASSUME NEW x, NEW y, NEW z
  PROVE  /\ <<x, y, z>>[1] = x /\ <<x, y, z>>[2] = y /\ <<x, y, z>>[3] = z
         /\ \A S : x \in S /\ y \in S /\ z \in S => <<x, y, z>> \in Seq(S)
OBVIOUS

\* ... and the counts.
LEMMA CountPieces ==
  ASSUME NEW M, Nat \subseteq M.n, NEW r \in Report, Counted(r.target, <<r>>, M)
  PROVE  Counts(r.target, <<r>>) \in Seq(Soft(About(r, M)))
         /\ Counts(r.target, <<r>>) \in Pieces(r, M)
<1> DEFINE S == Soft(About(r, M))
           A(n) == Item("findings", r.target, "", n)
           B(n) == Item("observations", r.target, "", n)
           C(n) == Item("errors", r.target, "", n)
<1>1. r.target \in Nat
  BY DEF Report
<1>2. \A n \in M.n : /\ Item("findings", r.target, "", n) \in S
                   /\ Item("observations", r.target, "", n) \in S
                   /\ Item("errors", r.target, "", n) \in S
  BY <1>1 DEF About, Items, Kinds, Item, Soft, Loud
<1>3. \E a, b, c : Counts(r.target, <<r>>) = <<A(a), B(b), C(c)>>
  BY DEF Counts
<1>4. \A n \in M.n : A(n) \in S /\ B(n) \in S /\ C(n) \in S
  BY <1>2
<1>5. \A n : A(n).n = n /\ B(n).n = n /\ C(n).n = n
  BY DEF Item
<1> HIDE DEF S, A, B, C
<1>6. PICK a, b, c : Counts(r.target, <<r>>) = <<A(a), B(b), C(c)>>
  BY <1>3
<1>7. A(a).n \in M.n /\ B(b).n \in M.n /\ C(c).n \in M.n
  BY <1>6, Triple DEF Counted
<1>8. A(a) \in S /\ B(b) \in S /\ C(c) \in S
  BY <1>4, <1>5, <1>7
<1>9. <<A(a), B(b), C(c)>> \in Seq(S)
  BY <1>8, Triple
<1>10. \A s \in Seq(S) : s \in Seq(Soft(About(r, M))) /\ s \in Pieces(r, M)
  BY SeqMono DEF S, Soft, Pieces
<1> QED BY <1>6, <1>9, <1>10

\* The pieces about the findings, joined, have every finding.
LEMMA FindingSection ==
  ASSUME NEW M, NEW r \in Report, NEW G \in [DOMAIN r.findings -> Pieces(r, M)],
         \A j \in DOMAIN r.findings :
           Item("finding", r.target, r.findings[j].id, r.findings[j].severity) \in Range(G[j])
  PROVE  /\ FlattenSeq(G) \in Pieces(r, M)
         /\ \A j \in DOMAIN r.findings :
              Item("finding", r.target, r.findings[j].id, r.findings[j].severity)
                \in Range(FlattenSeq(G))
<1>1. r.findings \in Seq(Finding)
  BY DEF Report
<1> QED BY <1>1, EachPiece DEF Pieces

\* The pieces about the observations, joined, say nothing but what is so.
LEMMA ObservationSection ==
  ASSUME NEW M, NEW r \in Report, NEW G \in [DOMAIN r.observations -> Pieces(r, M)]
  PROVE  FlattenSeq(G) \in Pieces(r, M)
<1>1. r.observations \in Seq(Observation)
  BY DEF Report
<1> QED BY <1>1, EachPiece DEF Pieces

\* Two pieces about a report are one.
LEMMA Joined ==
  ASSUME NEW M, NEW r, NEW s \in Pieces(r, M), NEW t \in Pieces(r, M)
  PROVE  s \o t \in Pieces(r, M) /\ Range(s \o t) = Range(s) \cup Range(t)
BY ConcatRange DEF Pieces

\* Parts has every finding and every error.
LEMMA PartsPieces ==
  ASSUME NEW M, Nat \subseteq M.n, NEW r \in Report
  PROVE  Parts(r) \in Pieces(r, M) /\ Complete(r, Range(Parts(r)))
<1> DEFINE G == [k \in DOMAIN r.findings |->
                   FindingItem(r, r.findings[k]) \o Lines(r, r.findings[k])]
           H == [k \in DOMAIN r.observations |->
                   ObservationItem(r, r.observations[k]) \o Lines(r, r.observations[k])]
<1>1. Parts(r) = FlattenSeq(G) \o FlattenSeq(H) \o Errors(r)
  BY DEF Parts, ForEach
<1>2. ASSUME NEW j \in DOMAIN r.findings
      PROVE  /\ G[j] \in Pieces(r, M)
             /\ Item("finding", r.target, r.findings[j].id, r.findings[j].severity) \in Range(G[j])
  <2> DEFINE f == r.findings[j]
             x == Item("finding", r.target, f.id, f.severity)
  <2>1. /\ FindingItem(r, f) \in Pieces(r, M) /\ Lines(r, f) \in Pieces(r, M)
        /\ x \in Range(FindingItem(r, f))
    BY FindingPieces
  <2>2. G[j] = FindingItem(r, f) \o Lines(r, f)
    OBVIOUS
  <2> HIDE DEF x, f, G
  <2>3. G[j] \in Pieces(r, M) /\ x \in Range(G[j])
    BY <2>1, <2>2, Joined
  <2> QED BY <2>3 DEF x, f
<1>3. \A j \in DOMAIN r.observations : H[j] \in Pieces(r, M)
  BY ObservationPieces, ConcatRange DEF Pieces
<1>4. G \in [DOMAIN r.findings -> Pieces(r, M)] /\ H \in [DOMAIN r.observations -> Pieces(r, M)]
  BY <1>2, <1>3
<1> HIDE DEF G, H
<1> DEFINE g == FlattenSeq(G)
           h == FlattenSeq(H)
<1>5. /\ g \in Pieces(r, M) /\ h \in Pieces(r, M)
      /\ \A j \in DOMAIN r.findings :
           Item("finding", r.target, r.findings[j].id, r.findings[j].severity) \in Range(g)
  BY <1>2, <1>4, FindingSection, ObservationSection
<1> HIDE DEF g, h
<1>6. /\ (g \o h) \in Pieces(r, M) /\ Range(g \o h) = Range(g) \cup Range(h)
      /\ (g \o h) \o Errors(r) \in Pieces(r, M)
      /\ Range((g \o h) \o Errors(r)) = Range(g \o h) \cup Range(Errors(r))
  <2>1. (g \o h) \in Pieces(r, M) /\ Range(g \o h) = Range(g) \cup Range(h)
    BY <1>5, Joined
  <2>2. Errors(r) \in Pieces(r, M)
    BY SmallPieces
  <2> QED BY <2>1, <2>2, Joined
<1>7. Parts(r) = (g \o h) \o Errors(r)
  BY <1>1 DEF g, h
<1> QED BY <1>5, <1>6, <1>7, SmallPieces DEF Complete

\* INCOMPLETE is said, and no result before it.
Warns(s) == \E i \in DOMAIN s : s[i].is = "INCOMPLETE" /\ \A j \in 1..i-1 : s[j].is \notin Results
Quiet(S) == {i \in S : i.is \notin Results \cup Loud}

\* A sequence with no results that ends in INCOMPLETE warns,
LEMMA WarnsFirst ==
  ASSUME NEW S, NEW s \in Seq(Quiet(S)), NEW x \in S, x.is = "INCOMPLETE"
  PROVE  Warns(s \o <<x>>)
<1>1. /\ Len(s) \in Nat /\ <<x>> \in Seq(S) /\ s \in Seq(S) /\ DOMAIN s = 1..Len(s)
      /\ \A k \in 1..Len(s) : s[k] \in Quiet(S)
  BY DEF Quiet
<1>2. /\ DOMAIN (s \o <<x>>) = 1..(Len(s) + 1) /\ (s \o <<x>>)[Len(s) + 1] = x
      /\ \A k \in 1..Len(s) : (s \o <<x>>)[k] = s[k]
  BY <1>1
<1>3. Len(s) + 1 \in DOMAIN (s \o <<x>>) /\ (Len(s) + 1) - 1 = Len(s)
  BY <1>1, <1>2
<1>4. \A j \in 1..(Len(s) + 1) - 1 : (s \o <<x>>)[j].is \notin Results
  BY <1>1, <1>2, <1>3 DEF Quiet
<1> QED BY <1>2, <1>3, <1>4 DEF Warns

\* ... and it still does with more behind it.
LEMMA WarnsMore ==
  ASSUME NEW S, NEW s \in Seq(S), NEW t \in Seq(S), Warns(s)
  PROVE  Warns(s \o t)
<1>1. /\ DOMAIN s = 1..Len(s) /\ Len(s) \in Nat /\ Len(t) \in Nat
      /\ DOMAIN (s \o t) = 1..(Len(s) + Len(t))
      /\ \A k \in 1..Len(s) : (s \o t)[k] = s[k]
  OBVIOUS
<1>2. PICK i \in DOMAIN s : s[i].is = "INCOMPLETE" /\ \A j \in 1..i-1 : s[j].is \notin Results
  BY DEF Warns
<1>3. i \in DOMAIN (s \o t) /\ \A j \in 1..i-1 : j \in 1..Len(s)
  BY <1>1
<1> QED BY <1>1, <1>2, <1>3 DEF Warns

\* A report with errors is headed INCOMPLETE.
LEMMA HeadingWarns ==
  ASSUME NEW M, Nat \subseteq M.n, NEW r \in Report, Incomplete(r)
  PROVE  Warns(Heading(r) \o PassOrNot(r))
<1> DEFINE S == About(r, M)
           a == Item("target", r.target, "", 0)
           b == Item("pack", r.target, "", 0)
           c == Item("host", r.target, "", 0)
           x == Item("INCOMPLETE", r.target, "", 0)
<1>1. r.target \in Nat /\ 0 \in M.n
  BY DEF Report
<1>2. a \in S /\ b \in S /\ c \in S /\ x \in S
  BY <1>1 DEF About, Items, Kinds, Item
<1>3. /\ a.is \notin Results \cup Loud /\ b.is \notin Results \cup Loud
      /\ c.is \notin Results \cup Loud /\ x.is = "INCOMPLETE"
  BY DEF Item, Results, Loud
<1>4. Heading(r) = <<a>> \o When(r.packed, <<b>>) \o When(r.host, <<c>>) /\ PassOrNot(r) = <<x>>
  BY DEF Heading, PassOrNot
<1> HIDE DEF S, a, b, c, x
<1>5. a \in Quiet(S) /\ b \in Quiet(S) /\ c \in Quiet(S)
  BY <1>2, <1>3 DEF Quiet
<1> DEFINE p == When(r.packed, <<b>>)
           h == When(r.host, <<c>>)
           Q == Quiet(S)
<1> HIDE DEF Q
<1>6. <<a>> \in Seq(Q) /\ p \in Seq(Q) /\ h \in Seq(Q)
  BY <1>5 DEF When, Q
<1> HIDE DEF p, h
<1>7. (<<a>> \o p) \o h \in Seq(Q)
  BY <1>6
<1>8. Heading(r) = (<<a>> \o p) \o h
  BY <1>4 DEF p, h
<1>9. Heading(r) \in Seq(Q)
  BY <1>7, <1>8
<1> QED BY <1>2, <1>3, <1>4, <1>9, WarnsFirst DEF Q

\* Adding a piece keeps what is complete complete, and a warning first.
LEMMA Adding ==
  ASSUME NEW M, NEW r, NEW s \in Pieces(r, M), NEW t \in Pieces(r, M)
  PROVE  /\ s \o t \in Pieces(r, M)
         /\ Complete(r, Range(s)) \/ Complete(r, Range(t)) => Complete(r, Range(s \o t))
         /\ Warns(s) => Warns(s \o t)
<1>1. s \o t \in Pieces(r, M) /\ Range(s \o t) = Range(s) \cup Range(t)
  BY Joined
<1> QED BY <1>1, WarnsMore DEF Complete, Pieces

\* What human output says of a report is so, complete, and warns first.
LEMMA HumanPieces ==
  ASSUME NEW M, Nat \subseteq M.n, NEW r \in Report, Counted(r.target, <<r>>, M)
  PROVE  /\ HumanReport(r) \in Pieces(r, M) /\ Complete(r, Range(HumanReport(r)))
         /\ Incomplete(r) => Warns(HumanReport(r))
<1> DEFINE G == [k \in DOMAIN r.findings |->
                   FindingItem(r, r.findings[k]) \o Preview(r, r.findings[k], HumanPreview)]
           H == [k \in DOMAIN r.observations |->
                   ObservationItem(r, r.observations[k])
                     \o Preview(r, r.observations[k], HumanData)]
           g == FlattenSeq(G)
           h == FlattenSeq(H)
           top == Heading(r) \o PassOrNot(r)
<1>1. HumanPreview \in Nat /\ HumanData \in Nat
  BY DEF HumanPreview, HumanData
<1>2. HumanReport(r) = top \o g \o h \o Errors(r) \o Counts(r.target, <<r>>)
  BY DEF HumanReport, ForEach
<1>3. ASSUME NEW j \in DOMAIN r.findings
      PROVE  /\ G[j] \in Pieces(r, M)
             /\ Item("finding", r.target, r.findings[j].id, r.findings[j].severity) \in Range(G[j])
  <2> DEFINE f == r.findings[j]
             x == Item("finding", r.target, f.id, f.severity)
  <2>1. /\ FindingItem(r, f) \in Pieces(r, M) /\ x \in Range(FindingItem(r, f))
        /\ Preview(r, f, HumanPreview) \in Pieces(r, M)
    BY <1>1, FindingPieces
  <2>2. G[j] = FindingItem(r, f) \o Preview(r, f, HumanPreview)
    OBVIOUS
  <2> HIDE DEF x, f, G
  <2>3. G[j] \in Pieces(r, M) /\ x \in Range(G[j])
    BY <2>1, <2>2, Joined
  <2> QED BY <2>3 DEF x, f
<1>4. \A j \in DOMAIN r.observations : H[j] \in Pieces(r, M)
  BY <1>1, ObservationPieces, Joined
<1>5. G \in [DOMAIN r.findings -> Pieces(r, M)] /\ H \in [DOMAIN r.observations -> Pieces(r, M)]
  BY <1>3, <1>4
<1> HIDE DEF G, H
<1>6. /\ g \in Pieces(r, M) /\ h \in Pieces(r, M)
      /\ \A j \in DOMAIN r.findings :
           Item("finding", r.target, r.findings[j].id, r.findings[j].severity) \in Range(g)
  BY <1>3, <1>5, FindingSection, ObservationSection
<1>7. top \in Pieces(r, M) /\ (Incomplete(r) => Warns(top))
  BY SmallPieces, Joined, HeadingWarns
<1>8. Errors(r) \in Pieces(r, M) /\ Counts(r.target, <<r>>) \in Pieces(r, M)
  BY SmallPieces, CountPieces
<1> HIDE DEF g, h, top
<1> DEFINE s1 == top \o g
           s2 == s1 \o h
           s3 == s2 \o Errors(r)
           s4 == s3 \o Counts(r.target, <<r>>)
<1>9. s1 \in Pieces(r, M) /\ Range(g) \subseteq Range(s1) /\ (Incomplete(r) => Warns(s1))
  BY <1>6, <1>7, Joined, Adding
<1> HIDE DEF s1
<1>10. s2 \in Pieces(r, M) /\ Range(g) \subseteq Range(s2) /\ (Incomplete(r) => Warns(s2))
  BY <1>6, <1>9, Joined, Adding
<1> HIDE DEF s2
<1>11. /\ s3 \in Pieces(r, M) /\ Range(g) \subseteq Range(s3)
       /\ Range(Errors(r)) \subseteq Range(s3)
       /\ Incomplete(r) => Warns(s3)
  BY <1>8, <1>10, Joined, Adding
<1>12. Complete(r, Range(s3))
  BY <1>6, <1>11, SmallPieces DEF Complete
<1> HIDE DEF s3
<1>13. s4 \in Pieces(r, M) /\ Complete(r, Range(s4)) /\ (Incomplete(r) => Warns(s4))
  BY <1>8, <1>11, <1>12, Adding
<1>14. HumanReport(r) = s4
  BY <1>2 DEF s1, s2, s3
<1> QED BY <1>13, <1>14

\* So it is with HTML,
LEMMA HtmlPieces ==
  ASSUME NEW M, Nat \subseteq M.n, NEW r \in Report, Counted(r.target, <<r>>, M)
  PROVE  /\ HtmlTarget(r) \in Pieces(r, M) /\ Complete(r, Range(HtmlTarget(r)))
         /\ Incomplete(r) => Warns(HtmlTarget(r))
<1> DEFINE top == Heading(r) \o PassOrNot(r)
           s1 == top \o Parts(r)
           s2 == s1 \o Counts(r.target, <<r>>)
<1>1. HtmlTarget(r) = s2
  BY DEF HtmlTarget
<1>2. top \in Pieces(r, M) /\ (Incomplete(r) => Warns(top))
  BY SmallPieces, Joined, HeadingWarns
<1> HIDE DEF top
<1>3. s1 \in Pieces(r, M) /\ Complete(r, Range(s1)) /\ (Incomplete(r) => Warns(s1))
  BY <1>2, PartsPieces, Adding
<1> HIDE DEF s1
<1>4. s2 \in Pieces(r, M) /\ Complete(r, Range(s2)) /\ (Incomplete(r) => Warns(s2))
  BY <1>3, CountPieces, Adding
<1> QED BY <1>1, <1>4

\* ... with the headers of the viewer, which do not list the findings,
LEMMA TuiPieces ==
  ASSUME NEW M, Nat \subseteq M.n, NEW r \in Report, Counted(r.target, <<r>>, M)
  PROVE  LET s == Heading(r) \o PassOrNot(r) \o Counts(r.target, <<r>>) IN
         s \in Pieces(r, M) /\ (Incomplete(r) => Warns(s))
<1> DEFINE top == Heading(r) \o PassOrNot(r)
<1>1. top \in Pieces(r, M) /\ (Incomplete(r) => Warns(top))
  BY SmallPieces, Joined, HeadingWarns
<1> HIDE DEF top
<1>2. top \o Counts(r.target, <<r>>) \in Pieces(r, M)
      /\ (Incomplete(r) => Warns(top \o Counts(r.target, <<r>>)))
  BY <1>1, CountPieces, Adding
<1> QED BY <1>2 DEF top

\* ... and with JSON, which has no verdict to begin with.
LEMMA JsonPieces ==
  ASSUME NEW M, Nat \subseteq M.n, NEW r \in Report
  PROVE  LET s == Heading(r) \o Parts(r) IN s \in Pieces(r, M) /\ Complete(r, Range(s))
<1>1. Heading(r) \in Pieces(r, M)
  BY SmallPieces
<1> QED BY <1>1, PartsPieces, Adding

\* The part of a report that an OCSF Scan Activity shows.
LEMMA WithoutFindings ==
  ASSUME NEW M, Nat \subseteq M.n, NEW r \in Report
  PROVE  LET s == Parts([r EXCEPT !.findings = <<>>]) IN
         s \in Pieces(r, M) /\ Range(Errors(r)) \subseteq Range(s)
<1> DEFINE q == [r EXCEPT !.findings = <<>>]
           G == [k \in DOMAIN q.findings |->
                   FindingItem(q, q.findings[k]) \o Lines(q, q.findings[k])]
           H == [k \in DOMAIN q.observations |->
                   ObservationItem(q, q.observations[k]) \o Lines(q, q.observations[k])]
           g == FlattenSeq(G)
           h == FlattenSeq(H)
<1>1. Parts(q) = g \o h \o Errors(q)
  BY DEF Parts, ForEach
<1>2. /\ q.findings = <<>> /\ q.observations = r.observations /\ q.errors = r.errors
      /\ q.target = r.target
  BY DEF Report
<1>3. Errors(q) = Errors(r)
  BY <1>2 DEF Errors
<1>4. \A o : ObservationItem(q, o) = ObservationItem(r, o) /\ Lines(q, o) = Lines(r, o)
  BY <1>2 DEF ObservationItem, Lines
<1>5. G \in [DOMAIN <<>> -> Seq(About(r, M))]
  BY <1>2
<1> HIDE DEF q, G
<1>6. g \in Pieces(r, M)
  <2>1. <<>> \in Seq(Report)
    OBVIOUS
  <2> QED BY <1>5, <2>1, EachPiece DEF Pieces
<1>7. \A j \in DOMAIN r.observations : H[j] \in Pieces(r, M)
  BY <1>2, <1>4, ObservationPieces, Joined
<1>8. H \in [DOMAIN r.observations -> Pieces(r, M)]
  BY <1>2, <1>7
<1> HIDE DEF H
<1>9. h \in Pieces(r, M)
  BY <1>8, ObservationSection
<1> HIDE DEF g, h
<1>10. g \o h \in Pieces(r, M)
  BY <1>6, <1>9, Joined
<1>11. (g \o h) \o Errors(r) \in Pieces(r, M)
       /\ Range(Errors(r)) \subseteq Range((g \o h) \o Errors(r))
  BY <1>10, SmallPieces, Joined
<1>12. Parts(q) = (g \o h) \o Errors(r)
  BY <1>1, <1>3
<1> QED BY <1>11, <1>12 DEF q

\* The detections of a report, each followed by what W says of it.
LEMMA DetectionPieces ==
  ASSUME NEW M, Nat \subseteq M.n, NEW r \in Report, NEW W \in [DOMAIN r.findings -> Pieces(r, M)]
  PROVE  LET s == FlattenSeq([k \in DOMAIN r.findings |->
                    FindingItem(r, r.findings[k]) \o Lines(r, r.findings[k]) \o W[k]])
         IN /\ s \in Pieces(r, M)
            /\ \A j \in DOMAIN r.findings :
                 Item("finding", r.target, r.findings[j].id, r.findings[j].severity) \in Range(s)
<1> DEFINE G == [k \in DOMAIN r.findings |->
                   FindingItem(r, r.findings[k]) \o Lines(r, r.findings[k]) \o W[k]]
<1>1. ASSUME NEW j \in DOMAIN r.findings
      PROVE  /\ G[j] \in Pieces(r, M)
             /\ Item("finding", r.target, r.findings[j].id, r.findings[j].severity) \in Range(G[j])
  <2> DEFINE f == r.findings[j]
             x == Item("finding", r.target, f.id, f.severity)
             a == FindingItem(r, f) \o Lines(r, f)
  <2>1. /\ FindingItem(r, f) \in Pieces(r, M) /\ x \in Range(FindingItem(r, f))
        /\ Lines(r, f) \in Pieces(r, M)
    BY FindingPieces
  <2>2. G[j] = a \o W[j] /\ W[j] \in Pieces(r, M)
    OBVIOUS
  <2> HIDE DEF x, f, G
  <2>3. a \in Pieces(r, M) /\ x \in Range(a)
    BY <2>1, Joined
  <2> HIDE DEF a
  <2>4. G[j] \in Pieces(r, M) /\ x \in Range(G[j])
    BY <2>2, <2>3, Joined
  <2> QED BY <2>4 DEF x, f
<1>2. G \in [DOMAIN r.findings -> Pieces(r, M)]
  BY <1>1
<1> HIDE DEF G
<1>3. LET s == FlattenSeq(G) IN
      /\ s \in Pieces(r, M)
      /\ \A j \in DOMAIN r.findings :
           Item("finding", r.target, r.findings[j].id, r.findings[j].severity) \in Range(s)
  BY <1>1, <1>2, FindingSection
<1> QED BY <1>3 DEF G

\* A Scan Activity has every error, and claims success only where there is none.
LEMMA ActivityPieces ==
  ASSUME NEW M, Nat \subseteq M.n, NEW r \in Report
  PROVE  ScanActivity(r) \in Pieces(r, M) /\ Range(Errors(r)) \subseteq Range(ScanActivity(r))
<1> DEFINE S == About(r, M)
           a == Item("Completed", r.target, "", 0)
           b == Item("Success", r.target, "", 0)
           c == Item("findings", r.target, "", Len(r.findings))
           d == Item("pack", r.target, "", 0)
           t == Parts([r EXCEPT !.findings = <<>>])
<1>1. r.target \in Nat /\ 0 \in M.n /\ Len(r.findings) \in M.n
  BY DEF Report
<1>2. ScanActivity(r) = When(~CollectorFailed(r), <<a>>) \o When(~Incomplete(r), <<b>>) \o <<c>>
                          \o t \o When(r.packed, <<d>>)
  BY DEF ScanActivity
<1>3. c \in S /\ d \in S
  BY <1>1 DEF About, Items, Kinds, Item
<1>4. ~CollectorFailed(r) => a \in S
  BY <1>1 DEF About, Items, Kinds, Item
<1>5. ~Incomplete(r) => b \in S
  BY <1>1 DEF About, Items, Kinds, Item, Incomplete
<1>6. t \in Pieces(r, M) /\ Range(Errors(r)) \subseteq Range(t)
  BY WithoutFindings
<1> HIDE DEF S, a, b, c, d, t
<1>7. When(~CollectorFailed(r), <<a>>) \in Seq(S) /\ When(~Incomplete(r), <<b>>) \in Seq(S)
      /\ <<c>> \in Seq(S) /\ When(r.packed, <<d>>) \in Seq(S)
  <2>1. When(~CollectorFailed(r), <<a>>) \in Seq(S)
    BY <1>4 DEF When
  <2>2. When(~Incomplete(r), <<b>>) \in Seq(S)
    BY <1>5 DEF When
  <2> QED BY <1>3, <2>1, <2>2 DEF When
<1> DEFINE u == When(~CollectorFailed(r), <<a>>)
           v == When(~Incomplete(r), <<b>>)
           x == When(r.packed, <<d>>)
           y == (u \o v) \o <<c>>
<1>8. u \in Pieces(r, M) /\ v \in Pieces(r, M) /\ <<c>> \in Pieces(r, M) /\ x \in Pieces(r, M)
  BY <1>7 DEF Pieces, S
<1> HIDE DEF u, v, x
<1>9. y \in Pieces(r, M)
  BY <1>8, Joined
<1> HIDE DEF y
<1>10. (y \o t) \in Pieces(r, M) /\ Range(Errors(r)) \subseteq Range(y \o t)
  BY <1>6, <1>9, Joined
<1>11. ((y \o t) \o x) \in Pieces(r, M) /\ Range(Errors(r)) \subseteq Range((y \o t) \o x)
  BY <1>8, <1>10, Joined
<1>12. ScanActivity(r) = (y \o t) \o x
  BY <1>2 DEF y, u, v, x
<1> QED BY <1>11, <1>12

\* With its Detection Findings it is complete.
LEMMA OcsfPieces ==
  ASSUME NEW M, Nat \subseteq M.n, NEW r \in Report
  PROVE  LET s == ScanActivity(r) \o FlattenSeq([j \in DOMAIN r.findings |->
                                                   DetectionFinding(r, r.findings[j])])
         IN s \in Pieces(r, M) /\ Complete(r, Range(s))
<1> DEFINE G == [j \in DOMAIN r.findings |-> DetectionFinding(r, r.findings[j])]
           g == FlattenSeq(G)
<1>1. ASSUME NEW j \in DOMAIN r.findings
      PROVE  /\ G[j] \in Pieces(r, M)
             /\ Item("finding", r.target, r.findings[j].id, r.findings[j].severity) \in Range(G[j])
  <2> DEFINE f == r.findings[j]
             x == Item("finding", r.target, f.id, f.severity)
  <2>1. /\ FindingItem(r, f) \in Pieces(r, M) /\ Lines(r, f) \in Pieces(r, M)
        /\ x \in Range(FindingItem(r, f))
    BY FindingPieces
  <2>2. G[j] = FindingItem(r, f) \o Lines(r, f)
    BY DEF DetectionFinding
  <2> HIDE DEF x, f, G
  <2>3. G[j] \in Pieces(r, M) /\ x \in Range(G[j])
    BY <2>1, <2>2, Joined
  <2> QED BY <2>3 DEF x, f
<1>2. G \in [DOMAIN r.findings -> Pieces(r, M)]
  BY <1>1
<1> HIDE DEF G
<1>3. /\ g \in Pieces(r, M)
      /\ \A j \in DOMAIN r.findings :
           Item("finding", r.target, r.findings[j].id, r.findings[j].severity) \in Range(g)
  BY <1>1, <1>2, FindingSection
<1> HIDE DEF g
<1>4. /\ ScanActivity(r) \o g \in Pieces(r, M)
      /\ Range(ScanActivity(r) \o g) = Range(ScanActivity(r)) \cup Range(g)
  BY <1>3, ActivityPieces, Joined
<1>5. Complete(r, Range(ScanActivity(r) \o g))
  BY <1>3, <1>4, ActivityPieces, SmallPieces DEF Complete
<1> QED BY <1>4, <1>5 DEF g, G

-----------------------------------------------------------------------------
\* What may be said of the fleet, and in all.
Global(rs, M) ==
  {i \in Items(M) :
     /\ i.on = Fleet /\ i.is \notin Results \cup Loud \cup {"Success", "Completed"}
     /\ i.is = "PASS" => \A k \in DOMAIN rs : rs[k].findings = <<>> /\ rs[k].errors = <<>>
     /\ i.is = "successful" => \A k \in DOMAIN rs : rs[k].errors = <<>>}
Said(rs, M) == Global(rs, M) \cup UNION {About(rs[k], M) : k \in DOMAIN rs}

\* One sequence for each report, joined, says of the fleet what is so.
LEMMA EachReport ==
  ASSUME NEW M, NEW rs \in Seq(Report), NEW G, G = [k \in DOMAIN rs |-> G[k]],
         \A k \in DOMAIN rs : G[k] \in Pieces(rs[k], M)
  PROVE  /\ G \in Seq(Seq(Said(rs, M))) /\ FlattenSeq(G) \in Seq(Said(rs, M))
         /\ \A k \in DOMAIN rs : Range(G[k]) \subseteq Range(FlattenSeq(G))
<1>1. ASSUME NEW k \in DOMAIN rs PROVE G[k] \in Seq(Said(rs, M))
  <2>1. About(rs[k], M) \subseteq Said(rs, M)
    BY DEF Said
  <2> QED BY <2>1, SeqMono DEF Pieces
<1>2. G \in [DOMAIN rs -> Seq(Said(rs, M))]
  BY <1>1
<1>3. G \in Seq(Seq(Said(rs, M)))
  BY <1>2
<1> QED BY <1>2, <1>3, EachPiece

\* What is complete stays so with more items.
LEMMA CompleteFrom ==
  ASSUME NEW r, NEW S, NEW T, S \subseteq T, Complete(r, S)
  PROVE  Complete(r, T)
BY DEF Complete

\* INCOMPLETE is said of every target with errors, before any result of it.
Ordered(rs, D) ==
  \A k \in DOMAIN rs : Incomplete(rs[k]) =>
    \A j \in DOMAIN D : D[j].on = rs[k].target /\ D[j].is \in Results =>
      \E i \in 1..j-1 : D[i].on = rs[k].target /\ D[i].is = "INCOMPLETE"

\* No target has two reports, and none is called as the fleet is.
Distinct(rs) == \A j, k \in DOMAIN rs : rs[j].target # Fleet
                                        /\ (rs[j].target = rs[k].target => j = k)

\* Reports that warn first are ordered when they are joined: another target says
\* nothing of this one.
LEMMA OrderedReports ==
  ASSUME NEW M, NEW rs \in Seq(Report), Distinct(rs), NEW G, G = [k \in DOMAIN rs |-> G[k]],
         \A k \in DOMAIN rs : /\ G[k] \in Pieces(rs[k], M)
                              /\ Incomplete(rs[k]) => Warns(G[k])
  PROVE  Ordered(rs, FlattenSeq(G))
<1> DEFINE F == FlattenSeq(G)
           n == Len(rs)
<1>1. G \in Seq(Seq(Said(rs, M))) /\ F \in Seq(Said(rs, M))
  BY EachReport
<1>2. Len(G) = n /\ DOMAIN rs = 1..n /\ n \in Nat /\ DOMAIN F = 1..Len(F)
  BY <1>1
<1>3. PICK off : Lays(G, n, F, off)
  BY <1>1, <1>2, FlattenLays
<1> SUFFICES ASSUME NEW k \in 1..n, Incomplete(rs[k]), NEW j \in 1..Len(F),
                    F[j].on = rs[k].target, F[j].is \in Results
             PROVE  \E i \in 1..j-1 : F[i].on = rs[k].target /\ F[i].is = "INCOMPLETE"
  BY <1>2 DEF Ordered
<1>4. PICK q \in 1..n : \E p \in 1..Len(G[q]) : j = off[q] + p
  BY <1>3 DEF Lays
<1>5. PICK p \in 1..Len(G[q]) : j = off[q] + p
  BY <1>4
<1>6. \A x \in 1..n : \A y \in 1..Len(G[x]) :
        F[off[x] + y] = G[x][y] /\ G[x][y] \in About(rs[x], M)
  <2> SUFFICES ASSUME NEW x \in 1..n, NEW y \in 1..Len(G[x])
               PROVE  F[off[x] + y] = G[x][y] /\ G[x][y] \in About(rs[x], M)
    OBVIOUS
  <2>1. G[x] \in Seq(About(rs[x], M))
    BY <1>2 DEF Pieces
  <2>2. G[x][y] \in About(rs[x], M)
    BY <2>1
  <2> QED BY <1>3, <2>2 DEF Lays
<1>7. \A r, i : i \in About(r, M) => i.on = r.target
  BY DEF About
<1>8. \A x \in 1..n : \A y \in 1..Len(G[x]) : F[off[x] + y].on = rs[x].target
  BY <1>6, <1>7
<1>9. q = k
  <2>1. F[j].on = rs[q].target
    BY <1>5, <1>8
  <2> QED BY <1>2, <2>1 DEF Distinct
<1>10. PICK i \in DOMAIN G[k] : /\ G[k][i].is = "INCOMPLETE"
                               /\ \A y \in 1..i-1 : G[k][y].is \notin Results
  BY <1>2 DEF Warns
<1>11. i \in 1..Len(G[k]) /\ Len(G[k]) \in Nat /\ p \in 1..Len(G[k]) /\ off[k] \in Nat
  <2>1. G[k] \in Seq(About(rs[k], M))
    BY <1>2 DEF Pieces
  <2>2. off[k] \in Nat
    BY <1>2, <1>3 DEF Lays
  <2> QED BY <1>5, <1>9, <1>10, <2>1, <2>2
<1>12. G[k][p].is \in Results /\ G[k][i].is \notin Results
  BY <1>5, <1>6, <1>9, <1>10 DEF Results
<1>13. i < p
  <2>1. i # p /\ p \notin 1..i-1
    BY <1>10, <1>11, <1>12
  <2> QED BY <1>11, <2>1
<1>14. off[k] + i \in 1..j-1
  BY <1>5, <1>9, <1>11, <1>13
<1>15. F[off[k] + i].on = rs[k].target /\ F[off[k] + i].is = "INCOMPLETE"
  BY <1>6, <1>8, <1>10, <1>11
<1> QED BY <1>14, <1>15

\* A preamble without results leaves the order right.
LEMMA AfterQuiet ==
  ASSUME NEW S, NEW s \in Seq(Quiet(S)), NEW t \in Seq(S), NEW rs, Ordered(rs, t)
  PROVE  Ordered(rs, s \o t)
<1>1. /\ DOMAIN (s \o t) = 1..(Len(s) + Len(t)) /\ DOMAIN t = 1..Len(t)
      /\ Len(s) \in Nat /\ Len(t) \in Nat
      /\ \A k \in 1..Len(s) : (s \o t)[k] = s[k] /\ s[k].is \notin Results
      /\ \A k \in 1..Len(t) : (s \o t)[Len(s) + k] = t[k]
  BY DEF Quiet
<1> SUFFICES ASSUME NEW k \in DOMAIN rs, Incomplete(rs[k]), NEW j \in 1..(Len(s) + Len(t)),
                    (s \o t)[j].on = rs[k].target, (s \o t)[j].is \in Results
             PROVE  \E i \in 1..j-1 : /\ (s \o t)[i].on = rs[k].target
                                      /\ (s \o t)[i].is = "INCOMPLETE"
  BY <1>1 DEF Ordered
<1>2. j \notin 1..Len(s)
  BY <1>1
<1>3. j - Len(s) \in 1..Len(t) /\ j = Len(s) + (j - Len(s))
  BY <1>1, <1>2
<1>4. t[j - Len(s)] = (s \o t)[j]
  BY <1>1, <1>3
<1>5. PICK i \in 1..(j - Len(s))-1 : t[i].on = rs[k].target /\ t[i].is = "INCOMPLETE"
  <2> DEFINE q == j - Len(s)
  <2>1. q \in DOMAIN t /\ t[q].on = rs[k].target /\ t[q].is \in Results
    BY <1>1, <1>3, <1>4
  <2> HIDE DEF q
  <2>2. \E i \in 1..q-1 : t[i].on = rs[k].target /\ t[i].is = "INCOMPLETE"
    BY <2>1 DEF Ordered
  <2> QED BY <2>2 DEF q
<1>6. i \in 1..Len(t) /\ Len(s) + i \in 1..j-1
  BY <1>1, <1>3, <1>5
<1> QED BY <1>1, <1>5, <1>6

-----------------------------------------------------------------------------
AllCounted(rs, M) ==
  /\ Nat \subseteq M.n /\ Counted(Fleet, rs, M)
  /\ \A k \in DOMAIN rs : Counted(rs[k].target, <<rs[k]>>, M)

\* The elements of a sequence of reports.
LEMMA ReportAt ==
  ASSUME NEW rs \in Seq(Report), NEW k \in DOMAIN rs
  PROVE  rs[k] \in Report
OBVIOUS

\* The human document is true, complete and ordered.
LEMMA HumanSays ==
  ASSUME NEW M, NEW rs \in Seq(Report), AllCounted(rs, M), Distinct(rs)
  PROVE  /\ Human(rs) \in Seq(Said(rs, M)) /\ Ordered(rs, Human(rs))
         /\ \A k \in DOMAIN rs : Complete(rs[k], Range(Human(rs)))
<1> DEFINE G == [k \in DOMAIN rs |-> HumanReport(rs[k])]
<1>1. Human(rs) = FlattenSeq(G)
  BY DEF Human, ForEach
<1>2. ASSUME NEW k \in DOMAIN rs
      PROVE  /\ G[k] \in Pieces(rs[k], M) /\ Complete(rs[k], Range(G[k]))
             /\ Incomplete(rs[k]) => Warns(G[k])
  BY ReportAt, HumanPieces DEF AllCounted
<1>3. G = [k \in DOMAIN rs |-> G[k]]
  OBVIOUS
<1> HIDE DEF G
<1>4. /\ FlattenSeq(G) \in Seq(Said(rs, M))
      /\ \A k \in DOMAIN rs : Range(G[k]) \subseteq Range(FlattenSeq(G))
  BY <1>2, <1>3, EachReport
<1>5. \A k \in DOMAIN rs : Complete(rs[k], Range(FlattenSeq(G)))
  BY <1>2, <1>4, CompleteFrom
<1>6. Ordered(rs, FlattenSeq(G))
  BY <1>2, <1>3, OrderedReports
<1> QED BY <1>1, <1>4, <1>5, <1>6

\* The headers of the viewer are true and ordered.
LEMMA TuiSays ==
  ASSUME NEW M, NEW rs \in Seq(Report), AllCounted(rs, M), Distinct(rs)
  PROVE  Tui(rs) \in Seq(Said(rs, M)) /\ Ordered(rs, Tui(rs))
<1> DEFINE G == [k \in DOMAIN rs |-> Heading(rs[k]) \o PassOrNot(rs[k])
                                       \o Counts(rs[k].target, <<rs[k]>>)]
<1>1. Tui(rs) = FlattenSeq(G)
  BY DEF Tui, ForEach
<1>2. ASSUME NEW k \in DOMAIN rs
      PROVE  G[k] \in Pieces(rs[k], M) /\ (Incomplete(rs[k]) => Warns(G[k]))
  BY ReportAt, TuiPieces DEF AllCounted
<1>3. G = [k \in DOMAIN rs |-> G[k]]
  OBVIOUS
<1> HIDE DEF G
<1>4. FlattenSeq(G) \in Seq(Said(rs, M))
  BY <1>2, <1>3, EachReport
<1>5. Ordered(rs, FlattenSeq(G))
  BY <1>2, <1>3, OrderedReports
<1> QED BY <1>1, <1>4, <1>5

\* JSON Lines are true and complete,
LEMMA JsonlSays ==
  ASSUME NEW M, NEW rs \in Seq(Report), AllCounted(rs, M)
  PROVE  /\ Jsonl(rs) \in Seq(Said(rs, M))
         /\ \A k \in DOMAIN rs : Complete(rs[k], Range(Jsonl(rs)))
<1> DEFINE G == [k \in DOMAIN rs |-> Heading(rs[k]) \o Parts(rs[k])]
<1>1. Jsonl(rs) = FlattenSeq(G)
  BY DEF Jsonl, ForEach
<1>2. ASSUME NEW k \in DOMAIN rs
      PROVE  G[k] \in Pieces(rs[k], M) /\ Complete(rs[k], Range(G[k]))
  BY ReportAt, JsonPieces DEF AllCounted
<1>3. G = [k \in DOMAIN rs |-> G[k]]
  OBVIOUS
<1> HIDE DEF G
<1>4. /\ FlattenSeq(G) \in Seq(Said(rs, M))
      /\ \A k \in DOMAIN rs : Range(G[k]) \subseteq Range(FlattenSeq(G))
  BY <1>2, <1>3, EachReport
<1>5. \A k \in DOMAIN rs : Complete(rs[k], Range(FlattenSeq(G)))
  BY <1>2, <1>4, CompleteFrom
<1> QED BY <1>1, <1>4, <1>5

\* The closing of a document says nothing.
LEMMA EndSays ==
  ASSUME NEW M, NEW rs, AllCounted(rs, M)
  PROVE  End \in Seq(Said(rs, M))
<1> DEFINE x == Item("end", Fleet, "", 0)
<1>1. x \in Global(rs, M)
  BY DEF AllCounted, Global, Items, Kinds, Results, Loud, Item, Fleet
<1>2. End = <<x>>
  BY DEF End
<1> HIDE DEF x
<1>3. x \in Said(rs, M)
  BY <1>1 DEF Said
<1> QED BY <1>2, <1>3

\* ... and JSON,
LEMMA JsonSays ==
  ASSUME NEW M, NEW rs \in Seq(Report), AllCounted(rs, M)
  PROVE  /\ Json(rs) \in Seq(Said(rs, M))
         /\ \A k \in DOMAIN rs : Complete(rs[k], Range(Json(rs)))
<1>1. Json(rs) = Jsonl(rs) \o End
  BY DEF Json
<1>2. Json(rs) \in Seq(Said(rs, M)) /\ Range(Jsonl(rs)) \subseteq Range(Json(rs))
  BY <1>1, JsonlSays, EndSays, ConcatRange
<1> QED BY <1>2, JsonlSays, CompleteFrom

\* ... and OCSF.
LEMMA OcsfSays ==
  ASSUME NEW M, NEW rs \in Seq(Report), AllCounted(rs, M)
  PROVE  /\ Ocsf(rs) \in Seq(Said(rs, M))
         /\ \A k \in DOMAIN rs : Complete(rs[k], Range(Ocsf(rs)))
<1> DEFINE G == [k \in DOMAIN rs |->
                   ScanActivity(rs[k]) \o FlattenSeq([j \in DOMAIN rs[k].findings |->
                     DetectionFinding(rs[k], rs[k].findings[j])])]
<1>1. Ocsf(rs) = FlattenSeq(G) \o End
  BY DEF Ocsf, ForEach
<1>2. ASSUME NEW k \in DOMAIN rs
      PROVE  G[k] \in Pieces(rs[k], M) /\ Complete(rs[k], Range(G[k]))
  BY ReportAt, OcsfPieces DEF AllCounted
<1>3. G = [k \in DOMAIN rs |-> G[k]]
  OBVIOUS
<1> HIDE DEF G
<1>4. /\ FlattenSeq(G) \in Seq(Said(rs, M))
      /\ \A k \in DOMAIN rs : Range(G[k]) \subseteq Range(FlattenSeq(G))
  BY <1>2, <1>3, EachReport
<1>5. \A k \in DOMAIN rs : Complete(rs[k], Range(FlattenSeq(G)))
  BY <1>2, <1>4, CompleteFrom
<1>6. Ocsf(rs) \in Seq(Said(rs, M)) /\ Range(FlattenSeq(G)) \subseteq Range(Ocsf(rs))
  BY <1>1, <1>4, EndSays, ConcatRange
<1> QED BY <1>5, <1>6, CompleteFrom

\* The counts of the fleet are no results,
LEMMA FleetCounts ==
  ASSUME NEW M, NEW rs, AllCounted(rs, M)
  PROVE  Counts(Fleet, rs) \in Seq(Quiet(Said(rs, M)))
<1> DEFINE S == Quiet(Said(rs, M))
           A(n) == Item("findings", Fleet, "", n)
           B(n) == Item("observations", Fleet, "", n)
           C(n) == Item("errors", Fleet, "", n)
<1>1. \A n \in M.n : A(n) \in Global(rs, M) /\ B(n) \in Global(rs, M) /\ C(n) \in Global(rs, M)
  BY DEF Global, Items, Kinds, Results, Loud, Item, Fleet
<1>2. \E a, b, c : Counts(Fleet, rs) = <<A(a), B(b), C(c)>>
  BY DEF Counts
<1>3. \A x \in Global(rs, M) : x \in S
  BY DEF Global, Quiet, Said
<1>4. \A n : A(n).n = n /\ B(n).n = n /\ C(n).n = n
  BY DEF Item
<1> HIDE DEF S, A, B, C
<1>5. PICK a, b, c : Counts(Fleet, rs) = <<A(a), B(b), C(c)>>
  BY <1>2
<1>6. A(a).n \in M.n /\ B(b).n \in M.n /\ C(c).n \in M.n
  BY <1>5, Triple DEF Counted, AllCounted
<1>7. A(a) \in S /\ B(b) \in S /\ C(c) \in S
  BY <1>1, <1>3, <1>4, <1>6
<1>8. <<A(a), B(b), C(c)>> \in Seq(S)
  BY <1>7, Triple
<1> QED BY <1>5, <1>8 DEF S

\* ... and its verdict is so of all targets.
LEMMA VerdictSays ==
  ASSUME NEW M, NEW rs, AllCounted(rs, M)
  PROVE  FleetVerdict(rs) \in Seq(Quiet(Said(rs, M)))
<1> DEFINE S == Quiet(Said(rs, M))
           a == Item("INCOMPLETE", Fleet, "", 0)
           b == Item("PASS", Fleet, "", 0)
           some == \E k \in DOMAIN rs : Incomplete(rs[k])
           none == \A k \in DOMAIN rs : ~Flagged(rs[k])
<1>1. FleetVerdict(rs) = IF some THEN <<a>> ELSE When(none, <<b>>)
  BY DEF FleetVerdict
<1>2. a \in Global(rs, M)
  BY DEF AllCounted, Global, Items, Kinds, Results, Loud, Item, Fleet
<1>3. ~some /\ none => b \in Global(rs, M)
  BY DEF AllCounted, Global, Items, Kinds, Results, Loud, Item, Fleet, Incomplete, Flagged
<1>4. \A x \in Global(rs, M) : x \in S
  BY DEF Global, Quiet, Said
<1> HIDE DEF S, a, b, some, none
<1> QED BY <1>1, <1>2, <1>3, <1>4 DEF When, S

\* ... and so are the counts of the targets below them.
LEMMA HtmlTop ==
  ASSUME NEW M, NEW rs \in Seq(Report), AllCounted(rs, M)
  PROVE  (Counts(Fleet, rs) \o FleetVerdict(rs))
           \o When(Len(rs) > 1, ForEach(rs, LAMBDA r :
                <<Item("findings", r.target, "", Len(r.findings)),
                  Item("errors", r.target, "", Len(r.errors))>>))
           \in Seq(Quiet(Said(rs, M)))
<1> DEFINE S == Quiet(Said(rs, M))
           H == [k \in DOMAIN rs |-> <<Item("findings", rs[k].target, "", Len(rs[k].findings)),
                                       Item("errors", rs[k].target, "", Len(rs[k].errors))>>]
           h == FlattenSeq(H)
           top == (Counts(Fleet, rs) \o FleetVerdict(rs)) \o When(Len(rs) > 1, h)
<1>1. ASSUME NEW k \in DOMAIN rs PROVE H[k] \in Seq(S)
  <2> DEFINE x == Item("findings", rs[k].target, "", Len(rs[k].findings))
             y == Item("errors", rs[k].target, "", Len(rs[k].errors))
  <2>1. rs[k].target \in Nat /\ Len(rs[k].findings) \in M.n /\ Len(rs[k].errors) \in M.n
    <3>1. /\ rs[k].findings \in Seq(Finding) /\ rs[k].errors \in Seq({"collector"} \cup STRING)
          /\ rs[k].target \in Nat
      BY ReportAt DEF Report
    <3>2. Len(rs[k].findings) \in Nat /\ Len(rs[k].errors) \in Nat /\ Nat \subseteq M.n
      BY <3>1 DEF AllCounted
    <3> QED BY <3>1, <3>2
  <2>2. /\ x \in About(rs[k], M) /\ x.is \notin Results \cup Loud
        /\ y \in About(rs[k], M) /\ y.is \notin Results \cup Loud
    BY <2>1 DEF About, Items, Kinds, Results, Loud, Item
  <2>3. H[k] = <<x, y>>
    OBVIOUS
  <2> HIDE DEF x, y, H
  <2>4. x \in S /\ y \in S
    BY <2>2 DEF Said, Quiet
  <2> HIDE DEF S
  <2> QED BY <2>3, <2>4
<1>2. H \in [DOMAIN rs -> Seq(S)]
  BY <1>1
<1>3. top = (Counts(Fleet, rs) \o FleetVerdict(rs))
              \o When(Len(rs) > 1, ForEach(rs, LAMBDA r :
                   <<Item("findings", r.target, "", Len(r.findings)),
                     Item("errors", r.target, "", Len(r.errors))>>))
  BY DEF ForEach
<1> HIDE DEF H, S
<1>4. h \in Seq(S)
  BY <1>2, EachPiece
<1> HIDE DEF h
<1>5. Counts(Fleet, rs) \in Seq(S) /\ FleetVerdict(rs) \in Seq(S) /\ When(Len(rs) > 1, h) \in Seq(S)
  BY <1>4, FleetCounts, VerdictSays DEF S, When
<1>6. top \in Seq(S)
  <2>1. Counts(Fleet, rs) \o FleetVerdict(rs) \in Seq(S)
    BY <1>5, ConcatRange
  <2> QED BY <1>5, <2>1, ConcatRange
<1> QED BY <1>3, <1>6 DEF S

\* The HTML document is true, complete and ordered.
LEMMA HtmlSays ==
  ASSUME NEW M, NEW rs \in Seq(Report), AllCounted(rs, M), Distinct(rs)
  PROVE  /\ Html(rs) \in Seq(Said(rs, M)) /\ Ordered(rs, Html(rs))
         /\ \A k \in DOMAIN rs : Complete(rs[k], Range(Html(rs)))
<1> DEFINE S == Quiet(Said(rs, M))
           G == [k \in DOMAIN rs |-> HtmlTarget(rs[k])]
           top == (Counts(Fleet, rs) \o FleetVerdict(rs))
                    \o When(Len(rs) > 1, ForEach(rs, LAMBDA r :
                         <<Item("findings", r.target, "", Len(r.findings)),
                           Item("errors", r.target, "", Len(r.errors))>>))
<1>1. Html(rs) = top \o FlattenSeq(G)
  BY DEF Html, ForEach
<1>2. ASSUME NEW k \in DOMAIN rs
      PROVE  /\ G[k] \in Pieces(rs[k], M) /\ Complete(rs[k], Range(G[k]))
             /\ Incomplete(rs[k]) => Warns(G[k])
  BY ReportAt, HtmlPieces DEF AllCounted
<1>3. G = [k \in DOMAIN rs |-> G[k]]
  OBVIOUS
<1>4. top \in Seq(S)
  BY HtmlTop
<1> HIDE DEF G, S, top
<1>5. /\ FlattenSeq(G) \in Seq(Said(rs, M))
      /\ \A k \in DOMAIN rs : Range(G[k]) \subseteq Range(FlattenSeq(G))
  BY <1>2, <1>3, EachReport
<1>6. \A k \in DOMAIN rs : Complete(rs[k], Range(FlattenSeq(G)))
  BY <1>2, <1>5, CompleteFrom
<1>7. Ordered(rs, FlattenSeq(G))
  BY <1>2, <1>3, OrderedReports
<1>8. top \in Seq(Said(rs, M))
  BY <1>4, SeqMono DEF S, Quiet
<1>9. Html(rs) \in Seq(Said(rs, M)) /\ Range(FlattenSeq(G)) \subseteq Range(Html(rs))
  BY <1>1, <1>5, <1>8, ConcatRange
<1>10. Ordered(rs, Html(rs))
  BY <1>1, <1>4, <1>5, <1>7, AfterQuiet DEF S
<1> QED BY <1>6, <1>9, <1>10, CompleteFrom

\* The rules are names.
LEMMA RulesType ==
  ASSUME NEW probes \in Seq(STRING), NEW severityOf
  PROVE  Rules(probes, severityOf) \in Seq(STRING)
<1> DEFINE G == [k \in DOMAIN probes |-> When(severityOf[probes[k]] # 0, <<probes[k]>>)]
<1>1. Rules(probes, severityOf) = FlattenSeq(G)
  BY DEF Rules, ForEach
<1>2. ASSUME NEW k \in DOMAIN probes PROVE G[k] \in Seq(STRING)
  <2>1. probes[k] \in STRING
    OBVIOUS
  <2>2. <<probes[k]>> \in Seq(STRING) /\ <<>> \in Seq(STRING)
    BY <2>1
  <2> QED BY <2>2 DEF When
<1>3. G \in [DOMAIN probes -> Seq(STRING)]
  BY <1>2
<1> DEFINE T == STRING
<1>4. probes \in Seq(T) /\ G \in [DOMAIN probes -> Seq(T)]
  BY <1>3
<1> HIDE DEF G, T
<1>5. FlattenSeq(G) \in Seq(T)
  BY <1>4, EachPiece
<1> QED BY <1>1, <1>5 DEF T

\* The rules of a pack with their places.
Indexed(rules) == {<<rules[k], k>> : k \in DOMAIN rules}

\* The rule that a result names.
RuleNote(r, rules, f) ==
  When(Contains(rules, f.id),
       <<Item("rule index", r.target, f.id, RuleIndex(rules, f.id))>>)

\* It leads to the rule of that name.
LEMMA RuleNotePiece ==
  ASSUME NEW M, Nat \subseteq M.n, NEW r \in Report, NEW rules \in Seq(STRING),
         \A k \in DOMAIN rules : <<rules[k], k>> \in M.rules, NEW f \in Finding
  PROVE  RuleNote(r, rules, f) \in Seq({x \in Named(About(r, M), f.id) : x.is = "rule index"})
<1> DEFINE id == f.id
           x == Item("rule index", r.target, id, RuleIndex(rules, id))
           S == {i \in Named(About(r, M), f.id) : i.is = "rule index"}
<1>1. id \in STRING /\ r.target \in Nat
  BY DEF Report, Finding
<1>2. Contains(rules, id) => /\ RuleIndex(rules, id) \in M.n
                             /\ <<id, RuleIndex(rules, id)>> \in M.rules
  <2>1. Contains(rules, id) => \E i \in DOMAIN rules : rules[i] = id
    BY DEF Contains
  <2>2. Contains(rules, id) => RuleIndex(rules, id) \in DOMAIN rules
                               /\ rules[RuleIndex(rules, id)] = id
    BY <2>1 DEF RuleIndex
  <2>3. DOMAIN rules \subseteq M.n
    OBVIOUS
  <2> QED BY <2>2, <2>3
<1>3. Contains(rules, id) => x \in S
  BY <1>1, <1>2 DEF About, Items, Kinds, Item, Named
<1>4. RuleNote(r, rules, f) = When(Contains(rules, id), <<x>>)
  BY DEF RuleNote
<1> HIDE DEF x, S
<1>5. RuleNote(r, rules, f) \in Seq(S)
  BY <1>3, <1>4 DEF When
<1> QED BY <1>5 DEF S

\* The results of SARIF have every finding.
LEMMA ResultPieces ==
  ASSUME NEW M, Nat \subseteq M.n, NEW r \in Report, NEW rules \in Seq(STRING),
         \A k \in DOMAIN rules : <<rules[k], k>> \in M.rules
  PROVE  LET s == FlattenSeq([k \in DOMAIN r.findings |->
                    FindingItem(r, r.findings[k]) \o Lines(r, r.findings[k])
                      \o RuleNote(r, rules, r.findings[k])])
         IN /\ s \in Pieces(r, M)
            /\ \A j \in DOMAIN r.findings :
                 Item("finding", r.target, r.findings[j].id, r.findings[j].severity) \in Range(s)
<1> DEFINE W == [k \in DOMAIN r.findings |-> RuleNote(r, rules, r.findings[k])]
           S == About(r, M)
<1>1. ASSUME NEW k \in DOMAIN r.findings PROVE W[k] \in Seq(S)
  <2> DEFINE f == r.findings[k]
             T == {x \in Named(About(r, M), f.id) : x.is = "rule index"}
  <2>1. f \in Finding
    BY DEF Report
  <2>2. RuleNote(r, rules, f) \in Seq(T)
    BY <2>1, RuleNotePiece
  <2>3. T \subseteq S
    BY DEF Named
  <2>4. W[k] = RuleNote(r, rules, f)
    OBVIOUS
  <2> HIDE DEF T, S, f, W
  <2>5. RuleNote(r, rules, f) \in Seq(S)
    BY <2>2, <2>3, SeqMono
  <2> QED BY <2>4, <2>5
<1>2. W \in [DOMAIN r.findings -> Pieces(r, M)]
  BY <1>1 DEF Pieces
<1>3. [k \in DOMAIN r.findings |-> FindingItem(r, r.findings[k]) \o Lines(r, r.findings[k])
        \o RuleNote(r, rules, r.findings[k])]
      = [k \in DOMAIN r.findings |->
           FindingItem(r, r.findings[k]) \o Lines(r, r.findings[k]) \o W[k]]
  OBVIOUS
<1> HIDE DEF W
<1> QED BY <1>2, <1>3, DetectionPieces

\* SARIF is true and complete.
LEMMA SarifSays ==
  ASSUME NEW M, NEW rs \in Seq(Report), AllCounted(rs, M), NEW probes \in Seq(STRING),
         NEW severityOf, M.rules = Indexed(Rules(probes, severityOf))
  PROVE  LET D == Sarif(rs, probes, severityOf) IN
         /\ D \in Seq(Said(rs, M)) /\ \A k \in DOMAIN rs : Complete(rs[k], Range(D))
         /\ RulesIn(M, Range(D))
<1> DEFINE S == Said(rs, M)
           rules == Rules(probes, severityOf)
           A == [k \in DOMAIN rules |-> Item("rule", Fleet, rules[k], k)]
           R(k) == FlattenSeq([j \in DOMAIN rs[k].findings |->
                     FindingItem(rs[k], rs[k].findings[j]) \o Lines(rs[k], rs[k].findings[j])
                       \o RuleNote(rs[k], rules, rs[k].findings[j])])
           B == [k \in DOMAIN rs |-> R(k)]
           C == [k \in DOMAIN rs |-> Errors(rs[k])]
           O == [k \in DOMAIN rs |->
                   When(rs[k].observations # <<>>,
                        <<Item("omitted", rs[k].target, "", Len(rs[k].observations))>>)]
           x == Item("successful", Fleet, "", 0)
           y == Item("pack", Fleet, "", 0)
           all == \A k \in DOMAIN rs : ~Incomplete(rs[k])
           X == When(all, <<x>>)
           Y == When(rs # <<>> /\ rs[1].packed, <<y>>)
           b == FlattenSeq(B)
           c == FlattenSeq(C)
           o == FlattenSeq(O)
<1>1. Sarif(rs, probes, severityOf) = A \o b \o c \o o \o X \o Y \o End
  BY DEF Sarif, ForEach, RuleNote
<1>2. A \in Seq(S)
  <2>1. rules \in Seq(STRING) /\ Nat \subseteq M.n
    BY RulesType DEF AllCounted
  <2> HIDE DEF rules
  <2>2. ASSUME NEW k \in DOMAIN rules PROVE A[k] \in S
    <3>1. rules[k] \in STRING /\ k \in M.n
      BY <2>1
    <3>2. A[k] = Item("rule", Fleet, rules[k], k)
      OBVIOUS
    <3>3. Item("rule", Fleet, rules[k], k) \in Global(rs, M)
      BY <3>1 DEF Global, Items, Kinds, Results, Loud, Item, Fleet
    <3> QED BY <3>2, <3>3 DEF Said
  <2> HIDE DEF S
  <2>3. DOMAIN rules = 1..Len(rules) /\ Len(rules) \in Nat
    BY <2>1
  <2> QED BY <2>2, <2>3
<1>3. ASSUME NEW k \in DOMAIN rs
      PROVE  /\ B[k] \in Pieces(rs[k], M)
             /\ \A j \in DOMAIN rs[k].findings :
                  Item("finding", rs[k].target, rs[k].findings[j].id, rs[k].findings[j].severity)
                    \in Range(B[k])
  <2>1. rules \in Seq(STRING) /\ Nat \subseteq M.n /\ rs[k] \in Report
    BY RulesType, ReportAt DEF AllCounted
  <2>2. \A i \in DOMAIN rules : <<rules[i], i>> \in M.rules
    BY DEF Indexed
  <2> HIDE DEF rules
  <2> QED BY <2>1, <2>2, ResultPieces
<1>4. ASSUME NEW k \in DOMAIN rs
      PROVE  /\ C[k] \in Pieces(rs[k], M)
             /\ \A j \in DOMAIN rs[k].errors :
                  Item("error", rs[k].target, rs[k].errors[j], 0) \in Range(C[k])
  BY ReportAt, SmallPieces DEF AllCounted
<1>5. ASSUME NEW k \in DOMAIN rs PROVE O[k] \in Pieces(rs[k], M)
  <2> DEFINE z == Item("omitted", rs[k].target, "", Len(rs[k].observations))
  <2>1. rs[k].target \in Nat /\ Len(rs[k].observations) \in M.n
    <3>1. rs[k].observations \in Seq(Observation) /\ rs[k].target \in Nat
      BY ReportAt DEF Report
    <3> QED BY <3>1 DEF AllCounted
  <2>2. z \in About(rs[k], M)
    BY <2>1 DEF About, Items, Kinds, Item
  <2>3. O[k] = When(rs[k].observations # <<>>, <<z>>)
    OBVIOUS
  <2> HIDE DEF z, O
  <2> QED BY <2>2, <2>3 DEF Pieces, When
<1>6. /\ B = [k \in DOMAIN rs |-> B[k]] /\ C = [k \in DOMAIN rs |-> C[k]]
      /\ O = [k \in DOMAIN rs |-> O[k]]
  OBVIOUS
<1>7. RulesIn(M, Range(A))
  BY DEF RulesIn, Range, Indexed
<1>8. X \in Seq(S) /\ Y \in Seq(S)
  <2>1. y \in Global(rs, M)
    BY DEF AllCounted, Global, Items, Kinds, Results, Loud, Item, Fleet
  <2>2. all => x \in Global(rs, M)
    BY DEF AllCounted, Global, Items, Kinds, Results, Loud, Item, Fleet, Incomplete
  <2> HIDE DEF x, y, all
  <2>3. y \in S /\ (all => x \in S)
    BY <2>1, <2>2 DEF Said
  <2> HIDE DEF S
  <2> QED BY <2>3 DEF When
<1> HIDE DEF B, C, O
<1>9. b \in Seq(S) /\ \A k \in DOMAIN rs : Range(B[k]) \subseteq Range(b)
  BY <1>3, <1>6, EachReport
<1>10. c \in Seq(S) /\ \A k \in DOMAIN rs : Range(C[k]) \subseteq Range(c)
  BY <1>4, <1>6, EachReport
<1>11. o \in Seq(S)
  BY <1>5, <1>6, EachReport
<1>12. End \in Seq(S)
  BY EndSays
<1> HIDE DEF A, b, c, o, X, Y, S
<1> DEFINE s1 == A \o b
           s2 == s1 \o c
           s3 == s2 \o o
           s4 == s3 \o X
           s5 == s4 \o Y
           s6 == s5 \o End
<1>13. s1 \in Seq(S) /\ Range(b) \subseteq Range(s1) /\ Range(A) \subseteq Range(s1)
  BY <1>2, <1>9, ConcatRange
<1> HIDE DEF s1
<1>14. /\ s2 \in Seq(S) /\ Range(b) \subseteq Range(s2) /\ Range(c) \subseteq Range(s2)
       /\ Range(A) \subseteq Range(s2)
  BY <1>10, <1>13, ConcatRange
<1> HIDE DEF s2
<1>15. s3 \in Seq(S) /\ Range(s2) \subseteq Range(s3)
  BY <1>11, <1>14, ConcatRange
<1> HIDE DEF s3
<1>16. s4 \in Seq(S) /\ Range(s3) \subseteq Range(s4)
  BY <1>8, <1>15, ConcatRange
<1> HIDE DEF s4
<1>17. s5 \in Seq(S) /\ Range(s4) \subseteq Range(s5)
  BY <1>8, <1>16, ConcatRange
<1> HIDE DEF s5
<1>18. s6 \in Seq(S) /\ Range(s5) \subseteq Range(s6)
  BY <1>12, <1>17, ConcatRange
<1> HIDE DEF s6
<1>19. /\ Range(b) \subseteq Range(s6) /\ Range(c) \subseteq Range(s6)
       /\ Range(A) \subseteq Range(s6)
  BY <1>14, <1>15, <1>16, <1>17, <1>18
<1>20. \A k \in DOMAIN rs : Complete(rs[k], Range(s6))
  <2> SUFFICES ASSUME NEW k \in DOMAIN rs PROVE Complete(rs[k], Range(s6))
    OBVIOUS
  <2>1. Range(B[k]) \subseteq Range(s6) /\ Range(C[k]) \subseteq Range(s6)
    BY <1>9, <1>10, <1>19
  <2> QED BY <1>3, <1>4, <2>1 DEF Complete
<1>21. Sarif(rs, probes, severityOf) = s6
  BY <1>1 DEF s1, s2, s3, s4, s5, s6
<1>22. RulesIn(M, Range(s6))
  BY <1>7, <1>19 DEF RulesIn
<1> QED BY <1>18, <1>20, <1>21, <1>22 DEF S

-----------------------------------------------------------------------------
(* What the numbers of a document add up to *)

\* The items that are not of these kinds with this target and ID.
Elsewhere(M, on, id, K) == {x \in Items(M) : ~(x.on = on /\ x.id = id /\ x.is \in K)}

\* A part of a report: the sum of the numbers, by kind, that are told of its ID, and items
\* that are told as well.
FindingPart(r, f) ==
  [on |-> r.target, id |-> f.id, adds |-> [finding |-> f.severity, line |-> f.lines],
   items |-> IF f.cut THEN {Item("cut", r.target, f.id, 0)} ELSE {}]
ObservationPart(r, o) ==
  [on |-> r.target, id |-> o.id, adds |-> [line |-> o.lines],
   items |-> {Item("observation", r.target, o.id, 0)}
               \cup (IF o.partial THEN {Item("partial", r.target, o.id, 0)} ELSE {})
               \cup (IF o.limits > 0 THEN {Item("truncated", r.target, o.id, 0)} ELSE {})
               \cup (IF o.cut THEN {Item("cut", r.target, o.id, 0)} ELSE {})]
OmittedPart(r) ==
  [on |-> r.target, id |-> "", adds |-> [omitted |-> Len(r.observations)], items |-> {}]

\* The items that say nothing of a part: D says nothing of it when it is a sequence of them,
\* and it shows the part when its numbers add up and its items are there.
Apart(M, p) == Elsewhere(M, p.on, p.id, DOMAIN p.adds)
Shows(D, M, p) ==
  /\ D \in Seq(Items(M))
  /\ \A w \in DOMAIN p.adds : AddsUp(D, Elsewhere(M, p.on, p.id, {w}), p.adds[w])
  /\ p.items \subseteq Range(D)

\* What shows a part still does among items apart from it,
LEMMA ShowsWithin ==
  ASSUME NEW M, NEW p, NEW D \in Seq(Items(M)), NEW s, Shows(s, M, p), Isolates(D, s, Apart(M, p))
  PROVE  Shows(D, M, p)
<1>1. s \in Seq(Items(M)) /\ p.items \subseteq Range(s)
  BY DEF Shows
<1>2. ASSUME NEW w \in DOMAIN p.adds
      PROVE  AddsUp(D, Elsewhere(M, p.on, p.id, {w}), p.adds[w])
  <2>1. Apart(M, p) \subseteq Elsewhere(M, p.on, p.id, {w})
    BY DEF Apart, Elsewhere
  <2>2. Isolates(D, s, Elsewhere(M, p.on, p.id, {w}))
    BY <2>1, IsolatesMono
  <2>3. AddsUp(s, Elsewhere(M, p.on, p.id, {w}), p.adds[w])
    BY DEF Shows
  <2> QED BY <1>1, <2>2, <2>3, AddsUpWithin
<1>3. Range(s) \subseteq Range(D)
  BY <1>1, IsolatedRange
<1> QED BY <1>1, <1>2, <1>3 DEF Shows

\* ... with more of them behind it or before it,
LEMMA ShowsJoined ==
  ASSUME NEW M, NEW p, NEW D, Shows(D, M, p), NEW t \in Seq(Apart(M, p))
  PROVE  Shows(D \o t, M, p) /\ Shows(t \o D, M, p)
<1> DEFINE U == Items(M)
           O == Apart(M, p)
<1>1. D \in Seq(U) /\ O \subseteq U /\ t \in Seq(O)
  BY DEF Shows, Apart, Elsewhere
<1> HIDE DEF U, O
<1>2. Isolates(D, D, O) /\ Len(D) \in Nat
  BY <1>1, IsolatesItself
<1>3. D \o t \in Seq(U) /\ Isolates(D \o t, D, O)
  BY <1>1, <1>2, IsolatesBefore
<1>4. t \o D \in Seq(U) /\ Isolates(t \o D, D, O)
  BY <1>1, <1>2, IsolatesAfter
<1> QED BY <1>3, <1>4, ShowsWithin DEF U, O

\* ... and in one of many sequences that are joined.
LEMMA ShowsAmong ==
  ASSUME NEW M, NEW p, NEW ss \in Seq(Seq(Items(M))), NEW q \in DOMAIN ss, Shows(ss[q], M, p),
         \A k \in DOMAIN ss : k # q => ss[k] \in Seq(Apart(M, p))
  PROVE  Shows(FlattenSeq(ss), M, p)
<1> DEFINE U == Items(M)
           O == Apart(M, p)
<1>1. ss \in Seq(Seq(U)) /\ \A k \in DOMAIN ss : k # q => ss[k] \in Seq(O)
  OBVIOUS
<1> HIDE DEF U, O
<1>2. PICK s : s = ss[q]
  OBVIOUS
<1>3. s \in Seq(U) /\ Shows(s, M, p)
  BY <1>2 DEF Shows, U
<1>4. Isolates(s, s, O) /\ Len(s) \in Nat
  BY <1>3, IsolatesItself
<1>5. FlattenSeq(ss) \in Seq(U) /\ Isolates(FlattenSeq(ss), s, O)
  BY <1>1, <1>2, <1>4, IsolatesAmong
<1> QED BY <1>3, <1>5, ShowsWithin DEF U, O

\* What does not matter to a part: the items without its numbers, of another ID, of
\* another target or of the fleet.
LEMMA ApartFrom ==
  ASSUME NEW M, NEW p, DOMAIN p.adds \subseteq Loud
  PROVE  /\ Soft(Items(M)) \subseteq Apart(M, p)
         /\ \A r : Soft(About(r, M)) \subseteq Apart(M, p)
         /\ \A r : r.target # p.on => About(r, M) \subseteq Apart(M, p)
         /\ \A r, id : id # p.id => Named(About(r, M), id) \subseteq Apart(M, p)
         /\ \A rs : Global(rs, M) \subseteq Apart(M, p)
<1> QED BY DEF Apart, Elsewhere, Soft, About, Named, Global

\* The parts of a report tell numbers that are told with the loud kinds.
LEMMA FindingKinds ==
  ASSUME NEW r, NEW f
  PROVE  LET p == FindingPart(r, f) IN
         DOMAIN p.adds \subseteq Loud /\ p.on = r.target /\ p.id = f.id
BY DEF FindingPart, Loud

\* ... of an observation,
LEMMA ObservationKinds ==
  ASSUME NEW r, NEW o
  PROVE  LET p == ObservationPart(r, o) IN
         DOMAIN p.adds \subseteq Loud /\ p.on = r.target /\ p.id = o.id
BY DEF ObservationPart, Loud

\* ... and of those left out.
LEMMA OmittedKinds ==
  ASSUME NEW r
  PROVE  LET p == OmittedPart(r) IN
         DOMAIN p.adds \subseteq Loud /\ p.on = r.target /\ p.id = "" /\ DOMAIN p.adds = {"omitted"}
BY DEF OmittedPart, Loud

\* A preview adds up to the number of lines, shown or counted.
LEMMA PreviewAddsUp ==
  ASSUME NEW O, NEW l \in Nat, NEW most \in Nat, NEW x, x \notin O, x.n = 1,
         NEW y, y \notin O, y.n = l - most
  PROVE  AddsUp(Times(Least(l, most), x) \o When(l > most, <<y>>), O, l)
<1>1. CASE l > most
  <2> DEFINE s == Times(Least(l, most), x) \o When(l > most, <<y>>)
             t == Times(most, x)
             U == {x, y}
  <2>1. Least(l, most) = most /\ s = t \o <<y>>
    BY <1>1 DEF Least, When
  <2>2. t \in Seq(U) /\ Len(t) = most /\ \A k \in 1..most : t[k] = x
    BY DEF Times
  <2> HIDE DEF s, t, U
  <2>3. /\ Len(s) = most + 1 /\ s[most + 1] = y
        /\ \A k \in 1..most+1 : k # most + 1 => s[k] = x
    <3>1. y \in U
      BY DEF U
    <3>2. <<y>> \in Seq(U) /\ Len(<<y>>) = 1 /\ <<y>>[1] = y
      BY <3>1
    <3> QED BY <2>1, <2>2, <3>2
  <2>4. \A k \in 1..Len(s) : s[k] \notin O <=> k \in 0+1..0+(most+1)
    BY <2>3
  <2>5. \A k \in 0+1..0+(most+1) : k # 0 + (most + 1) => s[k].n = 1
    BY <2>3
  <2>6. s[0 + (most + 1)].n \in Int /\ l = (most + 1) - 1 + s[0 + (most + 1)].n
    BY <2>3
  <2>7. most + 1 \in Nat /\ 0 + (most + 1) <= Len(s) /\ most + 1 # 0
    BY <2>3
  <2> QED BY <2>4, <2>5, <2>6, <2>7 DEF AddsUp, s
<1>2. CASE ~(l > most)
  <2> DEFINE s == Times(Least(l, most), x) \o When(l > most, <<y>>)
             t == Times(l, x)
  <2>1. Least(l, most) = l /\ s = t \o <<>>
    BY <1>2 DEF Least, When
  <2>2. t \in Seq({x}) /\ Len(t) = l /\ \A k \in 1..l : t[k] = x
    BY DEF Times
  <2> HIDE DEF s, t
  <2>3. Len(s) = l /\ \A k \in 1..l : s[k] = x
    BY <2>1, <2>2
  <2>4. \A k \in 1..Len(s) : s[k] \notin O <=> k \in 0+1..0+l
    BY <2>3
  <2>5. \A k \in 0+1..0+l : k # 0 + l => s[k].n = 1
    BY <2>3
  <2>6. l # 0 => s[0 + l].n \in Int /\ l = l - 1 + s[0 + l].n
    BY <2>3
  <2>7. 0 + l <= Len(s)
    BY <2>3
  <2> QED BY <2>4, <2>5, <2>6, <2>7 DEF AddsUp, s
<1> QED BY <1>1, <1>2

\* The items that are not of a kind.
Not(M, w) == {x \in Items(M) : x.is # w}

\* The lines of a finding or an observation, shown or counted, add up to their number.
LEMMA LinesAddUp ==
  ASSUME NEW M, Nat \subseteq M.n, NEW r \in Report, NEW f, f \in Finding \cup Observation,
         NEW most \in Nat
  PROVE  LET O == Elsewhere(M, r.target, f.id, {"line"}) IN
         /\ AddsUp(Lines(r, f), O, f.lines) /\ AddsUp(Preview(r, f, most), O, f.lines)
         /\ Lines(r, f) \in Seq(Not(M, "finding")) /\ Preview(r, f, most) \in Seq(Not(M, "finding"))
<1> DEFINE O == Elsewhere(M, r.target, f.id, {"line"})
           L(n) == Item("line", r.target, f.id, n)
           T == Not(M, "finding")
<1>1. r.target \in Nat /\ f.lines \in Nat /\ f.id \in STRING
  BY DEF Report, Finding, Observation
<1>2. \A n : L(n) \notin O /\ L(n).n = n
  BY DEF Elsewhere, Item
<1>3. \A n \in Nat : L(n) \in T
  BY <1>1 DEF Not, Items, Kinds, Item
<1>4. /\ Lines(r, f) = <<L(f.lines)>>
      /\ Preview(r, f, most) = Times(Least(f.lines, most), L(1))
                                 \o When(f.lines > most, <<L(f.lines - most)>>)
  BY DEF Lines, Preview
<1> HIDE DEF O, L, T
<1>5. AddsUp(Lines(r, f), O, f.lines)
  BY <1>1, <1>2, <1>4, OneAddsUp
<1>6. AddsUp(Preview(r, f, most), O, f.lines)
  <2> DEFINE x == L(1)
             y == L(f.lines - most)
  <2>1. x \notin O /\ x.n = 1 /\ y \notin O /\ y.n = f.lines - most
    BY <1>2
  <2>2. Preview(r, f, most) = Times(Least(f.lines, most), x) \o When(f.lines > most, <<y>>)
    BY <1>4
  <2> HIDE DEF x, y
  <2> QED BY <1>1, <2>1, <2>2, PreviewAddsUp
<1>7. Lines(r, f) \in Seq(T)
  BY <1>1, <1>3, <1>4
<1>8. Preview(r, f, most) \in Seq(T)
  <2> DEFINE a == Times(Least(f.lines, most), L(1))
             b == When(f.lines > most, <<L(f.lines - most)>>)
  <2>1. a \in Seq(T)
    <3>1. Least(f.lines, most) \in Nat /\ L(1) \in T
      BY <1>1, <1>3 DEF Least
    <3> QED BY <3>1 DEF Times
  <2>2. b \in Seq(T)
    <3>1. f.lines > most => f.lines - most \in Nat
      BY <1>1
    <3> QED BY <1>3, <3>1 DEF When
  <2> QED BY <1>4, <2>1, <2>2
<1> QED BY <1>5, <1>6, <1>7, <1>8 DEF O, T

\* What is said of a finding shows its severity, its lines and whether they were cut.
LEMMA FindingShows ==
  ASSUME NEW M, Nat \subseteq M.n, NEW r \in Report, NEW f \in Finding,
         NEW X \in Seq(Not(M, "finding")),
         AddsUp(X, Elsewhere(M, r.target, f.id, {"line"}), f.lines)
  PROVE  Shows(FindingItem(r, f) \o X, M, FindingPart(r, f))
<1> DEFINE U == Items(M)
           F == Elsewhere(M, r.target, f.id, {"finding"})
           L == Elsewhere(M, r.target, f.id, {"line"})
           x == Item("finding", r.target, f.id, f.severity)
           c == Item("cut", r.target, f.id, 0)
           b == When(f.cut, <<c>>)
           D == FindingItem(r, f) \o X
<1>1. r.target \in Nat /\ f.severity \in Nat /\ f.severity \in M.n /\ 0 \in M.n /\ f.id \in STRING
  BY DEF Report, Finding
<1>2. /\ x \in U /\ x \in L /\ x \notin F /\ x.n = f.severity
      /\ c \in U /\ c \in L /\ c \in F
  BY <1>1 DEF Items, Kinds, Elsewhere, Item
<1>3. L \subseteq U /\ F \subseteq U /\ Not(M, "finding") \subseteq F
  BY DEF Elsewhere, Not
<1>4. X \in Seq(U) /\ X \in Seq(F)
  BY <1>3, SeqMono
<1>5. FindingItem(r, f) = <<x>> \o b
  BY DEF FindingItem
<1>6. /\ FindingPart(r, f).items = IF f.cut THEN {c} ELSE {}
      /\ FindingPart(r, f).on = r.target /\ FindingPart(r, f).id = f.id
  BY DEF FindingPart
<1> HIDE DEF U, F, L, x, c
<1>7. b \in Seq(F) /\ b \in Seq(L) /\ b \in Seq(U) /\ <<x>> \in Seq(L) /\ <<x>> \in Seq(U)
      /\ (f.cut => c \in Range(b))
  BY <1>2 DEF When, Range
<1> HIDE DEF b
<1> DEFINE a == <<x>>
<1>8. AddsUp(a, F, f.severity) /\ a \in Seq(U) /\ a \in Seq(L)
  BY <1>1, <1>2, <1>7, OneAddsUp
<1> HIDE DEF a
<1> DEFINE i == a \o b
<1>9. AddsUp(i, F, f.severity) /\ i \in Seq(U) /\ i \in Seq(L)
  <2>1. Isolates(a, a, F) /\ Len(a) \in Nat
    BY <1>8, IsolatesItself
  <2>2. i \in Seq(U) /\ Isolates(i, a, F)
    BY <1>3, <1>7, <1>8, <2>1, IsolatesBefore
  <2>3. AddsUp(i, F, f.severity)
    BY <1>8, <2>2, AddsUpWithin
  <2>4. i \in Seq(L)
    BY <1>7, <1>8, ConcatRange
  <2> QED BY <2>2, <2>3, <2>4
<1>10. f.cut => c \in Range(i)
  BY <1>7, <1>8, ConcatRange
<1>11. i = FindingItem(r, f)
  BY <1>5 DEF a
<1> HIDE DEF i
<1> DEFINE E == i \o X
<1>12. AddsUp(E, F, f.severity) /\ E \in Seq(U)
  <2>1. Isolates(i, i, F) /\ Len(i) \in Nat
    BY <1>9, IsolatesItself
  <2>2. E \in Seq(U) /\ Isolates(E, i, F)
    BY <1>3, <1>4, <1>9, <2>1, IsolatesBefore
  <2> QED BY <1>9, <2>2, AddsUpWithin
<1>13. AddsUp(E, L, f.lines)
  <2>1. Isolates(X, X, L) /\ Len(X) \in Nat
    BY <1>4, IsolatesItself
  <2>2. E \in Seq(U) /\ Isolates(E, X, L)
    BY <1>3, <1>4, <1>9, <2>1, IsolatesAfter
  <2> QED BY <1>4, <2>2, AddsUpWithin DEF L
<1>14. FindingPart(r, f).items \subseteq Range(E)
  BY <1>4, <1>6, <1>9, <1>10, ConcatRange
<1>15. E = D
  BY <1>11
<1> HIDE DEF E, D
<1> DEFINE p == FindingPart(r, f)
<1>16. /\ DOMAIN p.adds = {"finding", "line"} /\ p.adds["finding"] = f.severity
       /\ p.adds["line"] = f.lines
  BY DEF FindingPart
<1> HIDE DEF p
<1>17. E \in Seq(Items(M))
  BY <1>12 DEF U
<1>18. \A w \in DOMAIN p.adds : AddsUp(E, Elsewhere(M, p.on, p.id, {w}), p.adds[w])
  <2>1. p.on = r.target /\ p.id = f.id
    BY <1>6 DEF p
  <2> QED BY <1>12, <1>13, <1>16, <2>1 DEF F, L
<1> QED BY <1>14, <1>15, <1>17, <1>18 DEF Shows, p, D

\* What is said of an observation shows its lines and how they were limited.
LEMMA ObservationShows ==
  ASSUME NEW M, Nat \subseteq M.n, NEW r \in Report, NEW o \in Observation,
         NEW X \in Seq(Items(M)), AddsUp(X, Elsewhere(M, r.target, o.id, {"line"}), o.lines)
  PROVE  Shows(ObservationItem(r, o) \o X, M, ObservationPart(r, o))
<1> DEFINE U == Items(M)
           L == Elsewhere(M, r.target, o.id, {"line"})
           I(is) == Item(is, r.target, o.id, 0)
           a1 == <<I("observation")>>
           a2 == When(o.partial, <<I("partial")>>)
           a3 == When(o.cut \/ o.limits > 0, <<I("truncated")>>)
           a4 == Times(o.limits, I("limit"))
           a5 == When(o.cut, <<I("cut")>>)
           p == ObservationPart(r, o)
<1>1. r.target \in Nat /\ o.limits \in Nat /\ 0 \in M.n /\ o.id \in STRING
  BY DEF Report, Observation
<1>2. \A is \in {"observation", "partial", "truncated", "limit", "cut"} : I(is) \in L
  BY <1>1 DEF Elsewhere, Items, Kinds, Item
<1>3. L \subseteq U
  BY DEF Elsewhere
<1>4. ObservationItem(r, o) = a1 \o a2 \o a3 \o a4 \o a5
  BY DEF ObservationItem
<1>5. p.items = {I("observation")} \cup (IF o.partial THEN {I("partial")} ELSE {})
                  \cup (IF o.limits > 0 THEN {I("truncated")} ELSE {})
                  \cup (IF o.cut THEN {I("cut")} ELSE {})
  BY DEF ObservationPart
<1>6. /\ p.on = r.target /\ p.id = o.id /\ DOMAIN p.adds = {"line"} /\ p.adds["line"] = o.lines
  BY DEF ObservationPart
<1> HIDE DEF U, L, I, p
<1>7. a1 \in Seq(L) /\ I("observation") \in Range(a1)
  BY <1>2 DEF Range
<1>8. a2 \in Seq(L) /\ (o.partial => I("partial") \in Range(a2))
  BY <1>2 DEF When, Range
<1>9. a3 \in Seq(L) /\ (o.limits > 0 => I("truncated") \in Range(a3))
  BY <1>2 DEF When, Range
<1>10. a4 \in Seq(L)
  BY <1>1, <1>2 DEF Times
<1>11. a5 \in Seq(L) /\ (o.cut => I("cut") \in Range(a5))
  BY <1>2 DEF When, Range
<1> HIDE DEF a1, a2, a3, a4, a5
<1> DEFINE b2 == a1 \o a2
           b3 == b2 \o a3
           b4 == b3 \o a4
           b5 == b4 \o a5
           E == b5 \o X
<1>12. b2 \in Seq(L) /\ Range(b2) = Range(a1) \cup Range(a2)
  BY <1>7, <1>8, ConcatRange
<1> HIDE DEF b2
<1>13. b3 \in Seq(L) /\ Range(b3) = Range(b2) \cup Range(a3)
  BY <1>9, <1>12, ConcatRange
<1> HIDE DEF b3
<1>14. b4 \in Seq(L) /\ Range(b4) = Range(b3) \cup Range(a4)
  BY <1>10, <1>13, ConcatRange
<1> HIDE DEF b4
<1>15. b5 \in Seq(L) /\ Range(b5) = Range(b4) \cup Range(a5)
  BY <1>11, <1>14, ConcatRange
<1>16. ObservationItem(r, o) = b5
  BY <1>4 DEF b2, b3, b4
<1> HIDE DEF b5
<1>17. X \in Seq(U) /\ b5 \in Seq(U) /\ E \in Seq(U) /\ Range(E) = Range(b5) \cup Range(X)
  <2>1. X \in Seq(U) /\ b5 \in Seq(U)
    BY <1>3, <1>15, SeqMono DEF U
  <2> QED BY <2>1, ConcatRange
<1>18. p.items \subseteq Range(E)
  BY <1>5, <1>7, <1>8, <1>9, <1>11, <1>12, <1>13, <1>14, <1>15, <1>17
<1>19. AddsUp(E, L, o.lines)
  <2>1. Isolates(X, X, L) /\ Len(X) \in Nat
    BY <1>17, IsolatesItself
  <2>2. Isolates(E, X, L)
    BY <1>3, <1>15, <1>17, <2>1, IsolatesAfter
  <2> QED BY <1>17, <2>2, AddsUpWithin DEF L
<1> HIDE DEF E
<1>20. Shows(E, M, p)
  BY <1>6, <1>17, <1>18, <1>19 DEF Shows, U, L
<1> QED BY <1>16, <1>20 DEF E, p

\* The findings of a report are shown, and nothing is said of its observations,
FindingsTold(D, M, r) ==
  /\ \A j \in DOMAIN r.findings : Shows(D, M, FindingPart(r, r.findings[j]))
  /\ \A j \in DOMAIN r.observations : D \in Seq(Apart(M, ObservationPart(r, r.observations[j])))
\* ... the other way round, and both of them are shown.
ObservationsTold(D, M, r) ==
  /\ \A j \in DOMAIN r.observations : Shows(D, M, ObservationPart(r, r.observations[j]))
  /\ \A j \in DOMAIN r.findings : D \in Seq(Apart(M, FindingPart(r, r.findings[j])))
\* Nothing of the report is left out.
Told(D, M, r) ==
  /\ \A j \in DOMAIN r.findings : Shows(D, M, FindingPart(r, r.findings[j]))
  /\ \A j \in DOMAIN r.observations : Shows(D, M, ObservationPart(r, r.observations[j]))

\* Pieces of which each shows its finding show them all when they are joined,
LEMMA FindingsJoined ==
  ASSUME NEW M, NEW r \in Report, OnePartEach(r), NEW G, G = [j \in DOMAIN r.findings |-> G[j]],
         \A j \in DOMAIN r.findings : /\ G[j] \in Seq(Named(About(r, M), r.findings[j].id))
                                      /\ Shows(G[j], M, FindingPart(r, r.findings[j]))
  PROVE  FindingsTold(FlattenSeq(G), M, r) /\ FlattenSeq(G) \in Seq(Not(M, "omitted"))
<1>1. r.findings \in Seq(Finding) /\ DOMAIN G = DOMAIN r.findings
  BY DEF Report
<1>2. ASSUME NEW S, \A j \in DOMAIN r.findings : G[j] \in Seq(S)
      PROVE  G \in Seq(Seq(S)) /\ FlattenSeq(G) \in Seq(S)
  <2>1. G \in [DOMAIN r.findings -> Seq(S)]
    BY <1>2
  <2> QED BY <1>1, <2>1, EachPiece
<1>3. ASSUME NEW j \in DOMAIN r.findings, NEW p, DOMAIN p.adds \subseteq Loud,
             r.findings[j].id # p.id
      PROVE  G[j] \in Seq(Apart(M, p))
  <2> DEFINE S == Named(About(r, M), r.findings[j].id)
             T == Apart(M, p)
             s == G[j]
  <2>1. S \subseteq T
    BY <1>3, ApartFrom
  <2>2. s \in Seq(S)
    OBVIOUS
  <2> HIDE DEF S, T, s
  <2>3. s \in Seq(T)
    BY <2>1, <2>2, SeqMono
  <2> QED BY <2>3 DEF s, T
<1>4. G \in Seq(Seq(Items(M)))
  <2>1. \A j \in DOMAIN r.findings : G[j] \in Seq(Items(M))
    BY DEF Shows
  <2> QED BY <1>2, <2>1
<1>5. ASSUME NEW j \in DOMAIN r.findings
      PROVE  Shows(FlattenSeq(G), M, FindingPart(r, r.findings[j]))
  <2> DEFINE p == FindingPart(r, r.findings[j])
  <2>1. DOMAIN p.adds \subseteq Loud /\ p.id = r.findings[j].id
    BY FindingKinds
  <2>2. Shows(G[j], M, p)
    OBVIOUS
  <2> HIDE DEF p
  <2>3. \A k \in DOMAIN G : k # j => G[k] \in Seq(Apart(M, p))
    BY <1>1, <1>3, <2>1 DEF OnePartEach
  <2>4. Shows(FlattenSeq(G), M, p)
    BY <1>1, <1>4, <2>2, <2>3, ShowsAmong
  <2> QED BY <2>4 DEF p
<1>6. ASSUME NEW k \in DOMAIN r.observations
      PROVE  FlattenSeq(G) \in Seq(Apart(M, ObservationPart(r, r.observations[k])))
  <2> DEFINE p == ObservationPart(r, r.observations[k])
  <2>1. DOMAIN p.adds \subseteq Loud /\ p.id = r.observations[k].id
    BY ObservationKinds
  <2> HIDE DEF p
  <2>2. \A j \in DOMAIN r.findings : G[j] \in Seq(Apart(M, p))
    BY <1>3, <2>1 DEF OnePartEach
  <2>3. FlattenSeq(G) \in Seq(Apart(M, p))
    BY <1>2, <2>2
  <2> QED BY <2>3 DEF p
<1>7. FlattenSeq(G) \in Seq(Not(M, "omitted"))
  <2>1. \A id : Named(About(r, M), id) \subseteq Not(M, "omitted")
    BY DEF Named, Not, About
  <2>2. \A j \in DOMAIN r.findings : G[j] \in Seq(Not(M, "omitted"))
    BY <2>1, SeqMono
  <2> QED BY <1>2, <2>2
<1> QED BY <1>5, <1>6, <1>7 DEF FindingsTold

\* ... and so do those of the observations.
LEMMA ObservationsJoined ==
  ASSUME NEW M, NEW r \in Report, OnePartEach(r),
         NEW G, G = [j \in DOMAIN r.observations |-> G[j]],
         \A j \in DOMAIN r.observations :
           /\ G[j] \in Seq(Named(About(r, M), r.observations[j].id))
           /\ Shows(G[j], M, ObservationPart(r, r.observations[j]))
  PROVE  ObservationsTold(FlattenSeq(G), M, r)
<1>1. r.observations \in Seq(Observation) /\ DOMAIN G = DOMAIN r.observations
  BY DEF Report
<1>2. ASSUME NEW S, \A j \in DOMAIN r.observations : G[j] \in Seq(S)
      PROVE  G \in Seq(Seq(S)) /\ FlattenSeq(G) \in Seq(S)
  <2>1. G \in [DOMAIN r.observations -> Seq(S)]
    BY <1>2
  <2> QED BY <1>1, <2>1, EachPiece
<1>3. ASSUME NEW j \in DOMAIN r.observations, NEW p, DOMAIN p.adds \subseteq Loud,
             r.observations[j].id # p.id
      PROVE  G[j] \in Seq(Apart(M, p))
  <2> DEFINE S == Named(About(r, M), r.observations[j].id)
             T == Apart(M, p)
             s == G[j]
  <2>1. S \subseteq T
    BY <1>3, ApartFrom
  <2>2. s \in Seq(S)
    OBVIOUS
  <2> HIDE DEF S, T, s
  <2>3. s \in Seq(T)
    BY <2>1, <2>2, SeqMono
  <2> QED BY <2>3 DEF s, T
<1>4. G \in Seq(Seq(Items(M)))
  <2>1. \A j \in DOMAIN r.observations : G[j] \in Seq(Items(M))
    BY DEF Shows
  <2> QED BY <1>2, <2>1
<1>5. ASSUME NEW j \in DOMAIN r.observations
      PROVE  Shows(FlattenSeq(G), M, ObservationPart(r, r.observations[j]))
  <2> DEFINE p == ObservationPart(r, r.observations[j])
  <2>1. DOMAIN p.adds \subseteq Loud /\ p.id = r.observations[j].id
    BY ObservationKinds
  <2>2. Shows(G[j], M, p)
    OBVIOUS
  <2> HIDE DEF p
  <2>3. \A k \in DOMAIN G : k # j => G[k] \in Seq(Apart(M, p))
    BY <1>1, <1>3, <2>1 DEF OnePartEach
  <2>4. Shows(FlattenSeq(G), M, p)
    BY <1>1, <1>4, <2>2, <2>3, ShowsAmong
  <2> QED BY <2>4 DEF p
<1>6. ASSUME NEW k \in DOMAIN r.findings
      PROVE  FlattenSeq(G) \in Seq(Apart(M, FindingPart(r, r.findings[k])))
  <2> DEFINE p == FindingPart(r, r.findings[k])
  <2>1. DOMAIN p.adds \subseteq Loud /\ p.id = r.findings[k].id
    BY FindingKinds
  <2> HIDE DEF p
  <2>2. \A j \in DOMAIN r.observations : G[j] \in Seq(Apart(M, p))
    BY <1>3, <2>1 DEF OnePartEach
  <2>3. FlattenSeq(G) \in Seq(Apart(M, p))
    BY <1>2, <2>2
  <2> QED BY <2>3 DEF p
<1> QED BY <1>5, <1>6 DEF ObservationsTold

\* Both together show the report.
LEMMA BothTold ==
  ASSUME NEW M, NEW r, NEW D, NEW E, FindingsTold(D, M, r), ObservationsTold(E, M, r)
  PROVE  Told(D \o E, M, r) /\ Told(E \o D, M, r)
BY ShowsJoined DEF FindingsTold, ObservationsTold, Told

\* The items without the numbers of a part change nothing.
LEMMA SoftAround ==
  ASSUME NEW M, NEW r, NEW D, NEW t \in Seq(Soft(Items(M)))
  PROVE  /\ Told(D, M, r) => Told(D \o t, M, r) /\ Told(t \o D, M, r)
         /\ FindingsTold(D, M, r) => FindingsTold(t \o D, M, r)
         /\ ObservationsTold(D, M, r) => /\ ObservationsTold(D \o t, M, r)
                                         /\ ObservationsTold(t \o D, M, r)
<1>1. ASSUME NEW p, DOMAIN p.adds \subseteq Loud PROVE t \in Seq(Apart(M, p))
  <2>1. Soft(Items(M)) \subseteq Apart(M, p)
    BY <1>1, ApartFrom
  <2> QED BY <2>1, SeqMono
<1>2. \A f : t \in Seq(Apart(M, FindingPart(r, f)))
  BY <1>1, FindingKinds
<1>3. \A o : t \in Seq(Apart(M, ObservationPart(r, o)))
  BY <1>1, ObservationKinds
<1>4. \A f : Shows(D, M, FindingPart(r, f)) => /\ Shows(D \o t, M, FindingPart(r, f))
                                                /\ Shows(t \o D, M, FindingPart(r, f))
  BY <1>2, ShowsJoined
<1>5. \A o : Shows(D, M, ObservationPart(r, o)) => /\ Shows(D \o t, M, ObservationPart(r, o))
                                                    /\ Shows(t \o D, M, ObservationPart(r, o))
  BY <1>3, ShowsJoined
<1>6. \A f : D \in Seq(Apart(M, FindingPart(r, f))) =>
        /\ D \o t \in Seq(Apart(M, FindingPart(r, f)))
        /\ t \o D \in Seq(Apart(M, FindingPart(r, f)))
  BY <1>2, ConcatRange
<1>7. \A o : D \in Seq(Apart(M, ObservationPart(r, o))) =>
        t \o D \in Seq(Apart(M, ObservationPart(r, o)))
  BY <1>3, ConcatRange
<1>8. Told(D, M, r) => Told(D \o t, M, r) /\ Told(t \o D, M, r)
  BY <1>4, <1>5 DEF Told
<1>9. FindingsTold(D, M, r) => FindingsTold(t \o D, M, r)
  BY <1>4, <1>7 DEF FindingsTold
<1>10. ObservationsTold(D, M, r) => /\ ObservationsTold(D \o t, M, r)
                                    /\ ObservationsTold(t \o D, M, r)
  BY <1>5, <1>6 DEF ObservationsTold
<1> QED BY <1>8, <1>9, <1>10

\* What is listed of a finding, with all its lines or with a preview, shows it,
LEMMA FindingListed ==
  ASSUME NEW M, Nat \subseteq M.n, NEW r \in Report, NEW j \in DOMAIN r.findings
  PROVE  LET f == r.findings[j]
             S == Named(About(r, M), f.id)
             p == FindingPart(r, f)
         IN /\ FindingItem(r, f) \o Lines(r, f) \in Seq(S)
            /\ Shows(FindingItem(r, f) \o Lines(r, f), M, p)
            /\ \A n \in Nat : /\ FindingItem(r, f) \o Preview(r, f, n) \in Seq(S)
                              /\ Shows(FindingItem(r, f) \o Preview(r, f, n), M, p)
<1> DEFINE f == r.findings[j]
           S == Named(About(r, M), f.id)
           p == FindingPart(r, f)
           b == FindingItem(r, f)
           O == Elsewhere(M, r.target, f.id, {"line"})
           T == Not(M, "finding")
           Good(X) == b \o X \in Seq(S) /\ Shows(b \o X, M, p)
<1>1. f \in Finding
  BY DEF Report
<1>2. b \in Seq(S) /\ Lines(r, f) \in Seq(S) /\ \A n \in Nat : Preview(r, f, n) \in Seq(S)
  BY FindingPieces
<1>3. \A n \in Nat : /\ AddsUp(Lines(r, f), O, f.lines) /\ AddsUp(Preview(r, f, n), O, f.lines)
                     /\ Lines(r, f) \in Seq(T) /\ Preview(r, f, n) \in Seq(T)
  BY <1>1, LinesAddUp
<1>4. ASSUME NEW X, X \in Seq(S), X \in Seq(T), AddsUp(X, O, f.lines) PROVE Good(X)
  <2>1. Shows(b \o X, M, p)
    BY <1>1, <1>4, FindingShows
  <2> HIDE DEF S, p, b
  <2>2. b \o X \in Seq(S)
    BY <1>2, <1>4, ConcatRange
  <2> QED BY <2>1, <2>2
<1> HIDE DEF f, S, O, T, Good
<1>5. Good(Lines(r, f)) /\ \A n \in Nat : Good(Preview(r, f, n))
  <2>1. 0 \in Nat
    OBVIOUS
  <2>2. Good(Lines(r, f))
    BY <1>2, <1>3, <1>4, <2>1
  <2>3. ASSUME NEW n \in Nat PROVE Good(Preview(r, f, n))
    <3> DEFINE X == Preview(r, f, n)
    <3>1. X \in Seq(S) /\ X \in Seq(T) /\ AddsUp(X, O, f.lines)
      BY <1>2, <1>3
    <3> HIDE DEF X
    <3>2. Good(X)
      BY <1>4, <3>1
    <3> QED BY <3>2 DEF X
  <2> QED BY <2>2, <2>3
<1> QED BY <1>5 DEF Good, f, S

\* ... and so it is with an observation.
LEMMA ObservationListed ==
  ASSUME NEW M, Nat \subseteq M.n, NEW r \in Report, NEW j \in DOMAIN r.observations
  PROVE  LET o == r.observations[j]
             S == Named(About(r, M), o.id)
             p == ObservationPart(r, o)
         IN /\ ObservationItem(r, o) \o Lines(r, o) \in Seq(S)
            /\ Shows(ObservationItem(r, o) \o Lines(r, o), M, p)
            /\ \A n \in Nat : /\ ObservationItem(r, o) \o Preview(r, o, n) \in Seq(S)
                              /\ Shows(ObservationItem(r, o) \o Preview(r, o, n), M, p)
<1> DEFINE o == r.observations[j]
           S == Named(About(r, M), o.id)
           p == ObservationPart(r, o)
           b == ObservationItem(r, o)
           O == Elsewhere(M, r.target, o.id, {"line"})
           T == Items(M)
           Good(X) == b \o X \in Seq(S) /\ Shows(b \o X, M, p)
<1>1. o \in Observation
  BY DEF Report
<1>2. b \in Seq(S) /\ Lines(r, o) \in Seq(S) /\ \A n \in Nat : Preview(r, o, n) \in Seq(S)
  BY ObservationPieces
<1>3. \A n \in Nat : AddsUp(Lines(r, o), O, o.lines) /\ AddsUp(Preview(r, o, n), O, o.lines)
  BY <1>1, LinesAddUp
<1>4. S \subseteq T
  BY DEF Named, About
<1>5. ASSUME NEW X, X \in Seq(S), AddsUp(X, O, o.lines) PROVE Good(X)
  <2> HIDE DEF S, T
  <2>1. X \in Seq(T)
    BY <1>4, <1>5, SeqMono
  <2>2. Shows(b \o X, M, p)
    BY <1>1, <1>5, <2>1, ObservationShows DEF T
  <2> HIDE DEF p, b
  <2>3. b \o X \in Seq(S)
    BY <1>2, <1>5, ConcatRange
  <2> QED BY <2>2, <2>3
<1> HIDE DEF o, S, O, T, Good
<1>6. Good(Lines(r, o)) /\ \A n \in Nat : Good(Preview(r, o, n))
  <2>1. 0 \in Nat
    OBVIOUS
  <2>2. Good(Lines(r, o))
    BY <1>2, <1>3, <1>5, <2>1
  <2>3. ASSUME NEW n \in Nat PROVE Good(Preview(r, o, n))
    <3> DEFINE X == Preview(r, o, n)
    <3>1. X \in Seq(S) /\ AddsUp(X, O, o.lines)
      BY <1>2, <1>3
    <3> HIDE DEF X
    <3>2. Good(X)
      BY <1>5, <3>1
    <3> QED BY <3>2 DEF X
  <2> QED BY <2>2, <2>3
<1> QED BY <1>6 DEF Good, o, S

\* The lists of the findings and of the observations show them all.
LEMMA ListsTell ==
  ASSUME NEW M, Nat \subseteq M.n, NEW r \in Report, OnePartEach(r)
  PROVE  /\ FindingsTold(ForEach(r.findings, LAMBDA f : FindingItem(r, f) \o Lines(r, f)), M, r)
         /\ ObservationsTold(ForEach(r.observations,
                                     LAMBDA o : ObservationItem(r, o) \o Lines(r, o)), M, r)
         /\ \A n \in Nat :
              /\ FindingsTold(ForEach(r.findings,
                                      LAMBDA f : FindingItem(r, f) \o Preview(r, f, n)), M, r)
              /\ ObservationsTold(ForEach(r.observations,
                                          LAMBDA o : ObservationItem(r, o) \o Preview(r, o, n)),
                                  M, r)
<1>1. FindingsTold(ForEach(r.findings, LAMBDA f : FindingItem(r, f) \o Lines(r, f)), M, r)
  <2> DEFINE G == [j \in DOMAIN r.findings |->
                     FindingItem(r, r.findings[j]) \o Lines(r, r.findings[j])]
  <2>1. \A j \in DOMAIN r.findings : /\ G[j] \in Seq(Named(About(r, M), r.findings[j].id))
                                     /\ Shows(G[j], M, FindingPart(r, r.findings[j]))
    BY FindingListed
  <2>2. G = [j \in DOMAIN r.findings |-> G[j]]
    OBVIOUS
  <2> HIDE DEF G
  <2>3. FindingsTold(FlattenSeq(G), M, r)
    BY <2>1, <2>2, FindingsJoined
  <2> QED BY <2>3 DEF G, ForEach
<1>2. ObservationsTold(ForEach(r.observations,
                               LAMBDA o : ObservationItem(r, o) \o Lines(r, o)), M, r)
  <2> DEFINE G == [j \in DOMAIN r.observations |->
                     ObservationItem(r, r.observations[j]) \o Lines(r, r.observations[j])]
  <2>1. \A j \in DOMAIN r.observations :
          /\ G[j] \in Seq(Named(About(r, M), r.observations[j].id))
          /\ Shows(G[j], M, ObservationPart(r, r.observations[j]))
    BY ObservationListed
  <2>2. G = [j \in DOMAIN r.observations |-> G[j]]
    OBVIOUS
  <2> HIDE DEF G
  <2>3. ObservationsTold(FlattenSeq(G), M, r)
    BY <2>1, <2>2, ObservationsJoined
  <2> QED BY <2>3 DEF G, ForEach
<1>3. ASSUME NEW n \in Nat
      PROVE  FindingsTold(ForEach(r.findings,
                                  LAMBDA f : FindingItem(r, f) \o Preview(r, f, n)), M, r)
  <2> DEFINE G == [j \in DOMAIN r.findings |->
                     FindingItem(r, r.findings[j]) \o Preview(r, r.findings[j], n)]
  <2>1. \A j \in DOMAIN r.findings : /\ G[j] \in Seq(Named(About(r, M), r.findings[j].id))
                                     /\ Shows(G[j], M, FindingPart(r, r.findings[j]))
    BY FindingListed
  <2>2. G = [j \in DOMAIN r.findings |-> G[j]]
    OBVIOUS
  <2> HIDE DEF G
  <2>3. FindingsTold(FlattenSeq(G), M, r)
    BY <2>1, <2>2, FindingsJoined
  <2> QED BY <2>3 DEF G, ForEach
<1>4. ASSUME NEW n \in Nat
      PROVE  ObservationsTold(ForEach(r.observations,
                                      LAMBDA o : ObservationItem(r, o) \o Preview(r, o, n)), M, r)
  <2> DEFINE G == [j \in DOMAIN r.observations |->
                     ObservationItem(r, r.observations[j]) \o Preview(r, r.observations[j], n)]
  <2>1. \A j \in DOMAIN r.observations :
          /\ G[j] \in Seq(Named(About(r, M), r.observations[j].id))
          /\ Shows(G[j], M, ObservationPart(r, r.observations[j]))
    BY ObservationListed
  <2>2. G = [j \in DOMAIN r.observations |-> G[j]]
    OBVIOUS
  <2> HIDE DEF G
  <2>3. ObservationsTold(FlattenSeq(G), M, r)
    BY <2>1, <2>2, ObservationsJoined
  <2> QED BY <2>3 DEF G, ForEach
<1> QED BY <1>1, <1>2, <1>3, <1>4

\* The heading, the verdict, the errors and the counts have none of the numbers.
LEMMA SoftPieces ==
  ASSUME NEW M, Nat \subseteq M.n, NEW r \in Report
  PROVE  /\ Heading(r) \in Seq(Soft(Items(M))) /\ Errors(r) \in Seq(Soft(Items(M)))
         /\ Heading(r) \o PassOrNot(r) \in Seq(Soft(Items(M)))
         /\ Counted(r.target, <<r>>, M) => Counts(r.target, <<r>>) \in Seq(Soft(Items(M)))
<1> DEFINE S == Soft(About(r, M))
           T == Soft(Items(M))
<1>1. /\ Heading(r) \in Seq(S) /\ PassOrNot(r) \in Seq(S) /\ Errors(r) \in Seq(S)
      /\ Counted(r.target, <<r>>, M) => Counts(r.target, <<r>>) \in Seq(S)
  BY SmallPieces, CountPieces
<1>2. S \subseteq T
  BY DEF Soft, About
<1> HIDE DEF S, T
<1>3. \A s \in Seq(S) : s \in Seq(T)
  BY <1>2, SeqMono
<1>4. Heading(r) \o PassOrNot(r) \in Seq(S)
  BY <1>1, ConcatRange
<1> QED BY <1>1, <1>3, <1>4 DEF T

\* Parts tells a report,
LEMMA PartsTell ==
  ASSUME NEW M, Nat \subseteq M.n, NEW r \in Report, OnePartEach(r)
  PROVE  Told(Parts(r), M, r)
<1> DEFINE g == ForEach(r.findings, LAMBDA f : FindingItem(r, f) \o Lines(r, f))
           h == ForEach(r.observations, LAMBDA o : ObservationItem(r, o) \o Lines(r, o))
<1>1. FindingsTold(g, M, r) /\ ObservationsTold(h, M, r)
  BY ListsTell
<1>2. Parts(r) = (g \o h) \o Errors(r)
  BY DEF Parts
<1> HIDE DEF g, h
<1>3. Told(g \o h, M, r)
  BY <1>1, BothTold
<1> QED BY <1>2, <1>3, SoftPieces, SoftAround

\* ... and so do human output,
LEMMA HumanTells ==
  ASSUME NEW M, Nat \subseteq M.n, NEW r \in Report, OnePartEach(r), Counted(r.target, <<r>>, M)
  PROVE  Told(HumanReport(r), M, r)
<1> DEFINE g == ForEach(r.findings, LAMBDA f : FindingItem(r, f) \o Preview(r, f, HumanPreview))
           h == ForEach(r.observations,
                        LAMBDA o : ObservationItem(r, o) \o Preview(r, o, HumanData))
           top == Heading(r) \o PassOrNot(r)
           c == Counts(r.target, <<r>>)
<1>1. FindingsTold(g, M, r) /\ ObservationsTold(h, M, r)
  <2>1. HumanPreview \in Nat /\ HumanData \in Nat
    BY DEF HumanPreview, HumanData
  <2> QED BY <2>1, ListsTell
<1>2. HumanReport(r) = (((top \o g) \o h) \o Errors(r)) \o c
  BY DEF HumanReport
<1>3. /\ top \in Seq(Soft(Items(M))) /\ Errors(r) \in Seq(Soft(Items(M)))
      /\ c \in Seq(Soft(Items(M)))
  BY SoftPieces
<1> HIDE DEF g, h, top, c
<1>4. FindingsTold(top \o g, M, r)
  BY <1>1, <1>3, SoftAround
<1>5. Told((top \o g) \o h, M, r)
  BY <1>1, <1>4, BothTold
<1>6. Told(((top \o g) \o h) \o Errors(r), M, r)
  BY <1>3, <1>5, SoftAround
<1> QED BY <1>2, <1>3, <1>6, SoftAround

\* ... HTML and JSON,
LEMMA HtmlTells ==
  ASSUME NEW M, Nat \subseteq M.n, NEW r \in Report, OnePartEach(r)
  PROVE  /\ Counted(r.target, <<r>>, M) => Told(HtmlTarget(r), M, r)
         /\ Told(Heading(r) \o Parts(r), M, r)
<1> DEFINE top == Heading(r) \o PassOrNot(r)
           c == Counts(r.target, <<r>>)
           D == Parts(r)
<1>1. Told(D, M, r)
  BY PartsTell
<1>2. HtmlTarget(r) = (top \o D) \o c
  BY DEF HtmlTarget
<1>3. /\ top \in Seq(Soft(Items(M))) /\ Heading(r) \in Seq(Soft(Items(M)))
      /\ Counted(r.target, <<r>>, M) => c \in Seq(Soft(Items(M)))
  BY SoftPieces
<1> HIDE DEF top, c, D
<1>4. Told(top \o D, M, r) /\ Told(Heading(r) \o D, M, r)
  BY <1>1, <1>3, SoftAround
<1>5. Counted(r.target, <<r>>, M) => Told((top \o D) \o c, M, r)
  BY <1>3, <1>4, SoftAround
<1> QED BY <1>2, <1>4, <1>5 DEF D

\* ... and OCSF, which shows the findings after the Scan Activity with the observations.
LEMMA OcsfTells ==
  ASSUME NEW M, Nat \subseteq M.n, NEW r \in Report, OnePartEach(r)
  PROVE  Told(ScanActivity(r) \o FlattenSeq([j \in DOMAIN r.findings |->
                                               DetectionFinding(r, r.findings[j])]), M, r)
<1> DEFINE q == [r EXCEPT !.findings = <<>>]
           h == ForEach(r.observations, LAMBDA o : ObservationItem(r, o) \o Lines(r, o))
           e == FlattenSeq([k \in DOMAIN q.findings |->
                              FindingItem(q, q.findings[k]) \o Lines(q, q.findings[k])])
           hq == FlattenSeq([k \in DOMAIN q.observations |->
                               ObservationItem(q, q.observations[k])
                                 \o Lines(q, q.observations[k])])
           g == ForEach(r.findings, LAMBDA f : FindingItem(r, f) \o Lines(r, f))
           S == Soft(Items(M))
           u == When(~CollectorFailed(r), <<Item("Completed", r.target, "", 0)>>)
           v == When(~Incomplete(r), <<Item("Success", r.target, "", 0)>>)
           c == <<Item("findings", r.target, "", Len(r.findings))>>
           x == When(r.packed, <<Item("pack", r.target, "", 0)>>)
<1>1. FindingsTold(g, M, r) /\ ObservationsTold(h, M, r)
  BY ListsTell
<1>2. /\ q.findings = <<>> /\ q.observations = r.observations /\ q.errors = r.errors
      /\ q.target = r.target
  BY DEF Report
<1>3. Errors(q) = Errors(r)
  BY <1>2 DEF Errors
<1>4. hq = h
  <2>1. \A o : ObservationItem(q, o) = ObservationItem(r, o) /\ Lines(q, o) = Lines(r, o)
    BY <1>2 DEF ObservationItem, Lines
  <2> HIDE DEF q
  <2>2. [k \in DOMAIN q.observations |-> ObservationItem(q, q.observations[k])
                                            \o Lines(q, q.observations[k])]
        = [k \in DOMAIN r.observations |-> ObservationItem(r, r.observations[k])
                                              \o Lines(r, r.observations[k])]
    BY <1>2, <2>1
  <2> QED BY <2>2 DEF ForEach
<1>5. e \in Seq(S)
  <2> DEFINE G == [k \in DOMAIN q.findings |->
                     FindingItem(q, q.findings[k]) \o Lines(q, q.findings[k])]
  <2>1. <<>> \in Seq(Report) /\ G \in [DOMAIN <<>> -> Seq(S)]
    BY <1>2
  <2> HIDE DEF G, S
  <2>2. FlattenSeq(G) \in Seq(S)
    BY <2>1, EachPiece
  <2> QED BY <2>2 DEF G
<1>6. Parts(q) = (e \o h) \o Errors(r)
  <2>1. Parts(q) = (e \o hq) \o Errors(q)
    BY DEF Parts, ForEach
  <2> HIDE DEF e, hq, h, q
  <2> QED BY <1>3, <1>4, <2>1
<1>7. ScanActivity(r) = (((u \o v) \o c) \o Parts(q)) \o x
  BY DEF ScanActivity
<1>8. u \in Seq(S) /\ v \in Seq(S) /\ c \in Seq(S) /\ x \in Seq(S) /\ Errors(r) \in Seq(S)
  <2> DEFINE a1 == Item("Completed", r.target, "", 0)
             a2 == Item("Success", r.target, "", 0)
             a3 == Item("findings", r.target, "", Len(r.findings))
             a4 == Item("pack", r.target, "", 0)
  <2>1. r.target \in Nat /\ 0 \in M.n /\ Len(r.findings) \in M.n
    BY DEF Report
  <2>2. a1 \in S /\ a2 \in S /\ a3 \in S /\ a4 \in S
    BY <2>1 DEF Soft, Loud, Items, Kinds, Item
  <2>3. /\ u = When(~CollectorFailed(r), <<a1>>) /\ v = When(~Incomplete(r), <<a2>>)
        /\ c = <<a3>> /\ x = When(r.packed, <<a4>>)
    OBVIOUS
  <2>4. Errors(r) \in Seq(S)
    BY SoftPieces
  <2> HIDE DEF a1, a2, a3, a4, S, u, v, c, x
  <2> QED BY <2>2, <2>3, <2>4 DEF When
<1>9. ForEach(r.findings, LAMBDA f : FindingItem(r, f) \o Lines(r, f))
        = FlattenSeq([j \in DOMAIN r.findings |-> DetectionFinding(r, r.findings[j])])
  BY DEF ForEach, DetectionFinding
<1> DEFINE y == (u \o v) \o c
           t == (e \o h) \o Errors(r)
           A == (y \o t) \o x
<1>10. y \in Seq(S)
  <2> HIDE DEF u, v, c, S
  <2> QED BY <1>8, ConcatRange
<1>11. ScanActivity(r) = A
  BY <1>6, <1>7
<1> HIDE DEF e, h, g, u, v, c, x, q, y
<1>12. ObservationsTold(e \o h, M, r)
  BY <1>1, <1>5, SoftAround
<1>13. ObservationsTold(t, M, r)
  BY <1>8, <1>12, SoftAround
<1> HIDE DEF t
<1>14. ObservationsTold(y \o t, M, r)
  BY <1>10, <1>13, SoftAround
<1>15. ObservationsTold(A, M, r)
  BY <1>8, <1>14, SoftAround
<1> HIDE DEF A
<1>16. Told(A \o g, M, r)
  BY <1>1, <1>15, BothTold
<1> QED BY <1>9, <1>11, <1>16 DEF g

-----------------------------------------------------------------------------
\* A document that is out in full tells a report, or only the number of its observations.
Reported(D, M, r) ==
  /\ \A j \in DOMAIN r.findings : Shows(D, M, FindingPart(r, r.findings[j]))
  /\ \/ \A j \in DOMAIN r.observations : Shows(D, M, ObservationPart(r, r.observations[j]))
     \/ Shows(D, M, OmittedPart(r))

\* What is said of other targets does not matter to a part.
LEMMA ShowsAmongReports ==
  ASSUME NEW M, NEW rs \in Seq(Report), Distinct(rs), NEW G, G = [k \in DOMAIN rs |-> G[k]],
         \A k \in DOMAIN rs : G[k] \in Pieces(rs[k], M), NEW i \in DOMAIN rs, NEW p,
         p.on = rs[i].target, DOMAIN p.adds \subseteq Loud, Shows(G[i], M, p)
  PROVE  Shows(FlattenSeq(G), M, p)
<1>1. ASSUME NEW k \in DOMAIN rs PROVE G[k] \in Seq(Items(M))
  <2> DEFINE S == About(rs[k], M)
             T == Items(M)
             s == G[k]
  <2>1. S \subseteq T /\ s \in Seq(S)
    BY DEF About, Pieces
  <2> HIDE DEF S, T, s
  <2>2. s \in Seq(T)
    BY <2>1, SeqMono
  <2> QED BY <2>2 DEF s, T
<1>2. G \in Seq(Seq(Items(M))) /\ DOMAIN G = DOMAIN rs
  <2>1. G \in [DOMAIN rs -> Seq(Items(M))]
    BY <1>1
  <2> QED BY <2>1, EachPiece
<1>3. ASSUME NEW k \in DOMAIN rs, k # i PROVE G[k] \in Seq(Apart(M, p))
  <2> DEFINE S == About(rs[k], M)
             T == Apart(M, p)
             s == G[k]
  <2>1. rs[k].target # p.on
    BY <1>3 DEF Distinct
  <2>2. S \subseteq T
    BY <2>1, ApartFrom
  <2>3. s \in Seq(S)
    BY DEF Pieces
  <2> HIDE DEF S, T, s
  <2>4. s \in Seq(T)
    BY <2>2, <2>3, SeqMono
  <2> QED BY <2>4 DEF s, T
<1> QED BY <1>2, <1>3, ShowsAmong

\* Reports that are told one after the other are all reported, whatever without numbers
\* stands before and after them.
LEMMA AllReported ==
  ASSUME NEW M, NEW rs \in Seq(Report), Distinct(rs), NEW G, G = [k \in DOMAIN rs |-> G[k]],
         \A k \in DOMAIN rs : G[k] \in Pieces(rs[k], M) /\ Told(G[k], M, rs[k]),
         NEW s \in Seq(Soft(Items(M))), NEW t \in Seq(Soft(Items(M))), NEW k \in DOMAIN rs
  PROVE  /\ Reported(FlattenSeq(G), M, rs[k]) /\ Reported(FlattenSeq(G) \o t, M, rs[k])
         /\ Reported(s \o FlattenSeq(G), M, rs[k])
<1> DEFINE F == FlattenSeq(G)
           r == rs[k]
<1>1. ASSUME NEW p, p.on = r.target, DOMAIN p.adds \subseteq Loud, Shows(G[k], M, p)
      PROVE  Shows(F, M, p)
  BY <1>1, ShowsAmongReports
<1>2. Told(G[k], M, r)
  OBVIOUS
<1> HIDE DEF F, r
<1>3. Told(F, M, r)
  <2>1. \A j \in DOMAIN r.findings : Shows(F, M, FindingPart(r, r.findings[j]))
    BY <1>1, <1>2, FindingKinds DEF Told
  <2>2. \A j \in DOMAIN r.observations : Shows(F, M, ObservationPart(r, r.observations[j]))
    BY <1>1, <1>2, ObservationKinds DEF Told
  <2> QED BY <2>1, <2>2 DEF Told
<1>4. Told(F \o t, M, r) /\ Told(s \o F, M, r)
  BY <1>3, SoftAround
<1> QED BY <1>3, <1>4 DEF Told, Reported, F, r

\* The items of the fleet that close or head a document have no numbers of a report.
LEMMA SoftEnd ==
  ASSUME NEW M, Nat \subseteq M.n
  PROVE  End \in Seq(Soft(Items(M)))
<1> DEFINE x == Item("end", Fleet, "", 0)
           S == Soft(Items(M))
<1>1. x \in S /\ End = <<x>>
  BY DEF Soft, Loud, Items, Kinds, Item, Fleet, End
<1> HIDE DEF x, S
<1> QED BY <1>1 DEF S

\* Every report has one finding or one observation of each probe.
Parted(rs) == \A k \in DOMAIN rs : OnePartEach(rs[k])

\* Human output reports everything,
LEMMA HumanReports ==
  ASSUME NEW M, NEW rs \in Seq(Report), AllCounted(rs, M), Distinct(rs), Parted(rs),
         NEW k \in DOMAIN rs
  PROVE  Reported(Human(rs), M, rs[k])
<1> DEFINE G == [i \in DOMAIN rs |-> HumanReport(rs[i])]
<1>1. Human(rs) = FlattenSeq(G)
  BY DEF Human, ForEach
<1>2. \A i \in DOMAIN rs : G[i] \in Pieces(rs[i], M) /\ Told(G[i], M, rs[i])
  BY ReportAt, HumanPieces, HumanTells DEF AllCounted, Parted
<1>3. G = [i \in DOMAIN rs |-> G[i]] /\ End \in Seq(Soft(Items(M)))
  BY SoftEnd DEF AllCounted
<1> HIDE DEF G
<1> QED BY <1>1, <1>2, <1>3, AllReported

\* ... JSON does, in lines or as one value,
LEMMA JsonReports ==
  ASSUME NEW M, NEW rs \in Seq(Report), AllCounted(rs, M), Distinct(rs), Parted(rs),
         NEW k \in DOMAIN rs
  PROVE  Reported(Jsonl(rs), M, rs[k]) /\ Reported(Json(rs), M, rs[k])
<1> DEFINE G == [i \in DOMAIN rs |-> Heading(rs[i]) \o Parts(rs[i])]
<1>1. Jsonl(rs) = FlattenSeq(G) /\ Json(rs) = FlattenSeq(G) \o End
  BY DEF Jsonl, Json, ForEach
<1>2. \A i \in DOMAIN rs : G[i] \in Pieces(rs[i], M) /\ Told(G[i], M, rs[i])
  BY ReportAt, JsonPieces, HtmlTells DEF AllCounted, Parted
<1>3. G = [i \in DOMAIN rs |-> G[i]] /\ End \in Seq(Soft(Items(M)))
  BY SoftEnd DEF AllCounted
<1> HIDE DEF G
<1> QED BY <1>1, <1>2, <1>3, AllReported

\* ... OCSF does,
LEMMA OcsfReports ==
  ASSUME NEW M, NEW rs \in Seq(Report), AllCounted(rs, M), Distinct(rs), Parted(rs),
         NEW k \in DOMAIN rs
  PROVE  Reported(Ocsf(rs), M, rs[k])
<1> DEFINE G == [i \in DOMAIN rs |->
                   ScanActivity(rs[i]) \o FlattenSeq([j \in DOMAIN rs[i].findings |->
                     DetectionFinding(rs[i], rs[i].findings[j])])]
<1>1. Ocsf(rs) = FlattenSeq(G) \o End
  BY DEF Ocsf, ForEach
<1>2. \A i \in DOMAIN rs : G[i] \in Pieces(rs[i], M) /\ Told(G[i], M, rs[i])
  BY ReportAt, OcsfPieces, OcsfTells DEF AllCounted, Parted
<1>3. G = [i \in DOMAIN rs |-> G[i]] /\ End \in Seq(Soft(Items(M)))
  BY SoftEnd DEF AllCounted
<1> HIDE DEF G
<1> QED BY <1>1, <1>2, <1>3, AllReported

\* ... and HTML does, below the summary of the fleet.
LEMMA HtmlReports ==
  ASSUME NEW M, NEW rs \in Seq(Report), AllCounted(rs, M), Distinct(rs), Parted(rs),
         NEW k \in DOMAIN rs
  PROVE  Reported(Html(rs), M, rs[k])
<1> DEFINE G == [i \in DOMAIN rs |-> HtmlTarget(rs[i])]
           F == FlattenSeq(G)
           S == Soft(Items(M))
           top == (Counts(Fleet, rs) \o FleetVerdict(rs))
                    \o When(Len(rs) > 1, ForEach(rs, LAMBDA r :
                         <<Item("findings", r.target, "", Len(r.findings)),
                           Item("errors", r.target, "", Len(r.errors))>>))
<1>1. Html(rs) = top \o F
  BY DEF Html, ForEach
<1>2. \A i \in DOMAIN rs : G[i] \in Pieces(rs[i], M) /\ Told(G[i], M, rs[i])
  BY ReportAt, HtmlPieces, HtmlTells DEF AllCounted, Parted
<1>3. G = [i \in DOMAIN rs |-> G[i]] /\ End \in Seq(Soft(Items(M)))
  BY SoftEnd DEF AllCounted
<1>4. top \in Seq(S)
  <2> DEFINE Q == Quiet(Said(rs, M))
  <2>1. top \in Seq(Q)
    BY HtmlTop
  <2>2. Q \subseteq S
    BY DEF Quiet, Said, Global, About, Soft
  <2> HIDE DEF Q, S, top
  <2> QED BY <2>1, <2>2, SeqMono
<1> HIDE DEF G, top
<1>5. Reported(top \o FlattenSeq(G), M, rs[k])
  BY <1>2, <1>3, <1>4, AllReported
<1> QED BY <1>1, <1>5

\* The results of SARIF show every finding, and count no observations.
LEMMA ResultsTell ==
  ASSUME NEW M, Nat \subseteq M.n, NEW r \in Report, OnePartEach(r), NEW rules \in Seq(STRING),
         \A k \in DOMAIN rules : <<rules[k], k>> \in M.rules
  PROVE  LET s == FlattenSeq([k \in DOMAIN r.findings |->
                    FindingItem(r, r.findings[k]) \o Lines(r, r.findings[k])
                      \o RuleNote(r, rules, r.findings[k])])
         IN FindingsTold(s, M, r) /\ s \in Seq(Not(M, "omitted"))
<1> DEFINE G == [k \in DOMAIN r.findings |->
                   FindingItem(r, r.findings[k]) \o Lines(r, r.findings[k])
                     \o RuleNote(r, rules, r.findings[k])]
<1>1. ASSUME NEW j \in DOMAIN r.findings
      PROVE  /\ G[j] \in Seq(Named(About(r, M), r.findings[j].id))
             /\ Shows(G[j], M, FindingPart(r, r.findings[j]))
  <2> DEFINE f == r.findings[j]
             p == FindingPart(r, f)
             S == Named(About(r, M), f.id)
             T == {x \in Named(About(r, M), f.id) : x.is = "rule index"}
             U == Apart(M, p)
             a == FindingItem(r, f) \o Lines(r, f)
             b == RuleNote(r, rules, f)
  <2>1. f \in Finding
    BY DEF Report
  <2>2. a \in Seq(S) /\ Shows(a, M, p)
    BY FindingListed
  <2>3. b \in Seq(T)
    BY <2>1, RuleNotePiece
  <2>4. T \subseteq S /\ T \subseteq U
    <3>1. DOMAIN p.adds = {"finding", "line"}
      BY DEF FindingPart
    <3> HIDE DEF p
    <3> QED BY <3>1 DEF Named, About, Apart, Elsewhere
  <2>5. G[j] = a \o b
    OBVIOUS
  <2> HIDE DEF f, p, S, T, U, a, b, G
  <2>6. b \in Seq(S) /\ b \in Seq(U)
    BY <2>3, <2>4, SeqMono
  <2>7. a \o b \in Seq(S)
    BY <2>2, <2>6, ConcatRange
  <2>8. Shows(a \o b, M, p)
    BY <2>2, <2>6, ShowsJoined DEF U
  <2> QED BY <2>5, <2>7, <2>8 DEF S, f, p
<1>2. G = [j \in DOMAIN r.findings |-> G[j]]
  OBVIOUS
<1> HIDE DEF G
<1>3. FindingsTold(FlattenSeq(G), M, r) /\ FlattenSeq(G) \in Seq(Not(M, "omitted"))
  BY <1>1, <1>2, FindingsJoined
<1> QED BY <1>3 DEF G

\* SARIF reports every finding and the number of the observations.
LEMMA SarifReports ==
  ASSUME NEW M, NEW rs \in Seq(Report), AllCounted(rs, M), Distinct(rs), Parted(rs),
         NEW probes \in Seq(STRING), NEW severityOf, M.rules = Indexed(Rules(probes, severityOf)),
         NEW i \in DOMAIN rs
  PROVE  Reported(Sarif(rs, probes, severityOf), M, rs[i])
<1> DEFINE rules == Rules(probes, severityOf)
           A == [k \in DOMAIN rules |-> Item("rule", Fleet, rules[k], k)]
           R(k) == FlattenSeq([j \in DOMAIN rs[k].findings |->
                     FindingItem(rs[k], rs[k].findings[j]) \o Lines(rs[k], rs[k].findings[j])
                       \o RuleNote(rs[k], rules, rs[k].findings[j])])
           B == [k \in DOMAIN rs |-> R(k)]
           C == [k \in DOMAIN rs |-> Errors(rs[k])]
           z(k) == Item("omitted", rs[k].target, "", Len(rs[k].observations))
           O == [k \in DOMAIN rs |-> When(rs[k].observations # <<>>, <<z(k)>>)]
           x == Item("successful", Fleet, "", 0)
           y == Item("pack", Fleet, "", 0)
           X == When(\A k \in DOMAIN rs : ~Incomplete(rs[k]), <<x>>)
           Y == When(rs # <<>> /\ rs[1].packed, <<y>>)
           b == FlattenSeq(B)
           c == FlattenSeq(C)
           o == FlattenSeq(O)
           S == Soft(Items(M))
           N1 == Not(M, "omitted")
           U == {e \in Items(M) : e.is \notin {"finding", "line"}}
           r == rs[i]
<1>1. Sarif(rs, probes, severityOf) = A \o b \o c \o o \o X \o Y \o End
  BY DEF Sarif, ForEach, RuleNote
<1>2. Nat \subseteq M.n /\ \A k \in DOMAIN rs : rs[k] \in Report /\ OnePartEach(rs[k])
  BY ReportAt DEF AllCounted, Parted
<1>3. S \subseteq N1 /\ S \subseteq U
  BY DEF Soft, Not, Loud
<1>4. A \in Seq(S)
  <2>1. rules \in Seq(STRING) /\ \A k \in DOMAIN rules : <<rules[k], k>> \in M.rules
    BY RulesType DEF Indexed
  <2> HIDE DEF rules
  <2>2. ASSUME NEW k \in DOMAIN rules PROVE A[k] \in S
    <3>1. rules[k] \in STRING /\ k \in M.n
      BY <1>2, <2>1
    <3>2. Item("rule", Fleet, rules[k], k) \in S
      BY <3>1 DEF Soft, Loud, Items, Kinds, Item, Fleet
    <3> QED BY <3>2
  <2> HIDE DEF S
  <2>3. DOMAIN rules = 1..Len(rules) /\ Len(rules) \in Nat
    BY <2>1
  <2> QED BY <2>2, <2>3
<1>5. ASSUME NEW k \in DOMAIN rs
      PROVE  B[k] \in Pieces(rs[k], M) /\ FindingsTold(B[k], M, rs[k]) /\ B[k] \in Seq(N1)
  <2>1. rules \in Seq(STRING) /\ \A j \in DOMAIN rules : <<rules[j], j>> \in M.rules
    BY RulesType DEF Indexed
  <2> HIDE DEF rules, N1
  <2>2. FindingsTold(R(k), M, rs[k]) /\ R(k) \in Seq(N1)
    BY <1>2, <2>1, ResultsTell DEF N1
  <2>3. R(k) \in Pieces(rs[k], M)
    BY <1>2, <2>1, ResultPieces
  <2>4. B[k] = R(k)
    OBVIOUS
  <2> HIDE DEF R
  <2> QED BY <2>2, <2>3, <2>4
<1>6. C \in [DOMAIN rs -> Seq(S)]
  <2>1. \A k \in DOMAIN rs : Errors(rs[k]) \in Seq(S)
    BY <1>2, SoftPieces
  <2> HIDE DEF S
  <2> QED BY <2>1
<1>7. ASSUME NEW k \in DOMAIN rs
      PROVE  /\ z(k) \in U /\ z(k) \in About(rs[k], M) /\ z(k).n = Len(rs[k].observations)
             /\ Len(rs[k].observations) \in Nat
  <2>1. rs[k].target \in Nat /\ Len(rs[k].observations) \in Nat
    <3>1. rs[k].observations \in Seq(Observation) /\ rs[k].target \in Nat
      BY <1>2 DEF Report
    <3> QED BY <3>1
  <2> QED BY <1>2, <2>1 DEF About, Items, Kinds, Item
<1>8. ASSUME NEW k \in DOMAIN rs
      PROVE  /\ O[k] \in Pieces(rs[k], M) /\ O[k] \in Seq(U)
             /\ rs[k].observations # <<>> => O[k] = <<z(k)>>
  <2> DEFINE w == z(k)
             V == About(rs[k], M)
  <2>1. O[k] = When(rs[k].observations # <<>>, <<w>>) /\ w \in U /\ w \in V
    BY <1>7
  <2> HIDE DEF w, O, U, V
  <2>2. O[k] \in Seq(U) /\ O[k] \in Seq(V) /\ (rs[k].observations # <<>> => O[k] = <<w>>)
    BY <2>1 DEF When
  <2> QED BY <2>2 DEF V, Pieces, w
<1>9. X \in Seq(S) /\ Y \in Seq(S) /\ End \in Seq(S)
  <2>1. x \in S /\ y \in S
    BY <1>2 DEF Soft, Loud, Items, Kinds, Item, Fleet
  <2> HIDE DEF x, y, S
  <2>2. X \in Seq(S) /\ Y \in Seq(S)
    BY <2>1 DEF When
  <2> QED BY <1>2, <2>2, SoftEnd DEF S
<1>10. /\ B = [k \in DOMAIN rs |-> B[k]] /\ C = [k \in DOMAIN rs |-> C[k]]
       /\ O = [k \in DOMAIN rs |-> O[k]]
  OBVIOUS
<1> HIDE DEF A, B, C, O, R, X, Y, z, rules, S, N1, U
<1>11. b \in Seq(N1) /\ c \in Seq(S) /\ o \in Seq(U)
  <2>1. B \in [DOMAIN rs -> Seq(N1)] /\ O \in [DOMAIN rs -> Seq(U)]
    BY <1>5, <1>8, <1>10
  <2> QED BY <1>6, <2>1, EachPiece
<1> HIDE DEF b, c, o
<1> DEFINE s1 == A \o b
           s2 == s1 \o c
           s3 == s2 \o o
           s4 == s3 \o X
           s5 == s4 \o Y
           s6 == s5 \o End
<1>12. \A s \in Seq(S) : s \in Seq(N1) /\ s \in Seq(U)
  BY <1>3, SeqMono
<1>13. s2 \in Seq(N1)
  <2>1. s1 \in Seq(N1)
    BY <1>4, <1>11, <1>12, ConcatRange
  <2> HIDE DEF s1
  <2> QED BY <1>11, <1>12, <2>1, ConcatRange
<1>14. r \in Report /\ i \in DOMAIN rs
  BY <1>2
<1>15. ASSUME NEW p, Shows(s3, M, p), \A s \in Seq(S) : s \in Seq(Apart(M, p))
       PROVE  Shows(s6, M, p)
  <2> HIDE DEF s3
  <2>1. Shows(s4, M, p)
    BY <1>9, <1>15, ShowsJoined
  <2> HIDE DEF s4
  <2>2. Shows(s5, M, p)
    BY <1>9, <1>15, <2>1, ShowsJoined
  <2> HIDE DEF s5
  <2> QED BY <1>9, <1>15, <2>2, ShowsJoined
<1>16. ASSUME NEW j \in DOMAIN r.findings
       PROVE  Shows(s6, M, FindingPart(r, r.findings[j]))
  <2> DEFINE p == FindingPart(r, r.findings[j])
  <2>1. DOMAIN p.adds = {"finding", "line"} /\ p.on = r.target
    BY DEF FindingPart
  <2>2. Shows(B[i], M, p)
    BY <1>5 DEF FindingsTold
  <2> HIDE DEF p
  <2>3. U \subseteq Apart(M, p) /\ DOMAIN p.adds \subseteq Loud
    BY <2>1 DEF U, Apart, Elsewhere, Loud
  <2>4. \A s \in Seq(U) : s \in Seq(Apart(M, p))
    BY <2>3, SeqMono
  <2>5. Shows(b, M, p)
    BY <1>5, <1>10, <2>1, <2>2, <2>3, ShowsAmongReports DEF b
  <2>6. Shows(s1, M, p)
    BY <1>4, <1>12, <2>4, <2>5, ShowsJoined
  <2> HIDE DEF s1
  <2>7. Shows(s2, M, p)
    BY <1>11, <1>12, <2>4, <2>6, ShowsJoined
  <2> HIDE DEF s2
  <2>8. Shows(s3, M, p)
    BY <1>11, <2>4, <2>7, ShowsJoined
  <2> HIDE DEF s3, s6
  <2>9. Shows(s6, M, p)
    BY <1>12, <1>15, <2>4, <2>8
  <2> QED BY <2>9 DEF p
<1>17. r.observations # <<>> => Shows(s6, M, OmittedPart(r))
  <2> SUFFICES ASSUME r.observations # <<>> PROVE Shows(s6, M, OmittedPart(r))
    OBVIOUS
  <2> DEFINE p == OmittedPart(r)
             n == Len(r.observations)
             w == z(i)
  <2>1. /\ DOMAIN p.adds = {"omitted"} /\ p.on = r.target /\ p.id = "" /\ p.items = {}
        /\ p.adds["omitted"] = n
    BY DEF OmittedPart
  <2>2. O[i] = <<w>> /\ w.n = n /\ n \in Nat /\ w \in U
    BY <1>7, <1>8, <1>14
  <2>3. w \notin Elsewhere(M, p.on, p.id, {"omitted"})
    BY <2>1 DEF Elsewhere, z, Item
  <2>4. w \in Items(M)
    BY <2>2 DEF U
  <2> HIDE DEF p, n, w
  <2>5. AddsUp(<<w>>, Elsewhere(M, p.on, p.id, {"omitted"}), n)
    BY <2>2, <2>3, OneAddsUp
  <2>6. <<w>> \in Seq(Items(M))
    BY <2>4
  <2>7. Shows(O[i], M, p)
    BY <2>1, <2>2, <2>5, <2>6 DEF Shows
  <2>8. N1 \subseteq Apart(M, p) /\ DOMAIN p.adds \subseteq Loud
    BY <2>1 DEF N1, Not, Apart, Elsewhere, Loud
  <2>9. \A s \in Seq(N1) : s \in Seq(Apart(M, p))
    BY <2>8, SeqMono
  <2>10. Shows(o, M, p)
    BY <1>8, <1>10, <2>1, <2>7, <2>8, ShowsAmongReports DEF o
  <2> HIDE DEF s2
  <2>11. Shows(s3, M, p)
    BY <1>13, <2>9, <2>10, ShowsJoined
  <2> HIDE DEF s3, s6
  <2>12. Shows(s6, M, p)
    BY <1>12, <1>15, <2>9, <2>11
  <2> QED BY <2>12 DEF p
<1>18. r.observations = <<>> => DOMAIN r.observations = {}
  OBVIOUS
<1>19. Sarif(rs, probes, severityOf) = s6
  BY <1>1
<1> HIDE DEF s6, r
<1>20. Reported(s6, M, r)
  BY <1>16, <1>17, <1>18 DEF Reported
<1> QED BY <1>19, <1>20 DEF r

-----------------------------------------------------------------------------
(* The summary *)

Verdicts == [t \in Targets |-> ReportOf(t)]

\* The summary s says of the reports of S what their verdicts say.
Reflects(s, S) ==
  /\ s.failed <=> \E t \in S : Verdicts[t].collector
  /\ s.incomplete <=> \E t \in S : Verdicts[t].incomplete
  /\ \A t \in S : Verdicts[t].severity <= s.highest
  /\ s.highest # NoSeverity => \E t \in S : Verdicts[t].severity = s.highest

\* Every report has a verdict.
LEMMA VerdictsType == BatchInv => Verdicts \in [Targets -> Verdict]
<1> SUFFICES ASSUME BatchInv, NEW t \in Targets PROVE ReportOf(t) \in Verdict
  BY DEF Verdicts
<1>1. host[t] \in HostBehaviour
  BY DEF BatchInv, BatchTypes
<1>2. PanickedVerdict \in Verdict
  BY DEF PanickedVerdict, Verdict, NoSeverity
<1> QED BY <1>1, <1>2 DEF ReportOf, HostBehaviour

\* Including one more report keeps a summary right.
LEMMA IncludeReflects ==
  ASSUME Verdicts \in [Targets -> Verdict], NEW S \in SUBSET Targets, NEW t \in Targets,
         NEW s \in SummaryType, Reflects(s, S)
  PROVE  /\ Include(s, Verdicts[t]) \in SummaryType
         /\ Include(s, Verdicts[t]).completed = s.completed + 1
         /\ Include(s, Verdicts[t]).requested = s.requested
         /\ Reflects(Include(s, Verdicts[t]), S \cup {t})
<1> DEFINE i == Include(s, Verdicts[t])
           v == Verdicts[t]
<1>1. v \in Verdict
  OBVIOUS
<1>2. /\ i.failed = (s.failed \/ v.collector) /\ i.incomplete = (s.incomplete \/ v.incomplete)
      /\ i.highest = Higher(s.highest, v.severity)
      /\ i.completed = s.completed + 1 /\ i.requested = s.requested
      /\ i = [highest |-> i.highest, failed |-> i.failed, incomplete |-> i.incomplete,
              requested |-> i.requested, completed |-> i.completed]
  BY DEF Include
<1>3. /\ s.highest \in {NoSeverity} \cup Severity /\ s.failed \in BOOLEAN
      /\ s.incomplete \in BOOLEAN /\ s.requested \in Nat /\ s.completed \in Nat
  BY DEF SummaryType
<1>4. /\ v.severity \in {NoSeverity} \cup Severity /\ v.collector \in BOOLEAN
      /\ v.incomplete \in BOOLEAN
  BY <1>1 DEF Verdict
<1>5. /\ s.highest <= i.highest /\ v.severity <= i.highest
      /\ i.highest = s.highest \/ i.highest = v.severity
      /\ i.highest \in Nat /\ i.highest \in {NoSeverity} \cup Severity
  BY <1>2, <1>3, <1>4 DEF Higher, NoSeverity, Severity
<1>6. \A u \in S \cup {t} : Verdicts[u].severity \in Nat
  <2>1. \A x \in Verdict : x.severity \in Nat
    BY DEF Verdict, NoSeverity, Severity
  <2> QED BY <2>1
<1>7. i \in SummaryType
  <2>1. i.failed \in BOOLEAN /\ i.incomplete \in BOOLEAN /\ i.completed \in Nat
        /\ i.requested \in Nat
    BY <1>2, <1>3, <1>4
  <2> HIDE DEF i
  <2> QED BY <1>2, <1>5, <2>1 DEF SummaryType
<1>8. s.highest \in Nat
  BY <1>3 DEF NoSeverity, Severity
<1> HIDE DEF i
<1>9. i.failed <=> \E u \in S \cup {t} : Verdicts[u].collector
  BY <1>2 DEF Reflects
<1>10. i.incomplete <=> \E u \in S \cup {t} : Verdicts[u].incomplete
  BY <1>2 DEF Reflects
<1>11. \A u \in S \cup {t} : Verdicts[u].severity <= i.highest
  BY <1>5, <1>6, <1>8 DEF Reflects
<1>12. i.highest # NoSeverity => \E u \in S \cup {t} : Verdicts[u].severity = i.highest
  BY <1>5 DEF Reflects
<1>13. Reflects(i, S \cup {t})
  BY <1>9, <1>10, <1>11, <1>12 DEF Reflects
<1> QED BY <1>2, <1>7, <1>13 DEF i

\* The fold in Summary includes one report after the other.
LEMMA SummarySteps ==
  ASSUME BatchInv, NEW n, n = Len(reports)
  PROVE  \E at : /\ at[0] = EmptySummary(N)
                 /\ \A k \in 1..n : at[k] = Include(at[k - 1], Verdicts[reports[k]])
                 /\ Summary = at[n]
<1> DEFINE V == [highest : Nat, failed : BOOLEAN, incomplete : BOOLEAN, requested : Nat,
                 completed : Nat]
           W == SummaryType
           base == EmptySummary(N)
           G == [v \in W \X (1..n) |-> Include(v[1], Verdicts[reports[v[2]]])]
           Iter(f) == f = [x \in SUBSET DOMAIN reports |->
                             IF x = {} THEN base
                             ELSE Include(f[x \ {Max(x)}], ReportOf(reports[Max(x)]))]
           iter == CHOOSE f : Iter(f)
<1>1. /\ n \in Nat /\ DOMAIN reports = 1..n /\ \A k \in 1..n : reports[k] \in Targets
      /\ Verdicts \in [Targets -> Verdict]
  BY VerdictsType DEF BatchInv, BatchTypes
<1>2. \A v \in W, k \in 1..n : Include(v, Verdicts[reports[k]]) \in W
  <2>1. ASSUME NEW v \in W, NEW x \in Verdict PROVE Include(v, x) \in W
    <3>1. /\ v.highest \in {NoSeverity} \cup Severity /\ v.failed \in BOOLEAN
          /\ v.incomplete \in BOOLEAN /\ v.requested \in Nat /\ v.completed \in Nat
      BY DEF SummaryType
    <3>2. /\ x.severity \in {NoSeverity} \cup Severity /\ x.collector \in BOOLEAN
          /\ x.incomplete \in BOOLEAN
      BY DEF Verdict
    <3>3. Higher(v.highest, x.severity) \in {NoSeverity} \cup Severity
      BY <3>1, <3>2 DEF Higher
    <3>4. (v.failed \/ x.collector) \in BOOLEAN /\ (v.incomplete \/ x.incomplete) \in BOOLEAN
          /\ v.completed + 1 \in Nat
      BY <3>1, <3>2
    <3> QED BY <3>1, <3>3, <3>4 DEF Include, SummaryType
  <2> HIDE DEF W
  <2> QED BY <1>1, <2>1
<1>3. base \in W /\ G \in [W \X (1..n) -> W]
  <2>1. base \in W
    BY NAssumption DEF EmptySummary, SummaryType
  <2> HIDE DEF W, base
  <2> QED BY <1>2, <2>1
<1>4. \A v \in W, k \in 1..n : G[v, k] = Include(v, Verdicts[reports[k]])
  OBVIOUS
<1> HIDE DEF W, G, base
<1>5. PICK f \in [SUBSET (1..n) -> W] : Folding(f, n, base, G)
  BY <1>1, <1>3, FoldExists
<1>6. Iter(f)
  <2>1. ASSUME NEW x \in SUBSET (1..n)
        PROVE  (IF x = {} THEN base ELSE G[f[x \ {Max(x)}], Max(x)])
             = (IF x = {} THEN base ELSE Include(f[x \ {Max(x)}], ReportOf(reports[Max(x)])))
    <3>1. CASE x = {}
      BY <3>1
    <3>2. CASE x # {}
      <4>1. Max(x) \in 1..n
        BY <1>1, <3>2, MaxPlace
      <4>2. f[x \ {Max(x)}] \in W
        OBVIOUS
      <4>3. Verdicts[reports[Max(x)]] = ReportOf(reports[Max(x)])
        BY <1>1, <4>1 DEF Verdicts
      <4>4. G[f[x \ {Max(x)}], Max(x)] = Include(f[x \ {Max(x)}], Verdicts[reports[Max(x)]])
        BY <1>4, <4>1, <4>2
      <4> QED BY <3>2, <4>3, <4>4
    <3> QED BY <3>1, <3>2
  <2>2. f = [x \in SUBSET (1..n) |-> f[x]]
    BY <1>5
  <2> QED BY <1>1, <1>5, <2>1, <2>2 DEF Folding
<1>7. Iter(iter)
  <2> HIDE DEF Iter
  <2> QED BY <1>6
<1>8. Summary = iter[DOMAIN reports]
  BY DEF Summary, FoldLeft, MapThenFoldSet, base
<1> HIDE DEF iter
<1>9. /\ iter[{}] = base
      /\ \A x \in SUBSET (1..n) : x # {} =>
           iter[x] = Include(iter[x \ {Max(x)}], ReportOf(reports[Max(x)]))
  BY <1>1, <1>7
<1> DEFINE at == [k \in 0..n |-> iter[1..k]]
<1>10. at[0] = EmptySummary(N)
  <2>1. 1..0 = {} /\ 0 \in 0..n
    BY <1>1
  <2> QED BY <1>9, <2>1 DEF base
<1>11. ASSUME NEW k \in 1..n PROVE at[k] = Include(at[k - 1], Verdicts[reports[k]])
  <2>1. k \in 0..n /\ k - 1 \in 0..n /\ 1..k \in SUBSET (1..n) /\ k \in Nat \ {0}
    BY <1>1
  <2>2. 1..k # {} /\ Max(1..k) = k /\ (1..k) \ {k} = 1..k-1
    BY <2>1, LastPlace
  <2>3. iter[1..k] = Include(iter[1..k-1], ReportOf(reports[k]))
    BY <1>1, <1>9, <2>1, <2>2
  <2>4. Verdicts[reports[k]] = ReportOf(reports[k])
    BY <1>1 DEF Verdicts
  <2> QED BY <2>1, <2>3, <2>4
<1>12. Summary = at[n]
  BY <1>1, <1>8
<1> HIDE DEF at
<1> QED BY <1>10, <1>11, <1>12

\* Once the reports are collected, the summary is that of all targets.
LEMMA SummaryReflects ==
  ASSUME BatchInv, main = "collected"
  PROVE  /\ Summary \in SummaryType /\ Reflects(Summary, Targets)
         /\ Summary.completed = N /\ Summary.requested = N
<1> DEFINE n == Len(reports)
           Upto(k) == {reports[i] : i \in 1..k}
<1>1. /\ n = N /\ n \in Nat /\ Range(reports) = Targets /\ DOMAIN reports = 1..n
      /\ \A k \in 1..n : reports[k] \in Targets
      /\ Verdicts \in [Targets -> Verdict]
  <2>1. reports \in Seq(Targets)
    BY DEF BatchInv, BatchTypes
  <2> QED BY <2>1, VerdictsType DEF BatchInv, Held, OneReportEachInOrder
<1>2. PICK at : /\ at[0] = EmptySummary(N)
                /\ \A k \in 1..n : at[k] = Include(at[k - 1], Verdicts[reports[k]])
                /\ Summary = at[n]
  BY SummarySteps
<1> DEFINE Good(k) == /\ at[k] \in SummaryType /\ at[k].completed = k /\ at[k].requested = N
                      /\ Reflects(at[k], Upto(k))
           H == {k \in 0..n : Good(k)}
<1>3. 0 \in H
  <2>1. Upto(0) = {}
    OBVIOUS
  <2>2. EmptySummary(N) \in SummaryType
    BY NAssumption DEF EmptySummary, SummaryType
  <2>3. Reflects(EmptySummary(N), {})
    BY DEF Reflects, EmptySummary
  <2>4. EmptySummary(N).completed = 0 /\ EmptySummary(N).requested = N
    BY DEF EmptySummary
  <2> HIDE DEF Upto
  <2> QED BY <1>1, <1>2, <2>1, <2>2, <2>3, <2>4
<1>4. ASSUME NEW k \in 1..n, k - 1 \in H PROVE k \in H
  <2>1. Good(k - 1) /\ k \in 0..n /\ reports[k] \in Targets
    BY <1>1, <1>4
  <2>2. Upto(k) = Upto(k - 1) \cup {reports[k]} /\ Upto(k - 1) \in SUBSET Targets
    BY <1>1
  <2> HIDE DEF Upto
  <2> DEFINE i == Include(at[k - 1], Verdicts[reports[k]])
  <2>3. /\ i \in SummaryType /\ i.completed = (k - 1) + 1 /\ i.requested = N
        /\ Reflects(i, Upto(k - 1) \cup {reports[k]})
    <3> DEFINE s == at[k - 1]
    <3>1. s \in SummaryType /\ s.completed = k - 1 /\ s.requested = N /\ Reflects(s, Upto(k - 1))
      BY <2>1
    <3> HIDE DEF s
    <3>2. /\ Include(s, Verdicts[reports[k]]) \in SummaryType
          /\ Include(s, Verdicts[reports[k]]).completed = s.completed + 1
          /\ Include(s, Verdicts[reports[k]]).requested = s.requested
          /\ Reflects(Include(s, Verdicts[reports[k]]), Upto(k - 1) \cup {reports[k]})
      BY <1>1, <2>1, <2>2, <3>1, IncludeReflects
    <3> QED BY <3>1, <3>2 DEF s
  <2>4. at[k] = i /\ (k - 1) + 1 = k
    BY <1>1, <1>2
  <2> HIDE DEF i
  <2>5. Good(k)
    BY <2>2, <2>3, <2>4
  <2> QED BY <2>1, <2>5
<1>5. H = 0..n
  <2>1. H \in SUBSET (0..n)
    OBVIOUS
  <2> HIDE DEF H
  <2> QED BY <1>1, <1>3, <1>4, <2>1, SetInduction
<1>6. Good(n)
  <2>1. n \in H
    <3> HIDE DEF H
    <3> QED BY <1>1, <1>5
  <2> QED BY <2>1
<1>7. Upto(n) = Targets
  BY <1>1 DEF Range
<1> QED BY <1>1, <1>2, <1>6, <1>7

-----------------------------------------------------------------------------
(* What has been written *)

Doc == Document(args.format, Reports, active, SeverityOf)

\* What a target's scan did is one of the things it may do.
Known == \A t \in Targets : host[t] \in Hosts[t] \cup {Unscanned}

\* How far the document has come at each stage, and what the exit code was computed from.
Written ==
  /\ args \in Args /\ active \in Seq(STRING)
  /\ shown \in Nat /\ shown <= Len(document)
  /\ stage \in BeforeScan \cup {"scan"} => document = <<>>
  /\ stage \in BeforeScan \cup {"scan", "write"} => wrote = "none" /\ persisted = FALSE
  /\ stage \in AfterScan => document = Doc
  /\ stage = "summary" =>
       /\ wrote \in {"none", "BrokenPipe"}
       /\ wrote = "none" => shown = Len(document) /\ persisted = args.output
  /\ stage = "exited" /\ main # "collected" => document = <<>>
  /\ stage = "exited" /\ main = "collected" =>
       /\ document = Doc
       /\ \/ wrote = "Other" /\ exit.code = 2 /\ persisted = FALSE
          \/ /\ wrote \in {"none", "BrokenPipe"}
             /\ wrote = "none" => shown = Len(document) /\ persisted = args.output
             /\ exit.strict \in BOOLEAN /\ exit.failOn \in FailOns
             /\ exit.code = ReportExit(Summary, exit.strict, exit.failOn)

\* Known and Written hold at the start: nothing has been scanned or written.
LEMMA WrittenInit == Init => Known /\ Written
<1> SUFFICES ASSUME Init PROVE Known /\ Written
  OBVIOUS
<1>1. Known
  BY DEF Init, BatchInit, Known
<1>2. active \in Seq(STRING)
  BY BuiltinsAssumption DEF Init, PackInit
<1>3. Written
  BY <1>2 DEF Init, Written, BeforeScan, AfterScan
<1> QED BY <1>1, <1>3

\* Every step preserves Known: a scan ends in one of the ways it may.
LEMMA KnownNext == BatchInv /\ Known /\ [Next]_vars => Known'
<1> SUFFICES ASSUME BatchInv, Known, [Next]_vars PROVE Known'
  OBVIOUS
<1>1. CASE UNCHANGED host
  BY <1>1 DEF Known
<1>2. ASSUME NEW w \in Workers, Scan(w) PROVE Known'
  <2>1. PICK h \in Hosts[held[w]] : host' = [host EXCEPT ![held[w]] = h]
    BY <1>2 DEF Scan
  <2>2. host \in [Targets -> HostBehaviour]
    BY DEF BatchInv, BatchTypes
  <2> QED BY <2>1, <2>2 DEF Known
<1>3. UNCHANGED host \/ \E w \in Workers : Scan(w)
  BY BatchSteps DEF batchVars, FetchNext, SpawnWorker, SpawnFails, JoinAndSort, Panicked
<1> QED BY <1>1, <1>2, <1>3

\* The document is that of the scan as long as the scan's outcome stays.
LEMMA DocStays ==
  ASSUME UNCHANGED <<packVars, batchVars, args>>
  PROVE  Doc' = Doc /\ Summary' = Summary
<1>1. UNCHANGED <<args, host, reports, pack, active>>
  BY DEF packVars, batchVars
<1>2. Reports' = Reports
  BY <1>1 DEF Reports, ReportAbout
<1>3. Summary' = Summary
  BY <1>1 DEF Summary, ReportOf, FoldLeft, MapThenFoldSet
<1> QED BY <1>1, <1>2, <1>3 DEF Doc

\* The pack's probes are names.
LEMMA ActiveNext ==
  ASSUME active \in Seq(STRING), [Next]_vars
  PROVE  active' \in Seq(STRING)
<1>1. CASE VerifyAndParse
  BY <1>1, ManifestsAssumption DEF VerifyAndParse, Reject, Return
<1>2. active' = active \/ VerifyAndParse
  BY DEF Next, Run, vars, CheckArgs, LoadPack, PackLoaded, ListProbes, CannotOpen, OpenWriter,
         Scanning, Scanned, WriteItems, WriteFails, Persist, Conclude, packVars, Load, Stat, Open,
         Fstat, Read, Meddle, Rewrite, IoError, Replace, Reject, Return
<1> QED BY <1>1, <1>2

\* Every step preserves Written.
LEMMA WrittenNext == Settled /\ ScanStage /\ Written /\ [Next]_vars => Written'
<1> SUFFICES ASSUME Settled, ScanStage, Written, [Next]_vars PROVE Written'
  OBVIOUS
<1>1. active' \in Seq(STRING)
  BY ActiveNext DEF Written
<1> USE DEF Written, ScanStage, BeforeScan, AfterScan, GoTo, ExitWith
<1>2. CASE CheckArgs
  BY <1>1, <1>2 DEF CheckArgs, batchVars
<1>3. CASE LoadPack
  BY <1>1, <1>3 DEF LoadPack, batchVars, runVars
<1>4. CASE PackLoaded
  BY <1>1, <1>4 DEF PackLoaded, batchVars
<1>5. CASE ListProbes
  BY <1>1, <1>5 DEF ListProbes, batchVars
<1>6. CASE CannotOpen
  BY <1>1, <1>6 DEF CannotOpen, batchVars
<1>7. CASE OpenWriter
  BY <1>1, <1>7 DEF OpenWriter, batchVars
<1>8. CASE stage = "scan" /\ UNCHANGED runVars
  BY <1>1, <1>8 DEF runVars
<1>9. CASE Scanned
  <2>1. UNCHANGED <<packVars, batchVars, args>>
    BY <1>9 DEF Scanned
  <2>2. Doc' = Doc /\ main' = main
    BY <2>1, DocStays DEF batchVars
  <2>3. shown = 0 /\ Len(document') \in Nat
    BY <1>9 DEF Scanned
  <2> QED BY <1>1, <1>9, <2>2, <2>3 DEF Scanned, Doc
<1>10. CASE WriteItems
  <2>1. UNCHANGED <<packVars, batchVars, args>>
    BY <1>10 DEF WriteItems
  <2>2. Doc' = Doc /\ main' = main
    BY <2>1, DocStays DEF batchVars
  <2> QED BY <1>1, <1>10, <2>2 DEF WriteItems
<1>11. CASE WriteFails
  <2>1. UNCHANGED <<packVars, batchVars, args>>
    BY <1>11 DEF WriteFails
  <2>2. Doc' = Doc /\ main' = main
    BY <2>1, DocStays DEF batchVars
  <2> QED BY <1>1, <1>11, <2>2 DEF WriteFails, NotExited
<1>12. CASE Persist
  <2>1. UNCHANGED <<packVars, batchVars, args>>
    BY <1>12 DEF Persist
  <2>2. Doc' = Doc /\ main' = main
    BY <2>1, DocStays DEF batchVars
  <2> QED BY <1>1, <1>12, <2>2 DEF Persist
<1>13. CASE Conclude
  <2>1. UNCHANGED <<packVars, batchVars, args>>
    BY <1>13 DEF Conclude
  <2>2. Doc' = Doc /\ main' = main /\ Summary' = Summary
    BY <2>1, DocStays DEF batchVars
  <2> QED BY <1>1, <1>13, <2>2 DEF Conclude, ExitAfterWrite
<1>14. CASE UNCHANGED vars
  <2>1. UNCHANGED <<packVars, batchVars, runVars>>
    BY <1>14 DEF vars
  <2>2. Doc' = Doc /\ main' = main /\ Summary' = Summary
    BY <2>1, DocStays DEF batchVars, runVars
  <2> QED BY <1>1, <2>1, <2>2 DEF runVars
<1>15. CASE stage = "pack" /\ Meddle /\ UNCHANGED <<batchVars, runVars>>
  BY <1>1, <1>15 DEF batchVars, runVars
<1> HIDE DEF Written
<1> QED
  BY <1>2, <1>3, <1>4, <1>5, <1>6, <1>7, <1>8, <1>9, <1>10, <1>11, <1>12, <1>13, <1>14, <1>15
     DEF Next, Run, Scanning

\* Known and Written hold in every state.
LEMMA WrittenInvariant == Spec => [](BatchInv /\ Settled /\ Known /\ Written)
<1>1. Spec => [](BatchInv /\ Settled /\ ScanStage /\ Known /\ Written)
  BY BatchInvariant, SettledInit, SettledNext, ScanStageInit, ScanStageNext, WrittenInit,
     KnownNext, WrittenNext, PTL DEF Spec
<1> QED BY <1>1, PTL

-----------------------------------------------------------------------------
(* PassIsEarned *)

\* What is known of a target that was scanned is one of the contents of Details.
LEMMA DetailsKnown ==
  ASSUME BatchInv, Known, NEW t \in Targets, ~host[t].panics
  PROVE  LET v == host[t].verdict IN
         /\ Details[t][v] \in ReportContent
         /\ v.severity \in Severities(Details[t][v]) \cup {NoSeverity}
         /\ \A s \in Severities(Details[t][v]) : s <= v.severity
         /\ v.incomplete = (Details[t][v].errors # <<>>)
         /\ v.collector = Contains(Details[t][v].errors, "collector")
<1>1. host[t] \in Hosts[t]
  <2>1. host[t] # Unscanned
    BY DEF Unscanned
  <2> QED BY <2>1 DEF Known
<1>2. host[t].verdict \in DOMAIN Details[t]
  BY <1>1, ScansAssumption
<1> QED BY <1>2, DetailsAssumption

\* A report is typed, and says of its target what the verdict says.
LEMMA ReportAgrees ==
  ASSUME BatchInv, Known, NEW t \in Targets
  PROVE  LET r == ReportAbout(t)
             v == ReportOf(t)
         IN /\ r \in Report /\ r.target = t
            /\ v.incomplete <=> Incomplete(r)
            /\ v.collector <=> CollectorFailed(r)
            /\ v.severity \in {NoSeverity} \cup {r.findings[j].severity : j \in DOMAIN r.findings}
            /\ \A j \in DOMAIN r.findings : r.findings[j].severity <= v.severity
<1> DEFINE base == [target |-> t, packed |-> pack = "accepted", host |-> FALSE,
                    findings |-> <<>>, observations |-> <<>>, errors |-> <<"collector">>]
           d == Details[t][host[t].verdict]
           r == ReportAbout(t)
           v == ReportOf(t)
<1>1. t \in Nat /\ (pack = "accepted") \in BOOLEAN
  BY NAssumption DEF Targets
<1>2. CASE host[t].panics
  <2>1. r = base /\ v = PanickedVerdict
    BY <1>2 DEF ReportAbout, ReportOf
  <2>2. /\ r.target = t /\ r.packed = (pack = "accepted") /\ r.host = FALSE /\ r.findings = <<>>
        /\ r.observations = <<>> /\ r.errors = <<"collector">>
    BY <2>1
  <2>3. /\ <<"collector">> \in Seq({"collector"} \cup STRING)
        /\ Len(<<"collector">>) = 1 /\ <<"collector">>[1] = "collector"
    OBVIOUS
  <2>4. base \in Report
    BY <1>1, <2>3 DEF Report
  <2>5. Incomplete(r) /\ CollectorFailed(r)
    BY <2>2, <2>3 DEF Incomplete, CollectorFailed, Contains
  <2>6. v.incomplete /\ v.collector /\ v.severity = NoSeverity
    BY <2>1 DEF PanickedVerdict
  <2>7. DOMAIN r.findings = {}
    BY <2>2
  <2> HIDE DEF r, v, base
  <2> QED BY <2>1, <2>2, <2>4, <2>5, <2>6, <2>7 DEF r, v
<1>3. CASE ~host[t].panics
  <2>1. r = [base EXCEPT !.host = d.host, !.findings = d.findings,
                         !.observations = d.observations, !.errors = d.errors]
        /\ v = host[t].verdict
    BY <1>3 DEF ReportAbout, ReportOf
  <2>2. /\ d \in ReportContent
        /\ v.severity \in Severities(d) \cup {NoSeverity}
        /\ \A s \in Severities(d) : s <= v.severity
        /\ v.incomplete = (d.errors # <<>>)
        /\ v.collector = Contains(d.errors, "collector")
    BY <1>3, <2>1, DetailsKnown
  <2>3. /\ d.host \in BOOLEAN /\ d.findings \in Seq(Finding) /\ d.observations \in Seq(Observation)
        /\ d.errors \in Seq({"collector"} \cup STRING)
    BY <2>2 DEF ReportContent
  <2>4. /\ r.target = t /\ r.packed = (pack = "accepted") /\ r.host = d.host
        /\ r.findings = d.findings /\ r.observations = d.observations /\ r.errors = d.errors
    BY <2>1
  <2>5. r = [target |-> r.target, packed |-> r.packed, host |-> r.host, findings |-> r.findings,
             observations |-> r.observations, errors |-> r.errors]
    BY <2>1
  <2> HIDE DEF r, v, d, base
  <2>6. r \in Report
    BY <1>1, <2>3, <2>4, <2>5 DEF Report
  <2>7. Severities(d) = {r.findings[j].severity : j \in DOMAIN r.findings}
    BY <2>4 DEF Severities
  <2>8. (v.incomplete <=> Incomplete(r)) /\ (v.collector <=> CollectorFailed(r))
    BY <2>2, <2>4 DEF Incomplete, CollectorFailed
  <2>9. \A j \in DOMAIN r.findings : r.findings[j].severity <= v.severity
    BY <2>2, <2>7
  <2>10. v.severity \in {NoSeverity} \cup {r.findings[j].severity : j \in DOMAIN r.findings}
    BY <2>2, <2>7
  <2> QED BY <2>4, <2>6, <2>8, <2>9, <2>10 DEF r, v
<1> QED BY <1>2, <1>3

\* The collected reports are typed, and there is one for each target.
LEMMA ReportsTyped ==
  ASSUME BatchInv, Known, main = "collected"
  PROVE  /\ Reports \in Seq(Report) /\ DOMAIN Reports = DOMAIN reports
         /\ \A k \in DOMAIN reports : Reports[k] = ReportAbout(reports[k])
         /\ \A k \in DOMAIN reports : reports[k] \in Targets /\ Reports[k].target = reports[k]
         /\ Range(reports) = Targets
         /\ Distinct(Reports)
<1>1. /\ reports \in Seq(Targets) /\ Len(reports) = N /\ Range(reports) = Targets
      /\ \A j, k \in 1..N : j < k =>
         \/ Label[reports[j]] < Label[reports[k]]
         \/ Label[reports[j]] = Label[reports[k]] /\ reports[j] < reports[k]
  BY DEF BatchInv, BatchTypes, Held, OneReportEachInOrder
<1>2. DOMAIN reports = 1..N /\ N \in Nat /\ \A k \in 1..N : reports[k] \in Targets
  BY <1>1, NAssumption
<1>3. ASSUME NEW k \in 1..N
      PROVE  ReportAbout(reports[k]) \in Report /\ ReportAbout(reports[k]).target = reports[k]
  BY <1>2, ReportAgrees
<1>4. /\ Reports = [k \in 1..N |-> ReportAbout(reports[k])]
  BY <1>2 DEF Reports
<1>5. \A k \in 1..N : Reports[k] = ReportAbout(reports[k])
  BY <1>4
<1>6. Reports \in Seq(Report) /\ DOMAIN Reports = 1..N
  BY <1>2, <1>3, <1>4
<1>7. ASSUME NEW j \in 1..N, NEW k \in 1..N, reports[j] = reports[k] PROVE j = k
  <2>1. reports[j] \in Nat /\ Label[reports[j]] \in Nat
    BY <1>2, LabelAssumption, NAssumption DEF Targets
  <2>2. ~(j < k) /\ ~(k < j)
    BY <1>1, <1>7, <2>1
  <2> QED BY <1>2, <2>2
<1>8. Distinct(Reports)
  <2>1. \A k \in 1..N : Reports[k].target = reports[k] /\ reports[k] # Fleet
    BY <1>2, <1>3, <1>5 DEF Targets, Fleet
  <2> QED BY <1>6, <1>7, <2>1 DEF Distinct
<1> QED BY <1>1, <1>2, <1>3, <1>5, <1>6, <1>8

\* Whatever the format, the document says nothing but what is so, every format but the
\* viewer's headers says all findings, errors and numbers, and text warns before it goes on.
LEMMA DocumentSays ==
  ASSUME BatchInv, Known, args \in Args, active \in Seq(STRING), main = "collected"
  PROVE  \E M : /\ Doc \in Seq(Said(Reports, M))
                /\ args.format # "tui" =>
                     \A k \in DOMAIN Reports : Complete(Reports[k], Range(Doc))
                /\ args.format \in {"human", "html", "tui"} => Ordered(Reports, Doc)
                /\ RulesIn(M, Range(Doc))
                /\ args.format # "tui" /\ Parted(Reports) =>
                     Nat \subseteq M.n /\ \A k \in DOMAIN Reports : Reported(Doc, M, Reports[k])
<1> DEFINE rs == Reports
           f == args.format
           ns == Nat \cup {Counts(Fleet, rs)[k].n : k \in 1..3}
                     \cup UNION {{Counts(rs[j].target, <<rs[j]>>)[k].n : k \in 1..3}
                                   : j \in DOMAIN rs}
           M == [n |-> ns, rules |-> IF f = "sarif" THEN Indexed(Rules(active, SeverityOf))
                                     ELSE {}]
           Good == /\ Doc \in Seq(Said(rs, M))
                   /\ f # "tui" => \A k \in DOMAIN rs : Complete(rs[k], Range(Doc))
                   /\ f \in {"human", "html", "tui"} => Ordered(rs, Doc)
                   /\ RulesIn(M, Range(Doc))
                   /\ f # "tui" /\ Parted(rs) =>
                        Nat \subseteq M.n /\ \A k \in DOMAIN rs : Reported(Doc, M, rs[k])
<1>1. rs \in Seq(Report) /\ Distinct(rs)
  BY ReportsTyped
<1>2. AllCounted(rs, M)
  BY DEF AllCounted, Counted
<1>3. Doc = Document(f, rs, active, SeverityOf)
  BY DEF Doc
<1>4. f \in {"human", "json", "jsonl", "sarif", "ocsf", "html", "tui"}
  BY DEF Args
<1>12. /\ f = "sarif" => M.rules = Indexed(Rules(active, SeverityOf))
       /\ f # "sarif" => RulesIn(M, Range(Doc))
  BY DEF RulesIn
<1> HIDE DEF rs, M, f, ns
<1>5. CASE f = "human"
  <2>1. Doc = Human(rs)
    BY <1>3, <1>5 DEF Document
  <2>2. Parted(rs) => \A k \in DOMAIN rs : Reported(Human(rs), M, rs[k])
    BY <1>1, <1>2, HumanReports
  <2> QED BY <1>1, <1>2, <1>5, <1>12, <2>1, <2>2, HumanSays DEF AllCounted, rs, f
<1>6. CASE f = "json"
  <2>1. Doc = Json(rs)
    BY <1>3, <1>6 DEF Document
  <2>2. Parted(rs) => \A k \in DOMAIN rs : Reported(Json(rs), M, rs[k])
    BY <1>1, <1>2, JsonReports
  <2> QED BY <1>1, <1>2, <1>6, <1>12, <2>1, <2>2, JsonSays DEF AllCounted, rs, f
<1>7. CASE f = "jsonl"
  <2>1. Doc = Jsonl(rs)
    BY <1>3, <1>7 DEF Document
  <2>2. Parted(rs) => \A k \in DOMAIN rs : Reported(Jsonl(rs), M, rs[k])
    BY <1>1, <1>2, JsonReports
  <2> QED BY <1>1, <1>2, <1>7, <1>12, <2>1, <2>2, JsonlSays DEF AllCounted, rs, f
<1>8. CASE f = "sarif"
  <2>1. Doc = Sarif(rs, active, SeverityOf)
    BY <1>3, <1>8 DEF Document
  <2>2. /\ Sarif(rs, active, SeverityOf) \in Seq(Said(rs, M))
        /\ \A k \in DOMAIN rs : Complete(rs[k], Range(Sarif(rs, active, SeverityOf)))
        /\ RulesIn(M, Range(Sarif(rs, active, SeverityOf)))
    BY <1>1, <1>2, <1>12, <1>8, SarifSays
  <2>3. Parted(rs) =>
          \A k \in DOMAIN rs : Reported(Sarif(rs, active, SeverityOf), M, rs[k])
    BY <1>1, <1>2, <1>12, <1>8, SarifReports
  <2> QED BY <1>2, <1>8, <2>1, <2>2, <2>3 DEF AllCounted, rs, f
<1>9. CASE f = "ocsf"
  <2>1. Doc = Ocsf(rs)
    BY <1>3, <1>9 DEF Document
  <2>2. Parted(rs) => \A k \in DOMAIN rs : Reported(Ocsf(rs), M, rs[k])
    BY <1>1, <1>2, OcsfReports
  <2> QED BY <1>1, <1>2, <1>9, <1>12, <2>1, <2>2, OcsfSays DEF AllCounted, rs, f
<1>10. CASE f = "html"
  <2>1. Doc = Html(rs)
    BY <1>3, <1>10 DEF Document
  <2>2. Parted(rs) => \A k \in DOMAIN rs : Reported(Html(rs), M, rs[k])
    BY <1>1, <1>2, HtmlReports
  <2> QED BY <1>1, <1>2, <1>10, <1>12, <2>1, <2>2, HtmlSays DEF AllCounted, rs, f
<1>11. CASE f = "tui"
  <2>1. Doc = Tui(rs)
    BY <1>3, <1>11 DEF Document
  <2> QED BY <1>1, <1>2, <1>11, <1>12, <2>1, TuiSays DEF rs, f
<1> QED BY <1>4, <1>5, <1>6, <1>7, <1>8, <1>9, <1>10, <1>11

\* What is said of a target, or of the fleet it belongs to, is so of that target.
LEMMA Truthful ==
  ASSUME NEW M, NEW rs \in Seq(Report), Distinct(rs), NEW x \in Said(rs, M),
         NEW k \in DOMAIN rs, x.on \in {Fleet, rs[k].target}
  PROVE  /\ x.is = "PASS" => rs[k].findings = <<>> /\ rs[k].errors = <<>>
         /\ x.is \in {"successful", "Success"} => rs[k].errors = <<>>
         /\ x.is = "Completed" => ~CollectorFailed(rs[k])
         /\ x.is \in Results => x.on = rs[k].target
         /\ x.is = "finding" => \E j \in DOMAIN rs[k].findings : x.n = rs[k].findings[j].severity
         /\ x.is = "error" => \E j \in DOMAIN rs[k].errors : x.id = rs[k].errors[j]
<1>1. CASE x \in Global(rs, M)
  BY <1>1 DEF Global, Results
<1>2. ASSUME NEW i \in DOMAIN rs, x \in About(rs[i], M) PROVE i = k /\ x.on = rs[k].target
  <2>1. x.on = rs[i].target
    BY <1>2 DEF About
  <2> QED BY <2>1 DEF Distinct
<1>3. CASE x \in About(rs[k], M)
  BY <1>3 DEF About
<1>4. x \in Global(rs, M) \/ \E i \in DOMAIN rs : x \in About(rs[i], M)
  BY DEF Said
<1> QED BY <1>1, <1>2, <1>3, <1>4

\* What is shown is the beginning of the document.
LEMMA ShownIsDocument ==
  ASSUME Settled, Written, main = "collected"
  PROVE  /\ Visible \in SUBSET (1..Len(document))
         /\ \A j \in Visible : \A i \in 1..j-1 : i \in Visible
         /\ Visible = {} \/ document = Doc
<1>1. shown \in Nat /\ shown <= Len(document)
  BY DEF Written
<1>2. document = <<>> \/ document = Doc
  BY DEF Written, Settled
<1>3. document \in {<<>>} => Len(document) = 0
  OBVIOUS
<1>4. Visible = {} \/ Visible = 1..shown
  BY DEF Visible
<1>5. Visible \in SUBSET (1..Len(document))
  <2>1. CASE document = <<>>
    BY <1>1, <1>3, <1>4, <2>1
  <2>2. CASE Visible = 1..shown
    <3>1. shown = 0 \/ (\A i \in 1..shown : 1 <= i /\ i <= shown)
      OBVIOUS
    <3> QED BY <1>1, <2>2
  <2> QED BY <1>4, <2>2
<1> QED BY <1>1, <1>2, <1>3, <1>4, <1>5

\* PASS, success and completion are only said of targets they are true of, and text says
\* INCOMPLETE of a target with errors before its results, wherever a reader stops.
THEOREM PassEarned == Spec => []PassIsEarned
<1>1. ASSUME BatchInv, Settled, Known, Written, main = "collected"
      PROVE  PassIsEarned
  <2> DEFINE rs == Reports
  <2>1. rs \in Seq(Report) /\ Distinct(rs)
    BY <1>1, ReportsTyped
  <2>2. PICK M : /\ Doc \in Seq(Said(rs, M))
                 /\ args.format \in {"human", "html", "tui"} => Ordered(rs, Doc)
    BY <1>1, DocumentSays DEF Written
  <2>3. /\ Visible \in SUBSET (1..Len(document))
        /\ \A j \in Visible : \A i \in 1..j-1 : i \in Visible
        /\ Visible = {} \/ document = Doc
    BY <1>1, ShownIsDocument
  <2>4. CASE Visible = {}
    BY <2>4 DEF PassIsEarned, Says
  <2>5. CASE Visible # {}
    <3>1. /\ document = Doc /\ DOMAIN document = 1..Len(document)
          /\ \A j \in Visible : j \in DOMAIN document /\ document[j] \in Said(rs, M)
      <4> DEFINE S == Said(rs, M)
      <4>1. Doc \in Seq(S)
        BY <2>2
      <4> HIDE DEF S, rs
      <4>2. \A j \in 1..Len(Doc) : Doc[j] \in S
        BY <4>1
      <4>3. document = Doc
        BY <2>3, <2>5
      <4>4. DOMAIN Doc = 1..Len(Doc)
        BY <4>1
      <4> QED BY <2>3, <4>2, <4>3, <4>4 DEF S
    <3> SUFFICES ASSUME NEW on \in {Fleet} \cup Targets
        PROVE
          /\ Says("PASS", on) # {} => \A k \in Concerned(on) : Clean(k)
          /\ Says("successful", on) \cup Says("Success", on) # {} =>
               \A k \in Concerned(on) : rs[k].errors = <<>>
          /\ Says("Completed", on) # {} =>
               \A k \in Concerned(on) : ~Contains(rs[k].errors, "collector")
          /\ args.format \in {"human", "html", "tui"} =>
               \A j \in Says("finding", on) \cup Says("observation", on) \cup Says("error", on) :
                 \A k \in Concerned(on) : rs[k].errors # <<>> =>
                   \E i \in Says("INCOMPLETE", on) : i < j
      BY DEF PassIsEarned
    <3>2. \A k \in Concerned(on) : k \in DOMAIN rs /\ on \in {Fleet, rs[k].target}
      BY DEF Concerned
    <3> HIDE DEF rs
    <3>3. ASSUME NEW j \in Visible, document[j].on = on, NEW k \in Concerned(on)
          PROVE  /\ document[j].is = "PASS" => rs[k].findings = <<>> /\ rs[k].errors = <<>>
                 /\ document[j].is \in {"successful", "Success"} => rs[k].errors = <<>>
                 /\ document[j].is = "Completed" => ~CollectorFailed(rs[k])
                 /\ document[j].is \in Results => on = rs[k].target
      <4> DEFINE x == document[j]
      <4>1. x \in Said(rs, M) /\ k \in DOMAIN rs /\ x.on \in {Fleet, rs[k].target}
        BY <3>1, <3>2, <3>3
      <4> HIDE DEF x
      <4>2. /\ x.is = "PASS" => rs[k].findings = <<>> /\ rs[k].errors = <<>>
            /\ x.is \in {"successful", "Success"} => rs[k].errors = <<>>
            /\ x.is = "Completed" => ~CollectorFailed(rs[k])
            /\ x.is \in Results => x.on = rs[k].target
        BY <2>1, <4>1, Truthful
      <4> QED BY <3>3, <4>2 DEF x
    <3>4. Says("PASS", on) # {} => \A k \in Concerned(on) : Clean(k)
      BY <3>3 DEF Says, Clean, rs
    <3>5. Says("successful", on) \cup Says("Success", on) # {} =>
            \A k \in Concerned(on) : rs[k].errors = <<>>
      BY <3>3 DEF Says
    <3>6. Says("Completed", on) # {} =>
            \A k \in Concerned(on) : ~Contains(rs[k].errors, "collector")
      BY <3>3 DEF Says, CollectorFailed
    <3>7. ASSUME args.format \in {"human", "html", "tui"},
                 NEW j \in Says("finding", on) \cup Says("observation", on) \cup Says("error", on),
                 NEW k \in Concerned(on), rs[k].errors # <<>>
          PROVE  \E i \in Says("INCOMPLETE", on) : i < j
      <4>1. j \in Visible /\ document[j].on = on /\ document[j].is \in Results
        BY DEF Says, Results
      <4>2. on = rs[k].target /\ k \in DOMAIN rs /\ j \in DOMAIN Doc
        BY <3>1, <3>2, <3>3, <4>1
      <4>3. PICK i \in 1..j-1 : Doc[i].on = on /\ Doc[i].is = "INCOMPLETE"
        BY <2>2, <3>1, <3>7, <4>1, <4>2 DEF Ordered, Incomplete, rs
      <4>4. i \in Visible /\ i < j
        <5>1. j \in Nat
          BY <3>1, <4>1
        <5> QED BY <2>3, <4>1, <5>1
      <4> QED BY <3>1, <4>3, <4>4 DEF Says
    <3> QED BY <3>4, <3>5, <3>6, <3>7
  <2> QED BY <2>4, <2>5
<1>2. main # "collected" => PassIsEarned
  BY DEF PassIsEarned
<1>3. BatchInv /\ Settled /\ Known /\ Written => PassIsEarned
  BY <1>1, <1>2
<1> QED BY <1>3, WrittenInvariant, PTL

-----------------------------------------------------------------------------
(* ExitMatchesDocument *)

\* The exit code computed from the summary says what the verdicts of all targets say.
LEMMA ExitReflects ==
  ASSUME BatchInv, main = "collected", NEW strict \in BOOLEAN, NEW failOn \in FailOns
  PROVE  LET code == ReportExit(Summary, strict, failOn)
             failed == \E t \in Targets : \/ Verdicts[t].collector
                                          \/ strict /\ Verdicts[t].incomplete
             hit == \E t \in Targets : Verdicts[t].severity >= failOn
         IN code = IF failed THEN 2 ELSE IF hit THEN 1 ELSE 0
<1>1. /\ Summary \in SummaryType /\ Reflects(Summary, Targets)
      /\ Summary.completed = N /\ Summary.requested = N
  BY SummaryReflects
<1> DEFINE s == Summary
           failed == \E t \in Targets : Verdicts[t].collector \/ (strict /\ Verdicts[t].incomplete)
           hit == \E t \in Targets : Verdicts[t].severity >= failOn
<1>2. /\ s.failed <=> \E t \in Targets : Verdicts[t].collector
      /\ s.incomplete <=> \E t \in Targets : Verdicts[t].incomplete
      /\ \A t \in Targets : Verdicts[t].severity <= s.highest
      /\ s.highest # NoSeverity => \E t \in Targets : Verdicts[t].severity = s.highest
  BY <1>1 DEF Reflects
<1>3. failed <=> s.failed \/ (strict /\ s.incomplete)
  BY <1>2
<1>4. CoverageComplete(s)
  BY <1>1 DEF CoverageComplete
<1>5. hit <=> s.highest # NoSeverity /\ s.highest >= failOn
  <2>1. failOn \in Nat /\ failOn >= 1 /\ s.highest \in Nat
    BY <1>1, FailOnAssumption DEF Severity, SummaryType, NoSeverity
  <2>2. ASSUME NEW t \in Targets PROVE Verdicts[t].severity \in Nat
    <3>1. Verdicts[t] \in Verdict
      BY VerdictsType
    <3>2. \A v \in Verdict : v.severity \in Nat
      BY DEF Verdict, NoSeverity, Severity
    <3> QED BY <3>1, <3>2
  <2> HIDE DEF s
  <2>3. ASSUME NEW t \in Targets, Verdicts[t].severity >= failOn
        PROVE  s.highest # NoSeverity /\ s.highest >= failOn
    BY <1>2, <2>1, <2>2, <2>3 DEF NoSeverity
  <2>4. ASSUME s.highest # NoSeverity, s.highest >= failOn PROVE hit
    BY <1>2, <2>1, <2>2, <2>4
  <2> QED BY <2>3, <2>4
<1> HIDE DEF failed, hit, s
<1>6. ReportExit(s, strict, failOn) = IF failed THEN 2 ELSE IF hit THEN 1 ELSE 0
  BY <1>3, <1>4, <1>5 DEF ReportExit
<1> QED BY <1>6 DEF failed, hit, s

\* What the verdict of a target says, the complete document says of that target.
LEMMA ToldInFull ==
  ASSUME BatchInv, Known, Written, main = "collected", args.format # "tui",
         document = Doc, Visible = 1..Len(document), NEW t \in Targets, NEW failOn \in FailOns
  PROVE  /\ Verdicts[t].incomplete <=> Says("error", t) # {}
         /\ Verdicts[t].collector <=> \E k \in Says("error", t) : document[k].id = "collector"
         /\ Verdicts[t].severity >= failOn
              <=> \E k \in Says("finding", t) : document[k].n >= failOn
<1> DEFINE rs == Reports
           v == Verdicts[t]
<1>1. /\ rs \in Seq(Report) /\ Distinct(rs) /\ DOMAIN rs = DOMAIN reports
      /\ \A k \in DOMAIN reports : rs[k] = ReportAbout(reports[k])
      /\ Range(reports) = Targets
  BY ReportsTyped
<1>2. PICK M : Doc \in Seq(Said(rs, M)) /\ \A k \in DOMAIN rs : Complete(rs[k], Range(Doc))
  BY DocumentSays DEF Written
<1>3. PICK i \in DOMAIN reports : reports[i] = t
  BY <1>1 DEF Range
<1> DEFINE r == rs[i]
<1>4. v = ReportOf(t)
  BY DEF Verdicts
<1>5. /\ r \in Report /\ r.target = t
      /\ v.incomplete <=> Incomplete(r)
      /\ v.collector <=> CollectorFailed(r)
      /\ v.severity \in {NoSeverity} \cup {r.findings[j].severity : j \in DOMAIN r.findings}
      /\ \A j \in DOMAIN r.findings : r.findings[j].severity <= v.severity
  BY <1>1, <1>3, <1>4, ReportAgrees
<1>6. i \in DOMAIN rs /\ Complete(r, Range(Doc))
  BY <1>1, <1>2, <1>3
<1>7. /\ DOMAIN Doc = 1..Len(Doc) /\ Visible = DOMAIN Doc
      /\ \A k \in DOMAIN Doc : Doc[k] \in Said(rs, M)
  <2> DEFINE S == Said(rs, M)
  <2>1. Doc \in Seq(S)
    BY <1>2
  <2> HIDE DEF S, rs
  <2>2. DOMAIN Doc = 1..Len(Doc) /\ \A k \in 1..Len(Doc) : Doc[k] \in S
    BY <2>1
  <2> QED BY <2>2 DEF S
<1> HIDE DEF rs, r, v
<1>8. ASSUME NEW k \in Visible, document[k].on = t
      PROVE  /\ document[k].is = "finding" =>
                  \E j \in DOMAIN r.findings : document[k].n = r.findings[j].severity
             /\ document[k].is = "error" =>
                  \E j \in DOMAIN r.errors : document[k].id = r.errors[j]
  <2> DEFINE x == document[k]
  <2>1. x \in Said(rs, M) /\ x.on \in {Fleet, rs[i].target}
    BY <1>5, <1>7, <1>8 DEF r
  <2> HIDE DEF x
  <2>2. /\ x.is = "finding" => \E j \in DOMAIN rs[i].findings : x.n = rs[i].findings[j].severity
        /\ x.is = "error" => \E j \in DOMAIN rs[i].errors : x.id = rs[i].errors[j]
    BY <1>1, <1>6, <2>1, Truthful
  <2> QED BY <2>2 DEF x, r
<1>9. \A j \in DOMAIN r.findings : \E k \in Says("finding", t) :
        document[k].n = r.findings[j].severity
  <2> SUFFICES ASSUME NEW j \in DOMAIN r.findings
               PROVE  \E k \in Says("finding", t) : document[k].n = r.findings[j].severity
    OBVIOUS
  <2> DEFINE x == Item("finding", r.target, r.findings[j].id, r.findings[j].severity)
  <2>1. x.is = "finding" /\ x.on = t /\ x.n = r.findings[j].severity
    BY <1>5 DEF Item
  <2>2. x \in Range(Doc)
    BY <1>6 DEF Complete
  <2> HIDE DEF x
  <2> QED BY <1>7, <2>1, <2>2 DEF Says, Range
<1>10. \A j \in DOMAIN r.errors : \E k \in Says("error", t) : document[k].id = r.errors[j]
  <2> SUFFICES ASSUME NEW j \in DOMAIN r.errors
               PROVE  \E k \in Says("error", t) : document[k].id = r.errors[j]
    OBVIOUS
  <2> DEFINE x == Item("error", r.target, r.errors[j], 0)
  <2>1. x.is = "error" /\ x.on = t /\ x.id = r.errors[j]
    BY <1>5 DEF Item
  <2>2. x \in Range(Doc)
    BY <1>6 DEF Complete
  <2> HIDE DEF x
  <2> QED BY <1>7, <2>1, <2>2 DEF Says, Range
<1>11. r.errors \in Seq({"collector"} \cup STRING) /\ r.findings \in Seq(Finding)
  BY <1>5 DEF Report
<1>12. v.incomplete <=> Says("error", t) # {}
  <2>1. DOMAIN r.errors = {} <=> r.errors = <<>>
    <3> DEFINE e == r.errors
               T == {"collector"} \cup STRING
    <3>1. e \in Seq(T)
      BY <1>11
    <3> HIDE DEF e, T
    <3>2. DOMAIN e = 1..Len(e) /\ Len(e) \in Nat /\ (Len(e) = 0 <=> e = <<>>)
      BY <3>1
    <3>3. \A n \in Nat : n # 0 => 1 \in 1..n
      OBVIOUS
    <3>4. DOMAIN e = {} => e = <<>>
      BY <3>2, <3>3
    <3>5. e = <<>> => DOMAIN e = {}
      OBVIOUS
    <3> QED BY <3>4, <3>5 DEF e
  <2>2. Says("error", t) # {} => DOMAIN r.errors # {}
    BY <1>8 DEF Says
  <2> QED BY <1>5, <1>10, <2>1, <2>2 DEF Incomplete
<1>13. v.collector <=> \E k \in Says("error", t) : document[k].id = "collector"
  <2>1. CollectorFailed(r) <=> \E j \in DOMAIN r.errors : r.errors[j] = "collector"
    BY <1>11 DEF CollectorFailed, Contains
  <2>2. ASSUME NEW k \in Says("error", t), document[k].id = "collector"
        PROVE  \E j \in DOMAIN r.errors : r.errors[j] = "collector"
    BY <1>8, <2>2 DEF Says
  <2> QED BY <1>5, <1>10, <2>1, <2>2
<1>14. v.severity >= failOn <=> \E k \in Says("finding", t) : document[k].n >= failOn
  <2>1. failOn \in Nat /\ failOn >= 1
    BY FailOnAssumption DEF Severity
  <2>2. \A j \in DOMAIN r.findings : r.findings[j].severity \in Nat
    <3>1. \A j \in DOMAIN r.findings : r.findings[j] \in Finding
      BY <1>11
    <3>2. \A g \in Finding : g.severity \in Nat
      BY DEF Finding
    <3> QED BY <3>1, <3>2
  <2>3. v.severity \in Nat
    BY <1>5, <2>2 DEF NoSeverity
  <2>4. ASSUME v.severity >= failOn
        PROVE  \E k \in Says("finding", t) : document[k].n >= failOn
    <3>1. PICK j \in DOMAIN r.findings : v.severity = r.findings[j].severity
      BY <1>5, <2>1, <2>4 DEF NoSeverity
    <3> QED BY <1>9, <2>4, <3>1
  <2>5. ASSUME NEW k \in Says("finding", t), document[k].n >= failOn
        PROVE  v.severity >= failOn
    <3>1. PICK j \in DOMAIN r.findings : document[k].n = r.findings[j].severity
      BY <1>8 DEF Says
    <3> QED BY <1>5, <2>1, <2>2, <2>3, <2>5, <3>1
  <2> QED BY <2>4, <2>5
<1> QED BY <1>12, <1>13, <1>14 DEF v

\* The exit code says what the verdicts of all targets say and what the complete document
\* says of them, and a report that could not be written is no success.
THEOREM ExitFits == Spec => []ExitMatchesDocument
<1>1. ASSUME BatchInv, Settled, Known, Written, stage = "exited", main = "collected"
      PROVE  ExitMatchesDocument
  <2> DEFINE strict == exit.strict
             failOn == exit.failOn
             failed == \E t \in Targets : \E k \in Says("error", t) :
                         document[k].id = "collector" \/ exit.strict
             hit == \E t \in Targets : \E k \in Says("finding", t) : document[k].n >= exit.failOn
             ofVerdicts == \E t \in Targets : \/ Verdicts[t].collector
                                              \/ exit.strict /\ Verdicts[t].incomplete
             severe == \E t \in Targets : Verdicts[t].severity >= exit.failOn
             verdicts == [t \in Range(reports) |-> ReportOf(t)]
  <2>1. CASE wrote = "Other"
    <3>1. exit.code = 2 /\ persisted = FALSE
      BY <1>1, <2>1 DEF Written
    <3>2. args.output => Visible = {}
      BY <3>1 DEF Visible
    <3> QED BY <2>1, <3>1, <3>2 DEF ExitMatchesDocument
  <2>2. CASE wrote # "Other"
    <3>1. /\ wrote \in {"none", "BrokenPipe"} /\ document = Doc
          /\ wrote = "none" => shown = Len(document) /\ persisted = args.output
          /\ exit.strict \in BOOLEAN /\ exit.failOn \in FailOns
          /\ exit.code = ReportExit(Summary, exit.strict, exit.failOn)
      BY <1>1, <2>2 DEF Written
    <3>2. exit.code = IF ofVerdicts THEN 2 ELSE IF severe THEN 1 ELSE 0
      BY <1>1, <3>1, ExitReflects
    <3>3. Range(reports) = Targets /\ verdicts = Verdicts
      BY <1>1, ReportsTyped DEF Verdicts
    <3>4. HonestExit(exit.code, Targets, verdicts, exit.strict, exit.failOn)
      <4>1. DOMAIN Verdicts = Targets
        BY DEF Verdicts
      <4> HIDE DEF verdicts
      <4> QED BY <3>2, <3>3, <4>1 DEF HonestExit
    <3>5. ASSUME wrote = "none", args.format # "tui"
          PROVE  exit.code = IF failed THEN 2 ELSE IF hit THEN 1 ELSE 0
      <4>1. Visible = 1..Len(document)
        <5>1. args.output \in BOOLEAN
          BY <1>1 DEF Written, Args
        <5> QED BY <3>1, <3>5, <5>1 DEF Visible
      <4>2. \A t \in Targets :
              /\ Verdicts[t].incomplete <=> Says("error", t) # {}
              /\ Verdicts[t].collector <=> \E k \in Says("error", t) : document[k].id = "collector"
              /\ Verdicts[t].severity >= exit.failOn
                   <=> \E k \in Says("finding", t) : document[k].n >= exit.failOn
        BY <1>1, <3>1, <3>5, <4>1, ToldInFull
      <4>3. ofVerdicts <=> failed
        BY <4>2
      <4>4. severe <=> hit
        BY <4>2
      <4> QED BY <3>2, <4>3, <4>4
    <3> HIDE DEF failed, hit, verdicts, ofVerdicts, severe
    <3>6. ExitMatchesDocument <=>
            (/\ HonestExit(exit.code, Targets, verdicts, exit.strict, exit.failOn)
             /\ (wrote = "none" /\ args.format # "tui") =>
                  exit.code = IF failed THEN 2 ELSE IF hit THEN 1 ELSE 0)
      BY <1>1, <2>2 DEF ExitMatchesDocument, failed, hit, verdicts
    <3> QED BY <3>4, <3>5, <3>6
  <2> QED BY <2>1, <2>2
<1>2. ~(stage = "exited" /\ main = "collected") => ExitMatchesDocument
  BY DEF ExitMatchesDocument
<1>3. BatchInv /\ Settled /\ Known /\ Written => ExitMatchesDocument
  BY <1>1, <1>2
<1> QED BY <1>3, WrittenInvariant, PTL

-----------------------------------------------------------------------------
(* NothingIsHidden *)

\* The number a reader adds up is that to which the items of the document add up.
LEMMA NumberIs ==
  ASSUME NEW M, NEW w, NEW on, NEW id, NEW total, document \in Seq(Items(M)),
         Visible = 1..Len(document), AddsUp(document, Elsewhere(M, on, id, {w}), total)
  PROVE  Number(w, on, id) = total
<1> DEFINE T == {k \in Says(w, on) : document[k].id = id}
           g == [k \in T |-> document[k].n]
           Iter(f) == f = [x \in SUBSET T |->
                             IF x = {} THEN 0
                             ELSE document[CHOOSE k \in x : TRUE].n
                                    + f[x \ {CHOOSE k \in x : TRUE}]]
           iter == CHOOSE f : Iter(f)
           O == Elsewhere(M, on, id, {w})
<1>1. Number(w, on, id) = iter[T]
  BY DEF Number, MapThenSumSet, MapThenFoldSet
<1>2. /\ Len(document) \in Nat
      /\ \A k \in 1..Len(document) : document[k] \in Items(M)
  <2> DEFINE S == Items(M)
  <2>1. document \in Seq(S)
    OBVIOUS
  <2> HIDE DEF S
  <2>2. Len(document) \in Nat /\ \A k \in 1..Len(document) : document[k] \in S
    BY <2>1
  <2> QED BY <2>2 DEF S
<1>3. T = {k \in 1..Len(document) : document[k] \notin O}
  BY <1>2 DEF Says, Elsewhere
<1> HIDE DEF O, T
<1>4. PICK a, c \in Nat :
        /\ a + c <= Len(document)
        /\ \A k \in 1..Len(document) : document[k] \notin O <=> k \in a+1..a+c
        /\ \A k \in a+1..a+c : k # a + c => document[k].n = 1
        /\ c = 0 => total = 0
        /\ c # 0 => document[a + c].n \in Int /\ total = c - 1 + document[a + c].n
  BY DEF AddsUp, O
<1>5. T = a+1..a+c
  <2>1. \A k \in a+1..a+c : k \in 1..Len(document)
    BY <1>2, <1>4
  <2> QED BY <1>3, <1>4, <2>1
<1>6. IsFiniteSet(T) /\ Cardinality(T) = c
  <2>1. a + 1 \in Int /\ a + c \in Int
    OBVIOUS
  <2>2. /\ IsFiniteSet(a+1..a+c)
        /\ Cardinality(a+1..a+c) = IF a + 1 > a + c THEN 0 ELSE a + c - (a + 1) + 1
    BY <2>1, FS_Interval
  <2> QED BY <1>5, <2>2
<1> DEFINE last == a + c
           v == IF c = 0 THEN 1 ELSE document[a + c].n
           h == [x \in SUBSET T |->
                   IF last \in x THEN Cardinality(x) - 1 + v ELSE Cardinality(x)]
<1>7. v \in Int /\ \A k \in T : g[k] = IF k = last THEN v ELSE 1
  BY <1>4, <1>5
<1>8. h[T] = total
  <2>1. last \in T <=> c # 0
    BY <1>5
  <2>2. T \in SUBSET T
    OBVIOUS
  <2> QED BY <1>4, <1>6, <2>1, <2>2
<1>9. \A x \in SUBSET T : x # {} => g[CHOOSE k \in x : TRUE] = document[CHOOSE k \in x : TRUE].n
  OBVIOUS
<1> HIDE DEF last, v, g, Iter
<1>10. SumOf(h, T, g) /\ \A f : SumOf(f, T, g) => f[T] = h[T]
  <2>1. SizesOf(h, T, last, v)
    BY DEF h, SizesOf
  <2> HIDE DEF h
  <2>2. PICK T0, l0, v0, g0, h0 : T0 = T /\ l0 = last /\ v0 = v /\ g0 = g /\ h0 = h
    OBVIOUS
  <2>3. IsFiniteSet(T0) /\ v0 \in Int /\ \A k \in T0 : g0[k] = IF k = l0 THEN v0 ELSE 1
    BY <1>6, <1>7, <2>2
  <2>4. SizesOf(h0, T0, l0, v0)
    BY <2>1, <2>2
  <2>5. SumOf(h0, T0, g0) /\ \A f : SumOf(f, T0, g0) => f[T0] = h0[T0]
    BY <2>3, <2>4, SumOfOnes
  <2> QED BY <2>2, <2>5
<1> HIDE DEF h
<1>11. Iter(h)
  <2>1. h = [x \in SUBSET T |-> h[x]]
    BY DEF h
  <2>2. \A x \in SUBSET T : h[x] = IF x = {} THEN 0
                                   ELSE document[CHOOSE k \in x : TRUE].n
                                          + h[x \ {CHOOSE k \in x : TRUE}]
    BY <1>9, <1>10 DEF SumOf
  <2> QED BY <2>1, <2>2 DEF Iter
<1>12. Iter(iter)
  BY <1>11
<1> HIDE DEF iter
<1>13. SumOf(iter, T, g)
  <2>1. \A x \in SUBSET T : iter[x] = IF x = {} THEN 0
                                      ELSE document[CHOOSE k \in x : TRUE].n
                                             + iter[x \ {CHOOSE k \in x : TRUE}]
    BY <1>12 DEF Iter
  <2> QED BY <1>9, <2>1 DEF SumOf
<1> QED BY <1>1, <1>8, <1>10, <1>13

\* No report has two findings or observations with one ID.
LEMMA ReportsParted ==
  ASSUME BatchInv, Known, main = "collected"
  PROVE  Parted(Reports)
<1>1. ASSUME NEW t \in Targets PROVE OnePartEach(ReportAbout(t))
  <2> DEFINE r == ReportAbout(t)
             d == Details[t][host[t].verdict]
  <2>1. CASE host[t].panics
    <3>1. r.findings = <<>> /\ r.observations = <<>>
      BY <2>1 DEF ReportAbout
    <3>2. DOMAIN r.findings = {} /\ DOMAIN r.observations = {}
      BY <3>1
    <3> HIDE DEF r
    <3> QED BY <3>2 DEF OnePartEach, r
  <2>2. CASE ~host[t].panics
    <3>1. r.findings = d.findings /\ r.observations = d.observations
      BY <2>2 DEF ReportAbout
    <3>2. OnePartEach(d)
      <4>1. host[t] \in Hosts[t]
        <5>1. host[t] # Unscanned
          BY <2>2 DEF Unscanned
        <5> QED BY <5>1 DEF Known
      <4> QED BY <4>1, ScansAssumption, PartsAssumption
    <3> HIDE DEF r, d
    <3>3. OnePartEach(r)
      BY <3>1, <3>2 DEF OnePartEach
    <3> QED BY <3>3 DEF r
  <2> QED BY <2>1, <2>2
<1> QED BY <1>1, ReportsTyped DEF Parted

\* An item among those of the complete document is told.
LEMMA RangeTold ==
  ASSUME NEW M, document \in Seq(Items(M)), Visible = 1..Len(document),
         NEW is, NEW on, NEW id, NEW n, Item(is, on, id, n) \in Range(document)
  PROVE  Tells(is, on, id)
<1> DEFINE x == Item(is, on, id, n)
           S == Items(M)
<1>1. x.is = is /\ x.on = on /\ x.id = id
  BY DEF Item
<1>2. document \in Seq(S) /\ x \in Range(document)
  OBVIOUS
<1> HIDE DEF x, S
<1>3. PICK k \in DOMAIN document : document[k] = x
  BY <1>2 DEF Range
<1>4. DOMAIN document = 1..Len(document)
  BY <1>2
<1> QED BY <1>1, <1>3, <1>4 DEF Tells, Says

\* A reader of the complete document adds up the numbers of what is shown, and is told
\* the items that go with it.
LEMMA ShownIsTold ==
  ASSUME NEW M, document \in Seq(Items(M)), Visible = 1..Len(document), NEW p,
         Shows(document, M, p)
  PROVE  /\ \A w \in DOMAIN p.adds : Number(w, p.on, p.id) = p.adds[w]
         /\ \A is : \A n : Item(is, p.on, p.id, n) \in p.items => Tells(is, p.on, p.id)
<1>1. \A w \in DOMAIN p.adds : Number(w, p.on, p.id) = p.adds[w]
  BY NumberIs DEF Shows
<1>2. ASSUME NEW is, NEW n, Item(is, p.on, p.id, n) \in p.items PROVE Tells(is, p.on, p.id)
  BY <1>2, RangeTold DEF Shows
<1> QED BY <1>1, <1>2

\* Every finding, every line and every limit of the collected reports is in the document
\* that is out in full, and of every observation there is at least the number.
THEOREM NothingHidden == Spec => []NothingIsHidden
<1>1. ASSUME BatchInv, Settled, Known, Written, stage = "exited", wrote = "none",
             main = "collected", args.format # "tui"
      PROVE  NothingIsHidden
  <2> DEFINE rs == Reports
  <2>1. rs \in Seq(Report) /\ Distinct(rs) /\ Parted(rs)
    BY <1>1, ReportsTyped, ReportsParted
  <2>2. PICK M : /\ Doc \in Seq(Said(rs, M)) /\ RulesIn(M, Range(Doc)) /\ Nat \subseteq M.n
                 /\ \A k \in DOMAIN rs : /\ Complete(rs[k], Range(Doc))
                                         /\ Reported(Doc, M, rs[k])
    BY <1>1, <2>1, DocumentSays DEF Written
  <2>3. document = Doc /\ Visible = 1..Len(document)
    <3>1. document = Doc /\ shown = Len(document) /\ persisted = args.output
      BY <1>1 DEF Written
    <3>2. args.output \in BOOLEAN
      BY <1>1 DEF Written, Args
    <3> QED BY <3>1, <3>2 DEF Visible
  <2>4. document \in Seq(Items(M))
    <3> DEFINE S == Said(rs, M)
               T == Items(M)
    <3>1. S \subseteq T /\ Doc \in Seq(S)
      BY <2>2 DEF Said, Global, About
    <3> HIDE DEF S, T
    <3>2. Doc \in Seq(T)
      BY <3>1, SeqMono
    <3> QED BY <2>3, <3>2 DEF T
  <2>5. /\ DOMAIN document = 1..Len(document)
        /\ \A i \in 1..Len(document) : document[i] \in Items(M)
    <3> DEFINE S == Items(M)
    <3>1. document \in Seq(S)
      BY <2>4
    <3> HIDE DEF S
    <3>2. DOMAIN document = 1..Len(document) /\ \A i \in 1..Len(document) : document[i] \in S
      BY <3>1
    <3> QED BY <3>2 DEF S
  <2> SUFFICES ASSUME NEW k \in DOMAIN rs
      PROVE
        LET r == rs[k]
            Qualified(p) == /\ Number("line", r.target, p.id) = p.lines
                            /\ p.cut => Tells("cut", r.target, p.id)
        IN /\ \A j \in DOMAIN r.findings :
                /\ Number("finding", r.target, r.findings[j].id) = r.findings[j].severity
                /\ Qualified(r.findings[j])
           /\ \A e \in Range(r.errors) : Tells("error", r.target, e)
           /\ \/ \A j \in DOMAIN r.observations :
                   LET o == r.observations[j] IN
                   /\ Tells("observation", r.target, o.id) /\ Qualified(o)
                   /\ o.partial => Tells("partial", r.target, o.id)
                   /\ o.limits > 0 => Tells("truncated", r.target, o.id)
              \/ Number("omitted", r.target, "") = Len(r.observations)
           /\ \A j \in Says("rule index", r.target) :
                \E i \in Says("rule", Fleet) : document[i].n = document[j].n
                                               /\ document[i].id = document[j].id
    BY DEF NothingIsHidden
  <2> DEFINE r == rs[k]
  <2>6. Complete(r, Range(document)) /\ Reported(document, M, r) /\ RulesIn(M, Range(document))
    BY <2>2, <2>3
  <2> HIDE DEF rs, r
  <2>7. ASSUME NEW j \in DOMAIN r.findings
        PROVE  LET f == r.findings[j] IN
               /\ Number("finding", r.target, f.id) = f.severity
               /\ Number("line", r.target, f.id) = f.lines
               /\ f.cut => Tells("cut", r.target, f.id)
    <3> DEFINE f == r.findings[j]
               p == FindingPart(r, f)
               c == Item("cut", r.target, f.id, 0)
    <3>1. /\ DOMAIN p.adds = {"finding", "line"} /\ p.adds["finding"] = f.severity
          /\ p.adds["line"] = f.lines /\ p.on = r.target /\ p.id = f.id
          /\ f.cut => c \in p.items
      BY DEF FindingPart
    <3>2. Shows(document, M, p)
      BY <2>6 DEF Reported
    <3> HIDE DEF p, f
    <3>3. /\ \A w \in DOMAIN p.adds : Number(w, p.on, p.id) = p.adds[w]
          /\ \A is : \A n : Item(is, p.on, p.id, n) \in p.items => Tells(is, p.on, p.id)
      BY <2>3, <2>4, <3>2, ShownIsTold
    <3> QED BY <3>1, <3>3 DEF f
  <2>8. \A e \in Range(r.errors) : Tells("error", r.target, e)
    <3> SUFFICES ASSUME NEW j \in DOMAIN r.errors PROVE Tells("error", r.target, r.errors[j])
      BY DEF Range
    <3>1. Item("error", r.target, r.errors[j], 0) \in Range(document)
      BY <2>6 DEF Complete
    <3> QED BY <2>3, <2>4, <3>1, RangeTold
  <2>9. ASSUME NEW j \in DOMAIN r.observations,
               Shows(document, M, ObservationPart(r, r.observations[j]))
        PROVE  LET o == r.observations[j] IN
               /\ Tells("observation", r.target, o.id)
               /\ Number("line", r.target, o.id) = o.lines
               /\ o.cut => Tells("cut", r.target, o.id)
               /\ o.partial => Tells("partial", r.target, o.id)
               /\ o.limits > 0 => Tells("truncated", r.target, o.id)
    <3> DEFINE o == r.observations[j]
               p == ObservationPart(r, o)
               I(is) == Item(is, r.target, o.id, 0)
    <3>1. /\ DOMAIN p.adds = {"line"} /\ p.adds["line"] = o.lines
          /\ p.on = r.target /\ p.id = o.id
          /\ I("observation") \in p.items /\ (o.partial => I("partial") \in p.items)
          /\ o.limits > 0 => I("truncated") \in p.items
          /\ o.cut => I("cut") \in p.items
      BY DEF ObservationPart
    <3>2. Shows(document, M, p)
      BY <2>9
    <3> HIDE DEF p, o
    <3>3. /\ \A w \in DOMAIN p.adds : Number(w, p.on, p.id) = p.adds[w]
          /\ \A is : \A n : Item(is, p.on, p.id, n) \in p.items => Tells(is, p.on, p.id)
      BY <2>3, <2>4, <3>2, ShownIsTold
    <3> QED BY <3>1, <3>3 DEF o
  <2>10. Shows(document, M, OmittedPart(r)) =>
          Number("omitted", r.target, "") = Len(r.observations)
    <3> DEFINE p == OmittedPart(r)
    <3>1. DOMAIN p.adds = {"omitted"} /\ p.adds["omitted"] = Len(r.observations)
          /\ p.on = r.target /\ p.id = ""
      BY DEF OmittedPart
    <3> HIDE DEF p
    <3>2. Shows(document, M, p) => \A w \in DOMAIN p.adds : Number(w, p.on, p.id) = p.adds[w]
      BY <2>3, <2>4, ShownIsTold
    <3>3. Shows(document, M, p) => Number("omitted", r.target, "") = Len(r.observations)
      BY <3>1, <3>2
    <3> QED BY <3>3 DEF p
  <2>11. \A j \in Says("rule index", r.target) :
           \E i \in Says("rule", Fleet) : document[i].n = document[j].n
                                          /\ document[i].id = document[j].id
    <3> SUFFICES ASSUME NEW j \in Says("rule index", r.target)
                 PROVE  \E i \in Says("rule", Fleet) : document[i].n = document[j].n
                                                       /\ document[i].id = document[j].id
      OBVIOUS
    <3> DEFINE x == document[j]
               y == Item("rule", Fleet, x.id, x.n)
    <3>1. j \in 1..Len(document) /\ x.is = "rule index"
      BY <2>3 DEF Says
    <3>2. DOMAIN document = 1..Len(document) /\ x \in Items(M)
      BY <2>5, <3>1
    <3>3. <<x.id, x.n>> \in M.rules
      BY <3>1, <3>2 DEF Items
    <3>4. y \in Range(document)
      <4>1. <<x.id, x.n>>[1] = x.id /\ <<x.id, x.n>>[2] = x.n
        OBVIOUS
      <4> HIDE DEF x
      <4> QED BY <2>6, <3>3, <4>1 DEF RulesIn
    <3>5. y.is = "rule" /\ y.on = Fleet /\ y.id = x.id /\ y.n = x.n
      BY DEF Item
    <3> HIDE DEF x, y
    <3>6. PICK i \in DOMAIN document : document[i] = y
      BY <3>4 DEF Range
    <3>7. i \in Says("rule", Fleet)
      BY <2>3, <3>2, <3>5, <3>6 DEF Says
    <3> QED BY <3>5, <3>6, <3>7 DEF x
  <2>12. \/ \A j \in DOMAIN r.observations :
              LET o == r.observations[j] IN
              /\ Tells("observation", r.target, o.id)
              /\ Number("line", r.target, o.id) = o.lines
              /\ o.cut => Tells("cut", r.target, o.id)
              /\ o.partial => Tells("partial", r.target, o.id)
              /\ o.limits > 0 => Tells("truncated", r.target, o.id)
         \/ Number("omitted", r.target, "") = Len(r.observations)
    BY <2>6, <2>9, <2>10 DEF Reported
  <2> QED BY <2>7, <2>8, <2>11, <2>12 DEF r
<1>2. ~(stage = "exited" /\ wrote = "none" /\ main = "collected" /\ args.format # "tui")
        => NothingIsHidden
  BY DEF NothingIsHidden
<1>3. BatchInv /\ Settled /\ Known /\ Written => NothingIsHidden
  BY <1>1, <1>2
<1> QED BY <1>3, WrittenInvariant, PTL
====
