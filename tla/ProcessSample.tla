---- MODULE ProcessSample ----
(***************************************************************************)
(* The evidence probes that walk /proc (probes/mod.rs): the sampler, which *)
(* reads the state of every process one after the other and keeps the Half *)
(* lowest and Half highest PIDs of live user-space processes, and the loop *)
(* that then inspects each of these in steps and counts what it may not    *)
(* read, while processes start, exit and are reaped.                       *)
(***************************************************************************)
EXTENDS Naturals, FiniteSets, SequencesExt

CONSTANTS
  Lives,      \* Lives[p]: what PID p may be when the probe starts, for p in 1..n
  Half,       \* 12 in the code
  Changes     \* bound on the changes of the host while the probe runs

Pids == DOMAIN Lives
\* Of a private process only the owner may follow the links (exe, ns); of a hidden one
\* (hidepid=1) no file can be read.
UserProcess == {"live", "private", "hidden"}
Life == UserProcess \cup {"kernel", "zombie", "absent"}

ASSUME HalfAssumption == Half \in Nat \ {0}
ASSUME LivesAssumption == Lives \in Seq(SUBSET Life)

VARIABLES
  life,       \* life[p]: what PID p is now
  changes,    \* how often the host has changed
  steady,     \* the PIDs that are what they were when the probe started
  file,       \* what the probe inspects: PKG-001, PROC-001, NS-001, CONT-001
  phase,      \* "list", "stat", "inspect", "recheck", "second" or "done"
  todo,       \* PIDs still to look at in this phase
  kept,       \* PIDs that the sampler has let through
  recorded,   \* PIDs with a line of output, in its order
  skipped,    \* PIDs that have been counted as unreadable
  markers     \* "TRUNCATED" and "PARTIAL", once printed
hostVars == <<life, changes, steady>>
sampleVars == <<life, changes, steady, file, phase, todo, kept, recorded, skipped, markers>>

SampleInit ==
  /\ life \in [Pids -> Life] /\ \A p \in Pids : life[p] \in Lives[p]
  /\ changes = 0 /\ steady = Pids
  /\ file \in {"exe", "status", "ns", "cgroup"}
  /\ phase = "list" /\ todo = <<>> /\ kept = <<>>
  /\ recorded = <<>> /\ skipped = {} /\ markers = {}

Exists(p) == life[p] # "absent"

\* A set of PIDs, each at the place that the number of lower ones gives it.
Ascending(pids) ==
  [k \in 1..Cardinality(pids) |-> CHOOSE p \in pids : Cardinality({q \in pids : q < p}) = k - 1]

-----------------------------------------------------------------------------
(* with_process_sample *)

\* The shell expands /proc/[0-9]* at once.
List ==
  /\ phase = "list"
  /\ todo' = Ascending({p \in Pids : Exists(p)})
  /\ phase' = "stat"
  /\ UNCHANGED <<hostVars, file, kept, recorded, skipped, markers>>

\* Zombies and kernel threads are left out; a stat that cannot be read keeps the PID.
ReadStat ==
  /\ phase = "stat" /\ todo # <<>>
  /\ todo' = Tail(todo)
  /\ kept' = IF life[Head(todo)] \in UserProcess THEN Append(kept, Head(todo)) ELSE kept
  /\ UNCHANGED <<hostVars, file, phase, recorded, skipped, markers>>

\* high[(NR-1)%12] after the last line: the last line that fell into each place.
Ring(pids) == [k \in 0..Half-1 |->
  LET fell == {i \in DOMAIN pids : (i - 1) % Half = k} IN
  IF fell = {} THEN 0 ELSE pids[Max(fell)]]

\* Mutant of HighStart: the high half begins where the last Half lines do.
HighStartOverlapping(n) == IF n < Half THEN 1 ELSE n - Half + 1

\* start: the line of the first of the high PIDs, after all the low ones.
HighStart(n) == IF n < 2 * Half THEN Half + 1 ELSE n - Half + 1

\* awk: the low lines, then those of the ring from `start` on.
Sample(pids) ==
  LET n == Len(pids) IN
  [i \in 1..(IF n < Half THEN n ELSE Half) |-> pids[i]]
    \o [i \in 1..(IF n < HighStart(n) THEN 0 ELSE n + 1 - HighStart(n)) |->
          Ring(pids)[(HighStart(n) + i - 2) % Half]]

\* sort -n | awk
TakeSample ==
  /\ phase = "stat" /\ todo = <<>>
  /\ todo' = Sample(kept)
  /\ phase' = "inspect"
  /\ UNCHANGED <<hostVars, file, kept, recorded, skipped, markers>>

-----------------------------------------------------------------------------
(* The loop of the probe *)

\* Anyone may read status, cmdline and cgroup; the links of a zombie lead nowhere.
MayRead(p) == \/ life[p] = "live"
              \/ file \in {"status", "cgroup"} /\ life[p] \in {"private", "zombie"}
NextPid == todo' = Tail(todo) /\ phase' = "inspect"

\* The first file of a PID: readlink, or the test that it can be read.
Inspect ==
  /\ phase = "inspect" /\ todo # <<>>
  /\ IF MayRead(Head(todo)) /\ file # "status"
       THEN recorded' = Append(recorded, Head(todo)) /\ NextPid
       ELSE /\ phase' = IF MayRead(Head(todo)) THEN "second" ELSE "recheck"
            /\ UNCHANGED <<todo, recorded>>
  /\ UNCHANGED <<hostVars, file, kept, skipped, markers>>

\* Mutant of Recheck: what could not be read is taken for gone.
RecheckNothing ==
  /\ phase = "recheck" /\ NextPid
  /\ UNCHANGED <<hostVars, file, kept, recorded, skipped, markers>>

\* It could not be read: counted if there still is such a PID.
Recheck ==
  /\ phase = "recheck" /\ NextPid
  /\ skipped' = skipped \cup {p \in {Head(todo)} : Exists(p)}
  /\ UNCHANGED <<hostVars, file, kept, recorded, markers>>

\* PROC-001 after it has read status: cmdline is counted when it cannot be read,
\* whatever has become of the PID, and there is a line of output all the same.
Second ==
  /\ phase = "second" /\ NextPid
  /\ skipped' = skipped \cup {p \in {Head(todo)} : ~MayRead(p)}
  /\ recorded' = Append(recorded, Head(todo))
  /\ UNCHANGED <<hostVars, file, kept, markers>>

\* SHUVSCAN_MORE at the end of the sample, and the count of what was skipped.
Finish ==
  /\ phase = "inspect" /\ todo = <<>>
  /\ markers' = (IF Len(kept) > 2 * Half THEN {"TRUNCATED"} ELSE {})
                  \cup (IF skipped # {} THEN {"PARTIAL"} ELSE {})
  /\ phase' = "done"
  /\ UNCHANGED <<hostVars, file, todo, kept, recorded, skipped>>

-----------------------------------------------------------------------------
(* The processes of the host *)

Become(p, kind) ==
  /\ changes < Changes /\ phase # "done"
  /\ life' = [life EXCEPT ![p] = kind]
  /\ changes' = changes + 1 /\ steady' = steady \ {p}
  /\ UNCHANGED <<file, phase, todo, kept, recorded, skipped, markers>>

Exits(p) == life[p] \in UserProcess /\ Become(p, "zombie")
IsReaped(p) == life[p] = "zombie" /\ Become(p, "absent")
\* A new process may take the PID of an earlier one.
Starts(p) == life[p] = "absent" /\ \E kind \in {"live", "private"} : Become(p, kind)

SampleNext ==
  \/ List \/ ReadStat \/ TakeSample \/ Inspect \/ Recheck \/ Second \/ Finish
  \/ \E p \in Pids : Exits(p) \/ IsReaped(p) \/ Starts(p)

-----------------------------------------------------------------------------
(* Properties *)

\* The ring buffer keeps "the 12 lowest and 12 highest" (probes/mod.rs:123): each PID
\* that has fewer than Half others below it, or above it, among those that passed,
\* once and in order, also when the halves meet.
SampleIsLowHigh ==
  [][phase = "stat" /\ phase' = "inspect" =>
       todo' = Ascending({p \in Range(kept) :
                            \/ Cardinality({q \in Range(kept) : q < p}) < Half
                            \/ Cardinality({q \in Range(kept) : q > p}) < Half})
    ]_<<phase, todo, kept>>

\* Nothing is missing without a word: a user process that was there all the time has
\* its line, or could not be read and the output is marked partial, or the output is
\* marked truncated. Other processes may exit, be reaped or take a PID anew at any
\* step. Where nothing changes, no output is marked partial but for a process that
\* cannot be read, and no kernel thread or zombie has a line.
EveryProcessIsAccountedFor ==
  phase = "done" =>
    /\ \A p \in steady : life[p] \in UserProcess =>
         \/ p \in Range(recorded)
         \/ ~MayRead(p) /\ p \in skipped /\ "PARTIAL" \in markers
         \/ "TRUNCATED" \in markers /\ p \notin skipped
    /\ \A p \in steady : life[p] \in {"kernel", "zombie"} => p \notin Range(recorded) \cup skipped
    /\ steady = Pids /\ "PARTIAL" \in markers => \E p \in Pids : life[p] \in {"private", "hidden"}
    /\ IsInjective(recorded)

\* "a process that exits between sampling and inspection is dropped rather than counted"
\* (README.md:225-226): what is counted as unreadable has not exited.
ExitedIsNotCounted ==
  [][\A p \in skipped' \ skipped : life[p] \notin {"zombie", "absent"}]_skipped
====
