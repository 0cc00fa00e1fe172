# A TLA+ model of Shuvscan

Shuvscan scans a fleet of Linux hosts: for each target it opens one session (`ssh`, or a
local shell), sends a script made of read-only probes, parses what comes back, and reports
findings and observations, with an exit code that CI acts on. This directory holds TLA+
modules of the parts in which order, failure and limits matter, the TLC configurations
that check them on small instances, and proofs, checked by TLAPS, of what these runs check
for every value of the constants: about both schedulers and the run of the program, the
documents and the exit code, the collector transport, the protocol, the report file, the
terminal session and the two probe scripts. Source paths are relative to the repository.

    tlc -config FleetStream.cfg MCFleetStream     # one run; the table below lists them
    tlapm FleetStreamProofs.tla                   # the proofs of a module

## The system

| Part | State | Operations | What makes it correct |
|---|---|---|---|
| Streaming scheduler `src/engine.rs:324-427` | shared index, stopped flag, bounded channel, summary, first error | workers: check the flag, fetch, scan, send; main thread: spawn, receive, count, hand to `on_report`, join | each target at most once, what was dispatched is counted, bounded run-ahead, bounded work after an error, no deadlock |
| Batch scheduler `src/engine.rs:244-310` | shared index, per-worker reports | fetch, scan; join, sort | one report per target, in an order that does not depend on the schedule |
| Summary and exit status `src/engine.rs:30-55`, `src/main.rs` | `ScanSummary` | include, for_targets, report_exit | 0 or 1 only for a scan that covered the fleet |
| Collector transport `src/transport.rs` | process groups, registry of active groups, deadlines | spawn, register, wait without reaping, kill, unregister, reap, collect; the interrupt watcher | nothing outlives a call, no foreign process is killed, every call returns |
| Protocol and assessment `src/protocol.rs`, `src/engine.rs:60-240` | the framed stream, the open section, sections, findings, observations, errors | emit sections, cut, parse lines, assess | never a silent pass, no half-trusted section, evidence never oversold |
| Report file `src/main.rs:240-370` | temporary file, directory, what is on disk | create, write, flush, sync, rename, drop | the destination holds the old or a whole report, after a crash too |
| Terminal guard `src/tui.rs:560-640` | terminal settings, screen, saved settings, registered cleanup | enter, draw, read a key, drop; the watcher's cleanup | the user gets a usable terminal back |
| Viewer `src/tui.rs:14-550`, `:644-751` | selection, scroll, expansions, help; the bytes of keys | keys, frames, resizes; poll, read, decode | the highlighted line is the selected row's, whatever changed; a key does what the help says |
| Probe scripts `src/probes/mod.rs` | variables of the shell, the host they look at | list, read, look up, count, explain | what is there is recorded, and what cannot be read is said |
| Probe packs `src/packs.rs` | what has been read of three files | stat, open, fstat, read, verify, validate | only a pack the trusted key signed is run, as it was signed |
| Report formats `src/output.rs` | none | human text, JSON, JSON Lines, SARIF, OCSF, HTML | no format says more than the scan has shown, or hides what it has |
| Command line `src/main.rs:21-226` | the writer | check the arguments, load the pack, open the output, scan, write, exit | what cannot end in a report starts nothing; the exit code fits the document |

How they interact. With `--unordered` (JSON Lines only) `main` uses the streaming scheduler, and
the batch scheduler otherwise. Each worker thread of a
scheduler calls `scan_target`, which builds the script, calls `execute` of the transport
(a process group, three helper threads and a deadline), parses the output and assesses
it; a panic in it is caught and becomes a report with a collector error. The streaming
main thread takes the reports from a bounded channel and writes them to stdout or to the
report file; the batch main thread joins the workers, sorts and writes, or opens the
viewer. One more thread, the interrupt watcher, waits for SIGINT and SIGTERM; it shares
with the workers the registry of active process groups, and with the main thread the
cleanup of the terminal, both behind mutexes. The exit code is computed from the summary
of the reports and from the outcome of the write.

What is hard here: worker threads against the main thread (a full channel, a consumer
that fails or panics while others scan); process IDs, which the system reuses; the
watcher, which may end the process between any two steps of any thread; streams that end
anywhere; a file system that loses what was not synced.

## The modules

| Module | Models | State and actions |
|---|---|---|
| `ExitStatus` | `ScanSummary`, `report_exit` and the exits of `main` | operators; `HonestExit` is the reference they are checked against, stated on the verdicts of all targets |
| `FleetScan` | nothing in the code: what a scan of a fleet promises | phase of each target; Dispatch, Complete, Count, Cut, Finish, Crash |
| `FleetStream` | `scan_all_unordered_with` and the run around it | one action per step of a worker or of the main thread that another thread can see |
| `FleetBatch` | `scan_all_with` | the same workers without flag and channel; the join sorts by (label, index) |
| `PackLoad` | `packs::load` | the path and the open file of what is being read, what has been read; replacing, rewriting and failing reads are actions of others |
| `ReportFormats` | `output.rs` and the headers of the viewer | operators: a document is the sequence of the items it says, each about a target |
| `Invocation` | `main` | composes `PackLoad`, `FleetBatch`, `ReportFormats` and `ExitStatus`; an item of the document is written a step |
| `Transport` | `execute`, `wait_for_exit`, `ActiveGroup`, `terminate_group`, `receive_before`, the watcher | per PID: owner, leader, descendants; per call: where it is; the actions of the operating system are actions too |
| `Transcript` | `build_script`, `parse`, `scan_with_context` | the stream as a sequence of lines, which the session may cut anywhere; the parser reads a line a step |
| `ReportFile` | `OutputFile` | directory, data in the file and data on disk of each run; kill and power loss are actions |
| `TerminalGuard` | `TerminalGuard`, the interrupt cleanup | the steps of the main thread and of the watcher, interleaved |
| `Viewer` | `Viewer` and its part of `event_loop` | an action per kind of key, the frame, and the resize that comes at any time; a body is the sequence that tells which wrapped lines begin a row |
| `TuiSession` | `tui::run` | composes `Viewer` and `TerminalGuard`: a frame, a key and the end of the loop are joint actions |
| `KeyInput` | `read_key`, `decode_*`, `poll_stdin` | bytes in the kernel and bytes in the buffer of `std::io::Stdin` |
| `ProcessSample` | the sampler of the `/proc` probes and the loops of PKG-001, PROC-001, NS-001 and CONT-001 | what each PID is, the PIDs to look at, recorded and skipped; processes exit, are reaped and start |
| `TempWalk` | the script of SHUV-FS-002 for one directory | mountinfo, what find has passed, pruned and complained of; file systems come and go |
| `ProbeScripts` | that the collector runs one script at a time | either of the two |
| `MC...` | | values of the constants for TLC |
| `FleetStreamProofs`, `TransportProofs`, `TranscriptProofs`, `ReportFileProofs`, `TuiSessionProofs` | | theorems about the module of that name; the first includes the refinement of `FleetScan` |
| `InvocationProofs` | | theorems about `Invocation` and what it is composed of: the pack, the batch scan, the documents, the exit code |
| `ProbeProofs` | | theorems about `ProbeScripts`: `ProcessSample` and `TempWalk` |
| `SequenceLemmas` | | what `FlattenSeq`, `FoldLeft` and sorting compute, and the sums of items in a sequence, for the proofs |

How data is abstracted. In the schedulers a report is the index of its target plus a
verdict: highest severity, whether the collector failed, whether anything failed
(`ExitStatus!Verdict`); `Invocation` gives it the findings, observations and errors that
the documents show.
Which verdict a scan gives is kept in `host`, so that the exit code can be compared with
what was true of the hosts and not with the summary alone. In `Transcript` a line is a
marker or one of a few payloads: a hit, a miss, evidence beyond the budget. Markers carry
a nonce drawn for each scan, so no payload is a marker; the nonce itself is not modelled.
The random scan identifiers (`src/engine.rs`, `src/protocol.rs`) never meet another part of the state.

A document is a sequence of items, an item being what is said (PASS, finding, line,
truncated, rule index, ...), the target it is said of, an ID and a number. A line item with
the number n stands for n lines of evidence, shown or announced. In `PackLoad` a text is
what a file says, and which texts parse and verify are constants. In `TempWalk` a path is
a sequence of names.

Five modules state what the operating system does, as far as the code relies on it:
`Transport` (a PID is free once its leader is reaped and its group is empty; SIGKILL of a
group reaches all members, or none when they are root's and the scanner is not),
`ReportFile` (directory changes reach the disk in order; unsynced data may be lost),
`PackLoad` (an open file stays the same one when its path is replaced; opening a FIFO
waits for a writer unless it is non-blocking), `ProcessSample` (a zombie keeps its
directory in `/proc`, and its links lead nowhere) and `TempWalk` (the walk of a path goes
onto whatever is mounted on the way).

Granularity. An atomic operation, a lock held for one statement, a system call and a
channel operation are one action each; what happens between two of them in one thread and
is seen by no other joins the action before or after it. A panic of `thread::spawn`, of a
scan and of `on_report` are alternatives of the actions in which they happen, and unwinding
runs the destructors in the order of the code (the receiver is dropped before the scope
joins its workers).

## The runs

| Run | What it shows | States |
|---|---|---|
| `stream` | `FleetStream` is type-correct; at most two rounds of targets are ahead of the consumer; after an error at most `2 * WorkerCount + 1` more than were accepted are dispatched; a target is in one place; everything dispatched is counted; the exit code is honest; the process ends; `FleetScan` is implemented | 109 k |
| `invocation` | one report per target in the one order; PASS and its like are earned wherever a reader stops; a complete document hides nothing; the exit code is honest and fits the document; an unusable run starts nothing; a pack is run as it was signed; the process ends; `FleetScan` is implemented | 171 k |
| `transport` | no process of a call outlives it; a call kills only what is its own; an accepted transcript is final; the registry names only unreaped collectors; the groups listed at a signal die before the scanner; every call returns | 250 k |
| `transcript` | kept sections are whole; never a silent pass; evidence is qualified; truncation is fatal; a strict 0 or 1 means complete collection | 1.5 M |
| `report_file` | the destination is whole, now and after a power loss; a run owns its temporary file; only a success replaces the destination; every run ends | 28 k |
| `tui` | every frame highlights the selected row, shows all of it if it fits and wastes no room; the terminal is restored by every exit and by an interrupt during the view; a registered cleanup can be honoured; an interrupt ends the process | 101 k |
| `probes` | the sample is the lowest and highest PIDs; every process is recorded, counted or covered by a mark; a suspect file is reported or the walk is partial; what could not be entered leaves its mark | 158 k |

Five more runs check a sentence of a document, a comment or a test, and end with a
counterexample; each is a finding:

| Run | The claim | What the code does |
|---|---|---|
| `transport_interrupt` | `README.md:75-77`: an interrupt terminates every in-flight group | a group spawned but not yet registered, or spawned after the registry was copied, survives |
| `transport_sudo` | `README.md:74-75`: a timeout terminates the group | under `sudo` the kill fails with EPERM, unnoticed, and the wait for the leader has no bound |
| `transcript_uncollected` | `README.md:169-170`: a target that was not collected is never a pass | a session that ends at once with status 0 leaves errors on probes, none on `collector`: exit 0 |
| `process_exited` | `README.md:225-226`: a process that exits between sampling and inspection is dropped rather than counted | a zombie still has its directory, and cmdline is counted as unreadable whatever has become of the process: the section is marked partial |
| `viewer_arrows` | `README.md:105-109`: up and down move, left and right change targets | the read of the first byte takes the whole sequence into the buffer of stdin, `poll` sees nothing more, and the key is an Esc: the viewer quits |

Every property of the passing runs has a mutant in `PROJECT.json`: a variant of one
definition, as a plausible slip in the code would change it (a dropped guard, a swapped
order, an off-by-one), under which TLC finds the property violated. The mutants stand
before the definition they replace.

One more remark from `StopBound`: the flag is read before the index is fetched, so
`2 * worker_count + 1` targets may be dispatched for a consumer that refuses the first
report. The test at `src/engine.rs:721-724` asserts `2 * worker_count`, and holds on all
but unlucky schedules.

### Bounds, and why they are enough

- `FleetStream`: 6 targets, 2 workers. `StopBound` and `BoundedRunAhead` are reached
  exactly with `2 * WorkerCount + 1` targets, and the sixth makes an overshoot visible.
  The first target behaves in any of five ways, the second is always partly scanned, the
  others are clean: that covers every combination `report_exit` tells apart.
- `Invocation`: 3 targets, 2 workers, two labels equal, and labels against positions; one
  host behaves in any of five ways, the others are clean or partly scanned. The four
  contents have evidence of one, two, three and five lines, which is below, at and beyond
  the previews. Each file of a pack has two or three texts, one of them too long and one a
  FIFO, and may be replaced any number of times.
- `Transport`: two calls and two PIDs, so that a PID is taken by another process while
  the second call needs one; one of the collectors forks and its child may escape.
- `Transcript`: three probes (a detection that requires root, one that recommends it, an
  observation); each section has one to four outcomes and the stream is cut after every
  line and inside every line.
- `ReportFile`: two runs with one PID, two names per run instead of 16 (the loop over
  names is the same), reports of two chunks, any subset of names left over. `Old` stands
  for the destination of before; that it may not exist changes no step.
- `TuiSession`: two targets, one without rows; rows of one to five lines at four sizes,
  one of which has no room for the body and two of which are shorter than a row. Only
  widths above 4: below, continuation lines are not indented and may be taken for rows.
  When the loop ends the viewer's variables return to their first values. The terminal's
  part needs no bound.
- `KeyInput`: two keys.
- `ProcessSample`: 5 PIDs and halves of 2 instead of 12, so that the halves meet, overlap
  and leave a gap; two changes of the host, which take a PID from live to reaped, or from
  absent to a process that exits. The loop of the probe does not depend on the halves.
- `TempWalk`: five entries, five tables of mounts and two changes among five mounts: of
  another device, of the same one (a bind mount), refusing or not.

`CHECK_DEADLOCK FALSE` is set in every run because each of these systems stops: the
process exits. That none stops early is what `Terminates`, `EveryCallReturns`,
`EveryRunEnds` and `InterruptEnds` say.

### Fairness

Weak fairness of each worker thread and of the main thread (`FleetStream`, `Invocation`),
of each call and of the passing of its deadline, and of the watcher (`Transport`), of each
run of `OutputFile` (`ReportFile`), of the watcher only (`TuiSession`: nobody need press
a key and no scan need end). The probe scripts have no liveness property and no fairness. This is what a preemptive scheduler gives to threads that
never spin; that a scan ends is assumed in the schedulers because `Transport` shows it
(`EveryCallReturns`, but for the finding `transport_sudo`). Nothing is assumed of the
collectors: they may run, fork and hold the pipes for ever. Strong fairness is not needed.

## The proofs

`FleetStreamProofs` proves, for every `N`, every `Concurrency > 0`, every behaviour of the
hosts and every way `on_report` may end:

| Theorem | Property |
|---|---|
| `TypeCorrect` | `TypeOK` |
| `NoDuplicate` | `OnePlaceEach` |
| `NothingLost` | `JoinedCountsAll` |
| `ExitHonest` | `ExitIsHonest` |
| `RunAheadBounded` | `BoundedRunAhead` |
| `StopIsBounded` | `StopBound` |
| `StreamImplementsFleetScan` | `ImplementsFleetScan` |

They assume what `FleetStream` assumes of its constants (`NAssumption`,
`ConcurrencyAssumption`, `HostsAssumption`, `HandlerAssumption`, `FailOnAssumption`), and
nothing of fairness. The argument, from the inside out:

1. `TypeInv` is `TypeOK` with two facts it needs to be inductive: a busy worker holds a
   target the counter has passed, and the report being handled has been counted.
2. `OnePlaceEach` is inductive over `TypeInv`: each step moves one target from one place
   to the next, and `fetch_add` hands out an index that no place holds.
3. `Cover` says that every dispatched target *is* in some place. Without it a target could
   vanish and `JoinedCountsAll` would not follow when the workers are done and the channel
   is empty. The two together (`Inv`) give `NothingLost`.
4. `Reflects` relates the summary to the set `received`: its highest severity and its two
   flags are those of the reports counted. `HonestExit` speaks of the hosts only; with
   `Reflects` and `Inv` the code computed from the summary is the one it asks for.
5. `Books` counts: the number of dispatched targets is that of the busy workers, the queue
   and the counted; once the flag is up, each worker may still take one target, if it is
   past the check. Cardinalities of these sets give the two bounds.
6. For the refinement, every step moves the abstract phase of at most one target, or ends the
   scan by Finish, Cut or Crash of `FleetScan`. Its guards (nothing dispatched is uncounted
   at the end, no more than `Width` scanned at a time) are what `NothingLost` says and
   that a worker scans one target at a time. `ExitPending` says that the
   exit code of a panic, which the mapping takes for a crash, is there only once the
   process has exited.

`TransportProofs` proves, for any number of calls and of PIDs, however PIDs are reused:

| Theorem | Property |
|---|---|
| `NoForeignKill` | `KillsOnlyItsOwn` |
| `RegistrySound` | `RegistryHoldsCollectors` |
| `NothingOutlives` | `NothingOutlivesExecute`, if every collector may be signalled |
| `ListedDieFirst` | `ListedGroupsDieFirst`, if every collector may be signalled |

`Base` says who owns what: a call between spawn and reap holds a PID whose leader is on the
process table, a collector's group has one PID, and a registered PID is held by a call at a
place between register and unregister. It holds because every step outside the call only lets
groups *age* (`Ages`): the dead stay dead, an ended leader stays until it is reaped, and a PID
changes hands when nothing is left of its group. `Dead` adds that past the kill nothing of the
group lives, and `Hunt` that each group the watcher has listed is dead or still on its list;
both hold because no step brings a process of a call that has spawned to life (`Calm`). They
need that kills work, `Reachable = Sessions`; `transport_sudo` shows what happens otherwise.
`OtherAssumption` and `ReachableAssumption` are used.

`ReportFileProofs` proves, for any number of runs, names to try and chunks:

| Theorem | Property |
|---|---|
| `OwnFilesOnly` | `OwnsItsTemp` |
| `OldOrWhole` | `DestIsWhole` |
| `WholeAfterPowerLoss` | `DestSurvivesPowerLoss` |
| `ReplacedBySuccess` | `OnlySuccessReplaces` |

`OwnsItsTemp` is inductive with the types: a name is taken when it is free, and a run moves or
removes only the name that leads to its own file. `DestIsWhole` is not: after a power loss an
older directory meets shorter data. `AllWhole` therefore speaks of every directory that may
come back and of the synced data, which only grows, and `Progress` says that what is renamed
is synced whole. `SizesAssumption` is used.

`TranscriptProofs` proves, for any list of probes, any privileges and severities, any output
of any section and any place where the session ends or the limit cuts:

| Theorem | Property |
|---|---|
| `SectionsAreKeptWhole` | `SectionsAreWhole` |
| `NeverASilentPass` | `NoSilentPass` |
| `EvidenceKeepsItsQualifiers` | `EvidenceIsQualified` |
| `TruncationAlwaysFails` | `TruncationIsFatal` |
| `StrictExitMeansComplete` | `StrictExitIsComplete` |

The invariant follows a section on its way. In the stream (`Frames`, `EarlierWhole`) the lines
after a BEGIN line are those the section printed, only the last line may be torn, and every
section but the last is there in full. In the parser (`Opened`, `ReadWhole`) the open section
holds the lines since its BEGIN line, so a section that is kept (`KeptWhole`) has the body
and the status it ran with. In the report (`Assessed`) errors, findings and observations are
functions of the sections kept. The assembly of the lines, of a length known only from the
sections, is why the shape of the whole stream is part of the invariant. The output of
`Transcript` is a set of the findings and observations made, as the order in which
`scan_with_context` pushes them is no concern of these properties. `ProbeIdsAssumption`
(no two sections have one name), `RunsAssumption` and `SystemRunsAssumption` (no line of the
metadata or the capabilities is a status marker) are used.

`TuiSessionProofs` proves, for all reports, sizes of the window and sequences of keys:

| Theorem | Property |
|---|---|
| `TerminalIsRestored` | `ExitRestores` |
| `CleanupHonoured` | `CleanupIsHonoured` |
| `ViewerRestored` | `ViewerIsRestored` |
| `SelectionShown` | `SelectionIsShown` |

Every step of the session is one of `TerminalGuard` or leaves its variables alone
(`GuardSteps`), so the invariant speaks of the terminal only. Its parts: `Places`, where the
two threads are and that only the original settings are ever saved; `MainRestores`, that the
terminal is the user's own whenever the main thread has not entered or has dropped the guard;
`CleanupIsThere`, that the cleanup and the settings it needs are there during the view;
`WatcherRestores`, that the watcher finishes what it has taken; `ViewingIsKnown`, that a
signal found during the view finds the cleanup. `MainRestores` needs that the watcher only
ever moves the terminal towards the original, which is why both may restore it in any order.

For the viewer the invariant is `ViewInv`: the selection is on a row of the report (`Browses`),
a key is only awaited after a frame (`pc = "read" => ~dirty`), and while no key has been
handled since the last frame that frame is right for the size it was drawn for (`Shows`),
whatever the window is now: a resize changes nothing else, and the loop draws again because it
compares the sizes. That a frame is right when it is drawn (`FrameShows`) is about the text.
`BodyLaid`: the rows stand in the body one after the other, with at least one line each
(`WrappedType`), and the lines that begin a row are their first ones. `RowsAbove` counts them
by induction, so the row which `selected_anchor` finds by counting is the selected one, and
`selected_span` ends where the next begins (`SpanFound`); the sum of the heights of the rows
above, by which `SelectionIsShown` says where the row should be, is the same place
(`AboveIsOff`). The rest is arithmetic on `follow_selection`. Of the assumptions,
`ReportsAssumption` (a header, and a line of every row, closed and open), `HelpAssumption` and
`SizesAssumption` (a width above the indentation) are used.

`InvocationProofs` proves, for every fleet, every `--concurrency`, every pack, every text of
the three files and every way they change, and every content of the reports:

| Theorem | Property |
|---|---|
| `NothingStarted` | `UnusableStartsNothing` |
| `PackRunAsSigned` | `PackIsWhatWasSigned` |
| `OneReportEach` | `OneReportEachInOrder` |
| `BatchImplementsFleetScan` | `ImplementsFleetScan` |
| `PassEarned` | `PassIsEarned` |
| `ExitFits` | `ExitMatchesDocument` |
| `NothingHidden` | `NothingIsHidden` |

For the first, `Settled` says what each stage of `main` has behind it: no target taken before
the scan, arguments that fit after the first check, a pack accepted or not asked for once it
is loaded, a writer once the output is open. For the second, `PackRead` says that each file
read so far was stored at its path and is within its limit: the handle stays within
`Stored` while it is open, and a replaced path is not looked at again, so the step that
accepts has verified the very texts that it parses. That a sequence without repetition has as
many members as places (`AllDistinct`) gives the count of probes.

`BatchInv` is about the workers. `Owned`: a target that has been taken is with the one worker
that scans it or once among the reports of one worker. `Held`: it is nowhere else until the
reports are collected, and a worker that has stopped has left no target behind. Joined, the
workers' reports are therefore every target once (`FlattenLays` says where each stands), a
sorted permutation of them exists (`SortingExists`), and labels with positions are a strict
order, so it is the only one. For the refinement `ScanStage` adds that the scan is over
neither before it starts nor after it ended.

What a document says is proved without induction over it. An item is *about* a report
(`About`) if what it says is so: PASS only of one with neither findings nor errors, a finding
with a severity it has, an error it has. Each part of each format is a sequence of such items
(`Pieces`), and the parts that list findings and errors have all of them (`Complete`); joined
by `\o` and `FlattenSeq` they stay so. `Ordered` says that INCOMPLETE comes before the
results of a target with errors; a report that *warns* first (`Warns`) keeps that order among
the others, since they are of other targets (`OrderedReports`). `Written` then follows the run:
from the write on, the document is that of the collected reports, what is shown is a
prefix, and the exit code is `report_exit` of the summary. The summary is a fold;
`SummaryReflects` takes it step by step and ends with the verdicts of all targets.
`ReportAgrees` ties a verdict to the report's findings and errors, and `ToldInFull` ties it to
the items of a document that is out in full.

`NothingIsHidden` adds up numbers wherever they stand in the document: the severity told of an
ID, the lines of evidence shown and those counted instead. A finding, an observation or the
number of those left out is a *part* of a report (`FindingPart`, `ObservationPart`,
`OmittedPart`): the sum for each kind of item, and the items that go with it. The lemmas say
of each list of a format that it shows its parts (`Shows`), and of each other list that it
says nothing of them (`Apart`); what shows a part still does between lists that say nothing of
it (`ShowsJoined`, `ShowsAmong`). The sums need no commutativity: the items of one part stand
next to each other (`AddsUp` in `SequenceLemmas`), so the fold over the whole document passes
zeros, the ones of the lines shown, and the rest (`SumOfOnes`). It is here that two findings
of one ID in one report would be added up, so `Invocation` states that there are none.

The proofs rest on the types of the contents of files, limits, manifests and reports
(`StoredAssumption`, `LimitAssumption`, `ManifestsAssumption`, `BuiltinsAssumption`,
`ScansAssumption`), on `DetailsAssumption`: the findings and errors of a report and its
verdict, two views of one `ScanReport`, agree, and on `PartsAssumption`: a report has one
finding or one observation of each probe at most. `scan_with_context` goes through the probes
once; a probe is a detection, which gives findings, or evidence, which gives observations
(`src/probes/mod.rs:45-90`); a pack has no probe twice (`src/packs.rs:134`), and neither have
the builtins (the test at `src/probes/mod.rs:826`).

`ProbeProofs` proves, for any number of PIDs and any size of the sample, and for any entries
below the directory and any tables of mounts:

| Theorem | Property |
|---|---|
| `EveryProcessAccounted` | `EveryProcessIsAccountedFor` |
| `SampleLowHigh` | `SampleIsLowHigh` |
| `EverySuspectReported` | `SuspectIsReported` |
| `EveryRefusalMarked` | `UnreadableIsPartial` |

For the sampler, `SampleInv`: what has been listed, kept and recorded is ascending; up to the
sample each user process that has stayed is among what is kept or still to be looked at;
after it each is still to be inspected, has its line, has been counted, or may have been left
out of a sample that the marker calls truncated. That the ring and the lines of awk keep the
lowest and the highest, whatever their number, is an argument about positions (`HighLines`).

For the walk, `WalkInv`: a suspect that find has passed is in the batch, reported, excused by
a complaint about the whole, or below a directory that was not entered (`NoneLost`); such a
directory is on another device or complained of (`Pruned`), and the reverse (`NotEntered`).
`Reached`, the row of the table on which the kernel's walk of a path ends, is the one whose
options the script looks up (`ReachedIsOptions`). The conditions, which the runs' tables
satisfy, are stated as assumptions: find lists a directory before what is in it and each
path once (`EntriesAssumption`); no mount is covered by a later one above it, where the two
differ (`MountInfo`, see the hazards); nobody mounts on a suspect file itself
(`MountableAssumption`).

`SequenceLemmas` has what these proofs need of the community modules. Their recursive
operators are choices of a function, so a proof first shows that such a function exists
(`FoldExists`, `FlattenLays`, `OntoExists` in `ProbeProofs`), by induction over a *set*:
a set of naturals with 0 and every successor is all of them, since otherwise the
numbers it lacks have a least one (`LeastNatural`, `SetInduction`). That needs no theorem
with an operator as a parameter, which the provers cannot instantiate.

`AddsUp` says that what a document tells of one thing stands together in it and adds up to a
number, and `SumOf` is that sum as `FoldLeft` computes it.

TLC only: liveness under fairness (`Terminates`, `InterruptEnds`, `EveryCallReturns`,
`EveryRunEnds`), which like `ENABLED` is beyond the prover.

## Hazards without a property

`PROJECT.json` lists the hazards, each at its line. Those that no property covers: the
watcher's copy may name a PID that was given away since (`src/transport.rs:308`); the
metadata section is used whatever its status (`src/protocol.rs:219`); the temporary file
is left behind when setting its permissions fails (`src/main.rs:295`); a frame may be drawn
after the watcher has left the alternate screen (`src/tui.rs:430`); a mount that a later
one hides is still in mountinfo (`src/probes/mod.rs:301`).

## Not modelled

- The other probe scripts: most are a pipeline over one file or command, without state to
  speak of. `Transcript` models what a section may print and how it may end. Of the two
  modelled, the tests for `/proc` and for a package manager at their start are left out,
  as is what is printed of a process.
- In `TempWalk`, mounts that cover deeper ones: the kernel's walk then never reaches the
  deeper mount, while the script, which takes the longest matching path of mountinfo, does.
  The decoding of octal escapes and the parsing of find's messages are left out too.
- The grammar of arguments and of pack identifiers, and the signature scheme.
- Wording, escapes (`terminal_safe`, `escape`) and the calendar of the HTML report.
- A timeout so large that the deadline overflows the clock, which makes it now
  (`src/transport.rs:80-82`); widths of up to four columns (`src/tui.rs:492`).
- In `Invocation`, the run after the hand-over to the streaming scheduler, which
  `FleetStream` models with its own exit, and the steps of `OutputFile`, for which `Persist`
  and `WriteFails` stand.
- Random identifiers: 128 bits from the system; a collision is not considered.
- Inside a modelled part: failures of the `write` and `tcsetattr` calls that restore the
  terminal, which the code ignores, and the hex decoding of `os-release` beyond its being
  readable or not.

## Plan

1. The truncation of evidence at a character boundary, and the parsing of find's messages.
