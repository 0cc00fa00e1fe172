---- MODULE Invocation ----
(***************************************************************************)
(* One run of the program (main in main.rs): its arguments, the probe pack *)
(* (PackLoad), the place for the report, the batch scan (FleetBatch), the  *)
(* document (ReportFormats), written item by item to a consumer that may   *)
(* close the pipe or to a file that appears when it is complete, and the   *)
(* exit code. With --unordered, FleetStream takes over from the scan on.   *)
(***************************************************************************)
EXTENDS FleetBatch, PackLoad, ReportFormats

CONSTANTS
  FailOns,      \* the values of --fail-on
  SeverityOf,   \* SeverityOf[p]: 0 for a probe that only collects evidence
  Details       \* Details[t][v]: the content of a report about t with verdict v

Args == [format : {"human", "json", "jsonl", "sarif", "ocsf", "html", "tui"},
         output : BOOLEAN, open : BOOLEAN, unordered : BOOLEAN, listProbes : BOOLEAN]

Severities(d) == {d.findings[k].severity : k \in DOMAIN d.findings}
ASSUME FailOnAssumption == FailOns \subseteq Severity
\* What a scan finds, which agrees with its verdict.
ReportContent ==
  [host : BOOLEAN, findings : Seq(Finding), observations : Seq(Observation),
   errors : Seq({"collector"} \cup STRING)]
ASSUME ScansAssumption ==
  \A t \in Targets : \A h \in Hosts[t] : h.verdict \in DOMAIN Details[t]
ASSUME DetailsAssumption == \A t \in Targets : \A v \in DOMAIN Details[t] :
  /\ v \in Verdict /\ Details[t][v] \in ReportContent
  /\ v.severity \in Severities(Details[t][v]) \cup {NoSeverity}
  /\ \A s \in Severities(Details[t][v]) : s <= v.severity
  /\ v.incomplete = (Details[t][v].errors # <<>>)
  /\ v.collector = Contains(Details[t][v].errors, "collector")

\* A probe judges its evidence or shows it, and no two probes have one ID: a report has
\* one finding or one observation of each.
OnePartEach(d) ==
  /\ \A j, k \in DOMAIN d.findings : d.findings[j].id = d.findings[k].id => j = k
  /\ \A j, k \in DOMAIN d.observations : d.observations[j].id = d.observations[k].id => j = k
  /\ \A j \in DOMAIN d.findings : \A k \in DOMAIN d.observations :
       d.findings[j].id # d.observations[k].id
ASSUME PartsAssumption ==
  \A t \in Targets : \A v \in DOMAIN Details[t] : OnePartEach(Details[t][v])

VARIABLES
  stage, args,
  writer,       \* "none", "stdout", "file", or "sink" of the viewer
  document,     \* the items to be written, once the scan has ended
  shown,        \* how many of them have been written
  persisted,    \* the file has taken the place of its destination
  wrote, exit
runVars == <<stage, args, writer, document, shown, persisted, wrote, exit>>
vars == <<packVars, batchVars, runVars>>

NotExited == [code |-> 255, strict |-> FALSE, failOn |-> NoSeverity]

Init ==
  /\ args \in Args
  /\ \E withPack \in BOOLEAN : PackInit(withPack)
  /\ BatchInit
  /\ stage = "args" /\ writer = "none" /\ document = <<>> /\ shown = 0 /\ persisted = FALSE
  /\ wrote = "none" /\ exit = NotExited

-----------------------------------------------------------------------------
(* Before the scan *)

GoTo(next_stage) ==
  stage' = next_stage /\ UNCHANGED <<args, writer, document, shown, persisted, wrote, exit>>
\* An exit that no scan decides: 0 after --list-probes, 2 when unusable, 101 of a panic.
ExitWith(code) ==
  /\ stage' = "exited" /\ exit' = [NotExited EXCEPT !.code = code]
  /\ UNCHANGED <<args, writer, document, shown, persisted, wrote>>

\* Combinations of arguments that are refused: --open without --output by clap.
UsageError ==
  \/ args.open /\ (~args.output \/ args.format # "html")
  \/ args.unordered /\ args.format # "jsonl"
  \/ args.output /\ args.format = "tui"

CheckArgs ==
  /\ stage = "args"
  /\ IF UsageError THEN ExitWith(2) ELSE GoTo("pack")
  /\ UNCHANGED <<packVars, batchVars>>

LoadPack == stage = "pack" /\ Load /\ UNCHANGED <<batchVars, runVars>>

\* Mutant of PackLoaded: the place for the report is sought after the scan.
PackLoadedScanFirst ==
  /\ stage = "pack" /\ pack # "loading"
  /\ IF pack = "rejected" THEN ExitWith(2)
     ELSE GoTo(IF args.listProbes THEN "list" ELSE "scan")
  /\ UNCHANGED <<packVars, batchVars>>

PackLoaded ==
  /\ stage = "pack" /\ pack # "loading"
  /\ IF pack = "rejected" THEN ExitWith(2)
     ELSE GoTo(IF args.listProbes THEN "list" ELSE "open")
  /\ UNCHANGED <<packVars, batchVars>>

\* println panics when stdout cannot be written to.
ListProbes ==
  /\ stage = "list"
  /\ ExitWith(0) \/ ExitWith(101)
  /\ UNCHANGED <<packVars, batchVars>>

\* ensure_interactive and report_writer; only stdout cannot fail to be opened.
CannotOpen ==
  /\ stage = "open" /\ (args.output \/ args.format = "tui")
  /\ ExitWith(2)
  /\ UNCHANGED <<packVars, batchVars>>

OpenWriter ==
  /\ stage = "open"
  /\ writer' = IF args.format = "tui" THEN "sink" ELSE IF args.output THEN "file" ELSE "stdout"
  /\ stage' = IF args.unordered THEN "stream" ELSE "scan"
  /\ UNCHANGED <<packVars, batchVars, args, document, shown, persisted, wrote, exit>>

-----------------------------------------------------------------------------
(* The scan, the document and the exit code *)

Scanning == stage = "scan" /\ UNCHANGED <<packVars, runVars>>

\* scan_with_context, and panicked_report: a worker that panicked knows nothing.
ReportAbout(t) ==
  LET base == [target |-> t, packed |-> pack = "accepted", host |-> FALSE,
               findings |-> <<>>, observations |-> <<>>, errors |-> <<"collector">>]
      d == Details[t][host[t].verdict]
  IN IF host[t].panics THEN base
     ELSE [base EXCEPT !.host = d.host, !.findings = d.findings,
                       !.observations = d.observations, !.errors = d.errors]
Reports == [k \in DOMAIN reports |-> ReportAbout(reports[k])]

Scanned ==
  /\ stage = "scan"
  /\ \/ main = "panicked" /\ ExitWith(101)
     \/ /\ main = "collected"
        /\ document' = Document(args.format, Reports, active, SeverityOf)
        /\ stage' = "write" /\ UNCHANGED <<args, writer, shown, persisted, wrote, exit>>
  /\ UNCHANGED <<packVars, batchVars>>

\* Nobody sees the temporary file, so its items are written at once.
WriteItems ==
  /\ stage = "write" /\ shown < Len(document)
  /\ shown' = IF args.output THEN Len(document) ELSE shown + 1
  /\ UNCHANGED <<packVars, batchVars, stage, args, writer, document, persisted, wrote, exit>>

\* A write, the persist or the viewer fails; a closed pipe on stdout is no failure of
\* the scan.
WriteFails ==
  /\ stage = "write"
  /\ \/ wrote' = "Other" /\ stage' = "exited" /\ exit' = [NotExited EXCEPT !.code = 2]
     \/ /\ writer = "stdout"
        /\ wrote' = "BrokenPipe" /\ stage' = "summary" /\ UNCHANGED exit
  /\ UNCHANGED <<packVars, batchVars, args, writer, document, shown, persisted>>

\* The whole document is out: persist, which renames a file, and --open, whose
\* failures are only reported.
Persist ==
  /\ stage = "write" /\ shown = Len(document)
  /\ persisted' = args.output
  /\ stage' = "summary"
  /\ UNCHANGED <<packVars, batchVars, args, writer, document, shown, wrote, exit>>

Conclude ==
  /\ stage = "summary"
  /\ stage' = "exited"
  /\ \E strict \in BOOLEAN, failOn \in FailOns :
       exit' = [code |-> ExitAfterWrite(wrote, Summary, strict, failOn),
                strict |-> strict, failOn |-> failOn]
  /\ UNCHANGED <<packVars, batchVars, args, writer, document, shown, persisted, wrote>>

Run ==
  \/ CheckArgs \/ LoadPack \/ PackLoaded \/ ListProbes \/ CannotOpen \/ OpenWriter
  \/ Scanning /\ Collector
  \/ Scanned \/ WriteItems \/ WriteFails \/ Persist \/ Conclude

Next ==
  \/ Run
  \/ \E w \in Workers : Scanning /\ Worker(w)
  \/ stage = "pack" /\ Meddle /\ UNCHANGED <<batchVars, runVars>>

\* Threads are scheduled fairly and scans end; those who meddle need do nothing.
Spec == /\ Init /\ [][Next]_vars /\ WF_vars(Run)
        /\ \A w \in Workers : WF_vars(Scanning /\ Worker(w))

-----------------------------------------------------------------------------
(* Properties *)

\* What a reader of stdout, of the file or of the viewer has seen so far.
Visible == 1..(IF args.output /\ ~persisted THEN 0 ELSE shown)
Says(is, on) == {k \in Visible : document[k].is = is /\ document[k].on = on}
Concerned(on) == {k \in DOMAIN Reports : on \in {Fleet, Reports[k].target}}
Clean(k) == Reports[k].findings = <<>> /\ Reports[k].errors = <<>>

\* "PASS is reserved for complete scans with no findings" (README.md:98), and so are
\* success in SARIF and OCSF: wherever a reader stops, nothing that has been shown says
\* more than is true of every target it is about, and text that goes on to the results
\* of a target with errors has said INCOMPLETE of it before.
PassIsEarned ==
  main = "collected" =>
    \A on \in {Fleet} \cup Targets :
      /\ Says("PASS", on) # {} => \A k \in Concerned(on) : Clean(k)
      /\ Says("successful", on) \cup Says("Success", on) # {} =>
           \A k \in Concerned(on) : Reports[k].errors = <<>>
      /\ Says("Completed", on) # {} =>
           \A k \in Concerned(on) : ~Contains(Reports[k].errors, "collector")
      /\ args.format \in {"human", "html", "tui"} =>
           \A j \in Says("finding", on) \cup Says("observation", on) \cup Says("error", on) :
             \A k \in Concerned(on) : Reports[k].errors # <<>> =>
               \E i \in Says("INCOMPLETE", on) : i < j

Tells(is, on, id) == \E k \in Says(is, on) : document[k].id = id
Number(is, on, id) ==
  MapThenSumSet(LAMBDA k : document[k].n, {k \in Says(is, on) : document[k].id = id})

\* "A failed probe is not a passing probe. Collection errors and partial evidence
\* remain visible" (README.md:325), "previews at most four evidence lines per finding
\* and reports how many more" (README.md:234): a document that is out in full has every
\* finding with its severity, every line of evidence shown or counted, every shortening
\* and every limit admitted, every error and every observation or their number, and
\* the rule index of a SARIF result leads to the rule of that name.
NothingIsHidden ==
  (stage = "exited" /\ wrote = "none" /\ main = "collected" /\ args.format # "tui") =>
    \A k \in DOMAIN Reports :
      LET r == Reports[k]
          Qualified(p) == /\ Number("line", r.target, p.id) = p.lines
                          /\ p.cut => Tells("cut", r.target, p.id)
      IN /\ \A j \in DOMAIN r.findings :
              /\ Number("finding", r.target, r.findings[j].id) = r.findings[j].severity
              /\ Qualified(r.findings[j])
         /\ \A e \in Range(r.errors) : Tells("error", r.target, e)
         /\ \/ \A j \in DOMAIN r.observations :
                 LET o == r.observations[j] IN
                 /\ Tells("observation", r.target, o.id) /\ Qualified(o)
                 /\ o.partial => Tells("partial", r.target, o.id)
                 /\ o.limits > 0 => Tells("truncated", r.target, o.id)
            \/ Number("omitted", r.target, "") = Len(r.observations)
         /\ \A j \in Says("rule index", r.target) :
              \E i \in Says("rule", Fleet) : document[i].n = document[j].n
                                             /\ document[i].id = document[j].id

\* The exit code tells the truth about the targets (HonestExit), a script that reads
\* the complete document can tell it from what the document says, and a report that
\* could not be written is never a success and leaves no half of itself at --output.
ExitMatchesDocument ==
  LET failed == \E t \in Targets : \E k \in Says("error", t) :
                  document[k].id = "collector" \/ exit.strict
      hit == \E t \in Targets : \E k \in Says("finding", t) : document[k].n >= exit.failOn
  IN (stage = "exited" /\ main = "collected") =>
       IF wrote = "Other" THEN exit.code = 2 /\ (args.output => Visible = {})
       ELSE /\ HonestExit(exit.code, Targets, [t \in Range(reports) |-> ReportOf(t)],
                          exit.strict, exit.failOn)
            /\ (wrote = "none" /\ args.format # "tui") =>
                 exit.code = IF failed THEN 2 ELSE IF hit THEN 1 ELSE 0

\* No host is touched by a run that cannot end in a report: its arguments fit together,
\* the pack it was given has been accepted and the place for the report is open before
\* the first target is taken.
UnusableStartsNothing ==
  next > 0 => ~UsageError /\ pack \in {"none", "accepted"} /\ writer # "none"

\* Every run ends, also when a thread cannot be created, a pack file is a FIFO nobody
\* writes to, or others keep replacing it.
Terminates == <>(stage \in {"exited", "stream"})

\* The batch scheduler implements FleetScan: it never cuts a scan short.
Abstract == INSTANCE FleetScan WITH
  Width <- WorkerCount,
  phase <- [t \in Targets |->
              IF t > next THEN "queued"
              ELSE IF \E w \in Workers : pc[w] = "scan" /\ held[w] = t THEN "scanning"
              ELSE IF t \in Range(reports) THEN "counted" ELSE "scanned"],
  status <- IF main \in {"unwinding", "panicked"} THEN "crashed"
            ELSE IF main = "collected" /\ stage = "exited" THEN "over" ELSE "running"
ImplementsFleetScan == Abstract!Spec
====
