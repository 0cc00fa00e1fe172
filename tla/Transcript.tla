---- MODULE Transcript ----
(***************************************************************************)
(* How one scan turns the output of a collection session into a report:    *)
(* the script's framed sections (build_script in protocol.rs), the session *)
(* that may end anywhere (execute in transport.rs), the line parser (parse *)
(* in protocol.rs) and the assessment of each probe (scan_with_context in  *)
(* engine.rs).                                                             *)
(*                                                                         *)
(* A line is a record: markers carry the scan's nonce, so no line a probe  *)
(* prints as evidence is a marker, and evidence is one of a few payloads.  *)
(***************************************************************************)
EXTENDS ExitStatus, Sequences, FiniteSets, SequencesExt

CONSTANTS
  ProbeIds,     \* the probes to run, a sequence of IDs
  Severities,   \* severity of a detection, NoSeverity for a ProbeKind::Evidence
  Privileges,   \* "Unprivileged", "RootRecommended" or "RootRequired"
  Runs          \* Runs[id]: what the body of a section may print and return

SystemIds == <<"meta", "os-release", "capabilities">>
Order == SystemIds \o ProbeIds
Ids == {Order[k] : k \in 1..Len(Order)}
Probes == {ProbeIds[k] : k \in 1..Len(ProbeIds)}

Payload == {"hit", "miss", "bulk"}   \* bulk: evidence beyond EVIDENCE_LIMIT
BodyKind == Payload \cup {"unavailable", "partial", "limit"}
Run == [body : Seq(BodyKind), status : Nat]
Ungiven == -1                        \* the status of an END line cut short

ASSUME ProbeIdsAssumption ==
  /\ ProbeIds \in Seq(STRING)
  /\ IsInjective(Order)
ASSUME SeveritiesAssumption == Severities \in [Probes -> {NoSeverity} \cup Severity]
ASSUME PrivilegesAssumption ==
  Privileges \in [Probes -> {"Unprivileged", "RootRecommended", "RootRequired"}]
ASSUME RunsAssumption == Runs \in [Ids -> SUBSET Run]
\* Nothing in the metadata and capability bodies prints a status marker, and os-release
\* can only be unavailable.
ASSUME SystemRunsAssumption ==
  /\ \A run \in Runs["meta"] \cup Runs["capabilities"] : run.body \in Seq(Payload)
  /\ \A run \in Runs["os-release"] : run.body \in Seq(Payload \cup {"unavailable"})

VARIABLES
  root,         \* SHUVSCAN_IS_ROOT in the session: "1", "0" or "unknown"
  ran,          \* ground truth: the Run of each section the session began
  stage,        \* "collecting", "parsing", "assessing" or "reported"
  stream, truncated,       \* TransportOutput; truncated is stdout_truncated
  at, current, sections,   \* the parser: lines read, open section, finished ones
  host, findings, observations, errors
vars == <<root, ran, stage, stream, truncated, at, current, sections,
          host, findings, observations, errors>>
sessionVars == <<root, ran, stream, truncated>>
parserVars == <<at, current, sections>>
reportVars == <<host, findings, observations, errors>>

None == [open |-> FALSE, id |-> "", body |-> <<>>]
NoHost == [known |-> FALSE, os |-> FALSE]
NothingRan == [id \in {} |-> 0]
Banner == [kind |-> "hit", id |-> "meta", status |-> 0]   \* printed by a login shell

Init ==
  /\ root \in {"1", "0", "unknown"}
  /\ ran = NothingRan
  /\ stage = "collecting"
  /\ stream \in {<<>>, <<Banner>>} /\ truncated = FALSE
  /\ at = 0 /\ current = None /\ sections = NothingRan
  /\ host = NoHost /\ findings = {} /\ observations = {} /\ errors = {}

-----------------------------------------------------------------------------
(* The session *)

Marker(kind, id, status) == [kind |-> kind, id |-> id, status |-> status]

\* push_section: the newline before END keeps it a line of its own.
Framed(id, run) ==
  <<Marker("begin", id, 0)>>
    \o [k \in 1..Len(run.body) |-> Marker(run.body[k], id, 0)]
    \o <<Marker("end", id, run.status)>>

\* probe_body: the script runs only where its tools and the privilege it requires are.
Guarded(p, lacksTool, run) ==
  IF lacksTool \/ (Privileges[p] = "RootRequired" /\ root # "1")
    THEN [body |-> <<"unavailable">>, status |-> 0]
  ELSE IF Privileges[p] = "RootRecommended" /\ root # "1"
    THEN [run EXCEPT !.body = <<"partial">> \o @]
  ELSE run

SectionRuns(id) ==
  IF id \in Probes THEN {Guarded(id, lacksTool, run) : lacksTool \in BOOLEAN, run \in Runs[id]}
  ELSE Runs[id]

Begun == Cardinality(DOMAIN ran)
Emit(id, run, lines) ==
  /\ ran' = [i \in DOMAIN ran \cup {id} |-> IF i = id THEN run ELSE ran[i]]
  /\ stream' = stream \o lines

\* The next section runs to its END marker.
RunSection ==
  /\ stage = "collecting" /\ Begun < Len(Order)
  /\ \E run \in SectionRuns(Order[Begun + 1]) :
       Emit(Order[Begun + 1], run, Framed(Order[Begun + 1], run))
  /\ UNCHANGED <<root, stage, truncated, parserVars, reportVars>>

\* A line cut short is no BEGIN line, and an END line without its last "__" has no
\* status; both are the last of the stream.
Torn(line) ==
  IF line.kind = "end"
    THEN {[line EXCEPT !.status = Ungiven], [line EXCEPT !.kind = "miss"]}
    ELSE {[line EXCEPT !.kind = "miss"]}

\* The next section is the last one seen, and only in part: the shell left with
\* status 0 (a closed stdin is not an error), or STDOUT_LIMIT was reached.
CutSection(capped) ==
  /\ stage = "collecting" /\ Begun < Len(Order)
  /\ \E run \in SectionRuns(Order[Begun + 1]) :
       LET lines == Framed(Order[Begun + 1], run) IN
       \E k \in 0..(Len(lines) - 1) :
          \/ Emit(Order[Begun + 1], run, SubSeq(lines, 1, k))
          \/ \E line \in Torn(lines[k + 1]) :
               Emit(Order[Begun + 1], run, Append(SubSeq(lines, 1, k), line))
  /\ truncated' = capped
  /\ stage' = "parsing"
  /\ UNCHANGED <<root, parserVars, reportVars>>

\* execute returned Ok: the shell is done with the script, or left before it was. What
\* follows the last END (its newline, a word at logout) may cross STDOUT_LIMIT.
SessionEnds ==
  /\ stage = "collecting"
  /\ truncated' \in {FALSE, Begun = Len(Order)}
  /\ stage' = "parsing"
  /\ UNCHANGED <<root, ran, stream, parserVars, reportVars>>

\* execute returned Err (no session, a status other than 0, the timeout): one error.
SessionFails ==
  /\ stage = "collecting"
  /\ errors' = {<<"collector", "failed">>}
  /\ stage' = "reported"
  /\ UNCHANGED <<sessionVars, parserVars, host, findings, observations>>

-----------------------------------------------------------------------------
(* The parser *)

\* Mutant of Section: the markers of a collector's limits are forgotten.
SectionUnlimited(body, status) ==
  [status |-> status,
   output |-> Range(body) \cap Payload,
   unavailable |-> "unavailable" \in Range(body),
   partial |-> "partial" \in Range(body),
   limits |-> FALSE]

\* parse_section_output. Of the output only the kinds of evidence in it are kept:
\* nothing here depends on their order or number.
Section(body, status) ==
  [status |-> status,
   output |-> Range(body) \cap Payload,
   unavailable |-> "unavailable" \in Range(body),
   partial |-> "partial" \in Range(body),
   limits |-> "limit" \in Range(body)]

Reading == stage = "parsing" /\ at < Len(stream)
LineRead == stream[at + 1]

\* A section left open is dropped: current is replaced.
ReadBegin ==
  /\ Reading /\ LineRead.kind = "begin"
  /\ current' = [open |-> TRUE, id |-> LineRead.id, body |-> <<>>]
  /\ at' = at + 1
  /\ UNCHANGED <<sessionVars, stage, sections, reportVars>>

\* current.take(): kept only when the line names the open section and has a status.
ReadEnd ==
  /\ Reading /\ LineRead.kind = "end"
  /\ current' = None
  /\ sections' =
       IF current.open /\ LineRead.id = current.id /\ LineRead.status # Ungiven
         THEN [i \in DOMAIN sections \cup {current.id} |->
                 IF i = current.id THEN Section(current.body, LineRead.status)
                 ELSE sections[i]]
         ELSE sections
  /\ at' = at + 1
  /\ UNCHANGED <<sessionVars, stage, reportVars>>

ReadBody ==
  /\ Reading /\ LineRead.kind \in BodyKind
  /\ current' = IF current.open THEN [current EXCEPT !.body = Append(@, LineRead.kind)]
                ELSE current
  /\ at' = at + 1
  /\ UNCHANGED <<sessionVars, stage, sections, reportVars>>

\* parse_os_release_hex: a payload other than whole hex bytes of UTF-8 is an error.
OsReadable(section) ==
  /\ section.status = 0 /\ ~section.unavailable
  /\ section.output \subseteq {"hit"}

\* Mutant of FinishParse: the section left open is kept.
FinishParseKeepsOpen ==
  /\ stage = "parsing" /\ at = Len(stream)
  /\ stage' = "assessing"
  /\ sections' = [i \in DOMAIN sections \cup (IF current.open THEN {current.id} ELSE {}) |->
       IF current.open /\ i = current.id THEN Section(current.body, 0) ELSE sections[i]]
  /\ UNCHANGED <<sessionVars, at, current, reportVars>>

\* The end of parse: the os-release body is decoded, and becomes unavailable when it
\* cannot be. The host is known by its metadata section, whatever its status.
FinishParse ==
  /\ stage = "parsing" /\ at = Len(stream)
  /\ stage' = "assessing"
  /\ sections' = [i \in DOMAIN sections |->
       IF i = "os-release" /\ sections[i].status = 0 /\ ~OsReadable(sections[i])
         THEN [sections[i] EXCEPT !.unavailable = TRUE] ELSE sections[i]]
  /\ host' = [known |-> "meta" \in DOMAIN sections,
              os |-> /\ {"meta", "os-release"} \subseteq DOMAIN sections
                     /\ OsReadable(sections["os-release"])
                     /\ sections["os-release"].output # {}]
  /\ UNCHANGED <<sessionVars, at, current, findings, observations, errors>>

-----------------------------------------------------------------------------
(* The assessment of what was parsed *)

Error(id, why, holds) == IF holds THEN {<<id, why>>} ELSE {}
Parsed(id) == id \in DOMAIN sections

\* Mutant of OsReleaseErrors: an unavailable section is no error.
OsReleaseErrorsByStatus ==
  IF ~Parsed("os-release") THEN {<<"os-release", "missing">>}
  ELSE Error("os-release", "status", sections["os-release"].status # 0)

\* include_os_release_error
OsReleaseErrors ==
  IF ~Parsed("os-release") THEN {<<"os-release", "missing">>}
  ELSE LET section == sections["os-release"] IN
       IF section.unavailable THEN {<<"os-release", "unavailable">>}
       ELSE Error("os-release", "status", section.status # 0)

CapabilityErrors ==
  IF ~Parsed("capabilities") THEN {<<"capabilities", "missing">>}
  ELSE Error("capabilities", "status", sections["capabilities"].status # 0)

\* Mutant of CollectorErrors: no error while every section has arrived.
CollectorErrorsIfMissing ==
  Error("collector", "truncated", truncated /\ \E p \in Probes : ~Parsed(p))

CollectorErrors == Error("collector", "truncated", truncated)

\* Mutant of ProbeErrors: a section that did not arrive is no error.
ProbeErrorsIfParsed(p) ==
  IF ~Parsed(p) THEN {}
  ELSE IF sections[p].unavailable THEN {<<p, "unavailable">>}
  ELSE Error(p, "partial", sections[p].partial)
         \cup Error(p, "status", sections[p].status # 0)

ProbeErrors(p) ==
  IF ~Parsed(p) THEN {<<p, "missing">>}
  ELSE IF sections[p].unavailable THEN {<<p, "unavailable">>}
  ELSE Error(p, "partial", sections[p].partial)
         \cup Error(p, "status", sections[p].status # 0)

\* The probes evaluate_probe_output is called for; a partial one is among them.
Evaluated == {p \in Probes : /\ Parsed(p) /\ ~sections[p].unavailable
                             /\ sections[p].status = 0}

\* has_output and is_zero, over all the evidence and not what is retained of it.
Evaluate(output) == output \cap {"hit", "bulk"} # {}
IsDetection(p) == Severities[p] # NoSeverity
OverBudget(p) == "bulk" \in sections[p].output

Assess ==
  /\ stage = "assessing"
  /\ stage' = "reported"
  /\ errors' = UNION ({OsReleaseErrors, CollectorErrors, CapabilityErrors}
                      \cup {ProbeErrors(p) : p \in Probes})
  /\ findings' = {p \in Evaluated : IsDetection(p) /\ Evaluate(sections[p].output)}
  /\ observations' =
       {[id |-> p, partial |-> sections[p].partial,
         truncated |-> OverBudget(p) \/ sections[p].limits] :
        p \in {q \in Evaluated : ~IsDetection(q)}}
  /\ UNCHANGED <<sessionVars, parserVars, host>>

Session == \/ RunSection \/ SessionEnds \/ SessionFails
           \/ \E capped \in BOOLEAN : CutSection(capped)
Parser == ReadBegin \/ ReadEnd \/ ReadBody \/ FinishParse

Next == Session \/ Parser \/ Assess
Spec == Init /\ [][Next]_vars

\* The part of the report that the exit code depends on (ScanSummary::include).
HighestSeverity ==
  CHOOSE s \in {NoSeverity} \cup Severity :
    /\ \A p \in findings : Severities[p] <= s
    /\ s = NoSeverity \/ \E p \in findings : Severities[p] = s
ReportVerdict == [severity |-> HighestSeverity,
                  collector |-> \E e \in errors : e[1] = "collector",
                  incomplete |-> errors # {}]
ExitCode(strict, failOn) == ReportExit(Include(EmptySummary(1), ReportVerdict), strict, failOn)

-----------------------------------------------------------------------------
(* Properties *)

\* A section is never half-trusted: whatever the session was cut to, and whatever is
\* printed around the sections, each one that is kept holds exactly what the target
\* printed and the status it ended with. (Only os-release is then marked unavailable.)
SectionsAreWhole ==
  \A id \in DOMAIN sections :
    /\ id \in DOMAIN ran
    /\ LET whole == Section(ran[id].body, ran[id].status) IN
         sections[id] = IF id = "os-release"
                          THEN [whole EXCEPT !.unavailable = sections[id].unavailable]
                          ELSE whole

\* The section ran to its end, with its tools and its privilege.
Complete(id) == /\ id \in DOMAIN ran /\ ran[id].status = 0
                /\ Range(ran[id].body) \cap {"unavailable", "partial"} = {}
Hit(p) == Evaluate(Range(ran[p].body))

\* "Never a silent pass": a probe that no error names, of a target without a collector
\* error, was collected completely and without a limit on privilege or tools, and it
\* has a finding exactly when the evidence says so, however long that evidence is.
NoSilentPass ==
  stage = "reported" =>
    \A p \in Probes :
      (\A e \in errors : e[1] \notin {p, "collector"}) =>
        /\ Complete(p)
        /\ p \in findings <=> IsDetection(p) /\ Hit(p)
        /\ ~IsDetection(p) => \E o \in observations : o.id = p

\* Evidence is never presented as more than it is: an observation tells whether a
\* privilege, a bound of the collector or the retained budget limited it, and a
\* finding or an observation of a probe comes from a section received whole.
EvidenceIsQualified ==
  /\ \A p \in findings : Parsed(p) /\ Hit(p) /\ ran[p].status = 0
  /\ \A o \in observations :
       /\ o.partial <=> "partial" \in Range(ran[o.id].body)
       /\ o.truncated <=> Range(ran[o.id].body) \cap {"limit", "bulk"} # {}
       /\ \A other \in observations : other.id = o.id => other = o

\* A target whose stdout crossed the transport's limit is a collector failure (exit
\* code 2 without --strict-collection), also when the bytes kept end between two
\* sections and every section in them is whole.
TruncationIsFatal ==
  (stage = "reported" /\ truncated) => ExitCode(FALSE, 5) = 2

\* With --strict-collection an exit code of 0 or 1 means that everything was
\* collected, metadata sections included, and 1 that a hit reached the threshold.
StrictExitIsComplete ==
  stage = "reported" =>
    \A failOn \in Severity :
      ExitCode(TRUE, failOn) # 2 =>
        /\ DOMAIN ran = Ids /\ ~truncated /\ host.known
        /\ \A p \in Probes \cup {"os-release"} : Complete(p)
        /\ ran["capabilities"].status = 0
        /\ (ExitCode(TRUE, failOn) = 1) <=>
             (\E p \in Probes : Hit(p) /\ Severities[p] >= failOn)

\* README.md:169-170: "A target that was not collected is never reported as a pass,
\* even without --strict-collection." (In the code only an error on "collector"
\* fails the run: a session that ends at once with status 0 leaves none.)
UncollectedIsNoPass ==
  (stage = "reported" /\ sections = NothingRan) => ExitCode(FALSE, 5) = 2
====
