---- MODULE ExitStatus ----
(***************************************************************************)
(* What a run of shuvscan concludes: the summary kept over the reports     *)
(* (ScanSummary in engine.rs) and the exit code computed from it (main.rs).*)
(* Severities are numbers, 0 for a report without a finding, so that the   *)
(* derived order of Option<Severity> is the order of the numbers.          *)
(***************************************************************************)
EXTENDS Naturals

NoSeverity == 0
Severity == 1..5        \* Info, Low, Medium, High, Critical

\* The part of a ScanReport that the exit code depends on. A "collector"
\* error is one of the report's errors, so it makes the report incomplete.
Verdict == {v \in [severity : {NoSeverity} \cup Severity,
                   collector : BOOLEAN, incomplete : BOOLEAN] :
              v.collector => v.incomplete}

\* panicked_report: no finding, one error, on the pseudo-probe "collector".
PanickedVerdict == [severity |-> NoSeverity, collector |-> TRUE, incomplete |-> TRUE]

Higher(a, b) == IF a < b THEN b ELSE a

\* ScanSummary
SummaryType ==
  [highest : {NoSeverity} \cup Severity, failed : BOOLEAN, incomplete : BOOLEAN,
   requested : Nat, completed : Nat]

\* ScanSummary::for_targets(requested)
EmptySummary(requested) ==
  [highest |-> NoSeverity, failed |-> FALSE, incomplete |-> FALSE,
   requested |-> requested, completed |-> 0]

\* Mutant of Include: the severity of the last report instead of the highest.
IncludeLast(s, v) ==
  [s EXCEPT !.highest = v.severity, !.failed = @ \/ v.collector,
            !.incomplete = @ \/ v.incomplete, !.completed = @ + 1]

\* ScanSummary::include
Include(s, v) ==
  [highest    |-> Higher(s.highest, v.severity),
   failed     |-> s.failed \/ v.collector,
   incomplete |-> s.incomplete \/ v.incomplete,
   requested  |-> s.requested,
   completed  |-> s.completed + 1]

CoverageComplete(s) == s.completed = s.requested

\* report_exit: 2 for an unusable scan, 1 for a finding at or above --fail-on.
ReportExit(s, strict, failOn) ==
  IF \/ ~CoverageComplete(s)
     \/ s.failed
     \/ strict /\ s.incomplete
  THEN 2
  ELSE IF s.highest # NoSeverity /\ s.highest >= failOn THEN 1 ELSE 0

\* Exits of a run whose report could not be written; a closed pipe is no failure.
WriteError == {"none", "BrokenPipe", "Other"}
ExitAfterWrite(error, s, strict, failOn) ==
  IF error = "Other" THEN 2 ELSE ReportExit(s, strict, failOn)

\* What an exit code must mean, stated from the verdicts of all the targets and
\* independently of the summary. verdicts maps each target that was scanned.
HonestExit(code, targets, verdicts, strict, failOn) ==
  LET scanned == DOMAIN verdicts
      usable  == /\ scanned = targets
                 /\ \A t \in scanned : /\ ~verdicts[t].collector
                                       /\ strict => ~verdicts[t].incomplete
      flagged == \E t \in scanned : verdicts[t].severity >= failOn
  IN code = IF ~usable THEN 2 ELSE IF flagged THEN 1 ELSE 0
====
