---- MODULE ReportFormats ----
(***************************************************************************)
(* The documents of output.rs: human text, JSON, JSON Lines, SARIF, OCSF   *)
(* and HTML, and the headers that the viewer of tui.rs shows, each as the  *)
(* sequence of the items it says, in the order in which it says them. An   *)
(* item names what it is, the target it is about (Fleet for all of them),  *)
(* an ID and a number; wording and escapes are left out. JSON, SARIF and   *)
(* OCSF are one value each, which the item "end" closes.                   *)
(***************************************************************************)
EXTENDS Naturals, SequencesExt

Fleet == 0
HumanPreview == 4       \* evidence lines of a finding that human output shows
HumanData == 2          \* lines of an observation

\* What the documents use of a ScanReport: host is known or not, packed when a signed
\* pack was active. lines counts the lines of evidence, cut means shortened to its
\* budget, limits counts the collection limits. An error is the name of its probe, or of
\* the session, "collector".
Finding == [id : STRING, severity : 1..5, lines : Nat, cut : BOOLEAN]
Observation == [id : STRING, partial : BOOLEAN, limits : Nat, cut : BOOLEAN, lines : Nat]
Report == [target : Nat, packed : BOOLEAN, host : BOOLEAN, findings : Seq(Finding),
           observations : Seq(Observation), errors : Seq({"collector"} \cup STRING)]
Flagged(r) == r.findings # <<>>
Incomplete(r) == r.errors # <<>>
CollectorFailed(r) == Contains(r.errors, "collector")

Item(is, on, id, n) == [is |-> is, on |-> on, id |-> id, n |-> n]
When(condition, items) == IF condition THEN items ELSE <<>>
ForEach(seq, Op(_)) == FlattenSeq([k \in DOMAIN seq |-> Op(seq[k])])
Times(n, item) == [k \in 1..n |-> item]
Least(a, b) == IF a < b THEN a ELSE b

PassOrNot(r) ==
  IF Incomplete(r) THEN <<Item("INCOMPLETE", r.target, "", 0)>>
  ELSE When(~Flagged(r), <<Item("PASS", r.target, "", 0)>>)
Heading(r) ==
  <<Item("target", r.target, "", 0)>>
    \o When(r.packed, <<Item("pack", r.target, "", 0)>>)
    \o When(r.host, <<Item("host", r.target, "", 0)>>)
Counts(on, rs) ==
  LET Sum(Op(_)) == FoldLeft(LAMBDA n, r : n + Op(r), 0, rs) IN
  <<Item("findings", on, "", Sum(LAMBDA r : Len(r.findings))),
    Item("observations", on, "", Sum(LAMBDA r : Len(r.observations))),
    Item("errors", on, "", Sum(LAMBDA r : Len(r.errors)))>>
FindingItem(r, f) ==
  <<Item("finding", r.target, f.id, f.severity)>> \o When(f.cut, <<Item("cut", r.target, f.id, 0)>>)
ObservationItem(r, o) ==
  <<Item("observation", r.target, o.id, 0)>>
    \o When(o.partial, <<Item("partial", r.target, o.id, 0)>>)
    \o When(o.cut \/ o.limits > 0, <<Item("truncated", r.target, o.id, 0)>>)
    \o Times(o.limits, Item("limit", r.target, o.id, 0))
    \o When(o.cut, <<Item("cut", r.target, o.id, 0)>>)
Lines(r, part) == <<Item("line", r.target, part.id, part.lines)>>
Errors(r) == [k \in DOMAIN r.errors |-> Item("error", r.target, r.errors[k], 0)]

-----------------------------------------------------------------------------
(* human *)

\* Mutant of Preview: the remark on further lines is missing for one line.
PreviewShort(r, part, most) ==
  Times(Least(part.lines, most), Item("line", r.target, part.id, 1))
    \o When(part.lines > most + 1, <<Item("line", r.target, part.id, part.lines - most)>>)

\* The first lines of the evidence, and how many more there are.
Preview(r, part, most) ==
  Times(Least(part.lines, most), Item("line", r.target, part.id, 1))
    \o When(part.lines > most, <<Item("line", r.target, part.id, part.lines - most)>>)

HumanReport(r) ==
  Heading(r) \o PassOrNot(r)
    \o ForEach(r.findings, LAMBDA f : FindingItem(r, f) \o Preview(r, f, HumanPreview))
    \o ForEach(r.observations, LAMBDA o : ObservationItem(r, o) \o Preview(r, o, HumanData))
    \o Errors(r) \o Counts(r.target, <<r>>)
Human(rs) == ForEach(rs, HumanReport)

-----------------------------------------------------------------------------
(* json and jsonl: the reports as they are *)

Parts(r) ==
  ForEach(r.findings, LAMBDA f : FindingItem(r, f) \o Lines(r, f))
    \o ForEach(r.observations, LAMBDA o : ObservationItem(r, o) \o Lines(r, o)) \o Errors(r)
End == <<Item("end", Fleet, "", 0)>>
Jsonl(rs) == ForEach(rs, LAMBDA r : Heading(r) \o Parts(r))
Json(rs) == Jsonl(rs) \o End

-----------------------------------------------------------------------------
(* sarif_with_probes; severityOf[p] is 0 for a probe that only collects evidence *)

Rules(probes, severityOf) == ForEach(probes, LAMBDA p : When(severityOf[p] # 0, <<p>>))
RuleIndex(rules, id) == CHOOSE k \in DOMAIN rules : rules[k] = id

\* Observations are only counted; a run fails when one target does.
Sarif(rs, probes, severityOf) ==
  LET rules == Rules(probes, severityOf)
      Result(r, f) == FindingItem(r, f) \o Lines(r, f)
        \o When(Contains(rules, f.id), <<Item("rule index", r.target, f.id, RuleIndex(rules, f.id))>>)
  IN [k \in DOMAIN rules |-> Item("rule", Fleet, rules[k], k)]
       \o ForEach(rs, LAMBDA r : ForEach(r.findings, LAMBDA f : Result(r, f)))
       \o ForEach(rs, Errors)
       \o ForEach(rs, LAMBDA r : When(r.observations # <<>>,
                                      <<Item("omitted", r.target, "", Len(r.observations))>>))
       \o When(\A k \in DOMAIN rs : ~Incomplete(rs[k]), <<Item("successful", Fleet, "", 0)>>)
       \o When(rs # <<>> /\ rs[1].packed, <<Item("pack", Fleet, "", 0)>>) \o End

-----------------------------------------------------------------------------
(* ocsf: a Scan Activity for each target, then a Detection Finding for each finding *)

ScanActivity(r) ==
  When(~CollectorFailed(r), <<Item("Completed", r.target, "", 0)>>)
    \o When(~Incomplete(r), <<Item("Success", r.target, "", 0)>>)
    \o <<Item("findings", r.target, "", Len(r.findings))>>
    \o Parts([r EXCEPT !.findings = <<>>])
    \o When(r.packed, <<Item("pack", r.target, "", 0)>>)
DetectionFinding(r, f) == FindingItem(r, f) \o Lines(r, f)

Ocsf(rs) ==
  ForEach(rs, LAMBDA r : ScanActivity(r)
                           \o ForEach(r.findings, LAMBDA f : DetectionFinding(r, f))) \o End

-----------------------------------------------------------------------------
(* html *)

\* Mutant of FleetVerdict: the findings are looked at first.
FleetVerdictByFindings(rs) ==
  IF \A k \in DOMAIN rs : ~Flagged(rs[k]) THEN <<Item("PASS", Fleet, "", 0)>>
  ELSE When(\E k \in DOMAIN rs : Incomplete(rs[k]), <<Item("INCOMPLETE", Fleet, "", 0)>>)

FleetVerdict(rs) ==
  IF \E k \in DOMAIN rs : Incomplete(rs[k]) THEN <<Item("INCOMPLETE", Fleet, "", 0)>>
  ELSE When(\A k \in DOMAIN rs : ~Flagged(rs[k]), <<Item("PASS", Fleet, "", 0)>>)

HtmlTarget(r) == Heading(r) \o PassOrNot(r) \o Parts(r) \o Counts(r.target, <<r>>)

Html(rs) ==
  Counts(Fleet, rs) \o FleetVerdict(rs)
    \o When(Len(rs) > 1, ForEach(rs, LAMBDA r :
         <<Item("findings", r.target, "", Len(r.findings)),
           Item("errors", r.target, "", Len(r.errors))>>))
    \o ForEach(rs, HtmlTarget)

-----------------------------------------------------------------------------
\* header_lines of the viewer, for the targets one after the other
Tui(rs) == ForEach(rs, LAMBDA r : Heading(r) \o PassOrNot(r) \o Counts(r.target, <<r>>))

\* write_reports, and tui::run
Document(format, rs, probes, severityOf) ==
  CASE format = "human" -> Human(rs)
    [] format = "json"  -> Json(rs)
    [] format = "jsonl" -> Jsonl(rs)
    [] format = "sarif" -> Sarif(rs, probes, severityOf)
    [] format = "ocsf"  -> Ocsf(rs)
    [] format = "html"  -> Html(rs)
    [] format = "tui"   -> Tui(rs)
====
