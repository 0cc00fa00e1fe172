---- MODULE TranscriptProofs ----
(***************************************************************************)
(* Proofs about Transcript, for any probes, any output of any section and  *)
(* any place where the session is cut. The inductive invariant follows one *)
(* section from the target to the report:                                  *)
(*   - in the stream, the lines after a BEGIN line are those the section   *)
(*     printed; only the last line may be torn, and only of a session that *)
(*     is over; every section begun before the last one is there in full;  *)
(*   - in the parser, the open section holds exactly the lines since its   *)
(*     BEGIN line, and the parser never loses a section it is inside of;   *)
(*   - in the report, the errors, findings and observations are functions  *)
(*     of the sections that were kept.                                     *)
(***************************************************************************)
EXTENDS Transcript, FiniteSetTheorems, TLAPS

Line == [kind : BodyKind \cup {"begin", "end"}, id : Ids, status : Nat \cup {Ungiven}]

\* The sections begun are the first ones of the script.
InOrder ==
  /\ IsFiniteSet(DOMAIN ran) /\ Begun \in 0..Len(Order)
  /\ DOMAIN ran = {Order[k] : k \in 1..Begun}

Types ==
  /\ stage \in {"collecting", "parsing", "assessing", "reported"}
  /\ ran \in [DOMAIN ran -> Run]
  /\ "os-release" \in DOMAIN ran => "partial" \notin Range(ran["os-release"].body)
  /\ stream \in Seq(Line) /\ truncated \in BOOLEAN
  /\ at \in 0..Len(stream)
  /\ current \in [open : BOOLEAN, id : Ids \cup {""}, body : Seq(BodyKind)]
  /\ stage = "collecting" => at = 0 /\ ~current.open /\ sections = NothingRan /\ ~truncated

\* The line j places after the BEGIN line of a section that ran like that.
FrameLine(id, run, j) ==
  IF j = 0 THEN Marker("begin", id, 0)
  ELSE IF j <= Len(run.body) THEN Marker(run.body[j], id, 0)
  ELSE Marker("end", id, run.status)
LastOf(run) == Len(run.body) + 1

\* The section stands in the stream in full, from line b on.
Whole(id, b) ==
  /\ b + LastOf(ran[id]) <= Len(stream)
  /\ \A j \in 0..LastOf(ran[id]) : stream[b + j] = FrameLine(id, ran[id], j)

Frames ==
  \A b \in 1..Len(stream) : stream[b].kind = "begin" =>
    LET id == stream[b].id IN
    /\ id \in DOMAIN ran
    /\ stage = "collecting" => b + LastOf(ran[id]) <= Len(stream)
    /\ \A j \in 0..LastOf(ran[id]) : b + j <= Len(stream) =>
         \/ stream[b + j] = FrameLine(id, ran[id], j)
         \/ /\ b + j = Len(stream) /\ stage # "collecting"
            /\ stream[b + j] \in Torn(FrameLine(id, ran[id], j))

EarlierWhole ==
  \A id \in DOMAIN ran :
    (stage = "collecting" \/ id # Order[Begun]) => \E b \in 1..Len(stream) : Whole(id, b)

Opened ==
  current.open =>
    LET b == at - Len(current.body) IN
    /\ b >= 1 /\ stream[b].kind = "begin" /\ stream[b].id = current.id
    /\ \A j \in 1..Len(current.body) : stream[b + j].kind = current.body[j]

ReadWhole ==
  \A id \in DOMAIN ran : \A b \in 1..Len(stream) : Whole(id, b) =>
    /\ (b <= at /\ at < b + LastOf(ran[id])) =>
         current.open /\ current.id = id /\ Len(current.body) = at - b
    /\ b + LastOf(ran[id]) <= at => id \in DOMAIN sections

KeptWhole ==
  \A id \in DOMAIN sections :
    /\ id \in DOMAIN ran
    /\ LET whole == Section(ran[id].body, ran[id].status) IN
         \/ sections[id] = whole
         \/ id = "os-release" /\ sections[id] = [whole EXCEPT !.unavailable = TRUE]

\* What Assess concludes from the sections.
Assessed ==
  /\ errors = UNION ({OsReleaseErrors, CollectorErrors, CapabilityErrors}
                     \cup {ProbeErrors(p) : p \in Probes})
  /\ findings = {p \in Evaluated : IsDetection(p) /\ Evaluate(sections[p].output)}
  /\ observations =
       {[id |-> p, partial |-> sections[p].partial,
         truncated |-> OverBudget(p) \/ sections[p].limits] :
        p \in {q \in Evaluated : ~IsDetection(q)}}
Failed == /\ errors = {<<"collector", "failed">>} /\ findings = {} /\ observations = {}
          /\ ~truncated
AllRead == at = Len(stream) /\ host.known = ("meta" \in DOMAIN sections)

Conclusions ==
  /\ stage # "reported" => findings = {} /\ observations = {}
  /\ stage = "assessing" => AllRead
  /\ stage = "reported" => Failed \/ (Assessed /\ AllRead)

IInv == /\ InOrder /\ Types /\ Frames /\ EarlierWhole
        /\ Opened /\ ReadWhole /\ KeptWhole /\ Conclusions

-----------------------------------------------------------------------------
(* The script *)

\* The places of a concatenation.
LEMMA ConcatAt ==
  ASSUME NEW T, NEW a \in Seq(T), NEW b \in Seq(T)
  PROVE  /\ a \o b \in Seq(T) /\ Len(a \o b) = Len(a) + Len(b)
         /\ Len(a) \in Nat /\ Len(b) \in Nat
         /\ \A k \in 1..Len(a) : (a \o b)[k] = a[k]
         /\ \A k \in 1..Len(b) : (a \o b)[k + Len(a)] = b[k]
  OBVIOUS

\* The script begins with the three system sections, the probes follow, none twice.
LEMMA OrderFacts ==
  /\ Order \in Seq(Ids) /\ Len(Order) = 3 + Len(ProbeIds) /\ Len(ProbeIds) \in Nat
  /\ Order[1] = "meta" /\ Order[2] = "os-release" /\ Order[3] = "capabilities"
  /\ \A k \in 1..Len(ProbeIds) : Order[k + 3] = ProbeIds[k]
  /\ \A j, k \in 1..Len(Order) : Order[j] = Order[k] => j = k
<1> DEFINE T == {"meta", "os-release", "capabilities"} \cup Probes
<1>1. ProbeIds \in Seq(T) /\ SystemIds \in Seq(T)
  <2>1. ProbeIds \in Seq(STRING)
    BY ProbeIdsAssumption
  <2>2. ProbeIds \in Seq(Probes)
    BY <2>1 DEF Probes
  <2>3. SystemIds \in Seq({"meta", "os-release", "capabilities"})
    BY DEF SystemIds
  <2> QED
    BY <2>2, <2>3
<1>2. /\ Order \in Seq(T) /\ Len(Order) = Len(SystemIds) + Len(ProbeIds)
      /\ \A k \in 1..Len(SystemIds) : Order[k] = SystemIds[k]
      /\ \A k \in 1..Len(ProbeIds) : Order[k + Len(SystemIds)] = ProbeIds[k]
  BY <1>1, ConcatAt DEF Order
<1>3. Len(SystemIds) = 3 /\ Len(ProbeIds) \in Nat
  BY <1>1 DEF SystemIds
<1>4. \A j, k \in 1..Len(Order) : Order[j] = Order[k] => j = k
  BY <1>2, ProbeIdsAssumption DEF IsInjective
<1>5. /\ SystemIds[1] = "meta" /\ SystemIds[2] = "os-release"
      /\ SystemIds[3] = "capabilities"
  BY DEF SystemIds
<1>6. Order \in Seq(Ids)
  BY <1>2 DEF Ids
<1> QED
  BY <1>2, <1>3, <1>4, <1>5, <1>6

\* The probes are sections of the script, and none of them is a system section.
LEMMA ProbesAreIds ==
  /\ Ids = Probes \cup {"meta", "os-release", "capabilities"}
  /\ Probes \cap {"meta", "os-release", "capabilities"} = {}
<1>1. \A k \in 1..Len(Order) : k \in 1..3 \/ k - 3 \in 1..Len(ProbeIds)
  BY OrderFacts
<1>2. \A p \in Probes : \E k \in 1..Len(ProbeIds) : p = Order[k + 3] /\ k + 3 \in 4..Len(Order)
  BY OrderFacts DEF Probes
<1>3. Probes \cap {"meta", "os-release", "capabilities"} = {}
  BY <1>2, OrderFacts
<1>4. Ids \subseteq Probes \cup {"meta", "os-release", "capabilities"}
  <2> SUFFICES ASSUME NEW k \in 1..Len(Order)
               PROVE  Order[k] \in Probes \cup {"meta", "os-release", "capabilities"}
    BY DEF Ids
  <2>1. CASE k \in 1..3
    BY <2>1, OrderFacts
  <2>2. CASE k - 3 \in 1..Len(ProbeIds)
    BY <2>2, OrderFacts, Order[(k - 3) + 3] = ProbeIds[k - 3] DEF Probes
  <2> QED
    BY <1>1, <2>1, <2>2
<1>5. Probes \cup {"meta", "os-release", "capabilities"} \subseteq Ids
  BY <1>2, OrderFacts DEF Ids
<1> QED
  BY <1>3, <1>4, <1>5

\* Whatever guards its body, a section prints lines and returns a status.
LEMMA SectionRunsAreRuns ==
  ASSUME NEW id \in Ids, NEW run \in SectionRuns(id)
  PROVE  /\ run \in Run
         /\ id = "os-release" => "partial" \notin Range(run.body)
<1>1. Runs[id] \subseteq Run
  BY RunsAssumption
<1>2. CASE id \in Probes
  <2>1. PICK lacksTool \in BOOLEAN, r \in Runs[id] : run = Guarded(id, lacksTool, r)
    BY <1>2 DEF SectionRuns
  <2>2. r \in [body : Seq(BodyKind), status : Nat]
    BY <1>1 DEF Run
  <2>3. <<"unavailable">> \in Seq(BodyKind) /\ <<"partial">> \o r.body \in Seq(BodyKind)
    BY <2>2 DEF BodyKind
  <2> QED
    BY <1>2, <2>1, <2>2, <2>3, ProbesAreIds DEF Guarded, Run
<1>3. CASE id \notin Probes
  <2>1. run \in Runs[id]
    BY <1>3 DEF SectionRuns
  <2>2. ASSUME id = "os-release" PROVE "partial" \notin Range(run.body)
    <3>1. run.body \in Seq(Payload \cup {"unavailable"})
      BY <2>1, <2>2, SystemRunsAssumption
    <3> QED
      BY <3>1 DEF Range, Payload
  <2> QED
    BY <1>1, <2>1, <2>2
<1> QED
  BY <1>2, <1>3

\* What push_section makes of a run, line by line.
LEMMA FramedLines ==
  ASSUME NEW id \in Ids, NEW run \in Run
  PROVE  /\ Len(run.body) \in Nat /\ Len(Framed(id, run)) = Len(run.body) + 2
         /\ Framed(id, run) \in Seq(Line)
         /\ \A j \in 0..LastOf(run) : Framed(id, run)[j + 1] = FrameLine(id, run, j)
<1> DEFINE first == <<Marker("begin", id, 0)>>
           inner == [k \in 1..Len(run.body) |-> Marker(run.body[k], id, 0)]
           last == <<Marker("end", id, run.status)>>
           all == (first \o inner) \o last
<1>1. run.body \in Seq(BodyKind) /\ run.status \in Nat /\ Len(run.body) \in Nat
  BY DEF Run
<1>2. \A k \in 1..Len(run.body) : Marker(run.body[k], id, 0) \in Line
  BY <1>1 DEF Marker, Line
<1>3. inner \in Seq(Line) /\ Len(inner) = Len(run.body)
  BY <1>1, <1>2
<1>4. first \in Seq(Line) /\ last \in Seq(Line)
  BY <1>1 DEF Marker, Line
<1>5. Len(first) = 1 /\ Len(last) = 1
  OBVIOUS
<1>6. inner \in Seq(Line)
  BY <1>3
<1>7. \A k \in 1..Len(run.body) : inner[k] = Marker(run.body[k], id, 0)
  OBVIOUS
<1> HIDE DEF first, inner, last
<1>8. /\ first \o inner \in Seq(Line) /\ Len(first \o inner) = Len(first) + Len(inner)
      /\ \A k \in 1..Len(first) : (first \o inner)[k] = first[k]
      /\ \A k \in 1..Len(inner) : (first \o inner)[k + Len(first)] = inner[k]
  BY <1>6, <1>4, ConcatAt
<1>9. /\ all \in Seq(Line)
      /\ Len(all) = Len(first \o inner) + Len(last)
      /\ \A k \in 1..Len(first \o inner) :
           all[k] = (first \o inner)[k]
      /\ \A k \in 1..Len(last) :
           all[k + Len(first \o inner)] = last[k]
  BY <1>4, <1>8, ConcatAt
<1>10. first[1] = Marker("begin", id, 0) /\ last[1] = Marker("end", id, run.status)
  BY DEF first, last
<1>11. Framed(id, run) = all
  BY DEF Framed, first, inner, last
<1> HIDE DEF all
<1>12. Len(all) = Len(run.body) + 2 /\ Len(first \o inner) = Len(run.body) + 1
  BY <1>1, <1>3, <1>4, <1>5, <1>8, <1>9
<1>13. all[1] = first[1]
  BY <1>1, <1>3, <1>4, <1>5, <1>8, <1>9, <1>12
<1>14. all[Len(run.body) + 2] = last[1]
  BY <1>1, <1>5, <1>9, <1>12
<1>15. \A k \in 1..Len(run.body) : all[k + 1] = inner[k]
  <2> SUFFICES ASSUME NEW k \in 1..Len(run.body) PROVE all[k + 1] = inner[k]
    OBVIOUS
  <2>1. k + 1 \in 1..Len(first \o inner) /\ k + 1 = k + Len(first) /\ k \in 1..Len(inner)
    BY <1>1, <1>3, <1>5, <1>12
  <2>2. all[k + 1] = (first \o inner)[k + 1]
    BY <2>1, <1>9
  <2>3. (first \o inner)[k + Len(first)] = inner[k]
    BY <2>1, <1>8
  <2> QED
    BY <2>1, <2>2, <2>3
<1>16. ASSUME NEW j \in 0..LastOf(run) PROVE all[j + 1] = FrameLine(id, run, j)
  <2>1. CASE j = 0
    BY <2>1, <1>10, <1>13 DEF FrameLine
  <2>2. CASE j \in 1..Len(run.body)
    BY <2>2, <1>1, <1>15, <1>7 DEF FrameLine
  <2>3. CASE j = Len(run.body) + 1
    BY <2>3, <1>1, <1>10, <1>14 DEF FrameLine
  <2> QED
    BY <1>1, <2>1, <2>2, <2>3 DEF LastOf
<1> QED
  BY <1>1, <1>9, <1>11, <1>12, <1>16

\* Whatever stdout is cut to, the line that is torn is no BEGIN line.
LEMMA TornLines ==
  ASSUME NEW line \in Line, NEW torn \in Torn(line)
  PROVE  torn \in Line /\ torn.kind # "begin" /\ (torn.kind = "end" => torn.status = Ungiven)
BY DEF Torn, Line, BodyKind, Payload

\* The kinds of the lines of a frame.
LEMMA FrameKinds ==
  ASSUME NEW id \in Ids, NEW run \in Run, NEW j \in 0..LastOf(run)
  PROVE  /\ FrameLine(id, run, j) \in Line
         /\ FrameLine(id, run, j).id = id
         /\ FrameLine(id, run, j).kind = "begin" <=> j = 0
         /\ FrameLine(id, run, j).kind = "end" <=> j = LastOf(run)
         /\ j \in 1..Len(run.body) => FrameLine(id, run, j).kind = run.body[j]
         /\ j = LastOf(run) => FrameLine(id, run, j).status = run.status
<1>1. run.body \in Seq(BodyKind) /\ run.status \in Nat /\ Len(run.body) \in Nat
  BY DEF Run
<1>2. CASE j = 0
  BY <1>1, <1>2 DEF FrameLine, LastOf, Marker, Line
<1>3. CASE j \in 1..Len(run.body)
  <2>1. run.body[j] \in BodyKind /\ "begin" \notin BodyKind /\ "end" \notin BodyKind
    BY <1>1, <1>3 DEF BodyKind, Payload
  <2> QED
    BY <1>1, <1>3, <2>1 DEF FrameLine, LastOf, Marker, Line
<1>4. CASE j = Len(run.body) + 1
  BY <1>1, <1>4 DEF FrameLine, LastOf, Marker, Line
<1> QED
  BY <1>1, <1>2, <1>3, <1>4 DEF LastOf

\* The lines of a section that reach the stream: a prefix, the last line perhaps torn.
Prefix(lines, id, run) ==
  /\ lines \in Seq(Line) /\ Len(lines) <= LastOf(run) + 1
  /\ \A k \in 1..Len(lines) :
       \/ lines[k] = FrameLine(id, run, k - 1)
       \/ k = Len(lines) /\ lines[k] \in Torn(FrameLine(id, run, k - 1))

\* A section in full is a prefix of itself.
LEMMA FramedIsPrefix ==
  ASSUME NEW id \in Ids, NEW run \in Run
  PROVE  Prefix(Framed(id, run), id, run)
<1> SUFFICES ASSUME NEW k \in 1..Len(Framed(id, run))
             PROVE  Framed(id, run)[k] = FrameLine(id, run, k - 1)
  BY FramedLines DEF Prefix, LastOf
<1>1. k - 1 \in 0..LastOf(run) /\ (k - 1) + 1 = k
  BY FramedLines DEF LastOf
<1> QED
  BY <1>1, FramedLines

\* So is what CutSection leaves of it.
LEMMA CutIsPrefix ==
  ASSUME NEW id \in Ids, NEW run \in Run, NEW k \in 0..(Len(Framed(id, run)) - 1),
         NEW line \in Torn(Framed(id, run)[k + 1])
  PROVE  /\ Prefix(SubSeq(Framed(id, run), 1, k), id, run)
         /\ Prefix(Append(SubSeq(Framed(id, run), 1, k), line), id, run)
<1> DEFINE f == Framed(id, run)
           s == SubSeq(f, 1, k)
           a == Append(s, line)
<1>1. f \in Seq(Line) /\ Len(f) = LastOf(run) + 1 /\ LastOf(run) \in Nat
  BY FramedLines DEF LastOf
<1>2. \A i \in 1..Len(f) : f[i] = FrameLine(id, run, i - 1)
  <2> SUFFICES ASSUME NEW i \in 1..Len(f) PROVE f[i] = FrameLine(id, run, i - 1)
    OBVIOUS
  <2>1. i - 1 \in 0..LastOf(run) /\ (i - 1) + 1 = i
    BY <1>1
  <2> QED
    BY <2>1, FramedLines
<1>3. line \in Torn(FrameLine(id, run, k)) /\ line \in Line
  BY <1>1, <1>2, TornLines
<1> HIDE DEF f
<1>4. k \in Nat /\ k <= Len(f) /\ k <= LastOf(run)
  BY <1>1 DEF f
<1>5. s \in Seq(Line) /\ Len(s) = k /\ \A i \in 1..k : s[i] = f[i]
  BY <1>1, <1>4
<1> HIDE DEF s
<1>6. a \in Seq(Line) /\ Len(a) = k + 1 /\ a[k + 1] = line /\ \A i \in 1..k : a[i] = s[i]
  BY <1>3, <1>4, <1>5
<1> HIDE DEF a
<1>7. Prefix(s, id, run)
  BY <1>1, <1>2, <1>4, <1>5 DEF Prefix
<1>8. Prefix(a, id, run)
  <2> SUFFICES ASSUME NEW i \in 1..Len(a)
               PROVE  \/ a[i] = FrameLine(id, run, i - 1)
                      \/ i = Len(a) /\ a[i] \in Torn(FrameLine(id, run, i - 1))
    BY <1>1, <1>4, <1>6 DEF Prefix
  <2>1. CASE i \in 1..k
    BY <2>1, <1>2, <1>4, <1>5, <1>6
  <2>2. CASE i = k + 1
    BY <2>2, <1>3, <1>4, <1>6
  <2> QED
    BY <2>1, <2>2, <1>4, <1>6
<1> QED
  BY <1>7, <1>8 DEF a, s, f

-----------------------------------------------------------------------------
(* The session *)

\* A section that is emitted, in full or not, leaves the lines of the others where they
\* were, and only the last section of a session that is over can be torn.
LEMMA EmitStep ==
  ASSUME InOrder, Types, Frames, EarlierWhole,
         stage = "collecting", Begun < Len(Order),
         NEW id, id = Order[Begun + 1], NEW run \in SectionRuns(id),
         NEW lines, Prefix(lines, id, run), Emit(id, run, lines),
         stage' \in {"collecting", "parsing"},
         stage' = "collecting" => lines = Framed(id, run)
  PROVE  /\ InOrder' /\ ran' \in [DOMAIN ran' -> Run] /\ stream' \in Seq(Line)
         /\ "os-release" \in DOMAIN ran' => "partial" \notin Range(ran'["os-release"].body)
         /\ Frames' /\ EarlierWhole' /\ Len(stream') \in Nat
<1>1. Begun \in Nat /\ Begun + 1 \in 1..Len(Order) /\ Len(Order) \in Nat
  BY OrderFacts DEF InOrder
<1>2. /\ id \in Ids /\ run \in Run /\ id \notin DOMAIN ran
      /\ id = "os-release" => "partial" \notin Range(run.body)
  <2>1. id \in Ids
    BY <1>1 DEF Ids
  <2>2. id \notin DOMAIN ran
    <3> SUFFICES ASSUME NEW k \in 1..Begun PROVE Order[k] # Order[Begun + 1]
      BY DEF InOrder
    <3>1. k \in 1..Len(Order) /\ k # Begun + 1
      BY <1>1
    <3> QED
      BY <1>1, <3>1, OrderFacts
  <2> QED
    BY <2>1, <2>2, SectionRunsAreRuns
<1>3. /\ ran' = [i \in DOMAIN ran \cup {id} |-> IF i = id THEN run ELSE ran[i]]
      /\ stream' = stream \o lines
  BY DEF Emit
<1>4. /\ DOMAIN ran' = DOMAIN ran \cup {id} /\ ran'[id] = run
      /\ \A i \in DOMAIN ran : ran'[i] = ran[i] /\ ran[i] \in Run
      /\ ran' \in [DOMAIN ran' -> Run]
  BY <1>2, <1>3 DEF Types
<1>5. "os-release" \in DOMAIN ran' => "partial" \notin Range(ran'["os-release"].body)
  BY <1>2, <1>4 DEF Types
<1>6. InOrder' /\ Begun' = Begun + 1
  <2>1. /\ IsFiniteSet(DOMAIN ran \cup {id})
        /\ Cardinality(DOMAIN ran \cup {id}) = Cardinality(DOMAIN ran) + 1
    BY <1>2, FS_AddElement DEF InOrder
  <2>2. Begun' = Begun + 1 /\ IsFiniteSet(DOMAIN ran')
    BY <2>1, <1>4 DEF Begun
  <2>3. {Order[k] : k \in 1..(Begun + 1)} = {Order[k] : k \in 1..Begun} \cup {Order[Begun + 1]}
    <3>1. \A k : k \in 1..(Begun + 1) <=> k \in 1..Begun \/ k = Begun + 1
      BY <1>1
    <3> QED
      BY <3>1
  <2>4. DOMAIN ran' = {Order[k] : k \in 1..(Begun + 1)}
    BY <1>4, <2>3 DEF InOrder
  <2>5. Begun + 1 \in 0..Len(Order)
    BY <1>1
  <2> QED
    BY <2>2, <2>4, <2>5 DEF InOrder
<1>7. /\ stream \in Seq(Line) /\ lines \in Seq(Line)
      /\ stream' \in Seq(Line) /\ Len(stream') = Len(stream) + Len(lines)
      /\ Len(stream) \in Nat /\ Len(lines) \in Nat /\ Len(stream') \in Nat
      /\ \A k \in 1..Len(stream) : stream'[k] = stream[k]
      /\ \A k \in 1..Len(lines) : stream'[k + Len(stream)] = lines[k]
  <2>1. stream \in Seq(Line) /\ lines \in Seq(Line)
    BY DEF Types, Prefix
  <2> QED
    BY <2>1, <1>3, ConcatAt
<1>8. \A i \in DOMAIN ran' : ran'[i] \in Run /\ LastOf(ran'[i]) \in Nat
  <2> SUFFICES ASSUME NEW r \in Run PROVE LastOf(r) \in Nat
    BY <1>2, <1>4
  <2> QED
    BY FramedLines, <1>2 DEF LastOf
<1>9. Len(lines) <= LastOf(run) + 1 /\ LastOf(run) \in Nat
  BY <1>4, <1>8 DEF Prefix
<1>10. \A k \in 1..Len(lines) :
         \/ lines[k] = FrameLine(id, run, k - 1)
         \/ k = Len(lines) /\ stage' # "collecting" /\ lines[k] \in Torn(FrameLine(id, run, k - 1))
  <2> SUFFICES ASSUME NEW k \in 1..Len(lines), lines = Framed(id, run)
               PROVE  lines[k] = FrameLine(id, run, k - 1)
    BY DEF Prefix
  <2>1. k - 1 \in 0..LastOf(run) /\ (k - 1) + 1 = k
    BY <1>7, <1>9
  <2> QED
    BY <1>2, <2>1, FramedLines
<1>11. stage' = "collecting" => Len(lines) = LastOf(run) + 1
  BY <1>2, FramedLines DEF LastOf
<1>12. Frames'
  <2> SUFFICES ASSUME NEW b \in 1..Len(stream'), stream'[b].kind = "begin"
               PROVE  LET i == stream'[b].id IN
                      /\ i \in DOMAIN ran'
                      /\ stage' = "collecting" => b + LastOf(ran'[i]) <= Len(stream')
                      /\ \A j \in 0..LastOf(ran'[i]) : b + j <= Len(stream') =>
                           \/ stream'[b + j] = FrameLine(i, ran'[i], j)
                           \/ /\ b + j = Len(stream') /\ stage' # "collecting"
                              /\ stream'[b + j] \in Torn(FrameLine(i, ran'[i], j))
    BY DEF Frames
  <2>1. CASE b \in 1..Len(stream)
    <3> DEFINE i == stream[b].id
    <3>1. /\ stream'[b] = stream[b] /\ i \in DOMAIN ran /\ b + LastOf(ran[i]) <= Len(stream)
          /\ \A j \in 0..LastOf(ran[i]) : b + j <= Len(stream) =>
               stream[b + j] = FrameLine(i, ran[i], j)
      BY <2>1, <1>7 DEF Frames
    <3>2. ran'[i] = ran[i] /\ LastOf(ran[i]) \in Nat
      BY <3>1, <1>4, <1>8
    <3> HIDE DEF i
    <3>3. \A j \in 0..LastOf(ran[i]) : b + j \in 1..Len(stream)
      BY <3>1, <3>2, <2>1, <1>7
    <3>4. ASSUME NEW j \in 0..LastOf(ran[i])
          PROVE  stream'[b + j] = FrameLine(i, ran'[i], j)
      <4>1. b + j \in 1..Len(stream) /\ b + j <= Len(stream)
        BY <3>3, <1>7
      <4>2. stream'[b + j] = stream[b + j]
        BY <4>1, <1>7
      <4> QED
        BY <4>1, <4>2, <3>1, <3>2
    <3>5. b + LastOf(ran'[i]) <= Len(stream')
      BY <3>1, <3>2, <2>1, <1>7
    <3>6. i \in DOMAIN ran'
      BY <3>1, <1>4
    <3> QED
      BY <3>1, <3>2, <3>4, <3>5, <3>6 DEF i
  <2>2. CASE b \in (Len(stream) + 1)..Len(stream')
    <3>1. PICK k \in 1..Len(lines) : b = k + Len(stream)
      <4>1. b - Len(stream) \in 1..Len(lines) /\ b = (b - Len(stream)) + Len(stream)
        BY <2>2, <1>7
      <4> QED
        BY <4>1
    <3>2. stream'[b] = lines[k] /\ k - 1 \in 0..LastOf(run)
      BY <3>1, <1>7, <1>9
    <3>3. lines[k] = FrameLine(id, run, k - 1) /\ k = 1
      BY <3>2, <1>2, <1>10, FrameKinds, TornLines
    <3>4. stream'[b].id = id /\ b = Len(stream) + 1
      BY <3>1, <3>2, <3>3, <1>2, <1>7, FrameKinds
    <3>5. stage' = "collecting" => b + LastOf(run) <= Len(stream')
      BY <3>4, <1>7, <1>9, <1>11
    <3>6. ASSUME NEW j \in 0..LastOf(run), b + j <= Len(stream')
          PROVE  \/ stream'[b + j] = FrameLine(id, run, j)
                 \/ /\ b + j = Len(stream') /\ stage' # "collecting"
                    /\ stream'[b + j] \in Torn(FrameLine(id, run, j))
      <4>1. j \in Nat
        BY <1>9
      <4>2. b + j = (j + 1) + Len(stream) /\ (j + 1) - 1 = j
        BY <4>1, <3>4, <1>7
      <4>3. (j + 1) + Len(stream) <= Len(stream) + Len(lines)
        BY <4>2, <3>6, <1>7
      <4>4. j + 1 \in 1..Len(lines)
        BY <4>1, <4>3, <1>7
      <4>5. j + 1 = Len(lines) => b + j = Len(stream')
        <5>1. \A l, m \in Nat : j + 1 = l => (j + 1) + m = m + l
          BY <4>1
        <5> QED
          BY <5>1, <4>2, <1>7, Zenon
      <4>6. /\ j + 1 \in 1..Len(lines) /\ b + j = (j + 1) + Len(stream) /\ (j + 1) - 1 = j
            /\ j + 1 = Len(lines) => b + j = Len(stream')
        BY <4>2, <4>4, <4>5
      <4>7. stream'[b + j] = lines[j + 1]
        BY <4>6, <1>7
      <4> QED
        BY <4>6, <4>7, <1>10
    <3> QED
      BY <3>4, <3>5, <3>6, <1>4
  <2> QED
    BY <2>1, <2>2, <1>7
<1>13. EarlierWhole'
  <2>1. ASSUME NEW i \in DOMAIN ran PROVE \E b \in 1..Len(stream') : Whole(i, b)'
    <3>1. PICK b \in 1..Len(stream) : Whole(i, b)
      BY <2>1 DEF EarlierWhole
    <3>2. ran'[i] = ran[i] /\ LastOf(ran[i]) \in Nat
      BY <2>1, <1>4, <1>8
    <3>3. /\ b + LastOf(ran[i]) <= Len(stream)
          /\ \A j \in 0..LastOf(ran[i]) : stream[b + j] = FrameLine(i, ran[i], j)
      BY <3>1 DEF Whole
    <3>4. /\ b + LastOf(ran[i]) <= Len(stream') /\ b \in 1..Len(stream')
          /\ \A j \in 0..LastOf(ran[i]) : b + j \in 1..Len(stream)
      BY <3>2, <3>3, <1>7
    <3>5. \A j \in 0..LastOf(ran[i]) : stream'[b + j] = FrameLine(i, ran'[i], j)
      BY <3>2, <3>3, <3>4, <1>7
    <3>6. Whole(i, b)'
      BY <3>2, <3>4, <3>5 DEF Whole
    <3> QED
      BY <3>4, <3>6
  <2>2. ASSUME stage' = "collecting" PROVE \E b \in 1..Len(stream') : Whole(id, b)'
    <3>1. Len(stream) + 1 \in 1..Len(stream') /\ Len(lines) = LastOf(run) + 1
      BY <2>2, <1>7, <1>9, <1>11
    <3>2. PICK b \in 1..Len(stream') : b = Len(stream) + 1
      BY <3>1
    <3>3. b + LastOf(run) <= Len(stream')
      BY <3>1, <3>2, <1>7, <1>9
    <3>4. ASSUME NEW j \in 0..LastOf(run) PROVE stream'[b + j] = FrameLine(id, run, j)
      <4>1. j + 1 \in 1..Len(lines) /\ b + j = (j + 1) + Len(stream) /\ (j + 1) - 1 = j
        BY <3>1, <3>2, <1>7, <1>9
      <4>2. stream'[b + j] = lines[j + 1]
        BY <4>1, <1>7
      <4> QED
        BY <2>2, <4>1, <4>2, <1>10
    <3>5. Whole(id, b)'
      BY <3>3, <3>4, <1>4 DEF Whole
    <3> QED
      BY <3>5
  <2>3. \A i \in DOMAIN ran' : i \in DOMAIN ran \/ i = id
    BY <1>4
  <2>4. id = Order[Begun']
    BY <1>6
  <2> QED
    BY <2>1, <2>2, <2>3, <2>4 DEF EarlierWhole
<1> QED
  BY <1>4, <1>5, <1>6, <1>7, <1>12, <1>13

\* The parts of Types that the steps below keep needing.
LEMMA TypeFacts ==
  ASSUME InOrder, Types
  PROVE  /\ at \in Nat /\ Len(stream) \in Nat /\ at <= Len(stream)
         /\ current.body \in Seq(BodyKind) /\ Len(current.body) \in Nat
         /\ \A k \in 1..Len(stream) : stream[k] \in Line
         /\ \A id \in DOMAIN ran : /\ id \in Ids /\ ran[id] \in Run
                                  /\ Len(ran[id].body) \in Nat /\ LastOf(ran[id]) \in Nat
                                  /\ ran[id].status \in Nat
<1>1. Len(stream) \in Nat /\ \A k \in 1..Len(stream) : stream[k] \in Line
  <2>1. stream \in Seq(Line)
    BY DEF Types
  <2> QED
    BY <2>1
<1>2. at \in Nat /\ at <= Len(stream)
  <2>1. at \in 0..Len(stream)
    BY DEF Types
  <2> QED
    BY <1>1, <2>1
<1>3. current.body \in Seq(BodyKind) /\ Len(current.body) \in Nat
  <2>1. current \in [open : BOOLEAN, id : Ids \cup {""}, body : Seq(BodyKind)]
    BY DEF Types
  <2>2. current.body \in Seq(BodyKind)
    BY <2>1
  <2> QED
    BY <2>2
<1>4. \A id \in DOMAIN ran : id \in Ids /\ ran[id] \in Run
  <2>1. DOMAIN ran \subseteq Ids
    BY OrderFacts DEF InOrder, Ids
  <2> QED
    BY <2>1 DEF Types
<1>5. \A run \in Run : Len(run.body) \in Nat /\ LastOf(run) \in Nat /\ run.status \in Nat
  BY DEF LastOf, Run
<1> QED
  BY <1>1, <1>2, <1>3, <1>4, <1>5

\* No section is open: of the type of the parser's state.
LEMMA NoneType == None \in [open : BOOLEAN, id : Ids \cup {""}, body : Seq(BodyKind)]
<1>1. <<>> \in Seq(BodyKind)
  OBVIOUS
<1>2. "" \in Ids \cup {""}
  OBVIOUS
<1> QED
  BY <1>1, <1>2 DEF None

\* The invariant holds before anything has been collected.
LEMMA InitInv == Init => IInv
<1> SUFFICES ASSUME Init PROVE IInv
  OBVIOUS
<1>1. DOMAIN ran = {} /\ DOMAIN sections = {} /\ at = 0 /\ ~current.open /\ ~truncated
  BY DEF Init, NothingRan, None
<1>2. InOrder
  <2>1. IsFiniteSet(DOMAIN ran) /\ Begun = 0
    BY <1>1, FS_EmptySet DEF Begun
  <2>2. {Order[k] : k \in 1..0} = {}
    OBVIOUS
  <2> QED
    BY <1>1, <2>1, <2>2, OrderFacts DEF InOrder
<1>3. stream \in Seq(Line) /\ \A b \in 1..Len(stream) : stream[b].kind # "begin"
  <2>1. Banner \in Line /\ Banner.kind # "begin"
    BY ProbesAreIds DEF Banner, Line, BodyKind, Payload
  <2>2. CASE stream = <<>>
    BY <2>2
  <2>3. CASE stream = <<Banner>>
    BY <2>1, <2>3
  <2> QED
    BY <2>2, <2>3 DEF Init
<1>4. Types
  <2>1. ran \in [DOMAIN ran -> Run]
    BY <1>1 DEF Init, NothingRan
  <2>2. current \in [open : BOOLEAN, id : Ids \cup {""}, body : Seq(BodyKind)]
    BY NoneType DEF Init
  <2>3. at \in 0..Len(stream)
    BY <1>1, <1>3
  <2> QED
    BY <1>1, <1>3, <2>1, <2>2, <2>3 DEF Types, Init
<1>5. Frames /\ EarlierWhole /\ Opened /\ ReadWhole /\ KeptWhole /\ Conclusions
  BY <1>1, <1>3 DEF Frames, EarlierWhole, Opened, ReadWhole, KeptWhole, Conclusions, Init
<1> QED
  BY <1>2, <1>4, <1>5 DEF IInv

\* The steps that emit a section keep the invariant.
LEMMA EmitInv ==
  ASSUME IInv, (RunSection \/ \E capped \in BOOLEAN : CutSection(capped))
  PROVE  IInv'
<1>1. /\ stage = "collecting" /\ Begun < Len(Order) /\ stage' \in {"collecting", "parsing"}
      /\ truncated' \in BOOLEAN /\ (stage' = "collecting" => truncated' = truncated)
      /\ UNCHANGED <<at, current, sections, host, findings, observations, errors>>
  BY DEF IInv, Types, RunSection, CutSection, parserVars, reportVars
<1>2. Order[Begun + 1] \in Ids
  BY <1>1, OrderFacts DEF IInv, InOrder, Ids
<1>3. PICK run, lines :
        /\ run \in SectionRuns(Order[Begun + 1])
        /\ Emit(Order[Begun + 1], run, lines) /\ Prefix(lines, Order[Begun + 1], run)
        /\ stage' = "collecting" => lines = Framed(Order[Begun + 1], run)
  <2>1. CASE RunSection
    BY <2>1, <1>2, FramedIsPrefix, SectionRunsAreRuns DEF RunSection
  <2>2. ASSUME NEW capped \in BOOLEAN, CutSection(capped)
        PROVE \E run \in SectionRuns(Order[Begun + 1]) : \E lines :
                /\ Emit(Order[Begun + 1], run, lines) /\ Prefix(lines, Order[Begun + 1], run)
                /\ stage' # "collecting"
    <3>1. PICK run \in SectionRuns(Order[Begun + 1]) :
            \E k \in 0..(Len(Framed(Order[Begun + 1], run)) - 1) :
              \/ Emit(Order[Begun + 1], run, SubSeq(Framed(Order[Begun + 1], run), 1, k))
              \/ \E line \in Torn(Framed(Order[Begun + 1], run)[k + 1]) :
                   Emit(Order[Begun + 1], run,
                        Append(SubSeq(Framed(Order[Begun + 1], run), 1, k), line))
      BY <2>2 DEF CutSection
    <3>2. run \in Run
      BY <1>2, SectionRunsAreRuns
    <3>3. PICK k \in 0..(Len(Framed(Order[Begun + 1], run)) - 1) :
              \/ Emit(Order[Begun + 1], run, SubSeq(Framed(Order[Begun + 1], run), 1, k))
              \/ \E line \in Torn(Framed(Order[Begun + 1], run)[k + 1]) :
                   Emit(Order[Begun + 1], run,
                        Append(SubSeq(Framed(Order[Begun + 1], run), 1, k), line))
      BY <3>1
    <3>4. \E line : line \in Torn(Framed(Order[Begun + 1], run)[k + 1])
      BY DEF Torn
    <3>5. \E lines : /\ Emit(Order[Begun + 1], run, lines)
                     /\ Prefix(lines, Order[Begun + 1], run)
      BY <3>2, <3>3, <3>4, <1>2, CutIsPrefix
    <3> QED
      BY <3>5, <2>2 DEF CutSection
  <2> QED
    BY <2>1, <2>2
<1>4. /\ InOrder' /\ ran' \in [DOMAIN ran' -> Run] /\ stream' \in Seq(Line)
      /\ "os-release" \in DOMAIN ran' => "partial" \notin Range(ran'["os-release"].body)
      /\ Frames' /\ EarlierWhole' /\ Len(stream') \in Nat
  BY <1>1, <1>3, EmitStep DEF IInv
<1>5. at' = 0 /\ ~current'.open /\ DOMAIN sections' = {} /\ sections' = NothingRan /\ ~truncated
  BY <1>1 DEF IInv, Types, NothingRan
<1>6. Types'
  <2>1. at' \in 0..Len(stream')
    BY <1>4, <1>5
  <2>2. /\ current' \in [open : BOOLEAN, id : Ids \cup {""}, body : Seq(BodyKind)]
        /\ truncated' \in BOOLEAN
        /\ stage' = "collecting" => ~truncated'
    <3>1. current \in [open : BOOLEAN, id : Ids \cup {""}, body : Seq(BodyKind)]
      BY DEF Types, IInv
    <3>2. current' \in [open : BOOLEAN, id : Ids \cup {""}, body : Seq(BodyKind)]
      BY <1>1, <3>1
    <3>3. stage' = "collecting" => ~truncated'
      BY <1>1, <1>5, Zenon
    <3>4. truncated' \in BOOLEAN
      BY <1>1, Zenon
    <3> QED
      BY <3>2, <3>3, <3>4, Zenon
  <2> QED
    BY <1>1, <1>4, <1>5, <2>1, <2>2 DEF Types
<1>7. ReadWhole'
  <2>1. \A i \in DOMAIN ran' : LastOf(ran'[i]) \in Nat
    BY <1>4 DEF LastOf, Run
  <2> QED
    BY <2>1, <1>5 DEF ReadWhole
<1>8. Opened' /\ KeptWhole' /\ Conclusions'
  BY <1>1, <1>5 DEF Opened, KeptWhole, Conclusions, IInv
<1> QED
  BY <1>4, <1>6, <1>7, <1>8 DEF IInv

\* So do the ends of the session.
LEMMA EndInv ==
  ASSUME IInv, SessionEnds \/ SessionFails
  PROVE  IInv'
<1>1. UNCHANGED <<ran, stream, at, current, sections>> /\ stage = "collecting"
  BY DEF SessionEnds, SessionFails, sessionVars, parserVars
<1>2. InOrder' /\ Opened' /\ ReadWhole' /\ KeptWhole'
  BY <1>1 DEF IInv, InOrder, Begun, Opened, ReadWhole, Whole, KeptWhole
<1>3. EarlierWhole'
  <2>1. \A id \in DOMAIN ran : \E b \in 1..Len(stream) : Whole(id, b)
    BY <1>1 DEF IInv, EarlierWhole
  <2>2. \A id \in DOMAIN ran : \A b \in 1..Len(stream) : Whole(id, b) => Whole(id, b)'
    BY <1>1 DEF Whole
  <2> QED
    BY <1>1, <2>1, <2>2 DEF EarlierWhole
<1>4. Frames'
  BY <1>1 DEF IInv, Frames, SessionEnds, SessionFails
<1>5. Types'
  <2>1. stage' \in {"parsing", "reported"} /\ truncated' \in BOOLEAN
    BY DEF IInv, Types, SessionEnds, SessionFails, sessionVars
  <2> QED
    BY <1>1, <2>1 DEF IInv, Types
<1>6. Conclusions'
  <2>1. findings' = {} /\ observations' = {}
    BY <1>1 DEF IInv, Conclusions, SessionEnds, SessionFails, reportVars
  <2>2. stage' = "parsing" \/ (stage' = "reported" /\ Failed')
    BY <2>1 DEF IInv, Types, SessionEnds, SessionFails, Failed, sessionVars
  <2> QED
    BY <2>1, <2>2 DEF Conclusions
<1> QED
  BY <1>2, <1>3, <1>4, <1>5, <1>6 DEF IInv

-----------------------------------------------------------------------------
(* The parser *)

\* Inside an open section the parser has read exactly what the section printed, and the
\* line to be read is the next one of the section, unless it is torn and the last.
LEMMA InsideSection ==
  ASSUME IInv, at < Len(stream), current.open
  PROVE  LET id == current.id  run == ran[id]  n == Len(current.body) IN
         /\ id \in DOMAIN ran /\ run \in Run /\ n \in 0..Len(run.body)
         /\ \A j \in 1..n : current.body[j] = run.body[j]
         /\ \/ stream[at + 1] = FrameLine(id, run, n + 1)
            \/ stream[at + 1] \in Torn(FrameLine(id, run, n + 1))
<1> DEFINE id == current.id
           run == ran[id]
           n == Len(current.body)
           b == at - n
<1>1. /\ at \in Nat /\ Len(stream) \in Nat /\ at <= Len(stream)
      /\ current.body \in Seq(BodyKind) /\ n \in Nat
  BY TypeFacts DEF IInv
<1>2. /\ b \in 1..Len(stream) /\ stream[b].kind = "begin" /\ stream[b].id = id
      /\ \A j \in 1..n : stream[b + j].kind = current.body[j]
  <2>1. /\ b >= 1 /\ stream[b].kind = "begin" /\ stream[b].id = id
        /\ \A j \in 1..n : stream[b + j].kind = current.body[j]
    BY DEF IInv, Opened
  <2>2. b \in Int /\ b <= Len(stream)
    BY <1>1
  <2> HIDE DEF b, n, id
  <2>3. b \in 1..Len(stream)
    BY <2>1, <2>2, <1>1
  <2> QED
    BY <2>1, <2>3
<1>3. /\ id \in DOMAIN ran
      /\ \A j \in 0..LastOf(run) : b + j <= Len(stream) =>
           \/ stream[b + j] = FrameLine(id, run, j)
           \/ b + j = Len(stream) /\ stream[b + j] \in Torn(FrameLine(id, run, j))
  BY <1>2 DEF IInv, Frames
<1>4. run \in Run /\ id \in Ids /\ Len(run.body) \in Nat /\ LastOf(run) \in Nat
  BY <1>3, TypeFacts DEF IInv
<1>5. ASSUME NEW j \in 1..n PROVE b + j <= at /\ b + j < Len(stream)
  <2>1. b + n = at
    BY <1>1
  <2> HIDE DEF b, n
  <2>2. j \in Nat /\ j <= n /\ b \in Nat
    BY <1>1, <1>2
  <2>3. b + j <= b + n
    BY <1>1, <2>2
  <2>4. b + j <= at
    BY <2>1, <2>3
  <2> QED
    BY <1>1, <2>2, <2>4
<1> HIDE DEF b, n, run, id
<1>6. ASSUME NEW j \in 1..n, j <= LastOf(run) PROVE stream[b + j] = FrameLine(id, run, j)
  <2>1. j \in 0..LastOf(run) /\ b \in Nat
    BY <1>1, <1>2, <1>4, <1>6
  <2>2. b + j <= Len(stream) /\ b + j # Len(stream)
    BY <1>1, <1>5, <2>1
  <2> QED
    BY <1>3, <2>1, <2>2
<1>7. n <= Len(run.body)
  <2> SUFFICES ASSUME ~(n <= Len(run.body)) PROVE FALSE
    OBVIOUS
  <2>1. LastOf(run) \in 1..n /\ LastOf(run) <= LastOf(run) /\ LastOf(run) \in 0..LastOf(run)
    BY <1>1, <1>4 DEF LastOf
  <2>2. FrameLine(id, run, LastOf(run)).kind = "end"
    BY <1>4, <2>1, FrameKinds
  <2>3. current.body[LastOf(run)] = "end"
    BY <1>2, <1>6, <2>1, <2>2
  <2>4. current.body[LastOf(run)] \in BodyKind
    <3>1. LastOf(run) \in 1..Len(current.body)
      BY <2>1 DEF n
    <3> QED
      BY <1>1, <3>1
  <2> QED
    BY <2>3, <2>4 DEF BodyKind, Payload
<1>8. ASSUME NEW j \in 1..n PROVE current.body[j] = run.body[j]
  <2>1. j \in 1..Len(run.body) /\ j \in 0..LastOf(run) /\ j <= LastOf(run)
    BY <1>1, <1>4, <1>7 DEF LastOf
  <2>2. FrameLine(id, run, j).kind = run.body[j]
    BY <1>4, <2>1, FrameKinds
  <2> QED
    BY <1>2, <1>6, <2>1, <2>2
<1>9. n + 1 \in 0..LastOf(run) /\ b + (n + 1) = at + 1 /\ at + 1 <= Len(stream)
  BY <1>1, <1>4, <1>7 DEF LastOf, b
<1>10. \/ stream[at + 1] = FrameLine(id, run, n + 1)
       \/ stream[at + 1] \in Torn(FrameLine(id, run, n + 1))
  BY <1>3, <1>9
<1> QED
  BY <1>1, <1>3, <1>4, <1>7, <1>8, <1>10 DEF id, run, n

\* Where a whole section stands, the line to be read has the kind of its place in it.
LEMMA InsideWhole ==
  ASSUME IInv, at < Len(stream), NEW id \in DOMAIN ran, NEW b \in 1..Len(stream),
         Whole(id, b), b <= at + 1, at + 1 <= b + LastOf(ran[id])
  PROVE  /\ stream[at + 1].id = id
         /\ stream[at + 1].kind = "begin" <=> b = at + 1
         /\ stream[at + 1].kind = "end" <=> at + 1 = b + LastOf(ran[id])
         /\ stream[at + 1].kind = "end" => stream[at + 1].status \in Nat
<1> DEFINE j == at + 1 - b
<1>1. ran[id] \in Run /\ id \in Ids /\ LastOf(ran[id]) \in Nat /\ ran[id].status \in Nat
  BY TypeFacts DEF IInv
<1>2. at \in Nat /\ Len(stream) \in Nat
  BY TypeFacts DEF IInv
<1>3. j \in 0..LastOf(ran[id]) /\ b + j = at + 1
  BY <1>1, <1>2
<1>4. stream[at + 1] = FrameLine(id, ran[id], j)
  BY <1>3 DEF Whole
<1>5. (j = 0 <=> b = at + 1) /\ (j = LastOf(ran[id]) <=> at + 1 = b + LastOf(ran[id]))
  BY <1>1, <1>2
<1> HIDE DEF j
<1> QED
  BY <1>1, <1>3, <1>4, <1>5, FrameKinds

\* What no step of the parser changes.
LEMMA StreamKept ==
  ASSUME IInv, UNCHANGED <<ran, stream, stage>>
  PROVE  InOrder' /\ Frames' /\ EarlierWhole'
BY DEF IInv, InOrder, Begun, Frames, EarlierWhole, Whole

\* BEGIN opens a section at the line just read; no whole section is left by that.
LEMMA ReadBeginInv == ASSUME IInv, ReadBegin PROVE IInv'
<1>1. /\ UNCHANGED <<ran, stream, stage, truncated, sections, host, findings, observations, errors>>
      /\ stage = "parsing" /\ at < Len(stream) /\ stream[at + 1].kind = "begin" /\ at' = at + 1
      /\ current' = [open |-> TRUE, id |-> stream[at + 1].id, body |-> <<>>]
  BY DEF ReadBegin, Reading, LineRead, sessionVars, reportVars
<1>2. /\ at \in Nat /\ Len(stream) \in Nat /\ at + 1 \in 1..Len(stream)
      /\ \A id \in DOMAIN ran : LastOf(ran[id]) \in Nat
  BY <1>1, TypeFacts DEF IInv
<1>3. InOrder' /\ Frames' /\ EarlierWhole'
  BY <1>1, StreamKept
<1>4. current'.open = TRUE /\ current'.id = stream[at + 1].id /\ Len(current'.body) = 0
  BY <1>1
<1>5. Types'
  <2>1. stream[at + 1].id \in Ids
    <3>1. stream[at + 1] \in Line
      BY <1>2, TypeFacts DEF IInv
    <3> QED
      BY <3>1 DEF Line
  <2>2. current' \in [open : BOOLEAN, id : Ids \cup {""}, body : Seq(BodyKind)]
    <3>1. <<>> \in Seq(BodyKind)
      OBVIOUS
    <3> QED
      BY <1>1, <2>1, <3>1
  <2>3. at' \in 0..Len(stream')
    BY <1>1, <1>2
  <2> QED
    BY <1>1, <2>2, <2>3 DEF IInv, Types
<1>6. Opened'
  <2>1. at' - Len(current'.body) = at + 1
    BY <1>1, <1>2, <1>4
  <2> QED
    BY <1>1, <1>2, <1>4, <2>1 DEF Opened
<1>7. ReadWhole'
  <2> SUFFICES ASSUME NEW id \in DOMAIN ran, NEW b \in 1..Len(stream), Whole(id, b)
               PROVE  /\ (b <= at + 1 /\ at + 1 < b + LastOf(ran[id])) =>
                           /\ current'.id = id /\ Len(current'.body) = (at + 1) - b
                      /\ b + LastOf(ran[id]) <= at + 1 => id \in DOMAIN sections
    BY <1>1, <1>4 DEF ReadWhole, Whole
  <2>1. CASE b <= at + 1 /\ at + 1 <= b + LastOf(ran[id])
    <3>1. b = at + 1 /\ stream[at + 1].id = id /\ at + 1 # b + LastOf(ran[id])
      BY <1>1, <2>1, InsideWhole
    <3> QED
      BY <1>2, <1>4, <3>1
  <2>2. CASE ~(b <= at + 1)
    BY <1>2, <2>2
  <2>3. CASE ~(at + 1 <= b + LastOf(ran[id]))
    BY <1>2, <2>3 DEF IInv, ReadWhole
  <2> QED
    BY <2>1, <2>2, <2>3
<1>8. KeptWhole' /\ Conclusions'
  BY <1>1 DEF IInv, KeptWhole, Conclusions
<1> QED
  BY <1>3, <1>5, <1>6, <1>7, <1>8 DEF IInv

\* Any other line goes to the section that is open.
LEMMA ReadBodyInv == ASSUME IInv, ReadBody PROVE IInv'
<1>1. /\ UNCHANGED <<ran, stream, stage, truncated, sections, host, findings, observations, errors>>
      /\ stage = "parsing" /\ at < Len(stream) /\ at' = at + 1
      /\ stream[at + 1].kind \in BodyKind
      /\ current' = IF current.open
                      THEN [current EXCEPT !.body = Append(@, stream[at + 1].kind)]
                      ELSE current
  BY DEF ReadBody, Reading, LineRead, sessionVars, reportVars
<1>2. /\ at \in Nat /\ Len(stream) \in Nat /\ at + 1 \in 1..Len(stream)
      /\ \A id \in DOMAIN ran : LastOf(ran[id]) \in Nat
      /\ current.body \in Seq(BodyKind) /\ Len(current.body) \in Nat
  BY <1>1, TypeFacts DEF IInv
<1>3. current \in [open : BOOLEAN, id : Ids \cup {""}, body : Seq(BodyKind)]
  BY DEF IInv, Types
<1>4. InOrder' /\ Frames' /\ EarlierWhole'
  BY <1>1, StreamKept
<1>5. stream[at + 1].kind # "begin" /\ stream[at + 1].kind # "end"
  BY <1>1 DEF BodyKind, Payload
<1>6. Append(current.body, stream[at + 1].kind) \in Seq(BodyKind)
  BY <1>1, <1>2
<1>7. /\ current' \in [open : BOOLEAN, id : Ids \cup {""}, body : Seq(BodyKind)]
      /\ current'.open = current.open /\ current'.id = current.id
      /\ current.open => current'.body = Append(current.body, stream[at + 1].kind)
  <2>1. CASE current.open
    BY <1>1, <1>6, <1>3, <2>1
  <2>2. CASE ~current.open
    BY <1>1, <1>3, <2>2
  <2> QED
    BY <2>1, <2>2
<1>8. current.open =>
        /\ Len(current'.body) = Len(current.body) + 1
        /\ current'.body[Len(current.body) + 1] = stream[at + 1].kind
        /\ \A j \in 1..Len(current.body) : current'.body[j] = current.body[j]
  <2> DEFINE s == current.body
             k == stream[at + 1].kind
  <2>1. s \in Seq(BodyKind) /\ k \in BodyKind
    BY <1>1, <1>2
  <2> HIDE DEF s, k
  <2>2. /\ Len(Append(s, k)) = Len(s) + 1 /\ Append(s, k)[Len(s) + 1] = k
        /\ \A j \in 1..Len(s) : Append(s, k)[j] = s[j]
    BY <2>1
  <2> QED
    BY <1>7, <2>2 DEF s, k
<1>9. Types'
  <2>1. at' \in 0..Len(stream')
    BY <1>1, <1>2
  <2> QED
    BY <1>1, <1>7, <2>1 DEF IInv, Types
<1>10. Opened'
  <2> SUFFICES ASSUME current.open
               PROVE  LET b == (at + 1) - Len(current'.body) IN
                      /\ b >= 1 /\ stream[b].kind = "begin" /\ stream[b].id = current.id
                      /\ \A j \in 1..Len(current'.body) : stream[b + j].kind = current'.body[j]
    BY <1>1, <1>7 DEF Opened
  <2> DEFINE n == Len(current.body)
             b == at - n
  <2>1. /\ b >= 1 /\ stream[b].kind = "begin" /\ stream[b].id = current.id
        /\ \A j \in 1..n : stream[b + j].kind = current.body[j]
    BY DEF IInv, Opened
  <2>2. (at + 1) - Len(current'.body) = b /\ n \in Nat /\ b + (n + 1) = at + 1
    <3>1. Len(current'.body) = n + 1 /\ n \in Nat /\ at \in Nat
      BY <1>2, <1>8
    <3> HIDE DEF n
    <3>2. (at + 1) - (n + 1) = at - n /\ (at - n) + (n + 1) = at + 1
      BY <3>1
    <3> QED
      BY <3>1, <3>2
  <2>3. /\ \A j \in 1..n : current'.body[j] = current.body[j]
        /\ current'.body[n + 1] = stream[at + 1].kind
    BY <1>8
  <2>4. Len(current'.body) = n + 1
    BY <1>8
  <2> HIDE DEF n, b
  <2>5. ASSUME NEW j \in 1..(n + 1) PROVE stream[b + j].kind = current'.body[j]
    <3>1. CASE j \in 1..n
      BY <2>1, <2>3, <3>1
    <3>2. CASE j = n + 1
      BY <2>2, <2>3, <3>2
    <3> QED
      BY <2>2, <3>1, <3>2
  <2> QED
    BY <2>1, <2>2, <2>4, <2>5
<1>11. ReadWhole'
  <2> SUFFICES ASSUME NEW id \in DOMAIN ran, NEW b \in 1..Len(stream), Whole(id, b)
               PROVE  /\ (b <= at + 1 /\ at + 1 < b + LastOf(ran[id])) =>
                           /\ current.open /\ current.id = id
                           /\ Len(current'.body) = (at + 1) - b
                      /\ b + LastOf(ran[id]) <= at + 1 => id \in DOMAIN sections
    BY <1>1, <1>7 DEF ReadWhole, Whole
  <2>1. CASE b <= at + 1 /\ at + 1 <= b + LastOf(ran[id])
    <3>1. b # at + 1 /\ at + 1 # b + LastOf(ran[id])
      BY <1>1, <1>5, <2>1, InsideWhole
    <3>2. b <= at /\ at < b + LastOf(ran[id])
      BY <1>2, <2>1, <3>1
    <3>3. current.open /\ current.id = id /\ Len(current.body) = at - b
      BY <3>2 DEF IInv, ReadWhole
    <3>4. Len(current'.body) = (at + 1) - b
      BY <1>2, <1>8, <3>3
    <3>5. ~(b + LastOf(ran[id]) <= at + 1)
      BY <1>2, <2>1, <3>1
    <3> QED
      BY <3>3, <3>4, <3>5
  <2>2. CASE ~(b <= at + 1)
    BY <1>2, <2>2
  <2>3. CASE ~(at + 1 <= b + LastOf(ran[id]))
    BY <1>2, <2>3 DEF IInv, ReadWhole
  <2> QED
    BY <2>1, <2>2, <2>3
<1>12. KeptWhole' /\ Conclusions'
  BY <1>1 DEF IInv, KeptWhole, Conclusions
<1> QED
  BY <1>4, <1>9, <1>10, <1>11, <1>12 DEF IInv

\* END closes the open section, which is kept when it is the one that the line ends: then
\* its lines and its status are those of the target.
LEMMA ReadEndInv == ASSUME IInv, ReadEnd PROVE IInv'
<1> DEFINE keeps == /\ current.open /\ stream[at + 1].id = current.id
                    /\ stream[at + 1].status # Ungiven
           kept == [i \in DOMAIN sections \cup {current.id} |->
                      IF i = current.id THEN Section(current.body, stream[at + 1].status)
                      ELSE sections[i]]
<1>1. /\ UNCHANGED <<ran, stream, stage, truncated, host, findings, observations, errors>>
      /\ stage = "parsing" /\ at < Len(stream) /\ stream[at + 1].kind = "end" /\ at' = at + 1
      /\ current' = None
      /\ sections' = IF keeps THEN kept ELSE sections
  BY DEF ReadEnd, Reading, LineRead, sessionVars, reportVars
<1>2. /\ at \in Nat /\ Len(stream) \in Nat /\ at + 1 \in 1..Len(stream)
      /\ \A id \in DOMAIN ran : LastOf(ran[id]) \in Nat
  BY <1>1, TypeFacts DEF IInv
<1>3. InOrder' /\ Frames' /\ EarlierWhole'
  BY <1>1, StreamKept
<1>4. ~current'.open
  BY <1>1 DEF None
<1>5. Types'
  <2>1. at' \in 0..Len(stream')
    BY <1>1, <1>2
  <2> QED
    BY <1>1, <2>1, NoneType DEF IInv, Types
<1>6. Opened'
  BY <1>4 DEF Opened
<1>7. /\ DOMAIN sections \subseteq DOMAIN sections'
      /\ keeps => current.id \in DOMAIN sections'
  BY <1>1
<1>8. ReadWhole'
  <2> SUFFICES ASSUME NEW id \in DOMAIN ran, NEW b \in 1..Len(stream), Whole(id, b)
               PROVE  /\ ~(b <= at + 1 /\ at + 1 < b + LastOf(ran[id]))
                      /\ b + LastOf(ran[id]) <= at + 1 => id \in DOMAIN sections'
    BY <1>1 DEF ReadWhole, Whole
  <2>1. CASE b <= at + 1 /\ at + 1 <= b + LastOf(ran[id])
    <3>1. /\ stream[at + 1].id = id /\ b # at + 1 /\ at + 1 = b + LastOf(ran[id])
          /\ stream[at + 1].status \in Nat
      BY <1>1, <2>1, InsideWhole
    <3>2. b <= at /\ at < b + LastOf(ran[id])
      BY <1>2, <2>1, <3>1
    <3>3. current.open /\ current.id = id
      BY <3>2 DEF IInv, ReadWhole
    <3>4. stream[at + 1].status # Ungiven
      BY <3>1 DEF Ungiven
    <3>5. id \in DOMAIN sections'
      BY <1>7, <3>1, <3>3, <3>4
    <3> QED
      BY <1>2, <3>1, <3>5
  <2>2. CASE ~(b <= at + 1)
    BY <1>2, <2>2
  <2>3. CASE ~(at + 1 <= b + LastOf(ran[id]))
    BY <1>2, <1>7, <2>3 DEF IInv, ReadWhole
  <2> QED
    BY <2>1, <2>2, <2>3
<1>9. KeptWhole'
  <2>1. CASE keeps
    <3> DEFINE id == current.id
               run == ran[id]
               n == Len(current.body)
    <3>1. /\ id \in DOMAIN ran /\ run \in Run /\ n \in 0..Len(run.body)
          /\ \A j \in 1..n : current.body[j] = run.body[j]
          /\ \/ stream[at + 1] = FrameLine(id, run, n + 1)
             \/ stream[at + 1] \in Torn(FrameLine(id, run, n + 1))
      BY <1>1, <2>1, InsideSection
    <3>2. /\ id \in Ids /\ Len(run.body) \in Nat /\ LastOf(run) = Len(run.body) + 1
          /\ current.body \in Seq(BodyKind) /\ run.body \in Seq(BodyKind)
      BY <3>1, TypeFacts DEF IInv, LastOf, Run
    <3> HIDE DEF id, run, n
    <3>3. n + 1 \in 0..LastOf(run)
      BY <3>1, <3>2
    <3>4. FrameLine(id, run, n + 1) \in Line
      BY <3>1, <3>2, <3>3, FrameKinds
    <3>5. stream[at + 1] = FrameLine(id, run, n + 1)
      BY <1>1, <2>1, <3>1, <3>4, TornLines
    <3>6. n + 1 = LastOf(run) /\ stream[at + 1].status = run.status
      BY <1>1, <3>1, <3>2, <3>3, <3>5, FrameKinds
    <3>7. n = Len(run.body)
      BY <3>1, <3>2, <3>6
    <3>8. current.body = run.body
      BY <3>1, <3>2, <3>7 DEF n
    <3>9. Section(current.body, stream[at + 1].status) = Section(run.body, run.status)
      BY <3>6, <3>8
    <3>10. ASSUME NEW i \in DOMAIN sections'
           PROVE  /\ i \in DOMAIN ran
                  /\ LET whole == Section(ran[i].body, ran[i].status) IN
                       \/ sections'[i] = whole
                       \/ i = "os-release" /\ sections'[i] = [whole EXCEPT !.unavailable = TRUE]
      <4>1. CASE i = id
        BY <1>1, <2>1, <3>1, <3>9, <4>1 DEF id, run
      <4>2. CASE i # id
        <5>1. i \in DOMAIN sections /\ sections'[i] = sections[i]
          BY <1>1, <2>1, <4>2 DEF id
        <5> QED
          BY <5>1 DEF IInv, KeptWhole
      <4> QED
        BY <4>1, <4>2
    <3> QED
      BY <1>1, <3>10 DEF KeptWhole
  <2>2. CASE ~keeps
    BY <1>1, <2>2 DEF IInv, KeptWhole
  <2> QED
    BY <2>1, <2>2
<1>10. Conclusions'
  BY <1>1 DEF IInv, Conclusions
<1> QED
  BY <1>3, <1>5, <1>6, <1>8, <1>9, <1>10 DEF IInv

\* At the end of parse every whole section has been kept.
LEMMA FinishParseInv == ASSUME IInv, FinishParse PROVE IInv'
<1> DEFINE changed(i) == i = "os-release" /\ sections[i].status = 0 /\ ~OsReadable(sections[i])
<1>1. /\ UNCHANGED <<ran, stream, truncated, at, current, findings, observations, errors>>
      /\ stage = "parsing" /\ stage' = "assessing" /\ at = Len(stream)
      /\ sections' = [i \in DOMAIN sections |->
           IF changed(i) THEN [sections[i] EXCEPT !.unavailable = TRUE] ELSE sections[i]]
      /\ host'.known = ("meta" \in DOMAIN sections)
  BY DEF FinishParse, sessionVars
<1> HIDE DEF changed
<1>2. DOMAIN sections' = DOMAIN sections
  BY <1>1
<1>3. InOrder' /\ Opened' /\ ReadWhole'
  BY <1>1, <1>2 DEF IInv, InOrder, Begun, Opened, ReadWhole, Whole
<1>4. Frames' /\ EarlierWhole'
  BY <1>1 DEF IInv, Frames, EarlierWhole, Whole, Begun
<1>5. Types'
  BY <1>1 DEF IInv, Types
<1>6. KeptWhole'
  <2> SUFFICES ASSUME NEW i \in DOMAIN sections
               PROVE  /\ i \in DOMAIN ran
                      /\ LET whole == Section(ran[i].body, ran[i].status) IN
                           \/ sections'[i] = whole
                           \/ i = "os-release" /\ sections'[i] = [whole EXCEPT !.unavailable = TRUE]
    BY <1>1, <1>2 DEF KeptWhole
  <2>1. CASE changed(i)
    <3>1. i = "os-release" /\ sections'[i] = [sections[i] EXCEPT !.unavailable = TRUE]
      BY <1>1, <2>1 DEF changed
    <3> QED
      BY <3>1 DEF IInv, KeptWhole, Section
  <2>2. CASE ~changed(i)
    <3>1. sections'[i] = sections[i]
      BY <1>1, <2>2
    <3> QED
      BY <3>1 DEF IInv, KeptWhole
  <2> QED
    BY <2>1, <2>2
<1>7. Conclusions'
  BY <1>1, <1>2 DEF IInv, Conclusions, AllRead
<1> QED
  BY <1>3, <1>4, <1>5, <1>6, <1>7 DEF IInv

-----------------------------------------------------------------------------
(* The assessment *)

\* The report is a function of the sections and of whether the output was truncated.
LEMMA SameSections ==
  ASSUME UNCHANGED <<sections, truncated>>
  PROVE  /\ OsReleaseErrors' = OsReleaseErrors /\ CollectorErrors' = CollectorErrors
         /\ CapabilityErrors' = CapabilityErrors /\ Evaluated' = Evaluated
         /\ \A p \in Probes : ProbeErrors(p)' = ProbeErrors(p)
         /\ \A p \in Evaluated : /\ sections'[p] = sections[p]
                                 /\ OverBudget(p)' = OverBudget(p)
BY DEF OsReleaseErrors, CollectorErrors, CapabilityErrors, Evaluated, ProbeErrors, OverBudget,
       Parsed, Error

\* What a step that reads nothing keeps.
LEMMA ParserKept ==
  ASSUME IInv, UNCHANGED <<ran, stream, truncated, at, current, sections>>,
         stage' = stage \/ stage' = "reported"
  PROVE  InOrder' /\ Opened' /\ ReadWhole' /\ KeptWhole' /\ Types'
<1>1. InOrder'
  BY DEF IInv, InOrder, Begun
<1>2. Opened'
  BY DEF IInv, Opened
<1>3. ReadWhole'
  BY DEF IInv, ReadWhole, Whole
<1>4. KeptWhole'
  BY DEF IInv, KeptWhole
<1>5. Types'
  BY DEF IInv, Types
<1> QED
  BY <1>1, <1>2, <1>3, <1>4, <1>5

\* The assessment keeps the invariant.
LEMMA AssessInv == ASSUME IInv, Assess PROVE IInv'
<1>1. /\ UNCHANGED <<ran, stream, truncated, at, current, sections, host>>
      /\ stage = "assessing" /\ stage' = "reported"
  BY DEF Assess, sessionVars, parserVars
<1>2. InOrder' /\ Opened' /\ ReadWhole' /\ KeptWhole' /\ Types'
  BY <1>1, ParserKept
<1>3. Frames' /\ EarlierWhole'
  BY <1>1 DEF IInv, Frames, EarlierWhole, Whole, Begun
<1>4. AllRead'
  BY <1>1 DEF IInv, Conclusions, AllRead
<1>5. Assessed'
  <2>1. errors' = UNION ({OsReleaseErrors, CollectorErrors, CapabilityErrors}
                         \cup {ProbeErrors(p) : p \in Probes})'
    BY <1>1, SameSections DEF Assess
  <2>2. findings' = {p \in Evaluated : IsDetection(p) /\ Evaluate(sections[p].output)}'
    BY <1>1, SameSections DEF Assess
  <2>3. observations' =
          {[id |-> p, partial |-> sections[p].partial,
            truncated |-> OverBudget(p) \/ sections[p].limits] :
           p \in {q \in Evaluated : ~IsDetection(q)}}'
    BY <1>1, SameSections DEF Assess
  <2> QED
    BY <2>1, <2>2, <2>3 DEF Assessed
<1>6. Conclusions'
  BY <1>1, <1>4, <1>5 DEF Conclusions
<1> QED
  BY <1>2, <1>3, <1>6 DEF IInv

\* Every step keeps the invariant.
LEMMA NextInv == ASSUME IInv, [Next]_vars PROVE IInv'
<1>1. CASE RunSection \/ \E capped \in BOOLEAN : CutSection(capped)
  BY <1>1, EmitInv
<1>2. CASE SessionEnds \/ SessionFails
  BY <1>2, EndInv
<1>3. CASE ReadBegin
  BY <1>3, ReadBeginInv
<1>4. CASE ReadEnd
  BY <1>4, ReadEndInv
<1>5. CASE ReadBody
  BY <1>5, ReadBodyInv
<1>6. CASE FinishParse
  BY <1>6, FinishParseInv
<1>7. CASE Assess
  BY <1>7, AssessInv
<1>8. CASE UNCHANGED vars
  <2>1. UNCHANGED <<ran, stage, stream, truncated, at, current, sections, host, findings,
                    observations, errors>>
    BY <1>8 DEF vars
  <2>2. InOrder' /\ Frames' /\ EarlierWhole'
    BY <2>1, StreamKept
  <2>3. Opened' /\ ReadWhole' /\ KeptWhole' /\ Types'
    BY <2>1, ParserKept
  <2>4. ASSUME Assessed PROVE Assessed'
    <3>1. errors' = UNION ({OsReleaseErrors, CollectorErrors, CapabilityErrors}
                           \cup {ProbeErrors(p) : p \in Probes})'
      BY <2>1, <2>4, SameSections DEF Assessed
    <3>2. findings' = {p \in Evaluated : IsDetection(p) /\ Evaluate(sections[p].output)}'
      BY <2>1, <2>4, SameSections DEF Assessed
    <3>3. observations' =
            {[id |-> p, partial |-> sections[p].partial,
              truncated |-> OverBudget(p) \/ sections[p].limits] :
             p \in {q \in Evaluated : ~IsDetection(q)}}'
      BY <2>1, <2>4, SameSections DEF Assessed
    <3> QED
      BY <3>1, <3>2, <3>3 DEF Assessed
  <2>5. Conclusions'
    BY <2>1, <2>4 DEF IInv, Conclusions, Failed, AllRead
  <2> QED
    BY <2>2, <2>3, <2>5 DEF IInv
<1> QED
  BY <1>1, <1>2, <1>3, <1>4, <1>5, <1>6, <1>7, <1>8 DEF Next, Session, Parser

\* The inductive invariant holds always.
LEMMA InvHolds == Spec => []IInv
BY InitInv, NextInv, PTL DEF Spec

-----------------------------------------------------------------------------
(* The properties *)

\* What the section of an ID tells of what the target printed.
LEMMA SectionTells ==
  ASSUME IInv, NEW id \in DOMAIN sections
  PROVE  /\ id \in DOMAIN ran
         /\ sections[id].status = ran[id].status
         /\ sections[id].output = Range(ran[id].body) \cap Payload
         /\ sections[id].partial = ("partial" \in Range(ran[id].body))
         /\ sections[id].limits = ("limit" \in Range(ran[id].body))
         /\ ~sections[id].unavailable => "unavailable" \notin Range(ran[id].body)
         /\ (id # "os-release" /\ sections[id].unavailable) =>
              "unavailable" \in Range(ran[id].body)
<1> DEFINE whole == Section(ran[id].body, ran[id].status)
<1>1. /\ id \in DOMAIN ran
      /\ \/ sections[id] = whole
         \/ id = "os-release" /\ sections[id] = [whole EXCEPT !.unavailable = TRUE]
  BY DEF IInv, KeptWhole
<1> DEFINE marked == [whole EXCEPT !.unavailable = TRUE]
<1>2. /\ whole.status = ran[id].status /\ whole.output = Range(ran[id].body) \cap Payload
      /\ whole.partial = ("partial" \in Range(ran[id].body))
      /\ whole.limits = ("limit" \in Range(ran[id].body))
      /\ whole.unavailable = ("unavailable" \in Range(ran[id].body))
  BY DEF Section
<1>3. /\ marked.status = whole.status /\ marked.output = whole.output
      /\ marked.partial = whole.partial /\ marked.limits = whole.limits
      /\ marked.unavailable = TRUE
  BY DEF Section
<1> HIDE DEF whole, marked
<1>4. CASE sections[id] = whole
  BY <1>1, <1>2, <1>4, Zenon
<1>5. CASE id = "os-release" /\ sections[id] = marked
  BY <1>1, <1>2, <1>3, <1>5, Zenon
<1> QED
  BY <1>1, <1>4, <1>5 DEF marked

\* A section that is kept is exactly what the target printed between its markers, with
\* the status it ended with: for any probes and output, and wherever the session is cut.
THEOREM SectionsAreKeptWhole == Spec => []SectionsAreWhole
<1>1. IInv => SectionsAreWhole
  <2> SUFFICES ASSUME IInv, NEW id \in DOMAIN sections
               PROVE  /\ id \in DOMAIN ran
                      /\ LET whole == Section(ran[id].body, ran[id].status) IN
                           sections[id] = IF id = "os-release"
                             THEN [whole EXCEPT !.unavailable = sections[id].unavailable]
                             ELSE whole
    BY DEF SectionsAreWhole
  <2> DEFINE whole == Section(ran[id].body, ran[id].status)
  <2>1. /\ id \in DOMAIN ran
        /\ \/ sections[id] = whole
           \/ id = "os-release" /\ sections[id] = [whole EXCEPT !.unavailable = TRUE]
    BY DEF IInv, KeptWhole
  <2>2. whole = [whole EXCEPT !.unavailable = whole.unavailable]
    BY DEF Section
  <2>3. [whole EXCEPT !.unavailable = TRUE].unavailable = TRUE
    BY DEF Section
  <2> HIDE DEF whole
  <2> QED
    BY <2>1, <2>2, <2>3 DEF whole
<1> QED
  BY <1>1, InvHolds, PTL

\* A report is either that of a session that failed or a function of the sections.
LEMMA ReportOf ==
  ASSUME IInv
  PROVE  /\ stage = "reported" => Failed \/ (Assessed /\ AllRead)
         /\ (stage # "reported" \/ Failed) => findings = {} /\ observations = {}
BY DEF IInv, Conclusions, Failed

\* The markers of the limits are no evidence.
LEMMA EvidenceOnly ==
  ASSUME NEW S
  PROVE  /\ Evaluate(S \cap Payload) <=> Evaluate(S)
         /\ "bulk" \in S \cap Payload <=> "bulk" \in S
BY DEF Evaluate, Payload

\* A probe that no error names was received whole, ended with 0 and was not limited.
LEMMA ProbePassed ==
  ASSUME IInv, Assessed, NEW p \in Probes, \A e \in errors : e[1] # p
  PROVE  /\ p \in Evaluated /\ Complete(p) /\ p \in DOMAIN ran
         /\ p \in findings <=> IsDetection(p) /\ Hit(p)
<1>1. ProbeErrors(p) \subseteq errors
  BY DEF Assessed
<1>2. \A why : <<p, why>> \notin ProbeErrors(p)
  <2> SUFFICES ASSUME NEW why, <<p, why>> \in errors PROVE FALSE
    BY <1>1
  <2>1. <<p, why>>[1] = p
    OBVIOUS
  <2> QED
    BY <2>1
<1>3. p \in DOMAIN sections
  BY <1>2 DEF ProbeErrors, Parsed
<1>4. ~sections[p].unavailable
  BY <1>2, <1>3 DEF ProbeErrors, Parsed
<1>5. ~sections[p].partial /\ sections[p].status = 0
  BY <1>2, <1>3, <1>4 DEF ProbeErrors, Parsed, Error
<1>6. p # "os-release"
  BY ProbesAreIds
<1>7. /\ p \in DOMAIN ran /\ ran[p].status = 0
      /\ "partial" \notin Range(ran[p].body) /\ "unavailable" \notin Range(ran[p].body)
      /\ sections[p].output = Range(ran[p].body) \cap Payload
  BY <1>3, <1>4, <1>5, <1>6, SectionTells
<1>8. p \in Evaluated /\ Complete(p)
  BY <1>3, <1>4, <1>5, <1>7 DEF Evaluated, Parsed, Complete
<1>9. p \in findings <=> IsDetection(p) /\ Evaluate(sections[p].output)
  BY <1>8 DEF Assessed
<1> QED
  BY <1>7, <1>8, <1>9, EvidenceOnly DEF Hit

\* "Never a silent pass": a probe that no error names, of a target without a collector
\* error, was collected completely, and it has a finding exactly when what the target
\* printed is a hit.
THEOREM NeverASilentPass == Spec => []NoSilentPass
<1>1. IInv => NoSilentPass
  <2> SUFFICES ASSUME IInv, stage = "reported", NEW p \in Probes,
                      \A e \in errors : e[1] \notin {p, "collector"}
               PROVE  /\ Complete(p)
                      /\ p \in findings <=> IsDetection(p) /\ Hit(p)
                      /\ ~IsDetection(p) => \E o \in observations : o.id = p
    BY DEF NoSilentPass
  <2>1. ~Failed
    <3>1. <<"collector", "failed">>[1] = "collector"
      OBVIOUS
    <3> QED
      BY <3>1 DEF Failed
  <2>2. Assessed
    BY <2>1, ReportOf
  <2>3. p \in Evaluated /\ Complete(p) /\ (p \in findings <=> IsDetection(p) /\ Hit(p))
    BY <2>2, ProbePassed
  <2>4. ASSUME ~IsDetection(p) PROVE \E o \in observations : o.id = p
    <3> DEFINE o == [id |-> p, partial |-> sections[p].partial,
                     truncated |-> OverBudget(p) \/ sections[p].limits]
    <3>1. o \in observations
      BY <2>2, <2>3, <2>4 DEF Assessed
    <3>2. o.id = p
      OBVIOUS
    <3> QED
      BY <3>1, <3>2
  <2> QED
    BY <2>3, <2>4
<1> QED
  BY <1>1, InvHolds, PTL

\* Evidence is never presented as more than it is: what is found or observed comes from a
\* section received whole, and an observation admits every limit that applied to it.
THEOREM EvidenceKeepsItsQualifiers == Spec => []EvidenceIsQualified
<1>1. ASSUME IInv, NEW p \in findings PROVE Parsed(p) /\ Hit(p) /\ ran[p].status = 0
  <2>1. Assessed
    BY <1>1, ReportOf
  <2>2. /\ p \in DOMAIN sections /\ sections[p].status = 0
        /\ Evaluate(sections[p].output)
    BY <2>1 DEF Assessed, Evaluated, Parsed
  <2> QED
    BY <1>1, <2>2, SectionTells, EvidenceOnly DEF Hit, Parsed
<1>2. ASSUME IInv, NEW o \in observations
      PROVE  /\ o.partial <=> "partial" \in Range(ran[o.id].body)
             /\ o.truncated <=> Range(ran[o.id].body) \cap {"limit", "bulk"} # {}
             /\ \A other \in observations : other.id = o.id => other = o
  <2>1. Assessed
    BY <1>2, ReportOf
  <2> DEFINE about(p) == [id |-> p, partial |-> sections[p].partial,
                          truncated |-> OverBudget(p) \/ sections[p].limits]
  <2>2. \A x \in observations : \E p \in Evaluated : x = about(p)
    BY <2>1 DEF Assessed
  <2>3. PICK p \in Evaluated : o = about(p)
    BY <2>2
  <2>4. /\ o.id = p /\ o.partial = sections[p].partial
        /\ o.truncated = (OverBudget(p) \/ sections[p].limits)
    BY <2>3
  <2>5. /\ sections[p].output = Range(ran[p].body) \cap Payload
        /\ sections[p].partial = ("partial" \in Range(ran[p].body))
        /\ sections[p].limits = ("limit" \in Range(ran[p].body))
    BY <1>2, SectionTells DEF Evaluated, Parsed
  <2>6. OverBudget(p) <=> "bulk" \in Range(ran[p].body)
    BY <2>5, EvidenceOnly DEF OverBudget
  <2>7. o.partial <=> "partial" \in Range(ran[o.id].body)
    BY <2>4, <2>5, Zenon
  <2>8. o.truncated <=> "bulk" \in Range(ran[p].body) \/ "limit" \in Range(ran[p].body)
    BY <2>4, <2>5, <2>6, Zenon
  <2>9. ASSUME NEW other \in observations, other.id = o.id PROVE other = o
    <3>1. PICK q \in Evaluated : other = about(q)
      BY <2>2
    <3>2. q = p
      BY <2>4, <2>9, <3>1
    <3> QED
      BY <2>3, <3>1, <3>2
  <2> QED
    BY <2>4, <2>7, <2>8, <2>9
<1>3. IInv => EvidenceIsQualified
  BY <1>1, <1>2 DEF EvidenceIsQualified
<1> QED
  BY <1>3, InvHolds, PTL

\* The exit code of a report: the summary of one target.
LEMMA OneTarget ==
  ASSUME NEW strict \in BOOLEAN, NEW failOn \in Severity
  PROVE  ExitCode(strict, failOn) =
           IF \/ \E e \in errors : e[1] = "collector"
              \/ strict /\ errors # {}
             THEN 2
           ELSE IF Higher(NoSeverity, HighestSeverity) # NoSeverity
                   /\ Higher(NoSeverity, HighestSeverity) >= failOn THEN 1 ELSE 0
<1> DEFINE s == Include(EmptySummary(1), ReportVerdict)
<1>1. /\ ReportVerdict.severity = HighestSeverity
      /\ ReportVerdict.collector = (\E e \in errors : e[1] = "collector")
      /\ ReportVerdict.incomplete = (errors # {})
  BY DEF ReportVerdict
<1>2. /\ s.highest = Higher(NoSeverity, ReportVerdict.severity)
      /\ s.failed = (FALSE \/ ReportVerdict.collector)
      /\ s.incomplete = (FALSE \/ ReportVerdict.incomplete)
      /\ s.requested = 1 /\ s.completed = 0 + 1
  BY DEF Include, EmptySummary
<1>3. /\ s.failed <=> \E e \in errors : e[1] = "collector"
      /\ s.incomplete <=> errors # {}
      /\ s.highest = Higher(NoSeverity, HighestSeverity)
      /\ s.completed = s.requested
  <2> HIDE DEF s
  <2>1. s.completed = s.requested
    BY <1>2
  <2> QED
    BY <1>1, <1>2, <2>1, Zenon
<1> HIDE DEF s
<1>4. ExitCode(strict, failOn) = ReportExit(s, strict, failOn)
  BY DEF ExitCode, s
<1> QED
  BY <1>3, <1>4 DEF ReportExit, CoverageComplete

\* A target whose stdout crossed the limit is a collector failure, whatever the bytes kept
\* end in: exit code 2 also without --strict-collection.
THEOREM TruncationAlwaysFails == Spec => []TruncationIsFatal
<1>1. IInv => TruncationIsFatal
  <2> SUFFICES ASSUME IInv, stage = "reported", truncated PROVE ExitCode(FALSE, 5) = 2
    BY DEF TruncationIsFatal
  <2>1. Assessed
    BY ReportOf DEF Failed
  <2>2. <<"collector", "truncated">> \in errors
    BY <2>1 DEF Assessed, CollectorErrors, Error
  <2>3. <<"collector", "truncated">>[1] = "collector"
    OBVIOUS
  <2> QED
    <3>1. 5 \in Severity
      BY DEF Severity
    <3>2. \E e \in errors : e[1] = "collector"
      BY <2>2, <2>3
    <3> QED
      BY <3>1, <3>2, OneTarget
<1> QED
  BY <1>1, InvHolds, PTL

\* The severity of a report is the highest of its findings, 0 of none.
LEMMA HighestIs ==
  ASSUME findings \subseteq Probes
  PROVE  /\ HighestSeverity \in {NoSeverity} \cup Severity
         /\ \A p \in findings : Severities[p] <= HighestSeverity
         /\ HighestSeverity = NoSeverity \/ \E p \in findings : Severities[p] = HighestSeverity
<1> DEFINE Is(s) == /\ \A p \in findings : Severities[p] <= s
                    /\ s = NoSeverity \/ \E p \in findings : Severities[p] = s
<1>1. \A p \in findings : Severities[p] \in 0..5
  BY SeveritiesAssumption DEF NoSeverity, Severity
<1>2. \E s \in 0..5 : Is(s)
  <2>1. CASE \E p \in findings : Severities[p] = 5
    BY <1>1, <2>1
  <2>2. CASE ~(\E p \in findings : Severities[p] = 5) /\ \E p \in findings : Severities[p] = 4
    <3>1. \A p \in findings : Severities[p] <= 4
      BY <1>1, <2>2
    <3> QED
      BY <2>2, <3>1
  <2>3. CASE /\ \A p \in findings : Severities[p] <= 3
             /\ \E p \in findings : Severities[p] = 3
    BY <2>3
  <2>4. CASE /\ \A p \in findings : Severities[p] <= 2
             /\ \E p \in findings : Severities[p] = 2
    BY <2>4
  <2>5. CASE /\ \A p \in findings : Severities[p] <= 1
             /\ \E p \in findings : Severities[p] = 1
    BY <2>5
  <2>6. CASE \A p \in findings : Severities[p] <= 0
    BY <2>6 DEF NoSeverity
  <2>7. CASE \A p \in findings : Severities[p] \notin {4, 5}
    BY <1>1, <2>3, <2>4, <2>5, <2>6, <2>7
  <2> QED
    BY <2>1, <2>2, <2>7
<1>3. {NoSeverity} \cup Severity = 0..5
  BY DEF NoSeverity, Severity
<1>4. HighestSeverity = CHOOSE s \in {NoSeverity} \cup Severity : Is(s)
  BY DEF HighestSeverity
<1> HIDE DEF Is
<1>5. HighestSeverity \in 0..5 /\ Is(HighestSeverity)
  BY <1>2, <1>3, <1>4
<1> QED
  BY <1>3, <1>5 DEF Is

\* When no error is reported, every section of the script ran and was received.
LEMMA NoErrorIsComplete ==
  ASSUME IInv, Assessed, AllRead, errors = {}
  PROVE  /\ DOMAIN ran = Ids /\ ~truncated /\ host.known
         /\ \A p \in Probes \cup {"os-release"} : Complete(p)
         /\ ran["capabilities"].status = 0
<1>1. /\ OsReleaseErrors = {} /\ CapabilityErrors = {} /\ CollectorErrors = {}
  BY DEF Assessed
<1>2. ~truncated
  BY <1>1 DEF CollectorErrors, Error
<1>3. "capabilities" \in DOMAIN sections /\ sections["capabilities"].status = 0
  BY <1>1 DEF CapabilityErrors, Error, Parsed
<1>4. /\ "os-release" \in DOMAIN sections /\ sections["os-release"].status = 0
      /\ ~sections["os-release"].unavailable
  BY <1>1 DEF OsReleaseErrors, Error, Parsed
<1>5. "capabilities" \in DOMAIN ran /\ ran["capabilities"].status = 0
  BY <1>3, SectionTells
<1>6. Complete("os-release") /\ "os-release" \in DOMAIN ran
  <2>1. /\ "os-release" \in DOMAIN ran /\ ran["os-release"].status = 0
        /\ "unavailable" \notin Range(ran["os-release"].body)
    BY <1>4, SectionTells
  <2>2. "partial" \notin Range(ran["os-release"].body)
    BY <2>1 DEF IInv, Types
  <2> QED
    BY <2>1, <2>2 DEF Complete
<1>7. \A p \in Probes : Complete(p) /\ p \in DOMAIN ran
  BY ProbePassed
<1>8. Begun \in 2..Len(Order) /\ "meta" \in DOMAIN ran
  <2>1. /\ DOMAIN ran = {Order[k] : k \in 1..Begun} /\ Begun \in 0..Len(Order)
        /\ Len(Order) \in Nat /\ Len(Order) >= 3
    BY OrderFacts DEF IInv, InOrder
  <2>2. PICK k \in 1..Begun : Order[k] = "os-release"
    BY <1>6, <2>1
  <2>3. k = 2
    <3>1. k \in 1..Len(Order) /\ 2 \in 1..Len(Order)
      BY <2>1
    <3> QED
      BY <2>2, <3>1, OrderFacts
  <2>4. Begun \in 2..Len(Order) /\ 1 \in 1..Begun
    BY <2>1, <2>3
  <2> QED
    BY <2>1, <2>4, OrderFacts
<1>9. DOMAIN ran = Ids
  <2>1. DOMAIN ran \subseteq Ids
    BY TypeFacts DEF IInv
  <2> QED
    BY <1>5, <1>6, <1>7, <1>8, <2>1, ProbesAreIds
<1>10. host.known
  <2>1. "meta" # Order[Begun]
    <3>1. 1 \in 1..Len(Order) /\ Begun \in 1..Len(Order) /\ Begun # 1
      BY <1>8, OrderFacts
    <3> QED
      BY <3>1, OrderFacts
  <2>2. PICK b \in 1..Len(stream) : Whole("meta", b)
    BY <1>8, <2>1 DEF IInv, EarlierWhole
  <2>3. b + LastOf(ran["meta"]) <= at
    BY <2>2 DEF Whole, AllRead
  <2>4. "meta" \in DOMAIN sections
    BY <1>8, <2>2, <2>3 DEF IInv, ReadWhole
  <2> QED
    BY <2>4 DEF AllRead
<1> QED
  BY <1>2, <1>5, <1>6, <1>7, <1>9, <1>10

\* With --strict-collection an exit code of 0 or 1 means that every section of the script
\* ran and arrived, and 1 that what some probe printed is a hit at the threshold: for any
\* probes, output, cut of the session and --fail-on.
THEOREM StrictExitMeansComplete == Spec => []StrictExitIsComplete
<1>1. IInv => StrictExitIsComplete
  <2> SUFFICES ASSUME IInv, stage = "reported", NEW failOn \in Severity,
                      ExitCode(TRUE, failOn) # 2
               PROVE  /\ DOMAIN ran = Ids /\ ~truncated /\ host.known
                      /\ \A p \in Probes \cup {"os-release"} : Complete(p)
                      /\ ran["capabilities"].status = 0
                      /\ (ExitCode(TRUE, failOn) = 1) <=>
                           (\E p \in Probes : Hit(p) /\ Severities[p] >= failOn)
    BY DEF StrictExitIsComplete
  <2>1. errors = {}
    BY OneTarget
  <2>2. Assessed /\ AllRead
    BY <2>1, ReportOf DEF Failed
  <2>3. \A p \in Probes : p \in findings <=> IsDetection(p) /\ Hit(p)
    BY <2>1, <2>2, ProbePassed
  <2>4. findings \subseteq Probes
    BY <2>2 DEF Assessed, Evaluated
  <2> DEFINE h == HighestSeverity
  <2>5. /\ h \in 0..5 /\ \A p \in findings : Severities[p] <= h
        /\ h = 0 \/ \E p \in findings : Severities[p] = h
    BY <2>4, HighestIs DEF NoSeverity, Severity
  <2>6. failOn \in 1..5 /\ \A p \in Probes : Severities[p] \in 0..5
    BY SeveritiesAssumption DEF NoSeverity, Severity
  <2>7. ExitCode(TRUE, failOn) = IF h >= failOn THEN 1 ELSE 0
    <3> HIDE DEF h
    <3>1. Higher(NoSeverity, h) = h /\ (h >= failOn => h # NoSeverity)
      BY <2>5, <2>6 DEF Higher, NoSeverity
    <3>2. ~\E e \in errors : e[1] = "collector"
      BY <2>1
    <3> QED
      BY <2>1, <3>1, <3>2, OneTarget DEF h
  <2> HIDE DEF h
  <2>8. ASSUME h >= failOn PROVE \E p \in Probes : Hit(p) /\ Severities[p] >= failOn
    <3>1. PICK p \in findings : Severities[p] = h
      BY <2>5, <2>6, <2>8
    <3> QED
      BY <2>3, <2>4, <2>8, <3>1
  <2>9. ASSUME NEW p \in Probes, Hit(p), Severities[p] >= failOn PROVE h >= failOn
    <3>1. IsDetection(p)
      BY <2>6, <2>9 DEF IsDetection, NoSeverity
    <3>2. Severities[p] <= h
      BY <2>3, <2>5, <2>9, <3>1
    <3> QED
      BY <2>5, <2>6, <2>9, <3>2
  <2>10. (ExitCode(TRUE, failOn) = 1) <=>
           (\E p \in Probes : Hit(p) /\ Severities[p] >= failOn)
    BY <2>7, <2>8, <2>9
  <2> QED
    BY <2>1, <2>2, <2>10, NoErrorIsComplete
<1> QED
  BY <1>1, InvHolds, PTL
====
