---- MODULE Viewer ----
(***************************************************************************)
(* The viewer of --format tui (Viewer in tui.rs) and the loop that drives  *)
(* it: keys move the selection over the rows of a report, expand rows and  *)
(* change targets, while the terminal may be resized at any time. A frame  *)
(* wraps the rows to the width it finds and scrolls to the selected one.   *)
(*                                                                         *)
(* Text is a number of columns. In a wrapped body only the first line of a *)
(* row begins with + or -, which is so at widths above Indent, where       *)
(* continuation lines are indented.                                        *)
(***************************************************************************)
EXTENDS Integers, SequencesExt

CONSTANTS
  Reports,   \* a sequence: the header's lines and the rows of each report, a row
             \* being the columns of its lines, closed and open
  Help,      \* columns of the lines of the help
  Sizes      \* <<width, height>> of the terminal

Indent == 4

ASSUME ReportsAssumption ==
  /\ Reports # <<>>
  /\ Reports \in Seq([header : Nat \ {0}, rows : Seq([closed : Seq(Nat), open : Seq(Nat)])])
  /\ \A t \in DOMAIN Reports : \A r \in DOMAIN Reports[t].rows :
       LET row == Reports[t].rows[r] IN
       Len(row.closed) > 0 /\ Len(row.open) > 0
ASSUME HelpAssumption == Help \in Seq(Nat)
ASSUME SizesAssumption == Sizes \subseteq (Nat \ 0..Indent) \X (Nat \ {0})

VARIABLES
  size, lastSize, dirty, pc,          \* the terminal, and event_loop
  target, selected, scroll, expanded, help, page,   \* Viewer; page: last_body_height
  shown      \* the last frame: body lines above it, its body height, the line highlighted
vars == <<size, lastSize, dirty, pc, target, selected, scroll, expanded, help, page, shown>>
loop == <<size, lastSize, pc, shown>>

NoLine == -1
Least(a, b) == IF a < b THEN a ELSE b
Most(a, b) == IF a < b THEN b ELSE a
Monus(a, b) == Most(a - b, 0)      \* saturating_sub

Report == Reports[target]
Rows == Report.rows
RowCount == Len(Rows)

NothingExpanded == [t \in DOMAIN Reports |-> {}]
NoFrame == [top |-> 0, height |-> 0, highlight |-> NoLine]

Init ==
  /\ size \in Sizes /\ lastSize = <<0, 0>> /\ dirty = TRUE /\ pc = "check"
  /\ target = 1 /\ selected = 0 /\ scroll = 0
  /\ expanded = NothingExpanded /\ help = FALSE /\ page = 10
  /\ shown = NoFrame

-----------------------------------------------------------------------------
(* The body of a frame, as a sequence that tells which lines begin a row *)

\* wrap_line: the number of lines.
Wrapped(columns, width) ==
  IF columns <= width THEN 1
  ELSE 1 + (columns - width + (width - Indent) - 1) \div (width - Indent)
WrappedAll(lines, width) == FoldLeft(LAMBDA n, columns : n + Wrapped(columns, width), 0, lines)

RowLines(r, width) ==
  WrappedAll(IF r - 1 \in expanded[target] THEN Rows[r].open ELSE Rows[r].closed, width)

\* body_lines (or help_lines) and wrap_lines. A report without rows has one line.
Body(width) ==
  IF help THEN [k \in 1..WrappedAll(Help, width) |-> FALSE]
  ELSE IF RowCount = 0 THEN <<FALSE>>
  ELSE FlattenSeq([r \in 1..RowCount |-> [k \in 1..RowLines(r, width) |-> k = 1]])

\* selected_anchor and selected_span count the lines that begin a row. Lines of the
\* body are numbered from 0, like scroll.
Before(body, k) == {j \in 1..k : body[j]}
Anchors(body) == {k \in 1..Len(body) : body[k] /\ Cardinality(Before(body, k - 1)) = selected}
HasAnchor(body) == RowCount > 0 /\ Anchors(body) # {}
SpanStart(body) == (CHOOSE k \in Anchors(body) : TRUE) - 1
SpanEnd(body) ==
  LET later == {k \in 1..Len(body) : body[k] /\ k > SpanStart(body) + 1}
  IN IF later = {} THEN Len(body) ELSE (CHOOSE k \in later : \A j \in later : k <= j) - 1

\* Mutant of Follow: the old offset is not brought back into a shorter body.
FollowUnclipped(body, height) ==
  IF height = 0 \/ body = <<>> THEN 0
  ELSE IF ~HasAnchor(body) THEN scroll
  ELSE LET start == SpanStart(body)
           above == Least(scroll, start)
       IN IF SpanEnd(body) > above + height
            THEN Least(Monus(SpanEnd(body), height), start) ELSE above

\* follow_selection: the scroll offset that shows the selected row.
Follow(body, height) ==
  IF height = 0 \/ body = <<>> THEN 0
  ELSE LET clipped == Least(scroll, Monus(Len(body), height)) IN
       IF ~HasAnchor(body) THEN clipped
       ELSE LET start == SpanStart(body)
                above == Least(clipped, start)
            IN IF SpanEnd(body) > above + height
                 THEN Least(Monus(SpanEnd(body), height), start) ELSE above

-----------------------------------------------------------------------------
(* event_loop *)

\* frame and selected_line, when a key was handled or the size has changed.
Draw ==
  /\ pc = "check"
  /\ pc' = "read" /\ lastSize' = size /\ dirty' = FALSE
  /\ IF dirty \/ size # lastSize
       THEN LET height == Monus(size[2], Report.header + 1)
                body == Body(size[1])
                line == Report.header + Monus(SpanStart(body), scroll')
            IN /\ page' = Most(height, 1)
               /\ scroll' = Follow(body, height)
               /\ shown' = [top |-> Least(scroll', Monus(Len(body), Most(height, 1))),
                            height |-> height,
                            highlight |-> IF ~help /\ HasAnchor(body) /\ line < size[2] - 1
                                            THEN line ELSE NoLine]
       ELSE UNCHANGED <<page, scroll, shown>>
  /\ UNCHANGED <<size, target, selected, expanded, help>>

\* Nothing was typed for a while.
NoKey ==
  /\ pc = "read"
  /\ pc' = "check"
  /\ UNCHANGED <<size, lastSize, dirty, target, selected, scroll, expanded, help, page, shown>>

Resize ==
  /\ pc # "quit"
  /\ size' \in Sizes \ {size}
  /\ UNCHANGED <<lastSize, dirty, pc, target, selected, scroll, expanded, help, page, shown>>

-----------------------------------------------------------------------------
(* handle *)

Reading == pc = "read" /\ pc' = "check" /\ dirty' = TRUE /\ UNCHANGED <<size, lastSize, shown>>
Browsing == Reading /\ ~help
Place == <<target, selected, scroll>>

\* The loop ends, and with it the viewer: nothing of it is left.
Dropped ==
  /\ pc' = "quit" /\ lastSize' = <<0, 0>> /\ UNCHANGED <<size, dirty>>
  /\ target' = 1 /\ selected' = 0 /\ scroll' = 0 /\ expanded' = NothingExpanded
  /\ help' = FALSE /\ page' = 10 /\ shown' = NoFrame

Quit == pc = "read" /\ Dropped

\* Under the help Esc closes it, and every key but q and Ctrl-C does nothing else.
HelpKey ==
  /\ Reading /\ help
  /\ help' \in BOOLEAN
  /\ UNCHANGED <<target, selected, scroll, expanded, page>>

OpenHelp ==
  /\ Browsing
  /\ help' = TRUE
  /\ UNCHANGED <<target, selected, scroll, expanded, page>>

\* move_selection: by one row, or by a page.
MoveSelection ==
  /\ Browsing
  /\ \E delta \in {1, -1, page, -page} :
       selected' = Most(0, Least(selected + delta, RowCount - 1))
  /\ UNCHANGED <<target, scroll, expanded, help, page>>

FirstRow ==
  /\ Browsing
  /\ selected' = 0 /\ scroll' = 0
  /\ UNCHANGED <<target, expanded, help, page>>

LastRow ==
  /\ Browsing
  /\ selected' = Monus(RowCount, 1)
  /\ UNCHANGED <<target, scroll, expanded, help, page>>

ToggleExpanded ==
  /\ Browsing
  /\ expanded' = IF RowCount = 0 THEN expanded
                 ELSE [expanded EXCEPT ![target] = IF selected \in @ THEN @ \ {selected}
                                                   ELSE @ \cup {selected}]
  /\ UNCHANGED <<Place, help, page>>

ShiftTarget ==
  /\ Browsing
  /\ \E delta \in {1, -1} : target' = ((target - 1 + delta) % Len(Reports)) + 1
  /\ selected' = 0 /\ scroll' = 0
  /\ UNCHANGED <<expanded, help, page>>

\* Any other character.
OtherKey ==
  /\ Browsing
  /\ UNCHANGED <<Place, expanded, help, page>>

Stay == \/ HelpKey \/ OpenHelp \/ MoveSelection \/ FirstRow \/ LastRow
        \/ ToggleExpanded \/ ShiftTarget \/ OtherKey

-----------------------------------------------------------------------------
(* Properties *)

\* The first line of the selected row in the body, from the rows above it.
FirstLine == FoldLeft(LAMBDA n, r : n + RowLines(r, lastSize[1]), 0, [r \in 1..selected |-> r])

\* "The selected row is kept in view": whatever was resized, expanded or left behind on
\* another target or page, every frame with room for a body line highlights the first
\* line of the selected row and nothing else, shows all of that row if it fits, and
\* leaves no room below the body unused while lines are hidden above.
SelectionIsShown ==
  (pc = "read" /\ ~help /\ RowCount > 0) =>
    LET end == FirstLine + RowLines(selected + 1, lastSize[1])
        bottom == shown.top + shown.height
    IN IF shown.height = 0 THEN shown.highlight = NoLine
       ELSE /\ selected < RowCount
            /\ shown.top <= FirstLine /\ FirstLine < bottom
            /\ shown.highlight = Report.header + FirstLine - shown.top
            /\ end - FirstLine <= shown.height => end <= bottom
            /\ shown.top > 0 => bottom <= Len(Body(lastSize[1]))
====
