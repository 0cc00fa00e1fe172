---- MODULE TuiSessionProofs ----
(***************************************************************************)
(* The session of TuiSession, for all reports, windows and keys. What the  *)
(* main thread and the interrupt watcher do to the terminal in any order   *)
(* leaves it restored, and every frame of the viewer shows the selection.  *)
(***************************************************************************)
EXTENDS TuiSession, SequenceLemmas

Viewing == {"view", "read_key"}
Entering == {"scan", "set_raw", "set_screen", "save", "register"}
Dropping == {"unregister", "restore_screen", "restore_tty", "unsave"}
Ended == {"exit", "gone"}
Restored == Guard!Restored

\* Where the threads are, and that nobody saves other settings than the original ones.
Places ==
  /\ main \in Entering \cup Viewing \cup Dropping \cup Ended
  /\ watcher \in {"sigwait", "take_cleanup", "take_saved", "restore_screen", "restore_tty",
                  "raise", "gone"}
  /\ cleanup \in BOOLEAN /\ taken \in BOOLEAN /\ foundViewing \in BOOLEAN
  /\ process = "exited" => main = "gone"
  /\ process = "signalled" => watcher = "gone"
  /\ savedTty \in {"none", "cooked"}

\* The main thread leaves the terminal as it was, before it enters and after it has
\* dropped the guard, whatever the watcher does to it.
MainRestores ==
  /\ main \in {"scan", "set_raw", "unsave", "exit", "gone"} => Restored
  /\ main \in {"set_screen", "restore_tty"} => screen = "normal"

\* The cleanup is there while the reports are viewed until the watcher takes it, once,
\* and the settings stay for it until the main thread has restored them itself.
CleanupIsThere ==
  /\ main \in Viewing => cleanup \/ taken
  /\ cleanup => main \in Viewing \cup {"unregister"} /\ ~taken
  /\ main = "register" \/ cleanup => savedTty # "none"
  /\ watcher = "take_saved" => savedTty # "none" \/ main \in Ended

\* What the watcher has taken it brings to an end.
WatcherRestores ==
  /\ watcher \in {"sigwait", "take_cleanup"} => ~taken
  /\ watcher \in {"take_saved", "restore_screen", "restore_tty"} => taken
  /\ taken => main \notin Entering
  /\ watcher \in {"restore_screen", "restore_tty"} => borrowed = "cooked"
  /\ watcher = "restore_tty" => screen = "normal"
  /\ watcher \in {"raise", "gone"} /\ taken => Restored

\* A signal found while the reports are viewed finds the cleanup.
ViewingIsKnown ==
  /\ watcher = "sigwait" => ~foundViewing
  /\ foundViewing => main \notin Entering
  /\ foundViewing /\ main \in Viewing /\ watcher \in {"raise", "gone"} => taken

Inv == Places /\ MainRestores /\ CleanupIsThere /\ WatcherRestores /\ ViewingIsKnown

-----------------------------------------------------------------------------
\* Before the scan ends the terminal is as the user left it.
LEMMA InitInv == SessionInit => Inv
  BY DEF SessionInit, Guard!Init, Guard!Original, Inv, Places, MainRestores, CleanupIsThere,
         WatcherRestores, ViewingIsKnown, Restored, Guard!Restored, Viewing, Entering,
         Dropping, Ended

\* Every step of the main thread and of the interrupt watcher keeps the invariant.
LEMMA StepInv == Inv /\ Guard!Next => Inv'
<1> SUFFICES ASSUME Inv, Guard!Next PROVE Inv'
  OBVIOUS
<1> USE DEF Inv, Places, MainRestores, CleanupIsThere, WatcherRestores, ViewingIsKnown,
            Restored, Guard!Restored, Guard!Original, Viewing, Entering, Dropping, Ended,
            Guard!Does, Guard!Watches, Guard!terminal, Guard!registry, Guard!watch,
            Guard!history
<1>1. CASE Guard!ScanDone
  BY <1>1 DEF Guard!ScanDone
<1>2. CASE Guard!SetRaw
  BY <1>2 DEF Guard!SetRaw
<1>3. CASE Guard!SetScreen
  BY <1>3 DEF Guard!SetScreen
<1>4. CASE Guard!Save
  BY <1>4 DEF Guard!Save
<1>5. CASE Guard!Register
  BY <1>5 DEF Guard!Register
<1>6. CASE Guard!Draw
  BY <1>6 DEF Guard!Draw
<1>7. CASE Guard!ReadKey
  BY <1>7 DEF Guard!ReadKey
<1>8. CASE Guard!LoopEnds
  BY <1>8 DEF Guard!LoopEnds
<1>9. CASE Guard!Unregister
  BY <1>9 DEF Guard!Unregister
<1>10. CASE Guard!DropRestoresScreen
  BY <1>10 DEF Guard!DropRestoresScreen
<1>11. CASE Guard!DropRestoresTty
  BY <1>11 DEF Guard!DropRestoresTty
<1>12. CASE Guard!Unsave
  BY <1>12 DEF Guard!Unsave
<1>13. CASE Guard!ProcessExits
  BY <1>13 DEF Guard!ProcessExits
<1>14. CASE Guard!Signal
  BY <1>14 DEF Guard!Signal
<1>15. CASE Guard!TakeCleanup
  BY <1>15 DEF Guard!TakeCleanup
<1>16. CASE Guard!TakeSaved
  BY <1>16 DEF Guard!TakeSaved
<1>17. CASE Guard!WatcherRestoresScreen
  BY <1>17 DEF Guard!WatcherRestoresScreen
<1>18. CASE Guard!WatcherRestoresTty
  BY <1>18 DEF Guard!WatcherRestoresTty
<1>19. CASE Guard!Raise
  BY <1>19 DEF Guard!Raise
<1> HIDE DEF Inv
<1> QED
  BY <1>1, <1>2, <1>3, <1>4, <1>5, <1>6, <1>7, <1>8, <1>9, <1>10, <1>11, <1>12, <1>13,
     <1>14, <1>15, <1>16, <1>17, <1>18, <1>19
  DEF Guard!Next, Guard!Main, Guard!Enter, Guard!Leave, Guard!Watcher

\* A step of the session is one of the guard or leaves the terminal's part alone.
LEMMA GuardSteps == [SessionNext]_session => Guard!Next \/ UNCHANGED guardVars
  BY DEF SessionNext, session, Frame, Key, Leave, Abort, ResizeWindow, Around, Guard!Next,
         Guard!Main

\* The invariant speaks of the guard's variables only.
LEMMA InvStays == Inv /\ UNCHANGED guardVars => Inv'
  BY DEF guardVars, Inv, Places, MainRestores, CleanupIsThere, WatcherRestores,
         ViewingIsKnown, Restored, Guard!Restored

\* What the viewer shows and which keys are pressed makes no difference to the terminal.
LEMMA Invariance == SessionSpec => []Inv
<1>1. Inv /\ [SessionNext]_session => Inv'
  BY StepInv, GuardSteps, InvStays
<1> QED
  BY InitInv, <1>1, PTL DEF SessionSpec

-----------------------------------------------------------------------------
\* When the process ends by itself (exit), because TerminalGuard has been dropped or could
\* not be made, the terminal has its own settings and screen back, even with the watcher
\* in the middle of restoring them too.
THEOREM TerminalIsRestored == SessionSpec => []ExitRestores
<1>1. Inv => ExitRestores
  BY DEF Inv, Places, MainRestores, Restored, ExitRestores, Guard!ExitRestores
<1> QED
  BY Invariance, <1>1, PTL

\* Whenever a cleanup is registered the settings it needs are saved, and when the watcher
\* has taken it the signal is raised only after the terminal is restored, although drop
\* may unregister, restore and unsave between any two of the watcher's steps.
THEOREM CleanupHonoured == SessionSpec => []CleanupIsHonoured
<1>1. Inv => CleanupIsHonoured
  BY DEF Inv, Places, CleanupIsThere, WatcherRestores, Restored, CleanupIsHonoured,
         Guard!CleanupIsHonoured
<1> QED
  BY Invariance, <1>1, PTL

\* An interrupt that arrives while the reports are viewed ends the process with the
\* terminal restored: register comes before the first frame, and the watcher finds it.
THEOREM ViewerRestored == SessionSpec => []ViewerIsRestored
<1>1. Inv => ViewerIsRestored
  BY DEF Inv, Places, WatcherRestores, ViewingIsKnown, Restored, Viewing, ViewerIsRestored,
         Guard!ViewerIsRestored
<1> QED
  BY Invariance, <1>1, PTL

-----------------------------------------------------------------------------
(* The lines of rows *)

\* The viewer is on one of the targets, and on one of its rows if it has any.
Browses ==
  /\ target \in DOMAIN Reports /\ selected \in Nat /\ scroll \in Nat /\ page \in Nat \ {0}
  /\ help \in BOOLEAN /\ dirty \in BOOLEAN
  /\ selected = 0 \/ selected < RowCount

\* Rows and their lines have their types.
LEMMA RowTypes ==
  ASSUME target \in DOMAIN Reports
  PROVE  /\ Report.header \in Nat \ {0} /\ RowCount \in Nat /\ DOMAIN Rows = 1..RowCount
         /\ \A r \in 1..RowCount :
              /\ Rows[r].closed \in Seq(Nat) /\ Rows[r].closed # <<>>
              /\ Rows[r].open \in Seq(Nat) /\ Rows[r].open # <<>>
<1> DEFINE Row == [closed : Seq(Nat), open : Seq(Nat)]
           All == [header : Nat \ {0}, rows : Seq(Row)]
<1>1. Report \in All
  <2>1. Reports \in Seq(All)
    BY ReportsAssumption
  <2> HIDE DEF All
  <2>2. target \in 1..Len(Reports)
    BY <2>1
  <2> QED BY <2>1, <2>2 DEF Report
<1>2. Report.header \in Nat \ {0} /\ Rows \in Seq(Row)
  BY <1>1 DEF Rows
<1> HIDE DEF Row
<1>3. RowCount \in Nat /\ DOMAIN Rows = 1..RowCount /\ \A r \in 1..RowCount : Rows[r] \in Row
  BY <1>2 DEF RowCount
<1>4. ASSUME NEW r \in 1..RowCount
      PROVE  /\ Rows[r].closed \in Seq(Nat) /\ Rows[r].closed # <<>>
             /\ Rows[r].open \in Seq(Nat) /\ Rows[r].open # <<>>
  <2>1. Len(Rows[r].closed) > 0 /\ Len(Rows[r].open) > 0
    BY <1>3, ReportsAssumption DEF Rows, Report
  <2>2. Rows[r].closed \in Seq(Nat) /\ Rows[r].open \in Seq(Nat)
    BY <1>3 DEF Row
  <2>3. <<>> \in Seq(Nat) /\ Len(<<>>) = 0
    OBVIOUS
  <2> QED BY <2>1, <2>2, <2>3
<1> QED BY <1>2, <1>3, <1>4

\* Text wraps to at least one line.
LEMMA WrappedType ==
  ASSUME NEW columns \in Nat, NEW width \in Nat, width > Indent
  PROVE  Wrapped(columns, width) \in Nat \ {0}
<1>1. CASE columns <= width
  BY <1>1 DEF Wrapped
<1>2. CASE columns > width
  <2> DEFINE a == columns - width + (width - Indent) - 1
             b == width - Indent
  <2>1. a \in Nat /\ b \in Nat \ {0}
    BY <1>2 DEF Indent
  <2>2. \A x \in Nat, y \in Nat \ {0} : x \div y \in Nat
    OBVIOUS
  <2>3. Wrapped(columns, width) = 1 + (a \div b)
    BY <1>2 DEF Wrapped
  <2> HIDE DEF a, b
  <2> QED BY <2>1, <2>2, <2>3
<1> QED BY <1>1, <1>2

\* So do lines, if there are any.
LEMMA WrappedAllType ==
  ASSUME NEW lines \in Seq(Nat), NEW width \in Nat, width > Indent
  PROVE  /\ WrappedAll(lines, width) \in Nat
         /\ lines # <<>> => WrappedAll(lines, width) # 0
<1> DEFINE n == Len(lines)
           g == [k \in 1..n |-> Wrapped(lines[k], width)]
           Iter(f) == f = [x \in SUBSET DOMAIN lines |->
                             IF x = {} THEN 0
                             ELSE f[x \ {Max(x)}] + Wrapped(lines[Max(x)], width)]
           iter == CHOOSE f : Iter(f)
<1>1. n \in Nat /\ DOMAIN lines = 1..n /\ \A k \in 1..n : lines[k] \in Nat
  OBVIOUS
<1>2. \A k \in 1..n : g[k] \in Nat \ {0}
  BY <1>1, WrappedType
<1>3. g \in [1..n -> Nat] /\ \A k \in 1..n : g[k] = Wrapped(lines[k], width)
  BY <1>2
<1> HIDE DEF g
<1>4. PICK f \in [SUBSET (1..n) -> Nat] : Summing(f, n, g)
  BY <1>1, <1>3, SumExists
<1>5. Iter(f)
  <2>1. \A x \in SUBSET (1..n) : x # {} => Max(x) \in 1..n
    BY <1>1, MaxPlace
  <2>2. \A x \in SUBSET (1..n) : f[x] = IF x = {} THEN 0
                                        ELSE f[x \ {Max(x)}] + Wrapped(lines[Max(x)], width)
    BY <1>3, <1>4, <2>1 DEF Summing
  <2>3. f = [x \in SUBSET (1..n) |-> f[x]]
    BY <1>4
  <2> QED BY <1>1, <2>2, <2>3
<1>6. Iter(iter)
  <2> HIDE DEF Iter
  <2> QED BY <1>5
<1>7. WrappedAll(lines, width) = iter[DOMAIN lines]
  BY DEF WrappedAll, FoldLeft, MapThenFoldSet
<1> HIDE DEF iter
<1>8. Summing(iter, n, g)
  <2>1. \A x \in SUBSET (1..n) : x # {} => Max(x) \in 1..n
    BY <1>1, MaxPlace
  <2> QED BY <1>1, <1>3, <1>6, <2>1 DEF Summing
<1>9. /\ iter[1..n] \in Nat
      /\ n # 0 => iter[1..n] = iter[1..n-1] + g[n] /\ iter[1..n-1] \in Nat
  <2>1. /\ \A k \in 1..n : iter[1..k] = iter[1..k-1] + g[k]
        /\ \A k \in 0..n : iter[1..k] \in Nat
    BY <1>1, <1>3, <1>8, SumSteps
  <2>2. n \in 0..n /\ (n # 0 => n \in 1..n /\ n - 1 \in 0..n)
    BY <1>1
  <2> QED BY <2>1, <2>2
<1>10. lines # <<>> => n # 0
  OBVIOUS
<1>11. n # 0 => g[n] \in Nat \ {0}
  BY <1>1, <1>2 DEF g
<1> QED BY <1>1, <1>7, <1>9, <1>10, <1>11

\* Every row has a line.
LEMMA RowLinesType ==
  ASSUME Browses, NEW width \in Nat, width > Indent, NEW r \in 1..RowCount
  PROVE  RowLines(r, width) \in Nat \ {0}
<1>1. /\ Rows[r].closed \in Seq(Nat) /\ Rows[r].closed # <<>>
      /\ Rows[r].open \in Seq(Nat) /\ Rows[r].open # <<>>
  BY RowTypes DEF Browses
<1> QED BY <1>1, WrappedAllType DEF RowLines

-----------------------------------------------------------------------------
(* The rows in the body *)

\* The rows stand in the body one after the other, row r after the first off[r] lines,
\* and a line begins a row where one starts and nowhere else.
Laid(body, off, width) ==
  /\ body \in Seq(BOOLEAN)
  /\ off \in [1..RowCount+1 -> Nat] /\ off[1] = 0 /\ Len(body) = off[RowCount + 1]
  /\ \A r \in 1..RowCount : off[r + 1] = off[r] + RowLines(r, width)
  /\ \A r \in 1..RowCount : off[r] < off[r + 1] /\ off[r + 1] <= Len(body)
  /\ \A q, r \in 1..RowCount : q < r => off[q + 1] <= off[r]
  /\ \A k \in 1..Len(body) : body[k] <=> \E r \in 1..RowCount : k = off[r] + 1

\* The body of a report with rows.
LEMMA BodyLaid ==
  ASSUME Browses, ~help, RowCount > 0, NEW width \in Nat, width > Indent
  PROVE  \E off : Laid(Body(width), off, width)
<1> DEFINE n == RowCount
           row(r) == [k \in 1..RowLines(r, width) |-> k = 1]
           ss == [r \in 1..n |-> row(r)]
           body == Body(width)
<1>1. n \in Nat \ {0}
  BY RowTypes DEF Browses
<1>2. \A r \in 1..n : RowLines(r, width) \in Nat \ {0}
  BY RowLinesType
<1>3. \A r \in 1..n : row(r) \in Seq(BOOLEAN) /\ Len(row(r)) = RowLines(r, width)
  <2> SUFFICES ASSUME NEW r \in 1..n
               PROVE  row(r) \in Seq(BOOLEAN) /\ Len(row(r)) = RowLines(r, width)
    OBVIOUS
  <2> DEFINE m == RowLines(r, width)
  <2>1. m \in Nat
    BY <1>2
  <2> HIDE DEF m
  <2>2. [k \in 1..m |-> k = 1] \in Seq(BOOLEAN) /\ Len([k \in 1..m |-> k = 1]) = m
    BY <2>1
  <2> QED BY <2>2 DEF m
<1>4. \A r \in 1..n : \A k \in 1..RowLines(r, width) : row(r)[k] = (k = 1)
  OBVIOUS
<1>5. /\ ss \in Seq(Seq(BOOLEAN)) /\ Len(ss) = n
      /\ \A r \in 1..n : Len(ss[r]) = RowLines(r, width)
      /\ \A r \in 1..n : \A k \in 1..RowLines(r, width) : ss[r][k] = (k = 1)
  <2>1. \A r \in 1..n : ss[r] = row(r)
    OBVIOUS
  <2> HIDE DEF row
  <2>2. ss \in Seq(Seq(BOOLEAN)) /\ Len(ss) = n
    BY <1>1, <1>3
  <2> QED BY <1>3, <1>4, <2>1, <2>2
<1>6. body = FlattenSeq(ss)
  BY <1>1 DEF Body
<1> HIDE DEF ss, row, body
<1>7. body \in Seq(BOOLEAN)
  BY <1>5, <1>6, FlattenLays
<1>8. PICK off : Lays(ss, n, body, off)
  BY <1>5, <1>6, FlattenLays
<1>9. /\ off \in [1..n+1 -> Nat] /\ off[1] = 0 /\ Len(body) = off[n + 1]
      /\ \A r \in 1..n : off[r + 1] = off[r] + RowLines(r, width)
      /\ \A q, r \in 1..n : q < r => off[q + 1] <= off[r]
      /\ \A r \in 1..n : off[r + 1] <= off[n + 1]
  BY <1>5, <1>8 DEF Lays
<1>10. \A r \in 1..n : off[r] < off[r + 1] /\ off[r + 1] <= Len(body)
  <2> SUFFICES ASSUME NEW r \in 1..n PROVE off[r] < off[r + 1] /\ off[r + 1] <= Len(body)
    OBVIOUS
  <2>1. off[r] \in Nat /\ off[r + 1] = off[r] + RowLines(r, width)
        /\ RowLines(r, width) \in Nat \ {0}
    BY <1>1, <1>2, <1>9
  <2>2. off[r + 1] <= Len(body)
    BY <1>9
  <2> QED BY <2>1, <2>2
<1>11. ASSUME NEW k \in 1..Len(body) PROVE body[k] <=> \E r \in 1..n : k = off[r] + 1
  <2>1. PICK r \in 1..n : \E i \in 1..Len(ss[r]) : k = off[r] + i
    BY <1>8 DEF Lays
  <2>2. PICK i \in 1..Len(ss[r]) : k = off[r] + i
    BY <2>1
  <2>3. body[k] = (i = 1)
    <3>1. body[off[r] + i] = ss[r][i]
      BY <1>8 DEF Lays
    <3>2. ss[r][i] = (i = 1)
      BY <1>5
    <3> QED BY <2>2, <3>1, <3>2
  <2>4. ASSUME NEW q \in 1..n, k = off[q] + 1 PROVE i = 1
    <3>1. /\ off[q] \in Nat /\ off[r] \in Nat /\ off[q + 1] \in Nat /\ off[r + 1] \in Nat
          /\ q \in Nat /\ r \in Nat
      BY <1>1, <1>9
    <3>2. off[q] < off[q + 1] /\ off[r + 1] = off[r] + Len(ss[r])
      BY <1>5, <1>9, <1>10
    <3>3. off[r] < k /\ k <= off[r + 1]
      <4>1. Len(ss[r]) \in Nat
        BY <1>2, <1>5
      <4>2. \A a, b \in Nat : \A j \in 1..b : a < a + j /\ a + j <= a + b
        OBVIOUS
      <4>3. off[r] < off[r] + i /\ off[r] + i <= off[r] + Len(ss[r])
        BY <3>1, <4>1, <4>2
      <4> QED BY <2>2, <3>2, <4>3
    <3>4. q < r => off[q + 1] <= off[r]
      BY <1>9
    <3>5. r < q => off[r + 1] <= off[q]
      BY <1>9
    <3>6. q = r
      BY <2>4, <3>1, <3>2, <3>3, <3>4, <3>5
    <3> QED BY <2>2, <2>4, <3>1, <3>6
  <2>5. (i = 1) <=> \E q \in 1..n : k = off[q] + 1
    BY <2>2, <2>4
  <2> QED BY <2>3, <2>5
<1>12. Laid(body, off, width)
  BY <1>7, <1>9, <1>10, <1>11 DEF Laid
<1> QED BY <1>12 DEF body

\* Above row r + 1 begin r rows.
LEMMA RowsAbove ==
  ASSUME NEW width, NEW body, NEW off, Laid(body, off, width), RowCount \in Nat,
         NEW r \in 1..RowCount
  PROVE  Cardinality(Before(body, off[r])) = r - 1
<1> DEFINE n == RowCount
           H == {m \in 0..n-1 : /\ IsFiniteSet(Before(body, off[m + 1]))
                                /\ Cardinality(Before(body, off[m + 1])) = m}
<1>1. n \in Nat \ {0} /\ n - 1 \in Nat
  OBVIOUS
<1>2. 0 \in H
  <2>1. Before(body, off[1]) = {}
    BY DEF Laid, Before
  <2>2. IsFiniteSet({}) /\ Cardinality({}) = 0
    BY FS_EmptySet
  <2> QED BY <1>1, <2>1, <2>2
<1>3. ASSUME NEW m \in 1..n-1, m - 1 \in H PROVE m \in H
  <2>1. /\ m \in 1..n /\ m + 1 \in 1..n /\ m - 1 + 1 = m
    BY <1>1
  <2>2. /\ off[m] \in Nat /\ off[m + 1] \in Nat
        /\ off[m] < off[m + 1] /\ off[m + 1] <= Len(body) /\ Len(body) \in Nat
    BY <2>1 DEF Laid
  <2>3. \A j \in 1..off[m + 1] : j \in 1..Len(body)
    BY <2>2
  <2>4. body[off[m] + 1] /\ off[m] + 1 \in 1..off[m + 1]
    <3>1. off[m] + 1 \in 1..off[m + 1]
      BY <2>2
    <3> QED BY <2>1, <2>3, <3>1 DEF Laid
  <2>5. ASSUME NEW j \in 1..off[m + 1], body[j], ~(j <= off[m]) PROVE j = off[m] + 1
    <3>1. PICK q \in 1..n : j = off[q] + 1
      BY <2>3, <2>5 DEF Laid
    <3>2. off[q] \in Nat /\ off[q + 1] \in Nat /\ off[q] < off[q + 1] /\ q \in Nat /\ m \in Nat
      BY <1>1 DEF Laid
    <3>3. q < m => off[q + 1] <= off[m]
      BY <2>1 DEF Laid
    <3>4. m < q => off[m + 1] <= off[q]
      BY <2>1 DEF Laid
    <3>5. q = m
      BY <2>2, <2>5, <3>1, <3>2, <3>3, <3>4
    <3> QED BY <3>1, <3>5
  <2>6. Before(body, off[m + 1]) = Before(body, off[m]) \cup {off[m] + 1}
    <3>1. ASSUME NEW j \in Before(body, off[m + 1])
          PROVE  j \in Before(body, off[m]) \cup {off[m] + 1}
      <4>1. j \in 1..off[m + 1] /\ body[j]
        BY DEF Before
      <4>2. j <= off[m] => j \in 1..off[m]
        BY <2>2, <4>1
      <4> QED BY <2>5, <4>1, <4>2 DEF Before
    <3>2. ASSUME NEW j \in Before(body, off[m]) \cup {off[m] + 1}
          PROVE  j \in Before(body, off[m + 1])
      <4>1. j \in 1..off[m] => j \in 1..off[m + 1]
        BY <2>2
      <4> QED BY <2>4, <4>1 DEF Before
    <3> QED BY <3>1, <3>2
  <2>7. off[m] + 1 \notin Before(body, off[m])
    BY <2>2 DEF Before
  <2>8. IsFiniteSet(Before(body, off[m])) /\ Cardinality(Before(body, off[m])) = m - 1
    BY <1>3, <2>1
  <2>9. /\ IsFiniteSet(Before(body, off[m + 1]))
        /\ Cardinality(Before(body, off[m + 1])) = m - 1 + 1
    BY <2>6, <2>7, <2>8, FS_AddElement
  <2>10. m \in 0..n-1 /\ m - 1 + 1 = m
    OBVIOUS
  <2> HIDE DEF n
  <2> QED BY <2>9, <2>10
<1>4. H = 0..n-1
  <2>1. H \in SUBSET (0..n-1)
    OBVIOUS
  <2> HIDE DEF H, n
  <2> QED BY <1>1, <1>2, <1>3, <2>1, SetInduction
<1>5. r - 1 \in 0..n-1 /\ r - 1 + 1 = r
  OBVIOUS
<1> HIDE DEF n
<1>6. r - 1 \in H
  <2> HIDE DEF H
  <2> QED BY <1>4, <1>5
<1> QED BY <1>5, <1>6

\* The selected row is found at its first line, and it ends where the next one begins.
LEMMA SpanFound ==
  ASSUME NEW width, NEW body, NEW off, Laid(body, off, width), RowCount \in Nat,
         selected \in Nat, selected < RowCount
  PROVE  /\ HasAnchor(body)
         /\ SpanStart(body) = off[selected + 1] /\ SpanEnd(body) = off[selected + 2]
<1> DEFINE n == RowCount
           s == selected + 1
<1>1. s \in 1..n /\ n \in Nat /\ s - 1 = selected
  OBVIOUS
<1>2. Len(body) \in Nat /\ \A r \in 1..n : off[r] + 1 \in 1..Len(body) /\ body[off[r] + 1]
  <2> SUFFICES ASSUME NEW r \in 1..n PROVE off[r] + 1 \in 1..Len(body) /\ body[off[r] + 1]
    BY DEF Laid
  <2>1. /\ off[r] \in Nat /\ off[r + 1] \in Nat /\ off[r] < off[r + 1]
        /\ off[r + 1] <= Len(body) /\ Len(body) \in Nat
    BY DEF Laid
  <2>2. off[r] + 1 \in 1..Len(body)
    BY <2>1
  <2> QED BY <2>2 DEF Laid
<1>3. \A r \in 1..n : off[r] \in Nat /\ off[r] + 1 - 1 = off[r]
  <2>1. \A r \in 1..n : off[r] \in Nat
    BY DEF Laid
  <2> QED BY <2>1
<1>4. Anchors(body) = {off[s] + 1}
  <2>1. off[s] + 1 \in Anchors(body)
    <3>1. Cardinality(Before(body, off[s])) = s - 1
      BY <1>1, RowsAbove
    <3> HIDE DEF s
    <3> QED BY <1>1, <1>2, <1>3, <3>1 DEF Anchors
  <2>2. ASSUME NEW k \in Anchors(body) PROVE k = off[s] + 1
    <3>1. k \in 1..Len(body) /\ body[k] /\ Cardinality(Before(body, k - 1)) = selected
      BY DEF Anchors
    <3>2. PICK r \in 1..n : k = off[r] + 1
      BY <3>1 DEF Laid
    <3>3. Cardinality(Before(body, off[r])) = r - 1
      BY RowsAbove
    <3>4. r - 1 = selected
      BY <1>3, <3>1, <3>2, <3>3
    <3>5. r = s
      BY <3>4
    <3> QED BY <3>2, <3>5
  <2> QED BY <2>1, <2>2
<1>5. HasAnchor(body)
  BY <1>4 DEF HasAnchor
<1>6. SpanStart(body) = off[s]
  <2> DEFINE c == CHOOSE k \in Anchors(body) : TRUE
  <2>1. c = off[s] + 1
    BY <1>4
  <2>2. SpanStart(body) = c - 1
    BY DEF SpanStart
  <2>3. off[s] \in Nat
    BY <1>1, <1>3
  <2> HIDE DEF c
  <2> QED BY <2>1, <2>2, <2>3
<1> DEFINE later == {k \in 1..Len(body) : body[k] /\ k > SpanStart(body) + 1}
<1>7. \A k \in later : \E r \in 1..n : r > s /\ k = off[r] + 1
  <2> SUFFICES ASSUME NEW k \in later PROVE \E r \in 1..n : r > s /\ k = off[r] + 1
    OBVIOUS
  <2>1. k \in 1..Len(body) /\ body[k] /\ k > off[s] + 1
    BY <1>6
  <2>2. PICK r \in 1..n : k = off[r] + 1
    BY <2>1 DEF Laid
  <2>3. off[r] \in Nat /\ off[r + 1] \in Nat /\ off[r] < off[r + 1] /\ off[s] \in Nat
    BY <1>1 DEF Laid
  <2>4. r < s => off[r + 1] <= off[s]
    BY <1>1 DEF Laid
  <2>5. r > s
    <3>1. r # s
      BY <2>1, <2>2, <2>3
    <3>2. ~(r < s)
      BY <2>1, <2>2, <2>3, <2>4
    <3> QED BY <1>1, <3>1, <3>2
  <2> QED BY <2>2, <2>5
<1>8. CASE s = n
  <2>1. later = {}
    <3> HIDE DEF later
    <3> QED BY <1>1, <1>7, <1>8
  <2>2. SpanEnd(body) = Len(body)
    BY <2>1 DEF SpanEnd
  <2>3. selected + 2 = n + 1
    BY <1>8
  <2> QED BY <1>5, <1>6, <2>2, <2>3 DEF Laid
<1>9. CASE s # n
  <2> DEFINE t == s + 1
             j == off[t] + 1
  <2>1. t \in 1..n /\ t = selected + 2
    BY <1>1, <1>9
  <2>2. j \in later
    <3>1. off[s] < off[t] /\ off[s] \in Nat /\ off[t] \in Nat
      BY <1>1, <2>1 DEF Laid
    <3>2. j \in 1..Len(body) /\ body[j]
      BY <1>2, <2>1
    <3>3. j > SpanStart(body) + 1
      BY <1>6, <3>1
    <3> QED BY <3>2, <3>3
  <2>3. \A k \in later : j <= k
    <3> SUFFICES ASSUME NEW k \in later PROVE j <= k
      OBVIOUS
    <3>1. PICK r \in 1..n : r > s /\ k = off[r] + 1
      BY <1>7
    <3>2. CASE r = t
      BY <1>3, <2>1, <3>1, <3>2
    <3>3. CASE r # t
      <4>1. s < r /\ t < r
        BY <1>1, <3>1, <3>3
      <4>2. off[t + 1] <= off[r] /\ off[t] < off[t + 1]
        BY <2>1, <4>1 DEF Laid
      <4>3. off[t] \in Nat /\ off[t + 1] \in Nat /\ off[r] \in Nat
        <5>1. t + 1 \in 1..n+1 /\ off \in [1..n+1 -> Nat]
          BY <1>1, <2>1 DEF Laid
        <5> QED BY <1>3, <2>1, <5>1
      <4> QED BY <3>1, <4>2, <4>3
    <3> QED BY <3>2, <3>3
  <2>4. \A k \in later : k \in Nat
    OBVIOUS
  <2>5. j \in Nat /\ j - 1 = off[t]
    BY <1>3, <2>1
  <2>6. SpanEnd(body) = (CHOOSE k \in later : \A i \in later : k <= i) - 1
    <3>1. later # {}
      BY <2>2
    <3> QED BY <3>1 DEF SpanEnd
  <2> HIDE DEF later, j
  <2>7. (CHOOSE k \in later : \A i \in later : k <= i) = j
    <3>1. \A k \in later : (\A i \in later : k <= i) => k = j
      <4> SUFFICES ASSUME NEW k \in later, k <= j PROVE k = j
        BY <2>2
      <4> QED BY <2>3, <2>4, <2>5
    <3> QED BY <2>2, <2>3, <3>1
  <2> QED BY <1>5, <1>6, <2>1, <2>5, <2>6, <2>7
<1> QED BY <1>8, <1>9

-----------------------------------------------------------------------------
(* The frame *)

\* FirstLine at some width: the lines of the rows above the selected one.
LinesAbove(width) == FoldLeft(LAMBDA n, r : n + RowLines(r, width), 0, [r \in 1..selected |-> r])

\* What SelectionIsShown says of a frame.
Shows(frame, width) ==
  ~help /\ RowCount > 0 =>
    LET first == LinesAbove(width)
        end == first + RowLines(selected + 1, width)
        bottom == frame.top + frame.height
    IN IF frame.height = 0 THEN frame.highlight = NoLine
       ELSE /\ selected < RowCount
            /\ frame.top <= first /\ first < bottom
            /\ frame.highlight = Report.header + first - frame.top
            /\ end - first <= frame.height => end <= bottom
            /\ frame.top > 0 => bottom <= Len(Body(width))

\* The last frame shows the selection until a key is handled.
ViewInv ==
  /\ Browses /\ size \in Sizes
  /\ pc = "read" => ~dirty
  /\ ~dirty /\ pc # "quit" => Shows(shown, lastSize[1])

-----------------------------------------------------------------------------
\* The lines above the selected row end where it begins.
LEMMA AboveIsOff ==
  ASSUME NEW width, NEW body, NEW off, Laid(body, off, width), RowCount \in Nat,
         selected \in Nat, selected < RowCount,
         \A r \in 1..RowCount : RowLines(r, width) \in Nat
  PROVE  LinesAbove(width) = off[selected + 1]
<1> DEFINE n == selected
           rows == [r \in 1..n |-> r]
           g == [r \in 1..n |-> RowLines(r, width)]
           Iter(f) == f = [x \in SUBSET DOMAIN rows |->
                             IF x = {} THEN 0
                             ELSE f[x \ {Max(x)}] + RowLines(rows[Max(x)], width)]
           iter == CHOOSE f : Iter(f)
<1>1. n \in Nat /\ DOMAIN rows = 1..n /\ \A k \in 1..n : rows[k] = k /\ k \in 1..RowCount
  OBVIOUS
<1>2. g \in [1..n -> Nat] /\ \A k \in 1..n : g[k] = RowLines(k, width)
  BY <1>1
<1>3. LinesAbove(width) = iter[DOMAIN rows]
  BY DEF LinesAbove, FoldLeft, MapThenFoldSet
<1> HIDE DEF g, rows
<1>4. PICK f \in [SUBSET (1..n) -> Nat] : Summing(f, n, g)
  BY <1>1, <1>2, SumExists
<1>5. \A x \in SUBSET (1..n) : x # {} => Max(x) \in 1..n /\ rows[Max(x)] = Max(x)
  BY <1>1, MaxPlace
<1>6. Iter(f)
  <2>1. \A x \in SUBSET (1..n) : x # {} => g[Max(x)] = RowLines(rows[Max(x)], width)
    BY <1>2, <1>5
  <2>2. \A x \in SUBSET (1..n) : f[x] = IF x = {} THEN 0
                                        ELSE f[x \ {Max(x)}] + RowLines(rows[Max(x)], width)
    BY <1>4, <2>1 DEF Summing
  <2>3. f = [x \in SUBSET (1..n) |-> f[x]]
    BY <1>4
  <2> QED BY <1>1, <2>2, <2>3
<1>7. Iter(iter)
  <2> HIDE DEF Iter
  <2> QED BY <1>6
<1> HIDE DEF iter
<1>8. Summing(iter, n, g)
  <2>1. \A x \in SUBSET (1..n) : x # {} => g[Max(x)] = RowLines(rows[Max(x)], width)
    BY <1>2, <1>5
  <2>2. \A x \in SUBSET (1..n) :
          iter[x] = IF x = {} THEN 0
                    ELSE iter[x \ {Max(x)}] + RowLines(rows[Max(x)], width)
    BY <1>1, <1>7
  <2> QED BY <2>1, <2>2 DEF Summing
<1>9. iter[1..0] = 0 /\ \A k \in 1..n : iter[1..k] = iter[1..k-1] + g[k]
  <2> HIDE DEF n, iter
  <2>1. n \in Nat /\ g \in [1..n -> Nat]
    BY <1>1, <1>2
  <2>2. PICK i0, m, h : i0 = iter /\ m = n /\ h = g
    OBVIOUS
  <2>3. m \in Nat /\ h \in [1..m -> Nat] /\ Summing(i0, m, h)
    BY <2>1, <2>2, <1>8
  <2>4. i0[1..0] = 0 /\ \A k \in 1..m : i0[1..k] = i0[1..k-1] + h[k]
    BY <2>3, SumSteps, SMTT(40)
  <2> QED BY <2>2, <2>4
<1> DEFINE H == {k \in 0..n : iter[1..k] = off[k + 1]}
<1>10. 0 \in H
  BY <1>1, <1>9 DEF Laid
<1>11. ASSUME NEW k \in 1..n, k - 1 \in H PROVE k \in H
  <2>1. k - 1 + 1 = k /\ k \in 1..RowCount /\ k \in 0..n
    BY <1>1
  <2>2. iter[1..k-1] = off[k]
    BY <1>11, <2>1
  <2>3. off[k + 1] = off[k] + RowLines(k, width)
    BY <2>1 DEF Laid
  <2>4. iter[1..k] = off[k + 1]
    BY <1>2, <1>9, <2>2, <2>3
  <2> QED BY <2>1, <2>4
<1>12. H = 0..n
  <2>1. H \in SUBSET (0..n)
    OBVIOUS
  <2> HIDE DEF H
  <2> QED BY <1>1, <1>10, <1>11, <2>1, SetInduction
<1>13. n \in H
  <2> HIDE DEF H
  <2> QED BY <1>1, <1>12
<1> QED BY <1>1, <1>3, <1>13

\* The body is some lines, and none of them begins a row under the help or without rows.
LEMMA BodyType ==
  ASSUME Browses, NEW width \in Nat, width > Indent
  PROVE  /\ Body(width) \in Seq(BOOLEAN)
         /\ help \/ RowCount = 0 => ~HasAnchor(Body(width))
<1>1. CASE help
  <2> DEFINE n == WrappedAll(Help, width)
  <2>1. n \in Nat
    BY HelpAssumption, WrappedAllType
  <2>2. Body(width) = [k \in 1..n |-> FALSE]
    BY <1>1 DEF Body
  <2> HIDE DEF n
  <2>3. /\ [k \in 1..n |-> FALSE] \in Seq(BOOLEAN) /\ Len([k \in 1..n |-> FALSE]) = n
        /\ \A k \in 1..n : ~[i \in 1..n |-> FALSE][k]
    BY <2>1
  <2>4. Anchors(Body(width)) = {}
    BY <2>2, <2>3 DEF Anchors
  <2> QED BY <2>2, <2>3, <2>4 DEF HasAnchor
<1>2. CASE ~help /\ RowCount = 0
  <2>1. Body(width) = <<FALSE>>
    BY <1>2 DEF Body
  <2>2. ~HasAnchor(Body(width))
    BY <1>2 DEF HasAnchor
  <2> QED BY <2>1, <2>2
<1>3. CASE ~help /\ RowCount # 0
  <2>1. RowCount > 0
    BY <1>3, RowTypes DEF Browses
  <2>2. PICK off : Laid(Body(width), off, width)
    BY <1>3, <2>1, BodyLaid
  <2> QED BY <1>3, <2>2 DEF Laid
<1> QED BY <1>1, <1>2, <1>3

\* The body's height, the scroll offset and the frame that Draw computes.
Height == Monus(size[2], Report.header + 1)
NewScroll == Follow(Body(size[1]), Height)
NewFrame ==
  LET body == Body(size[1])
      line == Report.header + Monus(SpanStart(body), NewScroll)
  IN [top |-> Least(NewScroll, Monus(Len(body), Most(Height, 1))),
      height |-> Height,
      highlight |-> IF ~help /\ HasAnchor(body) /\ line < size[2] - 1 THEN line ELSE NoLine]

\* The terminal has room for text, and the header takes some of its lines.
LEMMA SizeTypes ==
  ASSUME Browses, size \in Sizes
  PROVE  /\ size[1] \in Nat /\ size[1] > Indent /\ size[2] \in Nat \ {0}
         /\ Report.header \in Nat \ {0} /\ Height \in Nat
         /\ Height = 0 => size[2] - 1 <= Report.header
         /\ Height # 0 => size[2] - 1 = Report.header + Height
<1>1. size \in (Nat \ 0..Indent) \X (Nat \ {0})
  BY SizesAssumption
<1>2. size[1] \in Nat \ 0..Indent /\ size[2] \in Nat \ {0}
  BY <1>1
<1>3. size[1] \in Nat /\ size[1] > Indent
  BY <1>2 DEF Indent
<1>4. Report.header \in Nat \ {0}
  BY RowTypes DEF Browses
<1> DEFINE a == size[2]
           b == Report.header
<1>5. Height = Monus(a, b + 1)
  BY DEF Height
<1> HIDE DEF a, b
<1>6. a \in Nat \ {0} /\ b \in Nat \ {0}
  BY <1>2, <1>4 DEF a, b
<1>7. /\ Height \in Nat /\ (Height = 0 => a - 1 <= b) /\ (Height # 0 => a - 1 = b + Height)
  BY <1>5, <1>6 DEF Monus, Most
<1> QED BY <1>2, <1>3, <1>4, <1>7 DEF a, b

\* The offset is a number of lines whatever is drawn.
LEMMA ScrollType ==
  ASSUME Browses, size \in Sizes
  PROVE  NewScroll \in Nat
<1> DEFINE body == Body(size[1])
           length == Len(body)
           clipped == Least(scroll, Monus(length, Height))
<1>1. /\ size[1] \in Nat /\ size[1] > Indent /\ Height \in Nat /\ scroll \in Nat
      /\ RowCount \in Nat
  BY SizeTypes, RowTypes DEF Browses
<1>2. body \in Seq(BOOLEAN) /\ length \in Nat
  BY <1>1, BodyType
<1>3. CASE Height = 0 \/ body = <<>>
  BY <1>3 DEF NewScroll, Follow
<1>4. CASE ~(Height = 0 \/ body = <<>>) /\ ~HasAnchor(body)
  <2>1. NewScroll = clipped
    BY <1>4 DEF NewScroll, Follow
  <2> HIDE DEF length
  <2> QED BY <1>1, <1>2, <2>1 DEF Least, Monus, Most
<1>5. CASE ~(Height = 0 \/ body = <<>>) /\ HasAnchor(body)
  <2>1. ~help /\ RowCount > 0 /\ selected < RowCount /\ selected \in Nat
    BY <1>1, <1>5, BodyType DEF Browses
  <2>2. PICK off : Laid(body, off, size[1])
    BY <1>1, <2>1, BodyLaid
  <2>3. SpanStart(body) = off[selected + 1] /\ SpanEnd(body) = off[selected + 2]
    BY <1>1, <2>1, <2>2, SpanFound
  <2>4. off[selected + 1] \in Nat /\ off[selected + 2] \in Nat
    BY <1>1, <2>1, <2>2 DEF Laid
  <2> DEFINE above == Least(clipped, SpanStart(body))
  <2>5. NewScroll = IF SpanEnd(body) > above + Height
                      THEN Least(Monus(SpanEnd(body), Height), SpanStart(body)) ELSE above
    BY <1>5 DEF NewScroll, Follow
  <2>6. SpanStart(body) \in Nat /\ SpanEnd(body) \in Nat
    BY <2>3, <2>4
  <2> HIDE DEF length, body
  <2> QED BY <1>1, <1>2, <2>5, <2>6 DEF Least, Monus, Most
<1> QED BY <1>3, <1>4, <1>5

\* Every frame drawn shows the selected row.
LEMMA FrameShows ==
  ASSUME Browses, size \in Sizes
  PROVE  Shows(NewFrame, size[1])
<1> DEFINE width == size[1]
           body == Body(width)
           length == Len(body)
           line == Report.header + Monus(SpanStart(body), NewScroll)
<1> SUFFICES ASSUME ~help, RowCount > 0
             PROVE  Shows(NewFrame, width)
  BY DEF Shows
<1>1. /\ width \in Nat /\ width > Indent /\ size[2] \in Nat \ {0}
      /\ Report.header \in Nat \ {0} /\ Height \in Nat
      /\ Height = 0 => size[2] - 1 <= Report.header
      /\ Height # 0 => size[2] - 1 = Report.header + Height
  BY SizeTypes
<1>2. RowCount \in Nat /\ selected \in Nat /\ selected < RowCount /\ scroll \in Nat
  BY RowTypes DEF Browses
<1>3. PICK off : Laid(body, off, width)
  BY <1>1, BodyLaid
<1>4. /\ HasAnchor(body)
      /\ SpanStart(body) = off[selected + 1] /\ SpanEnd(body) = off[selected + 2]
  BY <1>2, <1>3, SpanFound
<1>5. selected + 1 \in 1..RowCount /\ selected + 1 + 1 = selected + 2
  BY <1>2
<1>6. \A r \in 1..RowCount : RowLines(r, width) \in Nat \ {0}
  BY <1>1, RowLinesType
<1>7. LinesAbove(width) = off[selected + 1]
  BY <1>2, <1>3, <1>6, AboveIsOff
<1>8. /\ off[selected + 1] \in Nat /\ off[selected + 2] \in Nat /\ length \in Nat
      /\ off[selected + 1] < off[selected + 2] /\ off[selected + 2] <= length
      /\ off[selected + 2] = off[selected + 1] + RowLines(selected + 1, width)
  <2>1. /\ off[selected + 1] < off[selected + 2] /\ off[selected + 2] <= length
        /\ off[selected + 2] = off[selected + 1] + RowLines(selected + 1, width)
    BY <1>3, <1>5 DEF Laid
  <2>2. selected + 1 \in 1..RowCount+1 /\ selected + 2 \in 1..RowCount+1
    BY <1>2
  <2> QED BY <1>3, <2>1, <2>2 DEF Laid
<1>9. /\ NewFrame.height = Height
      /\ NewFrame.top = Least(NewScroll, Monus(length, Most(Height, 1)))
      /\ NewFrame.highlight = IF line < size[2] - 1 THEN line ELSE NoLine
  BY <1>4 DEF NewFrame
<1> DEFINE start == SpanStart(body)
           end == SpanEnd(body)
           above == Least(Least(scroll, Monus(length, Height)), start)
           rows == size[2] - 1
           header == Report.header
<1>10. CASE Height = 0
  <2>1. NewScroll = 0
    BY <1>10 DEF NewScroll, Follow
  <2>2. ~(line < rows)
    <3>1. start \in Nat /\ header \in Nat /\ rows \in Int /\ rows <= header
      BY <1>1, <1>4, <1>8, <1>10
    <3>2. line = header + Monus(start, 0)
      BY <2>1
    <3> HIDE DEF start, header, rows, line
    <3> QED BY <3>1, <3>2 DEF Monus, Most
  <2> QED BY <1>9, <1>10, <2>2 DEF Shows
<1>11. CASE Height # 0
  <2>1. body # <<>>
    BY <1>8
  <2>2. NewScroll = IF end > above + Height THEN Least(Monus(end, Height), start) ELSE above
    BY <1>4, <1>11, <2>1 DEF NewScroll, Follow
  <2>3. /\ start \in Nat /\ end \in Nat /\ start < end /\ end <= length
        /\ header \in Nat /\ rows = header + Height /\ LinesAbove(width) = start
        /\ LinesAbove(width) + RowLines(selected + 1, width) = end
    BY <1>1, <1>4, <1>7, <1>8, <1>11
  <2> HIDE DEF start, end, header, rows, length
  <2>4. /\ NewScroll \in Nat /\ NewScroll <= Monus(length, Height)
        /\ NewScroll <= start /\ start < NewScroll + Height
        /\ end - start <= Height => end <= NewScroll + Height
    <3>1. Height \in Nat \ {0} /\ scroll \in Nat /\ length \in Nat
      BY <1>1, <1>2, <1>8, <1>11 DEF length
    <3> HIDE DEF above
    <3>2. above = Least(Least(scroll, Monus(length, Height)), start)
      BY DEF above
    <3>3. start \in Nat /\ end \in Nat /\ start < end /\ end <= length
      BY <2>3
    <3> QED BY <2>2, <3>1, <3>2, <3>3 DEF Least, Monus, Most
  <2>5. NewFrame.top = NewScroll
    BY <1>1, <1>8, <1>9, <1>11, <2>4 DEF Least, Monus, Most
  <2>6. line = header + start - NewScroll /\ line < rows
    <3>1. line = header + Monus(start, NewScroll)
      BY DEF header, start
    <3> HIDE DEF line
    <3> QED BY <1>1, <2>3, <2>4, <3>1 DEF Monus, Most
  <2>7. NewScroll > 0 => NewScroll + Height <= length
    BY <1>1, <1>8, <2>4 DEF Monus, Most
  <2>8. NewFrame.highlight = header + start - NewScroll
    BY <1>9, <2>6 DEF rows
  <2> HIDE DEF line
  <2> QED BY <1>2, <1>9, <1>11, <2>3, <2>4, <2>5, <2>7, <2>8 DEF Shows, header, length
<1> QED BY <1>1, <1>10, <1>11

-----------------------------------------------------------------------------
(* Keys, and windows of any size *)

\* The selection is shown as long as nothing changes that the body is made of.
LEMMA ShowsStays ==
  ASSUME NEW frame, NEW width, Shows(frame, width),
         UNCHANGED <<target, selected, expanded, help>>, shown' = frame, lastSize'[1] = width
  PROVE  Shows(shown, lastSize[1])'
<1>1. target' = target /\ selected' = selected /\ expanded' = expanded /\ help' = help
  OBVIOUS
<1>2. /\ Report' = Report /\ Rows' = Rows /\ RowCount' = RowCount
  BY <1>1 DEF Report, Rows, RowCount
<1>3. \A r : RowLines(r, width)' = RowLines(r, width)
  BY <1>1, <1>2 DEF RowLines
<1>4. LinesAbove(width)' = LinesAbove(width)
  BY <1>1, <1>2 DEF LinesAbove, RowLines, WrappedAll, FoldLeft, MapThenFoldSet
<1>5. Body(width)' = Body(width)
  BY <1>1, <1>2 DEF Body, RowLines, WrappedAll, FoldLeft, MapThenFoldSet, FlattenSeq
<1>6. Shows(frame, width)'
  BY <1>1, <1>2, <1>3, <1>4, <1>5 DEF Shows
<1> QED
  BY <1>6

-----------------------------------------------------------------------------
\* The invariant without what it says of the frame.
Moves == Browses /\ size \in Sizes

\* A key, if the viewer handles one, leaves the selection on a row of one of the reports.
LEMMA StayBrowses == Moves /\ Stay => Moves'
<1> SUFFICES ASSUME Moves, Stay PROVE Moves'
  OBVIOUS
<1> USE DEF Browses, Reading, Browsing, Place, Moves
<1>1. RowCount \in Nat
  BY RowTypes
<1>2. UNCHANGED target => RowCount' = RowCount
  BY DEF RowCount, Rows, Report
<1>3. CASE HelpKey
  BY <1>2, <1>3 DEF HelpKey
<1>4. CASE OpenHelp
  BY <1>2, <1>4 DEF OpenHelp
<1>5. CASE MoveSelection
  <2>1. PICK delta \in {1, -1, page, -page} :
          selected' = Most(0, Least(selected + delta, RowCount - 1))
    BY <1>5 DEF MoveSelection
  <2>2. delta \in Int
    OBVIOUS
  <2>3. selected' \in Nat /\ (selected' = 0 \/ selected' < RowCount)
    BY <1>1, <2>1, <2>2 DEF Most, Least
  <2> QED BY <1>2, <1>5, <2>3 DEF MoveSelection
<1>6. CASE FirstRow
  BY <1>6 DEF FirstRow
<1>7. CASE LastRow
  <2>1. selected' \in Nat /\ (selected' = 0 \/ selected' < RowCount)
    BY <1>1, <1>7 DEF LastRow, Monus, Most
  <2> QED BY <1>2, <1>7, <2>1 DEF LastRow
<1>8. CASE ToggleExpanded
  BY <1>2, <1>8 DEF ToggleExpanded
<1>9. CASE ShiftTarget
  <2>1. PICK delta \in {1, -1} : target' = ((target - 1 + delta) % Len(Reports)) + 1
    BY <1>9 DEF ShiftTarget
  <2>2. Len(Reports) \in Nat /\ Len(Reports) > 0 /\ DOMAIN Reports = 1..Len(Reports)
    BY ReportsAssumption
  <2>3. \A k \in Int, n \in Nat : n > 0 => (k % n) + 1 \in 1..n
    OBVIOUS
  <2>4. target' \in DOMAIN Reports
    BY <2>1, <2>2, <2>3
  <2> QED BY <1>9, <2>4 DEF ShiftTarget
<1>10. CASE OtherKey
  BY <1>2, <1>10 DEF OtherKey
<1> QED
  BY <1>3, <1>4, <1>5, <1>6, <1>7, <1>8, <1>9, <1>10 DEF Stay

\* At first nothing is drawn.
LEMMA InitView == SessionInit => ViewInv
<1> SUFFICES ASSUME Init PROVE ViewInv
  BY DEF SessionInit
<1>1. 1 \in DOMAIN Reports
  BY ReportsAssumption
<1>2. Browses
  <2>1. target = 1 /\ selected = 0 /\ scroll = 0 /\ page = 10
    BY DEF Init
  <2>2. help \in BOOLEAN /\ dirty \in BOOLEAN
    BY DEF Init
  <2> QED BY <1>1, <2>1, <2>2 DEF Browses
<1>3. size \in Sizes /\ dirty /\ pc = "check"
  BY DEF Init
<1> QED BY <1>2, <1>3 DEF ViewInv

\* A frame shows the selected row at the size it is drawn for, or is not drawn again.
LEMMA DrawView == ViewInv /\ Draw => ViewInv'
<1> SUFFICES ASSUME ViewInv, Draw PROVE ViewInv'
  OBVIOUS
<1>1. /\ Browses /\ size \in Sizes /\ pc' = "read" /\ lastSize' = size /\ dirty' = FALSE
      /\ UNCHANGED <<size, target, selected, expanded, help>>
  BY DEF ViewInv, Draw
<1>2. RowCount' = RowCount
  BY <1>1 DEF RowCount, Rows, Report
<1>3. CASE dirty \/ size # lastSize
  <2>1. page' = Most(Height, 1) /\ scroll' = NewScroll /\ shown' = NewFrame
    BY <1>3 DEF Draw, Height, NewScroll, NewFrame
  <2>2. page' \in Nat \ {0} /\ scroll' \in Nat
    BY <1>1, <2>1, SizeTypes, ScrollType DEF Most
  <2>3. Shows(NewFrame, size[1])
    BY <1>1, FrameShows
  <2>4. Shows(shown, lastSize[1])'
    <3>1. PICK frame, width : frame = NewFrame /\ width = size[1]
      OBVIOUS
    <3>2. Shows(frame, width)
      BY <2>3, <3>1
    <3> QED BY <1>1, <2>1, <3>1, <3>2, ShowsStays
  <2> QED BY <1>1, <1>2, <2>2, <2>4 DEF ViewInv, Browses
<1>4. CASE ~dirty /\ size = lastSize
  <2>1. UNCHANGED <<page, scroll, shown>>
    BY <1>4 DEF Draw
  <2>2. Shows(shown, lastSize[1])'
    <3>1. Shows(shown, lastSize[1])
      BY <1>4 DEF ViewInv, Draw
    <3>2. PICK frame, width : frame = shown /\ width = lastSize[1]
      OBVIOUS
    <3>3. Shows(frame, width)
      BY <3>1, <3>2
    <3> QED BY <1>1, <1>4, <2>1, <3>2, <3>3, ShowsStays
  <2> QED BY <1>1, <1>2, <2>1, <2>2 DEF ViewInv, Browses
<1> QED BY <1>3, <1>4

\* A frame stays right while nothing is typed and when the window is resized.
LEMMA IdleView ==
  ASSUME ViewInv, NoKey \/ Resize \/ UNCHANGED vars
  PROVE  ViewInv'
<1>1. /\ Browses /\ size' \in Sizes /\ dirty' = dirty
      /\ pc' = "read" => pc = "read"
      /\ pc' # "quit" => pc # "quit"
      /\ UNCHANGED <<lastSize, target, selected, scroll, expanded, help, page, shown>>
  BY DEF ViewInv, NoKey, Resize, vars
<1>2. RowCount' = RowCount
  BY <1>1 DEF RowCount, Rows, Report
<1>3. ~dirty' /\ pc' # "quit" => Shows(shown, lastSize[1])'
  <2> SUFFICES ASSUME ~dirty', pc' # "quit" PROVE Shows(shown, lastSize[1])'
    OBVIOUS
  <2>1. Shows(shown, lastSize[1])
    <3>1. ~dirty /\ pc # "quit"
      BY <1>1, Zenon
    <3> QED BY <3>1 DEF ViewInv
  <2>2. PICK frame, width : frame = shown /\ width = lastSize[1]
    OBVIOUS
  <2>3. Shows(frame, width)
    BY <2>1, <2>2
  <2> QED BY <1>1, <2>2, <2>3, ShowsStays
<1>4. Browses'
  BY <1>1, <1>2 DEF Browses
<1>5. pc' = "read" => ~dirty'
  BY <1>1 DEF ViewInv
<1> QED BY <1>1, <1>3, <1>4, <1>5 DEF ViewInv

\* When the loop ends the viewer is gone.
LEMMA DroppedView == ViewInv /\ Dropped => ViewInv'
<1> SUFFICES ASSUME ViewInv, Dropped PROVE ViewInv'
  OBVIOUS
<1>1. 1 \in DOMAIN Reports
  BY ReportsAssumption
<1>2. Browses'
  <2>1. target' = 1 /\ selected' = 0 /\ scroll' = 0 /\ page' = 10
    BY DEF Dropped
  <2>2. help' \in BOOLEAN /\ dirty' \in BOOLEAN
    BY DEF ViewInv, Browses, Dropped
  <2> QED BY <1>1, <2>1, <2>2 DEF Browses
<1>3. pc' = "quit" /\ size' \in Sizes
  BY DEF ViewInv, Dropped
<1> QED BY <1>2, <1>3 DEF ViewInv

\* Every step of the session keeps the selection in view.
LEMMA StepView == ViewInv /\ [SessionNext]_session => ViewInv'
<1> SUFFICES ASSUME ViewInv, [SessionNext]_session PROVE ViewInv'
  OBVIOUS
<1>1. CASE Frame
  BY <1>1, DrawView DEF Frame
<1>2. CASE Key
  <2>1. CASE NoKey
    BY <2>1, IdleView
  <2>2. CASE Stay
    <3>1. Moves'
      BY <2>2, StayBrowses DEF ViewInv, Moves
    <3>2. pc' = "check" /\ dirty' = TRUE
      BY <2>2 DEF Stay, HelpKey, OpenHelp, MoveSelection, FirstRow, LastRow,
                  ToggleExpanded, ShiftTarget, OtherKey, Browsing, Reading
    <3> QED BY <3>1, <3>2 DEF Moves, ViewInv
  <2> QED BY <1>2, <2>1, <2>2 DEF Key
<1>3. CASE Leave \/ Abort
  BY <1>3, DroppedView DEF Leave, Abort, Quit
<1>4. CASE ResizeWindow
  BY <1>4, IdleView DEF ResizeWindow
<1>5. CASE UNCHANGED vars
  BY <1>5, IdleView
<1> QED
  BY <1>1, <1>2, <1>3, <1>4, <1>5 DEF SessionNext, session

\* "The selected row is kept in view": whatever was resized, expanded or left behind on
\* another target or page, and for all reports, window sizes and keys, every frame with
\* room for a body line highlights the first line of the selected row, shows all of the
\* row if it fits, and leaves no room below the body while lines are hidden above.
THEOREM SelectionShown == SessionSpec => []SelectionIsShown
<1>1. ViewInv => SelectionIsShown
  BY DEF ViewInv, Shows, SelectionIsShown, FirstLine, LinesAbove
<1> QED
  BY InitView, StepView, <1>1, PTL DEF SessionSpec
====
