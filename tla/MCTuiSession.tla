---- MODULE MCTuiSession ----
(* Two targets, one without rows; rows of one to five lines at the sizes below. *)
EXTENDS TuiSession

Row(closed, open) == [closed |-> closed, open |-> open]
MCReports == <<
  [header |-> 3, rows |-> <<Row(<<9>>, <<9, 6, 30>>), Row(<<20>>, <<8, 0, 4>>), Row(<<5>>, <<5, 5>>)>>],
  [header |-> 2, rows |-> <<>>]>>
MCHelp == <<8, 12, 12, 3>>
MCSizes == {<<10, 7>>, <<20, 6>>, <<10, 4>>, <<6, 12>>}
====
