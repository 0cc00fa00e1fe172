---- MODULE TuiSession ----
(***************************************************************************)
(* --format tui from the end of the scan to the end of the process         *)
(* (tui::run): the viewer on the terminal that the guard has prepared. The *)
(* loop of Viewer runs while the main thread of TerminalGuard views the    *)
(* reports; the interrupt watcher may end the process between any two of   *)
(* its steps.                                                              *)
(***************************************************************************)
EXTENDS Viewer

VARIABLES tty, screen, savedTty, cleanup, main, watcher, borrowed, process, foundViewing, taken

Guard == INSTANCE TerminalGuard

guardVars == <<tty, screen, savedTty, cleanup, main, watcher, borrowed, process,
               foundViewing, taken>>
session == <<vars, guardVars>>

SessionInit == Init /\ Guard!Init

\* A frame is written to the terminal.
Frame == Draw /\ Guard!Draw

\* No key, or one that does not end the viewer.
Key == (NoKey \/ Stay) /\ Guard!ReadKey

\* A key that ends it.
Leave == main = "read_key" /\ Quit /\ Guard!LoopEnds

\* A write or a read fails, or the loop panics.
Abort == Dropped /\ Guard!LoopEnds

ResizeWindow == main \in {"view", "read_key"} /\ Resize /\ UNCHANGED guardVars

\* What the guard and the watcher do without the viewer.
Around == Guard!Enter \/ Guard!Leave \/ Guard!Signal \/ Guard!Watcher

SessionNext ==
  \/ Frame \/ Key \/ Leave \/ Abort \/ ResizeWindow
  \/ Around /\ UNCHANGED vars

\* The watcher is scheduled. No scan need end, no signal arrive and no key be pressed.
SessionSpec ==
  /\ SessionInit /\ [][SessionNext]_session
  /\ WF_session(Guard!Watcher /\ UNCHANGED vars)

-----------------------------------------------------------------------------
(* Properties *)

\* Whenever the process ends by itself (a key, an error of enter or of the loop, a panic)
\* the terminal is as it was found, wherever an interrupt under way has got to.
ExitRestores == Guard!ExitRestores

\* A registered cleanup can always be honoured: the settings it needs are saved before
\* it is registered and kept until it is withdrawn, and once the watcher has taken it
\* the terminal is restored before the signal ends the process, also when the main
\* thread drops the guard at the same time.
CleanupIsHonoured == Guard!CleanupIsHonoured

\* An interrupt that comes while the reports are viewed leaves a usable terminal, unless
\* the user was faster to quit.
ViewerIsRestored == Guard!ViewerIsRestored

\* An interrupt always ends the process, whatever is being viewed: the watcher waits for
\* nothing the main thread may hold.
InterruptEnds == watcher # "sigwait" ~> process # "runs"
====
