---- MODULE TerminalGuard ----
(***************************************************************************)
(* The terminal of --format tui: the main thread puts it in raw mode and   *)
(* on the alternate screen, views the reports and restores it when the     *)
(* guard is dropped (TerminalGuard in tui.rs), while the interrupt watcher *)
(* may end the process at any time and runs the registered cleanup first   *)
(* (set_interrupt_cleanup and run_interrupt_cleanup in transport.rs).      *)
(***************************************************************************)
EXTENDS Naturals

VARIABLES
  tty,          \* "cooked" or "raw"
  screen,       \* "normal" or "alternate"
  savedTty,     \* SAVED_TTY: the settings to restore, or "none"
  cleanup,      \* INTERRUPT_CLEANUP holds restore_after_interrupt
  main,         \* what the main thread does next
  watcher,      \* what the interrupt watcher does next
  borrowed,     \* its copy of the settings
  process,      \* "runs", "exited" or "signalled"
  foundViewing, \* history: the signal came while the reports were viewed
  taken         \* history: the watcher has taken a cleanup
vars == <<tty, screen, savedTty, cleanup, main, watcher, borrowed,
          process, foundViewing, taken>>
watch == <<watcher, borrowed>>
history == <<foundViewing, taken>>
terminal == <<tty, screen>>
registry == <<savedTty, cleanup>>

Original == "cooked"         \* what tcgetattr found

Init ==
  /\ tty = Original /\ screen = "normal"
  /\ savedTty = "none" /\ cleanup = FALSE
  /\ main = "scan" /\ watcher = "sigwait" /\ borrowed = "none"
  /\ process = "runs"
  /\ foundViewing = FALSE /\ taken = FALSE

Does(step, next) == process = "runs" /\ main = step /\ main' = next
Watches(step, next) == process = "runs" /\ watcher = step /\ watcher' = next

-----------------------------------------------------------------------------
(* TerminalGuard::enter *)

ScanDone ==
  /\ Does("scan", "set_raw")
  /\ UNCHANGED <<terminal, registry, watch, process, history>>

\* tcsetattr; when it or tcgetattr fails there is no guard to drop.
SetRaw ==
  /\ \/ Does("set_raw", "set_screen") /\ tty' = "raw"
     \/ Does("set_raw", "exit") /\ UNCHANGED tty
  /\ UNCHANGED <<screen, registry, watch, process, history>>

\* The guard exists from here on: an error of the write drops it.
SetScreen ==
  /\ \/ Does("set_screen", "save") /\ screen' = "alternate"
     \/ Does("set_screen", "unregister") /\ UNCHANGED screen
  /\ UNCHANGED <<tty, registry, watch, process, history>>

Save ==
  /\ Does("save", "register")
  /\ savedTty' = Original
  /\ UNCHANGED <<terminal, cleanup, watch, process, history>>

\* Mutant of Register: the cleanup is not registered.
RegisterNothing ==
  /\ Does("register", "view")
  /\ UNCHANGED <<terminal, registry, watch, process, history>>

Register ==
  /\ Does("register", "view")
  /\ cleanup' = TRUE
  /\ UNCHANGED <<terminal, savedTty, watch, process, history>>

-----------------------------------------------------------------------------
(* event_loop *)

Draw ==
  /\ Does("view", "read_key")
  /\ UNCHANGED <<terminal, registry, watch, process, history>>

ReadKey ==
  /\ Does("read_key", "view")
  /\ UNCHANGED <<terminal, registry, watch, process, history>>

\* The q key, an error of draw or read_key, or a panic: the guard is dropped.
LoopEnds ==
  /\ Does("view", "unregister") \/ Does("read_key", "unregister")
  /\ UNCHANGED <<terminal, registry, watch, process, history>>

-----------------------------------------------------------------------------
(* Drop for TerminalGuard, and the end of main *)

\* Mutant of Unregister: the saved settings go first.
UnsaveFirst ==
  /\ Does("unregister", "restore_screen")
  /\ savedTty' = "none"
  /\ UNCHANGED <<terminal, cleanup, watch, process, history>>

Unregister ==
  /\ Does("unregister", "restore_screen")
  /\ cleanup' = FALSE
  /\ UNCHANGED <<terminal, savedTty, watch, process, history>>

DropRestoresScreen ==
  /\ Does("restore_screen", "restore_tty")
  /\ screen' = "normal"
  /\ UNCHANGED <<tty, registry, watch, process, history>>

\* Mutant of DropRestoresTty: it is left to the watcher that has taken the settings.
DropRestoresSaved ==
  /\ Does("restore_tty", "unsave")
  /\ tty' = IF savedTty = "none" THEN tty ELSE Original
  /\ UNCHANGED <<screen, registry, watch, process, history>>

DropRestoresTty ==
  /\ Does("restore_tty", "unsave")
  /\ tty' = Original
  /\ UNCHANGED <<screen, registry, watch, process, history>>

Unsave ==
  /\ Does("unsave", "exit")
  /\ savedTty' = "none"
  /\ UNCHANGED <<terminal, cleanup, watch, process, history>>

ProcessExits ==
  /\ Does("exit", "gone")
  /\ process' = "exited"
  /\ UNCHANGED <<terminal, registry, watch, history>>

Enter == ScanDone \/ SetRaw \/ SetScreen \/ Save \/ Register
Leave == Unregister \/ DropRestoresScreen \/ DropRestoresTty \/ Unsave \/ ProcessExits
Main == Enter \/ Draw \/ ReadKey \/ LoopEnds \/ Leave

-----------------------------------------------------------------------------
(* The interrupt watcher *)

\* SIGINT or SIGTERM arrives, and the collector groups are terminated (see Transport).
Signal ==
  /\ Watches("sigwait", "take_cleanup")
  /\ foundViewing' = (main \in {"view", "read_key"})
  /\ UNCHANGED <<terminal, registry, main, borrowed, process, taken>>

\* Mutant of TakeCleanup: without a cleanup the watcher waits for another signal.
TakeCleanupOrWait ==
  /\ IF cleanup THEN Watches("take_cleanup", "take_saved") ELSE Watches("take_cleanup", "sigwait")
  /\ cleanup' = FALSE /\ taken' = cleanup
  /\ UNCHANGED <<terminal, savedTty, main, borrowed, process, foundViewing>>

\* The lock is held for take() only.
TakeCleanup ==
  /\ IF cleanup THEN Watches("take_cleanup", "take_saved") ELSE Watches("take_cleanup", "raise")
  /\ cleanup' = FALSE /\ taken' = cleanup
  /\ UNCHANGED <<terminal, savedTty, main, borrowed, process, foundViewing>>

\* restore_after_interrupt
TakeSaved ==
  /\ IF savedTty # "none" THEN Watches("take_saved", "restore_screen") ELSE Watches("take_saved", "raise")
  /\ savedTty' = "none" /\ borrowed' = savedTty
  /\ UNCHANGED <<terminal, cleanup, main, process, history>>

WatcherRestoresScreen ==
  /\ Watches("restore_screen", "restore_tty")
  /\ screen' = "normal"
  /\ UNCHANGED <<tty, registry, main, borrowed, process, history>>

WatcherRestoresTty ==
  /\ Watches("restore_tty", "raise")
  /\ tty' = borrowed
  /\ UNCHANGED <<screen, registry, main, borrowed, process, history>>

Raise ==
  /\ Watches("raise", "gone")
  /\ process' = "signalled"
  /\ UNCHANGED <<terminal, registry, main, borrowed, history>>

Watcher == \/ TakeCleanup \/ TakeSaved \/ WatcherRestoresScreen \/ WatcherRestoresTty \/ Raise

Next == Main \/ Signal \/ Watcher

\* The watcher is scheduled. No scan need end, no signal arrive and no key be pressed.
Spec == Init /\ [][Next]_vars /\ WF_vars(Watcher)

-----------------------------------------------------------------------------
(* Properties *)

Restored == tty = Original /\ screen = "normal"

\* Whenever the process ends by itself (q, an error of enter or of the loop, a panic)
\* the terminal is as it was found, wherever an interrupt under way has got to.
ExitRestores == process = "exited" => Restored

\* A registered cleanup can always be honoured: the settings it needs are saved before
\* it is registered and kept until it is withdrawn, and once the watcher has taken it
\* the terminal is restored before the signal ends the process, also when the main
\* thread drops the guard at the same time.
CleanupIsHonoured ==
  /\ (cleanup /\ process = "runs") => savedTty # "none"
  /\ (taken /\ process = "signalled") => Restored

\* An interrupt that comes while the reports are viewed leaves a usable terminal, unless
\* the user was faster to quit.
ViewerIsRestored ==
  (process = "signalled" /\ foundViewing /\ main \in {"view", "read_key"}) => Restored

\* An interrupt always ends the process: the watcher waits for nothing the main thread
\* may hold.
InterruptEnds == watcher # "sigwait" ~> process # "runs"
====
