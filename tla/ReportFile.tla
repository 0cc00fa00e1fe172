---- MODULE ReportFile ----
(***************************************************************************)
(* --output PATH (OutputFile in main.rs): the report goes to a private     *)
(* temporary file beside the destination, and a rename replaces the        *)
(* destination when all of it is on disk. Several runs may share one       *)
(* destination and, across PID namespaces or after a crash, one PID. A run *)
(* may be killed at any point, and the machine may lose power.             *)
(*                                                                         *)
(* A file is named by the run that created it. Its contents are counted in *)
(* chunks: a report is whole when it has Size of them.                     *)
(***************************************************************************)
EXTENDS Naturals, Sequences, FiniteSets

CONSTANTS
  Runs,       \* runs of shuvscan with this --output
  PidOf,      \* the process ID of each run
  Attempts,   \* temporary names tried (16 in the code)
  Size,       \* chunks of a whole report
  Old         \* any file of before: the destination's, and those left by killed runs

ASSUME SizesAssumption == Attempts \in Nat \ {0} /\ Size \in Nat \ {0}
ASSUME OldAssumption == Old \notin Runs

VARIABLES
  pc,          \* "open", "protect", "write", "sync", "rename", "drop"; "done", "failed"
               \* or "killed" at the end
  attempt,     \* names tried
  made,        \* chunks a run has written to its BufWriter
  content,     \* chunks that have reached its file
  synced,      \* chunks that would survive a power loss
  dir,         \* the directory: the file under each name in use
  past         \* directories that a power loss may bring back, oldest first
vars == <<pc, attempt, made, content, synced, dir, past>>

Dest == <<"dest">>
Temp(r) == <<PidOf[r], attempt[r]>>
Names == {Dest} \cup {<<PidOf[r], k>> : r \in Runs, k \in 0..(Attempts - 1)}

Init ==
  /\ pc = [r \in Runs |-> "open"]
  /\ attempt = [r \in Runs |-> 0]
  /\ made = [r \in Runs |-> 0]
  /\ content = [r \in Runs |-> 0]
  /\ synced = [r \in Runs |-> 0]
  /\ \E left \in SUBSET (Names \ {Dest}) : dir = [n \in {Dest} \cup left |-> Old]
  /\ past = <<>>

Goto(r, state) == pc' = [pc EXCEPT ![r] = state]
\* A change of the directory reaches the disk some time later.
Enter(newDir) == dir' = newDir /\ past' = Append(past, dir)
Without(name) == [n \in DOMAIN dir \ {name} |-> dir[n]]
data == <<made, content, synced>>

-----------------------------------------------------------------------------
(* OutputFile::create *)

\* Mutant of OpenTemp: without create_new the file of that name is taken over.
OpenTempShared(r) ==
  /\ pc[r] = "open"
  /\ Enter([n \in DOMAIN dir \cup {Temp(r)} |-> IF n = Temp(r) THEN r ELSE dir[n]])
  /\ Goto(r, "protect")
  /\ UNCHANGED <<attempt, data>>

\* open with create_new: the name was free.
OpenTemp(r) ==
  /\ pc[r] = "open" /\ Temp(r) \notin DOMAIN dir
  /\ Enter([n \in DOMAIN dir \cup {Temp(r)} |-> IF n = Temp(r) THEN r ELSE dir[n]])
  /\ Goto(r, "protect")
  /\ UNCHANGED <<attempt, data>>

\* Mutant of NameTaken: the names are tried again from the first.
NameTakenForever(r) ==
  /\ pc[r] = "open" /\ Temp(r) \in DOMAIN dir
  /\ attempt' = [attempt EXCEPT ![r] = (@ + 1) % Attempts]
  /\ UNCHANGED <<pc, data, dir, past>>

\* AlreadyExists: the next name, and an error after the last one.
NameTaken(r) ==
  /\ pc[r] = "open" /\ Temp(r) \in DOMAIN dir
  /\ IF attempt[r] + 1 < Attempts
       THEN attempt' = [attempt EXCEPT ![r] = @ + 1] /\ UNCHANGED pc
       ELSE Goto(r, "failed") /\ UNCHANGED attempt
  /\ UNCHANGED <<data, dir, past>>

\* The destination is a directory, or open fails for another reason.
OpenFails(r) ==
  /\ pc[r] = "open"
  /\ Goto(r, "failed")
  /\ UNCHANGED <<attempt, data, dir, past>>

\* metadata and set_permissions. There is no OutputFile yet for an error to drop.
Protect(r) ==
  /\ pc[r] = "protect"
  /\ Goto(r, "write") \/ Goto(r, "failed")
  /\ UNCHANGED <<attempt, data, dir, past>>

-----------------------------------------------------------------------------
(* The report, written while the scan goes on or after it *)

\* BufWriter passes any part of what it holds on to the file.
Write(r) ==
  /\ pc[r] = "write" /\ made[r] < Size
  /\ made' = [made EXCEPT ![r] = @ + 1]
  /\ \E n \in content[r]..made'[r] : content' = [content EXCEPT ![r] = n]
  /\ UNCHANGED <<pc, attempt, synced, dir, past>>

\* A write, the flush, the sync or the rename fails, or the main thread panics.
Fails(r) ==
  /\ pc[r] \in {"write", "sync", "rename"}
  /\ Goto(r, "drop")
  /\ UNCHANGED <<attempt, data, dir, past>>

-----------------------------------------------------------------------------
(* OutputFile::persist and Drop *)

\* Mutant of Flush: what the BufWriter holds is not passed on.
FlushForgotten(r) ==
  /\ pc[r] = "write" /\ made[r] = Size
  /\ Goto(r, "sync")
  /\ UNCHANGED <<attempt, data, dir, past>>

\* All reports were written.
Flush(r) ==
  /\ pc[r] = "write" /\ made[r] = Size
  /\ content' = [content EXCEPT ![r] = made[r]]
  /\ Goto(r, "sync")
  /\ UNCHANGED <<attempt, made, synced, dir, past>>

\* Mutant of SyncAll: no sync.
SyncNothing(r) ==
  /\ pc[r] = "sync"
  /\ Goto(r, "rename")
  /\ UNCHANGED <<attempt, data, dir, past>>

SyncAll(r) ==
  /\ pc[r] = "sync"
  /\ synced' = [synced EXCEPT ![r] = content[r]]
  /\ Goto(r, "rename")
  /\ UNCHANGED <<attempt, made, content, dir, past>>

Moved(name) == [n \in DOMAIN Without(name) \cup {Dest} |->
                  IF n = Dest THEN dir[name] ELSE dir[n]]

\* Drop then finds persisted set and leaves the name alone.
Rename(r) ==
  /\ pc[r] = "rename" /\ Temp(r) \in DOMAIN dir
  /\ Enter(Moved(Temp(r)))
  /\ Goto(r, "done")
  /\ UNCHANGED <<attempt, data>>

\* Mutant of Drop: what was written so far is kept for the user.
DropPublishes(r) ==
  /\ pc[r] = "drop"
  /\ Temp(r) \in DOMAIN dir /\ Enter(Moved(Temp(r)))
  /\ Goto(r, "failed")
  /\ UNCHANGED <<attempt, data>>

\* remove_file may fail, and its error is ignored.
Drop(r) ==
  /\ pc[r] = "drop"
  /\ \/ Temp(r) \in DOMAIN dir /\ Enter(Without(Temp(r)))
     \/ UNCHANGED <<dir, past>>
  /\ Goto(r, "failed")
  /\ UNCHANGED <<attempt, data>>

Step(r) == \/ OpenTemp(r) \/ NameTaken(r) \/ OpenFails(r) \/ Protect(r)
           \/ Write(r) \/ Fails(r)
           \/ Flush(r) \/ SyncAll(r) \/ Rename(r) \/ Drop(r)

-----------------------------------------------------------------------------
(* Faults *)

Ended == {"done", "failed", "killed"}

\* SIGKILL, or an interrupt: the watcher raises the signal again and nothing is dropped.
Kill(r) ==
  /\ pc[r] \notin Ended \cup {"open"}
  /\ Goto(r, "killed")
  /\ UNCHANGED <<attempt, data, dir, past>>

Commit ==
  /\ past # <<>>
  /\ past' = Tail(past)
  /\ UNCHANGED <<pc, attempt, data, dir>>

\* The file system keeps the order of its directory changes; of the data it may lose
\* anything that was not synced.
PowerLoss ==
  /\ \E k \in 1..(Len(past) + 1) : dir' = Append(past, dir)[k]
  /\ past' = <<>>
  /\ content' \in {c \in [Runs -> 0..Size] :
                     \A r \in Runs : c[r] \in synced[r]..content[r]}
  /\ pc' = [r \in Runs |-> IF pc[r] \in Ended \cup {"open"} THEN pc[r] ELSE "killed"]
  /\ UNCHANGED <<attempt, made, synced>>

Next == \/ \E r \in Runs : Step(r) \/ Kill(r)
        \/ Commit \/ PowerLoss

\* A run that is not killed goes on.
Spec == Init /\ [][Next]_vars /\ \A r \in Runs : WF_vars(Step(r))

-----------------------------------------------------------------------------
(* Properties *)

\* "Replacing the destination atomically after a successful write" (README.md): a
\* reader, or the machine after a power loss, finds the old file or a whole report at
\* the destination. No run ever leaves it empty, missing or cut short.
DestIsWhole ==
  /\ Dest \in DOMAIN dir
  /\ dir[Dest] # Old => content[dir[Dest]] = Size

\* The same of every directory a power loss could bring back.
DestSurvivesPowerLoss ==
  \A k \in 1..Len(past) : past[k][Dest] # Old => synced[past[k][Dest]] = Size

\* A run whose temporary name another run may choose too (the PIDs are equal) still
\* has its own file under it until it gives the name up: no run writes into, renames
\* or removes the file of another.
OwnsItsTemp ==
  \A r \in Runs :
    pc[r] \in {"protect", "write", "sync", "rename", "drop"} =>
      Temp(r) \in DOMAIN dir /\ dir[Temp(r)] = r

\* The destination changes only by the rename of a run that has written all of its
\* report, except when a power loss undoes it: a run whose output was unwritable (exit
\* code 2), that panicked or was killed has left the destination as it was.
OnlySuccessReplaces ==
  [][ \/ dir'[Dest] = dir[Dest]
      \/ PowerLoss
      \/ \E r \in Runs : pc[r] # "done" /\ pc'[r] = "done" /\ dir'[Dest] = r ]_vars

\* Every run comes to an end, whatever temporary files earlier ones have left.
EveryRunEnds == \A r \in Runs : <>(pc[r] \in Ended)
====
