---- MODULE TempWalk ----
(***************************************************************************)
(* The walk of one temporary directory by SHUV-FS-002 (probes/mod.rs):     *)
(* find -xdev collects executables that run as root, a shell looks up the  *)
(* mount options of each in mountinfo, and at the end awk looks in it once *)
(* more for a reason to excuse each complaint of find. Mounts come and go  *)
(* meanwhile. A path is a sequence of names; its device and options are    *)
(* those of the mount that the kernel would reach by walking it.           *)
(***************************************************************************)
EXTENDS Naturals, FiniteSets, SequencesExt

CONSTANTS
  Root,         \* the directory, as pwd -P gives it
  Entries,      \* what is below it, [path, is], in the order of find
  Tables,       \* what mountinfo may hold at first: sequences of mounts
  Mountable,    \* mounts that may be added, [point, device, runs, refuses]
  Mounts        \* bound on the changes of mountinfo

Path == Seq(STRING)
Prefix(p, q) == Len(p) <= Len(q) /\ SubSeq(q, 1, Len(p)) = p
Kind == {"suspect", "directory", "locked", "broken"}   \* broken: any other error of find
Suspects == {Entries[k].path : k \in {j \in DOMAIN Entries : Entries[j].is = "suspect"}}

\* find comes to a directory before it comes to what is in it, and to nothing twice.
ASSUME EntriesAssumption ==
  /\ Root \in Path /\ Entries \in Seq([path : Path, is : Kind])
  /\ \A k \in DOMAIN Entries :
       LET p == Entries[k].path IN
       /\ Prefix(Root, p) /\ p # Root /\ \A j \in DOMAIN Entries : Entries[j].path = p => j = k
       /\ \A n \in (Len(Root) + 1)..(Len(p) - 1) :
            \E j \in 1..(k - 1) : Entries[j].path = SubSeq(p, 1, n) /\ Entries[j].is # "suspect"

\* runs: neither nosuid nor noexec; refuses: even root may not stat it (FUSE).
Mounted == [point : Path, device : Nat, runs : BOOLEAN, refuses : BOOLEAN]
\* A row of mountinfo names the row it is mounted on; the first is mounted on nothing.
MountRow == [point : Path, device : Nat, runs : BOOLEAN, refuses : BOOLEAN, on : Nat]

\* Of the first n rows, m is the one of the longest point on the way to path, and of
\* equal ones the last.
Covers(rows, n, m, path) ==
  /\ m \in 1..n /\ Prefix(rows[m].point, path)
  /\ \A k \in 1..n : Prefix(rows[k].point, path) =>
       \/ Len(rows[k].point) < Len(rows[m].point)
       \/ Len(rows[k].point) = Len(rows[m].point) /\ k <= m

\* What mountinfo holds when no mount has been covered by a later one above it (see the
\* README): a mount is on what was reached there before. None is on a suspect, a file.
MountInfo(rows) ==
  /\ rows \in Seq(MountRow) /\ rows # <<>> /\ rows[1].point = <<>> /\ rows[1].on = 0
  /\ \A n \in 2..Len(rows) : Covers(rows, n - 1, rows[n].on, rows[n].point)
  /\ \A k, n \in DOMAIN rows :
       k < n /\ Prefix(rows[n].point, rows[k].point) => rows[n].point = rows[k].point
  /\ \A n \in DOMAIN rows : rows[n].point \notin Suspects
ASSUME TablesAssumption == \A rows \in Tables : MountInfo(rows)
ASSUME MountableAssumption ==
  Mountable \subseteq Mounted /\ \A m \in Mountable : m.point \notin Suspects

VARIABLES
  table,        \* mountinfo
  moves,        \* how often it has changed
  moved,        \* the points of these changes
  walk,         \* "start", "find", "explain" or "done"
  position,     \* how far find has come in Entries
  pruned,       \* directories that find has not entered
  batch,        \* suspects find has not handed to the shell yet
  reported,     \* suspects that have been printed
  complaints,   \* paths find could not enter; <<>> for any other complaint
  partial       \* SHUVSCAN_PARTIAL has been printed
walkVars == <<table, moves, moved, walk, position, pruned, batch, reported, complaints, partial>>

WalkInit ==
  /\ table \in Tables
  /\ moves = 0 /\ moved = {} /\ walk = "start" /\ position = 1 /\ pruned = {}
  /\ batch = {} /\ reported = {} /\ complaints = {} /\ partial = FALSE
mountVars == <<table, moves, moved>>

-----------------------------------------------------------------------------
(* The kernel: walking a path from row 1, onto whatever is mounted on the way *)

Onto(row, point) ==
  LET on[r \in 1..Len(table)] ==
        LET next == {n \in DOMAIN table : table[n].on = r /\ table[n].point = point}
        IN IF next = {} THEN r ELSE on[CHOOSE n \in next : TRUE]
  IN on[row]
Reached(path) ==
  FoldLeftDomain(LAMBDA row, k : Onto(row, SubSeq(path, 1, k)), Onto(1, <<>>), path)

-----------------------------------------------------------------------------
(* The script *)

\* mountinfo is readable and the directory can be resolved, or not.
Start ==
  /\ walk = "start"
  /\ \/ walk' = "find" /\ UNCHANGED partial
     \/ walk' = "done" /\ partial' = TRUE
  /\ UNCHANGED <<mountVars, position, pruned, batch, reported, complaints>>

Foreign(path) == table[Reached(path)].device # table[Reached(Root)].device

\* find may not enter: what is mounted there, or the directory itself, refuses.
Refused(e) ==
  LET m == table[Reached(e.path)]
  IN IF m.point = e.path THEN m.refuses ELSE e.is = "locked"

\* find visits the next entry: -xdev does not enter another device.
Visit ==
  /\ walk = "find" /\ position <= Len(Entries)
  /\ position' = position + 1
  /\ LET e == Entries[position]
         out == \E d \in pruned : Prefix(d, e.path)
         locked == Refused(e)
     IN /\ batch' = batch \cup {p \in {e.path} : ~out /\ e.is = "suspect"}
        /\ pruned' = pruned \cup {p \in {e.path} : ~out /\ e.is # "suspect"
                                                       /\ (locked \/ Foreign(p))}
        /\ complaints' = complaints \cup {p \in {e.path} : ~out /\ locked}
                           \cup {p \in {<<>>} : ~out /\ e.is = "broken"}
  /\ UNCHANGED <<mountVars, walk, reported, partial>>

\* Mutant of OptionsOf: the first of two mounts on one point.
OptionsOfFirst(path) ==
  CHOOSE m \in {n \in DOMAIN table : Prefix(table[n].point, path)} :
    \A n \in DOMAIN table : Prefix(table[n].point, path) =>
      \/ Len(table[n].point) < Len(table[m].point)
      \/ Len(table[n].point) = Len(table[m].point) /\ m <= n

\* shuvscan_mount_options_for: the longest point, and of equal ones the last row.
OptionsOf(path) ==
  CHOOSE m \in {n \in DOMAIN table : Prefix(table[n].point, path)} :
    \A n \in DOMAIN table : Prefix(table[n].point, path) =>
      \/ Len(table[n].point) < Len(table[m].point)
      \/ Len(table[n].point) = Len(table[m].point) /\ n <= m

\* -exec sh ... {} +, when the arguments are many or at the end; the shell reads
\* mountinfo for one suspect after the other, or fails to and complains.
LookUp ==
  /\ walk = "find"
  /\ \E p \in batch :
       /\ batch' = batch \ {p}
       /\ \/ /\ reported' = reported \cup {q \in {p} : table[OptionsOf(q)].runs}
             /\ UNCHANGED complaints
          \/ complaints' = complaints \cup {<<>>} /\ UNCHANGED reported
  /\ UNCHANGED <<mountVars, walk, position, pruned, partial>>

\* Mutant of Excused: any mount point will do.
ExcusedByAnyMount(path) == \E n \in DOMAIN table : table[n].point = path

\* mounts[path], the last row of that point, is not of the device of the directory.
Excused(path) ==
  LET rows == {n \in DOMAIN table : table[n].point = path}
  IN rows # {} /\ \E n \in rows : /\ \A k \in rows : k <= n
                                  /\ table[n].device # table[OptionsOf(Root)].device

\* find has ended; its complaints are read, or awk fails.
FindEnds ==
  /\ walk = "find" /\ position > Len(Entries) /\ batch = {}
  /\ walk' = "explain"
  /\ UNCHANGED <<mountVars, position, pruned, batch, reported, complaints, partial>>

Explain ==
  /\ walk = "explain"
  /\ walk' = "done"
  /\ \/ partial' = \E p \in complaints : p = <<>> \/ ~Excused(p)
     \/ complaints # {} /\ partial' = TRUE
  /\ UNCHANGED <<mountVars, position, pruned, batch, reported, complaints>>

-----------------------------------------------------------------------------
(* Mounts. None is covered by a later one above it: see the README. *)

Change(point) ==
  /\ moves < Mounts /\ walk # "done"
  /\ moves' = moves + 1 /\ moved' = moved \cup {point}
  /\ UNCHANGED <<walk, position, pruned, batch, reported, complaints, partial>>

Mount(m) ==
  /\ \A n \in DOMAIN table : Prefix(m.point, table[n].point) => table[n].point = m.point
  /\ table' = Append(table, [point |-> m.point, device |-> m.device, runs |-> m.runs,
                             refuses |-> m.refuses, on |-> Reached(m.point)])
  /\ Change(m.point)

\* The last row can be taken away; it carries no other.
Unmount ==
  /\ Len(table) > 1
  /\ table' = Front(table)
  /\ Change(Last(table).point)

WalkNext ==
  \/ Start \/ Visit \/ LookUp \/ FindEnds \/ Explain
  \/ Unmount \/ \E m \in Mountable : Mount(m)

-----------------------------------------------------------------------------
(* Properties *)

\* No mount has come or gone on the way to p.
Settled(p) == \A point \in moved : ~Prefix(point, p)
Outside(p) == \E k \in (Len(Root) + 1)..Len(p) : Foreign(SubSeq(p, 1, k))

\* Whatever is mounted elsewhere meanwhile, a suspect on a mount that lets it run as
\* root is printed or the output is marked partial, one on a nosuid or noexec mount is
\* not printed, and neither is one of another file system (-xdev).
SuspectIsReported ==
  walk = "done" => \A p \in Suspects : Settled(p) =>
    /\ table[Reached(p)].runs /\ ~Outside(p) => p \in reported \/ partial
    /\ p \in reported => table[Reached(p)].runs /\ ~Outside(p)

\* "A mount point that refuses stat even to root [...] is therefore skipped silently
\* [...] Any other traversal failure still does" mark the walk partial
\* (README.md:230-233): a directory that could not be entered and is no mount of
\* another device leaves its mark, and so does every other complaint.
UnreadableIsPartial ==
  walk = "done" => \A k \in DOMAIN Entries :
    LET e == Entries[k] IN
      /\ Settled(e.path) /\ ~Outside(e.path) /\ (Refused(e) \/ e.is = "broken")
      /\ \A d \in pruned : ~Prefix(d, e.path) \/ d = e.path
      => partial
====
