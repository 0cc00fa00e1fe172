---- MODULE ReportFileProofs ----
(***************************************************************************)
(* The report file, for any number of runs on one destination, of names    *)
(* tried and of chunks: nobody else's file is touched, and what is at the  *)
(* destination, now or after a power loss, was synced whole.               *)
(***************************************************************************)
EXTENDS ReportFile, SequenceTheorems, TLAPS

Places == {"open", "protect", "write", "sync", "rename", "drop", "done", "failed", "killed"}
Holding == {"protect", "write", "sync", "rename", "drop"}
Files == Runs \cup {Old}
Dirs == UNION {[D -> Files] : D \in SUBSET Names}

Types ==
  /\ pc \in [Runs -> Places] /\ attempt \in [Runs -> 0..(Attempts - 1)]
  /\ made \in [Runs -> 0..Size] /\ content \in [Runs -> 0..Size]
  /\ synced \in [Runs -> 0..Size]
  /\ dir \in Dirs /\ past \in Seq(Dirs)

\* What is synced has reached the file, what has reached it was written; all of it once
\* flushed.
Progress ==
  \A r \in Runs : /\ synced[r] <= content[r] /\ content[r] <= made[r]
                  /\ pc[r] \in {"sync", "rename"} => content[r] = Size
                  /\ pc[r] = "rename" => synced[r] = Size

\* The destination of a directory.
Whole(d) == Dest \in DOMAIN d /\ (d[Dest] # Old => synced[d[Dest]] = Size)
AllWhole == Whole(dir) /\ \A k \in 1..Len(past) : Whole(past[k])

Inv == Types /\ Progress /\ OwnsItsTemp /\ AllWhole

-----------------------------------------------------------------------------
\* A temporary name is never the destination's.
LEMMA NamesDiffer == ASSUME Types, NEW r \in Runs PROVE Temp(r) \in Names \ {Dest}
  BY SizesAssumption DEF Types, Temp, Names, Dest

\* A directory is a function from names in use to files.
LEMMA DirsAre == \A d : d \in Dirs <=> /\ DOMAIN d \subseteq Names
                                       /\ d \in [DOMAIN d -> Files]
  BY DEF Dirs

\* The old file is at the destination, and no run has made a file.
LEMMA InitInv == Init => Inv
<1> SUFFICES ASSUME Init PROVE Inv
  OBVIOUS
<1>1. PICK left \in SUBSET (Names \ {Dest}) : dir = [n \in {Dest} \cup left |-> Old]
  BY DEF Init
<1>2. dir \in Dirs
  BY <1>1, DirsAre DEF Names, Files
<1>3. Types
  BY <1>2, SizesAssumption DEF Init, Types, Places
<1>4. Progress /\ OwnsItsTemp
  BY SizesAssumption DEF Init, Progress, OwnsItsTemp
<1>5. AllWhole
  BY <1>1 DEF Init, AllWhole, Whole
<1> QED
  BY <1>3, <1>4, <1>5 DEF Inv

\* Steps that leave the directory alone and every run where it is or on its way out.
LEMMA DirStays ==
  ASSUME Inv, UNCHANGED <<dir, past>>, Types',
         \A r \in Runs : synced[r] = Size => synced'[r] = Size,
         \A r \in Runs : pc'[r] \in Holding => pc[r] \in Holding /\ attempt'[r] = attempt[r]
  PROVE  OwnsItsTemp' /\ AllWhole'
<1>1. OwnsItsTemp'
  BY DEF Inv, OwnsItsTemp, Holding, Temp
<1>2. ASSUME NEW d \in Dirs, Whole(d) PROVE Whole(d)'
  BY <1>2, DirsAre DEF Whole, Files, Dest
<1>3. AllWhole'
  BY <1>2 DEF Inv, AllWhole, Types
<1> QED
  BY <1>1, <1>3

\* A new directory with a whole destination joins those a power loss may bring back.
LEMMA EnterKeepsWhole ==
  ASSUME Inv, NEW d \in Dirs, Whole(d), Enter(d), UNCHANGED synced
  PROVE  dir' \in Dirs /\ past' \in Seq(Dirs) /\ AllWhole'
<1>1. dir' = d /\ past' = Append(past, dir) /\ past \in Seq(Dirs) /\ dir \in Dirs
  BY DEF Inv, Types, Enter
<1>2. /\ past' \in Seq(Dirs) /\ Len(past') = Len(past) + 1
      /\ \A k \in 1..Len(past') : past'[k] = IF k = Len(past) + 1 THEN dir ELSE past[k]
  BY <1>1
<1>3. \A e : Whole(e) => Whole(e)'
  BY DEF Whole, Dest
<1>4. Whole(dir)'
  BY <1>1, <1>3 DEF Whole
<1>5. \A k \in 1..Len(past') : Whole(past'[k])
  BY <1>2 DEF Inv, AllWhole
<1> QED
  BY <1>1, <1>2, <1>4, <1>5 DEF AllWhole, Whole, Dest

\* A run's own name apart, the others keep theirs.
LEMMA OthersOwn ==
  ASSUME Inv, NEW r \in Runs, UNCHANGED attempt,
         \A q \in Runs \ {r} : pc'[q] = pc[q],
         \A n \in DOMAIN dir \ {Dest} : dir[n] # r => n \in DOMAIN dir' /\ dir'[n] = dir[n],
         pc'[r] \in Holding => Temp(r) \in DOMAIN dir' /\ dir'[Temp(r)] = r
  PROVE  OwnsItsTemp'
<1>1. ASSUME NEW q \in Runs \ {r}, pc'[q] \in Holding
      PROVE  Temp(q) \in DOMAIN dir' /\ dir'[Temp(q)] = q
  <2>1. Temp(q) \in DOMAIN dir /\ dir[Temp(q)] = q
    BY <1>1 DEF Inv, OwnsItsTemp, Holding
  <2> QED
    BY <2>1, NamesDiffer DEF Inv
<1> QED
  BY <1>1 DEF OwnsItsTemp, Holding, Temp

\* create_new takes a free name, so nobody loses a file.
LEMMA OpenTempInv == ASSUME Inv, NEW r \in Runs, OpenTemp(r) PROVE Inv'
<1> DEFINE d == [n \in DOMAIN dir \cup {Temp(r)} |-> IF n = Temp(r) THEN r ELSE dir[n]]
<1>1. /\ Enter(d) /\ Temp(r) \notin DOMAIN dir /\ Temp(r) \in Names \ {Dest}
      /\ pc[r] = "open" /\ pc' = [pc EXCEPT ![r] = "protect"]
      /\ UNCHANGED <<attempt, made, content, synced>>
  BY NamesDiffer DEF OpenTemp, Goto, data, Inv
<1>2. d \in Dirs
  BY <1>1, DirsAre DEF Inv, Types, Files
<1>3. Whole(d)
  BY <1>1 DEF Inv, AllWhole, Whole
<1>4. Types' /\ AllWhole'
  BY <1>1, <1>2, <1>3, EnterKeepsWhole DEF Inv, Types, Places
<1>5. Progress'
  BY <1>1 DEF Inv, Types, Progress
<1>6. dir' = d
  BY <1>1 DEF Enter
<1>7. OwnsItsTemp'
  BY <1>1, <1>6, OthersOwn DEF Inv, Types
<1> QED
  BY <1>4, <1>5, <1>7 DEF Inv

\* The rename moves the run's own file, which has been synced whole.
LEMMA RenameInv == ASSUME Inv, NEW r \in Runs, Rename(r) PROVE Inv' /\ dir'[Dest] = r
<1> DEFINE d == Moved(Temp(r))
<1>1. /\ Enter(d) /\ Temp(r) \in DOMAIN dir /\ Temp(r) \in Names \ {Dest}
      /\ pc[r] = "rename" /\ pc' = [pc EXCEPT ![r] = "done"]
      /\ UNCHANGED <<attempt, made, content, synced>>
  BY NamesDiffer DEF Rename, Goto, data, Inv
<1>2. dir[Temp(r)] = r /\ synced[r] = Size
  BY <1>1 DEF Inv, OwnsItsTemp, Progress
<1>3. d = [n \in (DOMAIN dir \ {Temp(r)}) \cup {Dest} |-> IF n = Dest THEN r ELSE dir[n]]
  BY <1>2 DEF Moved, Without
<1>4. d \in Dirs /\ Whole(d) /\ d[Dest] = r
  <2>1. Dest \in Names
    BY DEF Names
  <2>2. DOMAIN d = (DOMAIN dir \ {Temp(r)}) \cup {Dest} /\ d[Dest] = r
    BY <1>3
  <2>3. dir \in [DOMAIN dir -> Files] /\ DOMAIN dir \subseteq Names
    BY DirsAre DEF Inv, Types
  <2>4. \A n \in DOMAIN d : d[n] \in Files
    BY <1>3, <2>2, <2>3 DEF Files
  <2>5. d \in [DOMAIN d -> Files]
    BY <1>3, <2>4
  <2>6. d \in Dirs
    BY <2>1, <2>2, <2>3, <2>5, DirsAre
  <2> QED
    BY <1>2, <2>2, <2>6 DEF Whole
<1>5. Types' /\ AllWhole'
  BY <1>1, <1>4, EnterKeepsWhole DEF Inv, Types, Places
<1>6. Progress'
  BY <1>1 DEF Inv, Types, Progress
<1>7. dir' = d
  BY <1>1 DEF Enter
<1>8. OwnsItsTemp'
  BY <1>1, <1>2, <1>3, <1>7, OthersOwn DEF Inv, Types, Holding
<1> QED
  BY <1>4, <1>5, <1>6, <1>7, <1>8 DEF Inv

\* Drop removes the run's own file or nothing.
LEMMA DropInv == ASSUME Inv, NEW r \in Runs, Drop(r) PROVE Inv' /\ dir'[Dest] = dir[Dest]
<1>1. /\ pc[r] = "drop" /\ pc' = [pc EXCEPT ![r] = "failed"]
      /\ UNCHANGED <<attempt, made, content, synced>> /\ Temp(r) \in Names \ {Dest}
  BY NamesDiffer DEF Drop, Goto, data, Inv
<1>2. Progress'
  BY <1>1 DEF Inv, Types, Progress
<1>3. CASE UNCHANGED <<dir, past>>
  <2>1. Types'
    BY <1>1, <1>3 DEF Inv, Types, Places
  <2> QED
    BY <1>1, <1>2, <1>3, <2>1, DirStays DEF Inv, Types, Holding
<1>4. CASE Temp(r) \in DOMAIN dir /\ Enter(Without(Temp(r)))
  <2> DEFINE d == Without(Temp(r))
  <2>1. d = [n \in DOMAIN dir \ {Temp(r)} |-> dir[n]] /\ dir' = d /\ dir[Temp(r)] = r
    BY <1>1, <1>4 DEF Without, Enter, Inv, OwnsItsTemp
  <2>2. d \in Dirs /\ Whole(d) /\ d[Dest] = dir[Dest]
    BY <1>1, <2>1, DirsAre DEF Inv, Types, AllWhole, Whole
  <2>3. Types' /\ AllWhole'
    BY <1>1, <1>4, <2>2, EnterKeepsWhole DEF Inv, Types, Places
  <2>4. OwnsItsTemp'
    BY <1>1, <2>1, OthersOwn DEF Inv, Types, Holding
  <2> QED
    BY <1>2, <2>1, <2>2, <2>3, <2>4 DEF Inv
<1> QED
  BY <1>3, <1>4 DEF Drop

\* A write, a flush or a sync moves a run's data on.
LEMMA DataInv ==
  ASSUME Inv, NEW r \in Runs, Write(r) \/ Flush(r) \/ SyncAll(r)
  PROVE  Inv' /\ dir' = dir
<1>1. Types'
  <2>1. CASE Write(r)
    <3>1. made[r] + 1 \in 0..Size /\ made' = [made EXCEPT ![r] = made[r] + 1]
      BY <2>1, SizesAssumption DEF Write, Inv, Types
    <3>2. PICK n \in content[r]..made'[r] : content' = [content EXCEPT ![r] = n]
      BY <2>1 DEF Write
    <3>3. n \in 0..Size
      BY <3>1, <3>2, SizesAssumption DEF Inv, Types
    <3> QED
      BY <2>1, <3>1, <3>2, <3>3 DEF Write, Inv, Types
  <2>2. CASE Flush(r)
    BY <2>2 DEF Inv, Types, Places, Flush, Goto
  <2>3. CASE SyncAll(r)
    BY <2>3 DEF Inv, Types, Places, SyncAll, Goto
  <2> QED
    BY <2>1, <2>2, <2>3
<1>2. Progress'
  <2>1. CASE Write(r)
    BY <2>1, SizesAssumption DEF Inv, Types, Progress, Write
  <2>2. CASE Flush(r)
    BY <2>2, SizesAssumption DEF Inv, Types, Progress, Flush, Goto
  <2>3. CASE SyncAll(r)
    BY <2>3, SizesAssumption DEF Inv, Types, Progress, SyncAll, Goto
  <2> QED
    BY <2>1, <2>2, <2>3
<1>3. UNCHANGED <<dir, past, attempt>>
  BY DEF Write, Flush, SyncAll
<1>4. \A q \in Runs : synced[q] = Size => synced'[q] = Size
  BY SizesAssumption DEF Inv, Types, Progress, Write, Flush, SyncAll
<1>5. \A q \in Runs : pc'[q] \in Holding => pc[q] \in Holding
  BY DEF Inv, Types, Holding, Write, Flush, SyncAll, Goto
<1> QED
  BY <1>1, <1>2, <1>3, <1>4, <1>5, DirStays DEF Inv

\* The other steps change no file.
LEMMA ControlInv ==
  ASSUME Inv, NEW r \in Runs,
         NameTaken(r) \/ OpenFails(r) \/ Protect(r) \/ Fails(r) \/ Kill(r)
  PROVE  Inv' /\ dir' = dir
<1>1. UNCHANGED <<made, content, synced, dir, past>>
  BY DEF NameTaken, OpenFails, Protect, Fails, Kill, data
<1>2. Types'
  <2>1. attempt' \in [Runs -> 0..(Attempts - 1)]
    <3>1. CASE NameTaken(r) /\ attempt[r] + 1 < Attempts
      <4>1. attempt[r] + 1 \in 0..(Attempts - 1)
        BY <3>1, SizesAssumption DEF Inv, Types
      <4> QED
        BY <3>1, <4>1 DEF NameTaken, Inv, Types
    <3>2. CASE UNCHANGED attempt
      BY <3>2 DEF Inv, Types
    <3> QED
      BY <3>1, <3>2 DEF NameTaken, OpenFails, Protect, Fails, Kill
  <2>2. pc' \in [Runs -> Places]
    BY DEF Inv, Types, Places, NameTaken, OpenFails, Protect, Fails, Kill, Goto
  <2> QED
    BY <1>1, <2>1, <2>2 DEF Inv, Types
<1>3. \A q \in Runs : pc'[q] # pc[q] => pc'[q] \notin {"sync", "rename"}
  BY DEF Inv, Types, NameTaken, OpenFails, Protect, Fails, Kill, Goto
<1>4. Progress'
  BY <1>1, <1>3 DEF Inv, Progress
<1>5. \A q \in Runs : pc'[q] \in Holding => pc[q] \in Holding /\ attempt'[q] = attempt[q]
  BY DEF Inv, Types, Holding, NameTaken, OpenFails, Protect, Fails, Kill, Goto
<1> QED
  BY <1>1, <1>2, <1>4, <1>5, DirStays DEF Inv

\* The oldest directory is no longer one a power loss may bring back.
LEMMA CommitInv == Inv /\ Commit => Inv' /\ dir' = dir
<1> SUFFICES ASSUME Inv, Commit PROVE Inv' /\ dir' = dir
  OBVIOUS
<1>1. UNCHANGED <<pc, attempt, made, content, synced, dir>> /\ past' = Tail(past)
      /\ past \in Seq(Dirs) /\ past # <<>>
  BY DEF Commit, data, Inv, Types
<1>2. /\ past' \in Seq(Dirs) /\ Len(past') = Len(past) - 1
      /\ \A k \in 1..Len(past') : past'[k] = past[k + 1] /\ k + 1 \in 1..Len(past)
  BY <1>1
<1>3. \A e : Whole(e) => Whole(e)'
  BY <1>1 DEF Whole, Dest
<1>4. Whole(dir)'
  BY <1>1 DEF Inv, AllWhole, Whole, Dest
<1>5. \A k \in 1..Len(past') : Whole(past'[k])
  BY <1>2 DEF Inv, AllWhole
<1>6. AllWhole'
  BY <1>1, <1>4, <1>5 DEF AllWhole, Whole, Dest
<1>7. Types' /\ Progress' /\ OwnsItsTemp'
  BY <1>1, <1>2 DEF Inv, Types, Progress, OwnsItsTemp, Temp
<1> QED
  BY <1>1, <1>6, <1>7 DEF Inv

\* The directory is one of those that were whole, and no run is left to own anything.
LEMMA PowerLossInv == Inv /\ PowerLoss => Inv'
<1> SUFFICES ASSUME Inv, PowerLoss PROVE Inv'
  OBVIOUS
<1>1. PICK k \in 1..(Len(past) + 1) : dir' = Append(past, dir)[k]
  BY DEF PowerLoss
<1>2. past \in Seq(Dirs) /\ dir \in Dirs /\ Len(past) \in Nat
  BY DEF Inv, Types
<1>3. dir' \in Dirs /\ Whole(dir')
  <2>1. CASE k = Len(past) + 1
    BY <1>1, <1>2, <2>1 DEF Inv, AllWhole
  <2>2. CASE k \in 1..Len(past)
    BY <1>1, <1>2, <2>2 DEF Inv, AllWhole
  <2> QED
    BY <1>2, <2>1, <2>2
<1>4. UNCHANGED <<attempt, made, synced>> /\ past' = <<>>
  BY DEF PowerLoss
<1>5. AllWhole'
  BY <1>3, <1>4 DEF AllWhole, Whole, Dest
<1>6. \A r \in Runs : content'[r] \in synced[r]..content[r]
  BY DEF PowerLoss
<1>7. Types'
  BY <1>3, <1>4 DEF PowerLoss, Inv, Types, Places, Ended
<1>8. \A r \in Runs : pc'[r] \in Ended \cup {"open"}
  BY DEF PowerLoss, Ended
<1>9. OwnsItsTemp'
  BY <1>8 DEF OwnsItsTemp, Ended
<1>10. ASSUME NEW r \in Runs PROVE synced'[r] <= content'[r] /\ content'[r] <= made'[r]
  <2>1. /\ synced[r] \in Nat /\ content[r] \in Nat /\ made[r] \in Nat
        /\ content[r] <= made[r]
    BY SizesAssumption DEF Inv, Types, Progress
  <2> QED
    BY <1>4, <1>6, <2>1
<1>11. Progress'
  BY <1>8, <1>10 DEF Progress, Ended
<1> QED
  BY <1>5, <1>7, <1>9, <1>11 DEF Inv

\* All steps of a run, of which only the rename changes the destination.
LEMMA StepInv == ASSUME Inv, NEW r \in Runs, Step(r) \/ Kill(r)
                 PROVE  Inv' /\ (dir'[Dest] = dir[Dest] \/ Rename(r))
<1>1. OpenTemp(r) => dir'[Dest] = dir[Dest]
  BY NamesDiffer DEF OpenTemp, Enter, Inv, AllWhole, Whole
<1> QED
  BY <1>1, OpenTempInv, RenameInv, DropInv, DataInv, ControlInv DEF Step

\* Every step keeps the invariant.
LEMMA NextInv == Inv /\ [Next]_vars => Inv'
<1>1. Inv /\ UNCHANGED vars => Inv'
  BY DEF vars, Inv, Types, Progress, OwnsItsTemp, AllWhole, Whole, Temp, Dest
<1> QED
  BY <1>1, StepInv, CommitInv, PowerLossInv DEF Next

\* The invariant of the report file.
LEMMA Invariance == Spec => []Inv
  BY InitInv, NextInv, PTL DEF Spec

-----------------------------------------------------------------------------
\* From create_new until the rename or the removal the temporary name leads to the file of
\* this very run: however many OutputFiles share a destination and a PID, none writes
\* into, renames or removes the file of another.
THEOREM OwnFilesOnly == Spec => []OwnsItsTemp
<1>1. Inv => OwnsItsTemp
  BY DEF Inv
<1> QED
  BY Invariance, <1>1, PTL

\* At every moment, after kills and power losses too, the destination is the old file or a
\* report with all its chunks.
THEOREM OldOrWhole == Spec => []DestIsWhole
<1>1. Inv => DestIsWhole
  <2> SUFFICES ASSUME Inv, dir[Dest] # Old PROVE content[dir[Dest]] = Size
    BY DEF Inv, AllWhole, Whole, DestIsWhole
  <2>1. dir[Dest] \in Runs /\ synced[dir[Dest]] = Size
    BY DirsAre DEF Inv, Types, AllWhole, Whole, Files
  <2> QED
    BY <2>1, SizesAssumption DEF Inv, Types, Progress
<1> QED
  BY Invariance, <1>1, PTL

\* The same of each directory the disk may still hold: persist syncs before it renames, so
\* a rename that survives a power loss leads to data that does.
THEOREM WholeAfterPowerLoss == Spec => []DestSurvivesPowerLoss
<1>1. Inv => DestSurvivesPowerLoss
  BY DEF Inv, AllWhole, Whole, DestSurvivesPowerLoss
<1> QED
  BY Invariance, <1>1, PTL

\* Only a rename at the end of persist changes the destination, and only to the file of the
\* run that does it: no failed, dropped or killed OutputFile does.
THEOREM ReplacedBySuccess == Spec => OnlySuccessReplaces
<1> DEFINE Replaces == \/ dir'[Dest] = dir[Dest]
                       \/ PowerLoss
                       \/ \E r \in Runs : pc[r] # "done" /\ pc'[r] = "done" /\ dir'[Dest] = r
<1>1. Inv /\ [Next]_vars => [Replaces]_vars
  <2>1. ASSUME Inv, NEW r \in Runs, Rename(r) PROVE Replaces
    <3>1. dir'[Dest] = r
      BY <2>1, RenameInv
    <3>2. pc[r] # "done" /\ pc'[r] = "done"
      BY <2>1 DEF Rename, Goto, Inv, Types
    <3> QED
      BY <3>1, <3>2
  <2> QED
    BY <2>1, StepInv, CommitInv DEF Next
<1> QED
  BY Invariance, <1>1, PTL DEF Spec, OnlySuccessReplaces
====
