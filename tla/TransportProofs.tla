---- MODULE TransportProofs ----
(***************************************************************************)
(* The collector transport, for any number of sessions and of process IDs: *)
(* who owns a process group at each place of execute, and that the groups  *)
(* the scanner has killed stay dead while their PIDs go to others.         *)
(***************************************************************************)
EXTENDS Transport, TLAPS

Group == [owner : Sessions \cup {Other}, leader : {"free", "run", "zombie", "slain"},
          kin : BOOLEAN]

\* Where a call has a collector it has not reaped, and where it is on the registry.
Listed == {"registered", "waiting", "clock", "kill", "unregister", "drop", "dropped"}
Holding == Listed \cup {"spawned", "reap"}
Places == Holding \cup {"idle", "collect", "returned"}

Types ==
  /\ group \in [PIDs -> Group]
  /\ pc \in [Sessions -> Places]
  /\ pid = [s \in Sessions |-> pid[s]]
  /\ how = [s \in Sessions |-> how[s]] /\ result = [s \in Sessions |-> result[s]]

\* A call's PID is its own until it has reaped, and a group has one PID.
Ownership ==
  /\ \A s \in Sessions : pc[s] \in Holding =>
       pid[s] \in PIDs /\ group[pid[s]].owner = s /\ group[pid[s]].leader # "free"
  /\ \A p, q \in PIDs : group[p].owner = group[q].owner /\ group[p].owner \in Sessions => p = q
  /\ \A p \in PIDs : group[p].owner \in Sessions => pc[group[p].owner] # "idle"

\* What is registered belongs to a call at a place between register and unregister.
Registry ==
  \A p \in registered : \E s \in Sessions : pc[s] \in Listed /\ pid[s] = p

Base == Types /\ Ownership /\ Registry

-----------------------------------------------------------------------------
(* What can happen to a group without a step of its call *)

\* h is what g may become: dead processes stay dead, a leader that has ended stays on
\* the process table, and only an empty PID changes hands.
Ages(g, h) ==
  /\ h \in Group
  /\ \/ h.owner = g.owner
     \/ h.owner = Other /\ g.leader = "free" /\ ~g.kin
  /\ h.owner \in Sessions =>
       /\ h.leader = "free" => g.leader = "free"
       /\ h.leader = "run" => g.leader = "run"
       /\ h.kin => g.kin \/ g.leader = "run"

AllAge == group' \in [PIDs -> Group] /\ \A p \in PIDs : Ages(group[p], group'[p])

\* A kill only ages a group, and leaves none of a reachable collector's processes alive.
LEMMA KilledAges == \A g \in Group : /\ Ages(g, Killed(g))
                                     /\ g.owner \in Reachable =>
                                          Killed(g).leader # "run" /\ ~Killed(g).kin
  BY OtherAssumption, ReachableAssumption DEF Killed, Group, Ages, NoOwner

\* The same of all groups when one is killed.
LEMMA KillAges == ASSUME Types, NEW p \in PIDs, KillGroup(p) PROVE AllAge
  BY KilledAges DEF Types, KillGroup, AllAge, Ages, Group

\* Whatever the system does to groups by itself makes them age.
LEMMA OSAges == Types /\ OS => AllAge
<1> SUFFICES ASSUME Types, OS PROVE AllAge
  OBVIOUS
<1> USE OtherAssumption DEF Types, AllAge, Ages, Group, NoOwner
<1>1. ASSUME NEW p \in PIDs, LeaderExits(p) PROVE AllAge
  BY <1>1 DEF LeaderExits
<1>2. ASSUME NEW p \in PIDs, LeaderForks(p) PROVE AllAge
  BY <1>2 DEF LeaderForks
<1>3. ASSUME NEW p \in PIDs, OtherStarts(p) PROVE AllAge
  BY <1>3 DEF OtherStarts, Free
<1>4. ASSUME NEW p \in PIDs, KinExits(p) PROVE AllAge
  BY <1>4 DEF KinExits
<1>5. ASSUME NEW p \in PIDs, KinEscapes(p) PROVE AllAge
  BY <1>5 DEF KinEscapes
<1>6. ASSUME NEW s \in Sessions, EscapedExits(s) PROVE AllAge
  BY <1>6 DEF EscapedExits
<1> QED
  BY <1>1, <1>2, <1>3, <1>4, <1>5, <1>6 DEF OS

\* Ageing takes no PID from a call that holds it: its leader is on the process table.
LEMMA AgeKeepsBase ==
  ASSUME Base, AllAge, UNCHANGED <<pc, pid, how, result, registered>>
  PROVE  Base'
<1> USE DEF Base, Types, AllAge, Ages, Group
<1>1. Types'
  OBVIOUS
<1>2. Ownership'
  <2> USE DEF Ownership
  <2>1. \A p \in PIDs : group'[p].owner \in Sessions => group'[p].owner = group[p].owner
    BY OtherAssumption
  <2>2. ASSUME NEW s \in Sessions, pc[s] \in Holding
        PROVE  pid[s] \in PIDs /\ group'[pid[s]].owner = s /\ group'[pid[s]].leader # "free"
    BY <2>2
  <2> QED
    BY <2>1, <2>2
<1>3. Registry'
  BY DEF Registry
<1> QED
  BY <1>1, <1>2, <1>3

-----------------------------------------------------------------------------
(* The steps of a call *)

\* At first no group is a collector's.
LEMMA InitBase == Init => Base
  BY OtherAssumption DEF Init, Base, Types, Ownership, Registry, Group, Places, Holding, Listed,
     NoOwner

\* The call moves on, and its group at most ages.
Moves(s, to) ==
  /\ AllAge /\ pc' = [pc EXCEPT ![s] = to] /\ UNCHANGED pid
  /\ how' = [r \in Sessions |-> how'[r]] /\ result' = [r \in Sessions |-> result'[r]]

\* A call that moves on keeps what it holds.
LEMMA MoveKeepsTypes ==
  ASSUME Base, NEW s \in Sessions, NEW to \in Places \ {"idle"}, Moves(s, to),
         to \in Holding => pc[s] \in Holding
  PROVE  Types' /\ Ownership'
<1> USE DEF Base, Types, Moves, AllAge, Ages, Group
<1>1. Types'
  OBVIOUS
<1>2. \A p \in PIDs : group'[p].owner \in Sessions => group'[p].owner = group[p].owner
  BY OtherAssumption
<1>3. ASSUME NEW r \in Sessions, pc'[r] \in Holding
      PROVE  pid[r] \in PIDs /\ group'[pid[r]].owner = r /\ group'[pid[r]].leader # "free"
  <2>1. pc[r] \in Holding
    BY <1>3
  <2> QED
    BY <2>1 DEF Ownership
<1>4. Ownership'
  BY <1>2, <1>3 DEF Ownership
<1> QED
  BY <1>1, <1>4

\* Groups that do not change have aged.
LEMMA Unchanging == Types /\ UNCHANGED group => AllAge
  BY OtherAssumption DEF Types, AllAge, Ages, Group

\* The call ends or has reaped: its group, which only it could hold, may be anything that
\* keeps its owner or has none.
Lets(s, to) ==
  /\ to \in {"collect", "returned"} /\ pc' = [pc EXCEPT ![s] = to]
  /\ \A r \in Sessions \ {s} : pid'[r] = pid[r]
  /\ group' \in [PIDs -> Group]
  /\ \A p \in PIDs : \/ group'[p] = group[p]
                     \/ group[p].owner = s /\ group'[p].owner \in {s, Other}
  /\ pid' = [r \in Sessions |-> pid'[r]]
  /\ how' = [r \in Sessions |-> how'[r]] /\ result' = [r \in Sessions |-> result'[r]]

\* A call that lets go of its group takes nothing from the others.
LEMMA LetKeepsTypes ==
  ASSUME Base, NEW s \in Sessions, NEW to, Lets(s, to), pc[s] # "idle"
  PROVE  Types' /\ Ownership'
<1> USE DEF Base, Types, Lets, Places, Holding, Listed
<1>1. Types'
  OBVIOUS
<1>2. \A p \in PIDs : group'[p].owner \in Sessions => group'[p].owner = group[p].owner
  BY OtherAssumption
<1>3. ASSUME NEW r \in Sessions, pc'[r] \in Holding
      PROVE  pid'[r] \in PIDs /\ group'[pid'[r]].owner = r /\ group'[pid'[r]].leader # "free"
  <2>1. r # s /\ pc[r] \in Holding /\ pid'[r] = pid[r]
    BY <1>3
  <2> QED
    BY <2>1 DEF Ownership
<1>4. Ownership'
  BY <1>2, <1>3 DEF Ownership
<1> QED
  BY <1>1, <1>4

\* A PID that a call takes off the registry is on it for no other call.
LEMMA DelistKeepsRegistry ==
  ASSUME Base, NEW s \in Sessions, pc[s] \in Listed, registered' = registered \ {pid[s]},
         \A r \in Sessions \ {s} : pc'[r] = pc[r] /\ pid'[r] = pid[r]
  PROVE  Registry'
  BY DEF Base, Registry

\* One that is not on it, or stays there, changes nothing for the others.
LEMMA OthersKeepRegistry ==
  ASSUME Base, NEW s \in Sessions, UNCHANGED registered,
         pc[s] \in Listed => pc'[s] \in Listed /\ pid'[s] = pid[s],
         \A r \in Sessions \ {s} : pc'[r] = pc[r] /\ pid'[r] = pid[r]
  PROVE  Registry'
  BY DEF Base, Registry

\* The PID of a new collector was free, so no other call held it.
LEMMA SpawnBase == ASSUME Base, NEW s \in Sessions, Spawn(s) PROVE Base'
<1>1. CASE Return(s, "io") /\ UNCHANGED <<group, registered>>
  <2>1. pc[s] = "idle" /\ pc' = [pc EXCEPT ![s] = "returned"]
    BY <1>1 DEF Spawn, At, Return, Go
  <2>2. Types'
    BY <1>1, <2>1 DEF Base, Types, Return, Places
  <2>3. \A r \in Sessions \ {s} : pc'[r] = pc[r] /\ pid'[r] = pid[r]
    BY <1>1, <2>1 DEF Base, Types, Return
  <2>4. Ownership'
    BY <1>1, <2>1, <2>3 DEF Base, Types, Ownership, Holding, Listed
  <2>5. Registry'
    BY <1>1, <2>1, <2>3, OthersKeepRegistry DEF Listed
  <2> QED
    BY <2>2, <2>4, <2>5 DEF Base
<1>2. CASE ~(Return(s, "io") /\ UNCHANGED group)
  <2>1. PICK p \in PIDs : /\ Free(p) /\ pid' = [pid EXCEPT ![s] = p]
                          /\ group' = [group EXCEPT ![p] =
                                          [owner |-> s, leader |-> "run", kin |-> FALSE]]
    BY <1>2 DEF Spawn
  <2>2. /\ pc[s] = "idle" /\ pc' = [pc EXCEPT ![s] = "spawned"]
        /\ UNCHANGED <<how, result, registered>>
    BY <1>2 DEF Spawn, At, Go
  <2>3. Types'
    BY <2>1, <2>2 DEF Base, Types, Places, Holding, Group
  <2>4. \A r \in Sessions \ {s} : pc'[r] = pc[r] /\ pid'[r] = pid[r]
    BY <2>1, <2>2 DEF Base, Types
  <2>5. \A r \in Sessions \ {s} : pc[r] \in Holding => pid[r] # p
    BY <2>1 DEF Base, Ownership, Free
  <2>6. Ownership'
    <3>1. \A q \in PIDs : group[q].owner # s
      BY <2>2 DEF Base, Ownership
    <3>2. group'[p].owner = s /\ group'[p].leader = "run" /\ pid'[s] = p
      BY <2>1 DEF Base, Types
    <3>3. \A q \in PIDs \ {p} : group'[q] = group[q]
      BY <2>1 DEF Base, Types
    <3>4. pc'[s] = "spawned"
      BY <2>2 DEF Base, Types
    <3> QED
      BY <2>4, <2>5, <3>1, <3>2, <3>3, <3>4 DEF Base, Ownership
  <2>7. Registry'
    BY <2>2, <2>4, OthersKeepRegistry DEF Listed
  <2> QED
    BY <2>3, <2>6, <2>7 DEF Base
<1> QED
  BY <1>1, <1>2 DEF Spawn

\* Each step of execute is a spawn, a move, or the release of the group.
LEMMA SessionBase == ASSUME Base, NEW s \in Sessions, Session(s) PROVE Base'
<1> DEFINE Rest == \A r \in Sessions \ {s} : pc'[r] = pc[r] /\ pid'[r] = pid[r]
<1>1. ASSUME NEW to \in Listed, Moves(s, to), pc[s] \in Listed, UNCHANGED registered
      PROVE  Base'
  <2>1. Types' /\ Ownership'
    BY <1>1, MoveKeepsTypes DEF Places, Holding, Listed
  <2>2. Rest /\ pc'[s] = to /\ pid'[s] = pid[s]
    BY <1>1 DEF Moves, Base, Types
  <2>3. Registry'
    BY <1>1, <2>2, OthersKeepRegistry
  <2> QED
    BY <2>1, <2>3 DEF Base
<1>2. CASE Spawn(s)
  BY <1>2, SpawnBase
<1>3. CASE Register(s)
  <2>1. /\ pc[s] = "spawned" /\ registered' = registered \cup {pid[s]}
        /\ Moves(s, "registered")
    BY <1>3, Unchanging DEF Register, At, Go, Moves, os, Base, Types
  <2>2. Types' /\ Ownership'
    BY <2>1, MoveKeepsTypes DEF Places, Holding, Listed
  <2>3. Registry'
    BY <2>1 DEF Moves, Base, Types, Registry, Listed
  <2> QED
    BY <2>2, <2>3 DEF Base
<1>4. CASE StartThreads(s)
  <2>1. pc[s] \in Listed /\ \E to \in Listed : Moves(s, to)
    BY <1>4, Unchanging DEF StartThreads, At, Go, Moves, os, Base, Types, Listed
  <2> QED
    BY <1>1, <1>4, <2>1 DEF StartThreads
<1>5. CASE DropKills(s) \/ Terminate(s)
  <2>1. pc[s] \in Listed /\ KillGroup(pid[s])
    BY <1>5 DEF DropKills, Terminate, At, Listed
  <2>2. AllAge
    BY <2>1, KillAges DEF Base, Ownership, Holding
  <2>3. \E to \in Listed : Moves(s, to)
    BY <1>5, <2>2 DEF DropKills, Terminate, Go, Moves, Base, Types, Listed
  <2> QED
    BY <1>1, <1>5, <2>1, <2>3 DEF DropKills, Terminate
<1>6. CASE DropUnregisters(s)
  <2>1. /\ pc[s] = "dropped" /\ registered' = registered \ {pid[s]}
        /\ Lets(s, "returned")
    BY <1>6 DEF DropUnregisters, At, Go, Return, Lets, os, Base, Types
  <2>2. Types' /\ Ownership'
    BY <2>1, LetKeepsTypes
  <2>3. Rest
    BY <2>1 DEF Lets, Base, Types
  <2>4. Registry'
    BY <2>1, <2>3, DelistKeepsRegistry DEF Listed
  <2> QED
    BY <2>2, <2>4 DEF Base
<1>7. CASE Poll(s) \/ LookAtClock(s)
  <2>1. pc[s] \in Listed /\ \E to \in Listed : Moves(s, to)
    BY <1>7, Unchanging DEF Poll, LookAtClock, Waited, At, Go, Moves, os, Base, Types, Listed
  <2> QED
    BY <1>1, <1>7, <2>1 DEF Poll, LookAtClock
<1>8. CASE Unregister(s)
  <2>1. /\ pc[s] = "unregister" /\ registered' = registered \ {pid[s]}
        /\ Moves(s, "reap")
    BY <1>8, Unchanging DEF Unregister, At, Go, Moves, os, Base, Types
  <2>2. Types' /\ Ownership'
    BY <2>1, MoveKeepsTypes DEF Places, Holding, Listed
  <2>3. Rest
    BY <2>1 DEF Moves, Base, Types
  <2>4. Registry'
    BY <2>1, <2>3, DelistKeepsRegistry DEF Listed
  <2> QED
    BY <2>2, <2>4 DEF Base
<1>9. CASE Reap(s) \/ Collect(s)
  <2>1. pc[s] \in {"reap", "collect"} /\ UNCHANGED registered
    BY <1>9 DEF Reap, Collect, At
  <2>2. /\ group' \in [PIDs -> Group]
        /\ \A p \in PIDs : \/ group'[p] = group[p]
                           \/ group[p].owner = s /\ group'[p].owner \in {s, Other}
    <3>1. CASE Collect(s)
      BY <3>1 DEF Collect, os, Base, Types
    <3>2. CASE Reap(s)
      <4>1. pid[s] \in PIDs /\ group[pid[s]].owner = s
        BY <3>2 DEF Reap, At, Base, Ownership, Holding
      <4> QED
        BY <3>2, <4>1 DEF Reap, NoOwner, Base, Types, Group
    <3> QED
      BY <1>9, <3>1, <3>2
  <2>3. \E to : Lets(s, to)
    BY <1>9, <2>2 DEF Reap, Collect, Return, Go, Lets, Base, Types
  <2>4. Types' /\ Ownership'
    BY <2>1, <2>3, LetKeepsTypes
  <2>5. Rest
    BY <2>3 DEF Lets, Base, Types
  <2>6. Registry'
    BY <2>1, <2>5, OthersKeepRegistry DEF Listed
  <2> QED
    BY <2>4, <2>6 DEF Base
<1> QED
  BY <1>2, <1>3, <1>4, <1>5, <1>6, <1>7, <1>8, <1>9 DEF Session

\* Each other step leaves the calls where they are, and the groups at most age.
LEMMA NextBase == Base /\ [Next]_vars => Base'
<1> SUFFICES ASSUME Base, [Next]_vars PROVE Base'
  OBVIOUS
<1>1. CASE OS
  BY <1>1, OSAges, AgeKeepsBase
     DEF Base, OS, LeaderExits, LeaderForks, OtherStarts, KinExits, KinEscapes, EscapedExits
<1>2. ASSUME NEW s \in Sessions, Session(s) PROVE Base'
  BY <1>2, SessionBase
<1>3. ASSUME NEW s \in Sessions, Expire(s) PROVE Base'
  BY <1>3, Unchanging, AgeKeepsBase DEF Base, Expire, os
<1>4. CASE Interrupt \/ Raise \/ ExitNormally \/ UNCHANGED vars
  BY <1>4, Unchanging, AgeKeepsBase DEF Base, Interrupt, Raise, ExitNormally, vars, os
<1>5. ASSUME NEW p \in PIDs, WatcherKills(p) PROVE Base'
  BY <1>5, KillAges, AgeKeepsBase DEF Base, WatcherKills
<1> QED
  BY <1>1, <1>2, <1>3, <1>4, <1>5 DEF Next, Watcher

\* Ownership and the registry, whoever may be signalled.
LEMMA BaseInvariant == Spec => []Base
  BY InitBase, NextBase, PTL DEF Spec

-----------------------------------------------------------------------------
\* Where execute calls terminate_group, at the end of its wait and when ActiveGroup is
\* dropped by a panic, the PID is that of its own unreaped leader: WNOWAIT keeps the
\* process table entry, so the system cannot have given the PID away. For any number of
\* calls and PIDs, any reuse of PIDs, and with sudo too.
THEOREM NoForeignKill == Spec => []KillsOnlyItsOwn
<1>1. Base => KillsOnlyItsOwn
  BY DEF Base, Ownership, KillsOnlyItsOwn, Holding, Listed
<1> QED
  BY BaseInvariant, <1>1, PTL

\* Whenever the interrupt watcher copies ACTIVE_GROUPS, every PID on it is that of an
\* unreaped collector of a call between register and unregister.
THEOREM RegistrySound == Spec => []RegistryHoldsCollectors
<1>1. Base => RegistryHoldsCollectors
  BY DEF Base, Ownership, Registry, RegistryHoldsCollectors, Holding, Listed
<1> QED
  BY BaseInvariant, <1>1, PTL

-----------------------------------------------------------------------------
(* What the kill achieves when every collector can be signalled *)

\* Where the group has been killed, or there is none.
Over == {"unregister", "reap", "dropped", "collect", "returned"}

Dead ==
  /\ \A s \in Sessions : pc[s] \in Over => ~LiveOf(s)
  /\ \A s \in Sessions : result[s] = "ok" => pc[s] = "returned" /\ s \notin escaped
  /\ \A s \in Sessions : how[s] \in {"ok", "failed"} => pc[s] = "collect"

\* Each owner the watcher has listed is dead or still to be killed; a caught call has
\* spawned, so its session starts no other collector.
Hunt ==
  /\ caught \subseteq {s \in Sessions : pc[s] # "idle"}
  /\ watcher = "kill" =>
       \A s \in caught : ~LiveOf(s) \/ \E p \in snapshot \cap PIDs : group[p].owner = s
  /\ scanner = "signalled" => \A s \in caught : ~LiveOf(s)

Inv == Base /\ Dead /\ Hunt

\* No process of s comes to life in the step.
Decay(s) ==
  \A p \in PIDs : group'[p].owner = s /\ Live(p)' => group[p].owner = s /\ Live(p)
Calm == \A s \in Sessions : pc[s] # "idle" => Decay(s) /\ pc'[s] # "idle"

\* Nothing has run and nothing has been caught at first.
LEMMA InitInv == Init => Inv
  BY InitBase, OtherAssumption DEF Init, Inv, Dead, Hunt, Over

\* A group that ages brings nothing to life.
LEMMA AgeDecays == ASSUME AllAge, NEW s \in Sessions PROVE Decay(s)
  BY OtherAssumption DEF AllAge, Ages, Decay, Live

\* What is dead stays dead in such a step.
LEMMA StaysDead == ASSUME NEW s \in Sessions, Decay(s), ~LiveOf(s) PROVE ~LiveOf(s)'
  BY DEF Decay, LiveOf, Live

\* The kill of the one group a call owns leaves nothing of it.
LEMMA KilledIsDead ==
  ASSUME Base, NEW s \in Reachable, pc[s] \in Holding, KillGroup(pid[s])
  PROVE  ~LiveOf(s)'
<1>1. pid[s] \in PIDs /\ group[pid[s]].owner = s /\ group[pid[s]] \in Group
  BY ReachableAssumption DEF Base, Ownership, Types
<1>2. group'[pid[s]].leader # "run" /\ ~group'[pid[s]].kin
  BY <1>1, KilledAges DEF KillGroup, Base, Types
<1>3. \A p \in PIDs \ {pid[s]} : group'[p] = group[p] /\ group[p].owner # s
  BY <1>1, ReachableAssumption DEF KillGroup, Base, Types, Ownership
<1> QED
  BY <1>2, <1>3 DEF LiveOf, Live

\* Only the spawn of a call brings something to life, and it is that call's.
LEMMA SessionCalm == ASSUME Base, NEW s \in Sessions, Session(s) PROVE Calm
<1>1. ASSUME AllAge, pc'[s] # "idle", \A r \in Sessions \ {s} : pc'[r] = pc[r] PROVE Calm
  BY <1>1, AgeDecays DEF Calm
<1>2. \A r \in Sessions \ {s} : pc'[r] = pc[r]
  BY DEF Session, Spawn, Register, StartThreads, DropKills, DropUnregisters, Poll, LookAtClock,
         Terminate, Unregister, Reap, Collect, Waited, Return, Go, Base, Types
<1>3. CASE Spawn(s)
  <2>1. ASSUME NEW r \in Sessions \ {s} PROVE Decay(r)
    BY <1>3 DEF Spawn, Base, Types, Decay, Live
  <2> QED
    BY <1>2, <1>3, <2>1 DEF Spawn, At, Calm
<1>4. CASE DropKills(s) \/ Terminate(s)
  <2>1. KillGroup(pid[s]) /\ pid[s] \in PIDs
    BY <1>4 DEF DropKills, Terminate, At, Base, Ownership, Holding, Listed
  <2>2. pc'[s] # "idle"
    BY <1>4 DEF DropKills, Terminate, Go, Base, Types
  <2> QED
    BY <1>1, <1>2, <2>1, <2>2, KillAges DEF Base
<1>5. CASE Reap(s)
  <2>1. pid[s] \in PIDs /\ group[pid[s]].owner = s
    BY <1>5 DEF Reap, At, Base, Ownership, Holding
  <2>2. \A r \in Sessions : Decay(r)
    BY <1>5, <2>1, OtherAssumption DEF Reap, NoOwner, Base, Types, Group, Decay, Live
  <2> QED
    BY <1>2, <1>5, <2>2 DEF Reap, Go, Return, Base, Types, Calm
<1>6. CASE \/ Register(s) \/ StartThreads(s) \/ DropUnregisters(s) \/ Poll(s)
           \/ LookAtClock(s) \/ Unregister(s) \/ Collect(s)
  <2>1. UNCHANGED group /\ pc'[s] # "idle"
    BY <1>6 DEF Register, StartThreads, DropUnregisters, Poll, LookAtClock, Unregister,
                Collect, Waited, Return, Go, os, Base, Types
  <2> QED
    BY <1>1, <1>2, <2>1, Unchanging DEF Base
<1> QED
  BY <1>3, <1>4, <1>5, <1>6 DEF Session

\* While no process comes to life, what was listed stays dead or to be killed.
LEMMA CalmKeepsHunt ==
  ASSUME Base, Hunt, Calm, UNCHANGED watch PROVE Hunt'
<1> USE DEF Hunt, watch
<1>1. ASSUME NEW s \in caught, ~LiveOf(s) PROVE ~LiveOf(s)'
  BY <1>1, StaysDead DEF Calm
<1>2. ASSUME NEW s \in caught, NEW p \in snapshot \cap PIDs, group[p].owner = s
      PROVE  ~LiveOf(s)' \/ group'[p].owner = s
  <2>1. Decay(s) /\ \A q \in PIDs : group[q].owner = s => q = p
    BY <1>2 DEF Calm, Base, Ownership
  <2> QED
    BY <2>1 DEF Decay, LiveOf
<1> QED
  BY <1>1, <1>2 DEF Calm

\* A call comes past its kill with a dead group, and accepts with closed pipes.
LEMMA SessionDead ==
  ASSUME Reachable = Sessions, Inv, NEW s \in Sessions, Session(s) PROVE Dead'
<1> USE DEF Inv
<1>1. Calm
  BY SessionCalm
<1>2. \A r \in Sessions \ {s} : pc'[r] = pc[r] /\ result'[r] = result[r] /\ how'[r] = how[r]
  BY DEF Session, Spawn, Register, StartThreads, DropKills, DropUnregisters, Poll, LookAtClock,
         Terminate, Unregister, Reap, Collect, Waited, Return, Go, Base, Types
<1>3. UNCHANGED escaped
  BY DEF Session, Spawn, Register, StartThreads, DropKills, DropUnregisters, Poll, LookAtClock,
         Terminate, Unregister, Reap, Collect, os
<1>4. ASSUME NEW r \in Sessions \ {s}, pc[r] \in Over PROVE ~LiveOf(r)'
  BY <1>1, <1>4, StaysDead DEF Calm, Dead, Over
<1>5. CASE Spawn(s)
  <2>1. ~LiveOf(s)
    BY <1>5 DEF Spawn, At, Base, Ownership, LiveOf
  <2>2. pc'[s] \in Over => ~LiveOf(s)'
    BY <1>5, <2>1 DEF Spawn, Go, Return, Over, Base, Types, LiveOf, Live
  <2>3. pc[s] = "idle" /\ how'[s] \notin {"ok", "failed"} /\ result'[s] # "ok"
    BY <1>5 DEF Spawn, At, Go, Return, Dead, Base, Types
  <2> QED
    BY <1>2, <1>3, <1>4, <2>2, <2>3 DEF Dead
<1>6. CASE DropKills(s) \/ Terminate(s)
  <2>1. ~LiveOf(s)'
    BY <1>6, KilledIsDead DEF DropKills, Terminate, At, Holding, Listed
  <2>2. how'[s] \notin {"ok", "failed"} /\ result'[s] # "ok"
    BY <1>6 DEF DropKills, Terminate, At, Dead
  <2> QED
    BY <1>2, <1>3, <1>4, <2>1, <2>2 DEF Dead
<1>7. CASE \/ Register(s) \/ StartThreads(s) \/ Poll(s) \/ LookAtClock(s)
  <2>1. pc'[s] \notin Over
    BY <1>7 DEF Register, StartThreads, Poll, LookAtClock, Waited, Go, Over, Base, Types
  <2>2. how'[s] \notin {"ok", "failed"} /\ result'[s] # "ok"
    BY <1>7 DEF Register, StartThreads, Poll, LookAtClock, Waited, At, Go, Dead, Base, Types
  <2> QED
    BY <1>2, <1>3, <1>4, <2>1, <2>2 DEF Dead
<1>8. CASE Unregister(s) \/ DropUnregisters(s)
  <2>1. ~LiveOf(s)'
    BY <1>1, <1>8, StaysDead DEF Calm, Unregister, DropUnregisters, At, Dead, Over
  <2>2. how'[s] \notin {"ok", "failed"} /\ result'[s] # "ok"
    BY <1>8 DEF Unregister, DropUnregisters, At, Return, Dead, Base, Types
  <2> QED
    BY <1>2, <1>3, <1>4, <2>1, <2>2 DEF Dead
<1>9. CASE Reap(s)
  <2>1. ~LiveOf(s)'
    BY <1>1, <1>9, StaysDead DEF Calm, Reap, At, Dead, Over
  <2>2. how'[s] \in {"ok", "failed"} => pc'[s] = "collect"
    BY <1>9 DEF Reap, Return, Go, Base, Types
  <2>3. result'[s] # "ok"
    BY <1>9 DEF Reap, At, Return, Dead, Base, Types
  <2> QED
    BY <1>2, <1>3, <1>4, <2>1, <2>2, <2>3 DEF Dead
<1>10. CASE Collect(s)
  <2>1. ~LiveOf(s)'
    BY <1>1, <1>10, StaysDead DEF Calm, Collect, At, Dead, Over
  <2>2. pc'[s] = "returned" /\ how'[s] = "none"
    BY <1>10 DEF Collect, Return, Go, Base, Types
  <2>3. result'[s] = "ok" => s \notin escaped
    BY <1>10 DEF Collect, PipesClosed, Return, Base, Types
  <2> QED
    BY <1>2, <1>3, <1>4, <2>1, <2>2, <2>3 DEF Dead
<1> QED
  BY <1>5, <1>6, <1>7, <1>8, <1>9, <1>10 DEF Session

\* A descendant leaves its group only while it lives, hence before the call has accepted.
LEMMA OSDead == Inv /\ OS => Dead'
<1> SUFFICES ASSUME Inv, OS PROVE Dead'
  OBVIOUS
<1>1. UNCHANGED <<pc, how, result>>
  BY DEF OS, LeaderExits, LeaderForks, OtherStarts, KinExits, KinEscapes, EscapedExits
<1>2. ASSUME NEW s \in Sessions, pc[s] \in Over PROVE ~LiveOf(s)'
  BY <1>2, OSAges, AgeDecays, StaysDead DEF Inv, Base, Dead
<1>3. ASSUME NEW s \in Sessions, result[s] = "ok" PROVE s \notin escaped'
  <2>1. s \notin escaped /\ ~LiveOf(s)
    BY <1>3 DEF Inv, Dead, Over
  <2> QED
    BY <2>1 DEF OS, LeaderExits, LeaderForks, OtherStarts, KinExits, KinEscapes, EscapedExits,
                LiveOf, Live
<1> QED
  BY <1>1, <1>2, <1>3 DEF Inv, Dead

\* Every step keeps the invariant; the watcher's kill strikes its PID from the list.
LEMMA NextInv == Reachable = Sessions /\ Inv /\ [Next]_vars => Inv'
<1> SUFFICES ASSUME Reachable = Sessions, Inv, [Next]_vars PROVE Inv'
  OBVIOUS
<1> USE DEF Inv
<1>1. Base'
  BY NextBase
<1>2. ASSUME AllAge, UNCHANGED pc PROVE Calm
  BY <1>2, AgeDecays DEF Calm
<1>3. ASSUME AllAge, UNCHANGED <<pc, how, result, escaped>> PROVE Dead'
  BY <1>3, AgeDecays, StaysDead DEF Dead
<1>4. CASE OS
  <2>1. Calm
    BY <1>2, <1>4, OSAges
       DEF Base, OS, LeaderExits, LeaderForks, OtherStarts, KinExits, KinEscapes, EscapedExits
  <2>2. Hunt'
    BY <1>4, <2>1, CalmKeepsHunt
       DEF OS, LeaderExits, LeaderForks, OtherStarts, KinExits, KinEscapes, EscapedExits
  <2> QED
    BY <1>1, <1>4, <2>2, OSDead
<1>5. ASSUME NEW s \in Sessions, Session(s) PROVE Inv'
  <2>1. UNCHANGED watch
    BY <1>5 DEF Session, Spawn, Register, StartThreads, DropKills, DropUnregisters, Poll,
                LookAtClock, Terminate, Unregister, Reap, Collect
  <2> QED
    BY <1>1, <1>5, <2>1, SessionCalm, SessionDead, CalmKeepsHunt
<1>6. ASSUME NEW s \in Sessions, Expire(s) PROVE Inv'
  BY <1>1, <1>2, <1>3, <1>6, Unchanging, CalmKeepsHunt DEF Base, Expire, os
<1>7. CASE ExitNormally
  <2>1. Dead'
    BY <1>3, <1>7, Unchanging DEF Base, ExitNormally, os
  <2>2. UNCHANGED <<group, pc, watcher, snapshot, caught>> /\ scanner' = "exited"
    BY <1>7 DEF ExitNormally, os
  <2>3. Hunt'
    BY <2>2 DEF Hunt, LiveOf, Live
  <2> QED
    BY <1>1, <2>1, <2>3
<1>8. CASE UNCHANGED vars
  BY <1>1, <1>8 DEF vars, Dead, Hunt, LiveOf, Live
<1>9. CASE Interrupt
  <2>1. \A p \in registered : p \in PIDs /\ group[p].owner \in Sessions
                              /\ pc[group[p].owner] # "idle"
    BY DEF Base, Registry, Ownership, Holding, Listed
  <2>2. Dead'
    BY <1>3, <1>9, Unchanging DEF Base, Interrupt, os
  <2>3. Hunt'
    BY <1>9, <2>1 DEF Interrupt, Alive, Hunt, os
  <2> QED
    BY <1>1, <2>2, <2>3
<1>10. CASE Raise
  <2>1. Dead'
    BY <1>3, <1>10, Unchanging DEF Base, Raise, os
  <2>2. Hunt'
    BY <1>10 DEF Raise, Hunt, os, LiveOf, Live
  <2> QED
    BY <1>1, <2>1, <2>2
<1>11. ASSUME NEW p \in PIDs, WatcherKills(p) PROVE Inv'
  <2>1. AllAge /\ KillGroup(p)
    BY <1>11, KillAges DEF Base, WatcherKills
  <2>2. Dead'
    BY <1>3, <1>11, <2>1 DEF WatcherKills
  <2>3. \A s \in Sessions : group[p].owner = s => ~LiveOf(s)'
    <3>1. ASSUME NEW s \in Sessions, group[p].owner = s PROVE ~LiveOf(s)'
      <4>1. group'[p].leader # "run" /\ ~group'[p].kin
        BY <2>1, <3>1, KilledAges DEF KillGroup, Base, Types
      <4>2. \A q \in PIDs \ {p} : group'[q] = group[q] /\ group[q].owner # s
        BY <2>1, <3>1 DEF KillGroup, Base, Types, Ownership
      <4> QED
        BY <4>1, <4>2 DEF LiveOf, Live
    <3> QED
      BY <3>1
  <2>4. Calm
    BY <1>2, <1>11, <2>1 DEF WatcherKills
  <2>5. ASSUME NEW s \in caught
        PROVE  ~LiveOf(s)' \/ \E q \in snapshot' \cap PIDs : group'[q].owner = s
    <3>1. s \in Sessions /\ Decay(s)
      BY <2>4 DEF Hunt, Calm
    <3>2. CASE ~LiveOf(s)
      BY <3>1, <3>2, StaysDead
    <3>3. ASSUME NEW q \in snapshot \cap PIDs, group[q].owner = s, LiveOf(s)'
          PROVE  group'[q].owner = s /\ q # p
      <4>1. \A r \in PIDs : group[r].owner = s => r = q
        BY <3>1, <3>3 DEF Base, Ownership
      <4> QED
        BY <2>3, <3>1, <3>3, <4>1 DEF Decay, LiveOf
    <3> QED
      BY <1>11, <3>2, <3>3 DEF WatcherKills, Hunt
  <2>6. Hunt'
    BY <1>11, <2>5 DEF WatcherKills, Alive, Hunt
  <2> QED
    BY <1>1, <2>2, <2>6
<1> QED
  BY <1>4, <1>5, <1>6, <1>7, <1>8, <1>9, <1>10, <1>11 DEF Next, Watcher

\* The invariant, when the scanner may signal every collector.
LEMMA Invariance == ASSUME Reachable = Sessions PROVE Spec => []Inv
<1>1. Inv /\ [Next]_vars => Inv'
  BY NextInv
<1> QED
  BY InitInv, <1>1, PTL DEF Spec

\* When execute has returned, by a status, an error, a timeout or a panic of thread::spawn,
\* nothing of its group lives, and an accepted transcript has no writer left. It needs
\* that every collector may be signalled: under sudo the kill fails (transport_sudo).
THEOREM NothingOutlives == Reachable = Sessions => (Spec => []NothingOutlivesExecute)
<1> SUFFICES ASSUME Reachable = Sessions PROVE Spec => []NothingOutlivesExecute
  OBVIOUS
<1>1. Inv => NothingOutlivesExecute
  BY DEF Inv, Dead, Over, NothingOutlivesExecute, PipesClosed
<1> QED
  BY Invariance, <1>1, PTL

\* When the watcher raises the signal again, all groups that were registered when it
\* arrived are dead, although their calls went on meanwhile and their PIDs were reused.
THEOREM ListedDieFirst == Reachable = Sessions => (Spec => []ListedGroupsDieFirst)
<1> SUFFICES ASSUME Reachable = Sessions PROVE Spec => []ListedGroupsDieFirst
  OBVIOUS
<1>1. Inv => ListedGroupsDieFirst
  BY DEF Inv, Hunt, ListedGroupsDieFirst
<1> QED
  BY Invariance, <1>1, PTL
====
