---- MODULE Transport ----
(***************************************************************************)
(* Collector sessions (transport.rs): each call of execute spawns one      *)
(* process group, waits for its leader without reaping it, kills the       *)
(* group, reaps the leader and collects the pipes before the deadline. A   *)
(* registry lists the groups for the interrupt watcher, which kills them   *)
(* before it lets SIGINT or SIGTERM end the process.                       *)
(*                                                                         *)
(* PIDs are the operating system's: one is free for a new process only     *)
(* when its leader is reaped and its group is empty. Other processes of    *)
(* the machine take free PIDs too.                                         *)
(***************************************************************************)
EXTENDS Naturals, FiniteSets

CONSTANTS Sessions,   \* calls of execute, one per scanned target
          PIDs,       \* process IDs the system hands out
          Reachable,  \* sessions whose collector may be signalled by the scanner's user
          Forking,    \* sessions whose collector may leave descendants
          Other       \* owner of a process group that is not a collector's

ASSUME OtherAssumption == Other \notin Sessions
ASSUME ReachableAssumption == Reachable \subseteq Sessions /\ Forking \subseteq Sessions

VARIABLES
  group,       \* per PID: owner, leader (free, run, and a zombie that exited or
               \* was slain), and whether descendants live
  escaped,     \* sessions a descendant of which left the group, holding the pipes
  pc, pid, how, expired, result,   \* per session; how its wait ended
  registered,  \* ACTIVE_GROUPS
  watcher, snapshot, caught,   \* the interrupt watcher; caught: owners it listed
  scanner      \* the shuvscan process: runs, exited or was ended by a signal
vars == <<group, escaped, pc, pid, how, expired, result, registered,
          watcher, snapshot, caught, scanner>>
os == <<group, escaped>>
watch == <<watcher, snapshot, caught, scanner>>

NoOwner == [owner |-> Other, leader |-> "free", kin |-> FALSE]
Live(p) == group[p].leader = "run" \/ group[p].kin
Free(p) == group[p].leader = "free" /\ ~group[p].kin
LiveOf(s) == \E p \in PIDs : group[p].owner = s /\ Live(p)
Zombie(p) == group[p].leader \in {"zombie", "slain"}
Alive == scanner = "runs"
AnyPID == CHOOSE p \in PIDs : TRUE

Init ==
  /\ group = [p \in PIDs |-> NoOwner] /\ escaped = {}
  /\ pc = [s \in Sessions |-> "idle"]
  /\ pid = [s \in Sessions |-> AnyPID]
  /\ how = [s \in Sessions |-> "none"]
  /\ expired = [s \in Sessions |-> FALSE]
  /\ result = [s \in Sessions |-> "none"]
  /\ registered = {}
  /\ watcher = "sigwait" /\ snapshot = {} /\ caught = {}
  /\ scanner = "runs"

-----------------------------------------------------------------------------
(* The operating system *)

\* kill(-p, SIGKILL): every member dies at once; the leader waits to be reaped. The
\* members of a local `sudo` collector are root's: the call of an unprivileged
\* scanner fails with EPERM, which terminate_group ignores.
Killed(g) ==
  CASE g.owner = Other -> NoOwner
    [] g.owner \in Reachable ->
         [g EXCEPT !.leader = IF @ = "run" THEN "slain" ELSE @, !.kin = FALSE]
    [] OTHER -> g
KillGroup(p) == group' = [group EXCEPT ![p] = Killed(@)]

LeaderExits(p) ==
  /\ group[p].leader = "run"
  /\ group' = [group EXCEPT ![p] = IF @.owner = Other THEN NoOwner
                                   ELSE [@ EXCEPT !.leader = "zombie"]]
  /\ UNCHANGED <<escaped, pc, pid, how, expired, result, registered, watch>>

LeaderForks(p) ==
  /\ group[p].leader = "run" /\ group[p].owner \in Forking /\ ~group[p].kin
  /\ group' = [group EXCEPT ![p].kin = TRUE]
  /\ UNCHANGED <<escaped, pc, pid, how, expired, result, registered, watch>>

KinExits(p) ==
  /\ group[p].kin
  /\ group' = [group EXCEPT ![p].kin = FALSE]
  /\ UNCHANGED <<escaped, pc, pid, how, expired, result, registered, watch>>

\* A descendant starts a session of its own and keeps the inherited pipes open.
KinEscapes(p) ==
  /\ group[p].kin
  /\ group' = [group EXCEPT ![p].kin = FALSE]
  /\ escaped' = escaped \cup {group[p].owner}
  /\ UNCHANGED <<pc, pid, how, expired, result, registered, watch>>

EscapedExits(s) ==
  /\ s \in escaped
  /\ escaped' = escaped \ {s}
  /\ UNCHANGED <<group, pc, pid, how, expired, result, registered, watch>>

\* Another process of the machine becomes the leader of a group.
OtherStarts(p) ==
  /\ Free(p)
  /\ group' = [group EXCEPT ![p] = [owner |-> Other, leader |-> "run", kin |-> FALSE]]
  /\ UNCHANGED <<escaped, pc, pid, how, expired, result, registered, watch>>

\* The model ends with the scanner: nobody is left to promise anything.
OS == /\ Alive
      /\ \/ \E p \in PIDs : \/ LeaderExits(p) \/ LeaderForks(p) \/ OtherStarts(p)
                            \/ KinExits(p) \/ KinEscapes(p)
         \/ \E s \in Sessions : EscapedExits(s)

-----------------------------------------------------------------------------
(* execute, one session *)

At(s, where) == Alive /\ pc[s] = where
Go(s, where) == pc' = [pc EXCEPT ![s] = where]
\* The locals of the call end with it. Errors are told apart only until then.
Return(s, what) ==
  /\ Go(s, "returned")
  /\ result' = [result EXCEPT ![s] = IF what = "ok" THEN "ok" ELSE "error"]
  /\ pid' = [pid EXCEPT ![s] = AnyPID]
  /\ how' = [how EXCEPT ![s] = "none"]
  /\ expired' = [expired EXCEPT ![s] = FALSE]

Spawn(s) ==
  /\ At(s, "idle")
  /\ \/ \E p \in PIDs :
          /\ Free(p)
          /\ group' = [group EXCEPT ![p] = [owner |-> s, leader |-> "run", kin |-> FALSE]]
          /\ pid' = [pid EXCEPT ![s] = p]
          /\ Go(s, "spawned")
          /\ UNCHANGED <<how, expired, result>>
     \/ Return(s, "io") /\ UNCHANGED group       \* spawn()?
  /\ UNCHANGED <<escaped, registered, watch>>

Register(s) ==
  /\ At(s, "spawned")
  /\ registered' = registered \cup {pid[s]}
  /\ Go(s, "registered")
  /\ UNCHANGED <<os, pid, how, expired, result, watch>>

\* Three threads are started, and thread::spawn may panic: then ActiveGroup is
\* dropped, which kills before it takes the group off the registry. Nobody reaps.
StartThreads(s) ==
  /\ At(s, "registered")
  /\ Go(s, "waiting") \/ Go(s, "drop")
  /\ UNCHANGED <<os, pid, how, expired, result, registered, watch>>

DropKills(s) ==
  /\ At(s, "drop")
  /\ KillGroup(pid[s]) /\ Go(s, "dropped")
  /\ UNCHANGED <<escaped, pid, how, expired, result, registered, watch>>

DropUnregisters(s) ==
  /\ At(s, "dropped")
  /\ registered' = registered \ {pid[s]}
  /\ Return(s, "panicked")
  /\ UNCHANGED <<os, watch>>

\* The deadline passes (as the call sees it: only these places look at it).
Expire(s) ==
  /\ Alive /\ pc[s] \in {"waiting", "clock", "collect"} /\ ~expired[s]
  /\ expired' = [expired EXCEPT ![s] = TRUE]
  /\ UNCHANGED <<os, pc, pid, how, result, registered, watch>>

\* Mutant of Poll: the leader is reaped while it is waited for (no WNOWAIT).
PollReaps(s) ==
  /\ Alive /\ pc[s] = "waiting" /\ Zombie(pid[s])
  /\ group' = [group EXCEPT ![pid[s]] = IF @.kin THEN [@ EXCEPT !.leader = "free"] ELSE NoOwner]
  /\ pc' = [pc EXCEPT ![s] = "kill"] /\ how' = [how EXCEPT ![s] = "exited"]
  /\ UNCHANGED <<escaped, pid, expired, result, registered, watch>>

\* waitid with WNOWAIT: the exited leader stays a zombie. Any failure but EINTR ends
\* the wait. Only a leader seen running makes the loop look at the clock.
Waited(s, what) == Go(s, "kill") /\ how' = [how EXCEPT ![s] = what]

Poll(s) ==
  /\ At(s, "waiting")
  /\ \/ Zombie(pid[s]) /\ Waited(s, "exited")
     \/ ~Zombie(pid[s]) /\ Go(s, "clock") /\ UNCHANGED how
     \/ Waited(s, "io")
  /\ UNCHANGED <<os, pid, expired, result, registered, watch>>

LookAtClock(s) ==
  /\ At(s, "clock")
  /\ IF expired[s] THEN Waited(s, "timeout") ELSE Go(s, "waiting") /\ UNCHANGED how
  /\ UNCHANGED <<os, pid, expired, result, registered, watch>>

\* Mutant of Terminate: no kill after an exit of the leader.
TerminateLazily(s) ==
  /\ At(s, "kill")
  /\ IF how[s] = "exited" THEN UNCHANGED group ELSE KillGroup(pid[s])
  /\ Go(s, "unregister")
  /\ UNCHANGED <<escaped, pid, how, expired, result, registered, watch>>

\* terminate_group, group.unregister() and child.wait(), in this order on every path.
Terminate(s) ==
  /\ At(s, "kill")
  /\ KillGroup(pid[s]) /\ Go(s, "unregister")
  /\ UNCHANGED <<escaped, pid, how, expired, result, registered, watch>>

\* Mutant of Unregister: the group stays on the registry.
UnregisterForgets(s) ==
  /\ At(s, "unregister")
  /\ Go(s, "reap")
  /\ UNCHANGED <<os, pid, how, expired, result, registered, watch>>

Unregister(s) ==
  /\ At(s, "unregister")
  /\ registered' = registered \ {pid[s]}
  /\ Go(s, "reap")
  /\ UNCHANGED <<os, pid, how, expired, result, watch>>

\* The status of a leader that exited by itself is a success or not.
Reap(s) ==
  /\ At(s, "reap") /\ Zombie(pid[s])
  /\ group' = [group EXCEPT ![pid[s]] = IF @.kin THEN [@ EXCEPT !.leader = "free"] ELSE NoOwner]
  /\ IF how[s] = "exited"
       THEN /\ \E status \in IF group[pid[s]].leader = "slain" THEN {"failed"} ELSE {"ok", "failed"} :
                 how' = [how EXCEPT ![s] = status]
            /\ Go(s, "collect")
            /\ UNCHANGED <<pid, expired, result>>
       ELSE Return(s, how[s])
  /\ UNCHANGED <<escaped, registered, watch>>

\* Mutant of Collect: the readers are waited for without a deadline.
CollectForever(s) ==
  /\ At(s, "collect")
  /\ s \notin escaped /\ ~LiveOf(s)
  /\ Return(s, how[s])
  /\ UNCHANGED <<os, registered, watch>>

\* receive_before, three times: a pipe ends when no process holds it any more; a
\* result that is ready is taken even after the deadline.
PipesClosed(s) == s \notin escaped /\ ~LiveOf(s)
Collect(s) ==
  /\ At(s, "collect")
  /\ \/ PipesClosed(s) /\ Return(s, how[s])
     \/ ~PipesClosed(s) /\ expired[s] /\ Return(s, "timeout")
  /\ UNCHANGED <<os, registered, watch>>

Session(s) ==
  \/ Spawn(s) \/ Register(s) \/ StartThreads(s) \/ DropKills(s) \/ DropUnregisters(s)
  \/ Poll(s) \/ LookAtClock(s) \/ Terminate(s) \/ Unregister(s) \/ Reap(s) \/ Collect(s)

-----------------------------------------------------------------------------
(* The interrupt watcher, and the end of the process *)

\* sigwait returns; active_groups().clone() holds the lock only while it copies.
Interrupt ==
  /\ Alive /\ watcher = "sigwait"
  /\ watcher' = "kill" /\ snapshot' = registered
  /\ caught' = {group[p].owner : p \in registered}
  /\ UNCHANGED <<os, pc, pid, how, expired, result, registered, scanner>>

WatcherKills(p) ==
  /\ Alive /\ watcher = "kill" /\ p \in snapshot
  /\ KillGroup(p)
  /\ snapshot' = snapshot \ {p}
  /\ UNCHANGED <<escaped, pc, pid, how, expired, result, registered, watcher, caught, scanner>>

\* Mutant of Raise: the signal is raised before the groups are killed.
RaiseAtOnce ==
  /\ Alive /\ watcher = "kill"
  /\ watcher' = "raised" /\ scanner' = "signalled"
  /\ UNCHANGED <<os, pc, pid, how, expired, result, registered, snapshot, caught>>

\* run_interrupt_cleanup (see TerminalGuard), then the signal is raised again.
Raise ==
  /\ Alive /\ watcher = "kill" /\ snapshot = {}
  /\ watcher' = "raised" /\ scanner' = "signalled"
  /\ UNCHANGED <<os, pc, pid, how, expired, result, registered, snapshot, caught>>

\* The run ends on its own once every session has returned.
ExitNormally ==
  /\ Alive /\ \A s \in Sessions : pc[s] = "returned"
  /\ scanner' = "exited"
  /\ UNCHANGED <<os, pc, pid, how, expired, result, registered, watcher, snapshot, caught>>

Watcher == \/ \E p \in PIDs : WatcherKills(p)
           \/ Raise

Next == \/ OS \/ \E s \in Sessions : Session(s) \/ Expire(s)
        \/ Interrupt \/ Watcher \/ ExitNormally

\* Threads of the scanner are scheduled fairly and time passes. Nothing is assumed of
\* the collectors: they may run, fork and hold the pipes for ever.
Fairness == /\ \A s \in Sessions : WF_vars(Session(s)) /\ WF_vars(Expire(s))
            /\ WF_vars(Watcher)
Spec == Init /\ [][Next]_vars /\ Fairness

-----------------------------------------------------------------------------
(* Properties *)

\* When execute has returned, by any path, no member of its process group is alive:
\* neither a success, an error, a timeout nor a panic leaves a collector behind. And a
\* transcript is accepted only once its pipes have ended: nobody can still be writing to
\* them, neither the group nor a descendant that escaped from it.
NothingOutlivesExecute ==
  \A s \in Sessions : /\ pc[s] = "returned" => ~LiveOf(s)
                      /\ result[s] = "ok" => PipesClosed(s)

\* A session never kills a process that is not its own: until it has, its leader is
\* alive or a zombie, so the PID cannot have been given to anybody else.
KillsOnlyItsOwn ==
  \A s \in Sessions :
    (Alive /\ pc[s] \in {"kill", "drop"}) =>
      group[pid[s]].owner = s /\ group[pid[s]].leader # "free"

\* The registry never names a PID that could have been given away: while a group is
\* listed, its leader is a collector's and is not reaped.
RegistryHoldsCollectors ==
  Alive => \A p \in registered :
             /\ group[p].owner \in Sessions
             /\ group[p].leader # "free"
             /\ pc[group[p].owner] \notin {"idle", "spawned", "reap", "collect", "returned"}

\* A signal ends the scanner only after every group that was listed when it arrived
\* has been killed.
ListedGroupsDieFirst == scanner = "signalled" => \A s \in caught : ~LiveOf(s)

\* Every call returns (or the scanner is gone): a collector that never exits, forks, or
\* whose descendant escapes with the pipes delays it until the deadline at most.
EveryCallReturns ==
  \A s \in Sessions : pc[s] # "idle" ~> (pc[s] = "returned" \/ ~Alive)

\* README.md:75-77: an interrupt terminates every in-flight collector group before
\* Shuvscan exits. (A group spawned but not yet registered, or spawned for the next
\* target after the list was copied, is missed.)
InterruptLeavesNothing == scanner = "signalled" => \A s \in Sessions : ~LiveOf(s)

\* README.md:74-75: a timeout terminates the collector process group, and README.md:255-258:
\* the timeout keeps it from hanging the scan. (Not for a local collector under sudo.)
TimeoutTerminates ==
  \A s \in Sessions : (pc[s] = "kill" /\ how[s] = "timeout") ~> (~LiveOf(s) \/ ~Alive)
====
