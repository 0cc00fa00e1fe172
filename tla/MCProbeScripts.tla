---- MODULE MCProbeScripts ----
EXTENDS ProbeScripts

\* Five PIDs, more than two halves of two: with zombies, kernel threads and processes
\* of others at both ends and in the middle.
MCLives == <<{"live", "kernel"}, {"live", "private", "absent"}, {"live", "zombie", "hidden"},
             {"live", "absent"}, {"live", "private"}>>
\* Every process can be read.
MCReadable == <<{"live"}, {"live"}>>

MCRoot == <<"tmp">>
At(names, is) == [path |-> MCRoot \o names, is |-> is]
MCEntries == <<At(<<"suspect">>, "suspect"), At(<<"mine">>, "directory"),
               At(<<"mine", "suspect">>, "suspect"), At(<<"locked">>, "locked"),
               At(<<"mine", "broken">>, "broken")>>
M(point, device, runs, refuses) ==
  [point |-> point, device |-> device, runs |-> runs, refuses |-> refuses]
Row(m, on) == [point |-> m.point, device |-> m.device, runs |-> m.runs,
               refuses |-> m.refuses, on |-> on]
Base == Row(M(<<>>, 0, TRUE, FALSE), 0)
Tmpfs(runs) == Row(M(MCRoot, 1, runs, FALSE), 1)
Mine == Append(MCRoot, "mine")
Locked == Append(MCRoot, "locked")
\* A plain directory, one file system, one on another, a bind mount in it.
MCTables == {<<Base>>, <<Base, Tmpfs(TRUE)>>, <<Base, Tmpfs(FALSE)>>,
             <<Base, Tmpfs(TRUE), Row(M(MCRoot, 2, FALSE, FALSE), 2)>>,
             <<Base, Tmpfs(TRUE), Row(M(Locked, 1, TRUE, TRUE), 2)>>}
\* A FUSE mount that refuses, another device, and a bind mount of the same one.
MCMountable == {M(Mine, 3, TRUE, TRUE), M(Mine, 4, TRUE, FALSE), M(Mine, 1, FALSE, FALSE),
                M(Locked, 1, TRUE, TRUE), M(Locked, 3, TRUE, TRUE)}
====
