---- MODULE MCTranscript ----
(* Three probes, one of each privilege: two detections and an observation. *)
EXTENDS Transcript

MCProbeIds == <<"p1", "p2", "p3">>
MCSeverities == [p1 |-> 5, p2 |-> 2, p3 |-> NoSeverity]
MCPrivileges ==
  [p1 |-> "RootRequired", p2 |-> "RootRecommended", p3 |-> "Unprivileged"]

Ended(bodies, status) == {[body |-> body, status |-> status] : body \in bodies}

\* Evidence or none, evidence beyond the budget or a collector's limit, a status marker,
\* a failing status, and an os-release body that is no hex.
MCRuns ==
  "meta" :> Ended({<<"hit">>}, 0) \cup Ended({<<>>}, 1)
  @@ "os-release" :> Ended({<<>>, <<"hit">>, <<"miss">>, <<"unavailable">>}, 0)
                       \cup Ended({<<"hit">>}, 1)
  @@ "capabilities" :> Ended({<<"hit">>}, 0) \cup Ended({<<>>}, 1)
  @@ "p1" :> Ended({<<>>, <<"hit">>}, 0) \cup Ended({<<"hit">>}, 1)
  @@ "p2" :> Ended({<<"miss">>, <<"bulk", "limit">>, <<"hit", "partial">>}, 0)
  @@ "p3" :> Ended({<<"bulk">>, <<"miss", "limit">>, <<"unavailable">>}, 0)
               \cup Ended({<<>>}, 1)
====
