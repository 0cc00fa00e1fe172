---- MODULE MCInvocation ----
EXTENDS Invocation

V(severity, collector, incomplete) ==
  [severity |-> severity, collector |-> collector, incomplete |-> incomplete]
Scans(v) == [panics |-> FALSE, verdict |-> v]

MCBuiltins == <<"evidence", "medium", "critical">>
MCSeverityOf == [p \in Range(MCBuiltins) |-> CASE p = "medium" -> 3 [] p = "critical" -> 5
                                              [] OTHER -> 0]

\* Contents: clean; with evidence beyond the previews; cut short; with a failed probe.
Content(findings, observations, errors) ==
  [host |-> TRUE, findings |-> findings, observations |-> observations, errors |-> errors]
Critical == [id |-> "critical", severity |-> 5, lines |-> 5, cut |-> TRUE]
Medium == [id |-> "medium", severity |-> 3, lines |-> 2, cut |-> FALSE]
Limited == [id |-> "evidence", partial |-> TRUE, limits |-> 1, cut |-> FALSE, lines |-> 3]
Short == [id |-> "evidence", partial |-> FALSE, limits |-> 0, cut |-> TRUE, lines |-> 1]
Contents ==
  (V(0, FALSE, FALSE) :> Content(<<>>, <<Short>>, <<>>)) @@
  (V(5, FALSE, FALSE) :> Content(<<Critical, Medium>>, <<>>, <<>>)) @@
  (V(0, FALSE, TRUE)  :> Content(<<>>, <<Limited>>, <<"medium">>)) @@
  (V(3, TRUE, TRUE)   :> Content(<<Medium>>, <<>>, <<"collector", "critical">>))
\* The second host has nothing to be observed.
MCDetails ==
  <<Contents, V(0, FALSE, FALSE) :> Content(<<>>, <<>>, <<>>), Contents>>

\* Two hosts share a label; the first behaves in any way, the third is partly scanned.
MCLabel == <<5, 1, 5>>
MCHosts == <<{Scans(v) : v \in DOMAIN Contents} \cup {[Unscanned EXCEPT !.verdict = V(0, FALSE, FALSE)]},
             {Scans(V(0, FALSE, FALSE))},
             {Scans(V(0, FALSE, TRUE)), Scans(V(0, FALSE, FALSE))}>>

F(text, size) == [kind |-> "regular", size |-> size, text |-> text]
Fifo == [kind |-> "fifo", size |-> 0, text |-> "fifo"]
MCLimit == [manifest |-> 2, signature |-> 1, key |-> 1]
MCStored == [manifest  |-> {F("pack", 2), F("other", 2), F("twice", 2), F("pack", 3), Fifo},
             signature |-> {F("of pack", 1), F("of other", 1), F("of twice", 1)},
             key       |-> {F("trusted", 1), F("foreign", 1)}]
MCManifests ==
  [pack  |-> [schema |-> 1, named |-> TRUE, probes |-> <<"critical", "evidence", "medium">>],
   other |-> [schema |-> 1, named |-> TRUE, probes |-> <<"evidence">>],
   twice |-> [schema |-> 1, named |-> TRUE, probes |-> <<"evidence", "evidence">>]]
MCSigned == {<<"trusted", "pack", "of pack">>, <<"trusted", "twice", "of twice">>,
             <<"foreign", "other", "of other">>}
====
