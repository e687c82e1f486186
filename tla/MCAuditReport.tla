--------------------------- MODULE MCAuditReport ---------------------------
(* Two audits that share conversations, three conversations with copies and  *)
(* earlier rows; series of scores of every shape up to the bound.            *)
EXTENDS AuditReport, TLC

CONSTANTS a1, a2, c1, c2, c3

TwoAudits == {a1, a2}
ThreeConvs == {c1, c2, c3}

Row == [score |-> 90, final |-> 80, sat |-> 5, resolved |-> TRUE, escalated |-> FALSE,
        scope |-> FALSE, adversarial |-> FALSE, attack |-> None, repelled |-> FALSE,
        veto |-> FALSE, review |-> FALSE, segment |-> "satisfecho"]
Old == [Row EXCEPT !.final = None, !.sat = 3, !.resolved = FALSE, !.segment = None]
Vetoed == [Row EXCEPT !.score = 60, !.final = 21, !.sat = 2, !.resolved = FALSE,
           !.escalated = TRUE, !.veto = TRUE, !.review = TRUE, !.segment = "insatisfecho"]
Repelled == [Row EXCEPT !.adversarial = TRUE, !.attack = "jailbreak", !.repelled = TRUE,
             !.escalated = TRUE, !.review = TRUE, !.segment = "problematico"]
Ceded == [Repelled EXCEPT !.repelled = FALSE, !.scope = TRUE, !.final = 20, !.veto = TRUE]

Verdict(seq, label, issue, severity) ==
  [seq |-> seq, label |-> label, issue |-> issue, severity |-> severity]
Halluc(seq) == Verdict(seq, "error", "alucinacion", "critica")
Other(seq, issue) == Verdict(seq, "warning", issue, "baja")

\* Fine messages, no verdict at all, one flagged message, and an answer that lists
\* messages twice and one that does not exist: four patterns.
Fine == <<Verdict(1, "ok", None, None)>>
Wild == <<Halluc(2), Halluc(2), Other(1, "tono"), Other(9, "tono"), Other(9, "alcance"),
          Other(1, "alcance"), Other(9, "otro"), Other(1, "otro"), Other(1, "datos")>>
Judged(row, said, frauds) == [row |-> row, verdicts |-> said, frauds |-> frauds]
SomeJudgements ==
  {Judged(Row, Fine, {}), Judged(Vetoed, <<Halluc(2), Other(1, "datos")>>, {}),
   Judged(Vetoed, Wild, {}),
   Judged(Repelled, <<>>, {"fraude"}), Judged(Ceded, <<Other(1, "datos")>>, {"fraude"})}

NoRows == [c \in ThreeConvs |-> None]
Both(x, y) == (a1 :> x) @@ (a2 :> y)
Each(x, y, z) == (c1 :> x) @@ (c2 :> y) @@ (c3 :> z)
Plan(links, flow, content, attacked, old, history, tries) ==
  [links |-> links, flow |-> flow, content |-> content, attacked |-> attacked,
   old |-> old, history |-> history, runs |-> tries, messages |-> Each({1, 2}, {1, 2}, {1, 2})]

Rising == <<30, 60, 70, 75, 80>>
Falling == <<100, 70, 68, 66, 64>>
Flat == {s \o t : s \in {<<0, 100>>, <<100, 0>>}, t \in [1 .. 7 -> {0, 50, 100}]}

SomePlans ==
  {Plan(Both({c1, c2}, {c2}), Both("none", "own"), Each(1, 1, 3), {}, NoRows, <<>>,
        Both(1, 1)),
   Plan(Both({c1, c2}, {c1}), Both("own", "supervisor"), Each(1, 2, 3), {c1},
        [NoRows EXCEPT ![c2] = Old], Rising, Both(1, 1)),
   Plan(Both({c1, c2, c3}, {}), Both("none", "none"), Each(1, 1, 3), {}, NoRows, Falling,
        Both(1, 0)),
   Plan(Both({c1, c3}, {}), Both("none", "none"), Each(1, 2, 3), {c3}, NoRows, <<>>,
        Both(2, 0)),
   Plan(Both({c1}, {c1}), Both("none", "own"), Each(1, 2, 3), {}, NoRows, Rising,
        Both(2, 1))}
  \cup {Plan(Both({}, {}), Both("none", "none"), Each(1, 2, 3), {}, NoRows, s, Both(0, 0))
          : s \in Flat}
=============================================================================
