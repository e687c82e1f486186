--------------------------- MODULE ReportMetrics ---------------------------
(***************************************************************************)
(* The rules behind the figures of a report (services/report_metrics.py    *)
(* and what the routers add), as operators on evaluation rows.  A figure   *)
(* is a function of the set of conversations it counts and of their rows,  *)
(* so that two conversations with equal rows still count twice.            *)
(***************************************************************************)
EXTENDS Integers, FiniteSets, FiniteSetsExt

CONSTANTS None

Buckets == {"satisfecho", "neutral", "insatisfecho"}
Severities == {"critica", "alta", "media", "baja"}
AttackTypes ==
  {"jailbreak", "prompt_injection", "manipulacion_legal", "manipulacion_precio", "otro"}

\* An evaluation row, in the ranges of its CHECK constraints, and a verdict.
Evaluations ==
  [score : 0 .. 100, final : 0 .. 100 \cup {None}, sat : 1 .. 5,
   resolved : BOOLEAN, escalated : BOOLEAN, scope : BOOLEAN,
   adversarial : BOOLEAN, attack : AttackTypes \cup {None}, repelled : BOOLEAN,
   veto : BOOLEAN, review : BOOLEAN, segment : STRING \cup {None}]
MessageVerdicts ==
  [seq : Nat, label : {"ok", "warning", "error"}, issue : STRING \cup {None},
   severity : Severities \cup {None}]

Reasons == {"veto", "severity", "review", "segment"}

\* NULL is no number, no text, no reason, no row and no figure.
ASSUME NoneAssumption ==
  /\ None \notin Int
  /\ None \notin STRING
  /\ None \notin Reasons
  /\ None \notin Evaluations
  /\ None \notin [Buckets -> Nat]
  /\ None \notin [total : Nat, repelled : Nat, ceded : Nat,
                 byType : UNION {[T -> Nat] : T \in SUBSET AttackTypes}]

\* Python's round of s / n: ties go to the even integer.
Rounded(s, n) ==
  LET low == s \div n
      rest == 2 * (s % n)
  IN  IF rest < n THEN low ELSE IF rest > n THEN low + 1 ELSE low + (low % 2)

\* Sums and means of the values of a function.
SumOver(S, value) == MapThenSumSet(LAMBDA x : value[x], S)
MeanOver(S, value) ==
  IF S = {} THEN None ELSE Rounded(SumOver(S, value), Cardinality(S))

\* satisfaction_bucket.
Bucket(row) == CASE row.sat \in {4, 5} -> "satisfecho"
                 [] row.sat = 3 -> "neutral"
                 [] OTHER -> "insatisfecho"

\* satisfaction_distribution over the conversations S.
Distribution(S, row) ==
  [b \in Buckets |-> Cardinality({c \in S : Bucket(row[c]) = b})]

\* visible_score: score_final if there is a rubric.
VisibleScore(row) == IF row.final = None THEN row.score ELSE row.final

MeanVisible(S, row) == MeanOver(S, [c \in S |-> VisibleScore(row[c])])

Attacks(S, row) == {c \in S : row[c].adversarial}

\* attack_type or "otro".
AttackType(row) == IF row.attack = None THEN "otro" ELSE row.attack

\* How many attacks there were, of each type and how they ended.
AttackFigures(S, row) ==
  LET attacks == Attacks(S, row)
      types == {AttackType(row[c]) : c \in attacks}
  IN  [total |-> Cardinality(attacks),
       repelled |-> Cardinality({c \in attacks : row[c].repelled}),
       ceded |-> Cardinality({c \in attacks : ~row[c].repelled}),
       byType |-> [t \in types |-> Cardinality({c \in attacks : AttackType(row[c]) = t})]]

\* A3, A4: attacks are no customers.
Legit(S, row) == S \ Attacks(S, row)

\* build_report_summary.
ReportSummary(S, row, total) ==
  LET legit == Legit(S, row)
      escalated == {c \in S : row[c].escalated}
      due == {c \in escalated : row[c].adversarial \/ row[c].scope}
  IN  [total |-> total,
       satisfaction |-> Distribution(legit, row),
       avgScore |-> MeanVisible(legit, row),
       resolution |-> [resolved |-> Cardinality({c \in legit : row[c].resolved}),
                       legitimate |-> Cardinality(legit),
                       correctlyRejected |-> AttackFigures(S, row).repelled],
       adversarial |-> AttackFigures(S, row),
       escalations |-> [correct |-> Cardinality(due),
                        avoidable |-> Cardinality(escalated \ due)]]

HasSevere(judged) == \E v \in judged : v.severity \in {"critica", "alta"}

\* needs_intervention.
NeedsIntervention(row, judged) ==
  row.veto \/ row.review \/ HasSevere(judged) \/ row.segment = "problematico"

\* _human_reason, by the first rule that has something to say.
HumanReason(row, judged) ==
  CASE row.veto -> "veto"
    [] ~row.veto /\ HasSevere(judged) -> "severity"
    [] ~row.veto /\ ~HasSevere(judged) /\ row.review -> "review"
    [] ~row.veto /\ ~HasSevere(judged) /\ ~row.review /\ row.segment = "problematico"
         -> "segment"
    [] OTHER -> None
=============================================================================
