----------------------------- MODULE AuditReport -----------------------------
(***************************************************************************)
(* What audits leave behind and what users read of it: the evaluation rows *)
(* and verdicts, the suggestions and the persisted summary of each audit,  *)
(* the control chart of the agent, and the reports, lists and exports that *)
(* the routers compute from them while other audits run and conversations  *)
(* are deleted.                                                            *)
(*                                                                         *)
(* The transaction of a conversation is open while the run awaits the LLM, *)
(* a run may raise or die at any point and its audit may be run again, and *)
(* a run's chart is a read and a write.  Runs of one audit that overlap,   *)
(* the broker and the status of an audit are the subject of                *)
(* AuditLifecycle, the statements of a delete that of SoftDelete.          *)
(***************************************************************************)
EXTENDS ReportMetrics, SpcRules, Functions

CONSTANTS Audits,      \* the audits of a project
          Convs,       \* its conversations, all of one agent
          Plans,       \* what may be audited: flows, conversations, their messages and
                       \* content, earlier evaluations, how often each audit is run
          Judgements,  \* what the LLM and the detectors may say: an evaluation row,
                       \* verdicts on messages and frauds
          Threshold,   \* suggestion_min_messages
          Deletable    \* the conversations that users may delete

\* A transaction that judges a conversation: what it has read before the LLM.
Transactions == [conv : Convs, dup : BOOLEAN, known : SUBSET Convs]

\* Nothing is assumed of the verdicts: the LLM may judge a message twice, or one
\* that does not exist.
ASSUME ReportAssumption ==
  /\ IsFiniteSet(Audits) /\ IsFiniteSet(Convs)
  /\ Threshold \in Nat \ {0}
  /\ None \notin Transactions
  /\ \A p \in Plans :
       /\ p.links \in [Audits -> SUBSET Convs]
       /\ p.old \in [Convs -> Evaluations \cup {None}]
       /\ p.history \in Seq(0 .. 100)
  /\ \A j \in Judgements :
       /\ j.row \in Evaluations
       /\ j.verdicts \in Seq(MessageVerdicts)
       /\ IsFiniteSet(j.frauds)

VARIABLES
  plan,            \* the member of Plans that is carried out
  evaluation,      \* the evaluation row of a conversation, deleted or not, or None
  order,           \* conversations with a live evaluation, by evaluated_at
  verdicts,        \* the message_evaluations of an audit and a conversation
  deleted,         \* conversations with is_deleted
  deletedEvals,    \* those whose evaluation has is_deleted
  deletedVerdicts, \* the message_evaluations that have it
  chart,           \* the SPC columns of the agent's reputation
  summary,         \* report_summary of an audit, or None
  suggestions,     \* audits.suggestions
  pc,              \* how far the run of an audit is
  runs,            \* how many runs it has had
  txn,             \* the open transaction of a run, or None
  convIds,         \* the conversations the run has loaded
  todo,            \* those it has not opened
  seen,            \* seen_sigs: the contents it has opened
  issues,          \* its issue_counter: conversation, place in the answer, issue
  unhandled,       \* conversations that asked for what the flow does not cover
  series,          \* the scores it has read for the chart
  loaded,          \* the SPC columns it has read
  heard,           \* history: the answers whose transactions the run has committed
  late,            \* history: conversations deleted while a run had them open
  stale            \* history: a run ended before its chart, two runs crossed at it or
                   \* scores were deleted, and no run has read the scores alone since

rows == <<evaluation, order, verdicts, deleted, deletedEvals, deletedVerdicts>>
reports == <<summary, suggestions>>
memory == <<convIds, todo, seen, issues, unhandled, heard>>
vars == <<plan, rows, chart, reports, pc, runs, txn, memory, series, loaded, late, stale>>

\* The columns before the first baseline.
NoChart == [mean |-> 0, std |-> 0, limits |-> <<>>, trend |-> "estable"]

\* Scores of the agent, ORDER BY evaluated_at.
Scores == plan.history \o [i \in DOMAIN order |-> evaluation[order[i]].score]

\* Conversations of earlier audits may have an evaluation already.
Init ==
  /\ plan \in Plans
  /\ evaluation = plan.old
  /\ order = SetToSeq({c \in Convs : plan.old[c] # None})
  /\ verdicts = [a \in Audits |-> [c \in Convs |-> {}]]
  /\ deleted = {}
  /\ deletedEvals = {}
  /\ deletedVerdicts = verdicts
  /\ chart = IF HasBaseline(Scores) THEN SpcSummary(Scores) ELSE NoChart
  /\ summary = [a \in Audits |-> None]
  /\ suggestions = [a \in Audits |-> {}]
  /\ pc = [a \in Audits |-> "stopped"]
  /\ runs = [a \in Audits |-> 0]
  /\ txn = [a \in Audits |-> None]
  /\ convIds = [a \in Audits |-> {}]
  /\ todo = [a \in Audits |-> {}]
  /\ seen = [a \in Audits |-> {}]
  /\ issues = [a \in Audits |-> {}]
  /\ unhandled = [a \in Audits |-> {}]
  /\ series = [a \in Audits |-> <<>>]
  /\ loaded = [a \in Audits |-> NoChart]
  /\ heard = [a \in Audits |-> {}]
  /\ late = {}
  /\ stale = FALSE

Links(a) == plan.links[a]
Content(c) == plan.content[c]

\* Bug: the rows of deleted conversations are seen.
Live_All(a, c) == verdicts[a][c]

\* Rows that a SELECT sees.
Evaluated == {c \in Convs : evaluation[c] # None} \ deletedEvals
Live(a, c) == verdicts[a][c] \ deletedVerdicts[a][c]

-----------------------------------------------------------------------------
(* A run: its conversations, the chart, the suggestions and the summary.   *)

\* The memory of a run that has loaded conversations.
Loads(a, convs) ==
  /\ convIds' = [convIds EXCEPT ![a] = convs]
  /\ todo' = [todo EXCEPT ![a] = convs]
  /\ seen' = [seen EXCEPT ![a] = {}]
  /\ issues' = [issues EXCEPT ![a] = {}]
  /\ unhandled' = [unhandled EXCEPT ![a] = {}]
  /\ heard' = [heard EXCEPT ![a] = {}]

\* _run begins, the first time or again after a run that ended in whatever way.
Start(a) ==
  /\ pc[a] \in {"stopped", "active"}
  /\ runs[a] < plan.runs[a]
  /\ runs' = [runs EXCEPT ![a] = @ + 1]
  /\ pc' = [pc EXCEPT ![a] = "judge"]
  /\ Loads(a, Links(a) \ deleted)
  /\ UNCHANGED <<plan, rows, chart, reports, txn, series, loaded, late, stale>>

\* Bug: duplicates count like any other conversation.
IsDuplicate_Never(a, c) == FALSE

\* B4: a conversation of the same content was opened before.
IsDuplicate(a, c) == Content(c) \in seen[a]

\* A transaction begins: it reads the conversation and whether it has an evaluation,
\* and goes on to await the LLM.
Open(a, c) ==
  /\ pc[a] = "judge"
  /\ txn[a] = None
  /\ c \in todo[a] \ deleted
  /\ txn' = [txn EXCEPT ![a] =
       [conv |-> c, dup |-> IsDuplicate(a, c), known |-> Evaluated]]
  /\ todo' = [todo EXCEPT ![a] = @ \ {c}]
  /\ seen' = [seen EXCEPT ![a] = @ \cup {Content(c)}]
  /\ UNCHANGED <<plan, rows, chart, reports, pc, runs, convIds, issues, unhandled,
                 heard, series, loaded, late, stale>>

\* session.get does not find a deleted conversation.
Skip(a, c) ==
  /\ pc[a] = "judge"
  /\ txn[a] = None
  /\ c \in todo[a] \cap deleted
  /\ todo' = [todo EXCEPT ![a] = @ \ {c}]
  /\ UNCHANGED <<plan, rows, chart, reports, pc, runs, txn, convIds, seen, issues,
                 unhandled, heard, series, loaded, late, stale>>

\* _persist_rubric_columns writes these whoever inserted the row, _persist_
\* conversation_eval the whole row unless there is one.
RubricColumns ==
  {"final", "veto", "review", "segment", "adversarial", "attack", "repelled"}
RowAfter(c, row) ==
  IF evaluation[c] = None THEN row
  ELSE [col \in DOMAIN row |->
          IF col \in RubricColumns THEN row[col] ELSE evaluation[c][col]]

\* evaluated_at is a time between the beginning of the transaction and its end: what
\* it found evaluated is older, what others have committed since need not be.
Orders(c, known) ==
  {InsertAt(order, i, c) :
     i \in {j \in 1 .. Len(order) + 1 : \A k \in j .. Len(order) : order[k] \notin known}}

\* Of its verdicts are inserted those of messages that exist, the first of each
\* message and none where the audit has one, deleted or not.
Stored(a, c, said) ==
  {said[p] : p \in {q \in DOMAIN said :
     /\ said[q].seq \in plan.messages[c]
     /\ \A v \in verdicts[a][c] : v.seq # said[q].seq
     /\ \A r \in 1 .. q - 1 : said[r].seq # said[q].seq}}

\* Issues of a conversation that asked for something else.
NotCovered == {"alcance", "alucinacion", "contradiccion"}

\* What is counted of an answer: all of its verdicts, stored or not, and frauds.
Answer(c, said, frauds) == [conv |-> c, said |-> said, frauds |-> frauds]
Found(h) ==
  {<<h.conv, p, h.said[p].issue>> : p \in {q \in DOMAIN h.said : h.said[q].issue # None}}
    \cup {<<h.conv, 0, f>> : f \in h.frauds}

\* The transaction's rows: an evaluation and its rubric if it found none, and the
\* verdicts; a run counts frauds with new evaluations only.  Whether a conversation is
\* an attack is read from its messages.
Commit(a) ==
  /\ pc[a] = "judge"
  /\ txn[a] # None
  /\ \E j \in Judgements :
       LET c == txn[a].conv
           isNew == c \notin txn[a].known
           answer == Answer(c, j.verdicts, IF isNew THEN j.frauds ELSE {})
       IN  /\ isNew => j.row.adversarial = (c \in plan.attacked)
           /\ evaluation' = [evaluation EXCEPT ![c] = IF isNew THEN RowAfter(c, j.row) ELSE @]
           /\ order' \in IF evaluation[c] = None /\ isNew
                         THEN Orders(c, txn[a].known) ELSE {order}
           /\ verdicts' = [verdicts EXCEPT ![a][c] = @ \cup Stored(a, c, j.verdicts)]
           /\ issues' = [issues EXCEPT ![a] = IF txn[a].dup THEN @ ELSE @ \cup Found(answer)]
           /\ unhandled' = [unhandled EXCEPT ![a] =
                IF \E p \in DOMAIN j.verdicts : j.verdicts[p].issue \in NotCovered
                THEN @ \cup {c} ELSE @]
           /\ heard' = [heard EXCEPT ![a] = @ \cup {answer}]
  /\ txn' = [txn EXCEPT ![a] = None]
  /\ UNCHANGED <<plan, deleted, deletedEvals, deletedVerdicts, chart, reports, pc, runs,
                 convIds, todo, seen, series, loaded, late, stale>>

\* update_agent_spc: the scores and the reputation row are read.  A run that has
\* opened no conversation knows no agent.
ReadScores(a) ==
  /\ pc[a] = "judge"
  /\ txn[a] = None
  /\ todo[a] = {}
  /\ pc' = [pc EXCEPT ![a] = IF seen[a] = {} THEN "finish" ELSE "chart"]
  /\ series' = [series EXCEPT ![a] = Scores]
  /\ loaded' = [loaded EXCEPT ![a] = chart]
  /\ stale' = IF seen[a] = {} THEN stale ELSE \E b \in Audits : pc[b] = "chart"
  /\ UNCHANGED <<plan, rows, chart, reports, runs, txn, memory, late>>

\* Bug: a chart that has limits keeps its columns.
WrittenColumns_Once(new, old) == IF old.limits = <<>> THEN new ELSE chart

\* The columns that differ from the loaded ones are written.
WrittenColumns(new, old) ==
  [col \in DOMAIN chart |-> IF new[col] = old[col] THEN chart[col] ELSE new[col]]

WriteChart(a) ==
  /\ pc[a] = "chart"
  /\ chart' = IF HasBaseline(series[a])
              THEN WrittenColumns(SpcSummary(series[a]), loaded[a]) ELSE chart
  /\ pc' = [pc EXCEPT ![a] = "finish"]
  /\ UNCHANGED <<plan, rows, reports, runs, txn, memory, series, loaded, late, stale>>

Count(a, issue) == Cardinality({m \in issues[a] : m[3] = issue})
Counted(a) == {m[3] : m \in issues[a]}

\* Counter.most_common(3) of some issues; ties may go either way.
MostCommon(a, some) ==
  {T \in SUBSET some : /\ Cardinality(T) = IF Cardinality(some) < 3 THEN Cardinality(some) ELSE 3
                       /\ \A i \in T, j \in some \ T : Count(a, i) >= Count(a, j)}

Pattern(a, i) == [issue |-> i, count |-> Count(a, i)]
Structural == [issue |-> "flow", count |-> 0]

Frequent(a, some) == {i \in some : Count(a, i) >= Threshold}

\* _build_suggestions: the three most common, those of them that are frequent.
Templates(a) ==
  {{Pattern(a, i) : i \in Frequent(a, T)} : T \in MostCommon(a, Counted(a))}

\* _flowless_stats: the three most common of the frequent ones, "otro" apart.
Stats(a) ==
  {{Pattern(a, i) : i \in T} : T \in MostCommon(a, Frequent(a, Counted(a)) \ {"otro"})}

\* What the LLM adds: patches for the patterns of an audit without a flow (the
\* figures stay those counted), changes for what the audit's own flow does not
\* cover.  Whatever it raises leaves the templates.
Suggestions(a) ==
  Templates(a)
    \cup (IF plan.flow[a] = "none" THEN Stats(a) \ {{}} ELSE {})
    \cup (IF plan.flow[a] = "own" /\ unhandled[a] # {}
          THEN {templates \cup {Structural} : templates \in Templates(a)} ELSE {})

\* The last transaction: the suggestions, which depend on the run's memory only, and
\* _compute_report_summary over what is still visible of the loaded conversations.
Finish(a) ==
  /\ pc[a] = "finish"
  /\ suggestions' \in {[suggestions EXCEPT ![a] = some] : some \in Suggestions(a)}
  /\ summary' = [summary EXCEPT ![a] =
       ReportSummary(convIds[a] \cap Evaluated, evaluation, Cardinality(convIds[a]))]
  /\ pc' = [pc EXCEPT ![a] = "active"]
  /\ UNCHANGED <<plan, rows, chart, runs, txn, memory, series, loaded, late, stale>>

\* A run raises (an LLM or database error, a conflict) or its worker dies: the open
\* transaction is rolled back and the counters are gone, while what was committed
\* stays and has no chart.
Interrupt(a) ==
  /\ pc[a] \in {"judge", "chart", "finish"}
  /\ pc' = [pc EXCEPT ![a] = "stopped"]
  /\ txn' = [txn EXCEPT ![a] = None]
  /\ Loads(a, {})
  /\ stale' = (stale \/ (pc[a] # "finish" /\ heard[a] # {}))
  /\ UNCHANGED <<plan, rows, chart, reports, runs, series, loaded, late>>

\* DELETE /conversations: the conversation and the rows of it that are committed.
DeleteConversation(c) ==
  /\ c \in Deletable \ deleted
  /\ deleted' = deleted \cup {c}
  /\ deletedEvals' = deletedEvals \cup ({c} \cap Evaluated)
  /\ deletedVerdicts' = [a \in Audits |-> [deletedVerdicts[a] EXCEPT ![c] = verdicts[a][c]]]
  /\ order' = RemoveFirst(order, c)
  /\ late' = IF \E a \in Audits : txn[a] # None /\ txn[a].conv = c
             THEN late \cup {c} ELSE late
  /\ stale' = (stale \/ order' # order)
  /\ UNCHANGED <<plan, evaluation, verdicts, chart, reports, pc, runs, txn, memory,
                 series, loaded>>

Next ==
  \/ \E a \in Audits :
       \/ Start(a) \/ Commit(a) \/ \E c \in Convs : Open(a, c) \/ Skip(a, c)
       \/ ReadScores(a) \/ WriteChart(a) \/ Finish(a) \/ Interrupt(a)
  \/ \E c \in Convs : DeleteConversation(c)

Spec == Init /\ [][Next]_vars
-----------------------------------------------------------------------------
(* What users read.                                                        *)

\* The conversations of GET /audits: visible and judged by this audit.
Shown(a) == {c \in Links(a) \ deleted : Live(a, c) # {}}

\* Its query has no ORDER BY: the rows may come in any order.
Listings(a) == {l \in [1 .. Cardinality(Shown(a)) -> Shown(a)] : IsInjective(l)}

\* Bug: duplicates count.
CountedItems_All(l) == {l[i] : i \in DOMAIN l}

\* B4: "visible pero no contado en agregados".
CountedItems(l) ==
  {l[i] : i \in {j \in DOMAIN l : \A k \in 1 .. j - 1 : Content(l[k]) # Content(l[j])}}

Needs(a, c) == NeedsIntervention(evaluation[c], Live(a, c))

\* Bug: what is read now comes before what the audit has persisted.
Preferred_Live(persisted, live) == live

\* summary.get(...) or what is read now.
Preferred(persisted, live) == IF persisted = None THEN live ELSE persisted

Field(a, name) == IF summary[a] = None THEN None ELSE summary[a][name]

\* get_audit, by the order in which its rows come.
Detail(a, l) ==
  LET items == Shown(a)
      once == CountedItems(l)
      customers == Legit(items, evaluation)
  IN  [total |-> Cardinality(items),
       satisfaction |-> Preferred(Field(a, "satisfaction"), Distribution(customers, evaluation)),
       avgScore |-> Preferred(Field(a, "avgScore"), MeanVisible(customers, evaluation)),
       adversarial |-> Preferred(Field(a, "adversarial"), AttackFigures(once, evaluation)),
       failing |-> {c \in items : Needs(a, c)},
       withVeto |-> Cardinality({c \in once : evaluation[c].veto}),
       needsReview |-> Cardinality({c \in once : evaluation[c].review}),
       critical |-> Cardinality({c \in once : Needs(a, c)}),
       bySeverity |-> [s \in Severities |-> SumOver(once, [c \in once |->
                         Cardinality({v \in Live(a, c) : v.severity = s})])]]

\* The card of list_audits.
Card(a) == [satisfaction |-> Field(a, "satisfaction"), avgScore |-> Field(a, "avgScore"),
            adversarial |-> Field(a, "adversarial")]

\* export_audit_csv: all visible conversations of the audit, judged by it or not.
CsvRows(a, segment) ==
  {c \in Links(a) \ deleted :
     segment # None => c \in Evaluated /\ evaluation[c].segment = segment}

\* get_dashboard is a list of statements, each with a snapshot of its own, that count
\* live rows of evaluations, attacks included, or of verdicts, whatever became of the
\* conversation: conversationsEvaluated, avgScore, satisfaction and topics count
\* Evaluated, conversationsWithIssues the conversations of Flagged, and the others
Leads == {c \in Evaluated : evaluation[c].resolved /\ evaluation[c].sat >= 4}
Unresolved == {c \in Evaluated : ~evaluation[c].resolved}
Verdicts == UNION {{<<a, c, v>> : v \in Live(a, c)} : a \in Audits, c \in Convs}
Hallucinations == {m \in Verdicts : m[3].issue = "alucinacion"}
Flagged == {m \in Verdicts : m[3].label # "ok"}
-----------------------------------------------------------------------------
(* Properties.                                                             *)

\* B2, "card y chips muestran lo mismo": whatever was deleted or judged again
\* since, the list and the report of an audit show the same figures; no chip of a
\* shown conversation is missing in them, and if all its conversations are shown
\* the chips and the attacks add up to them.
CardMatchesReport ==
  \A a \in Audits : summary[a] # None => \A l \in Listings(a) :
    LET d == Detail(a, l)
        chips == Distribution(Legit(Shown(a), evaluation), evaluation)
        attacks == Cardinality(Attacks(Shown(a), evaluation))
        exact == Shown(a) = Links(a)
    IN  /\ Card(a) = [satisfaction |-> d.satisfaction, avgScore |-> d.avgScore,
                      adversarial |-> d.adversarial]
        /\ \A b \in Buckets : /\ chips[b] <= d.satisfaction[b]
                              /\ exact => chips[b] = d.satisfaction[b]
        /\ attacks <= d.adversarial.total
        /\ exact => attacks = d.adversarial.total

\* B3, B4: the report lists exactly the conversations it has a reason to list,
\* and counts contents, not copies, in whatever order the rows come: a content
\* counts if all its conversations need somebody and never if none does.
FailingHasReason ==
  \A a \in Audits : \A l \in Listings(a) :
    LET d == Detail(a, l)
        some == {Content(c) : c \in d.failing}
        all == some \ {Content(c) : c \in Shown(a) \ d.failing}
    IN  /\ d.failing = {c \in Shown(a) : HumanReason(evaluation[c], Live(a, c)) # None}
        /\ Cardinality(all) <= d.critical /\ d.critical <= Cardinality(some)
        /\ d.withVeto <= d.critical /\ d.needsReview <= d.critical

\* One answer of each content, that of every conversation that is left among them.
OfEachContent(a, once) ==
  /\ \A h, g \in once : Content(h.conv) = Content(g.conv) => h = g
  /\ \A c \in Links(a) \ deleted : \E h \in once : Content(h.conv) = Content(c)

\* B4, S2: what a published audit suggests counts the messages of one answer of each
\* content, all of them heard by the run that has published it, however many runs
\* before it raised, died or published, and whichever messages the LLM listed twice or
\* made up.  A frequent pattern is suggested or three that are as frequent are.  Of an
\* audit that was run once no fewer messages of a counted conversation are counted than
\* its report has verdicts of it.
SuggestionsCounted ==
  \A a \in Audits : pc[a] = "active" =>
    \E once \in SUBSET heard[a] :
      LET messages == UNION {Found(h) : h \in once}
          count(i) == Cardinality({m \in messages : m[3] = i})
          patterns == suggestions[a] \ {Structural}
          flags(c) == {v \in verdicts[a][c] : v.issue # None}
      IN  /\ OfEachContent(a, once)
          /\ \A s \in patterns : s.count = count(s.issue) /\ s.count >= Threshold
          /\ \A i \in {m[3] : m \in messages} \ {"otro"} : count(i) >= Threshold =>
               \/ \E s \in patterns : s.issue = i
               \/ Cardinality({s \in patterns : s.count >= count(i)}) = 3
          /\ runs[a] = 1 => \A h \in once : \A v \in flags(h.conv) :
               Cardinality({w \in flags(h.conv) : w.issue = v.issue})
                 <= Cardinality({m \in messages : m[1] = h.conv /\ m[3] = v.issue})

\* The trend of a series is what the Western Electric rules say of it, at every
\* length of a run and with points on the mean.
TrendFollowsRules ==
  HasBaseline(Scores) => RightTrend(Scores, SpcSummary(Scores).trend)

\* A run that has committed something and will still write the chart.
OnItsWay(a) == pc[a] = "chart" \/ (pc[a] = "judge" /\ heard[a] # {})

\* When no run is on its way to the chart, the chart is that of all scores the agent
\* has.  A run that ends before its chart, two that cross at it and a deletion may
\* leave it behind, until the next run that reads the scores alone.
ChartIsCurrent ==
  (~stale /\ HasBaseline(Scores) /\ \A a \in Audits : ~OnItsWay(a)) =>
    chart = SpcSummary(Scores)

\* "Los mismos que se ven por conversación": a row that a statement of the dashboard
\* counts is of a conversation that can be opened, verdicts in the report of their
\* audit, unless a run had the conversation open when it was deleted; and it counts
\* every conversation that a report shows.
DashboardIsVisible ==
  /\ Evaluated \cup Leads \cup Unresolved \subseteq (Convs \ deleted) \cup late
  /\ \A m \in Hallucinations \cup Flagged : m[2] \in Shown(m[1]) \cup late
  /\ \A a \in Audits : Shown(a) \subseteq Evaluated \cap CsvRows(a, None)
=============================================================================
