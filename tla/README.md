# TLA+ models of insyta-api

Formal models of `insyta-api`: what happens to an audit, an uploaded file, a
flow, a reputation and a deleted project when HTTP handlers, Celery workers, the
broker and users act at the same time and processes die in between; what users
read of it meanwhile; and how an evaluation becomes a score. The modules are
checked with TLC on small instances, and the safety properties are proved with
TLAPS for every instance.

Paths such as `workers/audit.py` are relative to `src/app/`.

## 1. The system

The API is a FastAPI application over PostgreSQL (READ COMMITTED, row-level
security per organization) with Celery workers behind a Redis broker. Every
request runs in one transaction that the dependency `get_db_with_tenant_context`
commits after the handler has returned; every task opens a `tenant_txn` per
unit of work.

| Component | State | Operations | Hard part | Correct when |
|---|---|---|---|---|
| Audit run (`routers/audits.py`, `workers/audit.py`, `services/notifications.py`) | audit row, links to conversations, evaluations, verdicts, improvements, notifications; counters in the memory of the run | create, run conversation by conversation, publish, fail | task sent before commit; LLM awaited inside a transaction; runs that crash, repeat, overlap; deletions meanwhile | a report covers its conversations; evaluations are whole, unique and first-writer-wins; an audit ends |
| Task queue (`services/celery_app.py`) | ready and unacked tasks | deliver, ack late, requeue, redeliver | at-least-once delivery | no queued task is lost |
| Upload ingestion (`routers/uploads.py`, `workers/processor.py`, `services/idempotency.py`) | upload row and raw bytes, conversations, messages | create, enqueue, process, complete, fail, delete | commit before enqueue; one transaction per conversation; several files with the same external id | messages once, nothing of a file lost, counters that reach the total, the first upload keeps a conversation |
| Flow history (`routers/flows.py`, `models/flow_versions.py`) | flow content, numbered versions | create, update, restore, list (seeds a history), delete | read-then-write without `FOR UPDATE`; a number computed from `max` | unique numbers without gaps; the highest version is the flow |
| Soft delete (`services/soft_delete.py`, `core/db.py`) | `is_deleted`, `deleted_at` on every row | cascades, the filter of every read | several statements, row locks taken in different orders, concurrent inserts | what hung from a root is deleted, once; nobody waits for ever |
| Organization LLM keys (`routers/settings.py`, `services/llm_keys.py`, `llm/credentials.py`) | key per organization and provider | set, delete, read | checked at the request, used later | a run without its key fails with a message |
| Reputation and SPC (`services/reputation.py`, `services/spc.py`) | averages, counters and control chart per agent and user | read, change in memory, write | lost updates, first insert, rounding, lengths of runs | nothing is counted twice, what a lock protects is exact, the chart follows its rules |
| LLM routing and judging (`llm/router.py`, `llm/audit_judge.py`, `llm/flow_audit.py`) | none | try providers in turn; suggestions with templates as a fallback | which error moves on and which ends the run | a run fails only for a cause |
| Scoring (`services/rubric_scoring.py`, `rubric_mapping.py`, `segmentation.py`, `verdict_grounding.py`, `fraud.py`) | none | pure functions, chained by the run | boundaries, order of precedence, several sources of one flag | caps, reviews, alerts follow from the evidence |
| Reports (`services/report_metrics.py`, `routers/audits.py`, `routers/dashboard.py`) | the persisted summary of an audit | list, report, CSV, dashboard | half of a report is persisted, half is read now; copies of one content; deletions in between | the figures of all views agree |
| Conversations endpoints (`routers/conversations.py`) | none | page through a project, grouped listing, detail, delete | random ids as cursors; several statements per answer | nothing is missed or repeated, nothing is older than its request |
| Tenancy and authentication (`core/auth.py`, `routers/auth.py`, `projects.py`, `supervisors.py`, `uploads.py`) | the kept keys of Supabase; users, organizations, projects, default agents | verify a token, resolve the organization, bootstrap, get-or-create | keys that rotate while they are cached; two first requests | one row for all; keys no older than their hour |
| Improvements and notifications endpoints, validators, parsers, anonymizer, shell | status and read flags; otherwise none | - | wording | - |

How they interact: `create_audit` and `create_upload` leave a row and a task;
the workers read the row and leave evaluations, verdicts, conversations and
messages under unique keys that other runs and uploads share; `DELETE` handlers
flag the same rows; a finished audit inserts improvements that hang from a flow
and persists a summary that later requests mix with what is left of its rows.

`PROJECT.json` lists every component, the hazards at their lines and what
covers each.

## 2. The modules

A database variable holds committed rows only. What a transaction has read or
inserted but not committed lives in the variables of the worker or request that
runs it; a crash or an exception forgets it. A step is atomic where the code
cannot be interleaved visibly: one statement, or the tail of a transaction from
its last await on other actors to COMMIT.

### AuditLifecycle

The whole life of an audit.

- *API*: `CreateAudit` (the handler up to `send_task`, its last call), then
  `CommitAudit` or `RollBackAudit` (the dependency), `DeleteConversation` (the
  cascade), `SetLlmKey`.
- *Broker*: `Receive`, `Acknowledge`, `Crash`, `Redeliver`. `holds[w]` says
  that the broker still counts the delivery as unacked: a crash requeues only
  such a delivery, and a visibility timeout restores it while its run goes on.
- *Worker*: `pc[w]` follows `run_audit`: `load` (first transaction), `loop`
  (between conversations), `check` (conversation loaded, the SELECT of its
  evaluation next), `evaluate` (the LLM has been asked, the INSERT next),
  `judge` (the judge has been asked; verdicts, rubric, reputation, progress and
  COMMIT next), `failing` (inside `_fail`), `ack`.
- The unique key of `evaluations` is modelled as PostgreSQL treats it:
  `InsertEvaluation` waits while another open transaction holds the key
  (`KeyIsFree`) and then adds a row only if none is committed
  (`InsertAddsRow`). The decision to write rubric and reputation uses `fresh`,
  which was read before the LLM was awaited (`new_parsed` in the code).

- `DeleteConversation` flags the rows it can see: the links leave `links`, the
  evaluation is `hidden` from the SELECT of a later run although its key is
  taken, the verdicts move to `flagged` and stay there when a run writes them
  again (`ON CONFLICT DO NOTHING`).

What is abstracted: the texts, scores and issues (a judged conversation is
critical or not, a finished run has suggestions or not; `AuditReport` has the
rest); the order of `conv_ids`; the arithmetic of reputation (`counted` records
the calls). Refused requests change nothing and are not actions. A cascade is
one step here; `SoftDelete` has its statements. Histories serve the properties:
`raced`, the conversations that two open transactions found without an evaluation,
and `again`, how often the task of an audit was delivered again; `crashes` and
`redeliveries` bound the faults.

### AuditContract

The abstract service: accept, withdraw, judge, publish, fail, with no worker,
broker or transaction. `AuditLifecycle!Contract` instantiates it, with `owed`
as the links of committed audits, `ledger` as `evalBy`, `judged` as `verdicts`;
`ImplementsContract` says that every behaviour of the detailed module is one of
the contract.

### UploadIngestion

`CreateUpload` (through its explicit commit), `EnqueueUpload` or
`EnqueueFails`, `DeleteUpload`, `DeleteConversation`, the same broker, and the
worker: `LoadUpload` and `LoadFails`, `RejectEmpty`, `StartProcessing`,
`UpsertConversation` (waits for an open transaction with the same key),
`CommitConversation`, `WriteProgress`, `MarkCompleted`, `RunRaises`,
`MarkFailed`, `MarkFailedRaises`. A file is the set of external ids that its
parser yields; the order is left open. `ProgressStep` is the constant
`progress_step` (5 in the code, smaller in the runs so that both branches
happen). All uploads attach to one default agent, so an external id is the key
`(agent_id, external_id)`.

### IngestionContract

The abstract ingestion: accept, open, store, complete, fail, withdraw. The first
file that stores a conversation has it for good; nothing is stored from a file
whose bytes are gone; a file without conversations is never completed; what is
deleted stays deleted. `UploadIngestion!Contract` instantiates it, with `phase` as
`Phase` (pending and processing are both open), `owed` as `file`, `kept` as `raw`.

### FlowVersions

One flow and its concurrent requests, statement by statement: the SELECT that
loads the flow, the flush (an UPDATE, hence a row lock, only if the content
differs from what was loaded, as the ORM does), `max(version_number)`, the
INSERT (which waits for an uncommitted row of the same number and fails on a
committed one), COMMIT. Listing seeds an empty history. A delete flags the
versions and then the flow. Renaming a flow or a version leaves content and
numbers alone and is left out.

### FlowContract

The abstract history: a content, what it has been (`past`), a chain of versions
that only grows, and whether the flow is `gone`. `Change` replaces the content and
appends it in one step; `Snapshot` appends a content that the flow has had, which is
all that a listing, or an update that changes nothing, can add; `Delete` leaves
content and chain alone. `FlowVersions!Contract` instantiates it, with `Chain`, the
committed versions in the order of their numbers, and `Past`, what the content and
the loaded contents have been. That a version is written with the change it records
or not at all, that none is replaced and that none is of a content the flow never had
is `ImplementsContract`.

### Reputation

The `agent_reputation` row of one agent and the `user_reputation` rows of its
conversations, under transactions that each evaluate one conversation. `pc[w]`
follows the statements of a transaction: `asked` (no evaluation was found, the
LLM has been asked), `evaluated` (the evaluation is inserted), `agent` (the row
of the agent was read and changed in memory), `user` (the SELECT of the user's
row has flushed the agent's row, so this transaction holds it), then COMMIT. The
session writes only the columns that differ from what it loaded, with literal
values (`Written`): that is why two overlapping updates lose one count but may
each keep the other's veto. A first insert clashes with another one on the
unique `agent_id` (`FlushFails`). `Abort` is an exception or a lost worker.
Averages are integers of hundredths; `MergeAvg` gives every nearest hundredth,
since the code rounds a float. `told` and `stale` are histories: the answers
that were committed with their conversations, and whether a row was ever written
over one it was not read from. Deletions are left out; the SPC transaction, which
only sets columns of its own, is in `AuditReport`.

It is the detail of the `counted` step of `AuditLifecycle`, where an addition to
the reputations is one call; the two are checked apart.

### Scoring

The pure functions between the answers of the LLM and the columns of an
evaluation, as operators: `GuardVerdicts`, `MapEvalToRubric`, `ComputeScores`,
`DeriveSegment` and what they are made of. Weights, confidences and scores are
integers of hundredths; a rounding gives every nearest integer. A rubric maps
the dimensions that have a score to that score.

### ConversationEvaluation

One conversation of a run: the chain of the evaluation (`EvaluatePrimary`,
`FallBack`, `PrimaryFails`, `EvaluateFallback`, `FallbackFails`), the chain of
the judge (`JudgePrimary`, `JudgeMovesOn`, `JudgeFallback`, `JudgeFails`,
`JudgeMalformed`), then `Score`, which applies `Scoring` to the answers. `keys`
are the providers of which the run holds a key: the organization has columns for
two, so never one of OpenAI. A call ends in an answer, a text that does not
parse, a rate limit, a refusal or an outage; without a key it is not made. What
is fraud, an attack, an invented price, an invalid CBU or a note without ground
is decided by text matching and is an input.

### SoftDelete and Tenancy

`SoftDelete` is a transaction manager for the rows of one project: each row has
a table and the rows it belongs to, `refs`. `Owners` names the foreign keys of
each table, and `SchemaAssumption` is what the schema and the writers make of
them: a row belongs to rows of the tables its keys name; `project_id` and
`conversation_id` are copied from an owner to what hangs from it (`Copied`), as
every insert of the code does; rows exist with their owners; a writer inserts below
what it has read. A request that deletes a root finds it
(`Begin`), reads the ids of its cascade (`FindIds`, `Cascade` names the tables in
the order of the code) and then runs one UPDATE per table: `Execute` is the
snapshot of a statement, `LockRow` takes one row, waits for its holder and asks
again whether the row still matches, as READ COMMITTED does. `Commit` flags
what is held. Writers (a task that stores, a run that evaluates, a new
supervisor) read, update and insert in the same rows. `BreakDeadlock` is the
deadlock detector, `ReputationClash` the unique key a run meets when the
reputation was deleted, `Raise` a lost connection. `state` and `stamp` are the
committed `is_deleted` and `deleted_at`.

`Tenancy` extends it with the rows that exist once: the user and organization of
an identity, the project of a slug, the default agent of a project. A request
looks for the row (`Find`), inserts it (`Insert` waits for an open transaction
with the key) or fails on it (`Clash`), and commits. The default agent is a row
of `SoftDelete`, so a project may be deleted between two of those steps.

### SpcRules, ReportMetrics and AuditReport

`SpcRules` is the control chart: baseline, the three Western Electric rules as
the counters of `check_rules`, trend and persisted columns, next to what the
rules say as windows of a series (`RightTrend`). Scores are integers and the
statistics exact: comparisons are multiplied out instead of divided.

`ReportMetrics` has the rules behind every figure (buckets, visible score,
attacks, legitimate customers, who needs a person and why) as operators on
evaluation rows.

`AuditReport` composes them. A run begins (`Start`: the first time, or again
after one that ended in whatever way), opens a conversation (`Open`: a transaction
that reads it and whether it has an evaluation, and awaits the LLM) or does not
find it (`Skip`), commits what the LLM said of it (`Commit`), reads and writes the
chart of the agent (`ReadScores`, `WriteChart`), and publishes suggestions and a
summary (`Finish`). It may raise or die at any point before that (`Interrupt`): the
open transaction is rolled back, the counters are gone, what was committed stays.
Meanwhile other runs go on and conversations are deleted, open ones included
(`DeleteConversation` flags the committed rows only). `Commit` follows the code in
what it keeps of an answer: an evaluation only if none is there, the rubric columns
whoever inserted the row, of the verdicts those on messages that exist and the first
of each (`Stored`), and in memory all of them (`Found`), of one conversation of each
content. `evaluated_at` is taken before the commit, so a row may be ordered before
rows that were committed earlier (`Orders`).

What users read are operators on a state: the card of the list, the report, the CSV,
and each statement of the dashboard by itself, since each has a snapshot of its own.
A listing without `ORDER BY` is every order of the visible rows.

What is abstracted: all conversations are of one agent; a delete is one step
(`SoftDelete` has its statements); the SELECT of the evaluation is one with the
reading of the conversation; runs of one audit do not overlap (`AuditLifecycle` has
the overlap, the broker and the status). Three histories serve the
properties: `heard` keeps the answers that a run has counted from, `late` the
conversations that were deleted while a run had them open, `stale` whether a run has
missed the chart.

### Access and Reading

`Access` is the dependency of every endpoint: the token (signed with the shared
secret or with a key of Supabase), the keys a process keeps for `Ttl`, their
fetch, their rotation, the organization from the claim or the users table,
bootstrap. `Reading` extends it with what an admitted request reads, statement
by statement: a page of a project (`FindProject`, `ReadPage`), the grouped
listing (`ReadUploads`, `ReadGrouped`), the detail (`FindConversation`,
`ReadMessages`, `ReadEvaluation`, `ReadVerdicts`), while conversations are
stored, judged and deleted. Each page is a request of its own and is let in
again. A conversation is the number of its random id among all ids. `steady` and
`known` are histories: what has been visible since a reading began, and what its
detail had then.

### MC modules, variants and proofs

`MCAuditLifecycle`, `MCUploadIngestion`, `MCFlowVersions`, `MCReputation`,
`MCConversationEvaluation`, `MCTenancy`, `MCAuditReport` and `MCReading` name the
model values, the small sets of answers and the symmetry sets of the runs.

Definitions whose name has a suffix (`NextDone_NewOnly`, `NextCursor_Extra`, ...)
are variants a bug would give. They stand before the definition they would
replace and nothing uses them; substituting each must break the property
`PROJECT.json` lists with it.

The theorems about a module `M` are in `M_proofs`.

## 3. The runs

All runs disable the deadlock check: once every request was served the system
stops.

| Run | Instance | Shows |
|---|---|---|
| `AuditShared` | 2 audits, 1 shared conversation, 2 workers, 1 crash, 1 redelivery, exceptions, outages, deletion | `ActiveMeansJudged`, `EvaluatedTogether`, `VerdictsHaveEvaluation`, `CountedOnce`, `RubricBelongsToEvaluation`, `ImprovementsPerDelivery`, `CriticalIsAnnounced`, `EndedIsFinal`, `ImplementsContract`, with all the faults at once |
| `AuditEnds` | 1 audit, 2 conversations, 2 workers, crash, redelivery, exceptions, deletion, key changes | liveness: `QueuedAuditEnds`, `QueuedAuditCompletes` |
| `UploadShared` | 2 uploads, 2 external ids, 2 workers, crash, redelivery, exceptions, outages, deletions | `MessagesOnce`, `RawKeptUntilStored`, `CompletedCountsAll`, `ImplementsContract` |
| `UploadEnds` | 2 uploads, 1 shared id, 2 workers, crash, redelivery, exceptions, deletions | liveness: `QueuedUploadEnds`, `QueuedUploadCompletes` |
| `FlowShared` | 3 requests of any kind, 2 contents, flow with and without history | `Numbered`, `WritersKeepCurrent`, `ImplementsContract`, liveness `RequestsEnd` |
| `ReputationShared` | 3 workers, 2 conversations, 3 answers, 4 transactions, aborts anywhere | `AgentCounts`, `UserExact`, liveness `TransactionsEnd` |
| `TenancyShared` | 3 requests of any kind over the 14 rows of a project (new, being filled, full) | `OneForAll`, `SomebodyMoves`, `DeletedAtKept`, `CascadeComplete` |
| `Evaluate` | both engines, every set of keys and replies, small sets of answers around every threshold, up to 2 verdicts of 6 kinds, grounded and not, with and without severity, `VetoThreshold` at a confidence that occurs (0.80), every detection | `FailureHasCause`, `CapsMatchEvidence`, `SignalsAreReviewed` |
| `Reports` | 2 audits over 3 conversations with copies, earlier evaluations and one that may be deleted; each audit run up to twice, every run interrupted anywhere; 5 judgements, one with repeated and made-up verdicts of more than three issues; series of up to 9 scores | `CardMatchesReport`, `FailingHasReason`, `SuggestionsCounted`, `TrendFollowsRules`, `ChartIsCurrent`, `DashboardIsVisible` |
| `ReadingShared` | a caller, 4 conversations in 3 uploads of 2 projects, pages of 1 and 2, 2 audits, 1 key that lives 2 ticks of 3 | `NothingMissed`, `DetailIsCurrent`, `KeysFollowRotation` |
| `StuckRunning` | 1 audit, no fault at all | violates `EveryAuditEnds` |
| `MildHidesSevere` | 2 verdicts | violates `SevereHallucinationCaps` |

Why these bounds are enough to be interesting. Two workers are what an overlap
needs, and every conflict in the code is between two transactions on one key.
Two audits on one conversation exercise the shared key; one audit with two
conversations exercises a run that is interrupted half way. One crash and one
redelivery together already give a run that overlaps a repeated one. Three flow
requests allow a reader, a writer and a third that arrives between them. Three
requests over a project allow a cascade, one that crosses it and a writer, hence
every pair of lock orders and a third that waits; its 14 rows have every table on
which two cascades or a cascade and a writer can meet. Three workers and two
conversations allow a lost update of a reputation while a third transaction
waits, and four transactions (`MaxTxns`) reach the threshold of two frauds in one
user after one was already lost or aborted. Two verdicts are what the order of
hallucinations needs; the answers include both sides of every threshold of the
scoring. Nine scores reach both lengths of the control chart's rules (6 and 8)
and one point beyond, with a baseline of two (`BaselineN`, 20 in the code) so
that the series goes on after it. Four conversations give a listing of three
pages with ids of two uploads interleaved. A cache life of two ticks under a
clock of three has a first fetch, a rotation inside the hour and one after it.

`ReadingShared` has the constraint `KeysOrRows`: callers whose token a key of
Supabase signs meet rotations but no deletes or judgements, the others the
reverse, so that the two causes do not multiply; the theorems of §5 are
about both at once. Apart from it, the counters are bounded only by `MaxCrashes`,
`MaxRedeliveries`, `MaxTxns`, `MaxScores` and `MaxClock`.

Some safety results are conditional because the code makes them so, and the
condition is a premise inside the property, over variables of the model:

- `CriticalIsAnnounced` and `EndedIsFinal` are about an audit whose task was
  delivered once so far (`Once`); crashes and redeliveries of other audits are
  inside. `critical_count` is in the memory of a run, so a run repeated after a
  crash skips the critical conversations and creates no alert. A repeated run sets
  `failed` on what was `active`.
- `ImprovementsPerDelivery` needs no premise, and is weaker than one might wish: a
  task repeated after its last commit inserts the improvements of its suggestions
  again (notifications have an `event_key` and suggestions are overwritten,
  improvements have neither). There are no more sets of them than deliveries.
- `CountedOnce` and `RubricBelongsToEvaluation` hold for a conversation that no
  two open transactions found without an evaluation (`Undisturbed`). Whether a
  conversation is new is decided before the LLM is awaited and not by whether
  the INSERT added a row, so two overlapping runs both feed the reputations and
  the later rubric lands on the earlier answer. Crashes and repeats alone do no
  harm, which is what the premise leaves to show.
- `CompletedCountsAll` holds unless a task was delivered to a second worker while
  the first went on; a repeat after a crash is covered.
- `WritersKeepCurrent`: listing a history that does not exist yet snapshots the
  content it loaded earlier; an update that commits in between gets number 1 and
  the old content number 2, the current one. The same happens to an update that
  changes nothing it has loaded and therefore locks nothing. The highest version
  is the flow as long as every snapshot belongs to a request that changed what it
  had loaded.
- `AgentCounts`: the row of the agent is read without a lock and written back;
  it is exact as long as no transaction wrote it over one it had not read
  (`stale`), and never too high. The row of a user needs no condition:
  `UserExact` shows that the key of the evaluation and the row of the agent keep
  its transactions apart.
- `ChartIsCurrent`: a run that raises or dies after it has committed something
  never comes to the chart, two runs that cross between reading the scores and
  writing the columns may leave the older chart or a mixture of both (the session
  writes only the columns that differ), and nobody redraws it after a delete
  (`stale`). The next run that reads the scores alone makes it current again; that
  it does, and that nothing else leaves it behind, is the property.
- `DashboardIsVisible` leaves out the conversations that a run had open when they
  were deleted (`late`): the rows inserted afterwards are live under a deleted
  conversation.
- `SuggestionsCounted`: the comparison of counts with stored verdicts is for an
  audit that was run once. A run that repeats another one hears new answers and
  stores none of them where a message has a verdict; the rest of the property is
  about every run.
- `CascadeComplete` is about the rows that existed when the delete began; a child
  that commits between two of its statements survives it.
- `KeysFollowRotation` allows what an hour of caching means and no more.

### What the violated runs show

- `StuckRunning`: `create_audit` sends the task before its rows are committed. A
  quick worker reads no audit, `_fail` updates no row, the task is acked, and
  the audit that commits next stays `running` although a comment says that no
  failure leaves it so. `QueuedAuditEnds` is the promise that does hold: a task
  still queued when the row commits ends the audit.
- `MildHidesSevere`: a comment says that a severe hallucination is firm and caps
  the score. The mapping looks at the first hallucination only; a mild one, or
  one downgraded by the guard, makes a later critical one tentative.
  `CapsMatchEvidence` says what does hold of caps, in both directions.

### What else was met while modelling

Differences between the code and its text that the modules follow on the side of
the code, without a run of their own:

- `llm/router.py:4` documents a fallback from Anthropic to OpenAI. Keys are only
  those of the organization, and there is no column for one of OpenAI
  (`services/llm_keys.py:15`), so the fallback of the default engine always
  raises; `FailureHasCause` is stated for organizations that have both keys.
- `routers/conversations.py:7` takes ids for UUIDv7. They are `uuid4`
  (`services/idempotency.py:50`), so pages are in a fixed but random order and not
  newest first; `NothingMissed` does not need more.
- The comment "visible pero no contado en agregados" of `isDuplicate`
  (`routers/audits.py:544`) is true of the figures computed on reading; the
  persisted figures of attacks and satisfaction count copies. That is why
  `CardMatchesReport` compares chips with all shown conversations and
  `FailingHasReason` counts contents.
- The dashboard shows raw scores and counts attacks, a report shows visible
  scores of customers only. Its quality figures are "los mismos que se ven por
  conversación" (`routers/dashboard.py:73`), but it asks for rows of evaluations and
  verdicts without the conversation: those that a run commits after its conversation
  was deleted are counted and cannot be seen (`late` in `DashboardIsVisible`).
- `services/verdict_grounding.py:6` says that a verdict without ground gets a lower
  severity and with it a lower confidence. A verdict that has no severity keeps none
  (`:59`), and a hallucination without severity has a confidence of 0.80
  (`services/rubric_mapping.py:71`): it is firm and caps the score, with ground or
  without. `CapsMatchEvidence` says so.
- An evaluation that is valid JSON but no object raises `TypeError`
  (`llm/router.py:317`), which is no `TransientLLMError`: the run ends without asking
  the second provider (`"noobject"` in `ConversationEvaluation`).
- `_build_suggestions` counts every verdict of the judge (`workers/audit.py:610`),
  also those on messages that do not exist and the second one on a message, which
  `_persist_message_evals` drops (`:176`, `:199`): a suggestion may speak of more
  messages than the report shows.
- Frauds are counted in the run that inserts the evaluation (`workers/audit.py:662`):
  the run that repeats it after a crash suggests nothing against them.
- "Create one pending Improvement per suggestion" (`workers/audit.py:256`) is true of
  one delivery: each further one that comes to its end inserts them once more
  (`ImprovementsPerDelivery`).
- Two of the six documented segments are never given: `cliente_ideal` and
  `potencial_lead` (`services/segmentation.py:53`, `:62`) ask for the dimensions F1 and F3,
  and `map_eval_to_rubric`, which makes every rubric of a run, fills neither
  (`LeadsAreNotFound`). The filter of the CSV (`routers/audits.py:331`) names both.
- A rounded average stops moving (`AveragesFreeze`, `services/reputation.py`): each
  update rounds to two decimals what the next one starts from.
- A conversation that is stored while its upload is deleted survives the cascade;
  it is hidden from the grouped listing and shown in the listing of its project.
- The 400 of the flow audit endpoint (`routers/flows.py:545`) is for a key that the
  provider rejects. `audit_flow` raises `FatalLLMError` only without a key, which
  the endpoint has refused with 402 by then; a rejected key is a
  `TransientLLMError`, which nothing there catches.
- The two row policies of a table are permissive and PostgreSQL joins such
  policies with OR: a row passes if either holds (`Visible`).

## 4. Fairness

`AuditLifecycle!Fairness` and `UploadIngestion!Fairness` are weak and only on
steps that nothing outside decides: the framework ends a request it has started
(`CommitAudit \/ RollBackAudit`), the broker delivers a ready task to an idle
worker (`Receive`), a worker that is alive takes some next step (`WorkerStep`).
The last is justified because every LLM call has a client timeout and raises on
it, which is `RunRaises`, one of the worker's steps; the wait of an INSERT for another
transaction ends because that transaction is a worker too. `RunRaises` is a
choice of the same step, so fairness never forces success: that is why
`QueuedAuditCompletes` and `QueuedUploadCompletes` assume that no run fails.
Creating, deleting, changing keys, crashing and redelivering are never owed. In
`FlowVersions` a request that has arrived goes on (`Serve`); nobody has to send
one. In `Reputation` a statement that need not wait is executed (`Statement`);
nobody has to begin or abort, so `TransactionsEnd` says that the waits have no
cycle. Redis is assumed not to lose a task it has accepted.

`Tenancy` states the same without a temporal formula: `SomebodyMoves` says that as
long as a request is open some request waits for nothing (`CanMove`) and has a step
without faults (`ENABLED`), and each takes finitely many steps
(`RequestsAreFinite`, §5). It fails without the deadlock detector.

## 5. The proofs

Eight modules hold theorems. Each is for any sets of audits, uploads,
conversations, workers, requests or callers and any bounds, under the `ASSUME`s of
the module it is about (finite sets, subsets, a `None` that is no member), which
TLC evaluates in the runs. What is stated only in a `_proofs` module
(`AveragesAreNear`, `ScoreIsMean`, `RunsCountDown`, ...) TLC has checked on the
instances of §3 as well, without a run of its own.

| Module | Theorem | Statement |
|---|---|---|
| `AuditLifecycle_proofs` | `TypeCorrect` | `Spec => []TypeOK` |
| | `ReportsCover` | `Spec => []ActiveMeansJudged` |
| | `NoHalfEvaluation` | `Spec => []EvaluatedTogether` |
| | `SkippingIsSafe` | `Spec => []VerdictsHaveEvaluation` |
| | `EvaluationsAreFinal` | `Spec => FirstEvaluationWins` |
| | `NothingCountedTwice` | `Spec => []CountedOnce` |
| | `RubricIsOfItsRow` | `Spec => []RubricBelongsToEvaluation` |
| | `ContractHolds` | `Spec => ImplementsContract` |
| | `ImprovementsAreDeliveries` | `Spec => []ImprovementsPerDelivery` |
| | `AlarmsAreRaised` | `Spec => []CriticalIsAnnounced` |
| | `EndsAreFinal` | `Spec => EndedIsFinal` |
| | `TasksAreKept` | `Spec => TaskKept` |
| | `NobodyIsStuck` | some worker `CanGoOn` while one is busy |
| | `RunsAreFinite` | a delivery of n conversations takes at most 4n + 6 steps |
| `UploadIngestion_proofs` | `TypeCorrect` | `Spec => []TypeOK` |
| | `StoredOnce` | `Spec => []MessagesOnce` |
| | `NothingLost` | `Spec => []RawKeptUntilStored` |
| | `OwnersAreFinal` | `Spec => FirstUploadOwns` |
| | `ContractHolds` | `Spec => ImplementsContract` |
| | `CountersAreRight` | `Spec => []CompletedCountsAll` |
| | `TasksAreKept` | `Spec => TaskKept` |
| | `NobodyIsStuck` | some worker `CanGoOn` while one is busy |
| | `RunsAreFinite` | a delivery of n conversations takes at most 3n + 5 steps |
| `FlowVersions_proofs` | `TypeCorrect` | `Spec => []TypeOK` |
| | `NoGaps` | `Spec => []Numbered` |
| | `ContractHolds` | `Spec => ImplementsContract` |
| | `LockIsEnough` | `Spec => []WritersKeepCurrent` |
| | `NobodyIsStuck` | some request `CanServe` while one is open |
| | `RequestsAreFinite` | a request takes at most 6 steps |
| `Reputation_proofs` | `TypeCorrect` | `Spec => []TypeOK` |
| | `UsersAreExact` | `Spec => []UserExact` |
| | `AgentsAreBounded` | `Spec => []AgentCounts` |
| | `NobodyIsStuck` | some transaction `CanGoOn` while one is open |
| | `TransactionsAreFinite` | a transaction takes at most 4 statements |
| | `AveragesStayInRange` | `Spec => []AveragesInRange` |
| | `AveragesStayNear` | `Spec => []AveragesAreNear`: at most (n + 1) / 4 hundredths from the mean of n answers |
| | `AveragesFreeze` | a value within n / 200 of an average of n no longer moves it |
| `Tenancy_proofs` | `TypeCorrect` | `TenancySpec => []TypeOK` |
| | `SameRowForAll` | `TenancySpec => []OneForAll` |
| | `StampsAreFinal` | `TenancySpec => DeletedAtKept` |
| | `CascadesAreComplete` | `TenancySpec => CascadeComplete` |
| | `NobodyIsStuck` | some request `CanMove` while one is open |
| | `RequestsAreFinite` | in finitely many rows a request takes finitely many steps |
| `Reading_proofs` | `TypeCorrect` | `Spec => []TypeOK` |
| | `ListingsAreComplete` | `Spec => []NothingMissed` |
| | `DetailsAreCurrent` | `Spec => []DetailIsCurrent` |
| | `KeysRotate` | `Spec => KeysFollowRotation` |
| `ConversationEvaluation_proofs` | `TypeCorrect` | `Spec => []TypeOK` |
| | `FailuresHaveCauses` | `Spec => []FailureHasCause` |
| | `CapsAreFounded` | `40 < VetoThreshold` and `VetoThreshold <= 80` imply `Spec => []CapsMatchEvidence` |
| | `ReportsAreReviewed` | `Spec => []SignalsAreReviewed` |
| | `ScoresAreMeans` | `Spec => []ScoreIsMean` |
| | `LeadsAreNotFound` | `Spec => []NobodyIsLead` |
| `AuditReport_proofs` | `ChartStaysCurrent` | `Spec => []ChartIsCurrent` |
| | `TrendIsFounded` | `Spec => []TrendFollowsRules` |
| | `CardAndReportAgree` | `Spec => []CardMatchesReport` |
| | `FailingIsFounded` | `Spec => []FailingHasReason` |
| | `SuggestionsAreFounded` | `Spec => []SuggestionsCounted` |
| | `DashboardIsFounded` | `Spec => []DashboardIsVisible` |

The arguments. Types come first everywhere, with the few facts that make a
variable mean something (`Typed`: a busy worker has a job, an open transaction a
conversation, a served request what it has read so far). None of the properties is
inductive: what keeps them is in the memory of workers and requests, and the
strengthening says what.

*The run of an audit.* That an `active` audit is covered follows from what its
run has gone through. `IInv` adds `Strengthening`:

- `RequestsClose`: an audit row exists only after its request has ended;
- `RunsAreCommitted`: a run past its first transaction is about a committed audit;
- `TransactionsInsert`: an uncommitted evaluation is alone on its key, no row is
  committed under that key, and its transaction goes on to write the rubric; a
  transaction that lost the race leaves a committed row behind;
- `RunsCover`: each conversation linked to the audit of a run is still to come,
  is open, was judged, or was deleted;
- `FlaggedAreDeleted`: flagged verdicts are of a deleted conversation that has an
  evaluation.

`RunsCover` is the loop invariant: when nothing is left to do it gives
`ActiveMeansJudged`. It survives `DeleteConversation` because the cascade drops
the link and the verdicts in one step, and crashes because verdicts are
committed conversation by conversation. `TransactionsInsert` gives
`FirstEvaluationWins` (the only write of `evalBy` is by a transaction that
inserted) and, with it, the two invariants on evaluations. The refinement maps
`CommitAudit` to `Accept`, `DeleteConversation` to `Withdraw`,
`CommitConversation` to `Judge` (to a stutter when its verdicts are flagged),
`FinishAudit` to `Publish`, `MarkFailed` to `Fail` or a stutter when the row is
absent, and the rest to stutters; `IInv` provides the guard of `Publish` and the
first-writer rule of `Judge`.

*Counting once.* `OverlapsAreSeen` says that two transactions that found a
conversation without an evaluation have made it `raced`; so one on an
undisturbed conversation is the only one, inserts the row (`AloneIsFirst`) and
is the one that counts (`CountedIffEvaluated`).

*Deliveries.* `OneDelivery`: until a task is delivered twice, it is not yet sent, in
the broker, or with one worker. So an audit whose task still runs has not ended
(`RunsOnce`), and its run remembers every critical conversation (`NotAnnouncedYet`):
the last transaction, which is alone, makes `Told`. Improvements need more than one
delivery in the invariant: `SetsAreDeliveries` adds up, for every audit, the sets that
were inserted, the deliveries that wait, and the workers that still may insert one;
a crash moves a delivery from a worker to the queue, the end of a run takes one out,
and only a redelivery, which `again` counts, makes the sum larger.

*Ingestion.* `NewIsAlone` is the key of the upsert; `RunsStore` is its loop
invariant: what a run has parsed and no longer has to do is stored, by it or by
another upload. `RunsParse` says that a run has to do what its file holds. The
refinement maps `CreateUpload` to `Accept`, `StartProcessing` to `Open`, the commit
of a new conversation to `Store` and of a duplicate to a stutter, `MarkCompleted` to
`Complete`, `RejectEmpty` and `MarkFailed` to `Fail`, the deletes to the
withdrawals; that a new conversation comes from a file that still has its bytes is
`NothingLost` read backwards. `CountersAreRight` has an invariant of its own, `OneDelivery`
without redeliveries and `RunsCount`: done and to do add up to the file.

*Versions.* `Drawn`: a number is at most one more than the highest, and exactly
that, for one request only, once it is inserted, because the key makes the others
wait and fail. `Locked` ties the row lock to who has changed the content, and
`LockedIsNext` to the version it will commit. For the contract, `Traces` says
that once anybody has loaded the flow its content is known to a version or to who
has loaded it, so a change forgets nothing of `Past`; every commit is then one step
of the contract and every other step a stutter. The chain grows at its end because a
number is drawn once and the one that is inserted is the next.

*Reputations.* `HolderIsAlone`: after the flush of the agent's row a transaction is
alone in that state, so the row of the user that it has read is the committed one.
`ReadIsBehind`: what it holds of the agent is one more than something that was
committed, hence never too much. The averages need what a transaction holds in its
memory as well (`HeldInRange`, `HeldIsNext`: what the row would be after one more
answer), because that is what it writes back. A merge of values in a range stays in
it although it rounds, and adds at most a quarter of a hundredth of the sum it stands
for: n roundings leave (n + 1) / 4 hundredths. The other side of rounding is
`AveragesFreeze`: after 800 conversations no satisfaction of 1 to 5 moves the average
of a user, after 20000 no score moves that of an agent.

*Rows.* `Locking`: no two requests hold a row, and what a delete holds is still
live, because it asks again after waiting; hence no stamp is written twice.
`Claiming`: a claimed key has one claimant and no row.

*Readings.* `PagesShown`: the pages so far have shown what lies at or above the
cursor and nothing below it; `SteadyLive`: what is promised is still visible, so the
next page takes it. `KnownStays` and `StatementsRead` carry what a detail knew when
it began through its statements. `KeptKeys`: a kept key differs from the published
ones only if it changed after the fetch.

*Evaluations.* `Asked`: the second provider is asked only after the first has
failed. The rest are lemmas about `Scoring`: a veto that rests on a mild
hallucination alone has a confidence of 40, one without a mild hallucination at least
80, which is where the two bounds of `VetoThreshold` come from (0.60 is deployed); scores are from 1 to 5 in every dimension; a segment
is problematic exactly on what was reported. `ScoresAreMeans` unfolds the sums over
two dimensions and three categories (`SumOfTwo`, `SumOfThree`: a recursive function
on the subsets of three elements exists and adds them up) into
`(30 (A1 + A4 - 2) + 20 (C2 + C4 - 2) + 15 (E1 + E4 - 2)) * 25 / 130`, to the nearest
point. `LeadsAreNotFound`: a rubric of a run has exactly these six dimensions, so the
rules that ask for F1 or F3 never apply.

*Cascades.* `CascadesAreComplete` is about any rows that fit the schema. `Covering`
adds to what is known of locks: a row that exists belongs to rows that exist
(`Rooted`), what an open request has read exists (`ReadBy`), and what a cascade
found below its root is deleted, held, about to be locked, or reached by a
statement still to come (`CoveredBy`). That the plan reaches everything at its
start is `CascadeReaches`, by the kind of the root: a child of the root is in a
table the cascade names, and a grandchild either carries a copied key of the root
or belongs to a row whose id was read (`WhatOwns` and `SchemaAssumption`). After
that a row leaves a statement only into `pending`, and `pending` only into `held`,
or because somebody else has deleted it. Plans are handled by position
(`FlagsReach`, `JoinReaches`), without induction.

*Reports.* `Base` is what rows and memory know of each other (`RowsAgree`,
`MemoryAgrees`): what was judged has an evaluation; each conversation that a run has
loaded is still to come, open, heard, or deleted; and `seen` holds the contents of
what was heard and of what is open. `ChartFollows` is `ChartIsCurrent` with the runs
in it: while nothing is `stale`, one run at a time is at the chart, it has read the
columns that are there, and the chart is that of all scores unless somebody is at it
or still owes it. A run that reads the scores alone establishes this out of any
state. `SummaryCovers`: a persisted summary is that of evaluated conversations of the
audit, all that are still shown among them. `LateRows`: a live row of a deleted
conversation is of one in `late`, because an open transaction is the only writer of
rows and the delete takes what is committed. `IssuesFounded`: what a run has counted
is the union of what it found in one answer of each content that it heard
(`CountsOnce`), and as long as its audit had no earlier run what is stored of an
answer is in the answer (`FirstStores`); counting then maps the stored verdicts to
different places of that answer (`StoredAreCounted`). `Suggested` carries the counts
into the suggestions.
Sums, streaks and trends are functions on finite sets and series; what they are
is shown by the least counterexample (`WFMin` with `NatLessThanWellFounded` for
lengths, `FS_StrictSubsetOrderingWellFounded` for sets) instead of an induction
theorem.

*Deliveries and waits.* `TaskKept` is the safety half of `QueuedAuditEnds` and
`QueuedUploadEnds`: as long as an audit runs, the broker counts a delivery of it
that has not come to its end, unless `_fail` itself fails. The five
`NobodyIsStuck` are the other half of what liveness needs, in terms of guards:
`CanGoOn`, `CanServe` and `CanMove` are those of the steps without faults. Whoever
holds a key or a row is past the statements that wait (`Placed`,
`KeysAreBeingWritten`, `Adding`, `HolderIsAlone`, `Locked`), so the waits have no
cycle; in a project, where they have, the waiting requests together are
`Deadlocked` and the detector ends one. The five theorems on finiteness are the rest
of termination that can be said without fairness: `StepsLeft` of a worker or request
is a natural number (conversations ahead times the steps of one, or statements times
the rows that one may lock, and the place in the current one), each of its own steps
lowers it, no step of anybody else raises it, and only a new delivery or request sets
it. So no run goes on for ever: it ends, or waits for one that can go on.
`SomebodyMoves` adds by `ENABLED` that
`CanMove` is enough for a step, which TLC checks.

Only model-checked:

- liveness, `QueuedAuditEnds`, `QueuedAuditCompletes`, `QueuedUploadEnds`,
  `QueuedUploadCompletes`, `RequestsEnd` and `TransactionsEnd`, and that a request
  which `CanMove` has an enabled step (`SomebodyMoves`): fairness and `ENABLED` are
  out of the prover's reach;
- the two violated properties, which are false;
- what the statistics of `SpcRules` compute, beyond what `TrendFollowsRules` says.

## 6. Not modelled

- Prompts, answers and the wording of reports; parsers, anonymizer, validators and
  what counts as fraud, attack or ungrounded: text processing, inputs here.
- The endpoints of improvements and notifications. They set a status or a read
  flag of a row in one statement each. (`mark_all_read` also marks a notification
  that was inserted after the caller has read its list.)
- The pages of one client and of one score, which aggregate rows on read, and the
  status of uploads.
- The call of the flow audit endpoint, which keeps nothing; renames of flows,
  versions, projects and supervisors, which change a text.
- Decoding of a JWT, encryption of keys, rate limits, tracing, configuration
  (shell).
- `workers/evaluator.py`: nothing enqueues its task.
- Migrations, apart from the unique keys and policies they define.

## 7. Plan

What is left, in this order:

1. Improvements: their status through the endpoints, next to the cascade of a
   flow and the runs that insert them.
2. The check digits of a CBU and the gaps of an SLA (`services/validators`) as
   operators against a definition.

Few, larger runs are preferred to many small ones: new modules get one safety
run each, and a violated run is kept only while the code disagrees with its own
text.
