--------------------------- MODULE AuditLifecycle ---------------------------
(***************************************************************************)
(* The life of an audit: the HTTP handler that records it and enqueues its *)
(* task, the broker, the Celery workers that run the task conversation by  *)
(* conversation, the user who may delete a conversation or the LLM key     *)
(* meanwhile, and the faults the deployment admits.                        *)
(*                                                                         *)
(* A variable of the database holds COMMITTED rows only.  The worker opens *)
(* one transaction per conversation and awaits the LLM inside it, so what  *)
(* it has read or inserted but not committed lives in the variables of the *)
(* worker; a crash or an exception forgets it.  PostgreSQL runs at READ    *)
(* COMMITTED: every read of a step sees what is committed at that step.    *)
(*                                                                         *)
(* Requests that are refused (402, 404, 400, broker down) change nothing   *)
(* and are not actions.  The arithmetic of the reputation rows and of the  *)
(* SPC transaction is left out: `counted' records the calls that feed it.  *)
(***************************************************************************)
EXTENDS Naturals, FiniteSets

CONSTANTS Audits,           \* the audits that users may request
          Convs,            \* the conversations of the project
          Workers,          \* the Celery worker processes
          FlowAudits,       \* the audits that have a flow_id of their own
          Deletable,        \* the conversations that users may delete
          Findings,         \* whether an evaluation may find something critical, or not
          KeyMayChange,     \* whether the organization edits its LLM key
          RunsMayRaise,     \* whether the LLM or the database may raise in a run
          OutagePossible,   \* whether the transaction of _fail may raise too
          MaxCrashes,       \* bound on worker crashes
          MaxRedeliveries,  \* bound on visibility-timeout redeliveries
          None              \* no audit

ASSUME AuditAssumption ==
  /\ IsFiniteSet(Convs)
  /\ None \notin Audits
  /\ FlowAudits \subseteq Audits
  /\ Deletable \subseteq Convs
  /\ Findings \subseteq BOOLEAN
  /\ {KeyMayChange, RunsMayRaise, OutagePossible} \subseteq BOOLEAN
  /\ {MaxCrashes, MaxRedeliveries} \subseteq Nat

VARIABLES
  request,       \* the handler of create_audit: not called, sent its task, ended
  status,        \* audits.status, "absent" before the request commits
  total,         \* audits.conversation_count
  progress,      \* audits.evaluated_count
  suggested,     \* whether audits.suggestions is non-empty
  links,         \* live audit_conversations rows, those of an open request included
  improvements,  \* how many times the improvements of an audit were inserted
  notes,         \* notifications by (kind, audit): the event_key
  orgKey,        \* whether the organization has the key of its provider
  deleted,       \* conversations with is_deleted
  hidden,        \* conversations whose evaluations row has is_deleted
  evalBy,        \* the audit whose run inserted the evaluations row
  rubricBy,      \* the audit whose run last wrote its rubric columns
  critical,      \* whether those columns hold a veto, fraud or a bad segment
  counted,       \* how many times a conversation was added to the reputations
  verdicts,      \* (audit, conversation) pairs with live message verdicts
  flagged,       \* those whose message verdicts have is_deleted
  queue,         \* tasks of an audit ready in the broker
  crashes,       \* worker crashes so far
  redeliveries,  \* visibility timeouts so far
  again,         \* history: how many times an audit's task was delivered again
  raced,         \* history: conversations that two runs found without an evaluation
  pc,            \* where a worker is
  job,           \* the audit it runs
  holds,         \* whether the broker still counts its delivery as unacked
  size,          \* len(conv_ids) of the run
  todo,          \* the conversations the run has not reached
  cur,           \* the conversation of the open transaction
  fresh,         \* new_parsed is not None
  inserted,      \* the open transaction inserted the evaluations row
  processed,     \* processed
  alarms         \* critical_count

auditRow == <<status, total, progress, suggested, links, improvements, notes>>
convRow  == <<deleted, hidden, evalBy, rubricBy, critical, counted, verdicts,
              flagged>>
faults   == <<crashes, redeliveries, again, raced>>
run      == <<job, holds, size, todo, cur, fresh, inserted, processed, alarms>>
vars     == <<request, auditRow, orgKey, convRow, queue, faults, pc, run>>

Statuses == {"absent", "running", "active", "failed"}
Steps    == {"idle", "load", "loop", "check", "evaluate", "judge", "failing", "ack"}
InTxn    == {"check", "evaluate", "judge"}      \* a conversation is open
Running  == {"load", "loop"} \cup InTxn         \* inside _run
Kinds    == {"completed", "critical", "suggestions"}

Init ==
  /\ request = [a \in Audits |-> "new"]
  /\ status = [a \in Audits |-> "absent"]
  /\ total = [a \in Audits |-> 0]
  /\ progress = [a \in Audits |-> 0]
  /\ suggested = [a \in Audits |-> FALSE]
  /\ links = [a \in Audits |-> {}]
  /\ improvements = [a \in Audits |-> 0]
  /\ notes = {}
  /\ orgKey \in BOOLEAN
  /\ deleted = {}
  /\ hidden = {}
  /\ evalBy = [c \in Convs |-> None]
  /\ rubricBy = [c \in Convs |-> None]
  /\ critical = [c \in Convs |-> FALSE]
  /\ counted = [c \in Convs |-> 0]
  /\ verdicts = {}
  /\ flagged = {}
  /\ queue = [a \in Audits |-> 0]
  /\ crashes = 0
  /\ redeliveries = 0
  /\ again = [a \in Audits |-> 0]
  /\ raced = {}
  /\ pc = [w \in Workers |-> "idle"]
  /\ job = [w \in Workers |-> None]
  /\ holds = [w \in Workers |-> FALSE]
  /\ size = [w \in Workers |-> 0]
  /\ todo = [w \in Workers |-> {}]
  /\ cur = [w \in Workers |-> None]
  /\ fresh = [w \in Workers |-> FALSE]
  /\ inserted = [w \in Workers |-> FALSE]
  /\ processed = [w \in Workers |-> 0]
  /\ alarms = [w \in Workers |-> 0]

-----------------------------------------------------------------------------
(* The API process.                                                        *)

\* The handler: the key guard, the filter on live conversations, the rows
\* flushed but not committed, and send_task as its last call.
CreateAudit(a) ==
  /\ request[a] = "new"
  /\ orgKey
  /\ \E chosen \in (SUBSET (Convs \ deleted)) \ {{}} :
        links' = [links EXCEPT ![a] = chosen]
  /\ request' = [request EXCEPT ![a] = "sent"]
  /\ queue' = [queue EXCEPT ![a] = @ + 1]
  /\ UNCHANGED <<status, total, progress, suggested, improvements, notes,
                 orgKey, convRow, faults, pc, run>>

\* The dependency's session.begin() commits after the handler has returned.
CommitAudit(a) ==
  /\ request[a] = "sent"
  /\ request' = [request EXCEPT ![a] = "ended"]
  /\ status' = [status EXCEPT ![a] = "running"]
  /\ total' = [total EXCEPT ![a] = Cardinality(links[a])]
  /\ UNCHANGED <<progress, suggested, links, improvements, notes,
                 orgKey, convRow, queue, faults, pc, run>>

\* That commit fails: the rows vanish, the task has been sent all the same.
RollBackAudit(a) ==
  /\ request[a] = "sent"
  /\ request' = [request EXCEPT ![a] = "ended"]
  /\ links' = [links EXCEPT ![a] = {}]
  /\ UNCHANGED <<status, total, progress, suggested, improvements, notes,
                 orgKey, convRow, queue, faults, pc, run>>

\* DELETE /conversations: the cascade flags the committed children only.
DeleteConversation(c) ==
  /\ c \in Deletable \ deleted
  /\ deleted' = deleted \cup {c}
  /\ hidden' = IF evalBy[c] = None THEN hidden ELSE hidden \cup {c}
  /\ verdicts' = {v \in verdicts : v[2] # c}
  /\ flagged' = flagged \cup {v \in verdicts : v[2] = c}
  /\ links' = [a \in Audits |->
                 IF status[a] = "absent" THEN links[a] ELSE links[a] \ {c}]
  /\ UNCHANGED <<request, status, total, progress, suggested, improvements,
                 notes, orgKey, evalBy, rubricBy, critical, counted, queue,
                 faults, pc, run>>

\* PUT and DELETE /settings/llm-keys of the audit's provider.
SetLlmKey(present) ==
  /\ KeyMayChange
  /\ orgKey # present
  /\ orgKey' = present
  /\ UNCHANGED <<request, auditRow, convRow, queue, faults, pc, run>>

-----------------------------------------------------------------------------
(* The broker, as app.conf uses it: the task stays unacked until the run   *)
(* returns.                                                                *)

\* Variants a bug would give are defined before the definition they stand for;
\* nothing else uses them.

HasTask(a) == queue[a] > 0

\* An idle worker takes one task (prefetch multiplier 1).
Receive(w, a) ==
  /\ pc[w] = "idle"
  /\ HasTask(a)
  /\ queue' = [queue EXCEPT ![a] = @ - 1]
  /\ pc' = [pc EXCEPT ![w] = "load"]
  /\ job' = [job EXCEPT ![w] = a]
  /\ holds' = [holds EXCEPT ![w] = TRUE]
  /\ UNCHANGED <<request, auditRow, orgKey, convRow, faults,
                 size, todo, cur, fresh, inserted, processed, alarms>>

\* What a worker forgets between two conversations and between two runs.
CloseTxn(w) ==
  /\ cur' = [cur EXCEPT ![w] = None]
  /\ fresh' = [fresh EXCEPT ![w] = FALSE]
  /\ inserted' = [inserted EXCEPT ![w] = FALSE]

EndRun(w) ==
  /\ CloseTxn(w)
  /\ size' = [size EXCEPT ![w] = 0]
  /\ todo' = [todo EXCEPT ![w] = {}]
  /\ processed' = [processed EXCEPT ![w] = 0]
  /\ alarms' = [alarms EXCEPT ![w] = 0]

\* acks_late: the delivery is acked when run_audit has returned or raised.
Acknowledge(w) ==
  /\ pc[w] = "ack"
  /\ pc' = [pc EXCEPT ![w] = "idle"]
  /\ job' = [job EXCEPT ![w] = None]
  /\ holds' = [holds EXCEPT ![w] = FALSE]
  /\ UNCHANGED <<request, auditRow, orgKey, convRow, queue, faults,
                 size, todo, cur, fresh, inserted, processed, alarms>>

\* Bug: the task is acked when it is received (task_acks_late off).
Requeued_AckedEarly(w) == queue[job[w]]

\* Bug: it is requeued even if the visibility timeout has restored it.
Requeued_Anyway(w) == queue[job[w]] + 1

\* What the queue of an audit holds once its worker w is lost.
Requeued(w) == IF holds[w] THEN queue[job[w]] + 1 ELSE queue[job[w]]

\* The process dies: its transaction rolls back, its unacked task is requeued
\* unless the visibility timeout has restored it before.
Crash(w) ==
  /\ crashes < MaxCrashes
  /\ pc[w] # "idle"
  /\ crashes' = crashes + 1
  /\ queue' = [queue EXCEPT ![job[w]] = Requeued(w)]
  /\ again' = [again EXCEPT ![job[w]] = IF holds[w] THEN @ + 1 ELSE @]
  /\ pc' = [pc EXCEPT ![w] = "idle"]
  /\ job' = [job EXCEPT ![w] = None]
  /\ holds' = [holds EXCEPT ![w] = FALSE]
  /\ EndRun(w)
  /\ UNCHANGED <<request, auditRow, orgKey, convRow, redeliveries, raced>>

\* The run outlives the visibility timeout: the broker restores the unacked
\* task while its first run goes on.
Redeliver(w) ==
  /\ redeliveries < MaxRedeliveries
  /\ holds[w]
  /\ redeliveries' = redeliveries + 1
  /\ queue' = [queue EXCEPT ![job[w]] = @ + 1]
  /\ again' = [again EXCEPT ![job[w]] = @ + 1]
  /\ holds' = [holds EXCEPT ![w] = FALSE]
  /\ UNCHANGED <<request, auditRow, orgKey, convRow, crashes, raced, pc,
                 job, size, todo, cur, fresh, inserted, processed, alarms>>

-----------------------------------------------------------------------------
(* The worker: run_audit and _run.                                         *)

\* Bug: a repeated run leaves out what another run of the audit has open.
ConvIds_Shared(a) ==
  {c \in links[a] : \A w \in Workers : ~(job[w] = a /\ cur[w] = c)}

\* conv_ids: the live links of the audit.
ConvIds(a) == links[a]

\* First transaction: the audit row is visible and the org has the key.
LoadAudit(w) ==
  /\ pc[w] = "load"
  /\ status[job[w]] # "absent"
  /\ orgKey
  /\ pc' = [pc EXCEPT ![w] = "loop"]
  /\ todo' = [todo EXCEPT ![w] = ConvIds(job[w])]
  /\ size' = [size EXCEPT ![w] = Cardinality(ConvIds(job[w]))]
  /\ UNCHANGED <<request, auditRow, orgKey, convRow, queue, faults,
                 job, holds, cur, fresh, inserted, processed, alarms>>

\* "audit not found", or no key of the provider.
LoadFails(w) ==
  /\ pc[w] = "load"
  /\ status[job[w]] = "absent" \/ ~orgKey
  /\ pc' = [pc EXCEPT ![w] = "failing"]
  /\ UNCHANGED <<request, auditRow, orgKey, convRow, queue, faults, run>>

\* `continue' on a conversation deleted since: no progress is recorded.
SkipConversation(w, c) ==
  /\ pc[w] = "loop"
  /\ c \in todo[w] \cap deleted
  /\ todo' = [todo EXCEPT ![w] = @ \ {c}]
  /\ UNCHANGED <<request, auditRow, orgKey, convRow, queue, faults, pc,
                 job, holds, size, cur, fresh, inserted, processed, alarms>>

OpenConversation(w, c) ==
  /\ pc[w] = "loop"
  /\ c \in todo[w] \ deleted
  /\ todo' = [todo EXCEPT ![w] = @ \ {c}]
  /\ cur' = [cur EXCEPT ![w] = c]
  /\ pc' = [pc EXCEPT ![w] = "check"]
  /\ UNCHANGED <<request, auditRow, orgKey, convRow, queue, faults,
                 job, holds, size, fresh, inserted, processed, alarms>>

\* Bug: a conversation that another run is evaluating counts as evaluated.
NoEvaluation_Claimed(c) ==
  /\ evalBy[c] = None \/ c \in hidden
  /\ \A w \in Workers : ~(pc[w] = "evaluate" /\ cur[w] = c)

\* Bug: the SELECT is dropped, the INSERT being idempotent anyway.
NoEvaluation_Always(c) == TRUE

\* The SELECT of the evaluations row does not see a soft-deleted one.
NoEvaluation(c) == evalBy[c] = None \/ c \in hidden

CheckEvaluation(w) ==
  /\ pc[w] = "check"
  /\ fresh' = [fresh EXCEPT ![w] = NoEvaluation(cur[w])]
  /\ pc' = [pc EXCEPT ![w] = IF NoEvaluation(cur[w]) THEN "evaluate" ELSE "judge"]
  /\ raced' = raced \cup {c \in {cur[w]} : /\ NoEvaluation(c)
                                           /\ \E v \in Workers \ {w} : cur[v] = c /\ fresh[v]}
  /\ UNCHANGED <<request, auditRow, orgKey, convRow, queue, crashes, redeliveries,
                 again, job, holds, size, todo, cur, inserted, processed, alarms>>

\* The unique key of the evaluations row is taken by no open transaction, and
\* the INSERT adds a row only where none is committed.
KeyIsFree(c) == \A v \in Workers : ~(inserted[v] /\ cur[v] = c)
InsertAddsRow(c) == evalBy[c] = None

\* After the LLM's answer: INSERT ... ON CONFLICT (conversation_id) DO NOTHING
\* waits for another transaction's uncommitted row of the same key.
InsertEvaluation(w) ==
  /\ pc[w] = "evaluate"
  /\ KeyIsFree(cur[w])
  /\ inserted' = [inserted EXCEPT ![w] = InsertAddsRow(cur[w])]
  /\ pc' = [pc EXCEPT ![w] = "judge"]
  /\ UNCHANGED <<request, auditRow, orgKey, convRow, queue, faults,
                 job, holds, size, todo, cur, fresh, processed, alarms>>

\* Bugs: the rubric UPDATE is skipped for a conversation deleted meanwhile; it
\* is made for an evaluation of another audit too; a run that lost the race for
\* the row does not count what it found, though its rubric stays.
WritesRubric_Live(w) == fresh[w] /\ cur[w] \notin deleted
WritesRubric_Always(w) == TRUE
CriticalCount_Won(w, bad) == IF bad /\ inserted[w] THEN alarms[w] + 1 ELSE alarms[w]

\* The rubric UPDATE and the reputation calls happen for a new evaluation.
WritesRubric(w) == fresh[w]
AddsReputation(w) == fresh[w]
CriticalCount(w, bad) == IF bad THEN alarms[w] + 1 ELSE alarms[w]
NextProgress(w) == processed[w] + 1

\* After the judge's answer: the verdicts (ON CONFLICT DO NOTHING leaves flagged
\* ones flagged), and for a new evaluation its rubric columns, the reputations
\* and critical_count; then the progress; then COMMIT.
CommitConversation(w) ==
  LET a == job[w]
      c == cur[w]
  IN  /\ pc[w] = "judge"
      /\ evalBy' = [evalBy EXCEPT ![c] = IF inserted[w] THEN a ELSE @]
      /\ verdicts' = verdicts \cup ({<<a, c>>} \ flagged)
      /\ \E bad \in IF fresh[w] THEN Findings ELSE {FALSE} :
           /\ critical' = [critical EXCEPT ![c] = IF fresh[w] THEN bad ELSE @]
           /\ alarms' = [alarms EXCEPT ![w] = CriticalCount(w, bad)]
      /\ rubricBy' = [rubricBy EXCEPT ![c] = IF WritesRubric(w) THEN a ELSE @]
      /\ counted' = [counted EXCEPT ![c] = IF AddsReputation(w) THEN @ + 1 ELSE @]
      /\ processed' = [processed EXCEPT ![w] = NextProgress(w)]
      /\ progress' = [progress EXCEPT ![a] = NextProgress(w)]
      /\ pc' = [pc EXCEPT ![w] = "loop"]
      /\ CloseTxn(w)
      /\ UNCHANGED <<request, status, total, suggested, links, improvements,
                     notes, orgKey, deleted, hidden, flagged, queue, faults,
                     job, holds, size, todo>>

\* The improvements hang from the audit's own flow.
CreatesImprovements(a, some) == some /\ a \in FlowAudits

\* Last transaction: the report, the improvements and the notifications.  A
\* suggestion needs an issue that some conversation of this run contributed.
FinishAudit(w) ==
  LET a == job[w]
  IN  /\ pc[w] = "loop"
      /\ todo[w] = {}
      /\ \E some \in IF processed[w] = 0 THEN {FALSE} ELSE BOOLEAN :
           /\ suggested' = [suggested EXCEPT ![a] = some]
           /\ improvements' = [improvements EXCEPT
                                 ![a] = IF CreatesImprovements(a, some) THEN @ + 1 ELSE @]
           /\ notes' = notes \cup {<<"completed", a>>}
                             \cup (IF alarms[w] > 0 THEN {<<"critical", a>>} ELSE {})
                             \cup (IF some THEN {<<"suggestions", a>>} ELSE {})
      /\ status' = [status EXCEPT ![a] = "active"]
      /\ total' = [total EXCEPT ![a] = size[w]]
      /\ progress' = [progress EXCEPT ![a] = size[w]]
      /\ pc' = [pc EXCEPT ![w] = "ack"]
      /\ EndRun(w)
      /\ UNCHANGED <<request, links, orgKey, convRow, queue, faults, job, holds>>

\* Bug: what follows the final transaction (the metrics) may raise into _fail.
CanRaise_AfterEnd(w) == pc[w] \in Running \cup {"ack"}

CanRaise(w) == pc[w] \in Running

\* Any exception inside _run: the open transaction rolls back.
RunRaises(w) ==
  /\ RunsMayRaise
  /\ CanRaise(w)
  /\ pc' = [pc EXCEPT ![w] = "failing"]
  /\ EndRun(w)
  /\ UNCHANGED <<request, auditRow, orgKey, convRow, queue, faults, job, holds>>

\* Bugs: _fail inserts the audit that it does not find; _fail leaves the status.
FailedStatus_Upsert(a) == "failed"
FailedStatus_Kept(a) == status[a]

FailedStatus(a) == IF status[a] = "absent" THEN "absent" ELSE "failed"

\* _fail: an UPDATE that matches no row when the audit is not committed yet.
MarkFailed(w) ==
  /\ pc[w] = "failing"
  /\ status' = [status EXCEPT ![job[w]] = FailedStatus(job[w])]
  /\ pc' = [pc EXCEPT ![w] = "ack"]
  /\ UNCHANGED <<request, total, progress, suggested, links, improvements,
                 notes, orgKey, convRow, queue, faults, run>>

\* _fail itself raises: the task fails, and a failed task is acked too.
MarkFailedRaises(w) ==
  /\ OutagePossible
  /\ pc[w] = "failing"
  /\ pc' = [pc EXCEPT ![w] = "ack"]
  /\ UNCHANGED <<request, auditRow, orgKey, convRow, queue, faults, run>>

-----------------------------------------------------------------------------
\* What a worker that keeps running does once it holds a task.
WorkerStep(w) ==
  \/ LoadAudit(w) \/ LoadFails(w)
  \/ \E c \in Convs : SkipConversation(w, c) \/ OpenConversation(w, c)
  \/ CheckEvaluation(w) \/ InsertEvaluation(w) \/ CommitConversation(w)
  \/ FinishAudit(w)
  \/ RunRaises(w) \/ MarkFailed(w) \/ MarkFailedRaises(w)
  \/ Acknowledge(w)

ApiStep ==
  \/ \E a \in Audits : CreateAudit(a) \/ CommitAudit(a) \/ RollBackAudit(a)
  \/ \E c \in Convs : DeleteConversation(c)
  \/ \E present \in BOOLEAN : SetLlmKey(present)

BrokerStep ==
  \/ \E w \in Workers, a \in Audits : Receive(w, a)
  \/ \E w \in Workers : Crash(w) \/ Redeliver(w)

Next == ApiStep \/ BrokerStep \/ \E w \in Workers : WorkerStep(w)

Spec == Init /\ [][Next]_vars

\* The request's commit is the framework's next step; the broker delivers what
\* is queued to idle workers; a worker that has not crashed goes on, for every
\* await of the run has a timeout.  Users and faults owe nothing.
Fairness ==
  /\ \A a \in Audits : WF_vars(CommitAudit(a) \/ RollBackAudit(a))
  /\ \A w \in Workers, a \in Audits : WF_vars(Receive(w, a))
  /\ \A w \in Workers : WF_vars(WorkerStep(w))

FairSpec == Spec /\ Fairness
-----------------------------------------------------------------------------
(* Properties.                                                             *)

\* The type of every variable; in particular the broker never owes a negative
\* number of deliveries and an audit has one of the statuses of its CHECK.
TypeOK ==
  /\ request \in [Audits -> {"new", "sent", "ended"}]
  /\ status \in [Audits -> Statuses]
  /\ total \in [Audits -> Nat]
  /\ progress \in [Audits -> Nat]
  /\ suggested \in [Audits -> BOOLEAN]
  /\ links \in [Audits -> SUBSET Convs]
  /\ improvements \in [Audits -> Nat]
  /\ notes \subseteq Kinds \X Audits
  /\ orgKey \in BOOLEAN
  /\ deleted \subseteq Convs
  /\ hidden \subseteq Convs
  /\ evalBy \in [Convs -> Audits \cup {None}]
  /\ rubricBy \in [Convs -> Audits \cup {None}]
  /\ critical \in [Convs -> BOOLEAN]
  /\ counted \in [Convs -> Nat]
  /\ verdicts \subseteq Audits \X Convs
  /\ flagged \subseteq Audits \X Convs
  /\ queue \in [Audits -> Nat]
  /\ crashes \in Nat
  /\ redeliveries \in Nat
  /\ again \in [Audits -> Nat]
  /\ raced \subseteq Convs
  /\ pc \in [Workers -> Steps]
  /\ job \in [Workers -> Audits \cup {None}]
  /\ holds \in [Workers -> BOOLEAN]
  /\ size \in [Workers -> Nat]
  /\ todo \in [Workers -> SUBSET Convs]
  /\ cur \in [Workers -> Convs \cup {None}]
  /\ fresh \in [Workers -> BOOLEAN]
  /\ inserted \in [Workers -> BOOLEAN]
  /\ processed \in [Workers -> Nat]
  /\ alarms \in [Workers -> Nat]

\* A report that is published covers its conversations: once an audit is
\* active, each conversation it links was judged under it or is deleted,
\* whatever runs crashed, were repeated or overlapped on the way.
ActiveMeansJudged ==
  \A a \in Audits : status[a] = "active" =>
    \A c \in links[a] : <<a, c>> \in verdicts \/ c \in deleted

\* A conversation is never half evaluated: its evaluations row, its rubric
\* columns and its contribution to the reputations are committed together.
EvaluatedTogether ==
  \A c \in Convs : evalBy[c] # None => rubricBy[c] # None /\ counted[c] >= 1

\* Skipping an evaluation "already present" is safe: the message verdicts of a
\* conversation are never live without its evaluations row, even when the run
\* that was writing that row crashed.
VerdictsHaveEvaluation ==
  \A v \in verdicts : evalBy[v[2]] # None

\* The first evaluation of a conversation wins: no later run, overlapping or
\* repeated, replaces the row.
FirstEvaluationWins ==
  [][\A c \in Convs : evalBy[c] # None => evalBy'[c] = evalBy[c]]_vars

\* An audit whose request is still open owes nothing yet.
Owed == [a \in Audits |-> IF status[a] = "absent" THEN {} ELSE links[a]]

Contract == INSTANCE AuditContract WITH
  owed <- Owed, ledger <- evalBy, judged <- verdicts

\* The workers, the broker and all the faults implement the audit contract.
ImplementsContract == Contract!Spec

\* The strengthening under which the invariants above are inductive.

\* The row of an audit exists only after its request has ended.
RequestsClose == \A a \in Audits :
  /\ request[a] # "ended" => status[a] = "absent"
  /\ request[a] = "sent" => links[a] # {}

\* A run past its first transaction is about a committed audit.
RunsAreCommitted == \A w \in Workers :
  pc[w] \in {"loop"} \cup InTxn => status[job[w]] # "absent"

\* An uncommitted evaluations row is new, alone on its key, and its transaction
\* goes on to write the rubric; a transaction that found or lost the race for
\* the row leaves one committed behind.
TransactionsInsert == \A w \in Workers :
  /\ inserted[w] => pc[w] = "judge" /\ fresh[w] /\ evalBy[cur[w]] = None
  /\ pc[w] = "evaluate" => fresh[w]
  /\ pc[w] = "judge" => inserted[w] \/ evalBy[cur[w]] # None
  /\ \A v \in Workers : inserted[w] /\ inserted[v] /\ v # w => cur[w] # cur[v]

\* A run accounts for each conversation of its audit: it is still to come, is
\* open, was judged, or was deleted.
RunsCover == \A w \in Workers : pc[w] \in {"loop"} \cup InTxn =>
  \A c \in links[job[w]] :
    \/ c \in todo[w]
    \/ pc[w] \in InTxn /\ c = cur[w]
    \/ <<job[w], c>> \in verdicts
    \/ c \in deleted

\* Flagged verdicts are of a deleted conversation that was evaluated.
FlaggedAreDeleted == \A v \in flagged :
  v[2] \in deleted /\ evalBy[v[2]] # None

Strengthening ==
  /\ RequestsClose
  /\ RunsAreCommitted
  /\ TransactionsInsert
  /\ RunsCover
  /\ FlaggedAreDeleted

\* Conversations whose evaluation the code protects: never found without one by
\* two open transactions, and not deleted under one.
Undisturbed == Convs \ (raced \cup deleted)

\* "rubrica + reputacion (solo en evals nuevos, para no doble-contar)": whatever
\* audits share a conversation and however often their tasks are repeated, it is
\* added to the reputations once, unless two open transactions found it without
\* an evaluation.
CountedOnce == \A c \in Undisturbed : counted[c] <= 1

\* The rubric columns belong to the LLM answer whose score is in the same row.
RubricBelongsToEvaluation == \A c \in Undisturbed : rubricBy[c] = evalBy[c]

\* What makes those two inductive: two that found no evaluation are remembered,
\* and one alone that found none inserts the only one.
OverlapsAreSeen == \A v, w \in Workers :
  /\ v # w /\ cur[v] = cur[w]
  /\ {pc[v], pc[w]} \subseteq {"evaluate", "judge"} /\ fresh[v] /\ fresh[w]
  => cur[v] \in raced

AloneIsFirst == \A w \in Workers :
  pc[w] \in {"evaluate", "judge"} /\ fresh[w] /\ cur[w] \in Undisturbed =>
    evalBy[cur[w]] = None /\ (pc[w] = "judge" => inserted[w])

CountedIffEvaluated == \A c \in Undisturbed :
  counted[c] = IF evalBy[c] = None THEN 0 ELSE 1

HiddenAreDeleted == hidden \subseteq deleted

\* The task of an audit was delivered once so far; what befell others is no matter.
Once(a) == again[a] = 0

\* "Create one pending Improvement per suggestion": an audit that shows suggestions
\* and has a flow has their improvements.  The inserts are not idempotent: a task
\* delivered again after its run had published inserts them again, so there are no
\* more sets than deliveries, whatever crashes and timeouts coincide; without a flow
\* there are none.
ImprovementsPerDelivery ==
  \A a \in Audits :
    /\ suggested[a] /\ a \in FlowAudits => improvements[a] >= 1
    /\ improvements[a] <= IF a \in FlowAudits THEN 1 + again[a] ELSE 0

\* An active audit whose run found a critical conversation has told so in the
\* bell, also when another run won the race for the evaluation.
CriticalIsAnnounced ==
  \A a \in Audits :
    Once(a) /\ status[a] = "active" /\ (\E c \in Convs : rubricBy[c] = a /\ critical[c])
      => <<"critical", a>> \in notes

\* An audit that ended stays as it ended until its own task is delivered again.
EndedIsFinal ==
  [][\A a \in Audits :
       Once(a) /\ status[a] \in {"active", "failed"} => status'[a] = status[a]]_vars

Ended(a) == status[a] \in {"active", "failed"}

\* An audit whose task is still in the broker when its row is committed ends,
\* in spite of crashes, redeliveries, exceptions and lost keys.
QueuedAuditEnds ==
  \A a \in Audits : (status[a] = "running" /\ queue[a] > 0) ~> Ended(a)

\* If no run ever fails (its key in place, an LLM and a database that answer),
\* that audit ends active, whatever crashes and redeliveries it goes through.
QueuedAuditCompletes ==
  [](\A w \in Workers : pc[w] # "failing") =>
    \A a \in Audits : (status[a] = "running" /\ queue[a] > 0) ~> (status[a] = "active")

\* "CUALQUIER fallo marca la auditoria failed en vez de dejarla clavada en
\* running": no committed audit stays running for ever.
EveryAuditEnds ==
  \A a \in Audits : (status[a] = "running") ~> Ended(a)
=============================================================================
