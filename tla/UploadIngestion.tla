--------------------------- MODULE UploadIngestion ---------------------------
(***************************************************************************)
(* The ingestion of conversation files: the HTTP handler that stores the   *)
(* raw file in the uploads row and then enqueues its task, the broker, the *)
(* Celery workers that turn the file into conversations and messages, and  *)
(* the user who deletes uploads or conversations meanwhile.                *)
(*                                                                         *)
(* A file is the set of external ids its parser yields: a parser groups    *)
(* the lines of an id, and the order in which it yields them is left open. *)
(* All uploads of the model attach to the default agent of one project, so *)
(* an external id is the unique key (agent_id, external_id).               *)
(*                                                                         *)
(* Database variables hold committed rows; one transaction per             *)
(* conversation lives in the variables of its worker.                      *)
(***************************************************************************)
EXTENDS Naturals, FiniteSets

CONSTANTS Uploads,          \* the uploads that users may make
          Ids,              \* external ids that files mention
          Workers,          \* the Celery worker processes
          DeletableUploads, \* the uploads that users may delete
          DeletableConvs,   \* the conversations that users may delete
          ProgressStep,     \* progress_step: 5 in the code
          RunsMayRaise,     \* whether the parser or the database may raise
          OutagePossible,   \* whether marking the failure may raise too
          MaxCrashes,       \* bound on worker crashes
          MaxRedeliveries,  \* bound on visibility-timeout redeliveries
          None              \* no upload, no id

ASSUME UploadAssumption ==
  /\ IsFiniteSet(Ids)
  /\ None \notin Uploads \cup Ids
  /\ DeletableUploads \subseteq Uploads
  /\ DeletableConvs \subseteq Ids
  /\ ProgressStep \in Nat \ {0}
  /\ {RunsMayRaise, OutagePossible} \subseteq BOOLEAN
  /\ {MaxCrashes, MaxRedeliveries} \subseteq Nat

VARIABLES
  file,          \* what the parser yields of an upload's bytes
  raw,           \* whether raw_content is not NULL
  status,        \* uploads.status, "absent" before the upload
  rowsTotal,     \* uploads.rows_total, 0 for NULL
  rowsProcessed, \* uploads.rows_processed, 0 for NULL
  gone,          \* uploads with is_deleted
  owner,         \* conversations.upload_id of an external id
  messages,      \* how many times its messages were inserted
  hidden,        \* conversations with is_deleted
  sending,       \* the handler has committed and not called send_task yet
  queue,         \* tasks of an upload ready in the broker
  crashes,       \* worker crashes so far
  redeliveries,  \* visibility timeouts so far
  pc,            \* where a worker is
  job,           \* the upload it processes
  holds,         \* whether the broker still counts its delivery as unacked
  todo,          \* parsed conversations it has not committed
  cur,           \* the external id of the open transaction
  isNew,         \* was_new of the open transaction
  done           \* new_count + dup_count

uploadRow == <<file, raw, status, rowsTotal, rowsProcessed, gone>>
convRow   == <<owner, messages, hidden>>
faults    == <<crashes, redeliveries>>
run       == <<job, holds, todo, cur, isNew, done>>
vars      == <<uploadRow, convRow, sending, queue, faults, pc, run>>

Statuses == {"absent", "pending", "processing", "completed", "failed"}
Running  == {"load", "start", "loop", "txn", "progress"}     \* inside _run
Steps    == {"idle", "failing", "ack"} \cup Running

Init ==
  /\ file = [u \in Uploads |-> {}]
  /\ raw = [u \in Uploads |-> FALSE]
  /\ status = [u \in Uploads |-> "absent"]
  /\ rowsTotal = [u \in Uploads |-> 0]
  /\ rowsProcessed = [u \in Uploads |-> 0]
  /\ gone = {}
  /\ owner = [i \in Ids |-> None]
  /\ messages = [i \in Ids |-> 0]
  /\ hidden = {}
  /\ sending = {}
  /\ queue = [u \in Uploads |-> 0]
  /\ crashes = 0
  /\ redeliveries = 0
  /\ pc = [w \in Workers |-> "idle"]
  /\ job = [w \in Workers |-> None]
  /\ holds = [w \in Workers |-> FALSE]
  /\ todo = [w \in Workers |-> {}]
  /\ cur = [w \in Workers |-> None]
  /\ isNew = [w \in Workers |-> FALSE]
  /\ done = [w \in Workers |-> 0]

-----------------------------------------------------------------------------
(* The API process.                                                        *)

\* The handler commits the row with its bytes before it enqueues the task.
CreateUpload(u) ==
  /\ status[u] = "absent"
  /\ \E ids \in SUBSET Ids : file' = [file EXCEPT ![u] = ids]
  /\ raw' = [raw EXCEPT ![u] = TRUE]
  /\ status' = [status EXCEPT ![u] = "pending"]
  /\ sending' = sending \cup {u}
  /\ UNCHANGED <<rowsTotal, rowsProcessed, gone, convRow, queue, faults, pc, run>>

EnqueueUpload(u) ==
  /\ u \in sending
  /\ sending' = sending \ {u}
  /\ queue' = [queue EXCEPT ![u] = @ + 1]
  /\ UNCHANGED <<uploadRow, convRow, faults, pc, run>>

\* send_task raises, or the API process dies: the row stays.
EnqueueFails(u) ==
  /\ u \in sending
  /\ sending' = sending \ {u}
  /\ UNCHANGED <<uploadRow, convRow, queue, faults, pc, run>>

\* DELETE /uploads: the upload and its committed conversations.
DeleteUpload(u) ==
  /\ u \in DeletableUploads \ gone
  /\ status[u] # "absent"
  /\ gone' = gone \cup {u}
  /\ hidden' = hidden \cup {i \in Ids : owner[i] = u}
  /\ UNCHANGED <<file, raw, status, rowsTotal, rowsProcessed, owner, messages,
                 sending, queue, faults, pc, run>>

\* DELETE /conversations.
DeleteConversation(i) ==
  /\ i \in DeletableConvs \ hidden
  /\ owner[i] # None
  /\ hidden' = hidden \cup {i}
  /\ UNCHANGED <<uploadRow, owner, messages, sending, queue, faults, pc, run>>

-----------------------------------------------------------------------------
(* The broker: late acks, requeue of a lost worker's task, redelivery of a *)
(* task that outlives the visibility timeout.                              *)

\* Variants a bug would give are defined before the definition they stand for;
\* nothing else uses them.

HasTask(u) == queue[u] > 0

Receive(w, u) ==
  /\ pc[w] = "idle"
  /\ HasTask(u)
  /\ queue' = [queue EXCEPT ![u] = @ - 1]
  /\ pc' = [pc EXCEPT ![w] = "load"]
  /\ job' = [job EXCEPT ![w] = u]
  /\ holds' = [holds EXCEPT ![w] = TRUE]
  /\ UNCHANGED <<uploadRow, convRow, sending, faults, todo, cur, isNew, done>>

\* The transaction of a conversation, and a run, are over.
CloseTxn(w) ==
  /\ cur' = [cur EXCEPT ![w] = None]
  /\ isNew' = [isNew EXCEPT ![w] = FALSE]

EndRun(w) ==
  /\ CloseTxn(w)
  /\ todo' = [todo EXCEPT ![w] = {}]
  /\ done' = [done EXCEPT ![w] = 0]

\* The task returned or raised: both are acked.
Acknowledge(w) ==
  /\ pc[w] = "ack"
  /\ pc' = [pc EXCEPT ![w] = "idle"]
  /\ job' = [job EXCEPT ![w] = None]
  /\ holds' = [holds EXCEPT ![w] = FALSE]
  /\ UNCHANGED <<uploadRow, convRow, sending, queue, faults, todo, cur, isNew, done>>

\* Bug: the task is acked when it is received.
Requeued_AckedEarly(w) == queue[job[w]]

Requeued(w) == IF holds[w] THEN queue[job[w]] + 1 ELSE queue[job[w]]

Crash(w) ==
  /\ crashes < MaxCrashes
  /\ pc[w] # "idle"
  /\ crashes' = crashes + 1
  /\ queue' = [queue EXCEPT ![job[w]] = Requeued(w)]
  /\ pc' = [pc EXCEPT ![w] = "idle"]
  /\ job' = [job EXCEPT ![w] = None]
  /\ holds' = [holds EXCEPT ![w] = FALSE]
  /\ EndRun(w)
  /\ UNCHANGED <<uploadRow, convRow, sending, redeliveries>>

Redeliver(w) ==
  /\ redeliveries < MaxRedeliveries
  /\ holds[w]
  /\ redeliveries' = redeliveries + 1
  /\ queue' = [queue EXCEPT ![job[w]] = @ + 1]
  /\ holds' = [holds EXCEPT ![w] = FALSE]
  /\ UNCHANGED <<uploadRow, convRow, sending, crashes, pc, job, todo, cur, isNew, done>>

-----------------------------------------------------------------------------
(* The worker: process_upload, _run_and_dispose and _run.                  *)

\* The row is visible and still has its bytes, which are parsed.
Loadable(u) == u \notin gone /\ raw[u]

LoadUpload(w) ==
  /\ pc[w] = "load"
  /\ Loadable(job[w])
  /\ todo' = [todo EXCEPT ![w] = file[job[w]]]
  /\ pc' = [pc EXCEPT ![w] = "start"]
  /\ UNCHANGED <<uploadRow, convRow, sending, queue, faults,
                 job, holds, cur, isNew, done>>

\* "upload not found", or "no raw_content".
LoadFails(w) ==
  /\ pc[w] = "load"
  /\ ~Loadable(job[w])
  /\ pc' = [pc EXCEPT ![w] = "failing"]
  /\ UNCHANGED <<uploadRow, convRow, sending, queue, faults, run>>

\* No conversation detected: failed with counters at zero, and a normal return.
RejectEmpty(w) ==
  LET u == job[w]
  IN  /\ pc[w] = "start"
      /\ todo[w] = {}
      /\ status' = [status EXCEPT ![u] = "failed"]
      /\ rowsTotal' = [rowsTotal EXCEPT ![u] = 0]
      /\ rowsProcessed' = [rowsProcessed EXCEPT ![u] = 0]
      /\ pc' = [pc EXCEPT ![w] = "ack"]
      /\ UNCHANGED <<file, raw, gone, convRow, sending, queue, faults, run>>

StartProcessing(w) ==
  LET u == job[w]
  IN  /\ pc[w] = "start"
      /\ todo[w] # {}
      /\ status' = [status EXCEPT ![u] = "processing"]
      /\ rowsTotal' = [rowsTotal EXCEPT ![u] = Cardinality(todo[w])]
      /\ rowsProcessed' = [rowsProcessed EXCEPT ![u] = 0]
      /\ pc' = [pc EXCEPT ![w] = "loop"]
      /\ UNCHANGED <<file, raw, gone, convRow, sending, queue, faults, run>>

\* No open transaction holds the unique key with a row of its own.
KeyIsFree(i) == \A v \in Workers : ~(isNew[v] /\ cur[v] = i)

\* Bug: a soft-deleted conversation is replaced by the one of the new upload.
AddsRow_OverDeleted(i) == owner[i] = None \/ i \in hidden

\* ON CONFLICT (agent_id, external_id) DO NOTHING counts soft-deleted rows too.
AddsRow(i) == owner[i] = None

\* upsert_conversation_idempotent: the INSERT waits for an uncommitted row of
\* its key; on a conflict the committed row is selected.
UpsertConversation(w, i) ==
  /\ pc[w] = "loop"
  /\ i \in todo[w]
  /\ KeyIsFree(i)
  /\ cur' = [cur EXCEPT ![w] = i]
  /\ isNew' = [isNew EXCEPT ![w] = AddsRow(i)]
  /\ pc' = [pc EXCEPT ![w] = "txn"]
  /\ UNCHANGED <<uploadRow, convRow, sending, queue, faults, job, holds, todo, done>>

\* Bugs: the messages are inserted for a duplicate too; a duplicate does not
\* count as processed.
InsertsMessages_Always(w) == TRUE
NextDone_NewOnly(w) == IF isNew[w] THEN done[w] + 1 ELSE done[w]

InsertsMessages(w) == isNew[w]
NextDone(w) == done[w] + 1

\* The messages of a new conversation, then COMMIT; every ProgressStep
\* conversations the counter is written next.
CommitConversation(w) ==
  LET i == cur[w]
  IN  /\ pc[w] = "txn"
      /\ owner' = [owner EXCEPT ![i] = IF isNew[w] THEN job[w] ELSE @]
      /\ messages' = [messages EXCEPT ![i] = IF InsertsMessages(w) THEN @ + 1 ELSE @]
      /\ todo' = [todo EXCEPT ![w] = @ \ {i}]
      /\ done' = [done EXCEPT ![w] = NextDone(w)]
      /\ pc' = [pc EXCEPT ![w] =
                  IF NextDone(w) % ProgressStep = 0 THEN "progress" ELSE "loop"]
      /\ CloseTxn(w)
      /\ UNCHANGED <<uploadRow, hidden, sending, queue, faults, job, holds>>

\* The counter, in a transaction of its own.
WriteProgress(w) ==
  /\ pc[w] = "progress"
  /\ rowsProcessed' = [rowsProcessed EXCEPT ![job[w]] = done[w]]
  /\ pc' = [pc EXCEPT ![w] = "loop"]
  /\ UNCHANGED <<file, raw, status, rowsTotal, gone, convRow, sending, queue,
                 faults, run>>

\* Completed, and the raw bytes are dropped.
MarkCompleted(w) ==
  LET u == job[w]
  IN  /\ pc[w] = "loop"
      /\ todo[w] = {}
      /\ status' = [status EXCEPT ![u] = "completed"]
      /\ rowsProcessed' = [rowsProcessed EXCEPT ![u] = done[w]]
      /\ raw' = [raw EXCEPT ![u] = FALSE]
      /\ pc' = [pc EXCEPT ![w] = "ack"]
      /\ EndRun(w)
      /\ UNCHANGED <<file, rowsTotal, gone, convRow, sending, queue, faults,
                     job, holds>>

CanRaise(w) == pc[w] \in Running

RunRaises(w) ==
  /\ RunsMayRaise
  /\ CanRaise(w)
  /\ pc' = [pc EXCEPT ![w] = "failing"]
  /\ EndRun(w)
  /\ UNCHANGED <<uploadRow, convRow, sending, queue, faults, job, holds>>

\* Bugs: the bytes are dropped on failure too; no handler marks the failure.
RawAfterFailure_Dropped(u) == FALSE
StatusAfterFailure_Kept(u) == status[u]

RawAfterFailure(u) == raw[u]
StatusAfterFailure(u) == "failed"

\* Any exception marks the upload, deleted or completed ones included.
MarkFailed(w) ==
  LET u == job[w]
  IN  /\ pc[w] = "failing"
      /\ status' = [status EXCEPT ![u] = StatusAfterFailure(u)]
      /\ raw' = [raw EXCEPT ![u] = RawAfterFailure(u)]
      /\ pc' = [pc EXCEPT ![w] = "ack"]
      /\ UNCHANGED <<file, rowsTotal, rowsProcessed, gone, convRow, sending,
                     queue, faults, run>>

\* That UPDATE raises: logged, and the first error is raised again.
MarkFailedRaises(w) ==
  /\ OutagePossible
  /\ pc[w] = "failing"
  /\ pc' = [pc EXCEPT ![w] = "ack"]
  /\ UNCHANGED <<uploadRow, convRow, sending, queue, faults, run>>

-----------------------------------------------------------------------------
WorkerStep(w) ==
  \/ LoadUpload(w) \/ LoadFails(w)
  \/ RejectEmpty(w) \/ StartProcessing(w)
  \/ \E i \in Ids : UpsertConversation(w, i)
  \/ CommitConversation(w) \/ WriteProgress(w) \/ MarkCompleted(w)
  \/ RunRaises(w) \/ MarkFailed(w) \/ MarkFailedRaises(w)
  \/ Acknowledge(w)

ApiStep ==
  \/ \E u \in Uploads :
       CreateUpload(u) \/ EnqueueUpload(u) \/ EnqueueFails(u) \/ DeleteUpload(u)
  \/ \E i \in Ids : DeleteConversation(i)

BrokerStep ==
  \/ \E w \in Workers, u \in Uploads : Receive(w, u)
  \/ \E w \in Workers : Crash(w) \/ Redeliver(w)

Next == ApiStep \/ BrokerStep \/ \E w \in Workers : WorkerStep(w)

Spec == Init /\ [][Next]_vars

\* The broker delivers what is queued to idle workers; a worker that has not
\* crashed goes on.
Fairness ==
  /\ \A w \in Workers, u \in Uploads : WF_vars(Receive(w, u))
  /\ \A w \in Workers : WF_vars(WorkerStep(w))

FairSpec == Spec /\ Fairness
-----------------------------------------------------------------------------
(* Properties.                                                             *)

TypeOK ==
  /\ file \in [Uploads -> SUBSET Ids]
  /\ raw \in [Uploads -> BOOLEAN]
  /\ status \in [Uploads -> Statuses]
  /\ {rowsTotal, rowsProcessed, queue} \subseteq [Uploads -> Nat]
  /\ gone \subseteq Uploads /\ sending \subseteq Uploads
  /\ owner \in [Ids -> Uploads \cup {None}]
  /\ messages \in [Ids -> Nat]
  /\ hidden \subseteq Ids
  /\ {crashes, redeliveries} \subseteq Nat
  /\ pc \in [Workers -> Steps]
  /\ job \in [Workers -> Uploads \cup {None}]
  /\ holds \in [Workers -> BOOLEAN]
  /\ todo \in [Workers -> SUBSET Ids]
  /\ cur \in [Workers -> Ids \cup {None}]
  /\ isNew \in [Workers -> BOOLEAN]
  /\ done \in [Workers -> Nat]

\* A stored conversation has its messages, inserted once, however many files
\* mention it and however often their tasks are delivered.
MessagesOnce ==
  \A i \in Ids : messages[i] = IF owner[i] = None THEN 0 ELSE 1

\* Nothing of a file is lost: its bytes are dropped only when each of its
\* conversations is stored, so a retry always finds either.
RawKeptUntilStored ==
  \A u \in Uploads : status[u] # "absent" /\ ~raw[u] =>
    \A i \in file[u] : owner[i] # None

\* The upload that stored a conversation first keeps it: deleting that upload
\* reaches the conversation whichever files mention it later.
FirstUploadOwns ==
  [][\A i \in Ids : owner[i] # None => owner'[i] = owner[i]]_vars

\* What is pending or processing is not settled yet.
Phase == [u \in Uploads |-> IF status[u] \in {"pending", "processing"} THEN "open" ELSE status[u]]

Contract == INSTANCE IngestionContract WITH phase <- Phase, owed <- file, kept <- raw

\* The workers, the broker and all the faults implement the ingestion contract.
ImplementsContract == Contract!Spec

\* What a completed upload reports is what its file holds: the counters reach
\* the total, duplicates and runs repeated after a crash included, as long as
\* no two runs of it overlap.
CompletedCountsAll ==
  redeliveries = 0 => \A u \in Uploads : status[u] = "completed" =>
    rowsProcessed[u] = rowsTotal[u] /\ rowsTotal[u] = Cardinality(file[u])

\* An upload whose task is in the broker ends, in spite of crashes,
\* redeliveries, deletions, empty files and exceptions.
QueuedUploadEnds ==
  \A u \in Uploads :
    (status[u] = "pending" /\ queue[u] > 0) ~> (status[u] \in {"completed", "failed"})

\* If no run ever fails, a file with conversations is completed unless it is
\* deleted first, whatever crashes and redeliveries.
QueuedUploadCompletes ==
  \A u \in Uploads :
    [](\A w \in Workers : pc[w] = "failing" => job[w] # u) =>
      ((status[u] = "pending" /\ queue[u] > 0 /\ file[u] # {})
         ~> (status[u] = "completed" \/ u \in gone))
=============================================================================
