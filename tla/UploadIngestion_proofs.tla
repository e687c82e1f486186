----------------------- MODULE UploadIngestion_proofs -----------------------
(***************************************************************************)
(* Proofs about UploadIngestion for every set of uploads, external ids and *)
(* workers and every bound on the faults: its type invariant, and that     *)
(* messages are inserted once, nothing of a file is lost, the first upload *)
(* keeps its conversations, the counters of a completed one are right and  *)
(* a run takes finitely many steps.                                        *)
(***************************************************************************)
EXTENDS UploadIngestion, FiniteSetTheorems, TLAPS

USE UploadAssumption

\* A busy worker processes an upload that was made, an open transaction is about
\* one of the conversations to come, and only a busy worker holds a delivery.
Placed ==
  \A w \in Workers :
    /\ IF pc[w] = "idle" THEN job[w] = None ELSE job[w] \in Uploads
    /\ pc[w] = "txn" => cur[w] \in todo[w]
    /\ pc[w] # "txn" => cur[w] = None /\ ~isNew[w]
    /\ holds[w] => pc[w] # "idle"

\* Tasks are of uploads that were made.
TasksAreOfUploads ==
  /\ \A u \in Uploads : queue[u] > 0 \/ u \in sending => status[u] # "absent"
  /\ \A w \in Workers : pc[w] # "idle" => status[job[w]] # "absent"

Typed == TypeOK /\ Placed /\ TasksAreOfUploads

\* A transaction with a new conversation is alone on its key, of which no row is
\* committed; one that lost left a committed row behind.
NewIsAlone ==
  \A w \in Workers : pc[w] = "txn" =>
    IF isNew[w]
    THEN owner[cur[w]] = None /\ \A v \in Workers \ {w} : isNew[v] => cur[v] # cur[w]
    ELSE owner[cur[w]] # None

\* What a run has parsed and no longer has to do is stored.
RunsStore ==
  \A w \in Workers : pc[w] \in Running \ {"load"} =>
    \A i \in file[job[w]] \ todo[w] : owner[i] # None

\* Without redeliveries a task is in one place: about to be sent, queued, or held
\* by one worker.
OneDelivery ==
  redeliveries = 0 =>
    /\ \A u \in Uploads : queue[u] <= 1 /\ (u \in sending => queue[u] = 0)
    /\ \A w \in Workers : pc[w] # "idle" =>
         /\ queue[job[w]] = 0
         /\ job[w] \notin sending
         /\ \A v \in Workers \ {w} : job[v] # job[w]

\* The counters of a run are those of its file, and what is completed has none.
RunsCount ==
  redeliveries = 0 =>
    /\ \A w \in Workers : pc[w] = "start" => todo[w] = file[job[w]] /\ done[w] = 0
    /\ \A w \in Workers : pc[w] \in {"loop", "txn", "progress"} =>
         /\ status[job[w]] = "processing"
         /\ rowsTotal[job[w]] = Cardinality(file[job[w]])
         /\ done[w] + Cardinality(todo[w]) = Cardinality(file[job[w]])
    /\ \A w \in Workers : pc[w] \in {"idle", "load", "failing", "ack"} => done[w] = 0

IInv == Typed /\ NewIsAlone /\ RunsStore /\ MessagesOnce /\ RawKeptUntilStored
CountInv == Typed /\ OneDelivery /\ RunsCount /\ CompletedCountsAll

LEMMA FilesAreCounted ==
  ASSUME NEW S \in SUBSET Ids
  PROVE  IsFiniteSet(S) /\ Cardinality(S) \in Nat
BY FS_Subset, FS_CardinalityType

LEMMA InitTyped == Init => Typed
BY DEF Init, Typed, TypeOK, Placed, TasksAreOfUploads, Statuses, Steps, Running

LEMMA ApiTyped == Typed /\ ApiStep => Typed'
<1> SUFFICES ASSUME Typed, ApiStep PROVE Typed'
  OBVIOUS
<1> USE DEF Typed, TypeOK, Placed, TasksAreOfUploads, uploadRow, convRow, faults,
            run, Statuses
<1>1. ASSUME NEW u \in Uploads, CreateUpload(u) PROVE Typed'
  BY <1>1 DEF CreateUpload
<1>2. ASSUME NEW u \in Uploads, EnqueueUpload(u) PROVE Typed'
  BY <1>2 DEF EnqueueUpload
<1>3. ASSUME NEW u \in Uploads, EnqueueFails(u) PROVE Typed'
  BY <1>3 DEF EnqueueFails
<1>4. ASSUME NEW u \in Uploads, DeleteUpload(u) PROVE Typed'
  BY <1>4 DEF DeleteUpload
<1>5. ASSUME NEW i \in Ids, DeleteConversation(i) PROVE Typed'
  BY <1>5 DEF DeleteConversation
<1>6. QED
  BY <1>1, <1>2, <1>3, <1>4, <1>5 DEF ApiStep

LEMMA BrokerTyped == Typed /\ BrokerStep => Typed'
<1> SUFFICES ASSUME Typed, BrokerStep PROVE Typed'
  OBVIOUS
<1> USE DEF Typed, TypeOK, Placed, TasksAreOfUploads, uploadRow, convRow, Steps,
            Running, Statuses
<1>1. ASSUME NEW w \in Workers, NEW u \in Uploads, Receive(w, u) PROVE Typed'
  BY <1>1 DEF Receive, HasTask, faults
<1>2. ASSUME NEW w \in Workers, Crash(w) PROVE Typed'
  <2>1. Requeued(w) \in Nat
    BY <1>2 DEF Crash, Requeued
  <2>2. QED
    BY <1>2, <2>1 DEF Crash, EndRun, CloseTxn
<1>3. ASSUME NEW w \in Workers, Redeliver(w) PROVE Typed'
  BY <1>3 DEF Redeliver
<1>4. QED
  BY <1>1, <1>2, <1>3 DEF BrokerStep

LEMMA WorkerTyped ==
  ASSUME NEW w \in Workers, Typed, WorkerStep(w)
  PROVE  Typed'
<1> USE DEF Typed, TypeOK, Placed, TasksAreOfUploads, faults, Steps, Running,
            Statuses
<1>1. CASE LoadUpload(w)
  BY <1>1 DEF LoadUpload, uploadRow, convRow
<1>2. CASE LoadFails(w)
  BY <1>2 DEF LoadFails, uploadRow, convRow, run
<1>3. CASE RejectEmpty(w)
  BY <1>3 DEF RejectEmpty, convRow, run
<1>4. CASE StartProcessing(w)
  BY <1>4, FilesAreCounted DEF StartProcessing, convRow, run
<1>5. ASSUME NEW i \in Ids, UpsertConversation(w, i) PROVE Typed'
  BY <1>5 DEF UpsertConversation, AddsRow, uploadRow, convRow
<1>6. CASE CommitConversation(w)
  <2> USE <1>6 DEF CommitConversation, NextDone, CloseTxn, uploadRow
  <2>1. job[w] \in Uploads /\ cur[w] \in Ids
    OBVIOUS
  <2>2. owner' \in [Ids -> Uploads \cup {None}] /\ messages' \in [Ids -> Nat]
    BY <2>1
  <2>3. pc' \in [Workers -> Steps] /\ pc'[w] \in {"progress", "loop"}
    OBVIOUS
  <2>4. todo' \in [Workers -> SUBSET Ids] /\ done' \in [Workers -> Nat]
    BY <2>1
  <2>5. TypeOK'
    BY <2>1, <2>2, <2>3, <2>4
  <2>6. Placed' /\ TasksAreOfUploads'
    BY <2>1, <2>3
  <2>7. QED
    BY <2>5, <2>6
<1>7. CASE WriteProgress(w)
  BY <1>7 DEF WriteProgress, convRow, run
<1>8. CASE MarkCompleted(w)
  BY <1>8 DEF MarkCompleted, EndRun, CloseTxn, convRow
<1>9. CASE RunRaises(w)
  BY <1>9 DEF RunRaises, CanRaise, EndRun, CloseTxn, uploadRow, convRow
<1>10. CASE MarkFailed(w)
  BY <1>10 DEF MarkFailed, StatusAfterFailure, RawAfterFailure, convRow, run
<1>11. CASE MarkFailedRaises(w)
  BY <1>11 DEF MarkFailedRaises, uploadRow, convRow, run
<1>12. CASE Acknowledge(w)
  BY <1>12 DEF Acknowledge, uploadRow, convRow
<1>13. QED
  BY <1>1, <1>2, <1>3, <1>4, <1>5, <1>6, <1>7, <1>8, <1>9, <1>10, <1>11,
     <1>12 DEF WorkerStep

LEMMA StutterTyped == Typed /\ UNCHANGED vars => Typed'
BY DEF Typed, TypeOK, Placed, TasksAreOfUploads, vars, uploadRow, convRow, faults,
       run

LEMMA AlwaysTyped == Spec => []Typed
<1>1. Typed /\ [Next]_vars => Typed'
  BY ApiTyped, BrokerTyped, WorkerTyped, StutterTyped DEF Next
<1>2. QED
  BY <1>1, InitTyped, PTL DEF Spec

\* The type invariant, for every instance and under every fault.
THEOREM TypeCorrect == Spec => []TypeOK
<1>1. Typed => TypeOK
  BY DEF Typed
<1>2. QED
  BY <1>1, AlwaysTyped, PTL

-----------------------------------------------------------------------------
(* What is stored, and once.                                               *)

LEMMA InitIInv == Init => IInv
<1>1. Init => NewIsAlone /\ RunsStore /\ MessagesOnce /\ RawKeptUntilStored
  BY DEF Init, NewIsAlone, RunsStore, MessagesOnce, RawKeptUntilStored, Running
<1>2. QED
  BY <1>1, InitTyped DEF IInv

LEMMA ApiIInv == IInv /\ ApiStep => IInv'
<1> SUFFICES ASSUME IInv, ApiStep
             PROVE  /\ NewIsAlone' /\ RunsStore'
                    /\ MessagesOnce' /\ RawKeptUntilStored'
  BY ApiTyped DEF IInv
<1> USE DEF IInv, NewIsAlone, RunsStore, MessagesOnce, RawKeptUntilStored,
            uploadRow, convRow, run
<1>1. ASSUME NEW u \in Uploads, CreateUpload(u)
      PROVE  NewIsAlone' /\ RunsStore' /\ MessagesOnce' /\ RawKeptUntilStored'
  <2> USE <1>1 DEF CreateUpload
  <2>1. \A v \in Uploads : v # u =>
          file'[v] = file[v] /\ raw'[v] = raw[v] /\ status'[v] = status[v]
    BY DEF Typed, TypeOK
  <2>2. raw'[u]
    BY DEF Typed, TypeOK
  <2>3. \A w \in Workers : pc[w] # "idle" => job[w] \in Uploads /\ job[w] # u
    BY DEF Typed, Placed, TasksAreOfUploads
  <2>4. RunsStore'
    BY <2>1, <2>3 DEF Running
  <2>5. QED
    BY <2>1, <2>2, <2>4
<1>2. ASSUME NEW u \in Uploads, EnqueueUpload(u) \/ EnqueueFails(u)
      PROVE  NewIsAlone' /\ RunsStore' /\ MessagesOnce' /\ RawKeptUntilStored'
  BY <1>2 DEF EnqueueUpload, EnqueueFails
<1>3. ASSUME NEW u \in Uploads, DeleteUpload(u)
      PROVE  NewIsAlone' /\ RunsStore' /\ MessagesOnce' /\ RawKeptUntilStored'
  BY <1>3 DEF DeleteUpload
<1>4. ASSUME NEW i \in Ids, DeleteConversation(i)
      PROVE  NewIsAlone' /\ RunsStore' /\ MessagesOnce' /\ RawKeptUntilStored'
  BY <1>4 DEF DeleteConversation
<1>5. QED
  BY <1>1, <1>2, <1>3, <1>4 DEF ApiStep

\* A step that leaves the rows alone and opens no transaction or run.
LEMMA RowsUnchanged ==
  ASSUME IInv, UNCHANGED <<file, raw, owner, messages>>,
         \A u \in Uploads : status'[u] = "absent" <=> status[u] = "absent",
         \A w \in Workers :
           \/ UNCHANGED <<pc[w], job[w], todo[w], cur[w], isNew[w]>>
           \/ pc'[w] \notin Running \ {"load"} /\ ~isNew'[w]
           \/ /\ pc[w] \in Running \ {"load"} /\ pc'[w] # "txn"
              /\ ~isNew'[w]
              /\ UNCHANGED <<job[w], todo[w]>>
  PROVE  NewIsAlone' /\ RunsStore' /\ MessagesOnce' /\ RawKeptUntilStored'
<1> USE DEF IInv
<1>1. NewIsAlone'
  BY DEF NewIsAlone, Running, Typed, Placed
<1>2. RunsStore'
  BY DEF RunsStore, Running, Typed, Placed
<1>3. MessagesOnce' /\ RawKeptUntilStored'
  BY DEF MessagesOnce, RawKeptUntilStored
<1>4. QED
  BY <1>1, <1>2, <1>3

LEMMA BrokerIInv == IInv /\ BrokerStep => IInv'
<1> SUFFICES ASSUME IInv, BrokerStep
             PROVE  /\ NewIsAlone' /\ RunsStore'
                    /\ MessagesOnce' /\ RawKeptUntilStored'
  BY BrokerTyped DEF IInv
<1> USE DEF IInv, Typed, TypeOK, Placed, uploadRow, convRow, Running
<1>1. ASSUME NEW w \in Workers, NEW u \in Uploads, Receive(w, u)
      PROVE  NewIsAlone' /\ RunsStore' /\ MessagesOnce' /\ RawKeptUntilStored'
  BY <1>1, RowsUnchanged DEF Receive
<1>2. ASSUME NEW w \in Workers, Crash(w)
      PROVE  NewIsAlone' /\ RunsStore' /\ MessagesOnce' /\ RawKeptUntilStored'
  BY <1>2, RowsUnchanged DEF Crash, EndRun, CloseTxn
<1>3. ASSUME NEW w \in Workers, Redeliver(w)
      PROVE  NewIsAlone' /\ RunsStore' /\ MessagesOnce' /\ RawKeptUntilStored'
  BY <1>3, RowsUnchanged DEF Redeliver
<1>4. QED
  BY <1>1, <1>2, <1>3 DEF BrokerStep

LEMMA WorkerIInv ==
  ASSUME NEW w \in Workers, IInv, WorkerStep(w)
  PROVE  IInv'
<1> SUFFICES /\ NewIsAlone' /\ RunsStore'
             /\ MessagesOnce' /\ RawKeptUntilStored'
  BY WorkerTyped DEF IInv
<1> USE DEF IInv
<1>1. CASE LoadUpload(w)
  <2> USE <1>1 DEF LoadUpload, uploadRow, convRow
  <2>1. NewIsAlone'
    BY DEF NewIsAlone, Typed, TypeOK, Placed
  <2>2. RunsStore'
    BY DEF RunsStore, Typed, TypeOK, Placed
  <2>3. MessagesOnce' /\ RawKeptUntilStored'
    BY DEF MessagesOnce, RawKeptUntilStored
  <2>4. QED
    BY <2>1, <2>2, <2>3
<1>2. CASE LoadFails(w) \/ Acknowledge(w)
  BY <1>2, RowsUnchanged DEF LoadFails, Acknowledge, uploadRow, convRow, run, Typed,
     TypeOK, Placed, Running
<1>3. CASE RejectEmpty(w) \/ StartProcessing(w)
  BY <1>3, RowsUnchanged DEF RejectEmpty, StartProcessing, convRow, run, Typed,
     TypeOK, Placed, TasksAreOfUploads, Running
<1>4. ASSUME NEW i \in Ids, UpsertConversation(w, i)
      PROVE  NewIsAlone' /\ RunsStore' /\ MessagesOnce' /\ RawKeptUntilStored'
  <2> USE <1>4 DEF UpsertConversation, uploadRow, convRow
  <2>1. NewIsAlone'
    BY DEF NewIsAlone, AddsRow, KeyIsFree, Typed, TypeOK, Placed
  <2>2. RunsStore'
    BY DEF RunsStore, Running, Typed, TypeOK, Placed
  <2>3. MessagesOnce' /\ RawKeptUntilStored'
    BY DEF MessagesOnce, RawKeptUntilStored
  <2>4. QED
    BY <2>1, <2>2, <2>3
<1>5. CASE CommitConversation(w)
  <2> USE <1>5 DEF CommitConversation, CloseTxn, uploadRow
  <2> DEFINE i == cur[w]
  <2>1. /\ job[w] \in Uploads /\ i \in Ids /\ i \in todo[w]
        /\ isNew[w] => owner[i] = None
        /\ ~isNew[w] => owner[i] # None
    BY DEF NewIsAlone, Typed, TypeOK, Placed
  <2>2. /\ owner'[i] # None
        /\ owner'[i] = IF isNew[w] THEN job[w] ELSE owner[i]
        /\ \A j \in Ids : j # i => owner'[j] = owner[j]
    BY <2>1 DEF Typed, TypeOK
  <2>3. NewIsAlone'
    BY <2>1, <2>2 DEF NewIsAlone, Typed, TypeOK, Placed
  <2>4. RunsStore'
    BY <2>1, <2>2 DEF RunsStore, Running, Typed, TypeOK, Placed
  <2>5. MessagesOnce'
    BY <2>1, <2>2 DEF MessagesOnce, InsertsMessages, Typed, TypeOK
  <2>6. RawKeptUntilStored'
    BY <2>1, <2>2 DEF RawKeptUntilStored, Typed, TypeOK
  <2>7. QED
    BY <2>3, <2>4, <2>5, <2>6
<1>6. CASE WriteProgress(w)
  BY <1>6, RowsUnchanged DEF WriteProgress, convRow, run, Typed, TypeOK, Placed,
     Running
<1>7. CASE MarkCompleted(w)
  <2> USE <1>7 DEF MarkCompleted, EndRun, CloseTxn, convRow
  <2>1. NewIsAlone' /\ RunsStore' /\ MessagesOnce'
    BY DEF NewIsAlone, RunsStore, MessagesOnce, Running, Typed, TypeOK, Placed
  <2>2. \A i \in file[job[w]] : owner[i] # None
    BY DEF RunsStore, Running
  <2>3. RawKeptUntilStored'
    BY <2>2 DEF RawKeptUntilStored, Typed, TypeOK, Placed
  <2>4. QED
    BY <2>1, <2>3
<1>8. CASE RunRaises(w)
  BY <1>8, RowsUnchanged DEF RunRaises, CanRaise, EndRun, CloseTxn, uploadRow,
     convRow, Typed, TypeOK, Placed, Running
<1>9. CASE MarkFailed(w) \/ MarkFailedRaises(w)
  <2>1. UNCHANGED raw
    BY <1>9 DEF MarkFailed, MarkFailedRaises, RawAfterFailure, uploadRow, Typed,
       TypeOK
  <2>2. QED
    BY <1>9, <2>1, RowsUnchanged DEF MarkFailed, MarkFailedRaises,
       StatusAfterFailure, uploadRow, convRow, run, Typed, TypeOK, Placed,
       TasksAreOfUploads, Running
<1>10. QED
  BY <1>1, <1>2, <1>3, <1>4, <1>5, <1>6, <1>7, <1>8, <1>9 DEF WorkerStep

LEMMA StutterIInv == IInv /\ UNCHANGED vars => IInv'
BY StutterTyped DEF IInv, NewIsAlone, RunsStore, MessagesOnce, RawKeptUntilStored,
   vars, uploadRow, convRow, run

LEMMA AlwaysIInv == Spec => []IInv
<1>1. IInv /\ [Next]_vars => IInv'
  BY ApiIInv, BrokerIInv, WorkerIInv, StutterIInv DEF Next
<1>2. QED
  BY <1>1, InitIInv, PTL DEF Spec

\* Whatever is delivered twice, raises, dies or is deleted, the messages of a
\* stored conversation are there once.
THEOREM StoredOnce == Spec => []MessagesOnce
<1>1. IInv => MessagesOnce
  BY DEF IInv
<1>2. QED
  BY <1>1, AlwaysIInv, PTL

\* The bytes of an upload are not dropped while something of it is not stored.
THEOREM NothingLost == Spec => []RawKeptUntilStored
<1>1. IInv => RawKeptUntilStored
  BY DEF IInv
<1>2. QED
  BY <1>1, AlwaysIInv, PTL

LEMMA OwnersStay ==
  ASSUME IInv, [Next]_vars, NEW i \in Ids, owner[i] # None
  PROVE  owner'[i] = owner[i]
<1>1. CASE ApiStep
  BY <1>1 DEF ApiStep, CreateUpload, EnqueueUpload, EnqueueFails, DeleteUpload,
     DeleteConversation, convRow
<1>2. CASE BrokerStep
  BY <1>2 DEF BrokerStep, Receive, Crash, Redeliver, convRow
<1>3. ASSUME NEW w \in Workers, WorkerStep(w) PROVE owner'[i] = owner[i]
  <2>1. CASE CommitConversation(w)
    BY <2>1 DEF CommitConversation, IInv, NewIsAlone, Typed, TypeOK, Placed
  <2>2. CASE LoadUpload(w) \/ LoadFails(w) \/ RejectEmpty(w) \/ StartProcessing(w)
             \/ WriteProgress(w) \/ MarkCompleted(w) \/ RunRaises(w)
             \/ MarkFailed(w) \/ MarkFailedRaises(w) \/ Acknowledge(w)
    BY <2>2 DEF LoadUpload, LoadFails, RejectEmpty, StartProcessing, WriteProgress,
       MarkCompleted, RunRaises, MarkFailed, MarkFailedRaises, Acknowledge, convRow
  <2>3. CASE \E j \in Ids : UpsertConversation(w, j)
    BY <2>3 DEF UpsertConversation, convRow
  <2>4. QED
    BY <1>3, <2>1, <2>2, <2>3 DEF WorkerStep
<1>4. QED
  BY <1>1, <1>2, <1>3 DEF Next, vars, convRow

\* No later upload, retry or delete takes a conversation from its upload.
THEOREM OwnersAreFinal == Spec => FirstUploadOwns
<1>1. IInv /\ [Next]_vars =>
        [\A i \in Ids : owner[i] # None => owner'[i] = owner[i]]_vars
  BY OwnersStay
<1>2. QED
  BY <1>1, AlwaysIInv, PTL DEF Spec, FirstUploadOwns

-----------------------------------------------------------------------------
(* The ingestion contract.                                                 *)

\* A run has to do what its file holds, and goes on only with a file that holds
\* something.
RunsParse ==
  \A w \in Workers : pc[w] \in Running \ {"load"} =>
    /\ todo[w] \subseteq file[job[w]]
    /\ pc[w] = "start" => todo[w] = file[job[w]]
    /\ pc[w] # "start" => file[job[w]] # {}

LEMMA InitParse == Init => RunsParse
BY DEF Init, RunsParse, Running

LEMMA NextParse ==
  ASSUME Typed, RunsParse, [Next]_vars
  PROVE  RunsParse'
<1> USE DEF RunsParse, Typed, TypeOK, Placed, Running, uploadRow, run
<1>1. ASSUME NEW u \in Uploads, CreateUpload(u) PROVE RunsParse'
  <2> USE <1>1 DEF CreateUpload
  <2>1. \A w \in Workers : pc[w] # "idle" => job[w] \in Uploads /\ job[w] # u
    BY DEF TasksAreOfUploads
  <2>2. \A v \in Uploads : v # u => file'[v] = file[v]
    OBVIOUS
  <2>3. QED
    BY <2>1, <2>2
<1>2. CASE ApiStep /\ ~\E u \in Uploads : CreateUpload(u)
  BY <1>2 DEF ApiStep, EnqueueUpload, EnqueueFails, DeleteUpload, DeleteConversation
<1>3. CASE BrokerStep
  BY <1>3 DEF BrokerStep, Receive, Crash, Redeliver, EndRun, CloseTxn
<1>4. ASSUME NEW w \in Workers, WorkerStep(w) PROVE RunsParse'
  <2>1. CASE LoadUpload(w)
    BY <2>1 DEF LoadUpload
  <2>2. CASE StartProcessing(w) \/ RejectEmpty(w)
    BY <2>2 DEF StartProcessing, RejectEmpty
  <2>3. CASE CommitConversation(w)
    BY <2>3 DEF CommitConversation, CloseTxn
  <2>4. CASE MarkCompleted(w) \/ RunRaises(w)
    BY <2>4 DEF MarkCompleted, RunRaises, EndRun, CloseTxn
  <2>5. CASE \E i \in Ids : UpsertConversation(w, i)
    BY <2>5 DEF UpsertConversation
  <2>6. CASE LoadFails(w) \/ WriteProgress(w) \/ MarkFailed(w)
             \/ MarkFailedRaises(w) \/ Acknowledge(w)
    BY <2>6 DEF LoadFails, WriteProgress, MarkFailed, MarkFailedRaises, Acknowledge
  <2>7. QED
    BY <1>4, <2>1, <2>2, <2>3, <2>4, <2>5, <2>6 DEF WorkerStep
<1>5. CASE UNCHANGED vars
  BY <1>5 DEF vars
<1>6. QED
  BY <1>1, <1>2, <1>3, <1>4, <1>5 DEF Next, ApiStep

LEMMA AlwaysParse == Spec => []RunsParse
BY InitParse, NextParse, AlwaysTyped, PTL DEF Spec

LEMMA InitContract == Init => Contract!Init
BY DEF Init, Contract!Init, Phase

\* A step that changes none of what the contract speaks of.
LEMMA ContractStutters ==
  ASSUME UNCHANGED <<status, file, raw, gone, owner, messages, hidden>>
  PROVE  UNCHANGED Contract!contractVars
BY DEF Contract!contractVars, Phase

\* A step that gives one upload another status.
LEMMA PhaseFollows ==
  ASSUME Typed, NEW u \in Uploads, NEW s \in Statuses, status' = [status EXCEPT ![u] = s]
  PROVE  Phase' = [Phase EXCEPT ![u] =
                     IF s \in {"pending", "processing"} THEN "open" ELSE s]
BY DEF Phase, Typed, TypeOK

LEMMA ApiContract ==
  ASSUME IInv, ApiStep
  PROVE  [Contract!Next]_Contract!contractVars
<1> USE DEF IInv, Typed, TypeOK, Statuses
<1>1. ASSUME NEW u \in Uploads, CreateUpload(u) PROVE Contract!Next
  <2>1. Phase' = [Phase EXCEPT ![u] = "open"] /\ Phase[u] = "absent"
    BY <1>1, PhaseFollows DEF CreateUpload, Phase
  <2>2. Contract!Accept(u)
    BY <1>1, <2>1 DEF CreateUpload, convRow, Contract!Accept
  <2>3. QED
    BY <2>2 DEF Contract!Next
<1>2. ASSUME NEW u \in Uploads, EnqueueUpload(u) \/ EnqueueFails(u)
      PROVE  UNCHANGED Contract!contractVars
  BY <1>2, ContractStutters DEF EnqueueUpload, EnqueueFails, uploadRow, convRow
<1>3. ASSUME NEW u \in Uploads, DeleteUpload(u) PROVE Contract!Next
  <2>1. Phase' = Phase /\ Phase[u] # "absent"
    BY <1>3 DEF DeleteUpload, Phase
  <2>2. Contract!WithdrawUpload(u)
    BY <1>3, <2>1 DEF DeleteUpload, Contract!WithdrawUpload
  <2>3. QED
    BY <2>2 DEF Contract!Next
<1>4. ASSUME NEW i \in Ids, DeleteConversation(i) PROVE Contract!Next
  <2>1. Contract!WithdrawConversation(i)
    BY <1>4 DEF DeleteConversation, uploadRow, Phase, Contract!WithdrawConversation
  <2>2. QED
    BY <2>1 DEF Contract!Next
<1>5. QED
  BY <1>1, <1>2, <1>3, <1>4 DEF ApiStep

LEMMA WorkerContract ==
  ASSUME IInv, RunsParse, NEW w \in Workers, WorkerStep(w)
  PROVE  [Contract!Next]_Contract!contractVars
<1> DEFINE u == job[w]
<1> USE DEF IInv, Typed, TypeOK, Placed, Running, Statuses
<1>1. pc[w] # "idle" => u \in Uploads /\ Phase[u] # "absent"
  BY DEF TasksAreOfUploads, Phase
<1>2. CASE CommitConversation(w)
  <2> DEFINE i == cur[w]
  <2> USE <1>2 DEF CommitConversation
  <2>1. u \in Uploads /\ i \in Ids /\ i \in file[u]
    BY DEF RunsParse
  <2>2. UNCHANGED <<Phase, file, raw, gone, hidden>>
    BY DEF uploadRow, Phase
  <2>3. CASE isNew[w]
    <3>1. owner[i] = None /\ messages[i] = 0
      BY <2>1, <2>3 DEF NewIsAlone, MessagesOnce
    <3>2. Phase[u] # "absent" /\ status[u] # "absent"
      BY <1>1 DEF TasksAreOfUploads
    <3>3. raw[u]
      BY <2>1, <3>1, <3>2 DEF RawKeptUntilStored
    <3>4. /\ owner' = [owner EXCEPT ![i] = u]
          /\ messages' = [messages EXCEPT ![i] = 1]
      BY <2>1, <2>3, <3>1 DEF InsertsMessages
    <3>5. Contract!Store(u, i)
      BY <2>1, <2>2, <3>1, <3>3, <3>4 DEF Contract!Store
    <3>6. QED
      BY <2>1, <3>5 DEF Contract!Next
  <2>4. CASE ~isNew[w]
    <3>1. owner' = owner /\ messages' = messages
      BY <2>1, <2>4 DEF InsertsMessages
    <3>2. QED
      BY <2>2, <3>1 DEF Contract!contractVars
  <2>5. QED
    BY <2>3, <2>4
<1>3. CASE StartProcessing(w)
  <2>1. Phase' = [Phase EXCEPT ![u] = "open"]
    BY <1>1, <1>3, PhaseFollows DEF StartProcessing
  <2>2. Contract!Open(u)
    BY <1>1, <1>3, <2>1 DEF StartProcessing, convRow, Contract!Open
  <2>3. QED
    BY <1>1, <1>3, <2>2 DEF StartProcessing, Contract!Next
<1>4. CASE MarkCompleted(w)
  <2>1. Phase' = [Phase EXCEPT ![u] = "completed"]
    BY <1>1, <1>4, PhaseFollows DEF MarkCompleted
  <2>2. file[u] # {} /\ \A i \in file[u] : owner[i] # None
    BY <1>4 DEF MarkCompleted, RunsParse, RunsStore
  <2>3. Contract!Complete(u)
    BY <1>1, <1>4, <2>1, <2>2 DEF MarkCompleted, convRow, Contract!Complete
  <2>4. QED
    BY <1>1, <1>4, <2>3 DEF MarkCompleted, Contract!Next
<1>5. CASE RejectEmpty(w) \/ MarkFailed(w)
  <2>1. u \in Uploads /\ status' = [status EXCEPT ![u] = "failed"] /\ UNCHANGED raw
    BY <1>1, <1>5 DEF RejectEmpty, MarkFailed, StatusAfterFailure, RawAfterFailure
  <2>2. Phase' = [Phase EXCEPT ![u] = "failed"]
    BY <2>1, PhaseFollows
  <2>3. Contract!Fail(u)
    BY <1>1, <1>5, <2>1, <2>2 DEF RejectEmpty, MarkFailed, convRow, Contract!Fail
  <2>4. QED
    BY <2>1, <2>3 DEF Contract!Next
<1>6. CASE LoadUpload(w) \/ LoadFails(w) \/ WriteProgress(w) \/ RunRaises(w)
           \/ MarkFailedRaises(w) \/ Acknowledge(w)
           \/ \E i \in Ids : UpsertConversation(w, i)
  BY <1>6, ContractStutters
     DEF LoadUpload, LoadFails, WriteProgress, RunRaises, MarkFailedRaises,
         Acknowledge, UpsertConversation, uploadRow, convRow
<1>7. QED
  BY <1>2, <1>3, <1>4, <1>5, <1>6 DEF WorkerStep

\* Workers, broker and faults implement the ingestion contract.
THEOREM ContractHolds == Spec => ImplementsContract
<1>1. IInv /\ RunsParse /\ [Next]_vars => [Contract!Next]_Contract!contractVars
  <2> SUFFICES ASSUME IInv, RunsParse, [Next]_vars
               PROVE  [Contract!Next]_Contract!contractVars
    OBVIOUS
  <2>1. CASE BrokerStep
    BY <2>1, ContractStutters DEF BrokerStep, Receive, Crash, Redeliver, uploadRow, convRow
  <2>2. CASE UNCHANGED vars
    BY <2>2, ContractStutters DEF vars, uploadRow, convRow
  <2>3. QED
    BY <2>1, <2>2, ApiContract, WorkerContract DEF Next
<1>2. QED
  BY <1>1, InitContract, AlwaysIInv, AlwaysParse, PTL
     DEF Spec, ImplementsContract, Contract!Spec

-----------------------------------------------------------------------------
(* The counters of a completed upload.                                     *)

LEMMA InitCountInv == Init => CountInv
<1>1. Init => OneDelivery /\ RunsCount /\ CompletedCountsAll
  BY DEF Init, OneDelivery, RunsCount, CompletedCountsAll
<1>2. QED
  BY <1>1, InitTyped DEF CountInv

LEMMA ApiCountInv == CountInv /\ ApiStep => CountInv'
<1> SUFFICES ASSUME CountInv, ApiStep
             PROVE  OneDelivery' /\ RunsCount' /\ CompletedCountsAll'
  BY ApiTyped DEF CountInv
<1> USE DEF CountInv, Typed, TypeOK, Placed, TasksAreOfUploads, uploadRow, convRow,
            run, faults
<1>1. ASSUME NEW u \in Uploads, CreateUpload(u)
      PROVE  OneDelivery' /\ RunsCount' /\ CompletedCountsAll'
  <2> USE <1>1 DEF CreateUpload
  <2>1. queue[u] = 0 /\ \A w \in Workers : pc[w] # "idle" => job[w] # u
    OBVIOUS
  <2>2. \A v \in Uploads : v # u => file'[v] = file[v] /\ status'[v] = status[v]
    OBVIOUS
  <2>3. OneDelivery'
    BY <2>1 DEF OneDelivery
  <2>4. RunsCount'
    BY <2>1, <2>2 DEF RunsCount
  <2>5. CompletedCountsAll'
    BY <2>2 DEF CompletedCountsAll
  <2>6. QED
    BY <2>3, <2>4, <2>5
<1>2. ASSUME NEW u \in Uploads, EnqueueUpload(u) \/ EnqueueFails(u)
      PROVE  OneDelivery' /\ RunsCount' /\ CompletedCountsAll'
  BY <1>2 DEF EnqueueUpload, EnqueueFails, OneDelivery, RunsCount,
     CompletedCountsAll
<1>3. ASSUME NEW u \in Uploads, DeleteUpload(u)
      PROVE  OneDelivery' /\ RunsCount' /\ CompletedCountsAll'
  BY <1>3 DEF DeleteUpload, OneDelivery, RunsCount, CompletedCountsAll
<1>4. ASSUME NEW i \in Ids, DeleteConversation(i)
      PROVE  OneDelivery' /\ RunsCount' /\ CompletedCountsAll'
  BY <1>4 DEF DeleteConversation, OneDelivery, RunsCount, CompletedCountsAll
<1>5. QED
  BY <1>1, <1>2, <1>3, <1>4 DEF ApiStep

LEMMA BrokerCountInv == CountInv /\ BrokerStep => CountInv'
<1> SUFFICES ASSUME CountInv, BrokerStep
             PROVE  OneDelivery' /\ RunsCount' /\ CompletedCountsAll'
  BY BrokerTyped DEF CountInv
<1> USE DEF CountInv, Typed, TypeOK, Placed, uploadRow, convRow
<1>1. ASSUME NEW w \in Workers, NEW u \in Uploads, Receive(w, u)
      PROVE  OneDelivery' /\ RunsCount' /\ CompletedCountsAll'
  <2> USE <1>1 DEF Receive, HasTask, faults
  <2>1. OneDelivery'
    BY DEF OneDelivery
  <2>2. RunsCount' /\ CompletedCountsAll'
    BY DEF RunsCount, CompletedCountsAll
  <2>3. QED
    BY <2>1, <2>2
<1>2. ASSUME NEW w \in Workers, Crash(w)
      PROVE  OneDelivery' /\ RunsCount' /\ CompletedCountsAll'
  <2> USE <1>2 DEF Crash, EndRun, CloseTxn
  <2>1. Requeued(w) \in {queue[job[w]], queue[job[w]] + 1}
    BY DEF Requeued
  <2>2. OneDelivery'
    BY <2>1 DEF OneDelivery
  <2>3. RunsCount' /\ CompletedCountsAll'
    BY DEF RunsCount, CompletedCountsAll
  <2>4. QED
    BY <2>2, <2>3
<1>3. ASSUME NEW w \in Workers, Redeliver(w)
      PROVE  OneDelivery' /\ RunsCount' /\ CompletedCountsAll'
  <2>1. redeliveries' # 0
    BY <1>3 DEF Redeliver
  <2>2. QED
    BY <2>1 DEF OneDelivery, RunsCount, CompletedCountsAll
<1>4. QED
  BY <1>1, <1>2, <1>3 DEF BrokerStep

\* A step of a worker that goes on with its upload keeps the task where it is.
LEMMA TaskStays ==
  ASSUME CountInv, NEW w \in Workers, pc[w] # "idle",
         UNCHANGED <<queue, sending, redeliveries, job>>,
         \A v \in Workers \ {w} : pc'[v] = pc[v]
  PROVE  OneDelivery'
BY DEF CountInv, OneDelivery

LEMMA WorkerCountInv ==
  ASSUME NEW w \in Workers, CountInv, WorkerStep(w)
  PROVE  CountInv'
<1> SUFFICES OneDelivery' /\ RunsCount' /\ CompletedCountsAll'
  BY WorkerTyped DEF CountInv
<1> USE DEF CountInv, Typed, TypeOK, Placed, faults
<1> DEFINE u == job[w]
<1>0. redeliveries = 0 /\ pc[w] # "idle" => \A v \in Workers \ {w} : job[v] # u
  BY DEF OneDelivery
<1>1. CASE LoadUpload(w)
  <2> USE <1>1 DEF LoadUpload, uploadRow, convRow
  <2>1. OneDelivery'
    BY TaskStays
  <2>2. RunsCount' /\ CompletedCountsAll'
    BY DEF RunsCount, CompletedCountsAll
  <2>3. QED
    BY <2>1, <2>2
<1>2. CASE LoadFails(w)
  <2> USE <1>2 DEF LoadFails, uploadRow, convRow, run
  <2>1. OneDelivery'
    BY TaskStays
  <2>2. RunsCount' /\ CompletedCountsAll'
    BY DEF RunsCount, CompletedCountsAll
  <2>3. QED
    BY <2>1, <2>2
<1>3. CASE RejectEmpty(w)
  <2> USE <1>3 DEF RejectEmpty, convRow, run
  <2>1. OneDelivery'
    BY TaskStays
  <2>2. RunsCount'
    BY <1>0 DEF RunsCount
  <2>3. CompletedCountsAll'
    BY DEF CompletedCountsAll
  <2>4. QED
    BY <2>1, <2>2, <2>3
<1>4. CASE StartProcessing(w)
  <2> USE <1>4 DEF StartProcessing, convRow, run
  <2>1. OneDelivery'
    BY TaskStays
  <2>2. Cardinality(todo[w]) \in Nat
    BY FilesAreCounted
  <2>3. RunsCount'
    BY <1>0, <2>2 DEF RunsCount
  <2>4. CompletedCountsAll'
    BY DEF CompletedCountsAll
  <2>5. QED
    BY <2>1, <2>3, <2>4
<1>5. ASSUME NEW i \in Ids, UpsertConversation(w, i)
      PROVE  OneDelivery' /\ RunsCount' /\ CompletedCountsAll'
  <2> USE <1>5 DEF UpsertConversation, uploadRow, convRow
  <2>1. OneDelivery'
    BY TaskStays
  <2>2. RunsCount' /\ CompletedCountsAll'
    BY DEF RunsCount, CompletedCountsAll
  <2>3. QED
    BY <2>1, <2>2
<1>6. CASE CommitConversation(w)
  <2> USE <1>6 DEF CommitConversation, NextDone, CloseTxn, uploadRow
  <2>1. OneDelivery'
    BY TaskStays
  <2>2. Cardinality(todo[w] \ {cur[w]}) = Cardinality(todo[w]) - 1
    BY FilesAreCounted, FS_RemoveElement
  <2>3. Cardinality(todo[w]) \in Nat
    BY FilesAreCounted
  <2>4. pc'[w] \in {"loop", "progress"} /\ \A v \in Workers \ {w} : pc'[v] = pc[v]
    OBVIOUS
  <2>5. RunsCount'
    <3> SUFFICES ASSUME redeliveries = 0 PROVE RunsCount'
      BY DEF RunsCount
    <3>1. /\ rowsTotal[u] = Cardinality(file[u]) /\ status[u] = "processing"
          /\ done[w] + Cardinality(todo[w]) = Cardinality(file[u])
      BY DEF RunsCount
    <3>2. done'[w] + Cardinality(todo'[w]) = Cardinality(file[u])
      BY <2>2, <2>3, <3>1
    <3>3. QED
      BY <1>0, <2>4, <3>1, <3>2 DEF RunsCount
  <2>6. CompletedCountsAll'
    BY DEF CompletedCountsAll
  <2>7. QED
    BY <2>1, <2>5, <2>6
<1>7. CASE WriteProgress(w)
  <2> USE <1>7 DEF WriteProgress, convRow, run
  <2>1. OneDelivery'
    BY TaskStays
  <2>2. RunsCount'
    BY DEF RunsCount
  <2>3. CompletedCountsAll'
    BY DEF RunsCount, CompletedCountsAll
  <2>4. QED
    BY <2>1, <2>2, <2>3
<1>8. CASE MarkCompleted(w)
  <2> USE <1>8 DEF MarkCompleted, EndRun, CloseTxn, convRow
  <2>1. OneDelivery'
    BY TaskStays
  <2>2. RunsCount'
    BY <1>0 DEF RunsCount
  <2>3. redeliveries = 0 => done[w] = Cardinality(file[u])
    <3>1. Cardinality(todo[w]) = 0
      BY FS_EmptySet
    <3>2. redeliveries = 0 => done[w] + Cardinality(todo[w]) = Cardinality(file[u])
      BY DEF RunsCount
    <3>3. QED
      BY <3>1, <3>2
  <2>4. CompletedCountsAll'
    BY <2>3 DEF RunsCount, CompletedCountsAll
  <2>5. QED
    BY <2>1, <2>2, <2>4
<1>9. CASE RunRaises(w)
  <2> USE <1>9 DEF RunRaises, CanRaise, Running, EndRun, CloseTxn, uploadRow,
                   convRow
  <2>1. OneDelivery'
    BY TaskStays
  <2>2. RunsCount' /\ CompletedCountsAll'
    BY DEF RunsCount, CompletedCountsAll
  <2>3. QED
    BY <2>1, <2>2
<1>10. CASE MarkFailed(w)
  <2> USE <1>10 DEF MarkFailed, StatusAfterFailure, convRow, run
  <2>1. OneDelivery'
    BY TaskStays
  <2>2. RunsCount'
    BY <1>0 DEF RunsCount
  <2>3. CompletedCountsAll'
    BY DEF CompletedCountsAll
  <2>4. QED
    BY <2>1, <2>2, <2>3
<1>11. CASE MarkFailedRaises(w)
  <2> USE <1>11 DEF MarkFailedRaises, uploadRow, convRow, run
  <2>1. OneDelivery'
    BY TaskStays
  <2>2. RunsCount' /\ CompletedCountsAll'
    BY DEF RunsCount, CompletedCountsAll
  <2>3. QED
    BY <2>1, <2>2
<1>12. CASE Acknowledge(w)
  <2> USE <1>12 DEF Acknowledge, uploadRow, convRow
  <2>1. OneDelivery'
    BY DEF OneDelivery
  <2>2. RunsCount' /\ CompletedCountsAll'
    BY DEF RunsCount, CompletedCountsAll
  <2>3. QED
    BY <2>1, <2>2
<1>13. QED
  BY <1>1, <1>2, <1>3, <1>4, <1>5, <1>6, <1>7, <1>8, <1>9, <1>10, <1>11,
     <1>12 DEF WorkerStep

LEMMA StutterCountInv == CountInv /\ UNCHANGED vars => CountInv'
BY StutterTyped DEF CountInv, OneDelivery, RunsCount, CompletedCountsAll, vars,
   uploadRow, convRow, faults, run

\* As long as no task is delivered while another worker has it, a completed
\* upload reports what its file holds, for every number of crashes and retries.
THEOREM CountersAreRight == Spec => []CompletedCountsAll
<1>1. CountInv /\ [Next]_vars => CountInv'
  BY ApiCountInv, BrokerCountInv, WorkerCountInv, StutterCountInv DEF Next
<1>2. CountInv => CompletedCountsAll
  BY DEF CountInv
<1>3. QED
  BY <1>1, <1>2, InitCountInv, PTL DEF Spec

-----------------------------------------------------------------------------
(* Who waits, and what the broker owes.                                    *)

\* The guards of WorkerStep without a fault: what a run waits for.
CanGoOn(w) ==
  \/ pc[w] \in {"load", "start", "txn", "progress", "failing", "ack"}
  \/ pc[w] = "loop" /\ (todo[w] = {} \/ \E i \in todo[w] : KeyIsFree(i))

\* Runs that share conversations never wait for one another for good.
THEOREM NobodyIsStuck ==
  Spec => []((\E w \in Workers : pc[w] # "idle") => \E w \in Workers : CanGoOn(w))
<1>1. Typed => ((\E w \in Workers : pc[w] # "idle") => \E w \in Workers : CanGoOn(w))
  <2> SUFFICES ASSUME Typed, NEW w \in Workers, pc[w] # "idle",
                      \A v \in Workers : ~CanGoOn(v)
               PROVE  FALSE
    OBVIOUS
  <2>1. \A v \in Workers : ~isNew[v]
    BY DEF CanGoOn, Typed, Placed
  <2>2. QED
    BY <2>1 DEF CanGoOn, KeyIsFree, Typed, TypeOK, Steps, Running
<1>2. QED
  BY <1>1, AlwaysTyped, PTL

\* A delivery that the broker counts and that has not come to its end.
InDelivery(u) == queue[u] > 0 \/ \E w \in Workers : holds[w] /\ job[w] = u /\ pc[w] # "ack"
Unfinished(u) == status[u] \in {"pending", "processing"}

\* The delivery of an upload that is neither completed nor failed is not lost: late
\* acks and requeues keep it, unless even the UPDATE that marks the failure raises.
TaskKept ==
  [][\A u \in Uploads : InDelivery(u) /\ Unfinished(u) /\ Unfinished(u)' =>
       InDelivery(u)' \/ \E w \in Workers : job[w] = u /\ MarkFailedRaises(w)]_vars

\* No crash, redelivery or exception loses a task, whatever their order.
THEOREM TasksAreKept == Spec => TaskKept
<1> DEFINE Kept ==
      \A u \in Uploads : InDelivery(u) /\ Unfinished(u) /\ Unfinished(u)' =>
        InDelivery(u)' \/ \E w \in Workers : job[w] = u /\ MarkFailedRaises(w)
<1>1. Typed /\ [Next]_vars => [Kept]_vars
  <2> SUFFICES ASSUME Typed, Next, NEW u \in Uploads,
                      InDelivery(u), Unfinished(u), Unfinished(u)',
                      ~ \E w \in Workers : job[w] = u /\ MarkFailedRaises(w)
               PROVE  InDelivery(u)'
    OBVIOUS
  <2> USE DEF Typed, TypeOK, Placed, InDelivery, Unfinished
  <2>1. CASE ApiStep
    BY <2>1 DEF ApiStep, CreateUpload, EnqueueUpload, EnqueueFails, DeleteUpload,
       DeleteConversation, uploadRow, run
  <2>2. CASE BrokerStep
    <3>1. ASSUME NEW w \in Workers, NEW v \in Uploads, Receive(w, v) PROVE InDelivery(u)'
      BY <3>1 DEF Receive, HasTask
    <3>2. ASSUME NEW w \in Workers, Crash(w) PROVE InDelivery(u)'
      BY <3>2 DEF Crash, Requeued
    <3>3. ASSUME NEW w \in Workers, Redeliver(w) PROVE InDelivery(u)'
      BY <3>3 DEF Redeliver
    <3>4. QED
      BY <2>2, <3>1, <3>2, <3>3 DEF BrokerStep
  <2>3. ASSUME NEW w \in Workers, WorkerStep(w) PROVE InDelivery(u)'
    <3>1. CASE Acknowledge(w)
      BY <3>1 DEF Acknowledge
    <3>2. CASE RejectEmpty(w) \/ MarkCompleted(w)
      BY <3>2 DEF RejectEmpty, MarkCompleted, run
    <3>3. CASE MarkFailed(w)
      BY <3>3 DEF MarkFailed, StatusAfterFailure, run
    <3>4. CASE MarkFailedRaises(w)
      BY <3>4 DEF MarkFailedRaises, run
    <3>5. CASE LoadUpload(w) \/ LoadFails(w) \/ StartProcessing(w) \/ RunRaises(w)
      BY <3>5 DEF LoadUpload, LoadFails, StartProcessing, RunRaises, run
    <3>6. CASE \/ CommitConversation(w) \/ WriteProgress(w)
               \/ \E i \in Ids : UpsertConversation(w, i)
      BY <3>6 DEF CommitConversation, WriteProgress, UpsertConversation, run
    <3>7. QED
      BY <2>3, <3>1, <3>2, <3>3, <3>4, <3>5, <3>6 DEF WorkerStep
  <2>4. QED
    BY <2>1, <2>2, <2>3 DEF Next
<1>2. QED
  BY <1>1, AlwaysTyped, PTL DEF Spec, TaskKept

-----------------------------------------------------------------------------
(* How much is left to do.                                                 *)

\* The steps that a delivery may still take: three for each conversation to store,
\* and those before, between and after them.
Ahead(w) ==
  IF pc[w] = "load" THEN Ids
  ELSE IF pc[w] \in Running THEN todo[w] ELSE {}
Stage(step) ==
  CASE step = "idle" -> 0 [] step = "ack" -> 1 [] step = "failing" -> 2
    [] step = "txn" -> 2 [] step = "loop" -> 3 [] step = "progress" -> 4
    [] step = "start" -> 4 [] step = "load" -> 5
StepsLeft(w) == 3 * Cardinality(Ahead(w)) + Stage(pc[w])

\* A worker's steps, those of a failing run included, use up what is left, and
\* nothing but a new delivery adds to it: no duplicate, deletion or other upload
\* makes a run longer.
RunsCountDown ==
  [][\A w \in Workers :
       /\ WorkerStep(w) => StepsLeft(w)' < StepsLeft(w)
       /\ StepsLeft(w)' > StepsLeft(w) => \E u \in Uploads : Receive(w, u)]_vars

LEMMA Sizes ==
  ASSUME NEW S, S \subseteq Ids
  PROVE  /\ Cardinality(S) \in Nat /\ Cardinality(S) <= Cardinality(Ids)
         /\ \A i \in S : /\ Cardinality(S \ {i}) = Cardinality(S) - 1
                        /\ Cardinality(S) >= 1
<1>1. IsFiniteSet(S) /\ Cardinality(S) <= Cardinality(Ids)
  BY FS_Subset
<1>2. Cardinality(S) \in Nat
  BY <1>1, FS_CardinalityType
<1>3. \A i \in S : /\ Cardinality(S \ {i}) = Cardinality(S) - 1
                   /\ Cardinality(S \ {i}) \in Nat
  BY <1>1, FS_RemoveElement, FS_CardinalityType
<1>4. QED
  BY <1>1, <1>2, <1>3

LEMMA StepsAreNumbers ==
  ASSUME Typed, NEW w \in Workers
  PROVE  StepsLeft(w) \in 0 .. 3 * Cardinality(Ids) + 5
<1>1. Ahead(w) \subseteq Ids
  BY DEF Ahead, Typed, TypeOK
<1>2. /\ Cardinality(Ahead(w)) \in Nat /\ Cardinality(Ids) \in Nat
      /\ Cardinality(Ahead(w)) <= Cardinality(Ids)
  BY <1>1, Sizes
<1>3. Stage(pc[w]) \in 0 .. 5
  BY DEF Stage, Typed, TypeOK, Steps, Running
<1>4. QED
  BY <1>2, <1>3 DEF StepsLeft

LEMMA StepsGoDown ==
  ASSUME Typed, NEW w \in Workers, WorkerStep(w)
  PROVE  StepsLeft(w)' < StepsLeft(w)
<1> DEFINE n == Cardinality(todo[w])
<1>1. /\ pc \in [Workers -> Steps] /\ todo \in [Workers -> SUBSET Ids]
      /\ job[w] \in Uploads \/ pc[w] = "idle"
      /\ file \in [Uploads -> SUBSET Ids]
      /\ pc[w] = "txn" => cur[w] \in todo[w]
  BY DEF Typed, TypeOK, Placed
<1>2. /\ n \in Nat /\ Cardinality(Ids) \in Nat
      /\ \A i \in todo[w] : Cardinality(todo[w] \ {i}) = n - 1 /\ n >= 1
  BY <1>1, Sizes
<1>3. Cardinality({}) = 0
  BY FS_EmptySet
<1>4. CASE LoadUpload(w)
  <2>1. pc[w] = "load" /\ pc'[w] = "start" /\ todo'[w] = file[job[w]]
    BY <1>1, <1>4 DEF LoadUpload
  <2>2. file[job[w]] \subseteq Ids
    BY <1>1, <2>1
  <2>3. /\ Cardinality(file[job[w]]) \in Nat
        /\ Cardinality(file[job[w]]) <= Cardinality(Ids)
    BY <2>2, Sizes
  <2>4. StepsLeft(w) = 3 * Cardinality(Ids) + 5
    BY <2>1 DEF StepsLeft, Ahead, Stage
  <2>5. StepsLeft(w)' = 3 * Cardinality(file[job[w]]) + 4
    BY <2>1 DEF StepsLeft, Ahead, Stage, Running
  <2>6. QED
    BY <1>2, <2>3, <2>4, <2>5
<1>5. CASE CommitConversation(w)
  <2>1. /\ cur[w] \in todo[w] /\ todo'[w] = todo[w] \ {cur[w]}
        /\ pc[w] = "txn" /\ pc'[w] \in {"loop", "progress"}
    BY <1>1, <1>5 DEF CommitConversation
  <2>2. Cardinality(todo'[w]) = n - 1 /\ n >= 1
    BY <1>2, <2>1
  <2>3. StepsLeft(w) = 3 * n + 2
    BY <2>1 DEF StepsLeft, Ahead, Stage, Running
  <2>4. StepsLeft(w)' = 3 * (n - 1) + (IF pc'[w] = "loop" THEN 3 ELSE 4)
    BY <2>1, <2>2 DEF StepsLeft, Ahead, Stage, Running
  <2>5. QED
    BY <1>2, <2>3, <2>4
<1>6. CASE \/ StartProcessing(w) \/ WriteProgress(w)
           \/ \E i \in Ids : UpsertConversation(w, i)
  <2>1. /\ todo'[w] = todo[w]
        /\ \/ pc[w] \in {"start", "progress"} /\ pc'[w] = "loop"
           \/ pc[w] = "loop" /\ pc'[w] = "txn"
    BY <1>1, <1>6 DEF StartProcessing, WriteProgress, UpsertConversation, run
  <2>2. StepsLeft(w) = 3 * n + Stage(pc[w]) /\ StepsLeft(w)' = 3 * n + Stage(pc'[w])
    BY <2>1 DEF StepsLeft, Ahead, Running, Stage
  <2>3. Stage(pc'[w]) \in Nat /\ Stage(pc[w]) \in Nat /\ Stage(pc'[w]) < Stage(pc[w])
    BY <2>1 DEF Stage
  <2>4. QED
    BY <1>2, <2>2, <2>3
<1>7. CASE LoadFails(w) \/ RejectEmpty(w) \/ MarkCompleted(w) \/ RunRaises(w)
  <2>1. /\ pc[w] \in Running /\ pc'[w] \in {"failing", "ack"}
        /\ pc[w] = "load" => pc'[w] = "failing"
    BY <1>1, <1>7 DEF LoadFails, RejectEmpty, MarkCompleted, RunRaises, CanRaise, Running
  <2>2. StepsLeft(w)' \in {1, 2}
    BY <1>3, <2>1 DEF StepsLeft, Ahead, Stage, Running
  <2>3. StepsLeft(w) >= 3
    <3>1. Ahead(w) \subseteq Ids /\ (pc[w] = "txn" => cur[w] \in Ahead(w))
      BY <1>1 DEF Ahead, Running
    <3>2. /\ Cardinality(Ahead(w)) \in Nat
          /\ pc[w] = "txn" => Cardinality(Ahead(w)) >= 1
      BY <3>1, Sizes
    <3>3. Stage(pc[w]) \in 2 .. 5 /\ (pc[w] # "txn" => Stage(pc[w]) >= 3)
      BY <2>1 DEF Stage, Running
    <3>4. QED
      BY <3>2, <3>3 DEF StepsLeft
  <2>4. QED
    BY <2>2, <2>3, StepsAreNumbers
<1>8. CASE MarkFailed(w) \/ MarkFailedRaises(w) \/ Acknowledge(w)
  <2>1. \/ pc[w] = "failing" /\ pc'[w] = "ack"
        \/ pc[w] = "ack" /\ pc'[w] = "idle"
    BY <1>1, <1>8 DEF MarkFailed, MarkFailedRaises, Acknowledge
  <2>2. QED
    BY <1>3, <2>1 DEF StepsLeft, Ahead, Stage, Running
<1>9. QED
  BY <1>4, <1>5, <1>6, <1>7, <1>8 DEF WorkerStep

\* The same pc and the same conversations to store.
LEMMA OthersKeepSteps ==
  ASSUME NEW w \in Workers, pc'[w] = pc[w], todo'[w] = todo[w]
  PROVE  StepsLeft(w)' = StepsLeft(w)
BY DEF StepsLeft, Ahead

\* A delivery comes to its end after at most 3 n + 5 steps of its worker, if the
\* worker lives and the keys it waits for are freed (NobodyIsStuck).
THEOREM RunsAreFinite ==
  Spec => /\ [](\A w \in Workers : StepsLeft(w) \in 0 .. 3 * Cardinality(Ids) + 5)
          /\ RunsCountDown
<1> DEFINE Down ==
      \A w \in Workers :
        /\ WorkerStep(w) => StepsLeft(w)' < StepsLeft(w)
        /\ StepsLeft(w)' > StepsLeft(w) => \E u \in Uploads : Receive(w, u)
           Bound == \A w \in Workers : StepsLeft(w) \in 0 .. 3 * Cardinality(Ids) + 5
<1>1. Typed => Bound
  BY StepsAreNumbers
<1>2. Typed /\ [Next]_vars => [Down]_vars
  <2> SUFFICES ASSUME Typed, Next, NEW w \in Workers
               PROVE  /\ WorkerStep(w) => StepsLeft(w)' < StepsLeft(w)
                      /\ StepsLeft(w)' > StepsLeft(w) => \E u \in Uploads : Receive(w, u)
    OBVIOUS
  <2>0. pc \in [Workers -> Steps] /\ todo \in [Workers -> SUBSET Ids]
    BY DEF Typed, TypeOK
  <2>1. StepsLeft(w) \in Nat
    BY StepsAreNumbers, FS_CardinalityType
  <2>2. CASE ApiStep
    <3>1. pc' = pc /\ todo' = todo
      BY <2>2 DEF ApiStep, CreateUpload, EnqueueUpload, EnqueueFails, DeleteUpload,
                  DeleteConversation, run
    <3>2. StepsLeft(w)' = StepsLeft(w)
      BY <3>1, OthersKeepSteps
    <3>3. QED
      BY <2>1, <3>2, StepsGoDown
  <2>3. CASE BrokerStep
    <3>1. \/ pc'[w] = pc[w] /\ todo'[w] = todo[w]
          \/ pc'[w] = "idle"
          \/ \E u \in Uploads : Receive(w, u)
      BY <2>0, <2>3 DEF BrokerStep, Receive, Crash, Redeliver, EndRun
    <3>2. pc'[w] = "idle" => StepsLeft(w)' = 0
      BY FS_EmptySet DEF StepsLeft, Ahead, Stage, Running
    <3>3. QED
      BY <2>1, <3>1, <3>2, OthersKeepSteps, StepsGoDown
  <2>4. ASSUME NEW v \in Workers, WorkerStep(v)
        PROVE  \/ v = w
               \/ pc'[w] = pc[w] /\ todo'[w] = todo[w]
    BY <2>0, <2>4 DEF WorkerStep, LoadUpload, LoadFails, RejectEmpty, StartProcessing,
       UpsertConversation, CommitConversation, WriteProgress, MarkCompleted, RunRaises,
       MarkFailed, MarkFailedRaises, Acknowledge, EndRun, run
  <2>5. CASE \E v \in Workers : WorkerStep(v)
    <3>1. StepsLeft(w)' < StepsLeft(w) \/ StepsLeft(w)' = StepsLeft(w)
      BY <2>4, <2>5, OthersKeepSteps, StepsGoDown
    <3>2. ~(StepsLeft(w)' > StepsLeft(w))
      <4>1. Typed'
        BY <2>5, WorkerTyped
      <4>2. Ahead(w)' \subseteq Ids /\ Stage(pc'[w]) \in Nat
        BY <4>1 DEF Ahead, Stage, Typed, TypeOK, Steps, Running
      <4>3. StepsLeft(w)' \in Nat
        BY <4>2, Sizes DEF StepsLeft
      <4>4. QED
        BY <2>1, <3>1, <4>3
    <3>3. QED
      BY <3>2, StepsGoDown
  <2>6. QED
    BY <2>2, <2>3, <2>5 DEF Next
<1>3. QED
  BY <1>1, <1>2, AlwaysTyped, PTL DEF Spec, RunsCountDown
=============================================================================
