------------------------ MODULE AuditLifecycle_proofs ------------------------
(***************************************************************************)
(* Proofs about AuditLifecycle for every set of audits, conversations and  *)
(* workers and every bound on the faults: its type invariant, the safety   *)
(* invariants that survive all the faults, the audit contract, and that a  *)
(* run takes finitely many steps.                                          *)
(***************************************************************************)
EXTENDS AuditLifecycle, FiniteSetTheorems, TLAPS

USE AuditAssumption

\* A busy worker runs an audit, an open transaction is about a conversation,
\* and only a busy worker holds a delivery.
Placed ==
  \A w \in Workers :
    /\ pc[w] # "idle" => job[w] \in Audits
    /\ pc[w] \in InTxn => cur[w] \in Convs
    /\ holds[w] => pc[w] # "idle"

Typed == TypeOK /\ Placed

\* What the last transaction writes, for some answer to whether there are
\* suggestions.
LEMMA FinishWrites ==
  ASSUME NEW w \in Workers, FinishAudit(w)
  PROVE  \E some \in BOOLEAN :
           /\ suggested' = [suggested EXCEPT ![job[w]] = some]
           /\ improvements' =
                [improvements EXCEPT ![job[w]] =
                   IF CreatesImprovements(job[w], some) THEN @ + 1 ELSE @]
           /\ notes' = notes \cup {<<"completed", job[w]>>}
                \cup (IF alarms[w] > 0 THEN {<<"critical", job[w]>>} ELSE {})
                \cup (IF some THEN {<<"suggestions", job[w]>>} ELSE {})
BY Zenon DEF FinishAudit

\* The length of conv_ids is a number.
LEMMA ConvIdsAreCounted ==
  ASSUME NEW S \in SUBSET Convs
  PROVE  Cardinality(S) \in Nat
BY FS_Subset, FS_CardinalityType

LEMMA InitTyped == Init => Typed
BY DEF Init, Typed, TypeOK, Placed, Statuses, Steps, InTxn

LEMMA ApiTyped == Typed /\ ApiStep => Typed'
<1> SUFFICES ASSUME Typed, ApiStep PROVE Typed'
  OBVIOUS
<1> USE DEF Typed, TypeOK, Placed, auditRow, convRow, faults, run, Statuses
<1>1. ASSUME NEW a \in Audits, CreateAudit(a) PROVE Typed'
  BY <1>1 DEF CreateAudit
<1>2. ASSUME NEW a \in Audits, CommitAudit(a) PROVE Typed'
  BY <1>2, ConvIdsAreCounted DEF CommitAudit
<1>3. ASSUME NEW a \in Audits, RollBackAudit(a) PROVE Typed'
  BY <1>3 DEF RollBackAudit
<1>4. ASSUME NEW c \in Convs, DeleteConversation(c) PROVE Typed'
  BY <1>4 DEF DeleteConversation
<1>5. ASSUME NEW present \in BOOLEAN, SetLlmKey(present) PROVE Typed'
  BY <1>5 DEF SetLlmKey
<1>6. QED
  BY <1>1, <1>2, <1>3, <1>4, <1>5 DEF ApiStep

LEMMA BrokerTyped == Typed /\ BrokerStep => Typed'
<1> SUFFICES ASSUME Typed, BrokerStep PROVE Typed'
  OBVIOUS
<1> USE DEF Typed, TypeOK, Placed, auditRow, convRow, Steps, InTxn
<1>1. ASSUME NEW w \in Workers, NEW a \in Audits, Receive(w, a) PROVE Typed'
  BY <1>1 DEF Receive, HasTask, faults
<1>2. ASSUME NEW w \in Workers, Crash(w) PROVE Typed'
  <2>1. Requeued(w) \in Nat
    BY <1>2 DEF Crash, Requeued
  <2>2. QED
    BY <1>2, <2>1 DEF Crash, EndRun, CloseTxn
<1>3. ASSUME NEW w \in Workers, Redeliver(w) PROVE Typed'
  BY <1>3 DEF Redeliver
<1>4. QED
  BY <1>1, <1>2, <1>3 DEF BrokerStep

LEMMA WorkerTyped ==
  ASSUME NEW w \in Workers, Typed, WorkerStep(w)
  PROVE  Typed'
<1> USE DEF Typed, TypeOK, Placed, faults, Steps, InTxn
<1>1. CASE LoadAudit(w)
  BY <1>1, ConvIdsAreCounted DEF LoadAudit, ConvIds, auditRow, convRow
<1>2. CASE LoadFails(w)
  BY <1>2 DEF LoadFails, auditRow, convRow, run
<1>3. ASSUME NEW c \in Convs, SkipConversation(w, c) PROVE Typed'
  BY <1>3 DEF SkipConversation, auditRow, convRow
<1>4. ASSUME NEW c \in Convs, OpenConversation(w, c) PROVE Typed'
  BY <1>4 DEF OpenConversation, auditRow, convRow
<1>5. CASE CheckEvaluation(w)
  BY <1>5 DEF CheckEvaluation, NoEvaluation, auditRow, convRow
<1>6. CASE InsertEvaluation(w)
  BY <1>6 DEF InsertEvaluation, InsertAddsRow, auditRow, convRow
<1>7. CASE CommitConversation(w)
  <2> USE <1>7 DEF CommitConversation
  <2>1. job[w] \in Audits /\ cur[w] \in Convs
    OBVIOUS
  <2>2. /\ evalBy' \in [Convs -> Audits \cup {None}]
        /\ rubricBy' \in [Convs -> Audits \cup {None}]
        /\ verdicts' \subseteq Audits \X Convs
    BY <2>1
  <2>3. critical' \in [Convs -> BOOLEAN] /\ alarms' \in [Workers -> Nat]
    <3>1. PICK bad \in BOOLEAN :
            /\ critical' = [critical EXCEPT
                              ![cur[w]] = IF fresh[w] THEN bad ELSE @]
            /\ alarms' = [alarms EXCEPT ![w] = CriticalCount(w, bad)]
      OBVIOUS
    <3>2. CriticalCount(w, bad) \in Nat
      BY DEF CriticalCount
    <3>3. QED
      BY <3>1, <3>2
  <2>4. counted' \in [Convs -> Nat]
    BY <2>1
  <2>5. processed' \in [Workers -> Nat] /\ progress' \in [Audits -> Nat]
    BY <2>1 DEF NextProgress
  <2>6. /\ cur' \in [Workers -> Convs \cup {None}]
        /\ fresh' \in [Workers -> BOOLEAN]
        /\ inserted' \in [Workers -> BOOLEAN]
    BY DEF CloseTxn
  <2>7. pc' \in [Workers -> Steps] /\ Placed'
    BY <2>1, <2>6 DEF CloseTxn
  <2>8. QED
    BY <2>2, <2>3, <2>4, <2>5, <2>6, <2>7
<1>8. CASE FinishAudit(w)
  <2> USE <1>8 DEF FinishAudit
  <2>1. job[w] \in Audits
    OBVIOUS
  <2>2. PICK some \in BOOLEAN :
          /\ suggested' = [suggested EXCEPT ![job[w]] = some]
          /\ improvements' =
               [improvements EXCEPT ![job[w]] =
                  IF CreatesImprovements(job[w], some) THEN @ + 1 ELSE @]
          /\ notes' = notes \cup {<<"completed", job[w]>>}
               \cup (IF alarms[w] > 0 THEN {<<"critical", job[w]>>} ELSE {})
               \cup (IF some THEN {<<"suggestions", job[w]>>} ELSE {})
    BY FinishWrites
  <2>3. /\ suggested' \in [Audits -> BOOLEAN]
        /\ improvements' \in [Audits -> Nat]
    <3>1. suggested' \in [Audits -> BOOLEAN]
      BY <2>1, <2>2
    <3>2. improvements[job[w]] + 1 \in Nat /\ improvements[job[w]] \in Nat
      BY <2>1
    <3>3. improvements' \in [Audits -> Nat]
      BY <2>2, <3>2
    <3>4. QED
      BY <3>1, <3>3
  <2>4. notes' \subseteq Kinds \X Audits
    BY <2>1, <2>2 DEF Kinds
  <2>5. /\ status' \in [Audits -> Statuses]
        /\ total' \in [Audits -> Nat]
        /\ progress' \in [Audits -> Nat]
    BY <2>1 DEF Statuses
  <2>6. /\ size' \in [Workers -> Nat]
        /\ todo' \in [Workers -> SUBSET Convs]
        /\ cur' \in [Workers -> Convs \cup {None}]
        /\ fresh' \in [Workers -> BOOLEAN]
        /\ inserted' \in [Workers -> BOOLEAN]
        /\ processed' \in [Workers -> Nat]
        /\ alarms' \in [Workers -> Nat]
    BY DEF EndRun, CloseTxn
  <2>7. pc' \in [Workers -> Steps] /\ Placed'
    BY <2>1, <2>6 DEF EndRun, CloseTxn
  <2>8. QED
    BY <2>3, <2>4, <2>5, <2>6, <2>7 DEF convRow
<1>9. CASE RunRaises(w)
  BY <1>9 DEF RunRaises, CanRaise, Running, EndRun, CloseTxn, auditRow, convRow
<1>10. CASE MarkFailed(w)
  BY <1>10 DEF MarkFailed, FailedStatus, Statuses, convRow, run
<1>11. CASE MarkFailedRaises(w)
  BY <1>11 DEF MarkFailedRaises, auditRow, convRow, run
<1>12. CASE Acknowledge(w)
  BY <1>12 DEF Acknowledge, auditRow, convRow
<1>13. QED
  BY <1>1, <1>2, <1>3, <1>4, <1>5, <1>6, <1>7, <1>8, <1>9, <1>10, <1>11,
     <1>12 DEF WorkerStep

LEMMA StutterTyped == Typed /\ UNCHANGED vars => Typed'
BY DEF Typed, TypeOK, Placed, vars, auditRow, convRow, faults, run

LEMMA AlwaysTyped == Spec => []Typed
<1>1. Typed /\ [Next]_vars => Typed'
  BY ApiTyped, BrokerTyped, WorkerTyped, StutterTyped DEF Next
<1>2. QED
  BY <1>1, InitTyped, PTL DEF Spec

\* The type invariant, for every instance and under every fault.
THEOREM TypeCorrect == Spec => []TypeOK
<1>1. Typed => TypeOK
  BY DEF Typed
<1>2. QED
  BY <1>1, AlwaysTyped, PTL

-----------------------------------------------------------------------------
(* Safety under every fault.                                               *)

IInv ==
  /\ Typed
  /\ Strengthening
  /\ EvaluatedTogether
  /\ VerdictsHaveEvaluation
  /\ ActiveMeansJudged

LEMMA InitIInv == Init => IInv
<1>1. Init => Strengthening
  BY DEF Init, Strengthening, RequestsClose, RunsAreCommitted,
         TransactionsInsert, RunsCover, FlaggedAreDeleted, InTxn
<1>2. Init => EvaluatedTogether /\ VerdictsHaveEvaluation /\ ActiveMeansJudged
  BY DEF Init, EvaluatedTogether, VerdictsHaveEvaluation, ActiveMeansJudged
<1>3. QED
  BY <1>1, <1>2, InitTyped DEF IInv

\* What a step that leaves the rows of the conversations alone has to show.
LEMMA RowsUnchanged ==
  ASSUME EvaluatedTogether, VerdictsHaveEvaluation, FlaggedAreDeleted,
         UNCHANGED convRow
  PROVE  EvaluatedTogether' /\ VerdictsHaveEvaluation' /\ FlaggedAreDeleted'
BY DEF EvaluatedTogether, VerdictsHaveEvaluation, FlaggedAreDeleted, convRow

LEMMA ApiIInv == IInv /\ ApiStep => IInv'
<1> SUFFICES ASSUME IInv, ApiStep PROVE IInv'
  OBVIOUS
<1> USE DEF IInv, Strengthening
<1> DEFINE Rest == /\ Strengthening'
                   /\ EvaluatedTogether'
                   /\ VerdictsHaveEvaluation'
                   /\ ActiveMeansJudged'
<1>1. ASSUME NEW a \in Audits, CreateAudit(a) PROVE Rest
  <2> USE <1>1 DEF CreateAudit
  <2>1. EvaluatedTogether' /\ VerdictsHaveEvaluation' /\ FlaggedAreDeleted'
    BY RowsUnchanged
  <2>2. RequestsClose'
    <3>1. PICK chosen \in (SUBSET (Convs \ deleted)) \ {{}} :
            links' = [links EXCEPT ![a] = chosen]
      OBVIOUS
    <3>2. links'[a] # {} /\ \A b \in Audits : b # a => links'[b] = links[b]
      BY <3>1 DEF Typed, TypeOK
    <3>3. QED
      BY <3>2 DEF RequestsClose, Typed, TypeOK
  <2>3. TransactionsInsert'
    BY DEF TransactionsInsert, convRow, run
  <2>4. RunsAreCommitted'
    BY DEF RunsAreCommitted, run
  <2>5. \A b \in Audits : status[b] # "absent" => links'[b] = links[b]
    BY DEF RequestsClose, Typed, TypeOK
  <2>6. RunsCover'
    BY <2>5 DEF RunsCover, RunsAreCommitted, Typed, Placed, InTxn, convRow, run
  <2>7. ActiveMeansJudged'
    BY <2>5 DEF ActiveMeansJudged, convRow
  <2>8. QED
    BY <2>1, <2>2, <2>3, <2>4, <2>6, <2>7
<1>2. ASSUME NEW a \in Audits, CommitAudit(a) PROVE Rest
  <2> USE <1>2 DEF CommitAudit
  <2>1. EvaluatedTogether' /\ VerdictsHaveEvaluation' /\ FlaggedAreDeleted'
    BY RowsUnchanged
  <2>2. RequestsClose'
    BY DEF RequestsClose, Typed, TypeOK
  <2>3. TransactionsInsert' /\ RunsCover'
    BY DEF TransactionsInsert, RunsCover, convRow, run
  <2>4. RunsAreCommitted'
    BY DEF RunsAreCommitted, run, Typed, TypeOK
  <2>5. ActiveMeansJudged'
    BY DEF ActiveMeansJudged, convRow, Typed, TypeOK
  <2>6. QED
    BY <2>1, <2>2, <2>3, <2>4, <2>5
<1>3. ASSUME NEW a \in Audits, RollBackAudit(a) PROVE Rest
  <2> USE <1>3 DEF RollBackAudit
  <2>1. EvaluatedTogether' /\ VerdictsHaveEvaluation' /\ FlaggedAreDeleted'
    BY RowsUnchanged
  <2>2. RequestsClose'
    BY DEF RequestsClose, Typed, TypeOK
  <2>3. TransactionsInsert' /\ RunsAreCommitted'
    BY DEF TransactionsInsert, RunsAreCommitted, convRow, run
  <2>4. RunsCover' /\ ActiveMeansJudged'
    BY DEF RunsCover, ActiveMeansJudged, Typed, TypeOK, convRow, run
  <2>5. QED
    BY <2>1, <2>2, <2>3, <2>4
<1>4. ASSUME NEW c \in Convs, DeleteConversation(c) PROVE Rest
  <2> USE <1>4 DEF DeleteConversation
  <2>1. EvaluatedTogether' /\ VerdictsHaveEvaluation' /\ FlaggedAreDeleted'
    BY DEF EvaluatedTogether, VerdictsHaveEvaluation, FlaggedAreDeleted
  <2>2. RequestsClose'
    BY DEF RequestsClose, Typed, TypeOK
  <2>3. TransactionsInsert' /\ RunsAreCommitted'
    BY DEF TransactionsInsert, RunsAreCommitted, run
  <2>4. \A a \in Audits, d \in Convs :
          d \in links'[a] /\ status[a] # "absent" => d \in links[a] /\ d # c
    BY DEF Typed, TypeOK
  <2>5. \A a \in Audits, d \in Convs :
          d # c /\ <<a, d>> \in verdicts => <<a, d>> \in verdicts'
    OBVIOUS
  <2>6. ActiveMeansJudged'
    BY <2>4, <2>5 DEF ActiveMeansJudged, Typed, TypeOK
  <2>7. RunsCover'
    <3> SUFFICES ASSUME NEW w \in Workers, pc[w] \in {"loop"} \cup InTxn,
                        NEW d \in links'[job[w]]
                 PROVE  \/ d \in todo[w]
                        \/ pc[w] \in InTxn /\ d = cur[w]
                        \/ <<job[w], d>> \in verdicts'
                        \/ d \in deleted'
      BY DEF RunsCover, run
    <3>1. job[w] \in Audits /\ status[job[w]] # "absent"
      BY DEF RunsAreCommitted, Typed, Placed, InTxn
    <3>2. d \in Convs /\ d \in links[job[w]] /\ d # c
      BY <3>1, <2>4 DEF Typed, TypeOK
    <3>3. QED
      BY <3>1, <3>2, <2>5 DEF RunsCover
  <2>8. QED
    BY <2>1, <2>2, <2>3, <2>6, <2>7
<1>5. ASSUME NEW present \in BOOLEAN, SetLlmKey(present) PROVE Rest
  <2> USE <1>5 DEF SetLlmKey
  <2>1. EvaluatedTogether' /\ VerdictsHaveEvaluation' /\ FlaggedAreDeleted'
    BY RowsUnchanged
  <2>2. Strengthening' /\ ActiveMeansJudged'
    BY <2>1 DEF RequestsClose, RunsAreCommitted, TransactionsInsert, RunsCover,
           ActiveMeansJudged, auditRow, convRow, run
  <2>3. QED
    BY <2>1, <2>2
<1>6. Rest
  BY <1>1, <1>2, <1>3, <1>4, <1>5 DEF ApiStep
<1>7. QED
  BY <1>6, ApiTyped

\* A step that touches neither rows nor audits, and after which no worker but w
\* is elsewhere than it was.
LEMMA OneWorkerMoves ==
  ASSUME IInv, NEW w \in Workers,
         UNCHANGED <<request, auditRow, convRow>>,
         \A v \in Workers \ {w} :
            /\ pc'[v] = pc[v]
            /\ job'[v] = job[v]
            /\ todo'[v] = todo[v]
            /\ cur'[v] = cur[v]
            /\ fresh'[v] = fresh[v]
            /\ inserted'[v] = inserted[v],
         \* what w has to show of itself
         pc'[w] \in {"loop"} \cup InTxn => status[job'[w]] # "absent",
         inserted'[w] =>
            /\ pc'[w] = "judge" /\ fresh'[w] /\ evalBy[cur'[w]] = None
            /\ \A v \in Workers \ {w} : inserted[v] => cur[v] # cur'[w],
         pc'[w] = "evaluate" => fresh'[w],
         pc'[w] = "judge" => inserted'[w] \/ evalBy[cur'[w]] # None,
         pc'[w] \in {"loop"} \cup InTxn =>
            \A c \in links[job'[w]] :
               \/ c \in todo'[w]
               \/ pc'[w] \in InTxn /\ c = cur'[w]
               \/ <<job'[w], c>> \in verdicts
               \/ c \in deleted
  PROVE  /\ Strengthening'
         /\ EvaluatedTogether'
         /\ VerdictsHaveEvaluation'
         /\ ActiveMeansJudged'
<1> USE DEF IInv, Strengthening
<1>1. EvaluatedTogether' /\ VerdictsHaveEvaluation' /\ FlaggedAreDeleted'
  BY RowsUnchanged
<1>2. RequestsClose' /\ ActiveMeansJudged'
  BY DEF RequestsClose, ActiveMeansJudged, auditRow, convRow
<1>3. RunsAreCommitted'
  BY DEF RunsAreCommitted, auditRow
<1>4. TransactionsInsert'
  BY DEF TransactionsInsert, convRow
<1>5. RunsCover'
  BY DEF RunsCover, auditRow, convRow
<1>6. QED
  BY <1>1, <1>2, <1>3, <1>4, <1>5

LEMMA BrokerIInv == IInv /\ BrokerStep => IInv'
<1> SUFFICES ASSUME IInv, BrokerStep PROVE IInv'
  OBVIOUS
<1> DEFINE Rest == /\ Strengthening'
                   /\ EvaluatedTogether'
                   /\ VerdictsHaveEvaluation'
                   /\ ActiveMeansJudged'
<1> USE DEF IInv, Strengthening, Typed, TypeOK, InTxn, Steps
<1>1. ASSUME NEW w \in Workers, NEW a \in Audits, Receive(w, a) PROVE Rest
  BY <1>1, OneWorkerMoves DEF Receive, TransactionsInsert
<1>2. ASSUME NEW w \in Workers, Crash(w) PROVE Rest
  BY <1>2, OneWorkerMoves DEF Crash, EndRun, CloseTxn
<1>3. ASSUME NEW w \in Workers, Redeliver(w) PROVE Rest
  BY <1>3, OneWorkerMoves DEF Redeliver, RunsAreCommitted, TransactionsInsert,
                              RunsCover
<1>4. Rest
  BY <1>1, <1>2, <1>3 DEF BrokerStep
<1>5. QED
  BY <1>4, BrokerTyped

LEMMA CommitIInv ==
  ASSUME IInv, NEW w \in Workers, CommitConversation(w)
  PROVE  /\ Strengthening'
         /\ EvaluatedTogether'
         /\ VerdictsHaveEvaluation'
         /\ ActiveMeansJudged'
<1> DEFINE a == job[w]
           c == cur[w]
<1> USE DEF IInv, Strengthening, CommitConversation, CloseTxn
<1>1. a \in Audits /\ c \in Convs /\ a # None
  BY DEF Typed, Placed, InTxn
<1>2. \A d \in Convs :
        evalBy'[d] = IF d = c /\ inserted[w] THEN a ELSE evalBy[d]
  BY <1>1 DEF Typed, TypeOK
<1>3. evalBy'[c] # None /\ \A d \in Convs : evalBy[d] # None => evalBy'[d] # None
  BY <1>1, <1>2 DEF TransactionsInsert
<1>4. EvaluatedTogether'
  <2> SUFFICES ASSUME NEW d \in Convs, evalBy'[d] # None
               PROVE  rubricBy'[d] # None /\ counted'[d] >= 1
    BY DEF EvaluatedTogether
  <2>1. CASE evalBy[d] # None
    <3>1. rubricBy[d] # None /\ counted[d] \in Nat /\ counted[d] >= 1
      BY <2>1 DEF EvaluatedTogether, Typed, TypeOK
    <3>2. rubricBy'[d] \in {a, rubricBy[d]} /\ counted'[d] \in {counted[d], counted[d] + 1}
      BY <1>1 DEF WritesRubric, AddsReputation, Typed, TypeOK
    <3>3. QED
      BY <1>1, <3>1, <3>2
  <2>2. CASE evalBy[d] = None
    <3>1. d = c /\ inserted[w]
      BY <1>2, <2>2
    <3>2. fresh[w]
      BY <3>1 DEF TransactionsInsert
    <3>3. rubricBy'[d] = a /\ counted'[d] = counted[d] + 1 /\ counted[d] \in Nat
      BY <1>1, <3>1, <3>2 DEF WritesRubric, AddsReputation, Typed, TypeOK
    <3>4. QED
      BY <1>1, <3>3
  <2>3. QED
    BY <2>1, <2>2
<1>5. VerdictsHaveEvaluation'
  <2>1. \A v \in verdicts : v[2] \in Convs
    BY DEF Typed, TypeOK
  <2>2. QED
    BY <1>3, <2>1 DEF VerdictsHaveEvaluation
<1>6. RequestsClose' /\ ActiveMeansJudged'
  BY DEF RequestsClose, ActiveMeansJudged
<1>7. RunsAreCommitted'
  BY DEF RunsAreCommitted, InTxn, Typed, TypeOK
<1>8. TransactionsInsert'
  <2> SUFFICES ASSUME NEW v \in Workers
      PROVE /\ inserted'[v] => pc'[v] = "judge" /\ fresh'[v] /\ evalBy'[cur'[v]] = None
            /\ pc'[v] = "evaluate" => fresh'[v]
            /\ pc'[v] = "judge" => inserted'[v] \/ evalBy'[cur'[v]] # None
            /\ \A u \in Workers : inserted'[v] /\ inserted'[u] /\ u # v
                                  => cur'[v] # cur'[u]
    BY DEF TransactionsInsert
  <2>1. CASE v = w
    BY <2>1 DEF Typed, TypeOK
  <2>2. CASE v # w
    <3>1. /\ pc'[v] = pc[v] /\ cur'[v] = cur[v]
          /\ fresh'[v] = fresh[v] /\ inserted'[v] = inserted[v]
      BY <2>2 DEF Typed, TypeOK
    <3>2. pc[v] = "judge" => cur[v] \in Convs
      BY DEF Typed, Placed, InTxn
    <3>3. inserted[v] => evalBy'[cur[v]] = None
      BY <1>2, <2>2, <3>2 DEF TransactionsInsert
    <3>4. pc[v] = "judge" => inserted[v] \/ evalBy'[cur[v]] # None
      BY <1>3, <3>2 DEF TransactionsInsert
    <3>5. \A u \in Workers : inserted[v] /\ inserted'[u] /\ u # v
                               => cur[v] # cur'[u]
      BY DEF TransactionsInsert, Typed, TypeOK
    <3>6. QED
      BY <3>1, <3>3, <3>4, <3>5 DEF TransactionsInsert
  <2>3. QED
    BY <2>1, <2>2
<1>9. FlaggedAreDeleted'
  <2>1. \A v \in flagged : v[2] \in Convs
    BY DEF Typed, TypeOK
  <2>2. QED
    BY <1>3, <2>1 DEF FlaggedAreDeleted
<1>10. RunsCover'
  <2>1. <<a, c>> \in verdicts' \/ c \in deleted
    BY DEF FlaggedAreDeleted
  <2>2. QED
    BY <1>1, <2>1 DEF RunsCover, InTxn, Typed, TypeOK
<1>11. QED
  BY <1>4, <1>5, <1>6, <1>7, <1>8, <1>9, <1>10

LEMMA FinishIInv ==
  ASSUME IInv, NEW w \in Workers, FinishAudit(w)
  PROVE  /\ Strengthening'
         /\ EvaluatedTogether'
         /\ VerdictsHaveEvaluation'
         /\ ActiveMeansJudged'
<1> USE DEF IInv, Strengthening, FinishAudit, EndRun, CloseTxn
<1>1. EvaluatedTogether' /\ VerdictsHaveEvaluation' /\ FlaggedAreDeleted'
  BY RowsUnchanged
<1>2. job[w] \in Audits /\ status[job[w]] # "absent"
  BY DEF RunsAreCommitted, Typed, Placed
<1>3. RequestsClose'
  BY <1>2 DEF RequestsClose, Typed, TypeOK
<1>4. \A c \in links[job[w]] : <<job[w], c>> \in verdicts \/ c \in deleted
  BY DEF RunsCover, InTxn
<1>5. ActiveMeansJudged'
  BY <1>4 DEF ActiveMeansJudged, convRow, Typed, TypeOK
<1>6. RunsAreCommitted' /\ RunsCover'
  BY DEF RunsAreCommitted, RunsCover, InTxn, convRow, Typed, TypeOK
<1>7. TransactionsInsert'
  BY DEF TransactionsInsert, convRow, Typed, TypeOK
<1>8. QED
  BY <1>1, <1>3, <1>5, <1>6, <1>7

LEMMA MarkFailedIInv ==
  ASSUME IInv, NEW w \in Workers, MarkFailed(w)
  PROVE  /\ Strengthening'
         /\ EvaluatedTogether'
         /\ VerdictsHaveEvaluation'
         /\ ActiveMeansJudged'
<1> USE DEF IInv, Strengthening, MarkFailed, FailedStatus
<1>1. EvaluatedTogether' /\ VerdictsHaveEvaluation' /\ FlaggedAreDeleted'
  BY RowsUnchanged
<1>2. RequestsClose'
  BY DEF RequestsClose, Typed, TypeOK
<1>3. ActiveMeansJudged'
  BY DEF ActiveMeansJudged, convRow, Typed, TypeOK
<1>4. RunsAreCommitted' /\ RunsCover'
  BY DEF RunsAreCommitted, RunsCover, InTxn, convRow, run, Typed, TypeOK
<1>5. TransactionsInsert'
  BY DEF TransactionsInsert, convRow, run, Typed, TypeOK
<1>6. QED
  BY <1>1, <1>2, <1>3, <1>4, <1>5

LEMMA WorkerIInv ==
  ASSUME IInv, NEW w \in Workers, WorkerStep(w)
  PROVE  IInv'
<1> DEFINE Rest == /\ Strengthening'
                   /\ EvaluatedTogether'
                   /\ VerdictsHaveEvaluation'
                   /\ ActiveMeansJudged'
<1> USE DEF IInv, Strengthening, Typed, TypeOK, InTxn
<1>1. ASSUME LoadAudit(w) PROVE Rest
  BY <1>1, OneWorkerMoves DEF LoadAudit, ConvIds, TransactionsInsert
<1>2. ASSUME LoadFails(w) PROVE Rest
  BY <1>2, OneWorkerMoves DEF LoadFails, TransactionsInsert, run
<1>3. ASSUME NEW c \in Convs, SkipConversation(w, c) PROVE Rest
  <2>1. \A d \in links[job[w]] \cap Convs :
          d \in todo'[w] \/ <<job[w], d>> \in verdicts \/ d \in deleted
    BY <1>3 DEF SkipConversation, RunsCover
  <2>2. links[job[w]] \subseteq Convs
    BY <1>3 DEF SkipConversation, Placed
  <2>3. QED
    BY <1>3, <2>1, <2>2, OneWorkerMoves
       DEF SkipConversation, TransactionsInsert, RunsAreCommitted
<1>4. ASSUME NEW c \in Convs, OpenConversation(w, c) PROVE Rest
  BY <1>4, OneWorkerMoves DEF OpenConversation, TransactionsInsert,
                              RunsAreCommitted, RunsCover
<1>5. ASSUME CheckEvaluation(w) PROVE Rest
  BY <1>5, OneWorkerMoves DEF CheckEvaluation, NoEvaluation, TransactionsInsert,
                              RunsAreCommitted, RunsCover
<1>6. ASSUME InsertEvaluation(w) PROVE Rest
  BY <1>6, OneWorkerMoves DEF InsertEvaluation, InsertAddsRow, KeyIsFree,
                              TransactionsInsert, RunsAreCommitted, RunsCover
<1>7. ASSUME CommitConversation(w) PROVE Rest
  BY <1>7, CommitIInv
<1>8. ASSUME FinishAudit(w) PROVE Rest
  BY <1>8, FinishIInv
<1>9. ASSUME RunRaises(w) PROVE Rest
  BY <1>9, OneWorkerMoves DEF RunRaises, EndRun, CloseTxn
<1>10. ASSUME MarkFailed(w) PROVE Rest
  BY <1>10, MarkFailedIInv
<1>11. ASSUME MarkFailedRaises(w) PROVE Rest
  BY <1>11, OneWorkerMoves DEF MarkFailedRaises, TransactionsInsert, run
<1>12. ASSUME Acknowledge(w) PROVE Rest
  BY <1>12, OneWorkerMoves DEF Acknowledge, TransactionsInsert
<1>13. Rest
  BY <1>1, <1>2, <1>3, <1>4, <1>5, <1>6, <1>7, <1>8, <1>9, <1>10, <1>11,
     <1>12 DEF WorkerStep
<1>14. QED
  BY <1>13, WorkerTyped

LEMMA StutterIInv == IInv /\ UNCHANGED vars => IInv'
<1> SUFFICES ASSUME IInv, UNCHANGED vars PROVE IInv'
  OBVIOUS
<1>1. EvaluatedTogether' /\ VerdictsHaveEvaluation' /\ FlaggedAreDeleted'
  BY RowsUnchanged DEF IInv, Strengthening, vars, convRow
<1>2. Strengthening' /\ ActiveMeansJudged'
  BY <1>1 DEF IInv, Strengthening, RequestsClose, RunsAreCommitted,
         TransactionsInsert, RunsCover, ActiveMeansJudged, vars, auditRow,
         convRow, run
<1>3. QED
  BY <1>1, <1>2, StutterTyped DEF IInv

LEMMA AlwaysIInv == Spec => []IInv
<1>1. IInv /\ [Next]_vars => IInv'
  BY ApiIInv, BrokerIInv, WorkerIInv, StutterIInv DEF Next
<1>2. QED
  BY <1>1, InitIInv, PTL DEF Spec

\* A published report covers its conversations, under every fault.
THEOREM ReportsCover == Spec => []ActiveMeansJudged
<1>1. IInv => ActiveMeansJudged
  BY DEF IInv
<1>2. QED
  BY <1>1, AlwaysIInv, PTL

\* No conversation is ever half evaluated, under every fault.
THEOREM NoHalfEvaluation == Spec => []EvaluatedTogether
<1>1. IInv => EvaluatedTogether
  BY DEF IInv
<1>2. QED
  BY <1>1, AlwaysIInv, PTL

\* A run that skips an evaluation "already present" skips a committed one.
THEOREM SkippingIsSafe == Spec => []VerdictsHaveEvaluation
<1>1. IInv => VerdictsHaveEvaluation
  BY DEF IInv
<1>2. QED
  BY <1>1, AlwaysIInv, PTL

-----------------------------------------------------------------------------
(* Nothing is counted twice where no two runs found no evaluation.         *)

Alone == OverlapsAreSeen /\ AloneIsFirst /\ HiddenAreDeleted
Counts == CountedIffEvaluated /\ RubricBelongsToEvaluation

LEMMA InitCounts == Init => Alone /\ Counts
BY DEF Init, Alone, Counts, OverlapsAreSeen, AloneIsFirst, HiddenAreDeleted,
       CountedIffEvaluated, RubricBelongsToEvaluation, Undisturbed, InTxn

\* What was disturbed stays so.
LEMMA DisturbedStays == IInv /\ [Next]_vars => Undisturbed' \subseteq Undisturbed
<1> SUFFICES ASSUME IInv, [Next]_vars
             PROVE  raced \subseteq raced' /\ deleted \subseteq deleted'
  BY DEF Undisturbed
<1>1. CASE ApiStep
  BY <1>1 DEF ApiStep, CreateAudit, CommitAudit, RollBackAudit,
     DeleteConversation, SetLlmKey, convRow, faults
<1>2. CASE BrokerStep
  BY <1>2 DEF BrokerStep, Receive, Crash, Redeliver, convRow, faults
<1>3. ASSUME NEW w \in Workers, WorkerStep(w)
      PROVE  raced \subseteq raced' /\ deleted \subseteq deleted'
  BY <1>3 DEF WorkerStep, LoadAudit, LoadFails, SkipConversation,
     OpenConversation, CheckEvaluation, InsertEvaluation, CommitConversation,
     FinishAudit, RunRaises, MarkFailed, MarkFailedRaises, Acknowledge,
     convRow, faults
<1>4. CASE UNCHANGED vars
  BY <1>4 DEF vars, convRow, faults
<1>5. QED
  BY <1>1, <1>2, <1>3, <1>4 DEF Next

\* Only the commit of a conversation touches what is counted.
LEMMA CountsUnchanged ==
  ASSUME Counts, Undisturbed' \subseteq Undisturbed,
         UNCHANGED <<evalBy, rubricBy, counted>>
  PROVE  Counts'
BY DEF Counts, CountedIffEvaluated, RubricBelongsToEvaluation

\* A worker that keeps or closes its transaction, the others staying as they are.
LEMMA OneWorkerAlone ==
  ASSUME IInv, Alone, Undisturbed' \subseteq Undisturbed, NEW w \in Workers,
         UNCHANGED <<evalBy, hidden, deleted>>, raced \subseteq raced',
         \A v \in Workers \ {w} :
            /\ pc'[v] = pc[v]
            /\ cur'[v] = cur[v]
            /\ fresh'[v] = fresh[v]
            /\ inserted'[v] = inserted[v],
         pc'[w] \in {"evaluate", "judge"} /\ fresh'[w] =>
           pc[w] \in {"evaluate", "judge"} /\ fresh[w] /\ cur'[w] = cur[w],
         pc'[w] \in {"evaluate", "judge"} /\ fresh'[w] /\ cur'[w] \in Undisturbed' =>
           evalBy[cur'[w]] = None /\ (pc'[w] = "judge" => inserted'[w])
  PROVE  Alone'
<1>1. OverlapsAreSeen'
  BY DEF Alone, OverlapsAreSeen
<1>2. AloneIsFirst'
  BY DEF Alone, AloneIsFirst
<1>3. HiddenAreDeleted'
  BY DEF Alone, HiddenAreDeleted
<1>4. QED
  BY <1>1, <1>2, <1>3 DEF Alone

\* A step that moves no worker.
LEMMA NobodyMoves ==
  ASSUME Alone, Undisturbed' \subseteq Undisturbed,
         UNCHANGED <<evalBy, pc, cur, fresh, inserted>>,
         raced \subseteq raced', hidden' \subseteq deleted'
  PROVE  Alone'
<1>1. OverlapsAreSeen'
  BY DEF Alone, OverlapsAreSeen
<1>2. AloneIsFirst'
  BY DEF Alone, AloneIsFirst
<1>3. QED
  BY <1>1, <1>2 DEF Alone, HiddenAreDeleted

LEMMA ApiAlone ==
  ASSUME IInv, Alone, Undisturbed' \subseteq Undisturbed, ApiStep
  PROVE  Alone' /\ UNCHANGED <<evalBy, rubricBy, counted>>
<1> USE DEF convRow, faults, run, Alone, HiddenAreDeleted
<1>1. ASSUME NEW c \in Convs, DeleteConversation(c)
      PROVE  Alone' /\ UNCHANGED <<evalBy, rubricBy, counted>>
  BY <1>1, NobodyMoves DEF DeleteConversation
<1>2. ASSUME NEW a \in Audits, CreateAudit(a) \/ CommitAudit(a) \/ RollBackAudit(a)
      PROVE  Alone' /\ UNCHANGED <<evalBy, rubricBy, counted>>
  BY <1>2, NobodyMoves DEF CreateAudit, CommitAudit, RollBackAudit
<1>3. ASSUME NEW present \in BOOLEAN, SetLlmKey(present)
      PROVE  Alone' /\ UNCHANGED <<evalBy, rubricBy, counted>>
  BY <1>3, NobodyMoves DEF SetLlmKey
<1>4. QED
  BY <1>1, <1>2, <1>3 DEF ApiStep

LEMMA BrokerAlone ==
  ASSUME IInv, Alone, Undisturbed' \subseteq Undisturbed, BrokerStep
  PROVE  Alone' /\ UNCHANGED <<evalBy, rubricBy, counted>>
<1> USE DEF IInv, Typed, TypeOK, convRow, faults, InTxn
<1>1. ASSUME NEW w \in Workers, NEW a \in Audits, Receive(w, a)
      PROVE  Alone' /\ UNCHANGED <<evalBy, rubricBy, counted>>
  BY <1>1, OneWorkerAlone DEF Receive
<1>2. ASSUME NEW w \in Workers, Crash(w)
      PROVE  Alone' /\ UNCHANGED <<evalBy, rubricBy, counted>>
  BY <1>2, OneWorkerAlone DEF Crash, EndRun, CloseTxn
<1>3. ASSUME NEW w \in Workers, Redeliver(w)
      PROVE  Alone' /\ UNCHANGED <<evalBy, rubricBy, counted>>
  BY <1>3, NobodyMoves DEF Redeliver, Alone, HiddenAreDeleted
<1>4. QED
  BY <1>1, <1>2, <1>3 DEF BrokerStep

LEMMA WorkerAlone ==
  ASSUME IInv, Alone, Undisturbed' \subseteq Undisturbed,
         NEW w \in Workers, WorkerStep(w), ~CommitConversation(w)
  PROVE  Alone' /\ UNCHANGED <<evalBy, rubricBy, counted>>
<1> DEFINE Goal == Alone' /\ UNCHANGED <<evalBy, rubricBy, counted>>
<1> USE DEF IInv, Typed, TypeOK, convRow, faults, InTxn
<1>1. CASE LoadAudit(w)
  BY <1>1, OneWorkerAlone DEF LoadAudit
<1>2. CASE LoadFails(w)
  BY <1>2, OneWorkerAlone DEF LoadFails, run
<1>3. ASSUME NEW c \in Convs, SkipConversation(w, c) PROVE Goal
  BY <1>3, NobodyMoves DEF SkipConversation, Alone, HiddenAreDeleted
<1>4. ASSUME NEW c \in Convs, OpenConversation(w, c) PROVE Goal
  <2> USE <1>4 DEF OpenConversation
  <2>1. OverlapsAreSeen'
    BY DEF Alone, OverlapsAreSeen
  <2>2. AloneIsFirst'
    BY DEF Alone, AloneIsFirst
  <2>3. QED
    BY <2>1, <2>2 DEF Alone, HiddenAreDeleted
<1>5. CASE CheckEvaluation(w)
  <2> USE <1>5 DEF CheckEvaluation
  <2>1. fresh'[w] /\ cur'[w] \in Undisturbed' => evalBy[cur'[w]] = None
    BY DEF NoEvaluation, Undisturbed, Alone, HiddenAreDeleted
  <2>2. pc'[w] = "judge" => ~fresh'[w]
    OBVIOUS
  <2>3. AloneIsFirst'
    BY <2>1, <2>2 DEF Alone, AloneIsFirst
  <2>4. fresh'[w] => \A v \in Workers \ {w} : cur[v] = cur[w] /\ fresh[v] => cur[w] \in raced'
    OBVIOUS
  <2>5. OverlapsAreSeen'
    BY <2>4 DEF Alone, OverlapsAreSeen
  <2>6. QED
    BY <2>3, <2>5 DEF Alone, HiddenAreDeleted
<1>6. CASE InsertEvaluation(w)
  <2> USE <1>6 DEF InsertEvaluation
  <2>1. cur[w] \in Undisturbed => evalBy[cur[w]] = None
    BY DEF Alone, AloneIsFirst, Strengthening, TransactionsInsert
  <2>2. inserted'[w] = (evalBy[cur[w]] = None)
    BY DEF InsertAddsRow
  <2>3. QED
    BY <2>1, <2>2, OneWorkerAlone
<1>7. CASE FinishAudit(w)
  BY <1>7, OneWorkerAlone DEF FinishAudit, EndRun, CloseTxn
<1>8. CASE RunRaises(w)
  BY <1>8, OneWorkerAlone DEF RunRaises, EndRun, CloseTxn
<1>9. CASE MarkFailed(w) \/ MarkFailedRaises(w)
  BY <1>9, OneWorkerAlone DEF MarkFailed, MarkFailedRaises, run
<1>10. CASE Acknowledge(w)
  BY <1>10, OneWorkerAlone DEF Acknowledge
<1>11. QED
  BY <1>1, <1>2, <1>3, <1>4, <1>5, <1>6, <1>7, <1>8, <1>9, <1>10 DEF WorkerStep

LEMMA CommitCounts ==
  ASSUME IInv, Alone, Counts, NEW w \in Workers, CommitConversation(w)
  PROVE  Alone' /\ Counts'
<1> DEFINE a == job[w]
           c == cur[w]
<1> USE DEF CommitConversation, CloseTxn, IInv, Typed, TypeOK, Placed, InTxn
<1>1. a \in Audits /\ c \in Convs
  OBVIOUS
<1>2. UNCHANGED <<raced, deleted, hidden>> /\ Undisturbed' = Undisturbed
  BY DEF faults, Undisturbed
<1>3. \A d \in Convs : d # c => /\ evalBy'[d] = evalBy[d]
                                /\ rubricBy'[d] = rubricBy[d]
                              /\ counted'[d] = counted[d]
  OBVIOUS
<1>4. /\ OverlapsAreSeen'
      /\ HiddenAreDeleted'
  <2>1. \A v \in Workers : pc'[v] \in {"evaluate", "judge"} =>
          pc'[v] = pc[v] /\ cur'[v] = cur[v] /\ fresh'[v] = fresh[v]
    OBVIOUS
  <2>2. OverlapsAreSeen'
    BY <1>2, <2>1 DEF Alone, OverlapsAreSeen
  <2>3. QED
    BY <1>2, <2>2 DEF Alone, HiddenAreDeleted
<1>5. AloneIsFirst'
  <2> SUFFICES ASSUME NEW v \in Workers, v # w, pc[v] \in {"evaluate", "judge"},
                      fresh[v], cur[v] \in Undisturbed
               PROVE  evalBy'[cur[v]] = None /\ (pc[v] = "judge" => inserted[v])
    BY <1>2 DEF AloneIsFirst
  <2>1. evalBy[cur[v]] = None
    BY DEF Alone, AloneIsFirst
  <2>2. cur[v] = c => fresh[w]
    BY <2>1 DEF Strengthening, TransactionsInsert
  <2>3. cur[v] # c
    BY <2>2 DEF Alone, OverlapsAreSeen, Undisturbed
  <2>4. QED
    BY <1>3, <2>3 DEF Alone, AloneIsFirst, Undisturbed
<1>6. CASE c \in Undisturbed /\ fresh[w]
  <2>1. evalBy[c] = None /\ inserted[w]
    BY <1>6 DEF Alone, AloneIsFirst
  <2>2. counted[c] = 0
    BY <1>6, <2>1 DEF Counts, CountedIffEvaluated
  <2>3. evalBy'[c] = a /\ rubricBy'[c] = a /\ counted'[c] = 1 /\ a # None
    BY <1>1, <1>6, <2>1, <2>2 DEF WritesRubric, AddsReputation
  <2>4. Counts'
    BY <1>2, <1>3, <2>3
       DEF Counts, CountedIffEvaluated, RubricBelongsToEvaluation, Undisturbed
  <2>5. QED
    BY <1>4, <1>5, <2>4 DEF Alone
<1>7. CASE ~(c \in Undisturbed /\ fresh[w])
  <2>1. c \in Undisturbed => ~inserted[w] /\ ~fresh[w]
    BY <1>7 DEF Strengthening, TransactionsInsert
  <2>2. c \in Undisturbed => /\ evalBy'[c] = evalBy[c]
                             /\ rubricBy'[c] = rubricBy[c]
                             /\ counted'[c] = counted[c]
    BY <1>1, <2>1 DEF WritesRubric, AddsReputation
  <2>3. Counts'
    BY <1>2, <1>3, <2>2
       DEF Counts, CountedIffEvaluated, RubricBelongsToEvaluation, Undisturbed
  <2>4. QED
    BY <1>4, <1>5, <2>3 DEF Alone
<1>8. QED
  BY <1>6, <1>7

LEMMA AlwaysCounts == Spec => [](Alone /\ Counts)
<1>1. IInv /\ Alone /\ Counts /\ [Next]_vars => (Alone /\ Counts)'
  <2> SUFFICES ASSUME IInv, Alone, Counts, [Next]_vars
               PROVE  Alone' /\ Counts'
    OBVIOUS
  <2>1. Undisturbed' \subseteq Undisturbed
    BY DisturbedStays
  <2>2. CASE UNCHANGED vars
    BY <2>1, <2>2, NobodyMoves, CountsUnchanged
       DEF vars, convRow, faults, run, Alone, HiddenAreDeleted
  <2>3. ASSUME NEW w \in Workers, WorkerStep(w) PROVE Alone' /\ Counts'
    BY <2>1, <2>3, CommitCounts, WorkerAlone, CountsUnchanged
  <2>4. CASE ApiStep \/ BrokerStep
    BY <2>1, <2>4, ApiAlone, BrokerAlone, CountsUnchanged
  <2>5. QED
    BY <2>2, <2>3, <2>4 DEF Next
<1>2. QED
  BY <1>1, InitCounts, AlwaysIInv, PTL DEF Spec

\* A conversation that no two runs found without an evaluation is counted once,
\* however many audits share it and however often their tasks are repeated.
THEOREM NothingCountedTwice == Spec => []CountedOnce
<1>1. Counts => CountedOnce
  BY DEF Counts, CountedIffEvaluated, CountedOnce
<1>2. QED
  BY <1>1, AlwaysCounts, PTL

\* Its rubric columns are those of the answer that its row holds.
THEOREM RubricIsOfItsRow == Spec => []RubricBelongsToEvaluation
<1>1. Counts => RubricBelongsToEvaluation
  BY DEF Counts
<1>2. QED
  BY <1>1, AlwaysCounts, PTL

-----------------------------------------------------------------------------
(* The first evaluation wins.                                              *)

\* No step of any actor replaces a committed evaluations row.
THEOREM EvaluationsAreFinal == Spec => FirstEvaluationWins
<1> DEFINE Kept == \A c \in Convs : evalBy[c] # None => evalBy'[c] = evalBy[c]
<1>1. ASSUME IInv, Next PROVE Kept
  <2>1. ASSUME NEW w \in Workers, CommitConversation(w) PROVE Kept
    BY <1>1, <2>1 DEF IInv, Strengthening, TransactionsInsert,
                      CommitConversation, Typed, TypeOK
  <2>2. ASSUME NEW w \in Workers, WorkerStep(w), ~CommitConversation(w)
        PROVE  UNCHANGED evalBy
    BY <2>2 DEF WorkerStep, LoadAudit, LoadFails, SkipConversation,
        OpenConversation, CheckEvaluation, InsertEvaluation, FinishAudit,
        RunRaises, MarkFailed, MarkFailedRaises, Acknowledge, convRow
  <2>3. ApiStep \/ BrokerStep => UNCHANGED evalBy
    BY DEF ApiStep, CreateAudit, CommitAudit, RollBackAudit, DeleteConversation,
           SetLlmKey, BrokerStep, Receive, Crash, Redeliver, convRow
  <2>4. QED
    BY <1>1, <2>1, <2>2, <2>3 DEF Next
<1>2. IInv /\ [Next]_vars => [Kept]_vars
  BY <1>1
<1>3. QED
  BY <1>2, AlwaysIInv, PTL DEF Spec, FirstEvaluationWins

-----------------------------------------------------------------------------
(* The audit contract.                                                     *)

LEMMA InitContract == Init => Contract!Init
BY DEF Init, Contract!Init, Owed

\* A step that changes none of what the contract speaks of.
LEMMA ContractStutters ==
  ASSUME UNCHANGED <<status, links, deleted, evalBy, verdicts>>
  PROVE  UNCHANGED Contract!contractVars
BY DEF Contract!contractVars, Owed

LEMMA ApiContract ==
  ASSUME IInv, ApiStep
  PROVE  [Contract!Next]_Contract!contractVars
<1> USE DEF IInv, Strengthening, RequestsClose, Typed, TypeOK
<1>1. ASSUME NEW a \in Audits, CreateAudit(a)
      PROVE  UNCHANGED Contract!contractVars
  <2>1. status[a] = "absent"
    BY <1>1 DEF CreateAudit
  <2>2. \A b \in Audits : b # a => links'[b] = links[b]
    BY <1>1 DEF CreateAudit
  <2>3. Owed' = Owed
    BY <1>1, <2>1, <2>2 DEF CreateAudit, Owed
  <2>4. QED
    BY <1>1, <2>3 DEF CreateAudit, convRow, Contract!contractVars
<1>2. ASSUME NEW a \in Audits, CommitAudit(a)
      PROVE  Contract!Next
  <2>1. status[a] = "absent" /\ links[a] \in (SUBSET Convs) \ {{}}
    BY <1>2 DEF CommitAudit
  <2>2. Owed' = [Owed EXCEPT ![a] = links[a]]
    BY <1>2, <2>1 DEF CommitAudit, Owed
  <2>3. Contract!Accept(a)
    BY <1>2, <2>1, <2>2 DEF CommitAudit, convRow, Contract!Accept
  <2>4. QED
    BY <2>3 DEF Contract!Next
<1>3. ASSUME NEW a \in Audits, RollBackAudit(a)
      PROVE  UNCHANGED Contract!contractVars
  <2>1. status[a] = "absent"
    BY <1>3 DEF RollBackAudit
  <2>2. Owed' = Owed
    BY <1>3, <2>1 DEF RollBackAudit, Owed
  <2>3. QED
    BY <1>3, <2>2 DEF RollBackAudit, convRow, Contract!contractVars
<1>4. ASSUME NEW c \in Convs, DeleteConversation(c)
      PROVE  Contract!Next
  <2>1. Owed' = [a \in Audits |-> Owed[a] \ {c}]
    BY <1>4 DEF DeleteConversation, Owed
  <2>2. Contract!Withdraw(c)
    BY <1>4, <2>1 DEF DeleteConversation, Contract!Withdraw
  <2>3. QED
    BY <2>2 DEF Contract!Next
<1>5. ASSUME NEW present \in BOOLEAN, SetLlmKey(present)
      PROVE  UNCHANGED Contract!contractVars
  BY <1>5, ContractStutters DEF SetLlmKey, auditRow, convRow
<1>6. QED
  BY <1>1, <1>2, <1>3, <1>4, <1>5 DEF ApiStep

LEMMA WorkerContract ==
  ASSUME IInv, NEW w \in Workers, WorkerStep(w)
  PROVE  [Contract!Next]_Contract!contractVars
<1> USE DEF IInv, Strengthening, Typed, TypeOK, Placed, InTxn
<1>1. ASSUME CommitConversation(w) PROVE [Contract!Next]_Contract!contractVars
  <2> DEFINE a == job[w]
             c == cur[w]
  <2> USE <1>1 DEF CommitConversation
  <2>1. a \in Audits /\ c \in Convs /\ status[a] # "absent"
    BY DEF RunsAreCommitted
  <2>2. evalBy' = [evalBy EXCEPT ![c] = IF @ = None THEN a ELSE @]
    BY <2>1 DEF TransactionsInsert
  <2>3. Owed' = Owed
    BY DEF Owed
  <2>4. CASE <<a, c>> \notin flagged
    <3>1. verdicts' = verdicts \cup {<<a, c>>}
      BY <2>4
    <3>2. UNCHANGED <<status, deleted>>
      BY DEF auditRow
    <3>3. Contract!Judge(a, c)
      BY <2>1, <2>2, <2>3, <3>1, <3>2 DEF Contract!Judge
    <3>4. QED
      BY <2>1, <3>3 DEF Contract!Next
  <2>5. CASE <<a, c>> \in flagged
    <3>1. evalBy[c] # None
      BY <2>5 DEF FlaggedAreDeleted
    <3>2. evalBy' = evalBy
      <4>1. evalBy' = [d \in Convs |-> evalBy[d]]
        BY <2>1, <2>2, <3>1
      <4>2. QED
        BY <4>1
    <3>3. verdicts' = verdicts
      <4>1. {<<a, c>>} \ flagged = {}
        BY <2>5
      <4>2. verdicts' = verdicts \cup ({<<a, c>>} \ flagged)
        OBVIOUS
      <4>3. QED
        BY <4>1, <4>2
    <3>4. QED
      BY <2>3, <3>2, <3>3 DEF Contract!contractVars
  <2>6. QED
    BY <2>4, <2>5
<1>2. ASSUME FinishAudit(w) PROVE Contract!Next
  <2> DEFINE a == job[w]
  <2> USE <1>2 DEF FinishAudit
  <2>1. a \in Audits /\ status[a] # "absent"
    BY DEF RunsAreCommitted
  <2>2. \A c \in Owed[a] : <<a, c>> \in verdicts \/ c \in deleted
    BY <2>1 DEF RunsCover, Owed
  <2>3. Owed' = Owed
    BY <2>1 DEF Owed
  <2>4. Contract!Publish(a)
    BY <2>1, <2>2, <2>3 DEF Contract!Publish, convRow
  <2>5. QED
    BY <2>1, <2>4 DEF Contract!Next
<1>3. ASSUME MarkFailed(w) PROVE [Contract!Next]_Contract!contractVars
  <2> USE <1>3 DEF MarkFailed, FailedStatus
  <2>1. job[w] \in Audits
    OBVIOUS
  <2>2. Owed' = Owed
    BY <2>1 DEF Owed, Statuses
  <2>3. CASE status[job[w]] = "absent"
    BY <2>1, <2>2, <2>3 DEF Contract!contractVars, convRow
  <2>4. CASE status[job[w]] # "absent"
    <3>1. Contract!Fail(job[w])
      BY <2>1, <2>2, <2>4 DEF Contract!Fail, convRow
    <3>2. QED
      BY <2>1, <3>1 DEF Contract!Next
  <2>5. QED
    BY <2>3, <2>4
<1>4. ASSUME ~CommitConversation(w), ~FinishAudit(w), ~MarkFailed(w)
      PROVE  UNCHANGED Contract!contractVars
  BY <1>4, ContractStutters
     DEF WorkerStep, LoadAudit, LoadFails, SkipConversation, OpenConversation,
         CheckEvaluation, InsertEvaluation, RunRaises, MarkFailedRaises,
         Acknowledge, auditRow, convRow
<1>5. QED
  BY <1>1, <1>2, <1>3, <1>4

\* Workers, broker and faults implement the audit contract.
THEOREM ContractHolds == Spec => ImplementsContract
<1>1. IInv /\ [Next]_vars => [Contract!Next]_Contract!contractVars
  <2> SUFFICES ASSUME IInv, [Next]_vars
               PROVE  [Contract!Next]_Contract!contractVars
    OBVIOUS
  <2>1. CASE BrokerStep
    BY <2>1, ContractStutters
       DEF BrokerStep, Receive, Crash, Redeliver, auditRow, convRow
  <2>2. CASE UNCHANGED vars
    BY <2>2, ContractStutters DEF vars, auditRow, convRow
  <2>3. QED
    BY <2>1, <2>2, ApiContract, WorkerContract DEF Next
<1>2. QED
  BY <1>1, InitContract, AlwaysIInv, PTL
     DEF Spec, ImplementsContract, Contract!Spec
-----------------------------------------------------------------------------
(***************************************************************************)
(* Until its task is delivered again an audit ends once, and what its run  *)
(* found critical is announced.  This rests on where the task of an audit  *)
(* is, which the invariants above do not speak of.                         *)
(***************************************************************************)

\* Until a delivery is repeated, the task of an audit is in one place: not yet
\* sent, in the broker, or with one worker, of whom the broker still knows.
OneDelivery ==
  /\ \A a \in Audits : Once(a) =>
       /\ queue[a] <= 1
       /\ request[a] = "new" => queue[a] = 0
  /\ \A w \in Workers : pc[w] # "idle" /\ Once(job[w]) =>
       /\ queue[job[w]] = 0
       /\ request[job[w]] # "new"
       /\ holds[w]
       /\ \A v \in Workers \ {w} : job[v] # job[w]

IdleHasNoJob == \A w \in Workers : pc[w] = "idle" => job[w] = None

\* So an audit whose task is still to run, or is running, has not ended.
RunsOnce ==
  /\ \A a \in Audits : Once(a) /\ queue[a] > 0 => ~Ended(a)
  /\ \A w \in Workers :
       pc[w] \in Running \cup {"failing"} /\ Once(job[w]) => ~Ended(job[w])

\* What an audit that has not ended left behind: nothing that its run found critical
\* is forgotten by that run.
NotAnnouncedYet ==
  /\ \A a \in Audits, c \in Convs :
       Once(a) /\ (request[a] = "new" \/ queue[a] > 0) => rubricBy[c] # a
  /\ \A w \in Workers, c \in Convs : Once(job[w]) =>
       /\ pc[w] = "load" => rubricBy[c] # job[w]
       /\ pc[w] \in {"loop"} \cup InTxn /\ rubricBy[c] = job[w] /\ critical[c] =>
            alarms[w] > 0

Delivery == OneDelivery /\ IdleHasNoJob /\ RunsOnce /\ NotAnnouncedYet
              /\ CriticalIsAnnounced

DInv == IInv /\ Delivery

USE AuditAssumption DEF Once

LEMMA InitDelivery == Init => Delivery
<1>1. Init => OneDelivery /\ IdleHasNoJob /\ RunsOnce
  BY DEF Init, OneDelivery, IdleHasNoJob, RunsOnce, Running, InTxn, Ended
<1>2. Init => NotAnnouncedYet /\ CriticalIsAnnounced
  BY DEF Init, NotAnnouncedYet, InTxn, CriticalIsAnnounced
<1>3. QED
  BY <1>1, <1>2 DEF Delivery

LEMMA ApiDelivery == DInv /\ ApiStep => Delivery'
<1> SUFFICES ASSUME DInv, ApiStep PROVE Delivery'
  OBVIOUS
<1> USE DEF DInv, Delivery, IInv, Typed, TypeOK, Placed, faults, run
<1>1. ASSUME NEW a \in Audits, CreateAudit(a) PROVE Delivery'
  <2> USE <1>1 DEF CreateAudit, convRow
  <2>1. status[a] = "absent"
    BY DEF Strengthening, RequestsClose
  <2>2. Once(a) => queue[a] = 0 /\ \A w \in Workers : job[w] # a
    <3>1. Once(a) => queue[a] = 0
      BY DEF OneDelivery
    <3>2. ASSUME Once(a), NEW w \in Workers PROVE job[w] # a
      <4>1. CASE pc[w] = "idle"
        BY <4>1 DEF IdleHasNoJob
      <4>2. CASE pc[w] # "idle"
        BY <3>2, <4>2 DEF OneDelivery
      <4>3. QED
        BY <4>1, <4>2
    <3>3. QED
      BY <3>1, <3>2
  <2>3. OneDelivery' /\ IdleHasNoJob'
    BY <2>2 DEF OneDelivery, IdleHasNoJob
  <2>4. RunsOnce'
    BY <2>1 DEF RunsOnce, Ended
  <2>5. NotAnnouncedYet' /\ CriticalIsAnnounced'
    BY DEF NotAnnouncedYet, CriticalIsAnnounced
  <2>6. QED
    BY <2>3, <2>4, <2>5
<1>2. ASSUME NEW a \in Audits, CommitAudit(a) PROVE Delivery'
  <2> USE <1>2 DEF CommitAudit, convRow
  <2>1. status[a] = "absent"
    BY DEF Strengthening, RequestsClose
  <2>2. OneDelivery' /\ IdleHasNoJob'
    BY DEF OneDelivery, IdleHasNoJob
  <2>3. RunsOnce'
    BY DEF RunsOnce, Ended
  <2>4. NotAnnouncedYet' /\ CriticalIsAnnounced'
    BY <2>1 DEF NotAnnouncedYet, CriticalIsAnnounced
  <2>5. QED
    BY <2>2, <2>3, <2>4
<1>3. ASSUME NEW a \in Audits, RollBackAudit(a) PROVE Delivery'
  <2> USE <1>3 DEF RollBackAudit, convRow
  <2>1. OneDelivery' /\ IdleHasNoJob' /\ RunsOnce'
    BY DEF OneDelivery, IdleHasNoJob, RunsOnce, Ended
  <2>2. NotAnnouncedYet' /\ CriticalIsAnnounced'
    BY DEF NotAnnouncedYet, CriticalIsAnnounced
  <2>3. QED
    BY <2>1, <2>2
<1>4. ASSUME NEW c \in Convs, DeleteConversation(c) PROVE Delivery'
  <2> USE <1>4 DEF DeleteConversation
  <2>1. OneDelivery' /\ IdleHasNoJob' /\ RunsOnce'
    BY DEF OneDelivery, IdleHasNoJob, RunsOnce, Ended
  <2>2. NotAnnouncedYet' /\ CriticalIsAnnounced'
    BY DEF NotAnnouncedYet, CriticalIsAnnounced
  <2>3. QED
    BY <2>1, <2>2
<1>5. ASSUME NEW present \in BOOLEAN, SetLlmKey(present) PROVE Delivery'
  <2> USE <1>5 DEF SetLlmKey, auditRow, convRow
  <2>1. OneDelivery' /\ IdleHasNoJob' /\ RunsOnce'
    BY DEF OneDelivery, IdleHasNoJob, RunsOnce, Ended
  <2>2. NotAnnouncedYet' /\ CriticalIsAnnounced'
    BY DEF NotAnnouncedYet, CriticalIsAnnounced
  <2>3. QED
    BY <2>1, <2>2
<1>6. QED
  BY <1>1, <1>2, <1>3, <1>4, <1>5 DEF ApiStep

\* A crash or a redelivery is the end of what is promised to the audit it strikes,
\* and of nothing else.
LEMMA AgainDelivery ==
  ASSUME DInv, NEW w \in Workers, pc[w] # "idle", again'[job[w]] # 0,
         UNCHANGED <<request, auditRow, convRow>>,
         \A a \in Audits \ {job[w]} : queue'[a] = queue[a] /\ again'[a] = again[a],
         \A v \in Workers \ {w} :
           /\ pc'[v] = pc[v] /\ job'[v] = job[v]
           /\ holds'[v] = holds[v] /\ alarms'[v] = alarms[v],
         \/ pc'[w] = "idle" /\ job'[w] = None
         \/ pc'[w] = pc[w] /\ job'[w] = job[w]
  PROVE  Delivery'
<1> USE DEF DInv, Delivery, IInv, Typed, TypeOK, Placed, auditRow, convRow
<1>1. \A v \in Workers : pc[v] = "idle" => job[v] = None
  BY DEF IdleHasNoJob
<1>2. \A v \in Workers : pc'[v] # "idle" =>
        /\ pc'[v] = pc[v] /\ job'[v] = job[v] /\ job[v] \in Audits
        /\ job[v] # job[w] => /\ holds'[v] = holds[v] /\ alarms'[v] = alarms[v]
                              /\ queue'[job[v]] = queue[job[v]]
                              /\ again'[job[v]] = again[job[v]]
  OBVIOUS
<1>3. IdleHasNoJob'
  BY <1>1 DEF IdleHasNoJob
<1>4. OneDelivery'
  BY <1>1, <1>2 DEF OneDelivery
<1>5. RunsOnce'
  <2>1. \A a \in Audits : Ended(a)' <=> Ended(a)
    BY DEF Ended
  <2>2. \A a \in Audits : Once(a)' /\ queue'[a] > 0 => ~Ended(a)
    BY DEF RunsOnce
  <2>3. ASSUME NEW v \in Workers, pc'[v] \in Running \cup {"failing"}, Once(job[v])'
        PROVE  job'[v] \in Audits /\ ~Ended(job'[v])
    <3>1. pc'[v] # "idle"
      BY <2>3 DEF Running, InTxn
    <3>2. job[v] # job[w] /\ Once(job[v]) /\ job'[v] = job[v] /\ pc'[v] = pc[v]
      BY <1>2, <2>3, <3>1
    <3>3. QED
      BY <1>2, <2>3, <3>1, <3>2 DEF RunsOnce
  <2>4. QED
    BY <2>1, <2>2, <2>3 DEF RunsOnce
<1>6. NotAnnouncedYet'
  BY <1>2 DEF NotAnnouncedYet, InTxn
<1>7. CriticalIsAnnounced'
  BY DEF CriticalIsAnnounced
<1>8. QED
  BY <1>3, <1>4, <1>5, <1>6, <1>7

LEMMA BrokerDelivery == DInv /\ BrokerStep => Delivery'
<1> SUFFICES ASSUME DInv, BrokerStep PROVE Delivery'
  OBVIOUS
<1> USE DEF DInv, Delivery, IInv, Typed, TypeOK, Placed
<1>1. ASSUME NEW w \in Workers, NEW a \in Audits, Receive(w, a) PROVE Delivery'
  <2> USE <1>1 DEF Receive, HasTask, auditRow, convRow, faults
  <2>0. Once(a) => request[a] # "new" /\ queue[a] = 1
                   /\ \A v \in Workers \ {w} : job[v] # a
    <3>1. Once(a) => request[a] # "new" /\ queue[a] = 1
      BY DEF OneDelivery
    <3>2. ASSUME Once(a), NEW v \in Workers PROVE job[v] # a
      <4>1. CASE pc[v] = "idle"
        BY <4>1 DEF IdleHasNoJob
      <4>2. CASE pc[v] # "idle"
        BY <3>2, <4>2 DEF OneDelivery
      <4>3. QED
        BY <4>1, <4>2
    <3>3. QED
      BY <3>1, <3>2
  <2>1. OneDelivery' /\ IdleHasNoJob'
    <3>1. OneDelivery'
      BY <2>0 DEF OneDelivery
    <3>2. IdleHasNoJob'
      BY DEF IdleHasNoJob
    <3>3. QED
      BY <3>1, <3>2
  <2>2. RunsOnce'
    BY DEF RunsOnce, Running, Ended
  <2>3. NotAnnouncedYet'
    BY DEF NotAnnouncedYet, InTxn
  <2>4. CriticalIsAnnounced'
    BY DEF CriticalIsAnnounced
  <2>5. QED
    BY <2>1, <2>2, <2>3, <2>4
<1>2. ASSUME NEW w \in Workers, Crash(w) PROVE Delivery'
  <2> USE <1>2 DEF Crash
  <2>1. again'[job[w]] # 0
    BY DEF OneDelivery
  <2>2. \A v \in Workers \ {w} : alarms'[v] = alarms[v]
    BY DEF EndRun
  <2>3. QED
    BY <2>1, <2>2, AgainDelivery
<1>3. ASSUME NEW w \in Workers, Redeliver(w) PROVE Delivery'
  <2> USE <1>3 DEF Redeliver
  <2>1. pc[w] # "idle" /\ job[w] \in Audits
    OBVIOUS
  <2>2. again'[job[w]] # 0
    BY <2>1
  <2>3. \A a \in Audits \ {job[w]} : queue'[a] = queue[a] /\ again'[a] = again[a]
    OBVIOUS
  <2>4. QED
    BY <2>1, <2>2, <2>3, AgainDelivery
<1>4. QED
  BY <1>1, <1>2, <1>3 DEF BrokerStep

\* A step of a worker that goes on with its audit keeps the task where it is.
LEMMA TaskStays ==
  ASSUME DInv, NEW w \in Workers, pc[w] # "idle", pc'[w] # "idle",
         UNCHANGED <<request, queue, again, holds, job>>,
         \A v \in Workers \ {w} : pc'[v] = pc[v]
  PROVE  OneDelivery' /\ IdleHasNoJob'
BY DEF DInv, Delivery, OneDelivery, IdleHasNoJob

\* A step of the run that leaves its audit and the conversations as they are.
LEMMA RunGoesOn ==
  ASSUME DInv, NEW w \in Workers, pc[w] \in Running \cup {"failing"},
         UNCHANGED <<request, auditRow, convRow, queue, again, holds, job>>,
         \A v \in Workers \ {w} : pc'[v] = pc[v] /\ alarms'[v] = alarms[v],
         pc'[w] \in Running \cup {"failing", "ack"},
         pc'[w] \in {"loop"} \cup InTxn =>
           pc[w] \in {"load", "loop"} \cup InTxn /\ alarms'[w] = alarms[w],
         pc'[w] # "load"
  PROVE  Delivery'
<1> USE DEF DInv, Delivery, IInv, Typed, TypeOK, Placed, Running, InTxn, auditRow,
            convRow
<1>1. OneDelivery' /\ IdleHasNoJob'
  BY TaskStays
<1>2. RunsOnce'
  BY DEF RunsOnce, Ended
<1>3. NotAnnouncedYet'
  BY DEF NotAnnouncedYet
<1>4. CriticalIsAnnounced'
  BY DEF CriticalIsAnnounced
<1>5. QED
  BY <1>1, <1>2, <1>3, <1>4

\* The commit of a conversation is seen by the run that counts its alarms and
\* takes it from the audits that wrote its rubric before.
LEMMA CommitDelivery ==
  ASSUME DInv, NEW w \in Workers, CommitConversation(w)
  PROVE  Delivery'
<1> DEFINE a == job[w]
           c == cur[w]
<1>0. \E bad \in BOOLEAN :
        /\ critical' = [critical EXCEPT ![c] = IF fresh[w] THEN bad ELSE @]
        /\ alarms' = [alarms EXCEPT ![w] = CriticalCount(w, bad)]
  BY DEF CommitConversation
<1> USE DEF DInv, Delivery, IInv, Typed, TypeOK, Placed, CommitConversation, CloseTxn,
            faults, InTxn
<1>1. a \in Audits /\ c \in Convs
  OBVIOUS
<1>2. OneDelivery' /\ IdleHasNoJob'
  BY TaskStays
<1>3. RunsOnce'
  BY DEF RunsOnce, Running, Ended
<1>4. PICK bad \in BOOLEAN :
        /\ critical' = [critical EXCEPT ![c] = IF fresh[w] THEN bad ELSE @]
        /\ alarms' = [alarms EXCEPT ![w] = CriticalCount(w, bad)]
  BY <1>0
<1>5. /\ \A d \in Convs : d # c => rubricBy'[d] = rubricBy[d] /\ critical'[d] = critical[d]
      /\ ~fresh[w] => rubricBy'[c] = rubricBy[c] /\ critical'[c] = critical[c]
      /\ fresh[w] => rubricBy'[c] = a /\ critical'[c] = bad
  BY <1>1, <1>4 DEF WritesRubric
<1>6. /\ alarms'[w] = IF bad THEN alarms[w] + 1 ELSE alarms[w]
      /\ \A v \in Workers \ {w} : alarms'[v] = alarms[v]
  BY <1>4 DEF CriticalCount
<1>7. Once(job[w]) => ~Ended(a) /\ request[a] # "new" /\ queue[a] = 0
                  /\ \A v \in Workers \ {w} : job[v] # a
  BY DEF RunsOnce, OneDelivery, Running
<1>8. NotAnnouncedYet'
  <2>2. \A b \in Audits, d \in Convs :
          Once(b)' /\ (request'[b] = "new" \/ queue'[b] > 0) => rubricBy'[d] # b
    BY <1>5, <1>7 DEF NotAnnouncedYet
  <2>3. \A v \in Workers, d \in Convs :
          Once(job[v])' /\ pc'[v] = "load" => rubricBy'[d] # job'[v]
    BY <1>5, <1>7 DEF NotAnnouncedYet
  <2>4. \A v \in Workers, d \in Convs :
          Once(job[v])' /\ pc'[v] \in {"loop"} \cup InTxn
            /\ rubricBy'[d] = job'[v] /\ critical'[d] => alarms'[v] > 0
    <3> SUFFICES ASSUME NEW v \in Workers, NEW d \in Convs, Once(job[v])',
                        pc'[v] \in {"loop"} \cup InTxn, rubricBy'[d] = job'[v],
                        critical'[d]
                 PROVE  alarms'[v] > 0
      OBVIOUS
    <3>1. CASE d = c /\ fresh[w]
      <4>1. v = w
        BY <1>5, <1>7, <3>1
      <4>2. bad
        BY <1>5, <3>1
      <4>3. QED
        BY <1>6, <4>1, <4>2
    <3>2. CASE d # c \/ ~fresh[w]
      <4>1. rubricBy[d] = job[v] /\ critical[d] /\ pc[v] \in {"loop"} \cup InTxn
        BY <1>5, <3>2
      <4>2. alarms[v] > 0
        BY <4>1 DEF NotAnnouncedYet
      <4>3. QED
        BY <1>6, <4>2
    <3>3. QED
      BY <3>1, <3>2
  <2>5. QED
    BY <2>2, <2>3, <2>4 DEF NotAnnouncedYet
<1>9. CriticalIsAnnounced'
  BY <1>5, <1>7 DEF CriticalIsAnnounced, Ended
<1>10. QED
  BY <1>2, <1>3, <1>8, <1>9

LEMMA FinishDelivery ==
  ASSUME DInv, NEW w \in Workers, FinishAudit(w)
  PROVE  Delivery'
<1> DEFINE a == job[w]
<1> USE DEF DInv, Delivery, IInv, Typed, TypeOK, Placed, FinishAudit, EndRun, CloseTxn,
            convRow, faults, InTxn
<1>1. a \in Audits
  OBVIOUS
<1>2. OneDelivery' /\ IdleHasNoJob'
  BY TaskStays
<1>3. Once(job[w]) => ~Ended(a) /\ request[a] # "new" /\ queue[a] = 0
                  /\ \A v \in Workers \ {w} : job[v] # a
  BY DEF RunsOnce, OneDelivery, Running
<1>4. RunsOnce'
  BY <1>1, <1>3 DEF RunsOnce, Running, Ended
<1>5. PICK some \in BOOLEAN :
        notes' = notes \cup {<<"completed", a>>}
             \cup (IF alarms[w] > 0 THEN {<<"critical", a>>} ELSE {})
             \cup (IF some THEN {<<"suggestions", a>>} ELSE {})
  BY FinishWrites
<1>6. NotAnnouncedYet'
  BY <1>1, <1>3 DEF NotAnnouncedYet
<1>7. CriticalIsAnnounced'
  BY <1>1, <1>5 DEF CriticalIsAnnounced, NotAnnouncedYet
<1>8. QED
  BY <1>2, <1>4, <1>6, <1>7

LEMMA MarkFailedDelivery ==
  ASSUME DInv, NEW w \in Workers, MarkFailed(w)
  PROVE  Delivery'
<1> USE DEF DInv, Delivery, IInv, Typed, TypeOK, Placed, MarkFailed, FailedStatus,
            convRow, faults, run, InTxn
<1>1. OneDelivery' /\ IdleHasNoJob'
  BY TaskStays
<1>2. Once(job[w]) => ~Ended(job[w]) /\ queue[job[w]] = 0
                  /\ \A v \in Workers \ {w} : job[v] # job[w]
  BY DEF RunsOnce, OneDelivery
<1>3. RunsOnce'
  BY <1>2 DEF RunsOnce, Running, Ended
<1>4. NotAnnouncedYet'
  BY <1>2 DEF NotAnnouncedYet, Ended
<1>5. CriticalIsAnnounced'
  BY DEF CriticalIsAnnounced
<1>6. QED
  BY <1>1, <1>3, <1>4, <1>5

LEMMA AcknowledgeDelivery ==
  ASSUME DInv, NEW w \in Workers, Acknowledge(w)
  PROVE  Delivery'
<1> USE DEF DInv, Delivery, IInv, Typed, TypeOK, Placed, Acknowledge, auditRow,
            convRow, faults, InTxn
<1>1. OneDelivery' /\ IdleHasNoJob'
  <2>1. IdleHasNoJob'
    BY DEF IdleHasNoJob
  <2>2. OneDelivery'
    BY DEF OneDelivery
  <2>3. QED
    BY <2>1, <2>2
<1>2. RunsOnce' /\ NotAnnouncedYet'
  BY DEF RunsOnce, NotAnnouncedYet, Running, Ended
<1>3. CriticalIsAnnounced'
  BY DEF CriticalIsAnnounced
<1>4. QED
  BY <1>1, <1>2, <1>3

LEMMA WorkerDelivery ==
  ASSUME DInv, NEW w \in Workers, WorkerStep(w)
  PROVE  Delivery'
<1> USE DEF Running, InTxn, faults, DInv, IInv, Typed, TypeOK
<1>1. CASE LoadAudit(w)
  BY <1>1, RunGoesOn DEF LoadAudit
<1>2. CASE LoadFails(w)
  BY <1>2, RunGoesOn DEF LoadFails, run
<1>3. ASSUME NEW c \in Convs, SkipConversation(w, c) PROVE Delivery'
  BY <1>3, RunGoesOn DEF SkipConversation
<1>4. ASSUME NEW c \in Convs, OpenConversation(w, c) PROVE Delivery'
  BY <1>4, RunGoesOn DEF OpenConversation
<1>5. CASE CheckEvaluation(w)
  BY <1>5, RunGoesOn DEF CheckEvaluation
<1>6. CASE InsertEvaluation(w)
  BY <1>6, RunGoesOn DEF InsertEvaluation
<1>7. CASE RunRaises(w)
  BY <1>7, RunGoesOn DEF RunRaises, CanRaise, EndRun, CloseTxn
<1>8. CASE MarkFailedRaises(w)
  BY <1>8, RunGoesOn DEF MarkFailedRaises, run
<1>9. QED
  BY <1>1, <1>2, <1>3, <1>4, <1>5, <1>6, <1>7, <1>8, CommitDelivery,
     FinishDelivery, MarkFailedDelivery, AcknowledgeDelivery DEF WorkerStep

LEMMA StutterDelivery == DInv /\ UNCHANGED vars => Delivery'
<1> SUFFICES ASSUME DInv, UNCHANGED vars PROVE Delivery'
  OBVIOUS
<1> USE DEF DInv, Delivery, vars, auditRow, convRow, faults, run
<1>1. OneDelivery' /\ IdleHasNoJob' /\ RunsOnce'
  BY DEF OneDelivery, IdleHasNoJob, RunsOnce, Ended
<1>2. NotAnnouncedYet' /\ CriticalIsAnnounced'
  BY DEF NotAnnouncedYet, CriticalIsAnnounced
<1>3. QED
  BY <1>1, <1>2

LEMMA AlwaysDelivery == Spec => []DInv
<1>1. DInv /\ [Next]_vars => Delivery'
  BY ApiDelivery, BrokerDelivery, WorkerDelivery, StutterDelivery DEF Next
<1>2. Init => IInv /\ Delivery
  BY InitIInv, InitDelivery
<1>3. IInv /\ Delivery <=> DInv
  BY DEF DInv
<1>4. QED
  BY <1>1, <1>2, <1>3, AlwaysIInv, PTL DEF Spec

\* What the run of an active audit found critical was announced, whoever won
\* the race for the evaluation.
THEOREM AlarmsAreRaised == Spec => []CriticalIsAnnounced
<1>1. DInv => CriticalIsAnnounced
  BY DEF DInv, Delivery
<1>2. QED
  BY <1>1, AlwaysDelivery, PTL

-----------------------------------------------------------------------------
(* Every set of improvements is that of a delivery.                        *)

\* The runs of an audit that may still publish.
Busy(a) == {w \in Workers : job[w] = a /\ pc[w] \notin {"idle", "ack"}}

\* The sets that were inserted and those that may come are not more than the
\* deliveries, the first and the repeated ones.
SetsAreDeliveries ==
  \A a \in Audits :
    /\ IsFiniteSet(Busy(a))
    /\ improvements[a] + queue[a] + Cardinality(Busy(a))
         <= (IF request[a] = "new" THEN 0 ELSE 1) + again[a]

SetsAreShown ==
  \A a \in Audits : /\ suggested[a] /\ a \in FlowAudits => improvements[a] >= 1
                    /\ a \notin FlowAudits => improvements[a] = 0

\* A worker that leaves the runs of an audit makes them one less, a worker that
\* takes its task one more.
LEMMA BusyGoesDown ==
  ASSUME Typed, NEW w \in Workers, pc[w] \notin {"idle", "ack"}, pc'[w] \in {"idle", "ack"},
         \A v \in Workers \ {w} : pc'[v] = pc[v] /\ job'[v] = job[v],
         NEW a \in Audits, IsFiniteSet(Busy(a))
  PROVE  /\ IsFiniteSet(Busy(a)')
         /\ Cardinality(Busy(a)') =
              IF a = job[w] THEN Cardinality(Busy(a)) - 1 ELSE Cardinality(Busy(a))
         /\ Cardinality(Busy(a)) \in Nat /\ Cardinality(Busy(a)') \in Nat
<1>1. Busy(a)' = IF a = job[w] THEN Busy(a) \ {w} ELSE Busy(a)
  BY DEF Busy
<1>2. a = job[w] => w \in Busy(a)
  BY DEF Busy
<1>3. CASE a = job[w]
  <2>1. Busy(a)' = Busy(a) \ {w} /\ w \in Busy(a)
    BY <1>1, <1>2, <1>3
  <2>2. QED
    BY <1>3, <2>1, FS_RemoveElement, FS_CardinalityType
<1>4. QED
  BY <1>1, <1>3, FS_CardinalityType

LEMMA BusyGoesUp ==
  ASSUME Typed, NEW w \in Workers, pc[w] = "idle", pc'[w] = "load", job'[w] \in Audits,
         \A v \in Workers \ {w} : pc'[v] = pc[v] /\ job'[v] = job[v],
         NEW a \in Audits, IsFiniteSet(Busy(a))
  PROVE  /\ IsFiniteSet(Busy(a)')
         /\ Cardinality(Busy(a)') =
              IF a = job'[w] THEN Cardinality(Busy(a)) + 1 ELSE Cardinality(Busy(a))
<1>1. Busy(a)' = IF a = job'[w] THEN Busy(a) \cup {w} ELSE Busy(a)
  BY DEF Busy
<1>2. w \notin Busy(a)
  BY DEF Busy
<1>3. QED
  BY <1>1, <1>2, FS_AddElement, FS_CardinalityType

LEMMA BusyStays ==
  ASSUME Typed,
         \A w \in Workers : /\ job'[w] = job[w] \/ pc[w] \in {"idle", "ack"}
                            /\ pc'[w] \in {"idle", "ack"} <=> pc[w] \in {"idle", "ack"},
         NEW a \in Audits
  PROVE  Busy(a)' = Busy(a)
BY DEF Busy

LEMMA SetsStep ==
  ASSUME Typed, SetsAreDeliveries, SetsAreShown, [Next]_vars
  PROVE  SetsAreDeliveries' /\ SetsAreShown'
<1> USE DEF Typed, TypeOK, Placed
<1>0. \A a \in Audits : IsFiniteSet(Busy(a)) => Cardinality(Busy(a)) \in Nat
  BY FS_CardinalityType
<1>1. ASSUME NEW a \in Audits, CreateAudit(a)
      PROVE  SetsAreDeliveries' /\ SetsAreShown'
  <2>1. \A b \in Audits : Busy(b)' = Busy(b)
    BY <1>1, BusyStays DEF CreateAudit, run
  <2>2. QED
    BY <1>0, <1>1, <2>1 DEF CreateAudit, SetsAreDeliveries, SetsAreShown, faults
<1>2. ASSUME NEW w \in Workers, NEW a \in Audits, Receive(w, a)
      PROVE  SetsAreDeliveries' /\ SetsAreShown'
  <2>1. \A b \in Audits :
          IsFiniteSet(Busy(b)) =>
            /\ IsFiniteSet(Busy(b)')
            /\ Cardinality(Busy(b)') =
                 IF b = a THEN Cardinality(Busy(b)) + 1 ELSE Cardinality(Busy(b))
    BY <1>2, BusyGoesUp DEF Receive
  <2>2. QED
    BY <1>0, <1>2, <2>1 DEF Receive, HasTask, SetsAreDeliveries, SetsAreShown,
       auditRow, faults
<1>3. ASSUME NEW w \in Workers, Crash(w)
      PROVE  SetsAreDeliveries' /\ SetsAreShown'
  <2>1. /\ job[w] \in Audits
        /\ \A b \in Audits : /\ improvements'[b] = improvements[b]
                             /\ request'[b] = request[b]
        /\ \A b \in Audits \ {job[w]} : queue'[b] = queue[b] /\ again'[b] = again[b]
        /\ queue'[job[w]] - queue[job[w]] = again'[job[w]] - again[job[w]]
    BY <1>3 DEF Crash, Requeued, auditRow
  <2>2. \A b \in Audits : IsFiniteSet(Busy(b)) =>
          /\ IsFiniteSet(Busy(b)')
          /\ Cardinality(Busy(b)') <= Cardinality(Busy(b))
          /\ Cardinality(Busy(b)') \in Nat
    <3>1. CASE pc[w] = "ack"
      <4>1. \A b \in Audits : Busy(b)' = Busy(b)
        BY <1>3, <3>1, BusyStays DEF Crash
      <4>2. QED
        BY <1>0, <4>1
    <3>2. CASE pc[w] # "ack"
      <4>1. \A b \in Audits : IsFiniteSet(Busy(b)) =>
              /\ IsFiniteSet(Busy(b)')
              /\ Cardinality(Busy(b)') =
                   IF b = job[w] THEN Cardinality(Busy(b)) - 1 ELSE Cardinality(Busy(b))
              /\ Cardinality(Busy(b)) \in Nat /\ Cardinality(Busy(b)') \in Nat
        BY <1>3, <3>2, BusyGoesDown DEF Crash
      <4>2. QED
        BY <4>1
    <3>3. QED
      BY <3>1, <3>2
  <2>3. \A b \in Audits : /\ improvements[b] \in Nat /\ queue[b] \in Nat
                          /\ queue'[b] \in Nat /\ again[b] \in Nat /\ again'[b] \in Nat
    BY <1>3, <2>1 DEF Crash, Requeued
  <2>4. SetsAreDeliveries'
    <3>1. ASSUME NEW b \in Audits
          PROVE  /\ IsFiniteSet(Busy(b)')
                 /\ improvements'[b] + queue'[b] + Cardinality(Busy(b)')
                      <= (IF request'[b] = "new" THEN 0 ELSE 1) + again'[b]
      <4>1. CASE b = job[w]
        BY <1>0, <2>1, <2>2, <2>3, <4>1 DEF SetsAreDeliveries
      <4>2. CASE b # job[w]
        BY <1>0, <2>1, <2>2, <2>3, <4>2 DEF SetsAreDeliveries
      <4>3. QED
        BY <4>1, <4>2
    <3>2. QED
      BY <3>1 DEF SetsAreDeliveries
  <2>5. QED
    BY <1>3, <2>4 DEF Crash, SetsAreShown, auditRow
<1>4. ASSUME NEW w \in Workers, Redeliver(w)
      PROVE  SetsAreDeliveries' /\ SetsAreShown'
  <2>1. \A b \in Audits : Busy(b)' = Busy(b)
    BY <1>4, BusyStays DEF Redeliver
  <2>2. job[w] \in Audits
    BY <1>4 DEF Redeliver
  <2>3. QED
    BY <1>0, <1>4, <2>1, <2>2 DEF Redeliver, SetsAreDeliveries, SetsAreShown, auditRow
<1>5. ASSUME NEW w \in Workers, FinishAudit(w)
      PROVE  SetsAreDeliveries' /\ SetsAreShown'
  <2>1. PICK some \in BOOLEAN :
          /\ suggested' = [suggested EXCEPT ![job[w]] = some]
          /\ improvements' = [improvements EXCEPT ![job[w]] =
               IF CreatesImprovements(job[w], some) THEN @ + 1 ELSE @]
    BY <1>5, FinishWrites
  <2>2. /\ pc[w] = "loop" /\ pc' = [pc EXCEPT ![w] = "ack"] /\ job[w] \in Audits
        /\ UNCHANGED <<request, queue, job, again>>
    BY <1>5 DEF FinishAudit, faults
  <2>3. \A b \in Audits : IsFiniteSet(Busy(b)) =>
          /\ IsFiniteSet(Busy(b)')
          /\ Cardinality(Busy(b)') =
               IF b = job[w] THEN Cardinality(Busy(b)) - 1 ELSE Cardinality(Busy(b))
    BY <2>2, BusyGoesDown
  <2>4. SetsAreDeliveries'
    BY <1>0, <2>1, <2>2, <2>3 DEF SetsAreDeliveries
  <2>5. SetsAreShown'
    BY <2>1, <2>2 DEF SetsAreShown, CreatesImprovements
  <2>6. QED
    BY <2>4, <2>5
<1>6. ASSUME UNCHANGED <<request, improvements, suggested, queue, again>>,
             \/ \A w \in Workers :
                  /\ job'[w] = job[w] \/ pc[w] \in {"idle", "ack"}
                  /\ pc'[w] \in {"idle", "ack"} <=> pc[w] \in {"idle", "ack"}
             \/ \E w \in Workers :
                  /\ pc[w] \notin {"idle", "ack"} /\ pc'[w] \in {"idle", "ack"}
                  /\ \A v \in Workers \ {w} : pc'[v] = pc[v] /\ job'[v] = job[v]
      PROVE  SetsAreDeliveries' /\ SetsAreShown'
  <2>1. \A b \in Audits : IsFiniteSet(Busy(b)) =>
          /\ IsFiniteSet(Busy(b)')
          /\ Cardinality(Busy(b)') <= Cardinality(Busy(b))
          /\ Cardinality(Busy(b)') \in Nat
    <3>1. CASE \A w \in Workers :
                 /\ job'[w] = job[w] \/ pc[w] \in {"idle", "ack"}
                 /\ pc'[w] \in {"idle", "ack"} <=> pc[w] \in {"idle", "ack"}
      <4>1. \A b \in Audits : Busy(b)' = Busy(b)
        BY <3>1, BusyStays
      <4>2. QED
        BY <1>0, <4>1
    <3>2. ASSUME NEW w \in Workers,
                 pc[w] \notin {"idle", "ack"}, pc'[w] \in {"idle", "ack"},
                 \A v \in Workers \ {w} : pc'[v] = pc[v] /\ job'[v] = job[v]
          PROVE  \A b \in Audits : IsFiniteSet(Busy(b)) =>
                   /\ IsFiniteSet(Busy(b)')
                   /\ Cardinality(Busy(b)') <= Cardinality(Busy(b))
                   /\ Cardinality(Busy(b)') \in Nat
      <4>1. \A b \in Audits : IsFiniteSet(Busy(b)) =>
              /\ IsFiniteSet(Busy(b)')
              /\ Cardinality(Busy(b)') =
                   IF b = job[w] THEN Cardinality(Busy(b)) - 1 ELSE Cardinality(Busy(b))
              /\ Cardinality(Busy(b)) \in Nat /\ Cardinality(Busy(b)') \in Nat
        BY <3>2, BusyGoesDown
      <4>2. QED
        BY <4>1
    <3>3. QED
      BY <1>6, <3>1, <3>2
  <2>2. QED
    BY <1>0, <1>6, <2>1 DEF SetsAreDeliveries, SetsAreShown
<1>7. ASSUME NEW a \in Audits, CommitAudit(a) \/ RollBackAudit(a)
      PROVE  SetsAreDeliveries' /\ SetsAreShown'
  <2>1. \A b \in Audits : Busy(b)' = Busy(b)
    BY <1>7, BusyStays DEF CommitAudit, RollBackAudit, run
  <2>2. QED
    BY <1>0, <1>7, <2>1 DEF CommitAudit, RollBackAudit, SetsAreDeliveries, SetsAreShown,
       faults
<1>8. CASE \/ \E c \in Convs : DeleteConversation(c)
           \/ \E present \in BOOLEAN : SetLlmKey(present)
           \/ UNCHANGED vars
  <2>1. UNCHANGED <<request, improvements, suggested, queue, again, pc, job>>
    BY <1>8 DEF DeleteConversation, SetLlmKey, vars, auditRow, faults, run
  <2>2. QED
    BY <1>6, <2>1
<1>9. ASSUME NEW w \in Workers, WorkerStep(w), ~FinishAudit(w)
      PROVE  SetsAreDeliveries' /\ SetsAreShown'
  <2>1. CASE MarkFailed(w) \/ MarkFailedRaises(w)
    BY <1>6, <2>1 DEF MarkFailed, MarkFailedRaises, auditRow, faults, run
  <2>2. CASE Acknowledge(w)
    <3>1. \A v \in Workers : /\ job'[v] = job[v] \/ pc[v] \in {"idle", "ack"}
                             /\ pc'[v] \in {"idle", "ack"} <=> pc[v] \in {"idle", "ack"}
      BY <2>2 DEF Acknowledge
    <3>2. QED
      BY <1>6, <2>2, <3>1 DEF Acknowledge, auditRow, faults
  <2>3. CASE LoadAudit(w) \/ LoadFails(w) \/ RunRaises(w)
    <3>1. /\ pc[w] \notin {"idle", "ack"} /\ job' = job
          /\ \E step \in {"loop", "failing"} : pc' = [pc EXCEPT ![w] = step]
      BY <2>3 DEF LoadAudit, LoadFails, RunRaises, CanRaise, Running, InTxn, run
    <3>2. QED
      BY <1>6, <2>3, <3>1 DEF LoadAudit, LoadFails, RunRaises, auditRow, faults
  <2>4. CASE \E c \in Convs : SkipConversation(w, c) \/ OpenConversation(w, c)
    <3>1. /\ pc[w] = "loop" /\ job' = job
          /\ \E step \in {"loop", "check"} : pc' = [pc EXCEPT ![w] = step]
      BY <2>4 DEF SkipConversation, OpenConversation
    <3>2. QED
      BY <1>6, <2>4, <3>1 DEF SkipConversation, OpenConversation, auditRow, faults
  <2>5. CASE CheckEvaluation(w) \/ InsertEvaluation(w) \/ CommitConversation(w)
    <3>1. /\ pc[w] \in InTxn /\ job' = job
          /\ \E step \in {"loop", "judge", "evaluate"} : pc' = [pc EXCEPT ![w] = step]
      BY <2>5 DEF CheckEvaluation, InsertEvaluation, CommitConversation, InTxn
    <3>2. UNCHANGED <<request, improvements, suggested, queue, again>>
      BY <2>5 DEF CheckEvaluation, InsertEvaluation, CommitConversation, auditRow, faults
    <3>3. QED
      BY <1>6, <3>1, <3>2 DEF InTxn
  <2>6. QED
    BY <1>9, <2>1, <2>2, <2>3, <2>4, <2>5 DEF WorkerStep
<1>10. QED
  BY <1>1, <1>2, <1>3, <1>4, <1>5, <1>7, <1>8, <1>9 DEF Next, ApiStep, BrokerStep

\* An audit has the improvements of the suggestions that it shows, and no more sets
\* of them than deliveries of its task, for any number of faults and audits.
THEOREM ImprovementsAreDeliveries == Spec => []ImprovementsPerDelivery
<1>1. Init => SetsAreDeliveries /\ SetsAreShown
  <2> SUFFICES ASSUME Init, NEW a \in Audits
               PROVE  /\ IsFiniteSet(Busy(a)) /\ Cardinality(Busy(a)) = 0
                      /\ improvements[a] = 0 /\ queue[a] = 0 /\ again[a] = 0
                      /\ request[a] = "new" /\ ~suggested[a]
    BY DEF SetsAreDeliveries, SetsAreShown
  <2>1. Busy(a) = {}
    BY DEF Init, Busy
  <2>2. IsFiniteSet({}) /\ Cardinality({}) = 0
    BY FS_EmptySet
  <2>3. QED
    BY <2>1, <2>2 DEF Init
<1>2. Typed /\ SetsAreDeliveries /\ SetsAreShown => ImprovementsPerDelivery
  <2> SUFFICES ASSUME Typed, SetsAreDeliveries, SetsAreShown, NEW a \in Audits
               PROVE  /\ suggested[a] /\ a \in FlowAudits => improvements[a] >= 1
                      /\ improvements[a] <= IF a \in FlowAudits THEN 1 + again[a] ELSE 0
    BY DEF ImprovementsPerDelivery
  <2>1. Cardinality(Busy(a)) \in Nat
    BY FS_CardinalityType DEF SetsAreDeliveries
  <2>2. improvements[a] \in Nat /\ queue[a] \in Nat /\ again[a] \in Nat
    BY DEF Typed, TypeOK
  <2>3. improvements[a] <= 1 + again[a]
    BY <2>1, <2>2 DEF SetsAreDeliveries
  <2>4. suggested[a] /\ a \in FlowAudits => improvements[a] >= 1
    BY DEF SetsAreShown
  <2>5. a \notin FlowAudits => improvements[a] <= 0
    BY DEF SetsAreShown
  <2>6. QED
    BY <2>3, <2>4, <2>5
<1>3. QED
  BY <1>1, <1>2, SetsStep, AlwaysTyped, PTL DEF Spec

LEMMA EndedStays ==
  ASSUME DInv, [Next]_vars, NEW a \in Audits, Once(a), Ended(a)
  PROVE  status'[a] = status[a]
<1> USE DEF DInv, IInv, Typed, TypeOK, Placed, Ended
<1>1. CASE ApiStep
  BY <1>1 DEF ApiStep, CreateAudit, CommitAudit, RollBackAudit,
     DeleteConversation, SetLlmKey, auditRow, Strengthening, RequestsClose
<1>2. CASE BrokerStep
  BY <1>2 DEF BrokerStep, Receive, Crash, Redeliver, auditRow
<1>3. ASSUME NEW w \in Workers, WorkerStep(w) PROVE status'[a] = status[a]
  <2>1. CASE FinishAudit(w) \/ MarkFailed(w)
    <3>1. job[w] # a
      BY <2>1 DEF FinishAudit, MarkFailed, Delivery, RunsOnce, Running
    <3>2. \E ended \in Statuses : status' = [status EXCEPT ![job[w]] = ended]
      BY <2>1 DEF FinishAudit, MarkFailed, FailedStatus, Statuses
    <3>3. QED
      BY <3>1, <3>2
  <2>2. CASE ~(FinishAudit(w) \/ MarkFailed(w))
    BY <1>3, <2>2 DEF WorkerStep, LoadAudit, LoadFails, SkipConversation,
       OpenConversation, CheckEvaluation, InsertEvaluation, CommitConversation,
       RunRaises, MarkFailedRaises, Acknowledge, auditRow
  <2>3. QED
    BY <2>1, <2>2
<1>4. CASE UNCHANGED vars
  BY <1>4 DEF vars, auditRow
<1>5. QED
  BY <1>1, <1>2, <1>3, <1>4 DEF Next

\* No failure, race or late step changes how an audit ended, until its own task is
\* delivered a second time.
THEOREM EndsAreFinal == Spec => EndedIsFinal
<1>1. DInv /\ [Next]_vars =>
        [\A a \in Audits :
           Once(a) /\ status[a] \in {"active", "failed"} => status'[a] = status[a]]_vars
  BY EndedStays DEF Ended
<1>2. QED
  BY <1>1, AlwaysDelivery, PTL DEF Spec, EndedIsFinal

-----------------------------------------------------------------------------
(* Who waits, and what the broker owes.                                    *)

\* The key of an evaluation is held by a transaction past its INSERT.
KeysAreBeingWritten == \A w \in Workers : inserted[w] => pc[w] = "judge"

\* The guards of WorkerStep without a fault: what a run waits for.
CanGoOn(w) ==
  \/ pc[w] \in {"load", "loop", "check", "judge", "failing", "ack"}
  \/ pc[w] = "evaluate" /\ KeyIsFree(cur[w])

LEMMA StepKeys == Typed /\ KeysAreBeingWritten /\ [Next]_vars => KeysAreBeingWritten'
<1> SUFFICES ASSUME Typed, KeysAreBeingWritten, [Next]_vars PROVE KeysAreBeingWritten'
  OBVIOUS
<1> USE DEF KeysAreBeingWritten, Typed, TypeOK
<1>1. CASE ApiStep
  BY <1>1 DEF ApiStep, CreateAudit, CommitAudit, RollBackAudit, DeleteConversation, SetLlmKey, run
<1>2. CASE BrokerStep
  BY <1>2 DEF BrokerStep, Receive, Crash, Redeliver, EndRun, CloseTxn
<1>3. ASSUME NEW w \in Workers, WorkerStep(w) PROVE KeysAreBeingWritten'
  <2>1. CASE CommitConversation(w)
    BY <2>1 DEF CommitConversation, CloseTxn
  <2>2. CASE FinishAudit(w) \/ RunRaises(w)
    <3>1. EndRun(w)
      BY <2>2 DEF FinishAudit, RunRaises
    <3>2. inserted' = [inserted EXCEPT ![w] = FALSE]
      BY <3>1 DEF EndRun, CloseTxn
    <3>3. pc' = [pc EXCEPT ![w] = "ack"] \/ pc' = [pc EXCEPT ![w] = "failing"]
      <4> HIDE DEF KeysAreBeingWritten, Typed, TypeOK
      <4>1. QED
        BY <2>2, Zenon DEF FinishAudit, RunRaises
    <3>4. QED
      BY <3>2, <3>3
  <2>3. CASE InsertEvaluation(w)
    BY <2>3 DEF InsertEvaluation
  <2>4. CASE \/ LoadAudit(w) \/ CheckEvaluation(w)
             \/ \E c \in Convs : SkipConversation(w, c) \/ OpenConversation(w, c)
    BY <2>4 DEF LoadAudit, CheckEvaluation, SkipConversation, OpenConversation
  <2>5. CASE LoadFails(w) \/ MarkFailed(w) \/ MarkFailedRaises(w) \/ Acknowledge(w)
    BY <2>5 DEF LoadFails, MarkFailed, MarkFailedRaises, Acknowledge, run
  <2>6. QED
    BY <1>3, <2>1, <2>2, <2>3, <2>4, <2>5 DEF WorkerStep
<1>4. CASE UNCHANGED vars
  BY <1>4 DEF vars, run
<1>5. QED
  BY <1>1, <1>2, <1>3, <1>4 DEF Next

\* Runs that share conversations never wait for one another for good.
THEOREM NobodyIsStuck ==
  Spec => []((\E w \in Workers : pc[w] # "idle") => \E w \in Workers : CanGoOn(w))
<1>1. Typed /\ KeysAreBeingWritten =>
        ((\E w \in Workers : pc[w] # "idle") => \E w \in Workers : CanGoOn(w))
  BY DEF CanGoOn, KeyIsFree, KeysAreBeingWritten, Typed, TypeOK, Steps
<1>2. Init => KeysAreBeingWritten
  BY DEF Init, KeysAreBeingWritten
<1>3. QED
  BY <1>1, <1>2, StepKeys, AlwaysTyped, PTL DEF Spec

\* A delivery that the broker counts and that has not come to its end.
InDelivery(a) == queue[a] > 0 \/ \E w \in Workers : holds[w] /\ job[w] = a /\ pc[w] # "ack"

\* The delivery of a running audit is not lost: late acks and requeues keep it,
\* unless even the UPDATE that marks the failure raises.
TaskKept ==
  [][\A a \in Audits : InDelivery(a) /\ status[a] = "running" /\ status'[a] = "running" =>
       InDelivery(a)' \/ \E w \in Workers : job[w] = a /\ MarkFailedRaises(w)]_vars

\* No crash, redelivery or exception loses a task, whatever their order.
THEOREM TasksAreKept == Spec => TaskKept
<1> DEFINE Kept ==
      \A a \in Audits : InDelivery(a) /\ status[a] = "running" /\ status'[a] = "running" =>
        InDelivery(a)' \/ \E w \in Workers : job[w] = a /\ MarkFailedRaises(w)
<1>1. Typed /\ [Next]_vars => [Kept]_vars
  <2> SUFFICES ASSUME Typed, Next, NEW a \in Audits, InDelivery(a),
                      status[a] = "running", status'[a] = "running",
                      ~ \E w \in Workers : job[w] = a /\ MarkFailedRaises(w)
               PROVE  InDelivery(a)'
    OBVIOUS
  <2> USE DEF Typed, TypeOK, Placed, InDelivery
  <2>1. CASE ApiStep
    BY <2>1 DEF ApiStep, CreateAudit, CommitAudit, RollBackAudit, DeleteConversation, SetLlmKey, run
  <2>2. CASE BrokerStep
    <3>1. ASSUME NEW w \in Workers, NEW b \in Audits, Receive(w, b) PROVE InDelivery(a)'
      BY <3>1 DEF Receive, HasTask
    <3>2. ASSUME NEW w \in Workers, Crash(w) PROVE InDelivery(a)'
      BY <3>2 DEF Crash, Requeued
    <3>3. ASSUME NEW w \in Workers, Redeliver(w) PROVE InDelivery(a)'
      BY <3>3 DEF Redeliver
    <3>4. QED
      BY <2>2, <3>1, <3>2, <3>3 DEF BrokerStep
  <2>3. ASSUME NEW w \in Workers, WorkerStep(w) PROVE InDelivery(a)'
    <3>1. CASE Acknowledge(w)
      BY <3>1 DEF Acknowledge
    <3>2. CASE CommitConversation(w)
      BY <3>2 DEF CommitConversation
    <3>3. CASE FinishAudit(w)
      BY <3>3 DEF FinishAudit
    <3>4. CASE MarkFailed(w)
      BY <3>4 DEF MarkFailed, FailedStatus, run
    <3>5. CASE MarkFailedRaises(w)
      BY <3>5 DEF MarkFailedRaises, run
    <3>6. CASE LoadFails(w) \/ RunRaises(w)
      BY <3>6 DEF LoadFails, RunRaises, run
    <3>7. CASE \/ LoadAudit(w) \/ CheckEvaluation(w) \/ InsertEvaluation(w)
               \/ \E c \in Convs : SkipConversation(w, c) \/ OpenConversation(w, c)
      BY <3>7 DEF LoadAudit, CheckEvaluation, InsertEvaluation, SkipConversation, OpenConversation
    <3>8. QED
      BY <2>3, <3>1, <3>2, <3>3, <3>4, <3>5, <3>6, <3>7 DEF WorkerStep
  <2>4. QED
    BY <2>1, <2>2, <2>3 DEF Next
<1>2. QED
  BY <1>1, AlwaysTyped, PTL DEF Spec, TaskKept

-----------------------------------------------------------------------------
(* How much is left to do.                                                 *)

\* The steps that a delivery may still take: four for each conversation ahead, and
\* those of the open one.
Ahead(w) ==
  IF pc[w] = "load" THEN Convs
  ELSE IF pc[w] \in {"loop"} \cup InTxn THEN todo[w] ELSE {}
Stage(step) ==
  CASE step = "idle" -> 0 [] step = "ack" -> 1 [] step = "failing" -> 2
    [] step = "loop" -> 3 [] step = "judge" -> 4 [] step = "evaluate" -> 5
    [] step = "check" -> 6 [] step = "load" -> 4
StepsLeft(w) == 4 * Cardinality(Ahead(w)) + Stage(pc[w])

\* A worker's steps, those of a failing run included, use up what is left, and
\* nothing but a new delivery adds to it: no deletion, retry or race makes a run
\* longer.
RunsCountDown ==
  [][\A w \in Workers :
       /\ WorkerStep(w) => StepsLeft(w)' < StepsLeft(w)
       /\ StepsLeft(w)' > StepsLeft(w) => \E a \in Audits : Receive(w, a)]_vars

LEMMA Sizes ==
  ASSUME NEW S, S \subseteq Convs
  PROVE  /\ Cardinality(S) \in Nat /\ Cardinality(S) <= Cardinality(Convs)
         /\ \A c \in S : Cardinality(S \ {c}) = Cardinality(S) - 1
<1>1. IsFiniteSet(S) /\ Cardinality(S) <= Cardinality(Convs)
  BY FS_Subset
<1>2. Cardinality(S) \in Nat
  BY <1>1, FS_CardinalityType
<1>3. \A c \in S : Cardinality(S \ {c}) = Cardinality(S) - 1
  BY <1>1, FS_RemoveElement
<1>4. QED
  BY <1>1, <1>2, <1>3

LEMMA StepsAreNumbers ==
  ASSUME Typed, NEW w \in Workers
  PROVE  StepsLeft(w) \in 0 .. 4 * Cardinality(Convs) + 6
<1>1. Ahead(w) \subseteq Convs
  BY DEF Ahead, Typed, TypeOK
<1>2. /\ Cardinality(Ahead(w)) \in Nat /\ Cardinality(Convs) \in Nat
      /\ Cardinality(Ahead(w)) <= Cardinality(Convs)
  BY <1>1, Sizes
<1>3. Stage(pc[w]) \in 0 .. 6
  BY DEF Stage, Typed, TypeOK, Steps
<1>4. QED
  BY <1>2, <1>3 DEF StepsLeft

LEMMA StepsGoDown ==
  ASSUME Typed, NEW w \in Workers, WorkerStep(w)
  PROVE  StepsLeft(w)' < StepsLeft(w)
<1> DEFINE n == Cardinality(todo[w])
<1>1. /\ pc \in [Workers -> Steps] /\ todo \in [Workers -> SUBSET Convs]
      /\ job[w] \in Audits \/ pc[w] = "idle"
      /\ links \in [Audits -> SUBSET Convs]
  BY DEF Typed, TypeOK, Placed
<1>2. /\ n \in Nat /\ Cardinality(Convs) \in Nat
      /\ \A c \in todo[w] : Cardinality(todo[w] \ {c}) = n - 1
  BY <1>1, Sizes
<1>3. Cardinality({}) = 0
  BY FS_EmptySet
<1>4. CASE LoadAudit(w)
  <2>1. pc[w] = "load" /\ pc'[w] = "loop" /\ todo'[w] = links[job[w]]
    BY <1>1, <1>4 DEF LoadAudit, ConvIds
  <2>2. links[job[w]] \subseteq Convs
    BY <1>1, <2>1
  <2>3. /\ Cardinality(links[job[w]]) \in Nat
        /\ Cardinality(links[job[w]]) <= Cardinality(Convs)
    BY <2>2, Sizes
  <2>4. StepsLeft(w) = 4 * Cardinality(Convs) + 4
    BY <2>1 DEF StepsLeft, Ahead, Stage
  <2>5. StepsLeft(w)' = 4 * Cardinality(links[job[w]]) + 3
    BY <2>1 DEF StepsLeft, Ahead, Stage
  <2>6. QED
    BY <1>2, <2>3, <2>4, <2>5
<1>5. ASSUME NEW c \in Convs, SkipConversation(w, c) \/ OpenConversation(w, c)
      PROVE  StepsLeft(w)' < StepsLeft(w)
  <2>1. /\ c \in todo[w] /\ todo'[w] = todo[w] \ {c}
        /\ pc[w] = "loop" /\ pc'[w] \in {"loop", "check"}
    BY <1>1, <1>5 DEF SkipConversation, OpenConversation
  <2>2. Cardinality(todo'[w]) = n - 1
    BY <1>2, <2>1
  <2>3. StepsLeft(w) = 4 * n + 3
    BY <2>1 DEF StepsLeft, Ahead, Stage
  <2>4. StepsLeft(w)' = 4 * (n - 1) + (IF pc'[w] = "loop" THEN 3 ELSE 6)
    BY <2>1, <2>2 DEF StepsLeft, Ahead, Stage, InTxn
  <2>5. QED
    BY <1>2, <2>3, <2>4
<1>6. CASE CheckEvaluation(w) \/ InsertEvaluation(w) \/ CommitConversation(w)
  <2>1. /\ todo'[w] = todo[w]
        /\ \/ pc[w] = "check" /\ pc'[w] \in {"evaluate", "judge"}
           \/ pc[w] = "evaluate" /\ pc'[w] = "judge"
           \/ pc[w] = "judge" /\ pc'[w] = "loop"
    BY <1>1, <1>6 DEF CheckEvaluation, InsertEvaluation, CommitConversation
  <2>2. StepsLeft(w) = 4 * n + Stage(pc[w]) /\ StepsLeft(w)' = 4 * n + Stage(pc'[w])
    BY <2>1 DEF StepsLeft, Ahead, InTxn, Stage
  <2>3. Stage(pc'[w]) \in Nat /\ Stage(pc[w]) \in Nat /\ Stage(pc'[w]) < Stage(pc[w])
    BY <2>1 DEF Stage
  <2>4. QED
    BY <1>2, <2>2, <2>3
<1>7. CASE LoadFails(w) \/ FinishAudit(w) \/ RunRaises(w)
  <2>1. /\ pc[w] \in Running /\ pc'[w] \in {"failing", "ack"}
        /\ pc[w] = "load" => pc'[w] = "failing"
    BY <1>1, <1>7 DEF LoadFails, FinishAudit, RunRaises, CanRaise, Running
  <2>2. StepsLeft(w)' \in {1, 2}
    BY <1>3, <2>1 DEF StepsLeft, Ahead, Stage, InTxn
  <2>3. StepsLeft(w) >= 3
    <3>1. Ahead(w) \subseteq Convs
      BY <1>1 DEF Ahead
    <3>2. Cardinality(Ahead(w)) \in Nat
      BY <3>1, Sizes
    <3>3. Stage(pc[w]) \in 3 .. 6
      BY <2>1 DEF Stage, Running, InTxn
    <3>4. QED
      BY <3>2, <3>3 DEF StepsLeft
  <2>4. QED
    BY <2>2, <2>3, StepsAreNumbers
<1>8. CASE MarkFailed(w) \/ MarkFailedRaises(w) \/ Acknowledge(w)
  <2>1. \/ pc[w] = "failing" /\ pc'[w] = "ack"
        \/ pc[w] = "ack" /\ pc'[w] = "idle"
    BY <1>1, <1>8 DEF MarkFailed, MarkFailedRaises, Acknowledge
  <2>2. QED
    BY <1>3, <2>1 DEF StepsLeft, Ahead, Stage, InTxn
<1>9. QED
  BY <1>4, <1>5, <1>6, <1>7, <1>8 DEF WorkerStep

\* The same pc and the same conversations ahead.
LEMMA OthersKeepSteps ==
  ASSUME NEW w \in Workers, pc'[w] = pc[w], todo'[w] = todo[w]
  PROVE  StepsLeft(w)' = StepsLeft(w)
BY DEF StepsLeft, Ahead

\* A delivery comes to its end after at most 4 n + 6 steps of its worker, if the
\* worker lives and the keys it waits for are freed (NobodyIsStuck).
THEOREM RunsAreFinite ==
  Spec => /\ [](\A w \in Workers : StepsLeft(w) \in 0 .. 4 * Cardinality(Convs) + 6)
          /\ RunsCountDown
<1> DEFINE Down ==
      \A w \in Workers :
        /\ WorkerStep(w) => StepsLeft(w)' < StepsLeft(w)
        /\ StepsLeft(w)' > StepsLeft(w) => \E a \in Audits : Receive(w, a)
           Bound == \A w \in Workers : StepsLeft(w) \in 0 .. 4 * Cardinality(Convs) + 6
<1>1. Typed => Bound
  BY StepsAreNumbers
<1>2. Typed /\ [Next]_vars => [Down]_vars
  <2> SUFFICES ASSUME Typed, Next, NEW w \in Workers
               PROVE  /\ WorkerStep(w) => StepsLeft(w)' < StepsLeft(w)
                      /\ StepsLeft(w)' > StepsLeft(w) => \E a \in Audits : Receive(w, a)
    OBVIOUS
  <2>0. pc \in [Workers -> Steps] /\ todo \in [Workers -> SUBSET Convs]
    BY DEF Typed, TypeOK
  <2>1. StepsLeft(w) \in Nat
    BY StepsAreNumbers, FS_CardinalityType
  <2>2. CASE ApiStep
    <3>1. pc' = pc /\ todo' = todo
      BY <2>2 DEF ApiStep, CreateAudit, CommitAudit, RollBackAudit, DeleteConversation,
                  SetLlmKey, run
    <3>2. StepsLeft(w)' = StepsLeft(w)
      BY <3>1, OthersKeepSteps
    <3>3. QED
      BY <2>1, <3>2, StepsGoDown
  <2>3. CASE BrokerStep
    <3>1. \/ pc'[w] = pc[w] /\ todo'[w] = todo[w]
          \/ pc'[w] = "idle"
          \/ \E a \in Audits : Receive(w, a)
      BY <2>0, <2>3 DEF BrokerStep, Receive, Crash, Redeliver, EndRun
    <3>2. pc'[w] = "idle" => StepsLeft(w)' = 0
      BY FS_EmptySet DEF StepsLeft, Ahead, Stage, InTxn
    <3>3. QED
      BY <2>1, <3>1, <3>2, OthersKeepSteps, StepsGoDown
  <2>4. ASSUME NEW v \in Workers, WorkerStep(v)
        PROVE  \/ v = w
               \/ pc'[w] = pc[w] /\ todo'[w] = todo[w]
    BY <2>0, <2>4 DEF WorkerStep, LoadAudit, LoadFails, SkipConversation, OpenConversation,
       CheckEvaluation, InsertEvaluation, CommitConversation, FinishAudit, RunRaises,
       MarkFailed, MarkFailedRaises, Acknowledge, EndRun, run
  <2>5. CASE \E v \in Workers : WorkerStep(v)
    <3>1. StepsLeft(w)' < StepsLeft(w) \/ StepsLeft(w)' = StepsLeft(w)
      BY <2>4, <2>5, OthersKeepSteps, StepsGoDown
    <3>2. ~(StepsLeft(w)' > StepsLeft(w))
      <4>1. Typed'
        BY <2>5, WorkerTyped
      <4>2. Ahead(w)' \subseteq Convs /\ Stage(pc'[w]) \in Nat
        BY <4>1 DEF Ahead, Stage, Typed, TypeOK, Steps
      <4>3. StepsLeft(w)' \in Nat
        BY <4>2, Sizes DEF StepsLeft
      <4>4. QED
        BY <2>1, <3>1, <4>3
    <3>3. QED
      BY <3>2, StepsGoDown
  <2>6. QED
    BY <2>2, <2>3, <2>5 DEF Next
<1>3. QED
  BY <1>1, <1>2, AlwaysTyped, PTL DEF Spec, RunsCountDown
=============================================================================
