----------------------------- MODULE Reputation -----------------------------
(***************************************************************************)
(* The reputation rows of one agent and of its users, which every          *)
(* conversation with a new evaluation updates at the end of its READ       *)
(* COMMITTED transaction: read the row, change it in memory, write it back.*)
(* All conversations of a project have its default agent; the external id  *)
(* of a conversation is unique per agent, so its user row is its own.      *)
(*                                                                         *)
(* The order of the statements matters: the SELECT of the agent's row, its *)
(* UPDATE or INSERT (the session flushes before the next SELECT), the      *)
(* SELECT of the user's row, its write, COMMIT.  The ORM writes the columns*)
(* whose value differs from the loaded one, with literal values.           *)
(*                                                                         *)
(* Averages are in hundredths, as the columns keep two decimals.           *)
(***************************************************************************)
EXTENDS Integers, FiniteSets, Sequences

CONSTANTS Convs,     \* conversations of the agent
          Workers,   \* task slots of the Celery workers
          Answers,   \* what the LLM and the detectors may say of a conversation
          MaxTxns,   \* bound on the transactions
          None       \* no row, no conversation, no answer

AnswerType == [score : 0 .. 100, satisfaction : 1 .. 5, veto : BOOLEAN,
               lead : BOOLEAN, fraud : BOOLEAN]
AgentType == [avg : Int, count : Nat, veto : Nat]
UserType == [avg : Int, count : Nat, frauds : Nat, risky : BOOLEAN,
             label : {"neutral", "recurrente", "lead_calificado", "problematico"}]

ASSUME ReputationAssumption ==
  /\ Answers \subseteq AnswerType
  /\ \A a \in Answers : a.lead => a.satisfaction >= 4
  /\ MaxTxns \in Nat
  /\ None \notin Convs \cup Answers \cup AgentType \cup UserType

VARIABLES
  evaluated,  \* conversations with a committed evaluation
  agent,      \* the agent_reputation row, or None
  users,      \* the user_reputation row of each conversation's user, or None
  pc,         \* where the transaction of a worker is
  cur,        \* its conversation
  adds,       \* whether its INSERT of the evaluation added the row
  answer,     \* what it was told
  seen,       \* the agent row of its SELECT
  agentNew,   \* the agent row it holds in memory
  userSeen,   \* the user row of its SELECT
  started,    \* transactions so far
  told,       \* history: the answers committed, in order, [conv, answer]
  stale       \* history: an agent row was written over one it was not read from

db == <<evaluated, agent, users>>
txn == <<pc, cur, adds, answer, seen, agentNew, userSeen>>
history == <<told, stale>>
vars == <<db, txn, started, history>>

Init ==
  /\ evaluated = {}
  /\ agent = None
  /\ users = [c \in Convs |-> None]
  /\ pc = [w \in Workers |-> "idle"]
  /\ cur = [w \in Workers |-> None]
  /\ adds = [w \in Workers |-> FALSE]
  /\ answer = [w \in Workers |-> None]
  /\ seen = [w \in Workers |-> None]
  /\ agentNew = [w \in Workers |-> None]
  /\ userSeen = [w \in Workers |-> None]
  /\ started = 0
  /\ told = <<>>
  /\ stale = FALSE

-----------------------------------------------------------------------------
(* The rows.                                                               *)

\* rep is None: the counters of the new object start at zero.
NewAgent == [avg |-> 0, count |-> 0, veto |-> 0]
NewUser == [avg |-> 0, count |-> 0, frauds |-> 0, risky |-> FALSE,
            label |-> "neutral"]
OrNew(row, new) == IF row = None THEN new ELSE row

\* Variants a bug would give are defined before the definition they stand for;
\* nothing else uses them.

\* merge_avg and round(..., 2): a nearest hundredth.
MergeAvg(avg, count, value) ==
  LET sum == avg * count + 100 * value
      n == count + 1
      low == sum \div n
  IN  IF count = 0 THEN {100 * value}
      ELSE {h \in {low, low + 1} : 2 * (sum - h * n) \in -n .. n}

\* Bug: a flag instead of a count.
VetoAfter_Flag(row, a) == IF a.veto THEN 1 ELSE row.veto
VetoAfter(row, a) == IF a.veto THEN row.veto + 1 ELSE row.veto

\* update_agent_reputation: the rows it may leave in memory.
AgentAfter(row, a) ==
  {[avg |-> avg, count |-> row.count + 1, veto |-> VetoAfter(row, a)] :
     avg \in MergeAvg(row.avg, row.count, a.score)}

RiskLabel(frauds, avg, lead) ==
  IF frauds >= 2 THEN "problematico"
  ELSE IF lead THEN "lead_calificado"
  ELSE IF avg >= 400 THEN "recurrente" ELSE "neutral"

\* update_user_reputation.
UserAfter(row, a) ==
  LET frauds == IF a.fraud THEN row.frauds + 1 ELSE row.frauds
  IN  {[avg |-> avg, count |-> row.count + 1, frauds |-> frauds,
        risky |-> frauds >= 2, label |-> RiskLabel(frauds, avg, a.lead)] :
         avg \in MergeAvg(row.avg, row.count, a.satisfaction)}

\* The UPDATE of a row sets the columns that differ from the loaded ones; an
\* INSERT sets all of them.
Written(row, loaded, new) ==
  IF loaded = None THEN new
  ELSE [f \in DOMAIN row |-> IF new[f] = loaded[f] THEN row[f] ELSE new[f]]

-----------------------------------------------------------------------------
(* A transaction.                                                          *)

\* A run finds no evaluation of the conversation and asks the LLM.
Begin(w, c) ==
  /\ pc[w] = "idle"
  /\ started < MaxTxns
  /\ c \notin evaluated
  /\ pc' = [pc EXCEPT ![w] = "asked"]
  /\ cur' = [cur EXCEPT ![w] = c]
  /\ started' = started + 1
  /\ UNCHANGED <<db, adds, answer, seen, agentNew, userSeen, history>>

\* ON CONFLICT DO NOTHING waits for an open transaction that has added the
\* evaluation of the same conversation.
KeyIsFree(w) == \A v \in Workers \ {w} : adds[v] => cur[v] # cur[w]

\* The answer has come. That the row was there already changes nothing in what
\* follows.
InsertEvaluation(w) ==
  /\ pc[w] = "asked"
  /\ KeyIsFree(w)
  /\ adds' = [adds EXCEPT ![w] = cur[w] \notin evaluated]
  /\ \E a \in Answers : answer' = [answer EXCEPT ![w] = a]
  /\ pc' = [pc EXCEPT ![w] = "evaluated"]
  /\ UNCHANGED <<db, cur, seen, agentNew, userSeen, started, history>>

\* update_agent_reputation: SELECT, then only memory.
LoadAgent(w) ==
  /\ pc[w] = "evaluated"
  /\ seen' = [seen EXCEPT ![w] = agent]
  /\ \E new \in AgentAfter(OrNew(agent, NewAgent), answer[w]) :
       agentNew' = [agentNew EXCEPT ![w] = new]
  /\ pc' = [pc EXCEPT ![w] = "agent"]
  /\ UNCHANGED <<db, cur, adds, answer, userSeen, started, history>>

\* Bugs: the session does not flush before a SELECT, so both rows are written at
\* the COMMIT; the row is read FOR SHARE, a lock that two may hold.
HasAgentRow_AtCommit(v) == FALSE
HasAgentRow_Shared(v) == pc[v] \in {"agent", "user"}

\* From the flush to the end, the transaction holds the agent's row: its count
\* always changes, so there is always something to write.
HasAgentRow(v) == pc[v] = "user"
AgentRowIsFree(w) == \A v \in Workers \ {w} : ~HasAgentRow(v)

\* An INSERT of the agent's row after another one has committed.
Clashes(w) == seen[w] = None /\ agent # None

\* update_user_reputation: the SELECT flushes the agent's row first, which waits
\* for the transaction that holds it.
FlushAgent(w) ==
  /\ pc[w] = "agent"
  /\ AgentRowIsFree(w)
  /\ ~Clashes(w)
  /\ userSeen' = [userSeen EXCEPT ![w] = users[cur[w]]]
  /\ pc' = [pc EXCEPT ![w] = "user"]
  /\ UNCHANGED <<db, cur, adds, answer, seen, agentNew, started, history>>

\* Nothing of the transaction remains in memory, locks or keys.
End(w) ==
  /\ pc' = [pc EXCEPT ![w] = "idle"]
  /\ cur' = [cur EXCEPT ![w] = None]
  /\ adds' = [adds EXCEPT ![w] = FALSE]
  /\ answer' = [answer EXCEPT ![w] = None]
  /\ seen' = [seen EXCEPT ![w] = None]
  /\ agentNew' = [agentNew EXCEPT ![w] = None]
  /\ userSeen' = [userSeen EXCEPT ![w] = None]
RollBack(w) == End(w) /\ UNCHANGED <<db, started, history>>

\* IntegrityError on the unique agent_id: the run fails.
FlushFails(w) ==
  /\ pc[w] = "agent"
  /\ AgentRowIsFree(w)
  /\ Clashes(w)
  /\ RollBack(w)

\* The user's row is written, then the progress, then COMMIT.
Commit(w) ==
  LET c == cur[w]
      a == answer[w]
  IN  /\ pc[w] = "user"
      /\ userSeen[w] = None => users[c] = None
      /\ evaluated' = evaluated \cup {c}
      /\ agent' = Written(agent, seen[w], agentNew[w])
      /\ \E new \in UserAfter(OrNew(userSeen[w], NewUser), a) :
           users' = [users EXCEPT ![c] = Written(@, userSeen[w], new)]
      /\ told' = Append(told, [conv |-> c, answer |-> a])
      /\ stale' = (stale \/ seen[w] # agent)
      /\ End(w)
      /\ UNCHANGED started

\* An exception, or the loss of the worker.
Abort(w) == pc[w] # "idle" /\ RollBack(w)

-----------------------------------------------------------------------------
Statement(w) ==
  \/ InsertEvaluation(w) \/ LoadAgent(w)
  \/ FlushAgent(w) \/ FlushFails(w) \/ Commit(w)

Next ==
  \E w \in Workers : Statement(w) \/ Abort(w) \/ \E c \in Convs : Begin(w, c)

Spec == Init /\ [][Next]_vars

\* A statement that need not wait is executed; nobody has to begin or abort.
FairSpec == Spec /\ \A w \in Workers : WF_vars(Statement(w))
-----------------------------------------------------------------------------
(* Properties.                                                             *)

TypeOK ==
  /\ evaluated \subseteq Convs
  /\ agent \in AgentType \cup {None}
  /\ users \in [Convs -> UserType \cup {None}]
  /\ pc \in [Workers -> {"idle", "asked", "evaluated", "agent", "user"}]
  /\ cur \in [Workers -> Convs \cup {None}]
  /\ adds \in [Workers -> BOOLEAN]
  /\ answer \in [Workers -> Answers \cup {None}]
  /\ seen \in [Workers -> AgentType \cup {None}]
  /\ agentNew \in [Workers -> AgentType \cup {None}]
  /\ userSeen \in [Workers -> UserType \cup {None}]
  /\ started \in Nat
  /\ told \in Seq([conv : Convs, answer : Answers])
  /\ stale \in BOOLEAN

\* What was committed, told apart by what the rows count.
Vetoes == {i \in DOMAIN told : told[i].answer.veto}
Of(c) == {i \in DOMAIN told : told[i].conv = c}
Frauds(c) == {i \in Of(c) : told[i].answer.fraud}

\* "conteo de VETO": the row of the agent never counts more than what was
\* committed, and counts exactly that unless two transactions overlapped between
\* the SELECT of the row and its write.
AgentCounts ==
  LET row == OrNew(agent, NewAgent)
  IN  /\ row.count <= Len(told) /\ row.veto <= Cardinality(Vetoes)
      /\ ~stale => row.count = Len(told) /\ row.veto = Cardinality(Vetoes)

\* The user's row needs no lock of its own: transactions on one conversation are
\* kept apart by the key of its evaluation and by the agent's row, so no fraud
\* attempt is lost, and the risk flag and the label follow from the attempts.
UserExact ==
  \A c \in Convs :
    LET row == OrNew(users[c], NewUser)
    IN  /\ row.count = Cardinality(Of(c))
        /\ row.frauds = Cardinality(Frauds(c))
        /\ row.risky <=> row.frauds >= 2
        /\ row.label = "problematico" <=> row.frauds >= 2

\* The waits for keys and rows never form a cycle: a transaction that has begun
\* ends, even if nothing fails.
TransactionsEnd == \A w \in Workers : (pc[w] # "idle") ~> (pc[w] = "idle")
=============================================================================
