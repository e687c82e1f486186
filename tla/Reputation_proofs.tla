-------------------------- MODULE Reputation_proofs --------------------------
(***************************************************************************)
(* Proofs about Reputation for every set of conversations, workers and     *)
(* answers: its type invariant, that the row of a user is exact although   *)
(* nothing locks it for its own sake, what the row of the agent counts     *)
(* although its updates may be lost, how far the rounded averages are from *)
(* the means they stand for, and that a transaction takes four statements. *)
(***************************************************************************)
EXTENDS Reputation, FiniteSetTheorems, SequenceTheorems, TLAPS

USE ReputationAssumption

\* What a transaction has got so far.
Served ==
  \A w \in Workers :
    /\ pc[w] # "idle" => cur[w] \in Convs
    /\ pc[w] \in {"evaluated", "agent", "user"} => answer[w] \in Answers
    /\ pc[w] \in {"agent", "user"} => agentNew[w] \in AgentType

Typed == TypeOK /\ Served

\* The row of the agent orders the ends of the transactions: who has it is alone,
\* so what it has read of the user is what is committed.
HolderIsAlone ==
  \A w \in Workers : pc[w] = "user" =>
    /\ \A v \in Workers \ {w} : pc[v] # "user"
    /\ userSeen[w] = users[cur[w]]
    /\ seen[w] = None => agent = None

\* What a transaction holds of the agent is one more than what it has read, which
\* was no more than what had been committed.
ReadIsBehind ==
  \A w \in Workers : pc[w] \in {"agent", "user"} =>
    LET row == OrNew(seen[w], NewAgent)
    IN  /\ agentNew[w].count = row.count + 1
        /\ agentNew[w].veto = VetoAfter(row, answer[w])
        /\ row.count <= Len(told)
        /\ row.veto <= Cardinality(Vetoes)
        /\ seen[w] # None => agent # None

RInv == Typed /\ HolderIsAlone /\ ReadIsBehind /\ AgentCounts /\ UserExact

-----------------------------------------------------------------------------
(* Rows and answers.                                                       *)

LEMMA AveragesAreNumbers ==
  ASSUME NEW avg \in Int, NEW count \in Nat, NEW value \in Int,
         NEW h \in MergeAvg(avg, count, value)
  PROVE  h \in Int
<1>1. avg * count + 100 * value \in Int /\ count + 1 \in Nat \ {0}
  OBVIOUS
<1>2. (avg * count + 100 * value) \div (count + 1) \in Int
  BY <1>1
<1>3. QED
  BY <1>2 DEF MergeAvg

LEMMA AgentAfterTyped ==
  ASSUME NEW row \in AgentType, NEW a \in Answers, NEW new \in AgentAfter(row, a)
  PROVE  /\ new \in AgentType
         /\ new.count = row.count + 1
         /\ new.veto = VetoAfter(row, a)
<1>1. a.score \in Int /\ a.veto \in BOOLEAN
  BY DEF AnswerType
<1>2. PICK avg \in MergeAvg(row.avg, row.count, a.score) :
        new = [avg |-> avg, count |-> row.count + 1, veto |-> VetoAfter(row, a)]
  BY DEF AgentAfter
<1>3. row.avg \in Int /\ row.count \in Nat /\ row.veto \in Nat
  BY DEF AgentType
<1>4. avg \in Int
  BY <1>1, <1>3, AveragesAreNumbers
<1>5. VetoAfter(row, a) \in Nat
  BY <1>3 DEF VetoAfter
<1>6. QED
  BY <1>2, <1>3, <1>4, <1>5 DEF AgentType

LEMMA UserAfterTyped ==
  ASSUME NEW row \in UserType, NEW a \in Answers, NEW new \in UserAfter(row, a)
  PROVE  /\ new \in UserType
         /\ new.count = row.count + 1
         /\ new.frauds = IF a.fraud THEN row.frauds + 1 ELSE row.frauds
         /\ new.risky <=> new.frauds >= 2
         /\ new.label = "problematico" <=> new.frauds >= 2
<1> DEFINE frauds == IF a.fraud THEN row.frauds + 1 ELSE row.frauds
<1>1. a.satisfaction \in Int /\ a.fraud \in BOOLEAN
  BY DEF AnswerType
<1>2. PICK avg \in MergeAvg(row.avg, row.count, a.satisfaction) :
        new = [avg |-> avg, count |-> row.count + 1, frauds |-> frauds,
               risky |-> frauds >= 2, label |-> RiskLabel(frauds, avg, a.lead)]
  BY DEF UserAfter
<1>3. row.avg \in Int /\ row.count \in Nat /\ row.frauds \in Nat
  BY DEF UserType
<1>4. avg \in Int /\ frauds \in Nat
  BY <1>1, <1>3, AveragesAreNumbers
<1> HIDE DEF frauds
<1>5. /\ RiskLabel(frauds, avg, a.lead) \in
           {"neutral", "recurrente", "lead_calificado", "problematico"}
      /\ RiskLabel(frauds, avg, a.lead) = "problematico" <=> frauds >= 2
  BY <1>4 DEF RiskLabel
<1>6. new \in UserType
  BY <1>2, <1>3, <1>4, <1>5 DEF UserType
<1>7. new.frauds = frauds /\ new.count = row.count + 1
  BY <1>2
<1>8. new.risky <=> frauds >= 2
  BY <1>2, Zenon
<1>9. new.label = "problematico" <=> frauds >= 2
  BY <1>2, <1>5
<1>10. QED
  BY <1>6, <1>7, <1>8, <1>9 DEF frauds

\* The rows that the code starts from.
LEMMA NewRows ==
  /\ \A row \in AgentType \cup {None} : OrNew(row, NewAgent) \in AgentType
  /\ \A row \in UserType \cup {None} : OrNew(row, NewUser) \in UserType
BY DEF OrNew, NewAgent, NewUser, AgentType, UserType

\* Some of the first n numbers, and those with the next one.
LEMMA OneMore ==
  ASSUME NEW n \in Nat, NEW S, S \subseteq 1 .. n
  PROVE  /\ IsFiniteSet(S) /\ Cardinality(S) \in Nat
         /\ Cardinality(S \cup {n + 1}) = Cardinality(S) + 1
<1>1. IsFiniteSet(S)
  <2>1. S \in SUBSET Nat /\ \A k \in S : k <= n
    OBVIOUS
  <2>2. QED
    BY <2>1, FS_BoundedSetOfNaturals
<1>2. n + 1 \notin S
  OBVIOUS
<1>3. QED
  BY <1>1, <1>2, FS_CardinalityType, FS_AddElement

-----------------------------------------------------------------------------
(* Types.                                                                  *)

LEMMA InitTyped == Init => Typed
<1> SUFFICES ASSUME Init PROVE Typed
  OBVIOUS
<1>1. told \in Seq([conv : Convs, answer : Answers])
  BY DEF Init
<1>2. QED
  BY <1>1 DEF Init, Typed, TypeOK, Served

LEMMA RollBackTyped ==
  ASSUME Typed, NEW w \in Workers, RollBack(w)
  PROVE  Typed'
BY DEF Typed, TypeOK, Served, RollBack, End, db, history

\* What a commit leaves in a row that it has read last, or reads for the first
\* time, is what it holds; otherwise it is a row.
LEMMA WrittenUser ==
  ASSUME NEW row \in UserType \cup {None}, NEW new \in UserType
  PROVE  Written(row, row, new) = new
<1>1. CASE row = None
  BY <1>1 DEF Written
<1>2. CASE row \in UserType
  BY <1>2 DEF Written, UserType
<1>3. QED
  BY <1>1, <1>2

LEMMA WrittenAgent ==
  ASSUME NEW row \in AgentType \cup {None}, NEW loaded \in AgentType \cup {None},
         NEW new \in AgentType, loaded # None => row # None
  PROVE  /\ Written(row, loaded, new) \in AgentType
         /\ loaded = None => Written(row, loaded, new) = new
         /\ loaded = row => Written(row, loaded, new) = new
         /\ loaded # None => \A f \in {"count", "veto"} :
              Written(row, loaded, new)[f] =
                IF new[f] = loaded[f] THEN row[f] ELSE new[f]
<1>1. CASE loaded = None
  BY <1>1 DEF Written
<1>2. CASE loaded # None
  <2>1. row \in AgentType /\ loaded \in AgentType
    BY <1>2
  <2>2. Written(row, loaded, new) =
          [f \in {"avg", "count", "veto"} |->
             IF new[f] = loaded[f] THEN row[f] ELSE new[f]]
    BY <1>2, <2>1 DEF Written, AgentType
  <2>3. Written(row, loaded, new) \in AgentType
    BY <2>1, <2>2 DEF AgentType
  <2>4. loaded = row => Written(row, loaded, new) = new
    BY <2>1, <2>2 DEF AgentType
  <2>5. QED
    BY <1>2, <2>2, <2>3, <2>4
<1>3. QED
  BY <1>1, <1>2

\* What the history gains from a commit.
LEMMA CommitTells ==
  ASSUME Typed, NEW w \in Workers, Commit(w)
  PROVE  /\ told' \in Seq([conv : Convs, answer : Answers])
         /\ Len(told) \in Nat /\ Len(told') = Len(told) + 1
         /\ Cardinality(Vetoes) \in Nat
         /\ Cardinality(Vetoes') =
              IF answer[w].veto THEN Cardinality(Vetoes) + 1 ELSE Cardinality(Vetoes)
         /\ \A c \in Convs :
              /\ Cardinality(Of(c)) \in Nat /\ Cardinality(Frauds(c)) \in Nat
              /\ Cardinality(Of(c)') =
                   IF c = cur[w] THEN Cardinality(Of(c)) + 1 ELSE Cardinality(Of(c))
              /\ Cardinality(Frauds(c)') =
                   IF c = cur[w] /\ answer[w].fraud
                   THEN Cardinality(Frauds(c)) + 1 ELSE Cardinality(Frauds(c))
<1> DEFINE n == Len(told)
           last == [conv |-> cur[w], answer |-> answer[w]]
<1>1. last \in [conv : Convs, answer : Answers]
  BY DEF Typed, Served, Commit
<1>2. told' = Append(told, last) /\ told \in Seq([conv : Convs, answer : Answers])
  BY DEF Typed, TypeOK, Commit
<1> HIDE DEF last
<1>3. /\ told' \in Seq([conv : Convs, answer : Answers])
      /\ n \in Nat /\ Len(told') = n + 1
      /\ \A i \in 1 .. n : told'[i] = told[i]
      /\ told'[n + 1] = last
  BY <1>1, <1>2, AppendProperties, LenProperties
<1>4. DOMAIN told = 1 .. n /\ DOMAIN told' = 1 .. n + 1
  BY <1>2, <1>3, LenProperties
<1>5. /\ Vetoes \subseteq 1 .. n
      /\ Vetoes' = IF last.answer.veto THEN Vetoes \cup {n + 1} ELSE Vetoes
  <2> HIDE DEF n
  <2>1. Vetoes \subseteq 1 .. n
    BY <1>4 DEF Vetoes
  <2>2. Vetoes' = {i \in 1 .. n + 1 : told'[i].answer.veto}
    BY <1>4 DEF Vetoes
  <2>3. QED
    BY <1>3, <1>4, <2>1, <2>2 DEF Vetoes
<1>6. ASSUME NEW c \in Convs
      PROVE  /\ Of(c) \subseteq 1 .. n
             /\ Of(c)' = IF c = last.conv THEN Of(c) \cup {n + 1} ELSE Of(c)
             /\ Frauds(c) \subseteq 1 .. n
             /\ Frauds(c)' = IF c = last.conv /\ last.answer.fraud
                             THEN Frauds(c) \cup {n + 1} ELSE Frauds(c)
  <2> HIDE DEF n
  <2>1. Of(c) \subseteq 1 .. n
    BY <1>4 DEF Of
  <2>2. Of(c)' = {i \in 1 .. n + 1 : told'[i].conv = c}
    BY <1>4 DEF Of
  <2>3. Of(c)' = IF c = last.conv THEN Of(c) \cup {n + 1} ELSE Of(c)
    BY <1>3, <1>4, <2>2 DEF Of
  <2>4. Frauds(c)' = {i \in Of(c)' : told'[i].answer.fraud}
    BY DEF Frauds
  <2>5. n + 1 \notin Of(c)
    BY <1>3, <2>1
  <2>6. Frauds(c)' = IF c = last.conv /\ last.answer.fraud
                     THEN Frauds(c) \cup {n + 1} ELSE Frauds(c)
    BY <1>3, <2>1, <2>3, <2>4, <2>5 DEF Frauds
  <2>7. QED
    BY <2>1, <2>3, <2>6 DEF Frauds
<1>7. last.conv = cur[w] /\ last.answer = answer[w]
  BY DEF last
<1>8. /\ Cardinality(Vetoes) \in Nat
      /\ Cardinality(Vetoes') =
           IF answer[w].veto THEN Cardinality(Vetoes) + 1 ELSE Cardinality(Vetoes)
  BY <1>3, <1>5, <1>7, OneMore
<1>9. \A c \in Convs :
        /\ Cardinality(Of(c)) \in Nat /\ Cardinality(Frauds(c)) \in Nat
        /\ Cardinality(Of(c)') =
             IF c = cur[w] THEN Cardinality(Of(c)) + 1 ELSE Cardinality(Of(c))
        /\ Cardinality(Frauds(c)') =
             IF c = cur[w] /\ answer[w].fraud
             THEN Cardinality(Frauds(c)) + 1 ELSE Cardinality(Frauds(c))
  <2> HIDE DEF n
  <2> TAKE c \in Convs
  <2>1. /\ Cardinality(Of(c)) \in Nat
        /\ Cardinality(Of(c) \cup {n + 1}) = Cardinality(Of(c)) + 1
    BY <1>3, <1>6, OneMore
  <2>2. /\ Cardinality(Frauds(c)) \in Nat
        /\ Cardinality(Frauds(c) \cup {n + 1}) = Cardinality(Frauds(c)) + 1
    BY <1>3, <1>6, OneMore
  <2>3. QED
    BY <1>6, <1>7, <2>1, <2>2
<1>10. QED
  BY <1>3, <1>8, <1>9

-----------------------------------------------------------------------------
(* The steps.                                                              *)

LEMMA InitRInv == Init => RInv
<1> SUFFICES ASSUME Init PROVE HolderIsAlone /\ ReadIsBehind /\ AgentCounts /\ UserExact
  BY InitTyped DEF RInv
<1>1. HolderIsAlone /\ ReadIsBehind
  BY DEF Init, HolderIsAlone, ReadIsBehind
<1>2. Len(told) = 0 /\ DOMAIN told = {}
  BY DEF Init
<1>3. Vetoes = {} /\ \A c \in Convs : Of(c) = {} /\ Frauds(c) = {}
  BY <1>2 DEF Vetoes, Of, Frauds
<1>4. AgentCounts
  BY <1>2, <1>3, FS_EmptySet DEF Init, AgentCounts, OrNew, NewAgent
<1>5. UserExact
  <2>1. /\ NewUser.count = 0 /\ NewUser.frauds = 0
        /\ ~NewUser.risky /\ NewUser.label = "neutral"
    BY DEF NewUser
  <2>2. \A c \in Convs : OrNew(users[c], NewUser) = NewUser
    BY DEF Init, OrNew
  <2>3. QED
    BY <1>3, <2>1, <2>2, FS_EmptySet DEF UserExact
<1>6. QED
  BY <1>1, <1>4, <1>5

\* A step of one transaction that commits nothing.
LEMMA NothingCommitted ==
  ASSUME AgentCounts, UserExact, UNCHANGED <<db, history>>
  PROVE  AgentCounts' /\ UserExact'
<1>1. AgentCounts'
  BY DEF AgentCounts, Vetoes, db, history
<1>2. \A c \in Convs : Of(c)' = Of(c) /\ Frauds(c)' = Frauds(c)
  BY DEF Of, Frauds, history
<1>3. UserExact'
  BY <1>2 DEF UserExact, db
<1>4. QED
  BY <1>1, <1>3

LEMMA RollBackKeeps ==
  ASSUME RInv, NEW w \in Workers, RollBack(w)
  PROVE  RInv'
<1> USE DEF RInv, RollBack
<1>1. HolderIsAlone' /\ ReadIsBehind'
  BY DEF HolderIsAlone, ReadIsBehind, End, db, history, Vetoes, Typed, TypeOK
<1>2. QED
  BY <1>1, RollBackTyped, NothingCommitted

LEMMA CommitKeeps ==
  ASSUME RInv, NEW w \in Workers, Commit(w)
  PROVE  RInv'
<1> DEFINE c == cur[w]
           a == answer[w]
           row == OrNew(users[c], NewUser)
           held == OrNew(seen[w], NewAgent)
<1> USE DEF RInv
<1>1. /\ pc[w] = "user" /\ c \in Convs /\ a \in Answers /\ agentNew[w] \in AgentType
      /\ userSeen[w] = users[c]
      /\ \A v \in Workers \ {w} : pc[v] # "user"
      /\ users[c] \in UserType \cup {None} /\ row \in UserType
      /\ held \in AgentType
      /\ seen[w] \in AgentType \cup {None} /\ agent \in AgentType \cup {None}
      /\ seen[w] # None => agent # None
      /\ seen[w] = None => agent = None
  BY NewRows DEF Commit, Typed, TypeOK, Served, HolderIsAlone, ReadIsBehind
<1>2. PICK new \in UserAfter(row, a) :
        users' = [users EXCEPT ![c] = Written(users[c], users[c], new)]
  BY <1>1 DEF Commit
<1>3. /\ new \in UserType /\ new.count = row.count + 1
      /\ new.frauds = IF a.fraud THEN row.frauds + 1 ELSE row.frauds
      /\ new.risky <=> new.frauds >= 2
      /\ new.label = "problematico" <=> new.frauds >= 2
  BY <1>1, <1>2, UserAfterTyped
<1>4. users' = [users EXCEPT ![c] = new]
  BY <1>1, <1>2, <1>3, WrittenUser
<1>5. agent' = Written(agent, seen[w], agentNew[w]) /\ agent' \in AgentType
  BY <1>1, WrittenAgent DEF Commit
<1>0. /\ Len(told) \in Nat /\ Len(told') = Len(told) + 1
      /\ Cardinality(Vetoes) \in Nat
      /\ Cardinality(Vetoes') =
           IF a.veto THEN Cardinality(Vetoes) + 1 ELSE Cardinality(Vetoes)
  BY CommitTells
<1> HIDE DEF row, held
<1>6. Typed'
  <2>1. users' \in [Convs -> UserType \cup {None}]
    BY <1>1, <1>3, <1>4 DEF Typed, TypeOK
  <2>2. TypeOK'
    BY <1>1, <1>5, <2>1, CommitTells DEF Commit, End, Typed, TypeOK
  <2>3. Served'
    BY DEF Commit, End, Typed, TypeOK, Served
  <2>4. QED
    BY <2>2, <2>3 DEF Typed
<1>7. HolderIsAlone'
  BY <1>1 DEF HolderIsAlone, Commit, End, Typed, TypeOK
<1>8. ReadIsBehind'
  <2> SUFFICES ASSUME NEW v \in Workers, pc'[v] \in {"agent", "user"}
               PROVE  LET r == OrNew(seen'[v], NewAgent)
                      IN  /\ agentNew'[v].count = r.count + 1
                          /\ agentNew'[v].veto = VetoAfter(r, answer'[v])
                          /\ r.count <= Len(told')
                          /\ r.veto <= Cardinality(Vetoes')
                          /\ seen'[v] # None => agent' # None
    BY DEF ReadIsBehind
  <2>1. v # w /\ pc[v] \in {"agent", "user"} /\ seen'[v] = seen[v]
        /\ agentNew'[v] = agentNew[v] /\ answer'[v] = answer[v]
    BY DEF Commit, End, Typed, TypeOK
  <2>2. OrNew(seen[v], NewAgent) \in AgentType
    BY NewRows DEF Typed, TypeOK
  <2>3. agent' # None
    BY <1>5
  <2>4. \A r \in AgentType : r.count \in Nat /\ r.veto \in Nat
    BY DEF AgentType
  <2>5. QED
    BY <1>0, <2>1, <2>2, <2>3, <2>4 DEF ReadIsBehind
<1>9. AgentCounts'
  <2> DEFINE now == OrNew(agent, NewAgent)
  <2>1. /\ now \in AgentType
        /\ now.count <= Len(told) /\ now.veto <= Cardinality(Vetoes)
        /\ ~stale => now.count = Len(told) /\ now.veto = Cardinality(Vetoes)
    BY <1>1, NewRows DEF AgentCounts
  <2>2. /\ agentNew[w].count = held.count + 1
        /\ agentNew[w].veto = VetoAfter(held, a)
        /\ held.count <= Len(told) /\ held.veto <= Cardinality(Vetoes)
    BY <1>1 DEF ReadIsBehind, held
  <2>3. OrNew(agent', NewAgent) = agent'
    BY <1>5 DEF OrNew
  <2>4. \A r \in AgentType : r.count \in Nat /\ r.veto \in Nat
    BY DEF AgentType
  <2>5. a.veto \in BOOLEAN
    BY <1>1 DEF AnswerType
  <2>6. seen[w] = agent => agent' = agentNew[w] /\ held = now
    BY <1>1, <1>5, WrittenAgent DEF held
  <2>7. \/ agent' = agentNew[w]
        \/ /\ agent'.count \in {now.count, agentNew[w].count}
           /\ \/ agent'.veto = now.veto
              \/ agent'.veto = agentNew[w].veto /\ agentNew[w].veto # held.veto
    BY <1>1, <1>5, WrittenAgent DEF held, OrNew
  <2>8. /\ agentNew[w].count <= Len(told')
        /\ agentNew[w].veto <= Cardinality(Vetoes')
    BY <1>0, <1>1, <2>2, <2>4, <2>5 DEF VetoAfter
  <2>9. agent'.count <= Len(told') /\ agent'.veto <= Cardinality(Vetoes')
    BY <1>0, <1>1, <2>1, <2>4, <2>7, <2>8
  <2>10. ~stale' => agent'.count = Len(told') /\ agent'.veto = Cardinality(Vetoes')
    <3> SUFFICES ASSUME ~stale'
                 PROVE  agent'.count = Len(told') /\ agent'.veto = Cardinality(Vetoes')
      OBVIOUS
    <3>1. ~stale /\ seen[w] = agent
      BY DEF Commit
    <3>2. agent' = agentNew[w] /\ held = now
      BY <2>6, <3>1
    <3>3. now.count = Len(told) /\ now.veto = Cardinality(Vetoes)
      BY <2>1, <3>1
    <3>4. QED
      BY <1>0, <2>2, <2>5, <3>2, <3>3 DEF VetoAfter
  <2>11. QED
    BY <2>3, <2>9, <2>10 DEF AgentCounts
<1>10. UserExact'
  <2> SUFFICES ASSUME NEW d \in Convs
               PROVE  LET r == OrNew(users'[d], NewUser)
                      IN  /\ r.count = Cardinality(Of(d)')
                          /\ r.frauds = Cardinality(Frauds(d)')
                          /\ r.risky <=> r.frauds >= 2
                          /\ r.label = "problematico" <=> r.frauds >= 2
    BY DEF UserExact
  <2>1. CASE d = c
    <3>1. OrNew(users'[c], NewUser) = new
      BY <1>1, <1>3, <1>4 DEF OrNew, Typed, TypeOK
    <3>2. row.count = Cardinality(Of(d)) /\ row.frauds = Cardinality(Frauds(d))
      BY <1>1, <2>1 DEF UserExact, row
    <3>3. /\ Cardinality(Of(d)') = Cardinality(Of(d)) + 1
          /\ Cardinality(Frauds(d)') =
               IF a.fraud THEN Cardinality(Frauds(d)) + 1 ELSE Cardinality(Frauds(d))
      BY <2>1, CommitTells
    <3>4. new.count = Cardinality(Of(d)') /\ new.frauds = Cardinality(Frauds(d)')
      BY <1>3, <3>2, <3>3
    <3>5. QED
      BY <1>3, <2>1, <3>1, <3>4, Zenon
  <2>2. CASE d # c
    <3>1. users'[d] = users[d]
      BY <1>4, <2>2 DEF Typed, TypeOK
    <3>2. Cardinality(Of(d)') = Cardinality(Of(d))
          /\ Cardinality(Frauds(d)') = Cardinality(Frauds(d))
      BY <2>2, CommitTells
    <3>3. QED
      BY <3>1, <3>2 DEF UserExact
  <2>3. QED
    BY <2>1, <2>2
<1>11. QED
  BY <1>6, <1>7, <1>8, <1>9, <1>10

LEMMA StepKeeps ==
  ASSUME RInv, NEW w \in Workers,
         \/ InsertEvaluation(w) \/ LoadAgent(w) \/ FlushAgent(w)
         \/ \E c \in Convs : Begin(w, c)
  PROVE  RInv'
<1> USE DEF RInv, Typed, TypeOK, Served, db, history
<1>1. ASSUME NEW c \in Convs, Begin(w, c) PROVE RInv'
  <2> USE <1>1 DEF Begin
  <2>1. Typed'
    OBVIOUS
  <2>2. HolderIsAlone' /\ ReadIsBehind'
    BY DEF HolderIsAlone, ReadIsBehind, Vetoes
  <2>3. QED
    BY <2>1, <2>2, NothingCommitted
<1>2. CASE InsertEvaluation(w)
  <2> USE <1>2 DEF InsertEvaluation
  <2>1. Typed'
    OBVIOUS
  <2>2. HolderIsAlone' /\ ReadIsBehind'
    BY DEF HolderIsAlone, ReadIsBehind, Vetoes
  <2>3. QED
    BY <2>1, <2>2, NothingCommitted
<1>3. CASE LoadAgent(w)
  <2> USE <1>3 DEF LoadAgent
  <2>1. PICK new \in AgentAfter(OrNew(agent, NewAgent), answer[w]) :
          agentNew' = [agentNew EXCEPT ![w] = new]
    OBVIOUS
  <2>2. OrNew(agent, NewAgent) \in AgentType
    BY NewRows
  <2>3. /\ new \in AgentType
        /\ new.count = OrNew(agent, NewAgent).count + 1
        /\ new.veto = VetoAfter(OrNew(agent, NewAgent), answer[w])
    BY <2>1, <2>2, AgentAfterTyped
  <2>4. Typed'
    BY <2>1, <2>3
  <2>5. HolderIsAlone'
    BY DEF HolderIsAlone
  <2>6. ReadIsBehind'
    BY <2>1, <2>3 DEF ReadIsBehind, AgentCounts, Vetoes
  <2>7. QED
    BY <2>4, <2>5, <2>6, NothingCommitted
<1>4. CASE FlushAgent(w)
  <2> USE <1>4 DEF FlushAgent
  <2>1. Typed'
    OBVIOUS
  <2>2. HolderIsAlone'
    BY DEF HolderIsAlone, AgentRowIsFree, HasAgentRow, Clashes
  <2>3. ReadIsBehind'
    BY DEF ReadIsBehind, Vetoes
  <2>4. QED
    BY <2>1, <2>2, <2>3, NothingCommitted
<1>5. QED
  BY <1>1, <1>2, <1>3, <1>4

LEMMA StutterRInv == RInv /\ UNCHANGED vars => RInv'
<1> SUFFICES ASSUME RInv, UNCHANGED vars PROVE RInv'
  OBVIOUS
<1>1. AgentCounts' /\ UserExact'
  BY NothingCommitted DEF RInv, vars
<1>2. QED
  BY <1>1 DEF RInv, Typed, TypeOK, Served, HolderIsAlone, ReadIsBehind, Vetoes, vars,
     db, txn, history

LEMMA AlwaysRInv == Spec => []RInv
<1>1. RInv /\ [Next]_vars => RInv'
  BY StepKeeps, CommitKeeps, RollBackKeeps, StutterRInv
     DEF Next, Statement, FlushFails, Abort
<1>2. QED
  BY <1>1, InitRInv, PTL DEF Spec

\* The type invariant, whatever overlaps and aborts.
THEOREM TypeCorrect == Spec => []TypeOK
<1>1. RInv => TypeOK
  BY DEF RInv, Typed
<1>2. QED
  BY <1>1, AlwaysRInv, PTL

\* No conversation of a user is counted twice or forgotten, and the risk flag and
\* the label follow from the fraud attempts, without a lock on the user's row.
THEOREM UsersAreExact == Spec => []UserExact
<1>1. RInv => UserExact
  BY DEF RInv
<1>2. QED
  BY <1>1, AlwaysRInv, PTL

\* The agent's counters lose what transactions overwrite unseen, and nothing else.
THEOREM AgentsAreBounded == Spec => []AgentCounts
<1>1. RInv => AgentCounts
  BY DEF RInv
<1>2. QED
  BY <1>1, AlwaysRInv, PTL

-----------------------------------------------------------------------------
(* Averages.                                                               *)

\* An average in hundredths of numbers from lo to hi.
Within(avg, lo, hi) == avg \in 100 * lo .. 100 * hi

LEMMA MergeInRange ==
  ASSUME NEW lo \in Int, NEW hi \in Int, NEW count \in Nat, NEW avg \in Int,
         count = 0 \/ Within(avg, lo, hi),
         NEW value \in Int, lo <= value, value <= hi,
         NEW h \in MergeAvg(avg, count, value)
  PROVE  Within(h, lo, hi)
<1> USE DEF Within
<1> DEFINE least == 100 * lo
           most == 100 * hi
           sum == avg * count + 100 * value
           n == count + 1
<1>0. /\ least \in Int /\ most \in Int /\ value \in Int
      /\ least <= 100 * value /\ 100 * value <= most
      /\ count # 0 => least <= avg /\ avg <= most
  OBVIOUS
<1> HIDE DEF least, most
<1>1. CASE count = 0
  <2>1. h = 100 * value
    BY <1>1 DEF MergeAvg
  <2>2. QED
    BY <1>0, <2>1 DEF least, most
<1>2. CASE count # 0
  <2>1. h \in Int /\ 2 * (sum - h * n) \in -n .. n
    BY <1>0, <1>2, AveragesAreNumbers DEF MergeAvg
  <2>2. least * count <= avg * count /\ avg * count <= most * count
    BY <1>0, <1>2
  <2>3. least * n <= sum /\ sum <= most * n
    BY <1>0, <2>2
  <2>4. sum \in Int /\ n \in Nat \ {0}
    BY <1>0
  <2> HIDE DEF sum, n
  <2>5. (2 * least - 1) * n <= 2 * (h * n) /\ 2 * (h * n) <= (2 * most + 1) * n
    BY <1>0, <2>1, <2>3, <2>4
  <2>6. 2 * h >= 2 * least - 1
    <3>1. ASSUME 2 * h + 1 <= 2 * least - 1 PROVE FALSE
      <4>1. (2 * h + 1) * n <= (2 * least - 1) * n
        BY <1>0, <2>1, <2>4, <3>1
      <4>2. QED
        BY <1>0, <2>1, <2>4, <2>5, <4>1
    <3>2. QED
      BY <1>0, <2>1, <3>1
  <2>7. 2 * h <= 2 * most + 1
    <3>1. ASSUME 2 * h - 1 >= 2 * most + 1 PROVE FALSE
      <4>1. (2 * h - 1) * n >= (2 * most + 1) * n
        BY <1>0, <2>1, <2>4, <3>1
      <4>2. QED
        BY <1>0, <2>1, <2>4, <2>5, <4>1
    <3>2. QED
      BY <1>0, <2>1, <3>1
  <2>8. QED
    BY <1>0, <2>1, <2>6, <2>7 DEF least, most
<1>3. QED
  BY <1>1, <1>2

\* One rounding is off by at most half a hundredth of each of the values.
LEMMA MergeIsNear ==
  ASSUME NEW n \in Nat, NEW avg \in Int, NEW total \in Int, NEW value \in Int,
         4 * (n * avg - 100 * total) \in -(n * (n + 1)) .. n * (n + 1),
         NEW h \in MergeAvg(avg, n, value)
  PROVE  4 * ((n + 1) * h - 100 * (total + value))
           \in -((n + 1) * (n + 2)) .. (n + 1) * (n + 2)
<1>1. h \in Int
  BY AveragesAreNumbers
<1>2. CASE n = 0
  BY <1>2 DEF MergeAvg
<1>3. CASE n # 0
  <2>1. 2 * (avg * n + 100 * value - h * (n + 1)) \in -(n + 1) .. n + 1
    BY <1>3 DEF MergeAvg
  <2> DEFINE A == n * avg
             H == (n + 1) * h
             Q == n * (n + 1)
  <2>2. A \in Int /\ H \in Int /\ Q \in Int /\ A = avg * n /\ H = h * (n + 1)
    BY <1>1
  <2>3. (n + 1) * (n + 2) = Q + 2 * (n + 1)
    OBVIOUS
  <2>4. 4 * (A - 100 * total) \in -Q .. Q
    OBVIOUS
  <2> HIDE DEF A, H, Q
  <2>5. 2 * (A + 100 * value - H) \in -(n + 1) .. n + 1
    BY <2>1, <2>2
  <2>6. 4 * (H - 100 * (total + value)) \in -(Q + 2 * (n + 1)) .. Q + 2 * (n + 1)
    BY <2>2, <2>4, <2>5
  <2>7. QED
    BY <2>3, <2>6 DEF H
<1>4. QED
  BY <1>2, <1>3

\* The average of a row is one of what it averages: scores from 0 to 100, or
\* satisfactions from 1 to 5.
InRange(row, lo, hi) == row # None => Within(row.avg, lo, hi)

AveragesInRange ==
  /\ InRange(agent, 0, 100)
  /\ \A c \in Convs : InRange(users[c], 1, 5)

\* What a transaction has read of the agent and holds of it.
HeldInRange ==
  \A w \in Workers : /\ InRange(seen[w], 0, 100)
                     /\ pc[w] \in {"agent", "user"} => InRange(agentNew[w], 0, 100)

RangeInv == RInv /\ AveragesInRange /\ HeldInRange

LEMMA AgentAfterInRange ==
  ASSUME NEW row \in AgentType \cup {None}, InRange(row, 0, 100), NEW a \in Answers,
         NEW new \in AgentAfter(OrNew(row, NewAgent), a)
  PROVE  InRange(new, 0, 100)
<1> DEFINE old == OrNew(row, NewAgent)
<1>1. old \in AgentType /\ (old.count = 0 \/ Within(old.avg, 0, 100))
  BY NewRows DEF InRange, OrNew, NewAgent
<1>2. PICK avg \in MergeAvg(old.avg, old.count, a.score) :
        new = [avg |-> avg, count |-> old.count + 1, veto |-> VetoAfter(old, a)]
  BY DEF AgentAfter
<1>3. old.avg \in Int /\ old.count \in Nat
  BY <1>1 DEF AgentType
<1>4. a.score \in Int /\ 0 <= a.score /\ a.score <= 100
  BY DEF AnswerType
<1> HIDE DEF old
<1>5. Within(avg, 0, 100)
  BY <1>1, <1>3, <1>4, MergeInRange
<1>6. QED
  BY <1>2, <1>5 DEF InRange

LEMMA UserAfterInRange ==
  ASSUME NEW row \in UserType \cup {None}, InRange(row, 1, 5), NEW a \in Answers,
         NEW new \in UserAfter(OrNew(row, NewUser), a)
  PROVE  InRange(new, 1, 5)
<1> DEFINE old == OrNew(row, NewUser)
<1>1. old \in UserType /\ (old.count = 0 \/ Within(old.avg, 1, 5))
  BY NewRows DEF InRange, OrNew, NewUser
<1>2. PICK avg \in MergeAvg(old.avg, old.count, a.satisfaction) : new.avg = avg
  BY DEF UserAfter
<1>3. old.avg \in Int /\ old.count \in Nat
  BY <1>1 DEF UserType
<1>4. a.satisfaction \in Int /\ 1 <= a.satisfaction /\ a.satisfaction <= 5
  BY DEF AnswerType
<1> HIDE DEF old
<1>5. Within(avg, 1, 5)
  BY <1>1, <1>3, <1>4, MergeInRange
<1>6. QED
  BY <1>2, <1>5 DEF InRange

\* The rows that a commit leaves: that of the user is the next one, and that of the
\* agent has an average that is there or was held.
LEMMA CommitWrites ==
  ASSUME RInv, NEW w \in Workers, Commit(w)
  PROVE  /\ cur[w] \in Convs /\ answer[w] \in Answers
         /\ \E new \in UserAfter(OrNew(users[cur[w]], NewUser), answer[w]) :
              /\ new \in UserType
              /\ users' = [users EXCEPT ![cur[w]] = new]
         /\ agent' \in AgentType /\ agentNew[w] \in AgentType
         /\ agent'.avg = agentNew[w].avg \/ (agent # None /\ agent'.avg = agent.avg)
         /\ seen[w] = agent => agent' = agentNew[w]
<1> DEFINE c == cur[w]
           row == OrNew(users[c], NewUser)
<1> USE DEF RInv
<1>1. /\ pc[w] = "user" /\ c \in Convs /\ answer[w] \in Answers
      /\ agentNew[w] \in AgentType /\ userSeen[w] = users[c]
      /\ users[c] \in UserType \cup {None} /\ row \in UserType
      /\ seen[w] \in AgentType \cup {None} /\ agent \in AgentType \cup {None}
      /\ seen[w] # None => agent # None
      /\ seen[w] = None => agent = None
  BY NewRows DEF Commit, Typed, TypeOK, Served, HolderIsAlone, ReadIsBehind
<1>2. PICK new \in UserAfter(row, answer[w]) :
        users' = [users EXCEPT ![c] = Written(users[c], users[c], new)]
  BY <1>1 DEF Commit
<1>3. new \in UserType
  BY <1>1, <1>2, UserAfterTyped
<1>4. users' = [users EXCEPT ![c] = new]
  BY <1>1, <1>2, <1>3, WrittenUser
<1>5. agent' = Written(agent, seen[w], agentNew[w])
  BY DEF Commit
<1>6. agent' \in AgentType /\ (seen[w] = agent => agent' = agentNew[w])
  BY <1>1, <1>5, WrittenAgent
<1>7. agent'.avg = agentNew[w].avg \/ (agent # None /\ agent'.avg = agent.avg)
  <2>1. CASE seen[w] = None
    <3>1. seen[w] = agent
      BY <1>1, <2>1
    <3>2. QED
      BY <1>6, <3>1
  <2>2. CASE seen[w] # None
    <3>1. agent # None /\ agent \in AgentType
      BY <1>1, <2>2
    <3>2. DOMAIN agent = {"avg", "count", "veto"}
      BY <3>1 DEF AgentType
    <3>3. agent' = [f \in DOMAIN agent |->
                     IF agentNew[w][f] = seen[w][f] THEN agent[f] ELSE agentNew[w][f]]
      BY <1>5, <2>2 DEF Written
    <3>4. agent'["avg"] = agent["avg"] \/ agent'["avg"] = agentNew[w]["avg"]
      BY <3>2, <3>3
    <3>5. QED
      BY <3>1, <3>4
  <2>3. QED
    BY <2>1, <2>2
<1>8. QED
  BY <1>1, <1>2, <1>3, <1>4, <1>6, <1>7

LEMMA StepStaysInRange ==
  ASSUME RangeInv, NEW w \in Workers,
         Statement(w) \/ Abort(w) \/ \E c \in Convs : Begin(w, c)
  PROVE  AveragesInRange' /\ HeldInRange'
<1>0. /\ RInv /\ AveragesInRange /\ HeldInRange
      /\ users \in [Convs -> UserType \cup {None}]
      /\ agent \in AgentType \cup {None}
      /\ pc \in [Workers -> {"idle", "asked", "evaluated", "agent", "user"}]
      /\ seen \in [Workers -> AgentType \cup {None}]
      /\ agentNew \in [Workers -> AgentType \cup {None}]
      /\ \A v \in Workers : pc[v] = "evaluated" => answer[v] \in Answers
  BY DEF RangeInv, RInv, Typed, TypeOK, Served
<1>1. CASE Commit(w)
  <2>1. PICK new \in UserAfter(OrNew(users[cur[w]], NewUser), answer[w]) :
          users' = [users EXCEPT ![cur[w]] = new]
    BY <1>0, <1>1, CommitWrites
  <2>2. cur[w] \in Convs /\ answer[w] \in Answers /\ pc[w] = "user"
    BY <1>0, <1>1, CommitWrites DEF Commit
  <2>3. InRange(new, 1, 5)
    BY <1>0, <2>1, <2>2, UserAfterInRange DEF AveragesInRange
  <2>4. \A c \in Convs : InRange(users[c], 1, 5)'
    BY <1>0, <2>1, <2>2, <2>3 DEF AveragesInRange
  <2>5. /\ agent' \in AgentType /\ agentNew[w] \in AgentType
        /\ agent'.avg = agentNew[w].avg \/ (agent # None /\ agent'.avg = agent.avg)
    BY <1>0, <1>1, CommitWrites
  <2>6. agentNew[w] # None
    BY <2>5
  <2>7. InRange(agent, 0, 100)'
    BY <1>0, <2>2, <2>5, <2>6 DEF AveragesInRange, HeldInRange, InRange
  <2>8. HeldInRange'
    BY <1>0, <1>1 DEF HeldInRange, InRange, Commit, End
  <2>9. QED
    BY <2>4, <2>7, <2>8 DEF AveragesInRange
<1>2. CASE LoadAgent(w)
  <2>1. UNCHANGED <<agent, users>> /\ answer[w] \in Answers
    BY <1>0, <1>2 DEF LoadAgent, db
  <2>2. PICK new \in AgentAfter(OrNew(agent, NewAgent), answer[w]) :
          agentNew' = [agentNew EXCEPT ![w] = new]
    BY <1>2 DEF LoadAgent
  <2>3. InRange(new, 0, 100)
    BY <1>0, <2>1, <2>2, AgentAfterInRange DEF AveragesInRange
  <2>4. HeldInRange'
    <3>1. /\ seen' = [seen EXCEPT ![w] = agent]
          /\ pc' = [pc EXCEPT ![w] = "agent"]
      BY <1>2 DEF LoadAgent
    <3>2. QED
      BY <1>0, <2>2, <2>3, <3>1 DEF HeldInRange, AveragesInRange
  <2>5. QED
    BY <1>0, <2>1, <2>4 DEF AveragesInRange
<1>3. CASE \/ InsertEvaluation(w) \/ FlushAgent(w) \/ FlushFails(w) \/ Abort(w)
           \/ \E c \in Convs : Begin(w, c)
  <2>1. UNCHANGED <<agent, users>>
    BY <1>3 DEF InsertEvaluation, FlushAgent, FlushFails, Abort, Begin, RollBack, db
  <2>2. HeldInRange'
    <3>1. CASE InsertEvaluation(w) \/ FlushAgent(w) \/ \E c \in Convs : Begin(w, c)
      <4>1. seen' = seen /\ agentNew' = agentNew
        BY <3>1 DEF InsertEvaluation, FlushAgent, Begin
      <4>2. \A v \in Workers : pc'[v] \in {"agent", "user"} => pc[v] \in {"agent", "user"}
        BY <1>0, <3>1 DEF InsertEvaluation, FlushAgent, Begin
      <4>3. QED
        BY <1>0, <4>1, <4>2 DEF HeldInRange
    <3>2. CASE FlushFails(w) \/ Abort(w)
      <4>1. /\ seen' = [seen EXCEPT ![w] = None]
            /\ agentNew' = [agentNew EXCEPT ![w] = None]
            /\ pc' = [pc EXCEPT ![w] = "idle"]
        BY <3>2 DEF FlushFails, Abort, RollBack, End
      <4>2. QED
        BY <1>0, <4>1 DEF HeldInRange, InRange
    <3>3. QED
      BY <1>3, <3>1, <3>2
  <2>3. QED
    BY <1>0, <2>1, <2>2 DEF AveragesInRange
<1>4. QED
  BY <1>1, <1>2, <1>3 DEF Statement

\* No overlap of transactions, lost update or rounding takes an average out of the
\* range of what it averages.
THEOREM AveragesStayInRange == Spec => []AveragesInRange
<1>1. Init => AveragesInRange /\ HeldInRange
  BY DEF Init, AveragesInRange, HeldInRange, InRange
<1>2. RangeInv /\ [Next]_vars => AveragesInRange' /\ HeldInRange'
  <2>1. RangeInv /\ UNCHANGED vars => AveragesInRange' /\ HeldInRange'
    BY DEF RangeInv, AveragesInRange, HeldInRange, InRange, vars, db, txn
  <2>2. QED
    BY <2>1, StepStaysInRange DEF Next
<1>3. QED
  BY <1>1, <1>2, AlwaysRInv, PTL DEF Spec, RangeInv

\* The sum of what a history says at the positions S: its running totals are one
\* function, whose last value is v.
IsRunning(log, t, S, what) ==
  /\ t \in [0 .. Len(log) -> Int]
  /\ t[0] = 0
  /\ \A i \in 1 .. Len(log) :
       t[i] = IF i \in S THEN t[i - 1] + log[i].answer[what] ELSE t[i - 1]
IsSum(log, S, what, v) == \E t : IsRunning(log, t, S, what) /\ t[Len(log)] = v

\* An average of n numbers is at most (n + 1) / 4 hundredths from their mean.
Near(row, total) ==
  4 * (row.count * row.avg - 100 * total)
    \in -(row.count * (row.count + 1)) .. row.count * (row.count + 1)

IsNear(row, log, S, what) ==
  \E v \in Int : IsSum(log, S, what, v) /\ Near(row, v)

UsersAreNear ==
  \A c \in Convs : IsNear(OrNew(users[c], NewUser), told, Of(c), "satisfaction")
AgentIsNear == ~stale => IsNear(OrNew(agent, NewAgent), told, DOMAIN told, "score")
AveragesAreNear == UsersAreNear /\ AgentIsNear

\* What a transaction holds of the agent is what it has read and its own answer.
HeldIsNext ==
  \A w \in Workers : pc[w] \in {"agent", "user"} =>
    agentNew[w] \in AgentAfter(OrNew(seen[w], NewAgent), answer[w])

NearInv == RInv /\ AveragesAreNear /\ HeldIsNext

LEMMA AgentStaysNear ==
  ASSUME NEW row \in AgentType, NEW a \in Answers, NEW total \in Int, Near(row, total),
         NEW new \in AgentAfter(row, a)
  PROVE  Near(new, total + a.score)
<1>1. PICK avg \in MergeAvg(row.avg, row.count, a.score) :
        new = [avg |-> avg, count |-> row.count + 1, veto |-> VetoAfter(row, a)]
  BY DEF AgentAfter
<1>2. row.avg \in Int /\ row.count \in Nat
  BY DEF AgentType
<1>3. a.score \in Int
  BY DEF AnswerType
<1>4. 4 * ((row.count + 1) * avg - 100 * (total + a.score))
        \in -((row.count + 1) * (row.count + 2)) .. (row.count + 1) * (row.count + 2)
  BY <1>2, <1>3, MergeIsNear DEF Near
<1>5. new.avg = avg /\ new.count = row.count + 1
  BY <1>1
<1>6. (row.count + 1) + 1 = row.count + 2
  BY <1>2
<1>7. QED
  BY <1>4, <1>5, <1>6 DEF Near

LEMMA UserStaysNear ==
  ASSUME NEW row \in UserType, NEW a \in Answers, NEW total \in Int, Near(row, total),
         NEW new \in UserAfter(row, a)
  PROVE  Near(new, total + a.satisfaction)
<1>1. PICK avg \in MergeAvg(row.avg, row.count, a.satisfaction) :
        new.avg = avg /\ new.count = row.count + 1
  BY DEF UserAfter
<1>2. row.avg \in Int /\ row.count \in Nat
  BY DEF UserType
<1>3. a.satisfaction \in Int
  BY DEF AnswerType
<1>4. 4 * ((row.count + 1) * avg - 100 * (total + a.satisfaction))
        \in -((row.count + 1) * (row.count + 2)) .. (row.count + 1) * (row.count + 2)
  BY <1>2, <1>3, MergeIsNear DEF Near
<1>5. (row.count + 1) + 1 = row.count + 2
  BY <1>2
<1>6. QED
  BY <1>1, <1>4, <1>5 DEF Near

LEMMA AnswersAreNumbers ==
  ASSUME NEW a \in Answers
  PROVE  a["score"] \in Int /\ a["satisfaction"] \in Int
<1>1. a \in AnswerType
  OBVIOUS
<1>2. QED
  BY <1>1 DEF AnswerType

\* The history gains an answer: a sum that does not count it stays, one that counts
\* it gains its value.
LEMMA SumsGrow ==
  ASSUME Typed, NEW w \in Workers, Commit(w),
         NEW what, answer[w][what] \in Int, NEW S, S \subseteq 1 .. Len(told),
         NEW v \in Int, IsSum(told, S, what, v)
  PROVE  /\ IsSum(told', S, what, v)
         /\ IsSum(told', S \cup {Len(told) + 1}, what, v + answer[w][what])
<1> DEFINE n == Len(told)
           last == [conv |-> cur[w], answer |-> answer[w]]
<1>1. last \in [conv : Convs, answer : Answers]
  BY DEF Typed, Served, Commit
<1>2. told' = Append(told, last) /\ told \in Seq([conv : Convs, answer : Answers])
  BY DEF Typed, TypeOK, Commit
<1>3. last.answer = answer[w]
  OBVIOUS
<1> HIDE DEF last
<1>4. /\ n \in Nat /\ Len(told') = n + 1
      /\ \A i \in 1 .. n : told'[i] = told[i]
      /\ told'[n + 1] = last
  BY <1>1, <1>2, AppendProperties, LenProperties
<1>5. PICK t : IsRunning(told, t, S, what) /\ t[n] = v
  BY DEF IsSum
<1>6. /\ t \in [0 .. n -> Int] /\ t[0] = 0
      /\ \A i \in 1 .. n :
           t[i] = IF i \in S THEN t[i - 1] + told[i].answer[what] ELSE t[i - 1]
  BY <1>5 DEF IsRunning
<1>7. n + 1 \notin S
  BY <1>4
<1> HIDE DEF n
<1>8. ASSUME NEW T, T \in {S, S \cup {n + 1}},
             NEW x \in Int, x = IF n + 1 \in T THEN v + answer[w][what] ELSE v
      PROVE  IsSum(told', T, what, x)
  <2> DEFINE u == [i \in 0 .. n + 1 |-> IF i = n + 1 THEN x ELSE t[i]]
  <2>1. u \in [0 .. n + 1 -> Int] /\ u[0] = 0 /\ u[n + 1] = x
    BY <1>4, <1>6
  <2>2. ASSUME NEW i \in 1 .. n + 1
        PROVE  u[i] = IF i \in T THEN u[i - 1] + told'[i].answer[what] ELSE u[i - 1]
    <3>1. CASE i = n + 1
      <4>1. u[i] = x /\ u[i - 1] = v
        BY <1>4, <1>5, <3>1
      <4>2. told'[i].answer[what] = answer[w][what]
        BY <1>3, <1>4, <3>1
      <4>3. QED
        BY <1>8, <3>1, <4>1, <4>2
    <3>2. CASE i # n + 1
      <4>1. i \in 1 .. n /\ i - 1 \in 0 .. n
        BY <1>4, <2>2, <3>2
      <4>2. u[i] = t[i] /\ u[i - 1] = t[i - 1]
        BY <1>4, <4>1
      <4>3. i \in T <=> i \in S
        BY <1>8, <3>2
      <4>4. told'[i] = told[i]
        BY <1>4, <4>1
      <4>5. QED
        BY <1>6, <4>1, <4>2, <4>3, <4>4
    <3>3. QED
      BY <3>1, <3>2
  <2> HIDE DEF u
  <2>3. IsRunning(told', u, T, what)
    BY <1>4, <2>1, <2>2 DEF IsRunning
  <2>4. QED
    BY <1>4, <2>1, <2>3 DEF IsSum
<1>9. IsSum(told', S, what, v)
  BY <1>7, <1>8
<1>10. IsSum(told', S \cup {n + 1}, what, v + answer[w][what])
  BY <1>8
<1>11. QED
  BY <1>9, <1>10 DEF n

\* Where an answer goes in the history.
LEMMA CommitPlaces ==
  ASSUME Typed, NEW w \in Workers, Commit(w)
  PROVE  /\ DOMAIN told = 1 .. Len(told)
         /\ DOMAIN told' = DOMAIN told \cup {Len(told) + 1}
         /\ \A c \in Convs :
              /\ Of(c) \subseteq 1 .. Len(told)
              /\ Of(c)' = IF c = cur[w] THEN Of(c) \cup {Len(told) + 1} ELSE Of(c)
<1> DEFINE n == Len(told)
           last == [conv |-> cur[w], answer |-> answer[w]]
<1>1. last \in [conv : Convs, answer : Answers]
  BY DEF Typed, Served, Commit
<1>2. told' = Append(told, last) /\ told \in Seq([conv : Convs, answer : Answers])
  BY DEF Typed, TypeOK, Commit
<1> HIDE DEF last
<1>3. /\ told' \in Seq([conv : Convs, answer : Answers])
      /\ n \in Nat /\ Len(told') = n + 1
      /\ \A i \in 1 .. n : told'[i] = told[i]
      /\ told'[n + 1] = last
  BY <1>1, <1>2, AppendProperties, LenProperties
<1>4. DOMAIN told = 1 .. n /\ DOMAIN told' = 1 .. n + 1
  BY <1>2, <1>3, LenProperties
<1>5. last.conv = cur[w]
  BY DEF last
<1>6. 1 .. n + 1 = 1 .. n \cup {n + 1}
  BY <1>3
<1>7. ASSUME NEW c \in Convs
      PROVE  /\ Of(c) \subseteq 1 .. n
             /\ Of(c)' = IF c = cur[w] THEN Of(c) \cup {n + 1} ELSE Of(c)
  <2> HIDE DEF n
  <2>1. Of(c) \subseteq 1 .. n
    BY <1>4 DEF Of
  <2>2. Of(c)' = {i \in 1 .. n + 1 : told'[i].conv = c}
    BY <1>4 DEF Of
  <2>3. Of(c)' = IF c = cur[w] THEN Of(c) \cup {n + 1} ELSE Of(c)
    BY <1>3, <1>4, <1>5, <2>2 DEF Of
  <2>4. QED
    BY <2>1, <2>3
<1>8. QED
  BY <1>4, <1>6, <1>7

\* A commit adds one answer to those of its user, and leaves the others'.
LEMMA CommitKeepsUsers ==
  ASSUME RInv, UsersAreNear, NEW w \in Workers, Commit(w)
  PROVE  UsersAreNear'
<1> SUFFICES ASSUME NEW d \in Convs
             PROVE  IsNear(OrNew(users'[d], NewUser), told', Of(d)', "satisfaction")
  BY DEF UsersAreNear
<1> DEFINE c == cur[w]
           old == OrNew(users[d], NewUser)
<1>1. Typed /\ users \in [Convs -> UserType \cup {None}] /\ d \in Convs
  BY DEF RInv, Typed, TypeOK
<1>2. /\ c \in Convs /\ answer[w] \in Answers
      /\ \E new \in UserAfter(OrNew(users[c], NewUser), answer[w]) :
           new \in UserType /\ users' = [users EXCEPT ![c] = new]
  BY CommitWrites
<1>3. PICK v \in Int : IsSum(told, Of(d), "satisfaction", v) /\ Near(old, v)
  BY DEF UsersAreNear, IsNear
<1>4. /\ Of(d) \subseteq 1 .. Len(told)
      /\ Of(d)' = IF d = c THEN Of(d) \cup {Len(told) + 1} ELSE Of(d)
  BY <1>1, CommitPlaces
<1>5. answer[w]["satisfaction"] \in Int
  BY <1>2, AnswersAreNumbers
<1>6. /\ IsSum(told', Of(d), "satisfaction", v)
      /\ IsSum(told', Of(d) \cup {Len(told) + 1}, "satisfaction",
               v + answer[w]["satisfaction"])
  BY <1>1, <1>3, <1>4, <1>5, SumsGrow
<1>7. CASE d = c
  <2>1. PICK new \in UserAfter(old, answer[w]) :
          new \in UserType /\ users' = [users EXCEPT ![c] = new]
    BY <1>2, <1>7
  <2>2. OrNew(users'[d], NewUser) = new
    BY <1>1, <1>7, <2>1 DEF OrNew
  <2>3. old \in UserType
    BY <1>1, NewRows
  <2>4. Near(new, v + answer[w].satisfaction)
    BY <1>2, <1>3, <2>1, <2>3, UserStaysNear
  <2>5. IsSum(told', Of(d)', "satisfaction", v + answer[w]["satisfaction"])
    BY <1>4, <1>6, <1>7
  <2>6. v + answer[w]["satisfaction"] \in Int
    BY <1>5
  <2>7. QED
    BY <2>2, <2>4, <2>5, <2>6 DEF IsNear
<1>8. CASE d # c
  <2>1. users'[d] = users[d]
    BY <1>1, <1>2, <1>8
  <2>2. IsSum(told', Of(d)', "satisfaction", v)
    BY <1>4, <1>6, <1>8
  <2>3. QED
    BY <1>3, <2>1, <2>2 DEF IsNear
<1>9. QED
  BY <1>7, <1>8

\* As long as nothing was overwritten unseen, what the agent's row gets is its last
\* value and one answer.
LEMMA CommitKeepsAgent ==
  ASSUME RInv, AgentIsNear, HeldIsNext, NEW w \in Workers, Commit(w)
  PROVE  AgentIsNear'
<1> SUFFICES ASSUME ~stale'
             PROVE  IsNear(OrNew(agent', NewAgent), told', DOMAIN told', "score")
  BY DEF AgentIsNear
<1> DEFINE old == OrNew(agent, NewAgent)
<1>1. ~stale /\ seen[w] = agent /\ pc[w] = "user"
  BY DEF Commit
<1>2. /\ answer[w] \in Answers /\ agent' \in AgentType /\ agent' = agentNew[w]
  BY <1>1, CommitWrites
<1>3. agentNew[w] \in AgentAfter(old, answer[w])
  BY <1>1 DEF HeldIsNext
<1>4. old \in AgentType
  BY NewRows DEF RInv, Typed, TypeOK
<1>5. PICK v \in Int : IsSum(told, DOMAIN told, "score", v) /\ Near(old, v)
  BY <1>1 DEF AgentIsNear, IsNear
<1>6. Typed /\ answer[w]["score"] \in Int
  BY <1>2, AnswersAreNumbers DEF RInv
<1>7. DOMAIN told = 1 .. Len(told) /\ DOMAIN told' = DOMAIN told \cup {Len(told) + 1}
  BY <1>6, CommitPlaces
<1>8. IsSum(told', DOMAIN told', "score", v + answer[w]["score"])
  <2>1. DOMAIN told \subseteq 1 .. Len(told)
    BY <1>7
  <2>2. IsSum(told', DOMAIN told \cup {Len(told) + 1}, "score", v + answer[w]["score"])
    BY <1>5, <1>6, <2>1, SumsGrow
  <2>3. QED
    BY <1>7, <2>2
<1>9. Near(agentNew[w], v + answer[w].score)
  BY <1>2, <1>3, <1>4, <1>5, AgentStaysNear
<1>10. OrNew(agent', NewAgent) = agentNew[w]
  BY <1>2 DEF OrNew
<1>11. v + answer[w]["score"] \in Int
  BY <1>6
<1>12. QED
  BY <1>8, <1>9, <1>10, <1>11 DEF IsNear

\* The statements before the COMMIT: what is held follows from what was read.
LEMMA HeldStaysNext ==
  ASSUME Typed, HeldIsNext, NEW w \in Workers,
         Statement(w) \/ Abort(w) \/ \E c \in Convs : Begin(w, c)
  PROVE  HeldIsNext'
<1>0. /\ pc \in [Workers -> {"idle", "asked", "evaluated", "agent", "user"}]
      /\ answer \in [Workers -> Answers \cup {None}]
      /\ seen \in [Workers -> AgentType \cup {None}]
      /\ agentNew \in [Workers -> AgentType \cup {None}]
  BY DEF Typed, TypeOK
<1>1. CASE LoadAgent(w)
  <2>1. /\ seen' = [seen EXCEPT ![w] = agent]
        /\ pc' = [pc EXCEPT ![w] = "agent"] /\ answer' = answer
    BY <1>1 DEF LoadAgent
  <2>2. PICK new \in AgentAfter(OrNew(agent, NewAgent), answer[w]) :
          agentNew' = [agentNew EXCEPT ![w] = new]
    BY <1>1 DEF LoadAgent
  <2>3. QED
    BY <1>0, <2>1, <2>2 DEF HeldIsNext
<1>2. CASE InsertEvaluation(w) \/ FlushAgent(w) \/ \E c \in Convs : Begin(w, c)
  <2>1. seen' = seen /\ agentNew' = agentNew
    BY <1>2 DEF InsertEvaluation, FlushAgent, Begin
  <2>2. \A v \in Workers : pc'[v] \in {"agent", "user"} =>
          pc[v] \in {"agent", "user"} /\ answer'[v] = answer[v]
    BY <1>0, <1>2 DEF InsertEvaluation, FlushAgent, Begin
  <2>3. QED
    BY <2>1, <2>2 DEF HeldIsNext
<1>3. CASE FlushFails(w) \/ Commit(w) \/ Abort(w)
  <2>1. End(w)
    BY <1>3 DEF FlushFails, Commit, Abort, RollBack
  <2>2. \A v \in Workers : pc'[v] \in {"agent", "user"} =>
          /\ pc[v] \in {"agent", "user"} /\ answer'[v] = answer[v]
          /\ seen'[v] = seen[v] /\ agentNew'[v] = agentNew[v]
    BY <1>0, <2>1 DEF End
  <2>3. QED
    BY <2>2 DEF HeldIsNext
<1>4. QED
  BY <1>1, <1>2, <1>3 DEF Statement

\* Only a COMMIT changes a row or the history.
LEMMA OthersChangeNoRow ==
  ASSUME NEW w \in Workers,
         InsertEvaluation(w) \/ LoadAgent(w) \/ FlushAgent(w) \/ FlushFails(w)
           \/ Abort(w) \/ \E c \in Convs : Begin(w, c)
  PROVE  UNCHANGED <<agent, users, told, stale>>
BY DEF InsertEvaluation, LoadAgent, FlushAgent, FlushFails, Abort, Begin, RollBack,
       db, history

LEMMA SameRowsSameAverages ==
  ASSUME AveragesAreNear, UNCHANGED <<agent, users, told, stale>>
  PROVE  AveragesAreNear'
BY DEF AveragesAreNear, UsersAreNear, AgentIsNear, Of

\* Roundings do not add up without bound: after n answers a user's average is at most
\* (n + 1) / 4 hundredths from the mean of what was committed, and the agent's is too
\* as long as no write hit a row it was not read from.
THEOREM AveragesStayNear == Spec => []AveragesAreNear
<1>1. Init => AveragesAreNear /\ HeldIsNext
  <2> SUFFICES ASSUME Init PROVE AveragesAreNear /\ HeldIsNext
    OBVIOUS
  <2>1. told = <<>> /\ agent = None /\ users = [c \in Convs |-> None]
    BY DEF Init
  <2>2. \A S, what : IsSum(told, S, what, 0)
    <3> TAKE S, what
    <3> DEFINE t == [i \in 0 .. 0 |-> 0]
    <3>1. Len(told) = 0
      BY <2>1
    <3>2. IsRunning(told, t, S, what) /\ t[0] = 0
      BY <3>1 DEF IsRunning
    <3>3. QED
      BY <3>1, <3>2 DEF IsSum
  <2>3. Near(NewAgent, 0) /\ Near(NewUser, 0)
    BY DEF Near, NewAgent, NewUser
  <2>4. \A c \in Convs : IsNear(OrNew(users[c], NewUser), told, Of(c), "satisfaction")
    BY <2>1, <2>2, <2>3 DEF IsNear, OrNew
  <2>5. IsNear(OrNew(agent, NewAgent), told, DOMAIN told, "score")
    BY <2>1, <2>2, <2>3 DEF IsNear, OrNew
  <2>6. HeldIsNext
    BY DEF Init, HeldIsNext
  <2>7. QED
    BY <2>4, <2>5, <2>6 DEF AveragesAreNear, UsersAreNear, AgentIsNear
<1>2. NearInv /\ [Next]_vars => AveragesAreNear' /\ HeldIsNext'
  <2> SUFFICES ASSUME NearInv, [Next]_vars PROVE AveragesAreNear' /\ HeldIsNext'
    OBVIOUS
  <2>1. RInv /\ Typed /\ AveragesAreNear /\ HeldIsNext /\ UsersAreNear /\ AgentIsNear
    BY DEF NearInv, AveragesAreNear, RInv
  <2>2. CASE UNCHANGED vars
    <3>1. UNCHANGED <<agent, users, told, stale>>
      BY <2>2 DEF vars, db, history
    <3>2. HeldIsNext'
      BY <2>1, <2>2 DEF HeldIsNext, vars, txn
    <3>3. QED
      BY <2>1, <3>1, <3>2, SameRowsSameAverages
  <2>3. ASSUME NEW w \in Workers, Statement(w) \/ Abort(w) \/ \E c \in Convs : Begin(w, c)
        PROVE  AveragesAreNear' /\ HeldIsNext'
    <3>1. HeldIsNext'
      BY <2>1, <2>3, HeldStaysNext
    <3>2. CASE Commit(w)
      BY <2>1, <3>1, <3>2, CommitKeepsUsers, CommitKeepsAgent DEF AveragesAreNear
    <3>3. CASE ~Commit(w)
      BY <2>1, <2>3, <3>1, <3>3, OthersChangeNoRow, SameRowsSameAverages DEF Statement
    <3>4. QED
      BY <3>2, <3>3
  <2>4. QED
    BY <2>2, <2>3 DEF Next
<1>3. QED
  BY <1>1, <1>2, AlwaysRInv, PTL DEF Spec, NearInv

\* With n conversations in a row, one whose value is within n / 200 of the average no
\* longer moves it: what it adds is rounded away.  After 800 conversations no
\* satisfaction of 1 .. 5 moves its average, after 20000 no score of 0 .. 100.
THEOREM AveragesFreeze ==
  ASSUME NEW count \in Nat \ {0}, NEW avg \in Int, NEW value \in Int,
         2 * (100 * value - avg) \in -count .. count
  PROVE  MergeAvg(avg, count, value) = {avg}
<1> DEFINE d == 100 * value - avg
           n == count + 1
           sum == avg * count + 100 * value
           low == sum \div n
<1>1. d \in Int /\ sum = avg * n + d /\ n \in Nat \ {0} /\ 2 * d \in -count .. count /\ sum \in Int
  OBVIOUS
<1>2. low \in Int /\ n * low <= sum /\ sum < n * low + n
  <2> HIDE DEF sum, n
  <2>1. QED
    BY <1>1
<1>3. MergeAvg(avg, count, value) = {h \in {low, low + 1} : 2 * (sum - h * n) \in -n .. n}
  BY DEF MergeAvg
<1>4. n = count + 1
  OBVIOUS
<1> HIDE DEF d, n, sum, low
<1>5. avg \in {low, low + 1}
  <2>1. CASE d >= 0
    <3>1. avg * n <= sum /\ sum < avg * n + n
      BY <1>1, <1>4, <2>1
    <3>2. low = avg
      BY <1>1, <1>2, <3>1
    <3>3. QED
      BY <3>2
  <2>2. CASE d < 0
    <3>1. (avg - 1) * n < sum /\ sum < avg * n
      BY <1>1, <1>4, <2>2
    <3>2. low = avg - 1
      BY <1>1, <1>2, <3>1
    <3>3. QED
      BY <3>2
  <2>3. QED
    BY <1>1, <2>1, <2>2
<1>6. 2 * (sum - avg * n) \in -n .. n
  BY <1>1, <1>4
<1>7. ASSUME NEW h \in {low, low + 1}, 2 * (sum - h * n) \in -n .. n
      PROVE  h = avg
  <2>1. h \in Int
    BY <1>2
  <2>2. 2 * (sum - h * n) = 2 * ((avg - h) * n) + 2 * d
    BY <1>1, <2>1
  <2>3. CASE h >= avg + 1
    <3>1. (avg - h) * n <= -n
      BY <1>1, <2>1, <2>3
    <3>2. QED
      BY <1>1, <1>4, <1>7, <2>1, <2>2, <3>1
  <2>4. CASE h <= avg - 1
    <3>1. (avg - h) * n >= n
      BY <1>1, <2>1, <2>4
    <3>2. QED
      BY <1>1, <1>4, <1>7, <2>1, <2>2, <3>1
  <2>5. QED
    BY <2>1, <2>3, <2>4
<1>8. QED
  BY <1>3, <1>5, <1>6, <1>7

-----------------------------------------------------------------------------
(* Who waits.                                                              *)

\* The guards of Statement: what a transaction waits for.
CanGoOn(w) ==
  \/ pc[w] = "asked" /\ KeyIsFree(w)
  \/ pc[w] = "evaluated" /\ AgentAfter(OrNew(agent, NewAgent), answer[w]) # {}
  \/ pc[w] = "agent" /\ AgentRowIsFree(w)
  \/ /\ pc[w] = "user"
     /\ userSeen[w] = None => users[cur[w]] = None
     /\ UserAfter(OrNew(userSeen[w], NewUser), answer[w]) # {}

\* Every average has a nearest hundredth.
LEMMA AverageExists ==
  ASSUME NEW avg \in Int, NEW count \in Nat, NEW value \in Int
  PROVE  MergeAvg(avg, count, value) # {}
<1> DEFINE sum == avg * count + 100 * value
           n == count + 1
           low == sum \div n
<1>1. sum \in Int /\ n \in Nat \ {0}
  OBVIOUS
<1>2. low \in Int /\ n * low <= sum /\ sum < n * low + n
  <2> HIDE DEF sum, n
  <2>1. QED
    BY <1>1
<1>3. \E h \in {low, low + 1} : 2 * (sum - h * n) \in -n .. n
  <2> DEFINE rest == sum - low * n
  <2> HIDE DEF sum, n, low
  <2>1. rest \in 0 .. n - 1 /\ rest \in Int
    BY <1>1, <1>2
  <2>2. sum - (low + 1) * n = rest - n
    BY <1>1, <1>2
  <2> HIDE DEF rest
  <2>3. 2 * rest \in -n .. n \/ 2 * (rest - n) \in -n .. n
    BY <1>1, <2>1
  <2>4. QED
    BY <2>2, <2>3 DEF rest
<1>4. QED
  BY <1>3 DEF MergeAvg

\* The key of an evaluation is held by a transaction past its INSERT.
Adding == \A w \in Workers : adds[w] => pc[w] \in {"evaluated", "agent", "user"}

LEMMA StepAdds == TypeOK /\ Adding /\ [Next]_vars => Adding'
<1> SUFFICES ASSUME TypeOK, Adding, [Next]_vars PROVE Adding'
  OBVIOUS
<1> USE DEF TypeOK, Adding
<1>1. ASSUME NEW w \in Workers, Statement(w) \/ Abort(w) \/ \E c \in Convs : Begin(w, c)
      PROVE  Adding'
  BY <1>1 DEF Statement, Abort, Begin, InsertEvaluation, LoadAgent, FlushAgent, FlushFails,
              Commit, RollBack, End
<1>2. CASE UNCHANGED vars
  BY <1>2 DEF vars, txn
<1>3. QED
  BY <1>1, <1>2 DEF Next

\* The holder of the agent's row goes on, without one its waiters do, and without
\* either the transactions that wait for a key.
LEMMA SomebodyCan ==
  ASSUME RInv, Adding, NEW w \in Workers, pc[w] # "idle"
  PROVE  \E v \in Workers : CanGoOn(v)
<1> SUFFICES ASSUME \A v \in Workers : ~CanGoOn(v) PROVE FALSE
  OBVIOUS
<1> USE DEF RInv, Typed
<1>1. \A v \in Workers : pc[v] # "user"
  <2> SUFFICES ASSUME NEW v \in Workers, pc[v] = "user" PROVE FALSE
    OBVIOUS
  <2>1. userSeen[v] = users[cur[v]]
    BY DEF HolderIsAlone
  <2>2. answer[v] \in Answers /\ OrNew(userSeen[v], NewUser) \in UserType
    BY NewRows DEF TypeOK, Served, OrNew
  <2>3. /\ OrNew(userSeen[v], NewUser).avg \in Int
        /\ OrNew(userSeen[v], NewUser).count \in Nat
        /\ answer[v].satisfaction \in Int
    BY <2>2 DEF UserType, AnswerType
  <2>4. UserAfter(OrNew(userSeen[v], NewUser), answer[v]) # {}
    BY <2>3, AverageExists DEF UserAfter
  <2>5. QED
    BY <2>1, <2>4 DEF CanGoOn
<1>2. \A v \in Workers : pc[v] # "agent"
  BY <1>1 DEF CanGoOn, AgentRowIsFree, HasAgentRow
<1>3. \A v \in Workers : pc[v] # "evaluated"
  <2> SUFFICES ASSUME NEW v \in Workers, pc[v] = "evaluated" PROVE FALSE
    OBVIOUS
  <2>1. answer[v] \in Answers /\ OrNew(agent, NewAgent) \in AgentType
    BY NewRows DEF TypeOK, Served, OrNew
  <2>2. /\ OrNew(agent, NewAgent).avg \in Int
        /\ OrNew(agent, NewAgent).count \in Nat
        /\ answer[v].score \in Int
    BY <2>1 DEF AgentType, AnswerType
  <2>3. AgentAfter(OrNew(agent, NewAgent), answer[v]) # {}
    BY <2>2, AverageExists DEF AgentAfter
  <2>4. QED
    BY <2>3 DEF CanGoOn
<1>4. \A v \in Workers : ~adds[v]
  BY <1>1, <1>2, <1>3 DEF Adding
<1>5. pc[w] = "asked"
  BY <1>1, <1>2, <1>3 DEF TypeOK
<1>6. QED
  BY <1>4, <1>5 DEF CanGoOn, KeyIsFree

\* The waits for keys and for the row of the agent have no cycle: while a
\* transaction is open one can go on.
THEOREM NobodyIsStuck ==
  Spec => []((\E w \in Workers : pc[w] # "idle") => \E w \in Workers : CanGoOn(w))
<1>1. Init => Adding
  BY DEF Init, Adding
<1>2. RInv /\ Adding => ((\E w \in Workers : pc[w] # "idle") => \E w \in Workers : CanGoOn(w))
  BY SomebodyCan
<1>3. RInv => TypeOK
  BY DEF RInv, Typed
<1>4. QED
  BY <1>1, <1>2, <1>3, AlwaysRInv, StepAdds, PTL DEF Spec

-----------------------------------------------------------------------------
(* How much is left to do.                                                 *)

\* The statements that a transaction may still execute.
StepsLeft(w) ==
  CASE pc[w] = "idle" -> 0
    [] pc[w] = "user" -> 1
    [] pc[w] = "agent" -> 2
    [] pc[w] = "evaluated" -> 3
    [] pc[w] = "asked" -> 4

\* Every step is one of some transaction, which has less to do afterwards or has just
\* begun, and gives the others nothing to do again: a clash ends a transaction, it
\* never retries.
TransactionsCountDown ==
  [][\E w \in Workers :
       /\ StepsLeft(w)' < StepsLeft(w) \/ \E c \in Convs : Begin(w, c)
       /\ \A v \in Workers \ {w} : StepsLeft(v)' = StepsLeft(v)]_vars

\* A transaction comes to its end after at most four statements, as one of those that
\* are open can always go on (NobodyIsStuck).
THEOREM TransactionsAreFinite ==
  Spec => [](\A w \in Workers : StepsLeft(w) \in 0 .. 4) /\ TransactionsCountDown
<1> DEFINE Down ==
      \E w \in Workers :
        /\ StepsLeft(w)' < StepsLeft(w) \/ \E c \in Convs : Begin(w, c)
        /\ \A v \in Workers \ {w} : StepsLeft(v)' = StepsLeft(v)
           Bound == \A w \in Workers : StepsLeft(w) \in 0 .. 4
<1>1. RInv => Bound
  BY DEF RInv, Typed, TypeOK, StepsLeft
<1>2. RInv /\ [Next]_vars => [Down]_vars
  <2> SUFFICES ASSUME RInv, NEW w \in Workers,
                      Statement(w) \/ Abort(w) \/ \E c \in Convs : Begin(w, c)
               PROVE  Down
    BY DEF Next
  <2>1. pc \in [Workers -> {"idle", "asked", "evaluated", "agent", "user"}]
    BY DEF RInv, Typed, TypeOK
  <2>2. \E step \in {"idle", "asked", "evaluated", "agent", "user"} :
          /\ pc' = [pc EXCEPT ![w] = step]
          /\ \/ pc[w] # "idle" /\ step = "idle"
             \/ pc[w] = "asked" /\ step = "evaluated"
             \/ pc[w] = "evaluated" /\ step = "agent"
             \/ pc[w] = "agent" /\ step = "user"
             \/ \E c \in Convs : Begin(w, c)
    <3>1. CASE FlushFails(w) \/ Commit(w) \/ Abort(w)
      BY <3>1 DEF FlushFails, Commit, Abort, RollBack, End
    <3>2. CASE InsertEvaluation(w) \/ LoadAgent(w) \/ FlushAgent(w)
      BY <3>2 DEF InsertEvaluation, LoadAgent, FlushAgent
    <3>3. CASE \E c \in Convs : Begin(w, c)
      BY <3>3 DEF Begin
    <3>4. QED
      BY <3>1, <3>2, <3>3 DEF Statement
  <2>3. StepsLeft(w)' < StepsLeft(w) \/ \E c \in Convs : Begin(w, c)
    BY <2>1, <2>2 DEF StepsLeft
  <2>4. \A v \in Workers \ {w} : StepsLeft(v)' = StepsLeft(v)
    BY <2>1, <2>2 DEF StepsLeft
  <2>5. QED
    BY <2>3, <2>4
<1>3. QED
  BY <1>1, <1>2, AlwaysRInv, PTL DEF Spec, TransactionsCountDown
=============================================================================
