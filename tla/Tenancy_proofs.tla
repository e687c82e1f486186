--------------------------- MODULE Tenancy_proofs ---------------------------
(***************************************************************************)
(* Proofs about Tenancy for every set of rows, cascades, writers and       *)
(* requests: its type invariant, that rows which exist once are the same   *)
(* for all, that a deleted_at never changes, for which the invariant tells *)
(* who may hold a row and who may insert one, that a cascade misses        *)
(* nothing that it has seen, for which the schema matters, and that every  *)
(* request of a finite project ends.                                       *)
(***************************************************************************)
EXTENDS Tenancy, FiniteSetTheorems, SequenceTheorems, TLAPS

USE SoftDeleteAssumption, TenancyAssumption

\* Locks: only a request at work holds or awaits rows, no two hold the same, and
\* what a delete holds is not deleted yet by anybody.
Locking ==
  /\ \A p \in Requests : pc[p] # "work" => held[p] = {} /\ pending[p] = {}
  /\ \A p, q \in Requests : p # q => held[p] \cap held[q] = {}
  /\ \A p \in Requests : Deletes(p) => \A r \in held[p] : state[r] = "live"

\* Only deleted rows have a deleted_at.
Stamping == \A r \in Rows : stamp[r] # None => state[r] = "deleted"

\* A key that is claimed has no committed row yet and one claimant, who answers
\* with its own row; who found a row answers with the one that has the key.
Claiming ==
  /\ holder[agent] = None => state[agent] = "absent"
  /\ \A p, q \in Requests : p # q /\ claims[p] # None => claims[q] # claims[p]
  /\ \A p \in Requests :
       /\ claims[p] # None =>
            /\ pc[p] = "found"
            /\ claims[p] = Key(p)
            /\ holder[Key(p)] = None
            /\ got[p] = p
       /\ pc[p] \in {"insert", "found"} => op[p] \in Creates
       /\ pc[p] = "found" /\ claims[p] = None =>
            holder[Key(p)] # None /\ got[p] = holder[Key(p)]
       /\ pc[p] = "answered" /\ op[p] \in Creates => holder[Key(p)] # None

TInv == TypeOK /\ Locking /\ Stamping /\ Claiming /\ OneForAll

-----------------------------------------------------------------------------
(* What closing a request does, and what it needs to keep the invariant.   *)

\* A rollback of a request that has no claim keeps the invariant.
LEMMA RollBackKeeps ==
  ASSUME TInv, NEW p \in Requests, Close(p, "failed"), UNCHANGED rows,
         UNCHANGED <<holder, got>>,
         claims' = [claims EXCEPT ![p] = None]
  PROVE  TInv'
<1> USE DEF TInv, rows, Close
<1>1. TypeOK'
  BY DEF TypeOK
<1>2. Locking'
  BY DEF TypeOK, Locking, Deletes
<1>3. Stamping'
  BY DEF Stamping
<1>4. Claiming'
  BY DEF TypeOK, Claiming, Key
<1>5. OneForAll'
  BY DEF TypeOK, OneForAll, Key
<1>6. QED
  BY <1>1, <1>2, <1>3, <1>4, <1>5

-----------------------------------------------------------------------------
THEOREM InitInv == TenancyInit => TInv
BY DEF TenancyInit, Init, TInv, TypeOK, Locking, Stamping, Claiming, OneForAll,
       Keys, Key, Ops

\* The steps of cascades and writers.
LEMMA BeginKeeps ==
  ASSUME TInv, NEW p \in Requests, NEW o \in Roots \cup Writers,
         Begin(p, o), UNCHANGED keyVars
  PROVE  TInv'
<1> USE DEF TInv, Begin, keyVars, rows
<1>1. TypeOK'
  BY DEF TypeOK, Ops, Below
<1>2. Locking'
  BY DEF TypeOK, Locking, Deletes
<1>3. Stamping' /\ Claiming' /\ OneForAll'
  BY DEF TypeOK, Stamping, Claiming, OneForAll, Key
<1>4. QED
  BY <1>1, <1>2, <1>3

LEMMA FindIdsKeeps ==
  ASSUME TInv, NEW p \in Requests, FindIds(p), UNCHANGED keyVars
  PROVE  TInv'
<1> USE DEF TInv, FindIds, keyVars, rows
<1>1. TypeOK' /\ Locking'
  BY DEF TypeOK, Locking, Deletes
<1>2. Stamping' /\ Claiming' /\ OneForAll'
  BY DEF TypeOK, Stamping, Claiming, OneForAll, Key
<1>3. QED
  BY <1>1, <1>2

LEMMA ExecuteKeeps ==
  ASSUME TInv, NEW p \in Requests, Execute(p), UNCHANGED keyVars
  PROVE  TInv'
<1> USE DEF TInv, keyVars, rows
<1>1. PICK S \in SUBSET Rows : pending' = [pending EXCEPT ![p] = S]
  BY DEF Execute
<1>2. pc[p] = "work" /\ UNCHANGED <<rows, op, pc, held, before>>
  BY DEF Execute
<1>3. TypeOK' /\ Locking'
  BY <1>1, <1>2 DEF TypeOK, Locking, Deletes
<1>4. Stamping' /\ Claiming' /\ OneForAll'
  BY <1>2 DEF Stamping, Claiming, OneForAll, Key
<1>5. QED
  BY <1>3, <1>4

LEMMA LockRowKeeps ==
  ASSUME TInv, NEW p \in Requests, NEW r \in Rows, LockRow(p, r), UNCHANGED keyVars
  PROVE  TInv'
<1> USE DEF TInv, LockRow, keyVars, rows
<1>1. TypeOK'
  BY DEF TypeOK
<1>2. Locking'
  <2>1. r \in pending[p] /\ pc[p] = "work"
    BY DEF Locking
  <2>2. \A q \in Requests \ {p} : r \notin held[q]
    BY DEF Holders
  <2>3. \A q \in Requests : q # p => held'[q] = held[q] /\ pending'[q] = pending[q]
    BY DEF TypeOK
  <2>4. /\ held'[p] \subseteq held[p] \cup {r}
        /\ r \in held'[p] => r \in held[p] \/ Matches(p, r)
    BY DEF TypeOK
  <2>5. Deletes(p) /\ Matches(p, r) => state[r] = "live"
    BY DEF Matches
  <2>6. QED
    BY <2>1, <2>2, <2>3, <2>4, <2>5 DEF Locking, Deletes
<1>3. Stamping' /\ Claiming' /\ OneForAll'
  BY DEF Stamping, Claiming, OneForAll, Key
<1>4. QED
  BY <1>1, <1>2, <1>3

LEMMA CommitKeeps ==
  ASSUME TInv, NEW p \in Requests, Commit(p), UNCHANGED keyVars
  PROVE  TInv'
<1> USE DEF TInv, keyVars
<1>1. /\ pc[p] = "work" /\ pc' = [pc EXCEPT ![p] = "answered"]
      /\ pending' = [pending EXCEPT ![p] = {}]
      /\ held' = [held EXCEPT ![p] = {}]
      /\ before' = [before EXCEPT ![p] = {}]
      /\ UNCHANGED op
      /\ op[p] \in Roots \cup Writers
  BY DEF Commit, Close, Deletes
<1>2. CASE /\ Deletes(p)
           /\ state' = [r \in Rows |-> IF r \in held[p] THEN "deleted" ELSE state[r]]
           /\ stamp' = [r \in Rows |-> IF r \in held[p] THEN p ELSE stamp[r]]
  <2>1. TypeOK'
    BY <1>1, <1>2 DEF TypeOK
  <2>2. Locking'
    BY <1>1, <1>2 DEF TypeOK, Locking, Deletes
  <2>3. Stamping'
    BY <1>1, <1>2 DEF TypeOK, Stamping
  <2>4. holder[agent] = None => agent \notin held[p]
    BY <1>2 DEF Locking, Claiming
  <2>5. Claiming' /\ OneForAll'
    BY <1>1, <1>2, <2>4 DEF TypeOK, Claiming, OneForAll, Key
  <2>6. QED
    BY <2>1, <2>2, <2>3, <2>5
<1>3. CASE /\ op[p] \in Writers
           /\ state' = [r \in Rows |->
                IF r \in adds[op[p]] /\ state[r] = "absent" THEN "live" ELSE state[r]]
           /\ UNCHANGED stamp
  <2>1. TypeOK'
    BY <1>1, <1>3 DEF TypeOK
  <2>2. Locking'
    BY <1>1, <1>3 DEF TypeOK, Locking, Deletes
  <2>3. Stamping'
    BY <1>1, <1>3 DEF TypeOK, Stamping
  <2>4. Claiming' /\ OneForAll'
    BY <1>1, <1>3 DEF TypeOK, Claiming, OneForAll, Key
  <2>5. QED
    BY <2>1, <2>2, <2>3, <2>4
<1>4. QED
  BY <1>2, <1>3 DEF Commit

\* Who is aborted for a deadlock, for a clash or by a fault has claimed nothing.
LEMMA AbortKeeps ==
  ASSUME TInv, NEW p \in Requests,
         BreakDeadlock(p) \/ ReputationClash(p) \/ Raise(p),
         UNCHANGED keyVars
  PROVE  TInv'
<1>1. Close(p, "failed") /\ UNCHANGED rows
  BY DEF BreakDeadlock, ReputationClash, Raise
<1>2. pc[p] # "found"
  BY DEF BreakDeadlock, Deadlocked, ReputationClash, Raise, Open, TInv, Locking
<1>3. claims[p] = None
  BY <1>2 DEF TInv, Claiming
<1>4. claims' = [claims EXCEPT ![p] = None]
  BY <1>3 DEF keyVars, TInv, TypeOK
<1>5. QED
  BY <1>1, <1>4, RollBackKeeps DEF keyVars

-----------------------------------------------------------------------------
(* The steps of the requests that insert a row that exists once.           *)

LEMMA BeginCreateKeeps ==
  ASSUME TInv, NEW p \in Requests, NEW o \in Creates, BeginCreate(p, o)
  PROVE  TInv'
<1> USE DEF TInv, BeginCreate, keyVars, rows, txn
<1>1. TypeOK'
  BY DEF TypeOK, Ops
<1>2. Locking' /\ Stamping'
  BY DEF TypeOK, Locking, Stamping, Deletes
<1>3. Claiming' /\ OneForAll'
  BY DEF TypeOK, Claiming, OneForAll, Key
<1>4. QED
  BY <1>1, <1>2, <1>3

LEMMA FindKeeps ==
  ASSUME TInv, NEW p \in Requests, Find(p)
  PROVE  TInv'
<1> USE DEF TInv, Find, rows, txn
<1>1. Key(p) \in Keys
  BY DEF Key, Keys
<1>2. Finds(p) => holder[Key(p)] # None
  BY DEF Finds, Key, Claiming
<1>3. TypeOK'
  BY <1>1, <1>2 DEF TypeOK
<1>4. Locking' /\ Stamping'
  BY DEF TypeOK, Locking, Stamping, Deletes
<1>5. Claiming' /\ OneForAll'
  BY <1>2 DEF TypeOK, Claiming, OneForAll, Key
<1>6. QED
  BY <1>3, <1>4, <1>5

LEMMA InsertKeeps ==
  ASSUME TInv, NEW p \in Requests, Insert(p)
  PROVE  TInv'
<1> USE DEF TInv, Insert, rows, txn
<1>1. Key(p) \in Keys
  BY DEF Key, Keys, Claiming
<1>2. TypeOK'
  BY <1>1 DEF TypeOK
<1>3. Locking' /\ Stamping'
  BY DEF TypeOK, Locking, Stamping, Deletes
<1>4. Claiming' /\ OneForAll'
  BY <1>1 DEF TypeOK, Claiming, OneForAll, Key, KeyIsFree, KeyTaken
<1>5. QED
  BY <1>2, <1>3, <1>4

LEMMA CreateFailsKeeps ==
  ASSUME TInv, NEW p \in Requests, Clash(p) \/ RaiseCreate(p)
  PROVE  TInv'
<1>1. CASE Clash(p)
  <2>1. claims[p] = None
    BY <1>1 DEF Clash, TInv, Claiming
  <2>2. claims' = [claims EXCEPT ![p] = None]
    BY <1>1, <2>1 DEF Clash, TInv, TypeOK
  <2>3. QED
    BY <1>1, <2>2, RollBackKeeps DEF Clash
<1>2. CASE RaiseCreate(p)
  <2> USE <1>2 DEF TInv, RaiseCreate, Close, rows
  <2>1. TypeOK'
    BY DEF TypeOK
  <2>2. Locking' /\ Stamping'
    BY DEF TypeOK, Locking, Stamping, Deletes
  <2>3. Claiming' /\ OneForAll'
    BY DEF TypeOK, Claiming, OneForAll, Key
  <2>4. QED
    BY <2>1, <2>2, <2>3
<1>3. QED
  BY <1>1, <1>2

LEMMA CommitCreateKeeps ==
  ASSUME TInv, NEW p \in Requests, CommitCreate(p)
  PROVE  TInv'
<1> USE DEF TInv, CommitCreate, Close
<1>1. pc[p] = "found" /\ op[p] \in Creates
  BY DEF Claiming
<1>2. TypeOK'
  BY DEF TypeOK
<1>3. \A r \in Rows : r = claims[p] => r = agent /\ state[r] = "absent"
  BY DEF Claiming, Key, TypeOK, Keys
<1>4. \A r \in Rows : state'[r] = state[r] \/ (state[r] = "absent" /\ state'[r] = "live")
  BY <1>3
<1>5. Locking'
  BY <1>1, <1>4 DEF TypeOK, Locking, Deletes
<1>6. Stamping'
  BY <1>3, <1>4 DEF Stamping
<1>7. \A q \in Requests : Key(q)' = Key(q)
  BY DEF Key
<1>8. \A k \in Keys : k # claims[p] => holder'[k] = holder[k]
  OBVIOUS
<1>9. claims[p] \in Keys => holder'[claims[p]] = p
  OBVIOUS
<1>10. None \notin Keys
  BY DEF Keys
<1>11. Claiming'
  <2>1. holder'[agent] = None => state'[agent] = "absent"
    BY <1>10 DEF Keys, Claiming
  <2>2. \A q, s \in Requests : q # s /\ claims'[q] # None => claims'[s] # claims'[q]
    BY DEF TypeOK, Claiming
  <2>3. \A q \in Requests : q # p /\ claims[q] # None => holder'[Key(q)] = None
    BY DEF TypeOK, Claiming, Key, Keys
  <2>4. \A q \in Requests :
          op[q] \in Creates /\ holder[Key(q)] # None =>
            holder'[Key(q)] = holder[Key(q)]
    BY <1>8 DEF Claiming, Key, Keys
  <2>5. op[p] \in Creates => holder'[Key(p)] # None
    BY <1>1, <1>8, <1>9 DEF Claiming, Key, Keys
  <2> DEFINE Fine(q) ==
        /\ claims[q] # None =>
             /\ pc[q] = "found"
             /\ claims[q] = Key(q)
             /\ holder[Key(q)] = None
             /\ got[q] = q
        /\ pc[q] \in {"insert", "found"} => op[q] \in Creates
        /\ pc[q] = "found" /\ claims[q] = None =>
             holder[Key(q)] # None /\ got[q] = holder[Key(q)]
        /\ pc[q] = "answered" /\ op[q] \in Creates => holder[Key(q)] # None
  <2>6. ASSUME NEW q \in Requests, q # p PROVE Fine(q)'
    <3>1. pc'[q] = pc[q] /\ claims'[q] = claims[q] /\ op' = op /\ got' = got
      BY <2>6 DEF TypeOK
    <3>2. Key(q)' = Key(q)
      BY <1>7
    <3>3. QED
      BY <2>3, <2>4, <2>6, <3>1, <3>2 DEF Claiming
  <2>7. Fine(p)'
    <3>1. claims'[p] = None /\ pc'[p] = "answered" /\ op' = op
      BY DEF TypeOK
    <3>2. Key(p)' = Key(p)
      BY <1>7
    <3>3. QED
      BY <2>5, <3>1, <3>2
  <2>8. \A q \in Requests : Fine(q)'
    BY <2>6, <2>7
  <2> HIDE DEF CommitCreate, Close, TInv
  <2>9. QED
    BY <2>1, <2>2, <2>8 DEF Claiming
<1>12. OneForAll'
  <2>1. got[p] = holder'[Key(p)]
    BY <1>1, <1>8, <1>9 DEF Claiming, Key, Keys
  <2>2. ASSUME NEW q \in Requests, q # p, pc[q] = "answered", op[q] \in Creates
        PROVE  got[q] = holder'[Key(q)]
    BY <2>2, <1>8 DEF OneForAll, Claiming, Key, Keys
  <2>3. QED
    BY <1>7, <2>1, <2>2 DEF TypeOK, OneForAll
<1>13. QED
  BY <1>2, <1>5, <1>6, <1>11, <1>12

-----------------------------------------------------------------------------
THEOREM StepInv == TInv /\ [TenancyNext]_vars => TInv'
<1> SUFFICES ASSUME TInv, [TenancyNext]_vars PROVE TInv'
  OBVIOUS
<1>1. CASE Next /\ UNCHANGED keyVars
  BY <1>1, BeginKeeps, FindIdsKeeps, ExecuteKeeps, LockRowKeeps, CommitKeeps, AbortKeeps
     DEF Next, RequestStep
<1>2. ASSUME NEW p \in Requests, CreateStep(p) \/ RaiseCreate(p) PROVE TInv'
  BY <1>2, FindKeeps, InsertKeeps, CreateFailsKeeps, CommitCreateKeeps DEF CreateStep
<1>3. ASSUME NEW p \in Requests, NEW o \in Creates, BeginCreate(p, o) PROVE TInv'
  BY <1>3, BeginCreateKeeps
<1>4. CASE UNCHANGED vars
  BY <1>4 DEF vars, deleteVars, keyVars, rows, txn, TInv, TypeOK, Locking, Stamping,
              Claiming, OneForAll, Deletes, Key
<1>5. QED
  BY <1>1, <1>2, <1>3, <1>4 DEF TenancyNext

\* Every variable keeps its type.
THEOREM TypeCorrect == TenancySpec => []TypeOK
<1>1. TInv => TypeOK
  BY DEF TInv
<1>2. QED
  BY <1>1, InitInv, StepInv, PTL DEF TenancySpec

\* Whoever is answered with a row that exists once got the committed one, however
\* many first logins, uploads, deletes and faults interleave.
THEOREM SameRowForAll == TenancySpec => []OneForAll
<1>1. TInv => OneForAll
  BY DEF TInv
<1>2. QED
  BY <1>1, InitInv, StepInv, PTL DEF TenancySpec

\* No step changes a deleted_at that is set: a cascade holds only rows that were
\* live when it locked them, and no other can have flagged them since.
THEOREM StampsAreFinal == TenancySpec => DeletedAtKept
<1> DEFINE Kept == \A r \in Rows : stamp[r] # None => stamp'[r] = stamp[r]
<1>1. TInv /\ [TenancyNext]_vars => [Kept]_deleteVars
  <2> SUFFICES ASSUME TInv, [TenancyNext]_vars PROVE Kept
    OBVIOUS
  <2>1. ASSUME NEW p \in Requests, Commit(p) PROVE Kept
    BY <2>1 DEF TInv, Locking, Stamping, Commit
  <2>2. ASSUME UNCHANGED stamp PROVE Kept
    BY <2>2
  <2>3. CASE Next /\ UNCHANGED keyVars
    BY <2>1, <2>2, <2>3
       DEF Next, RequestStep, Begin, FindIds, Execute, LockRow, BreakDeadlock,
           ReputationClash, Raise, rows
  <2>4. CASE \E p \in Requests :
               CreateStep(p) \/ RaiseCreate(p) \/ \E o \in Creates : BeginCreate(p, o)
    BY <2>2, <2>4
       DEF CreateStep, BeginCreate, Find, Insert, Clash, CommitCreate, RaiseCreate, rows
  <2>5. CASE UNCHANGED vars
    BY <2>2, <2>5 DEF vars, deleteVars, rows
  <2>6. QED
    BY <2>3, <2>4, <2>5 DEF TenancyNext
<1>2. TInv /\ TInv' /\ [TenancyNext]_vars => [Kept]_deleteVars
  BY <1>1
<1>3. QED
  BY <1>2, InitInv, StepInv, PTL DEF TenancySpec, DeletedAtKept

-----------------------------------------------------------------------------
(* What a cascade reaches: every row below its root that exists, by one of *)
(* its statements.                                                         *)

\* One UPDATE, the rows it would find, and what a list of them would find.
Statements == [table : DOMAIN Owners, ids : SUBSET Rows]
Hits(r, ids) == r \in ids \/ refs[r] \cap ids # {}
Targets(s, r) == table[r] = s.table /\ Hits(r, s.ids)
Reaches(seq, r) == \E i \in DOMAIN seq : Targets(seq[i], r)

\* A row that exists belongs to rows that exist, deleted or not.
Rooted ==
  \A r \in Rows : state[r] # "absent" => \A q \in refs[r] : state[q] # "absent"

\* What an open request has read exists.
ReadBy(p) ==
  pc[p] \in {"find", "work", "insert", "found"} =>
    /\ \A r \in Sees(op[p]) : state[r] # "absent"
    /\ op[p] \in Uploads => state[project] # "absent"

\* What a cascade found below its root is deleted, held, about to be locked, or
\* reached by a statement that is still to come.
CoveredBy(p) ==
  Deletes(p) /\ pc[p] \in {"find", "work"} =>
    \A r \in before[p] :
      /\ r \in Below(op[p])
      /\ state[r] # "absent"
      /\ pc[p] = "work" =>
           state[r] = "deleted" \/ r \in held[p] \cup pending[p] \/ Reaches(plan[p], r)

\* The invariant: nothing escapes a cascade that is under way.
Covering ==
  /\ plan \in [Requests -> Seq(Statements)]
  /\ Rooted
  /\ \A p \in Requests : ReadBy(p) /\ CoveredBy(p)

\* A list of n tables.
Names(tables, n) ==
  /\ n \in Nat /\ DOMAIN tables = 1 .. n
  /\ \A k \in 1 .. n : tables[k] \in DOMAIN Owners

\* One _flag per table reaches the rows of these tables that the ids hit.
LEMMA FlagsReach ==
  ASSUME NEW tables, NEW n, Names(tables, n), NEW ids \in SUBSET Rows
  PROVE  /\ Flags(tables, ids) \in Seq(Statements)
         /\ \A r \in Rows, k \in 1 .. n :
              table[r] = tables[k] /\ Hits(r, ids) =>
                Reaches(Flags(tables, ids), r)
<1> DEFINE Tables == DOMAIN Owners
<1> HIDE DEF Tables
<1>0. n \in Nat /\ DOMAIN tables = 1 .. n /\ \A k \in 1 .. n : tables[k] \in Tables
  BY DEF Names, Tables
<1>1. CASE ids = {}
  <2>1. Flags(tables, ids) = <<>>
    BY <1>1 DEF Flags
  <2>2. <<>> \in Seq(Statements)
    OBVIOUS
  <2>3. QED
    BY <1>1, <2>1, <2>2 DEF Hits
<1>2. CASE ids # {}
  <2>1. Flags(tables, ids) = [i \in 1 .. n |-> [table |-> tables[i], ids |-> ids]]
    BY <1>0, <1>2 DEF Flags
  <2>2. Flags(tables, ids) \in Seq(Statements)
    <3>1. \A i \in 1 .. n : [table |-> tables[i], ids |-> ids] \in [table : Tables, ids : SUBSET Rows]
      BY <1>0
    <3>2. \A i \in 1 .. n : [table |-> tables[i], ids |-> ids] \in Statements
      BY <3>1 DEF Statements, Tables
    <3>3. QED
      BY <1>0, <2>1, <3>2
  <2>3. ASSUME NEW r \in Rows, NEW k \in 1 .. n, table[r] = tables[k],
               Hits(r, ids)
        PROVE  Reaches(Flags(tables, ids), r)
    <3>1. Flags(tables, ids)[k] = [table |-> tables[k], ids |-> ids] /\ k \in DOMAIN Flags(tables, ids)
      BY <2>1
    <3>2. Targets(Flags(tables, ids)[k], r)
      BY <2>3, <3>1 DEF Targets
    <3>3. QED
      BY <3>1, <3>2 DEF Reaches
  <2>4. QED
    BY <2>2, <2>3
<1>3. QED
  BY <1>1, <1>2

LEMMA JoinReaches ==
  ASSUME NEW s \in Seq(Statements), NEW t \in Seq(Statements)
  PROVE  /\ s \o t \in Seq(Statements)
         /\ \A r \in Rows : Reaches(s, r) \/ Reaches(t, r) => Reaches(s \o t, r)
<1>1. s \o t \in Seq(Statements)
  OBVIOUS
<1>2. ASSUME NEW r \in Rows, NEW i \in DOMAIN s, Targets(s[i], r) PROVE Reaches(s \o t, r)
  <2>1. i \in DOMAIN (s \o t) /\ (s \o t)[i] = s[i]
    OBVIOUS
  <2>2. QED
    BY <1>2, <2>1 DEF Reaches
<1>3. ASSUME NEW r \in Rows, NEW i \in DOMAIN t, Targets(t[i], r) PROVE Reaches(s \o t, r)
  <2>1. Len(s) + i \in DOMAIN (s \o t) /\ (s \o t)[Len(s) + i] = t[i]
    OBVIOUS
  <2>2. QED
    BY <1>3, <2>1 DEF Reaches
<1>4. QED
  BY <1>1, <1>2, <1>3 DEF Reaches

\* The lists of the code name tables, and that of a project every table.
LEMMA TablesAreNamed ==
  /\ Names(ProjectTables, 16) /\ Names(ConversationTables, 6)
  /\ Names(ImprovementTables, 2) /\ Names(FlowTables, 2)
  /\ \A t \in DOMAIN Owners : \E k \in 1 .. 16 : ProjectTables[k] = t
<1>1. Names(ProjectTables, 16)
  BY DEF ProjectTables, Names, Owners
<1>2. Names(ConversationTables, 6)
  BY DEF ConversationTables, Names, Owners
<1>3. Names(ImprovementTables, 2) /\ Names(FlowTables, 2)
  BY DEF ImprovementTables, FlowTables, Names, Owners
<1>4. \A t \in DOMAIN Owners : \E k \in 1 .. 16 : ProjectTables[k] = t
  BY DEF ProjectTables, Owners
<1>5. QED
  BY <1>1, <1>2, <1>3, <1>4

LEMMA SingleReaches ==
  ASSUME NEW t \in DOMAIN Owners, NEW ids \in SUBSET Rows
  PROVE  /\ Flags(<<t>>, ids) \in Seq(Statements)
         /\ \A r \in ids : table[r] = t => Reaches(Flags(<<t>>, ids), r)
<1> DEFINE one == <<t>>
<1>1. one[1] = t /\ Names(one, 1)
  BY DEF Names
<1>2. \A r \in ids : Hits(r, ids)
  BY DEF Hits
<1> HIDE DEF one
<1>3. Flags(one, ids) \in Seq(Statements)
  BY <1>1, FlagsReach
<1>4. ASSUME NEW r \in ids, table[r] = t PROVE Reaches(Flags(one, ids), r)
  BY <1>1, <1>2, <1>4, FlagsReach
<1>5. QED
  BY <1>3, <1>4 DEF one

\* The tables of what belongs to a row, by the table of that row.
LEMMA WhatOwns ==
  ASSUME NEW r \in Rows, NEW q \in refs[r]
  PROVE  /\ q \in Rows
         /\ table[q] = "conversations" => \E k \in 1 .. 6 : ConversationTables[k] = table[r]
         /\ table[q] = "uploads" => table[r] = "conversations"
         /\ table[q] = "flows" => table[r] \in {"flow_versions", "improvements"}
         /\ table[q] = "improvements" => table[r] = "improvement_conversations"
         /\ table[q] \notin {"flow_versions", "supervisors"}
<1>1. table[r] \in DOMAIN Owners /\ q \in Rows /\ table[q] \in Owners[table[r]]
  BY SchemaAssumption
<1>2. \A t \in DOMAIN Owners :
        "conversations" \in Owners[t] =>
             t \in {"messages", "evaluations", "audit_conversations", "message_evaluations",
                    "improvement_conversations"}
  BY DEF Owners
<1>3. \A t \in {"messages", "evaluations", "audit_conversations", "message_evaluations",
                "improvement_conversations"} : \E k \in 1 .. 6 : ConversationTables[k] = t
  BY DEF ConversationTables
<1>4. \A t \in DOMAIN Owners : "uploads" \in Owners[t] => t = "conversations"
  BY DEF Owners
<1>5. \A t \in DOMAIN Owners : "flows" \in Owners[t] => t \in {"flow_versions", "improvements"}
  BY DEF Owners
<1>6. \A t \in DOMAIN Owners : "improvements" \in Owners[t] => t = "improvement_conversations"
  BY DEF Owners
<1>7. \A t \in DOMAIN Owners : "flow_versions" \notin Owners[t]
  BY DEF Owners
<1>8. \A t \in DOMAIN Owners : "supervisors" \notin Owners[t]
  BY DEF Owners
<1>9. QED
  BY <1>1, <1>2, <1>3, <1>4, <1>5, <1>6, <1>7, <1>8

LEMMA RootsAreRows ==
  ASSUME NEW o \in Roots
  PROVE  /\ o \in Rows /\ {o} \in SUBSET Rows /\ table[o] \in DOMAIN Owners
         /\ Below(o) \subseteq Rows
         /\ table[o] \in Copied => \A r \in Below(o) : Hits(r, {o})
<1>1. o \in Rows /\ {o} \in SUBSET Rows
  BY SoftDeleteAssumption
<1>2. table[o] \in DOMAIN Owners
  BY <1>1, SchemaAssumption
<1>3. Below(o) \subseteq Rows
  BY <1>1 DEF Below
<1>4. ASSUME table[o] \in Copied, NEW r \in Below(o) PROVE Hits(r, {o})
  <2>1. CASE \E q \in refs[r] : q \in Rows /\ o \in refs[q]
    BY <1>3, <1>4, <2>1, SchemaAssumption DEF Hits
  <2>2. QED
    BY <1>1, <2>1 DEF Below, Hits
<1>5. QED
  BY <1>1, <1>2, <1>3, <1>4

LEMMA ProjectReaches ==
  ASSUME NEW o \in Roots, table[o] = "projects"
  PROVE  /\ Cascade(o) \in Seq(Statements)
         /\ \A r \in Below(o) : Reaches(Cascade(o), r)
<1>1. Cascade(o) = Flags(ProjectTables, {o})
  BY DEF Cascade
<1>2. ASSUME NEW r \in Below(o) PROVE Reaches(Cascade(o), r)
  <2>1. r \in Rows /\ Hits(r, {o})
    BY RootsAreRows DEF Copied
  <2>2. table[r] \in DOMAIN Owners
    BY <2>1, SchemaAssumption
  <2>3. PICK k \in 1 .. 16 : ProjectTables[k] = table[r]
    BY <2>2, TablesAreNamed
  <2>4. QED
    BY <1>1, <2>1, <2>3, FlagsReach, TablesAreNamed, RootsAreRows
<1>3. Flags(ProjectTables, {o}) \in Seq(Statements)
  <2>1. Names(ProjectTables, 16) /\ {o} \in SUBSET Rows
    BY TablesAreNamed, RootsAreRows
  <2>2. QED
    BY <2>1, FlagsReach
<1>4. QED
  BY <1>1, <1>2, <1>3

LEMMA ConversationReaches ==
  ASSUME NEW ids \in SUBSET {r \in Rows : table[r] = "conversations"}
  PROVE  /\ Flags(ConversationTables, ids) \in Seq(Statements)
         /\ \A r \in Rows : Hits(r, ids) => Reaches(Flags(ConversationTables, ids), r)
<1>1. ids \in SUBSET Rows
  OBVIOUS
<1>2. ASSUME NEW r \in Rows, Hits(r, ids)
      PROVE  Reaches(Flags(ConversationTables, ids), r)
  <2>1. \E k \in 1 .. 6 : ConversationTables[k] = table[r]
    <3>1. ConversationTables[6] = "conversations" /\ 6 \in 1 .. 6
      BY DEF ConversationTables
    <3>2. CASE r \in ids
      BY <3>1, <3>2
    <3>3. CASE \E q \in refs[r] : q \in ids
      <4>1. PICK q \in refs[r] : table[q] = "conversations"
        BY <3>3
      <4>2. QED
        BY <4>1, WhatOwns
    <3>4. QED
      BY <1>2, <3>2, <3>3 DEF Hits
  <2>2. QED
    BY <1>1, <1>2, <2>1, FlagsReach, TablesAreNamed
<1>3. QED
  BY <1>1, <1>2, FlagsReach, TablesAreNamed

\* What is below a root, without the rows that no longer exist or not yet.
LEMMA BelowIs ==
  ASSUME NEW o \in Roots, Rooted, NEW r \in Below(o), state[r] # "absent", r # o
  PROVE  \/ o \in refs[r]
         \/ \E q \in refs[r] : q \in Rows /\ o \in refs[q] /\ state[q] # "absent"
<1>1. r \in Rows
  BY RootsAreRows
<1>2. ASSUME NEW q \in refs[r] PROVE q \in Rows /\ state[q] # "absent"
  BY <1>1, SchemaAssumption DEF Rooted
<1>3. QED
  BY <1>2 DEF Below

LEMMA UploadReaches ==
  ASSUME NEW o \in Roots, table[o] = "uploads", Rooted
  PROVE  /\ Cascade(o) \in Seq(Statements)
         /\ \A r \in Below(o) : state[r] # "absent" => Reaches(Cascade(o), r)
<1> DEFINE ids == Children("conversations", o)
           one == Flags(ConversationTables, ids)
           two == Flags(<<"uploads">>, {o})
<1>1. Cascade(o) = one \o two
  BY DEF Cascade
<1>2. ids \in SUBSET {r \in Rows : table[r] = "conversations"}
  BY DEF Children
<1>3. /\ two \in Seq(Statements) /\ Reaches(two, o)
  BY RootsAreRows, SingleReaches
<1>4. one \in Seq(Statements)
  BY <1>2, ConversationReaches
<1>5. ASSUME NEW r \in Below(o), state[r] # "absent", r # o PROVE Reaches(one, r)
  <2>1. r \in Rows
    BY RootsAreRows
  <2>2. Hits(r, ids)
    <3>1. CASE o \in refs[r]
      <4>1. table[r] = "conversations"
        BY <2>1, <3>1, WhatOwns
      <4>2. QED
        BY <1>5, <2>1, <3>1, <4>1 DEF Children, Hits
    <3>2. CASE \E q \in refs[r] : q \in Rows /\ o \in refs[q] /\ state[q] # "absent"
      <4>1. PICK q \in refs[r] : q \in Rows /\ o \in refs[q] /\ state[q] # "absent"
        BY <3>2
      <4>2. table[q] = "conversations"
        BY <4>1, WhatOwns
      <4>3. QED
        BY <4>1, <4>2 DEF Children, Hits
    <3>3. QED
      BY <1>5, <3>1, <3>2, BelowIs
  <2>3. QED
    BY <1>2, <2>1, <2>2, ConversationReaches
<1> HIDE DEF ids, one, two
<1>6. \A r \in Below(o) : r \in Rows
  BY RootsAreRows
<1>7. QED
  BY <1>1, <1>3, <1>4, <1>5, <1>6, JoinReaches

LEMMA FlowReaches ==
  ASSUME NEW o \in Roots, table[o] = "flows", Rooted
  PROVE  /\ Cascade(o) \in Seq(Statements)
         /\ \A r \in Below(o) : state[r] # "absent" => Reaches(Cascade(o), r)
<1> DEFINE ids == Children("improvements", o)
           one == Flags(ImprovementTables, ids)
           two == Flags(FlowTables, {o})
<1>1. Cascade(o) = one \o two
  BY DEF Cascade
<1>2. ids \in SUBSET Rows
  BY DEF Children
<1>3. /\ ImprovementTables[1] = "improvement_conversations" /\ ImprovementTables[2] = "improvements"
      /\ FlowTables[1] = "flow_versions" /\ FlowTables[2] = "flows"
  BY DEF ImprovementTables, FlowTables
<1>4. one \in Seq(Statements)
  BY <1>2, FlagsReach, TablesAreNamed
<1>5. two \in Seq(Statements)
  BY FlagsReach, TablesAreNamed, RootsAreRows
<1>6. ASSUME NEW r \in Rows, Hits(r, ids), table[r] \in {"improvement_conversations", "improvements"}
      PROVE  Reaches(one, r)
  <2>1. PICK k \in 1 .. 2 : table[r] = ImprovementTables[k]
    BY <1>3, <1>6
  <2>2. QED
    BY <1>2, <1>6, <2>1, FlagsReach, TablesAreNamed
<1>7. ASSUME NEW r \in Rows, Hits(r, {o}), table[r] \in {"flow_versions", "flows"}
      PROVE  Reaches(two, r)
  <2>1. PICK k \in 1 .. 2 : table[r] = FlowTables[k]
    BY <1>3, <1>7
  <2>2. QED
    BY <1>7, <2>1, FlagsReach, TablesAreNamed, RootsAreRows
<1>8. ASSUME NEW r \in Below(o), state[r] # "absent" PROVE Reaches(one, r) \/ Reaches(two, r)
  <2>1. r \in Rows
    BY RootsAreRows
  <2>2. CASE r = o
    BY <1>7, <2>1, <2>2 DEF Hits
  <2>3. CASE o \in refs[r]
    <3>1. table[r] \in {"flow_versions", "improvements"} /\ Hits(r, {o})
      BY <2>1, <2>3, WhatOwns DEF Hits
    <3>2. table[r] = "improvements" => Hits(r, ids)
      BY <1>8, <2>1, <2>3 DEF Children, Hits
    <3>3. QED
      BY <1>6, <1>7, <2>1, <3>1, <3>2
  <2>4. CASE \E q \in refs[r] : q \in Rows /\ o \in refs[q] /\ state[q] # "absent"
    <3>1. PICK q \in refs[r] : q \in Rows /\ o \in refs[q] /\ state[q] # "absent"
      BY <2>4
    <3>2. table[q] = "improvements"
      BY <2>1, <3>1, WhatOwns
    <3>3. table[r] = "improvement_conversations"
      BY <2>1, <3>2, WhatOwns
    <3>4. Hits(r, ids)
      BY <3>1, <3>2 DEF Children, Hits
    <3>5. QED
      BY <1>6, <2>1, <3>3, <3>4
  <2>5. QED
    BY <1>8, <2>2, <2>3, <2>4, BelowIs
<1> HIDE DEF ids, one, two
<1>9. \A r \in Below(o) : r \in Rows
  BY RootsAreRows
<1>10. QED
  BY <1>1, <1>4, <1>5, <1>8, <1>9, JoinReaches

\* Every row below a root is reached by a statement of its cascade.
LEMMA CascadeReaches ==
  ASSUME NEW o \in Roots, Rooted
  PROVE  /\ Cascade(o) \in Seq(Statements)
         /\ \A r \in Below(o) : state[r] # "absent" => Reaches(Cascade(o), r)
<1>1. CASE table[o] = "conversations"
  <2>1. Cascade(o) = Flags(ConversationTables, {o})
    BY <1>1 DEF Cascade
  <2>2. {o} \in SUBSET {r \in Rows : table[r] = "conversations"}
    BY <1>1, RootsAreRows
  <2>3. \A r \in Below(o) : r \in Rows /\ Hits(r, {o})
    BY <1>1, RootsAreRows DEF Copied
  <2>4. QED
    BY <2>1, <2>2, <2>3, ConversationReaches
<1>2. CASE table[o] = "supervisors"
  <2>1. Cascade(o) = Flags(<<table[o]>>, {o})
    BY <1>2 DEF Cascade
  <2>2. ASSUME NEW r \in Rows PROVE o \notin refs[r]
    BY <1>2, WhatOwns
  <2>3. Below(o) = {o}
    BY <2>2, SchemaAssumption DEF Below
  <2>4. QED
    BY <2>1, <2>3, SingleReaches, RootsAreRows
<1>3. table[o] \in {"projects", "conversations", "uploads", "flows", "supervisors"}
  BY SchemaAssumption
<1>4. QED
  BY <1>1, <1>2, <1>3, ProjectReaches, UploadReaches, FlowReaches

-----------------------------------------------------------------------------
(* What a cascade has seen stays covered until it answers.                 *)

\* Rows appear and are deleted, and that is all.
Grows ==
  \A r \in Rows : /\ state[r] # "absent" => state'[r] # "absent"
                  /\ state[r] = "deleted" => state'[r] = "deleted"

\* What the other requests are doing.
OthersWait(p) ==
  \A q \in Requests \ {p} :
    /\ pc'[q] = pc[q] /\ op'[q] = op[q] /\ plan'[q] = plan[q]
    /\ pending'[q] = pending[q] /\ held'[q] = held[q] /\ before'[q] = before[q]

LEMMA OthersStay ==
  ASSUME TInv, Covering, NEW p \in Requests, Grows, OthersWait(p),
         NEW q \in Requests \ {p}
  PROVE  ReadBy(q)' /\ CoveredBy(q)'
<1>1. ReadBy(q) /\ CoveredBy(q)
  BY DEF Covering
<1>2. op[q] \in Roots \cup Writers => Sees(op[q]) \subseteq Rows
  BY SoftDeleteAssumption, SchemaAssumption DEF Sees
<1>3. op[q] \notin Roots \cup Writers => Sees(op[q]) = {}
  BY DEF Sees
<1>4. project \in Rows
  BY TenancyAssumption
<1>5. ReadBy(q)'
  BY <1>1, <1>2, <1>3, <1>4 DEF ReadBy, Grows, OthersWait, Sees
<1>6. before[q] \subseteq Rows
  BY DEF TInv, TypeOK
<1>7. CoveredBy(q)'
  BY <1>1, <1>6 DEF CoveredBy, Grows, OthersWait, Deletes, Below, Reaches
<1>8. QED
  BY <1>5, <1>7

\* A request that ends leaves nothing to cover.
LEMMA EndsCovered ==
  ASSUME TInv, Covering, NEW p \in Requests, NEW how \in {"answered", "failed"},
         Close(p, how), Grows, Rooted'
  PROVE  Covering'
<1>1. OthersWait(p) /\ pc'[p] = how
  BY DEF Close, OthersWait, TInv, TypeOK, Covering
<1>2. plan' \in [Requests -> Seq(Statements)]
  BY DEF Close, Covering
<1>3. ReadBy(p)' /\ CoveredBy(p)'
  BY <1>1 DEF ReadBy, CoveredBy
<1>4. QED
  BY <1>1, <1>2, <1>3, OthersStay DEF Covering

\* A step that leaves the rows alone.
LEMMA QuietStays ==
  ASSUME TInv, Covering, NEW p \in Requests, state' = state, OthersWait(p),
         plan' \in [Requests -> Seq(Statements)], ReadBy(p)', CoveredBy(p)'
  PROVE  Covering'
<1>1. Grows /\ Rooted'
  BY DEF Grows, Covering, Rooted
<1>2. QED
  BY <1>1, OthersStay DEF Covering

LEMMA BeginCovers ==
  ASSUME TInv, Covering, NEW p \in Requests, NEW o \in Roots \cup Writers, Begin(p, o)
  PROVE  Covering'
<1> USE DEF Begin, rows
<1>1. OthersWait(p)
  BY DEF OthersWait, TInv, TypeOK
<1>2. pc'[p] = "find" /\ op'[p] = o /\ state' = state
  BY DEF TInv, TypeOK
<1>3. o \notin Uploads
  BY SoftDeleteAssumption, TenancyAssumption
<1>4. ReadBy(p)'
  BY <1>2, <1>3 DEF ReadBy, Sees
<1>5. o \in Roots => before'[p] = {r \in Below(o) : state[r] # "absent"}
  BY DEF TInv, TypeOK
<1>6. CoveredBy(p)'
  BY <1>2, <1>5 DEF CoveredBy, Deletes, Below
<1>7. plan' \in [Requests -> Seq(Statements)]
  BY DEF Covering
<1>8. QED
  BY <1>1, <1>2, <1>4, <1>6, <1>7, QuietStays

LEMMA UpdatesArePlans ==
  ASSUME NEW w \in Writers
  PROVE  Updates(w) \in Seq(Statements)
<1>1. updates[w] \in Seq(Rows)
  BY SchemaAssumption
<1>2. \A i \in 1 .. Len(updates[w]) : updates[w][i] \in Rows
  BY <1>1
<1>3. \A i \in 1 .. Len(updates[w]) :
        [table |-> table[updates[w][i]], ids |-> {updates[w][i]}] \in Statements
  BY <1>2, SchemaAssumption DEF Statements
<1>4. Updates(w) = [i \in 1 .. Len(updates[w]) |->
                      [table |-> table[updates[w][i]], ids |-> {updates[w][i]}]]
  BY <1>1 DEF Updates
<1>5. QED
  BY <1>1, <1>3, <1>4

LEMMA FindIdsCovers ==
  ASSUME TInv, Covering, NEW p \in Requests, FindIds(p)
  PROVE  Covering'
<1> USE DEF FindIds, rows
<1>1. OthersWait(p)
  BY DEF OthersWait, TInv, TypeOK, Covering
<1>2. pc[p] = "find" /\ pc'[p] = "work" /\ state' = state /\ op' = op /\ before' = before
  BY DEF TInv, TypeOK
<1>3. plan'[p] = IF Deletes(p) THEN Cascade(op[p]) ELSE Updates(op[p])
  BY DEF Covering
<1>4. Deletes(p) => /\ plan'[p] \in Seq(Statements)
                    /\ \A r \in Below(op[p]) : state[r] # "absent" => Reaches(plan'[p], r)
  BY <1>3, CascadeReaches DEF Deletes, Covering
<1>5. ~Deletes(p) => plan'[p] \in Seq(Statements)
  BY <1>3, UpdatesArePlans
<1>6. plan' \in [Requests -> Seq(Statements)]
  BY <1>4, <1>5 DEF Covering
<1>7. ReadBy(p)'
  BY <1>2 DEF Covering, ReadBy, Sees
<1>8. CoveredBy(p)'
  BY <1>2, <1>4 DEF Covering, CoveredBy, Deletes, Below, Reaches
<1>9. QED
  BY <1>1, <1>2, <1>6, <1>7, <1>8, QuietStays

LEMMA ExecuteCovers ==
  ASSUME TInv, Covering, NEW p \in Requests, Execute(p)
  PROVE  Covering'
<1> DEFINE s == Head(plan[p])
<1>1. /\ pc[p] = "work" /\ pending[p] = {} /\ plan[p] # <<>>
      /\ pending' = [pending EXCEPT ![p] =
           {r \in Rows \ held[p] :
              /\ table[r] = s.table
              /\ r \in s.ids \/ (Deletes(p) /\ refs[r] \cap s.ids # {})
              /\ Matches(p, r)}]
      /\ plan' = [plan EXCEPT ![p] = Tail(@)]
      /\ state' = state /\ UNCHANGED <<op, pc, held, before>>
  BY DEF Execute, rows
<1>2. plan[p] \in Seq(Statements)
  BY DEF Covering
<1>3. plan'[p] = Tail(plan[p]) /\ plan' \in [Requests -> Seq(Statements)]
  BY <1>1, <1>2 DEF Covering
<1>4. OthersWait(p)
  BY <1>1 DEF OthersWait, TInv, TypeOK, Covering
<1>5. ReadBy(p)'
  BY <1>1 DEF Covering, ReadBy, Sees
<1>6. ASSUME NEW r \in Rows, Reaches(plan[p], r)
      PROVE  Targets(s, r) \/ Reaches(plan'[p], r)
  <2>1. PICK i \in DOMAIN plan[p] : Targets(plan[p][i], r)
    BY <1>6 DEF Reaches
  <2>2. CASE i = 1
    BY <1>1, <1>2, <2>1, <2>2
  <2>3. CASE i # 1
    <3>1. i - 1 \in DOMAIN Tail(plan[p]) /\ Tail(plan[p])[i - 1] = plan[p][i]
      BY <1>1, <1>2, <2>3
    <3>2. QED
      BY <1>3, <2>1, <3>1 DEF Reaches
  <2>4. QED
    BY <2>2, <2>3
<1>7. ASSUME Deletes(p), NEW r \in before[p]
      PROVE  /\ r \in Below(op[p]) /\ state[r] # "absent"
             /\ state[r] = "deleted" \/ r \in held[p] \cup pending'[p] \/ Reaches(plan'[p], r)
  <2>1. r \in Rows /\ state[r] \in {"absent", "live", "deleted"}
    BY DEF TInv, TypeOK
  <2>2. /\ r \in Below(op[p]) /\ state[r] # "absent"
        /\ state[r] = "deleted" \/ r \in held[p] \/ Reaches(plan[p], r)
    BY <1>1, <1>7 DEF Covering, CoveredBy
  <2>3. ASSUME Targets(s, r), r \notin held[p], state[r] = "live" PROVE r \in pending'[p]
    BY <1>1, <1>7, <2>1, <2>3 DEF Targets, Hits, Matches, TInv, TypeOK
  <2>4. QED
    BY <1>6, <2>1, <2>2, <2>3
<1>8. CoveredBy(p)'
  BY <1>1, <1>7 DEF CoveredBy, Deletes, Below, Reaches
<1>9. QED
  BY <1>1, <1>3, <1>4, <1>5, <1>8, QuietStays

LEMMA LockRowCovers ==
  ASSUME TInv, Covering, NEW p \in Requests, NEW r \in Rows, LockRow(p, r)
  PROVE  Covering'
<1> USE DEF LockRow, rows
<1>1. OthersWait(p) /\ state' = state /\ op' = op /\ pc' = pc /\ plan' = plan /\ before' = before
  BY DEF OthersWait, TInv, TypeOK
<1>2. plan' \in [Requests -> Seq(Statements)] /\ ReadBy(p)'
  BY <1>1 DEF Covering, ReadBy, Sees
<1>3. ASSUME Deletes(p), NEW x \in held[p] \cup pending[p], state[x] # "absent"
      PROVE  state[x] = "deleted" \/ x \in held'[p] \cup pending'[p]
  <2>1. x \in Rows /\ state[x] \in {"absent", "live", "deleted"}
    BY DEF TInv, TypeOK
  <2>2. QED
    BY <1>3, <2>1 DEF TInv, TypeOK, Matches
<1>4. CoveredBy(p)'
  BY <1>1, <1>3 DEF Covering, CoveredBy, Deletes, Below, Reaches
<1>5. QED
  BY <1>1, <1>2, <1>4, QuietStays

LEMMA CommitCovers ==
  ASSUME TInv, Covering, NEW p \in Requests, Commit(p)
  PROVE  Covering'
<1>1. Close(p, "answered") /\ pc[p] = "work"
  BY DEF Commit
<1>2. CASE Deletes(p) /\ state' = [r \in Rows |-> IF r \in held[p] THEN "deleted" ELSE state[r]]
  <2>1. \A r \in Rows : /\ state[r] = "absent" => state'[r] = "absent"
                        /\ state[r] # "absent" => state'[r] # "absent"
    BY <1>2 DEF TInv, Locking
  <2>2. Grows
    BY <1>2, <2>1 DEF Grows
  <2>3. Rooted'
    BY <2>1, SchemaAssumption DEF Rooted, Covering
  <2>4. QED
    BY <1>1, <2>2, <2>3, EndsCovered
<1>3. CASE /\ op[p] \in Writers
           /\ state' = [r \in Rows |->
                IF r \in adds[op[p]] /\ state[r] = "absent" THEN "live" ELSE state[r]]
  <2>1. Grows
    BY <1>3 DEF Grows
  <2>2. \A n \in needs[op[p]] : n \in Rows /\ state[n] # "absent"
    <3>1. Sees(op[p]) = needs[op[p]]
      BY <1>3, SchemaAssumption DEF Sees
    <3>2. QED
      BY <1>1, <1>3, <3>1, SchemaAssumption DEF Covering, ReadBy
  <2>3. \A n \in needs[op[p]] : \A q \in refs[n] : q \in Rows /\ state[q] # "absent"
    BY <2>2, SchemaAssumption DEF Covering, Rooted
  <2>4. ASSUME NEW r \in Rows, state'[r] # "absent", NEW q \in refs[r] PROVE state'[q] # "absent"
    <3>1. q \in Rows
      BY SchemaAssumption
    <3>2. CASE state[r] # "absent"
      BY <2>1, <3>1, <3>2 DEF Covering, Rooted, Grows
    <3>3. CASE r \in adds[op[p]]
      <4>1. q \in adds[op[p]] \/ q \in needs[op[p]] \/ \E n \in needs[op[p]] : q \in refs[n]
        BY <1>3, <3>3, SchemaAssumption
      <4>2. QED
        BY <1>3, <2>1, <2>2, <2>3, <3>1, <4>1 DEF Grows
    <3>4. QED
      BY <1>3, <2>4, <3>2, <3>3
  <2>5. QED
    BY <1>1, <2>1, <2>4, EndsCovered DEF Rooted
<1>4. QED
  BY <1>2, <1>3 DEF Commit

LEMMA CommitCreateCovers ==
  ASSUME TInv, Covering, NEW p \in Requests, CommitCreate(p)
  PROVE  Covering'
<1>1. /\ pc[p] = "found" /\ Close(p, "answered")
      /\ state' = [r \in Rows |-> IF r = claims[p] THEN "live" ELSE state[r]]
  BY DEF CommitCreate
<1>2. \A r \in Rows : r = claims[p] => r = agent /\ state[r] = "absent" /\ op[p] \in Uploads
  BY <1>1, SoftDeleteAssumption, TenancyAssumption DEF TInv, Claiming, Key, TypeOK, Keys
<1>3. Grows
  BY <1>1, <1>2 DEF Grows
<1>4. op[p] \in Uploads => state[project] # "absent"
  BY <1>1 DEF Covering, ReadBy
<1>5. ASSUME NEW r \in Rows, state'[r] # "absent", NEW q \in refs[r] PROVE state'[q] # "absent"
  <2>1. q \in Rows
    BY SchemaAssumption
  <2>2. CASE state[r] # "absent"
    BY <1>3, <2>1, <2>2 DEF Covering, Rooted, Grows
  <2>3. CASE r = claims[p]
    <3>1. q = project /\ state[q] # "absent"
      BY <1>2, <1>4, <2>3, TenancyAssumption
    <3>2. QED
      BY <1>3, <2>1, <3>1 DEF Grows
  <2>4. QED
    BY <1>1, <1>5, <2>2, <2>3
<1>6. QED
  BY <1>1, <1>3, <1>5, EndsCovered DEF Rooted

\* Who rolls back, and who creates without a commit.
LEMMA AbortCovers ==
  ASSUME TInv, Covering, NEW p \in Requests,
         \/ BreakDeadlock(p) \/ ReputationClash(p) \/ Raise(p)
         \/ Clash(p) \/ RaiseCreate(p)
  PROVE  Covering'
<1>1. Close(p, "failed") /\ state' = state
  BY DEF BreakDeadlock, ReputationClash, Raise, Clash, RaiseCreate, rows
<1>2. Grows /\ Rooted'
  BY <1>1 DEF Grows, Covering, Rooted
<1>3. QED
  BY <1>1, <1>2, EndsCovered

LEMMA CreateCovers ==
  ASSUME TInv, Covering, NEW p \in Requests,
         Find(p) \/ Insert(p) \/ \E o \in Creates : BeginCreate(p, o)
  PROVE  Covering'
<1>1. /\ OthersWait(p) /\ state' = state
      /\ plan' \in [Requests -> Seq(Statements)]
      /\ pc'[p] \in {"find", "insert", "found"}
      /\ op'[p] \in Creates
  BY DEF Find, Insert, BeginCreate, rows, txn, OthersWait, TInv, TypeOK, Claiming, Covering
<1>2. ~Deletes(p)' /\ Sees(op'[p]) = {}
  BY <1>1, SoftDeleteAssumption DEF Deletes, Sees
<1>3. CoveredBy(p)'
  BY <1>2 DEF CoveredBy
<1>4. op'[p] \in Uploads => state[project] # "absent"
  BY DEF Find, Insert, BeginCreate, TInv, TypeOK, Covering, ReadBy
<1>5. ReadBy(p)'
  BY <1>1, <1>2, <1>4 DEF ReadBy
<1>6. QED
  BY <1>1, <1>3, <1>5, QuietStays

LEMMA InitCovers == TenancyInit => Covering
<1> SUFFICES ASSUME TenancyInit PROVE Covering
  OBVIOUS
<1>1. plan \in [Requests -> Seq(Statements)]
  BY DEF TenancyInit, Init
<1>2. Rooted
  <2>1. PICK S \in Present : state = [r \in Rows |-> IF r \in S THEN "live" ELSE "absent"]
    BY DEF TenancyInit, Init
  <2>2. QED
    BY <2>1, SchemaAssumption DEF Rooted
<1>3. \A p \in Requests : ReadBy(p) /\ CoveredBy(p)
  BY DEF TenancyInit, Init, ReadBy, CoveredBy
<1>4. QED
  BY <1>1, <1>2, <1>3 DEF Covering

LEMMA CoversStep == TInv /\ Covering /\ [TenancyNext]_vars => Covering'
<1> SUFFICES ASSUME TInv, Covering, [TenancyNext]_vars PROVE Covering'
  OBVIOUS
<1>1. CASE Next /\ UNCHANGED keyVars
  BY <1>1, BeginCovers, FindIdsCovers, ExecuteCovers, LockRowCovers, CommitCovers, AbortCovers
     DEF Next, RequestStep
<1>2. ASSUME NEW p \in Requests, CreateStep(p) \/ RaiseCreate(p) \/ \E o \in Creates : BeginCreate(p, o)
      PROVE  Covering'
  BY <1>2, CreateCovers, AbortCovers, CommitCreateCovers DEF CreateStep
<1>3. CASE UNCHANGED vars
  BY <1>3 DEF vars, deleteVars, rows, txn, Covering, Rooted, ReadBy, CoveredBy, Sees, Deletes,
              Below, Reaches
<1>4. QED
  BY <1>1, <1>2, <1>3 DEF TenancyNext

\* A delete that answers has deleted, or found deleted, all that hung from its root
\* when it began, whatever crosses it.
THEOREM CascadesAreComplete == TenancySpec => CascadeComplete
<1> DEFINE Done ==
      \A p \in Requests : Deletes(p) /\ pc[p] = "work" /\ pc'[p] = "answered" =>
        \A r \in before[p] : state'[r] = "deleted"
<1>1. TInv /\ Covering /\ [TenancyNext]_vars => [Done]_deleteVars
  <2> SUFFICES ASSUME TInv, Covering, [TenancyNext]_vars,
                      NEW p \in Requests, Deletes(p), pc[p] = "work", pc'[p] = "answered",
                      NEW r \in before[p]
               PROVE  state'[r] = "deleted"
    OBVIOUS
  <2>1. Commit(p)
    <3>1. CASE Next /\ UNCHANGED keyVars
      BY <3>1 DEF Next, RequestStep, Begin, FindIds, Execute, LockRow, Commit, BreakDeadlock,
                  ReputationClash, Raise, Close, TInv, TypeOK
    <3>2. ASSUME NEW q \in Requests,
                 CreateStep(q) \/ RaiseCreate(q) \/ \E o \in Creates : BeginCreate(q, o)
          PROVE  FALSE
      BY <3>2 DEF CreateStep, RaiseCreate, BeginCreate, Find, Insert, Clash, CommitCreate, Close,
                  TInv, TypeOK
    <3>3. QED
      BY <3>1, <3>2 DEF TenancyNext, vars, deleteVars
  <2>2. pending[p] = {} /\ plan[p] = <<>>
    BY <2>1 DEF Commit
  <2>3. state[r] = "deleted" \/ r \in held[p]
    BY <2>2 DEF Covering, CoveredBy, Reaches
  <2>4. r \in Rows /\ op[p] \notin Writers
    BY SchemaAssumption DEF TInv, TypeOK, Deletes
  <2>5. QED
    BY <2>1, <2>3, <2>4 DEF Commit
<1>2. QED
  BY <1>1, InitInv, StepInv, InitCovers, CoversStep, PTL DEF TenancySpec, CascadeComplete

-----------------------------------------------------------------------------
(* Who waits: SomebodyMoves without its ENABLED.                           *)

\* A request that reads or works has something to do.
OpsFit(p) ==
  /\ pc[p] = "find" => op[p] \in Ops
  /\ pc[p] = "work" => op[p] \in Roots \cup Writers
Fitting == \A p \in Requests : OpsFit(p)

LEMMA StepFits == TypeOK /\ Fitting /\ [TenancyNext]_vars => Fitting'
<1> SUFFICES ASSUME TypeOK, Fitting, [TenancyNext]_vars, NEW p \in Requests PROVE OpsFit(p)'
  BY DEF Fitting
<1> USE DEF TypeOK, Fitting, OpsFit
<1>1. ASSUME NEW q \in Requests, RequestStep(q) \/ Raise(q) \/ \E o \in Roots \cup Writers : Begin(q, o)
      PROVE  OpsFit(p)'
  BY <1>1 DEF RequestStep, Raise, Begin, FindIds, Execute, LockRow, Commit, BreakDeadlock,
              ReputationClash, Close, Ops, Deletes
<1>2. ASSUME NEW q \in Requests,
             CreateStep(q) \/ RaiseCreate(q) \/ \E o \in Creates : BeginCreate(q, o)
      PROVE  OpsFit(p)'
  BY <1>2 DEF CreateStep, RaiseCreate, BeginCreate, Find, Insert, Clash, CommitCreate, Close, Ops
<1>3. CASE UNCHANGED vars
  BY <1>3 DEF vars, deleteVars
<1>4. QED
  BY <1>1, <1>2, <1>3 DEF TenancyNext, Next

\* If nobody could go on, the requests at work would be a deadlock.
LEMMA MoveExists ==
  ASSUME TInv, Fitting, NEW p \in Requests, ~Ended(p)
  PROVE  \E q \in Requests : CanMove(q)
<1> SUFFICES ASSUME \A q \in Requests : ~CanMove(q) PROVE FALSE
  OBVIOUS
<1> DEFINE Blocked == {q \in Requests : pc[q] = "work"}
<1>1. \A q \in Requests : pc[q] \notin {"find", "found"}
  BY DEF CanMove, Fitting, OpsFit
<1>2. \A q \in Requests : pc[q] # "insert"
  <2> SUFFICES ASSUME NEW q \in Requests, pc[q] = "insert" PROVE FALSE
    OBVIOUS
  <2>1. PICK r \in Requests : claims[r] = Key(q)
    BY DEF CanMove, KeyIsFree
  <2>2. Key(q) # None
    <3>1. op[q] \in Creates
      BY DEF TInv, Claiming
    <3>2. op[q] # None /\ agent # None
      BY <3>1
    <3>3. QED
      BY <3>2 DEF Key
  <2>3. pc[r] = "found"
    BY <2>1, <2>2 DEF TInv, Claiming
  <2>4. QED
    BY <1>1, <2>3
<1>3. pc[p] = "work"
  BY <1>1, <1>2 DEF Ended, TInv, TypeOK
<1>4. \A q \in Blocked : pending[q] # {} /\ \A r \in pending[q] : Holders(q, r) # {}
  BY DEF CanMove, Fitting, OpsFit
<1>5. Deadlocked(Blocked)
  <2> SUFFICES ASSUME NEW q \in Blocked, NEW r \in pending[q]
               PROVE  Holders(q, r) \cap Blocked # {}
    BY <1>4 DEF Deadlocked
  <2>1. PICK h \in Requests \ {q} : r \in held[h]
    BY <1>4 DEF Holders
  <2>2. pc[h] = "work"
    BY <2>1 DEF TInv, Locking
  <2>3. QED
    BY <2>1, <2>2 DEF Holders
<1>6. QED
  BY <1>3, <1>5 DEF CanMove

\* Requests never wait for one another for good: whatever they delete, store or
\* create, while one is open one can go on, or the detector ends one.
THEOREM NobodyIsStuck ==
  TenancySpec => []((\E p \in Requests : ~Ended(p)) => \E p \in Requests : CanMove(p))
<1>1. TenancyInit => Fitting
  BY DEF TenancyInit, Init, Fitting, OpsFit
<1>2. TInv /\ Fitting => ((\E p \in Requests : ~Ended(p)) => \E p \in Requests : CanMove(p))
  BY MoveExists
<1>3. TInv => TypeOK
  BY DEF TInv
<1>4. QED
  BY <1>1, <1>2, <1>3, InitInv, StepInv, StepFits, PTL DEF TenancySpec

-----------------------------------------------------------------------------
(* How much is left to do.                                                 *)

\* The steps that a request may still take: a statement of a cascade, or of a writer,
\* locks at most every row.  No cascade has more than sixteen statements.
Most(o) == IF o \in Roots THEN 16 ELSE Len(updates[o])
Weight == Cardinality(Rows) + 1
StepsLeft(p) ==
  CASE pc[p] \in {"new", "answered", "failed"} -> 0
    [] pc[p] = "found" -> 1
    [] pc[p] = "insert" -> 2
    [] pc[p] = "find" /\ op[p] \in Creates -> 3
    [] pc[p] = "find" /\ op[p] \notin Creates -> Most(op[p]) * Weight + 2
    [] pc[p] = "work" -> Len(plan[p]) * Weight + Cardinality(pending[p]) + 1

\* The steps of a request use up what it has left, and nothing gives it more: no
\* cascade that crosses it and no row that appears sends it back.
RequestsCountDown ==
  [][\A p \in Requests :
       /\ RequestStep(p) \/ CreateStep(p) => StepsLeft(p)' < StepsLeft(p)
       /\ StepsLeft(p)' > StepsLeft(p) => pc[p] = "new"]_vars

\* What a request holds and what the others do with it, for the count.
Going == TInv /\ Covering /\ Fitting

LEMMA LikeRanges ==
  ASSUME NEW a \in Nat, NEW b \in Nat, 1 .. a = 1 .. b
  PROVE  a <= b
<1>1. CASE a = 0
  BY <1>1
<1>2. CASE a # 0
  <2>1. a \in 1 .. a
    BY <1>2
  <2>2. QED
    BY <2>1
<1>3. QED
  BY <1>1, <1>2

LEMMA FlagsAreFew ==
  ASSUME NEW tables, NEW n, Names(tables, n), NEW ids \in SUBSET Rows
  PROVE  Flags(tables, ids) \in Seq(Statements) /\ Len(Flags(tables, ids)) <= n
<1>1. Flags(tables, ids) \in Seq(Statements)
  BY FlagsReach
<1>2. n \in Nat /\ DOMAIN tables = 1 .. n
  BY DEF Names
<1>3. CASE ids = {}
  BY <1>2, <1>3 DEF Flags
<1>4. CASE ids # {}
  <2>1. DOMAIN Flags(tables, ids) = 1 .. n
    BY <1>2, <1>4 DEF Flags
  <2>2. \A s \in Seq(Statements) : Len(s) \in Nat /\ DOMAIN s = 1 .. Len(s)
    BY LenProperties
  <2>3. Len(Flags(tables, ids)) \in Nat /\ 1 .. Len(Flags(tables, ids)) = 1 .. n
    BY <1>1, <2>1, <2>2
  <2> DEFINE len == Len(Flags(tables, ids))
  <2>4. len \in Nat /\ n \in Nat /\ 1 .. len = 1 .. n
    BY <1>2, <2>3
  <2> HIDE DEF len
  <2>5. len <= n
    BY <2>4, LikeRanges
  <2>6. QED
    BY <1>1, <2>5 DEF len
<1>5. QED
  BY <1>1, <1>3, <1>4

LEMMA CascadesAreShort ==
  ASSUME NEW o \in Roots
  PROVE  Cascade(o) \in Seq(Statements) /\ Len(Cascade(o)) <= 16
<1>0. o \in Rows /\ {o} \in SUBSET Rows
  OBVIOUS
<1>1. \A t \in DOMAIN Owners : Names(<<t>>, 1)
  BY DEF Names
<1>2. \A t \in DOMAIN Owners : /\ Flags(<<t>>, {o}) \in Seq(Statements)
                               /\ Len(Flags(<<t>>, {o})) <= 1
  BY <1>0, <1>1, FlagsAreFew
<1>3. table[o] \in {"projects", "conversations", "uploads", "flows", "supervisors"}
  BY SchemaAssumption
<1>4. table[o] \in DOMAIN Owners /\ "uploads" \in DOMAIN Owners
  BY <1>0, SchemaAssumption DEF Owners
<1>5. CASE table[o] = "projects"
  <2>1. Cascade(o) = Flags(ProjectTables, {o})
    BY <1>5 DEF Cascade
  <2>2. QED
    BY <1>0, <2>1, TablesAreNamed, FlagsAreFew
<1>6. CASE table[o] = "conversations"
  <2>1. Cascade(o) = Flags(ConversationTables, {o})
    BY <1>6 DEF Cascade
  <2>2. Flags(ConversationTables, {o}) \in Seq(Statements)
          /\ Len(Flags(ConversationTables, {o})) <= 6
    BY <1>0, TablesAreNamed, FlagsAreFew
  <2>3. QED
    BY <2>1, <2>2, LenProperties
<1>7. CASE table[o] = "uploads"
  <2> DEFINE one == Flags(ConversationTables, Children("conversations", o))
             two == Flags(<<"uploads">>, {o})
  <2>1. Cascade(o) = one \o two
    BY <1>7 DEF Cascade
  <2>2. Children("conversations", o) \in SUBSET Rows
    BY DEF Children
  <2>3. one \in Seq(Statements) /\ Len(one) <= 6
    BY <2>2, TablesAreNamed, FlagsAreFew
  <2>4. two \in Seq(Statements) /\ Len(two) <= 1
    BY <1>2, <1>4
  <2> HIDE DEF one, two
  <2>5. one \o two \in Seq(Statements) /\ Len(one \o two) = Len(one) + Len(two)
    BY <2>3, <2>4, ConcatProperties
  <2>6. QED
    BY <2>1, <2>3, <2>4, <2>5, LenProperties
<1>8. CASE table[o] = "flows"
  <2> DEFINE one == Flags(ImprovementTables, Children("improvements", o))
             two == Flags(FlowTables, {o})
  <2>1. Cascade(o) = one \o two
    BY <1>8 DEF Cascade
  <2>2. Children("improvements", o) \in SUBSET Rows
    BY DEF Children
  <2>3. one \in Seq(Statements) /\ Len(one) <= 2
    BY <2>2, TablesAreNamed, FlagsAreFew
  <2>4. two \in Seq(Statements) /\ Len(two) <= 2
    BY <1>0, TablesAreNamed, FlagsAreFew
  <2> HIDE DEF one, two
  <2>5. one \o two \in Seq(Statements) /\ Len(one \o two) = Len(one) + Len(two)
    BY <2>3, <2>4, ConcatProperties
  <2>6. QED
    BY <2>1, <2>3, <2>4, <2>5, LenProperties
<1>9. CASE table[o] = "supervisors"
  <2>1. Cascade(o) = Flags(<<table[o]>>, {o})
    BY <1>9 DEF Cascade
  <2> DEFINE one == Flags(<<table[o]>>, {o})
  <2>2. one \in Seq(Statements) /\ Len(one) <= 1
    BY <1>2, <1>4
  <2> HIDE DEF one
  <2>3. Len(one) \in Nat
    BY <2>2, LenProperties
  <2>4. QED
    BY <2>1, <2>2, <2>3 DEF one
<1>10. QED
  BY <1>3, <1>5, <1>6, <1>7, <1>8, <1>9

LEMMA UpdatesAreCounted ==
  ASSUME NEW w \in Writers
  PROVE  Len(Updates(w)) = Len(updates[w]) /\ Len(updates[w]) \in Nat
<1>1. updates[w] \in Seq(Rows)
  BY SchemaAssumption
<1>2. DOMAIN Updates(w) = 1 .. Len(updates[w]) /\ Len(updates[w]) \in Nat
  BY <1>1, LenProperties DEF Updates
<1>3. QED
  BY <1>2, UpdatesArePlans, LenProperties

LEMMA Sizes ==
  ASSUME IsFiniteSet(Rows), NEW S, S \subseteq Rows
  PROVE  /\ Cardinality(S) \in Nat /\ Cardinality(S) < Weight /\ Weight \in Nat \ {0}
         /\ \A r \in S : Cardinality(S \ {r}) = Cardinality(S) - 1
<1>1. IsFiniteSet(S) /\ Cardinality(S) <= Cardinality(Rows)
  BY FS_Subset
<1>2. Cardinality(S) \in Nat /\ Cardinality(Rows) \in Nat
  BY <1>1, FS_CardinalityType
<1>3. \A r \in S : Cardinality(S \ {r}) = Cardinality(S) - 1
  BY <1>1, FS_RemoveElement
<1>4. QED
  BY <1>1, <1>2, <1>3 DEF Weight

LEMMA StepsAreNumbers ==
  ASSUME IsFiniteSet(Rows), Going, NEW p \in Requests
  PROVE  StepsLeft(p) \in Nat
<1>1. /\ pc[p] \in {"new", "find", "work", "insert", "found", "answered", "failed"}
      /\ pending[p] \subseteq Rows /\ plan[p] \in Seq(Statements)
      /\ pc[p] = "find" /\ op[p] \notin Creates => op[p] \in Roots \cup Writers
  BY DEF Going, TInv, TypeOK, Covering, Fitting, OpsFit, Ops
<1>2. Cardinality(pending[p]) \in Nat /\ Weight \in Nat /\ Len(plan[p]) \in Nat
  BY <1>1, Sizes, LenProperties
<1>3. \A o \in Roots \cup Writers : Most(o) \in Nat
  BY UpdatesAreCounted DEF Most
<1>4. CASE pc[p] = "find" /\ op[p] \notin Creates
  <2>1. Most(op[p]) * Weight + 2 \in Nat
    BY <1>1, <1>2, <1>3, <1>4
  <2>2. QED
    BY <1>4, <2>1 DEF StepsLeft
<1>5. CASE pc[p] = "work"
  <2>1. Len(plan[p]) * Weight + Cardinality(pending[p]) + 1 \in Nat
    BY <1>2
  <2>2. QED
    BY <1>5, <2>1 DEF StepsLeft
<1>6. QED
  BY <1>1, <1>4, <1>5 DEF StepsLeft

LEMMA StepsGoDown ==
  ASSUME IsFiniteSet(Rows), Going, NEW p \in Requests, RequestStep(p) \/ CreateStep(p)
  PROVE  StepsLeft(p)' < StepsLeft(p)
<1>1. /\ pc \in [Requests -> {"new", "find", "work", "insert", "found", "answered", "failed"}]
      /\ pending \in [Requests -> SUBSET Rows] /\ plan \in [Requests -> Seq(Statements)]
      /\ pc[p] # "work" => pending[p] = {}
  BY DEF Going, TInv, TypeOK, Covering, Locking
<1>2. /\ Cardinality(pending[p]) \in Nat /\ Weight \in Nat \ {0} /\ Len(plan[p]) \in Nat
      /\ \A r \in pending[p] : Cardinality(pending[p] \ {r}) = Cardinality(pending[p]) - 1
  BY <1>1, Sizes, LenProperties
<1>3. Cardinality({}) = 0
  BY FS_EmptySet
<1>4. StepsLeft(p) \in Nat
  BY StepsAreNumbers
<1>5. CASE FindIds(p)
  <2>1. /\ pc[p] = "find" /\ pc'[p] = "work" /\ pending'[p] = {}
        /\ plan'[p] = IF Deletes(p) THEN Cascade(op[p]) ELSE Updates(op[p])
        /\ op[p] \in Roots \cup Writers /\ op[p] \notin Creates
    BY <1>1, <1>5 DEF FindIds, Deletes
  <2>2. Most(op[p]) \in Nat /\ Len(plan'[p]) \in Nat /\ Len(plan'[p]) <= Most(op[p])
    <3>1. CASE op[p] \in Roots
      <4>1. plan'[p] = Cascade(op[p]) /\ Most(op[p]) = 16
        BY <2>1, <3>1 DEF Deletes, Most
      <4>2. QED
        BY <3>1, <4>1, CascadesAreShort, LenProperties
    <3>2. CASE op[p] \notin Roots
      <4>1. plan'[p] = Updates(op[p]) /\ Most(op[p]) = Len(updates[op[p]])
        BY <2>1, <3>2 DEF Deletes, Most
      <4>2. QED
        BY <2>1, <3>2, <4>1, UpdatesAreCounted
    <3>3. QED
      BY <3>1, <3>2
  <2>3. StepsLeft(p) = Most(op[p]) * Weight + 2
    BY <2>1 DEF StepsLeft
  <2>4. StepsLeft(p)' = Len(plan'[p]) * Weight + 1
    BY <1>2, <1>3, <2>1, <2>2 DEF StepsLeft, Weight
  <2>5. Len(plan'[p]) * Weight <= Most(op[p]) * Weight
    BY <1>2, <2>2
  <2>6. Len(plan'[p]) * Weight \in Nat /\ Most(op[p]) * Weight \in Nat
    BY <1>2, <2>2
  <2>7. QED
    BY <2>3, <2>4, <2>5, <2>6
<1>6. CASE Execute(p)
  <2>1. /\ pc[p] = "work" /\ pc'[p] = "work" /\ pending[p] = {} /\ plan[p] # <<>>
        /\ plan'[p] = Tail(plan[p])
    BY <1>1, <1>6 DEF Execute
  <2>2. pending'[p] \subseteq Rows
    BY <1>1, <1>6 DEF Execute
  <2>3. Cardinality(pending'[p]) \in Nat /\ Cardinality(pending'[p]) < Weight
    BY <2>2, Sizes
  <2>4. Len(plan[p]) >= 1 /\ Len(plan'[p]) = Len(plan[p]) - 1
    BY <1>1, <2>1
  <2>5. StepsLeft(p) = Len(plan[p]) * Weight + 1
    BY <1>2, <1>3, <2>1 DEF StepsLeft
  <2>6. StepsLeft(p)' = (Len(plan[p]) - 1) * Weight + Cardinality(pending'[p]) + 1
    BY <2>1, <2>4 DEF StepsLeft, Weight
  <2>7. (Len(plan[p]) - 1) * Weight = Len(plan[p]) * Weight - Weight
    BY <1>2
  <2>8. Len(plan[p]) * Weight \in Nat
    BY <1>2
  <2>9. QED
    BY <1>2, <2>3, <2>5, <2>6, <2>7, <2>8
<1>7. ASSUME NEW r \in Rows, LockRow(p, r) PROVE StepsLeft(p)' < StepsLeft(p)
  <2>1. /\ r \in pending[p] /\ pending'[p] = pending[p] \ {r}
        /\ pc[p] = "work" /\ pc'[p] = "work" /\ plan'[p] = plan[p]
    BY <1>1, <1>7 DEF LockRow
  <2>2. Cardinality(pending'[p]) = Cardinality(pending[p]) - 1
    BY <1>2, <2>1
  <2>3. StepsLeft(p) = Len(plan[p]) * Weight + Cardinality(pending[p]) + 1
    BY <2>1 DEF StepsLeft
  <2>4. StepsLeft(p)' = Len(plan[p]) * Weight + (Cardinality(pending[p]) - 1) + 1
    BY <2>1, <2>2 DEF StepsLeft, Weight
  <2>5. Len(plan[p]) * Weight \in Nat
    BY <1>2
  <2>6. QED
    BY <1>2, <2>3, <2>4, <2>5
<1>8. CASE Commit(p) \/ BreakDeadlock(p) \/ ReputationClash(p) \/ Clash(p) \/ CommitCreate(p)
  <2>1. /\ pc[p] \in {"work", "insert", "found"}
        /\ pc'[p] \in {"answered", "failed"}
    BY <1>1, <1>8 DEF Commit, BreakDeadlock, Deadlocked, ReputationClash, Clash, CommitCreate, Close
  <2>2. StepsLeft(p)' = 0
    BY <2>1 DEF StepsLeft
  <2>3. StepsLeft(p) >= 1
    <3>1. Len(plan[p]) * Weight + Cardinality(pending[p]) + 1 >= 1
      <4>1. Len(plan[p]) * Weight \in Nat
        BY <1>2
      <4>2. QED
        BY <1>2, <4>1
    <3>2. QED
      BY <2>1, <3>1 DEF StepsLeft
  <2>4. QED
    BY <1>4, <2>2, <2>3
<1>9. CASE Find(p) \/ Insert(p)
  <2>1. \/ pc[p] = "find" /\ op[p] \in Creates /\ pc'[p] \in {"found", "insert"}
        \/ pc[p] = "insert" /\ pc'[p] = "found"
    BY <1>1, <1>9 DEF Find, Insert
  <2>2. QED
    BY <2>1 DEF StepsLeft
<1>10. QED
  BY <1>5, <1>6, <1>7, <1>8, <1>9 DEF RequestStep, CreateStep

\* What a step leaves of the others.
LEMMA OthersKeepSteps ==
  ASSUME NEW p \in Requests, pc'[p] = pc[p], op'[p] = op[p], plan'[p] = plan[p],
         pending'[p] = pending[p]
  PROVE  StepsLeft(p)' = StepsLeft(p)
BY DEF StepsLeft, Most, Weight

LEMMA StepsAreOf ==
  ASSUME TInv, Covering, NEW p \in Requests, [TenancyNext]_vars
  PROVE  \/ RequestStep(p) \/ CreateStep(p) \/ pc[p] = "new"
         \/ pc'[p] = "failed"
         \/ /\ pc'[p] = pc[p] /\ op'[p] = op[p] /\ plan'[p] = plan[p]
            /\ pending'[p] = pending[p]
<1> USE DEF TInv, TypeOK, Covering
<1>1. ASSUME NEW q \in Requests, RequestStep(q) \/ Raise(q) \/ \E o \in Roots \cup Writers : Begin(q, o)
      PROVE  \/ RequestStep(p) \/ pc[p] = "new" \/ pc'[p] = "failed"
             \/ /\ pc'[p] = pc[p] /\ op'[p] = op[p] /\ plan'[p] = plan[p]
                /\ pending'[p] = pending[p]
  <2>1. CASE q = p
    BY <1>1, <2>1 DEF Raise, Begin, Close
  <2>2. CASE q # p
    BY <1>1, <2>2 DEF RequestStep, Raise, Begin, FindIds, Execute, LockRow, Commit,
       BreakDeadlock, ReputationClash, Close
  <2>3. QED
    BY <2>1, <2>2
<1>2. ASSUME NEW q \in Requests,
             CreateStep(q) \/ RaiseCreate(q) \/ \E o \in Creates : BeginCreate(q, o)
      PROVE  \/ CreateStep(p) \/ pc[p] = "new" \/ pc'[p] = "failed"
             \/ /\ pc'[p] = pc[p] /\ op'[p] = op[p] /\ plan'[p] = plan[p]
                /\ pending'[p] = pending[p]
  <2>1. CASE q = p
    BY <1>2, <2>1 DEF RaiseCreate, BeginCreate, Close
  <2>2. CASE q # p
    BY <1>2, <2>2 DEF CreateStep, RaiseCreate, BeginCreate, Find, Insert, Clash, CommitCreate,
       Close, txn
  <2>3. QED
    BY <2>1, <2>2
<1>3. CASE UNCHANGED vars
  BY <1>3 DEF vars, deleteVars, txn
<1>4. QED
  BY <1>1, <1>2, <1>3 DEF TenancyNext, Next

\* In a project of finitely many rows every request comes to its end: the steps it
\* has left are a number that only goes down, as one of them can always go on
\* (NobodyIsStuck).
THEOREM RequestsAreFinite ==
  ASSUME IsFiniteSet(Rows)
  PROVE  TenancySpec => [](\A p \in Requests : StepsLeft(p) \in Nat) /\ RequestsCountDown
<1> DEFINE Down ==
      \A p \in Requests :
        /\ RequestStep(p) \/ CreateStep(p) => StepsLeft(p)' < StepsLeft(p)
        /\ StepsLeft(p)' > StepsLeft(p) => pc[p] = "new"
           Numbers == \A p \in Requests : StepsLeft(p) \in Nat
<1>1. Going => Numbers
  BY StepsAreNumbers
<1>2. Going /\ Numbers' /\ [TenancyNext]_vars => [Down]_vars
  <2> SUFFICES ASSUME Going, Numbers', [TenancyNext]_vars, NEW p \in Requests
               PROVE  /\ RequestStep(p) \/ CreateStep(p) => StepsLeft(p)' < StepsLeft(p)
                      /\ StepsLeft(p)' > StepsLeft(p) => pc[p] = "new"
    OBVIOUS
  <2>1. StepsLeft(p) \in Nat /\ StepsLeft(p)' \in Nat
    BY StepsAreNumbers
  <2>2. RequestStep(p) \/ CreateStep(p) => StepsLeft(p)' < StepsLeft(p)
    BY StepsGoDown
  <2>3. pc'[p] = "failed" => StepsLeft(p)' = 0
    BY DEF StepsLeft
  <2>4. QED
    BY <2>1, <2>2, <2>3, StepsAreOf, OthersKeepSteps DEF Going
<1>3. TenancyInit => Fitting
  BY DEF TenancyInit, Init, Fitting, OpsFit
<1>4. TInv => TypeOK
  BY DEF TInv
<1>5. QED
  BY <1>1, <1>2, <1>3, <1>4, InitInv, StepInv, InitCovers, CoversStep, StepFits, PTL
     DEF TenancySpec, Going, RequestsCountDown
=============================================================================
