----------------------------- MODULE SoftDelete -----------------------------
(***************************************************************************)
(* DELETE never removes a row: it flags the root and, table by table, the  *)
(* rows below it, in one transaction per request.  The foreign keys do not *)
(* cascade, so the code names the tables of each cascade, in an order of   *)
(* its own.  Meanwhile other transactions insert below the same roots and  *)
(* update rows of the same tables.                                         *)
(*                                                                         *)
(* PostgreSQL at READ COMMITTED: a statement finds its rows when it starts *)
(* and locks them one by one; for a row that another transaction holds it  *)
(* waits, and then asks again whether the row still matches.  Requests     *)
(* that wait for one another are found by the deadlock detector, which     *)
(* aborts one of them.                                                     *)
(*                                                                         *)
(* `state' is the committed state of the rows.  A request is given by what *)
(* it does: a root it deletes or, for a writer, the rows it must read, the *)
(* rows it updates and the rows it inserts.                                *)
(***************************************************************************)
EXTENDS Sequences, SequencesExt

CONSTANTS Rows,       \* the rows of one project, those of later inserts included
          table,      \* the table of each row
          refs,       \* the rows it belongs to by a foreign key
          Present,    \* the sets of rows that a behaviour may begin with
          Roots,      \* the rows that users may delete
          Writers,    \* the requests and worker transactions that insert
          needs,      \* what a writer reads first
          updates,    \* the rows it updates, in order
          adds,       \* the rows it inserts
          Creates,    \* requests of other modules
          Requests,   \* the transactions of a behaviour
          None

\* What a row may belong to: the foreign keys that cascade, and the upload of a
\* conversation, which the code treats alike.
Owners ==
  [projects                  |-> {},
   agents                    |-> {"projects"},
   conversations             |-> {"projects", "agents", "uploads"},
   messages                  |-> {"projects", "conversations"},
   evaluations               |-> {"projects", "conversations", "agents"},
   uploads                   |-> {"projects", "agents"},
   flows                     |-> {"projects"},
   flow_versions             |-> {"projects", "flows"},
   audits                    |-> {"projects"},
   audit_conversations       |-> {"projects", "audits", "conversations"},
   message_evaluations       |-> {"projects", "conversations", "messages"},
   improvements              |-> {"projects", "flows"},
   improvement_conversations |-> {"projects", "improvements", "conversations"},
   supervisors               |-> {"projects"},
   agent_reputation          |-> {"projects", "agents"},
   user_reputation           |-> {"projects"}]

\* The columns project_id and conversation_id are copied from the owner of a row.
Copied == {"projects", "conversations"}

ASSUME SoftDeleteAssumption ==
  /\ Roots \subseteq Rows
  /\ (Roots \cup Writers) \cap Creates = {}
  /\ None \notin Rows \cup Requests \cup Roots \cup Writers \cup Creates

\* Rows that fit the schema, users that delete what has an endpoint, and writers
\* that insert below what they have read.
ASSUME SchemaAssumption ==
  /\ table \in [Rows -> DOMAIN Owners]
  /\ refs \in [Rows -> SUBSET Rows]
  /\ \A r \in Rows : \A q \in refs[r] :
       /\ table[q] \in Owners[table[r]]
       /\ \A o \in refs[q] : table[o] \in Copied => o \in refs[r]
  /\ \A S \in Present : S \subseteq Rows /\ \A r \in S : refs[r] \subseteq S
  /\ \A o \in Roots :
       table[o] \in {"projects", "conversations", "uploads", "flows", "supervisors"}
  /\ Roots \cap Writers = {}
  /\ updates \in [Writers -> Seq(Rows)]
  /\ \A w \in Writers :
       /\ needs[w] \subseteq Rows
       /\ \A r \in adds[w] : refs[r] \subseteq adds[w] \cup needs[w] \cup UNION {refs[n] : n \in needs[w]}

VARIABLES state,      \* committed: "absent", "live", "deleted"
          stamp,      \* committed deleted_at: the request that set it
          op,         \* what a request does
          pc,         \* how far it is
          plan,       \* the statements it has not executed
          pending,    \* the rows its current statement has not locked yet
          held,       \* the rows it has locked and changed
          before      \* history: the subtree that was live when it began

rows   == <<state, stamp>>
txn    == <<plan, pending, held, before>>
deleteVars == <<rows, op, pc, txn>>

Ops == Roots \cup Writers \cup Creates
Deletes(p) == op[p] \in Roots
Open(p) == pc[p] \in {"find", "work"}

-----------------------------------------------------------------------------
(* The cascades.                                                           *)

\* _PROJECT_CHILDREN and _CONVERSATION_CHILDREN in their order, then the root;
\* the tables of an improvement and of a flow in the order of their cascade.
ProjectTables ==
  <<"agents", "conversations", "messages", "evaluations", "uploads", "flows",
    "flow_versions", "audits", "audit_conversations", "message_evaluations",
    "improvements", "improvement_conversations", "supervisors",
    "agent_reputation", "user_reputation", "projects">>
ConversationTables ==
  <<"messages", "evaluations", "audit_conversations", "message_evaluations",
    "improvement_conversations", "conversations">>
ImprovementTables == <<"improvement_conversations", "improvements">>
FlowTables == <<"flow_versions", "flows">>

\* One _flag per table; none at all for an empty set of ids.
Flags(tables, ids) ==
  IF ids = {} THEN <<>>
  ELSE [i \in DOMAIN tables |-> [table |-> tables[i], ids |-> ids]]

\* Bug: the SELECT of the ids does not see deleted rows.
Children_Visible(t, root) ==
  {r \in Rows : table[r] = t /\ root \in refs[r] /\ state[r] = "live"}

\* SELECT id ... execution_options(include_deleted=True).
Children(t, root) ==
  {r \in Rows : table[r] = t /\ root \in refs[r] /\ state[r] # "absent"}

Cascade(root) ==
  CASE table[root] = "projects" -> Flags(ProjectTables, {root})
    [] table[root] = "conversations" -> Flags(ConversationTables, {root})
    [] table[root] = "uploads" ->
         Flags(ConversationTables, Children("conversations", root))
           \o Flags(<<"uploads">>, {root})
    [] table[root] = "flows" ->
         Flags(ImprovementTables, Children("improvements", root))
           \o Flags(FlowTables, {root})
    [] OTHER -> Flags(<<table[root]>>, {root})

\* A writer updates its rows one statement each, by primary key.
Updates(w) ==
  [i \in DOMAIN updates[w] |->
     [table |-> table[updates[w][i]], ids |-> {updates[w][i]}]]

\* What hangs from a root: its children and theirs (no table is further down).
Below(root) ==
  LET children == {r \in Rows : root \in refs[r]}
  IN  {root} \cup children \cup {r \in Rows : refs[r] \cap children # {}}

-----------------------------------------------------------------------------
Init ==
  /\ \E S \in Present :
        state = [r \in Rows |-> IF r \in S THEN "live" ELSE "absent"]
  /\ stamp = [r \in Rows |-> None]
  /\ op = [p \in Requests |-> None]
  /\ pc = [p \in Requests |-> "new"]
  /\ plan = [p \in Requests |-> <<>>]
  /\ pending = [p \in Requests |-> {}]
  /\ held = [p \in Requests |-> {}]
  /\ before = [p \in Requests |-> {}]

\* What a request must find, or it ends with a 404 that changes nothing.
Sees(o) == CASE o \in Roots -> {o}
             [] o \in Writers -> needs[o]
             [] OTHER -> {}

\* The SELECT of the root, filtered by is_deleted.
Begin(p, o) ==
  /\ pc[p] = "new"
  /\ \A r \in Sees(o) : state[r] = "live"
  /\ op' = [op EXCEPT ![p] = o]
  /\ pc' = [pc EXCEPT ![p] = "find"]
  /\ before' = [before EXCEPT ![p] =
                  IF o \in Roots THEN {r \in Below(o) : state[r] # "absent"} ELSE {}]
  /\ UNCHANGED <<rows, plan, pending, held>>

\* The SELECT of the ids below it, for the cascades that have one.
FindIds(p) ==
  /\ pc[p] = "find"
  /\ Deletes(p) \/ op[p] \in Writers
  /\ plan' = [plan EXCEPT ![p] = IF Deletes(p) THEN Cascade(op[p]) ELSE Updates(op[p])]
  /\ pc' = [pc EXCEPT ![p] = "work"]
  /\ UNCHANGED <<rows, op, pending, held, before>>

\* Bug: rows that are flagged already are flagged again.
Matches_Any(p, r) == state[r] # "absent"

\* WHERE ... AND is_deleted = false, except for the updates of writers.
Matches(p, r) == state[r] = "live" \/ (~Deletes(p) /\ state[r] = "deleted")

\* A worker reads the reputation before it updates it.
Readable(p, s) ==
  s.table = "agent_reputation" /\ ~Deletes(p) => \A r \in s.ids : state[r] # "deleted"

\* A statement finds its rows.
Execute(p) ==
  /\ pc[p] = "work"
  /\ pending[p] = {}
  /\ plan[p] # <<>>
  /\ LET s == Head(plan[p])
     IN  /\ Readable(p, s)
         /\ pending' = [pending EXCEPT ![p] =
              {r \in Rows \ held[p] :
                 /\ table[r] = s.table
                 /\ r \in s.ids \/ (Deletes(p) /\ refs[r] \cap s.ids # {})
                 /\ Matches(p, r)}]
  /\ plan' = [plan EXCEPT ![p] = Tail(@)]
  /\ UNCHANGED <<rows, op, pc, held, before>>

Holders(p, r) == {q \in Requests \ {p} : r \in held[q]}

\* It locks one, and changes it if it still matches.
LockRow(p, r) ==
  /\ r \in pending[p]
  /\ Holders(p, r) = {}
  /\ pending' = [pending EXCEPT ![p] = @ \ {r}]
  /\ held' = [held EXCEPT ![p] = IF Matches(p, r) THEN @ \cup {r} ELSE @]
  /\ UNCHANGED <<rows, op, pc, plan, before>>

\* Bug: the session of a failed request is not closed, and keeps its locks.
Close_KeepsLocks(p, how) ==
  /\ pc' = [pc EXCEPT ![p] = how]
  /\ plan' = [plan EXCEPT ![p] = <<>>]
  /\ pending' = [pending EXCEPT ![p] = {}]
  /\ held' = [held EXCEPT ![p] = IF how = "failed" THEN @ ELSE {}]
  /\ before' = [before EXCEPT ![p] = {}]
  /\ UNCHANGED op

\* What a request leaves of itself when it ends.
Close(p, how) ==
  /\ pc' = [pc EXCEPT ![p] = how]
  /\ plan' = [plan EXCEPT ![p] = <<>>]
  /\ pending' = [pending EXCEPT ![p] = {}]
  /\ held' = [held EXCEPT ![p] = {}]
  /\ before' = [before EXCEPT ![p] = {}]
  /\ UNCHANGED op

\* COMMIT: the flagged rows are deleted, the inserted ones appear.
Commit(p) ==
  /\ pc[p] = "work"
  /\ pending[p] = {} /\ plan[p] = <<>>
  /\ \/ /\ Deletes(p)
        /\ state' = [r \in Rows |-> IF r \in held[p] THEN "deleted" ELSE state[r]]
        /\ stamp' = [r \in Rows |-> IF r \in held[p] THEN p ELSE stamp[r]]
     \/ /\ op[p] \in Writers
        /\ state' = [r \in Rows |->
             IF r \in adds[op[p]] /\ state[r] = "absent" THEN "live" ELSE state[r]]
        /\ UNCHANGED stamp
  /\ Close(p, "answered")

\* Requests each of which waits only for rows that another of them holds.
Deadlocked(D) ==
  \A p \in D : /\ pending[p] # {}
               /\ \A r \in pending[p] : Holders(p, r) \cap D # {}

\* The detector aborts one request of a deadlock.
BreakDeadlock(p) ==
  /\ \E D \in SUBSET Requests : p \in D /\ Deadlocked(D)
  /\ Close(p, "failed")
  /\ UNCHANGED rows

\* If the reputation is deleted, the worker does not see it, inserts another one
\* and fails on the unique agent_id.
ReputationClash(p) ==
  /\ pc[p] = "work"
  /\ pending[p] = {}
  /\ plan[p] # <<>>
  /\ ~Readable(p, Head(plan[p]))
  /\ Close(p, "failed")
  /\ UNCHANGED rows

\* A lost connection, an exception of the worker: the transaction rolls back.
Raise(p) ==
  /\ Open(p)
  /\ Close(p, "failed")
  /\ UNCHANGED rows

\* What a request does, or has done to it, without any fault.
RequestStep(p) ==
  \/ FindIds(p) \/ Execute(p) \/ Commit(p)
  \/ \E r \in Rows : LockRow(p, r)
  \/ BreakDeadlock(p) \/ ReputationClash(p)

Next ==
  \E p \in Requests :
    RequestStep(p) \/ Raise(p) \/ \E o \in Roots \cup Writers : Begin(p, o)

Spec == Init /\ [][Next]_deleteVars
-----------------------------------------------------------------------------
(* Properties.                                                             *)

\* "que matchean `where` y todavia no estan borradas (para no pisar
\* deleted_at)": when a row was deleted never changes, whatever cascades cross.
DeletedAtKept ==
  [][\A r \in Rows : stamp[r] # None => stamp'[r] = stamp[r]]_deleteVars

\* "seteando is_deleted=True en la raiz y sus descendientes": when a delete
\* answers, all that hung from its root when it began is deleted, by it or by
\* another cascade, what earlier cascades left behind included.
CascadeComplete ==
  [][\A p \in Requests : Deletes(p) /\ pc[p] = "work" /\ pc'[p] = "answered" =>
       \A r \in before[p] : state'[r] = "deleted"]_deleteVars
=============================================================================
