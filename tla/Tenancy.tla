------------------------------ MODULE Tenancy ------------------------------
(***************************************************************************)
(* Rows that exist once: the organization and user of an identity, the     *)
(* project of a slug, the default agent of a project.  A request looks for *)
(* the row, unless it does not bother, and inserts it under a unique key;  *)
(* two requests may both find none.  The rows of the project, the default  *)
(* agent among them, come and go as module SoftDelete says, whose actions  *)
(* this module interleaves with its own.                                   *)
(***************************************************************************)
EXTENDS SoftDelete

CONSTANTS Identities,     \* supabase users that log in for the first time
          Slugs,          \* slugs of new projects
          Uploads,        \* the requests that upload a file to the project
          project,        \* the row of the project
          agent           \* the row of its default agent

ASSUME TenancyAssumption ==
  /\ Creates = Identities \cup Slugs \cup Uploads
  /\ {project, agent} \subseteq Rows
  /\ refs[agent] \subseteq {project}
  /\ (Identities \cup Slugs) \cap Rows = {}
  /\ \A w \in Writers : agent \notin adds[w]

VARIABLES holder,         \* the request whose row has the unique key, committed
          claims,         \* the key of the row a request has inserted
          got             \* the request whose row a request answers with

keyVars == <<holder, claims, got>>
vars    == <<deleteVars, keyVars>>

\* The unique keys: users.supabase_user_id, projects (org_id, slug) and agents
\* (project_id, slug); every upload needs the same one, of the default agent.
Keys == Identities \cup Slugs \cup {agent}
Key(p) == IF op[p] \in Uploads THEN agent ELSE op[p]

TenancyInit ==
  /\ Init
  /\ holder = [k \in Keys |-> IF k = agent /\ state[agent] = "live" THEN agent ELSE None]
  /\ claims = [p \in Requests |-> None]
  /\ got = [p \in Requests |-> None]

-----------------------------------------------------------------------------
\* An upload needs its project, visible.
BeginCreate(p, o) ==
  /\ pc[p] = "new"
  /\ o \in Uploads => state[project] = "live"
  /\ op' = [op EXCEPT ![p] = o]
  /\ pc' = [pc EXCEPT ![p] = "find"]
  /\ UNCHANGED <<rows, txn, keyVars>>

\* The SELECT of an existing row: users are never deleted, a deleted agent is
\* not visible, and nobody looks for a project of the same slug.
Finds(p) ==
  CASE op[p] \in Identities -> holder[Key(p)] # None
    [] op[p] \in Uploads -> state[agent] = "live"
    [] OTHER -> FALSE

Find(p) ==
  /\ pc[p] = "find"
  /\ op[p] \in Creates
  /\ IF Finds(p)
     THEN /\ got' = [got EXCEPT ![p] = holder[Key(p)]]
          /\ pc' = [pc EXCEPT ![p] = "found"]
     ELSE /\ pc' = [pc EXCEPT ![p] = "insert"]
          /\ UNCHANGED got
  /\ UNCHANGED <<rows, op, txn, holder, claims>>

\* Bug: the unique index leaves deleted rows out.
KeyTaken_ByLive(p) ==
  IF Key(p) = agent THEN state[agent] = "live" ELSE holder[Key(p)] # None

KeyTaken(p) == holder[Key(p)] # None

\* The INSERT waits for a row of the same key that is not committed.
KeyIsFree(p) == \A q \in Requests : claims[q] # Key(p)

Insert(p) ==
  /\ pc[p] = "insert"
  /\ KeyIsFree(p)
  /\ ~KeyTaken(p)
  /\ claims' = [claims EXCEPT ![p] = Key(p)]
  /\ got' = [got EXCEPT ![p] = p]
  /\ pc' = [pc EXCEPT ![p] = "found"]
  /\ UNCHANGED <<rows, op, txn, holder>>

\* IntegrityError: 409 for a project, 500 for the others; all rolls back.
Clash(p) ==
  /\ pc[p] = "insert"
  /\ KeyIsFree(p)
  /\ KeyTaken(p)
  /\ Close(p, "failed")
  /\ UNCHANGED <<rows, holder, claims, got>>

\* The commit of the row, with the organization inserted before the user or with
\* the upload that needed the agent.
CommitCreate(p) ==
  /\ pc[p] = "found"
  /\ holder' = [k \in Keys |-> IF k = claims[p] THEN p ELSE holder[k]]
  /\ state' = [r \in Rows |-> IF r = claims[p] THEN "live" ELSE state[r]]
  /\ claims' = [claims EXCEPT ![p] = None]
  /\ Close(p, "answered")
  /\ UNCHANGED <<stamp, got>>

RaiseCreate(p) ==
  /\ pc[p] \in {"insert", "found"}
  /\ claims' = [claims EXCEPT ![p] = None]
  /\ got' = [got EXCEPT ![p] = None]
  /\ Close(p, "failed")
  /\ UNCHANGED <<rows, holder>>

CreateStep(p) ==
  Find(p) \/ Insert(p) \/ Clash(p) \/ CommitCreate(p)

TenancyNext ==
  \/ Next /\ UNCHANGED keyVars
  \/ \E p \in Requests : CreateStep(p) \/ RaiseCreate(p) \/ \E o \in Creates : BeginCreate(p, o)

TenancySpec == TenancyInit /\ [][TenancyNext]_vars
-----------------------------------------------------------------------------
(* Properties.                                                             *)

\* One type invariant for the rows, the transactions and the keys; the plan of a
\* request is what Cascade or Updates make of it.
TypeOK ==
  /\ state \in [Rows -> {"absent", "live", "deleted"}]
  /\ stamp \in [Rows -> Requests \cup {None}]
  /\ op \in [Requests -> Ops \cup {None}]
  /\ pc \in [Requests -> {"new", "find", "work", "insert", "found", "answered", "failed"}]
  /\ pending \in [Requests -> SUBSET Rows]
  /\ held \in [Requests -> SUBSET Rows]
  /\ before \in [Requests -> SUBSET Rows]
  /\ holder \in [Keys -> Requests \cup {agent, None}]
  /\ claims \in [Requests -> Keys \cup {None}]
  /\ got \in [Requests -> Requests \cup {agent, None}]

\* Whoever asked for a row that exists once got the same one: two first logins
\* of a user the same organization, all uploads of a project the same default
\* agent, which is also what makes the external ids of its files comparable,
\* even when the project is deleted between their steps.
OneForAll ==
  \A p \in Requests :
    pc[p] = "answered" /\ op[p] \in Creates => got[p] = holder[Key(p)]

\* What the next statement of a request waits for: nothing while it reads or has
\* inserted, the holder of a row, the detector, or the claimant of a key.
CanMove(p) ==
  \/ pc[p] = "find" /\ op[p] \in Ops
  \/ pc[p] = "work" /\ op[p] \in Roots \cup Writers /\ pending[p] = {}
  \/ pc[p] = "work" /\ \E r \in pending[p] : Holders(p, r) = {}
  \/ \E D \in SUBSET Requests : p \in D /\ Deadlocked(D)
  \/ pc[p] = "insert" /\ KeyIsFree(p)
  \/ pc[p] = "found"

Ended(p) == pc[p] \in {"new", "answered", "failed"}

\* Nobody waits for ever: while a request is open some request can go on without
\* a fault, and as each takes finitely many steps all of them end.  Cascades and
\* workers that lock tables in opposite orders need the deadlock detector for it.
SomebodyMoves ==
  (\E p \in Requests : ~Ended(p)) =>
    \E p \in Requests :
      CanMove(p) /\ ENABLED ((RequestStep(p) /\ UNCHANGED keyVars) \/ CreateStep(p))
=============================================================================
