---------------------------- MODULE FlowVersions ----------------------------
(***************************************************************************)
(* The history of a flow: every change of its JSON is kept as a numbered   *)
(* version, and requests that change, restore, list or delete the flow     *)
(* run concurrently, each in one READ COMMITTED transaction of several     *)
(* statements.  Each statement is a step.                                  *)
(*                                                                         *)
(* `json' and `versions' are committed.  A request keeps what it loaded,   *)
(* what it wrote and what it inserted in variables of its own until it     *)
(* commits; a row it has updated stays locked until then.  The ORM sends   *)
(* an UPDATE only for attributes whose new value differs from the value it *)
(* loaded: without one there is no lock.  Requests that rename the flow or *)
(* a version leave its content and its numbers alone and are left out.     *)
(***************************************************************************)
EXTENDS Naturals, FiniteSets, FiniteSetsExt

CONSTANTS Requests,   \* HTTP requests, each served once
          Jsons,      \* contents of a flow
          SameJson,   \* whether a request may carry the JSON it has loaded
          CanDelete,  \* whether a request may delete the flow
          None        \* no content, no request, nothing asked

ASSUME FlowAssumption ==
  /\ IsFiniteSet(Requests)
  /\ None \notin Jsons \cup Requests
  /\ {SameJson, CanDelete} \subseteq BOOLEAN

VARIABLES
  json,      \* flows.flow_json
  gone,      \* flows.is_deleted
  versions,  \* flow_versions rows: [num, json, live]
  lock,      \* the request whose transaction has updated the flows row
  pc,        \* where a request is
  kind,      \* what it asks
  loaded,    \* the flow_json of its SELECT
  target,    \* the flow_json its session holds
  number,    \* the version_number it computed
  flagged    \* the numbers of the versions its DELETE has flagged

vars == <<json, gone, versions, lock, pc, kind, loaded, target, number, flagged>>

Kinds == {"update", "restore", "list", "delete"}
Steps == {"new", "version", "rows", "flush", "max", "insert",
          "flag", "flagflow", "commit", "done"}

Version(n, j) == [num |-> n, json |-> j, live |-> TRUE]

\* A new flow has its initial version; one older than the history has none.
Init ==
  /\ json \in Jsons
  /\ gone = FALSE
  /\ versions \in {{}, {Version(1, json)}}
  /\ lock = None
  /\ pc = [r \in Requests |-> "new"]
  /\ kind = [r \in Requests |-> None]
  /\ loaded = [r \in Requests |-> None]
  /\ target = [r \in Requests |-> None]
  /\ number = [r \in Requests |-> 0]
  /\ flagged = [r \in Requests |-> {}]

-----------------------------------------------------------------------------
\* Every read filters on is_deleted.
LiveVersions == {v \in versions : v.live}

\* The SELECT of the flow, by a request that goes to `step' with content `j'.
Load(r, k, j, step) ==
  /\ pc[r] = "new"
  /\ ~gone
  /\ kind' = [kind EXCEPT ![r] = k]
  /\ loaded' = [loaded EXCEPT ![r] = json]
  /\ target' = [target EXCEPT ![r] = j]
  /\ pc' = [pc EXCEPT ![r] = step]
  /\ UNCHANGED <<json, gone, versions, lock, number, flagged>>

\* PUT /flows with a flow_json.
LoadForUpdate(r) ==
  \E j \in Jsons : (j # json \/ SameJson) /\ Load(r, "update", j, "flush")

\* POST .../restore: the flow, and then the version asked for.
LoadForRestore(r) == Load(r, "restore", json, "version")

\* GET .../versions.
LoadForList(r) == Load(r, "list", json, "rows")

LoadForDelete(r) == CanDelete /\ Load(r, "delete", json, "flag")

\* _load_flow does not find it: 404.
NotFound(r) ==
  /\ pc[r] = "new"
  /\ gone
  /\ pc' = [pc EXCEPT ![r] = "done"]
  /\ UNCHANGED <<json, gone, versions, lock, kind, loaded, target, number, flagged>>

\* The version to go back to is copied into the session's flow.
ReadVersion(r) ==
  /\ pc[r] = "version"
  /\ \E v \in LiveVersions :
       /\ v.json # loaded[r] \/ SameJson
       /\ target' = [target EXCEPT ![r] = v.json]
  /\ pc' = [pc EXCEPT ![r] = "flush"]
  /\ UNCHANGED <<json, gone, versions, lock, kind, loaded, number, flagged>>

\* The version asked for is not there: 404.
VersionNotFound(r) ==
  /\ pc[r] = "version"
  /\ pc' = [pc EXCEPT ![r] = "done"]
  /\ UNCHANGED <<json, gone, versions, lock, kind, loaded, target, number, flagged>>

\* The UPDATE of the flows row waits for the transaction that has locked it.
RowIsFree == lock = None

\* session.flush(): an UPDATE if the content differs from the loaded one.
Flush(r) ==
  /\ pc[r] = "flush"
  /\ \/ target[r] = loaded[r] /\ UNCHANGED lock
     \/ target[r] # loaded[r] /\ RowIsFree /\ lock' = r
  /\ pc' = [pc EXCEPT ![r] = "max"]
  /\ UNCHANGED <<json, gone, versions, kind, loaded, target, number, flagged>>

\* GET: an empty history is seeded with the loaded content.
ReadRows(r) ==
  /\ pc[r] = "rows"
  /\ pc' = [pc EXCEPT ![r] = IF LiveVersions = {} THEN "max" ELSE "done"]
  /\ UNCHANGED <<json, gone, versions, lock, kind, loaded, target, number, flagged>>

\* Variants a bug would give are defined before the definition they stand for;
\* nothing else uses them.

\* (last or 0) + 1
NextNumber ==
  1 + (IF LiveVersions = {} THEN 0 ELSE Max({v.num : v \in LiveVersions}))

\* select(func.max(version_number)).
ReadMax(r) ==
  /\ pc[r] = "max"
  /\ number' = [number EXCEPT ![r] = NextNumber]
  /\ pc' = [pc EXCEPT ![r] = "insert"]
  /\ UNCHANGED <<json, gone, versions, lock, kind, loaded, target, flagged>>

\* Bug: no unique constraint.
NumberTaken_Never(n) == FALSE

\* uq_flow_versions_flow_version counts soft-deleted rows too.
NumberTaken(n) == \E v \in versions : v.num = n

\* The INSERT waits for another request's uncommitted row of the same number.
Insert(r) ==
  /\ pc[r] = "insert"
  /\ ~NumberTaken(number[r])
  /\ \A s \in Requests \ {r} :
       ~(pc[s] = "commit" /\ kind[s] # "delete" /\ number[s] = number[r])
  /\ pc' = [pc EXCEPT ![r] = "commit"]
  /\ UNCHANGED <<json, gone, versions, lock, kind, loaded, target, number, flagged>>

\* Bug: a request that ends forgets its lock.
LockAfter_Kept(r) == lock

LockAfter(r) == IF lock = r THEN None ELSE lock

\* IntegrityError: the request fails and its transaction rolls back.
InsertFails(r) ==
  /\ pc[r] = "insert"
  /\ NumberTaken(number[r])
  /\ lock' = LockAfter(r)
  /\ pc' = [pc EXCEPT ![r] = "done"]
  /\ UNCHANGED <<json, gone, versions, kind, loaded, target, number, flagged>>

\* Bugs: a restore adds a version and leaves the flow; the snapshot is of what
\* was loaded.
Written_NotByRestore(r) ==
  IF lock = r /\ kind[r] # "restore" THEN target[r] ELSE json
Snapshot_Loaded(r) == loaded[r]

\* What the commit leaves in the row: the content of the UPDATE, if any.
Written(r) == IF lock = r THEN target[r] ELSE json
Snapshot(r) == target[r]

CommitVersion(r) ==
  /\ pc[r] = "commit"
  /\ kind[r] # "delete"
  /\ versions' = versions \cup {Version(number[r], Snapshot(r))}
  /\ json' = Written(r)
  /\ lock' = LockAfter(r)
  /\ pc' = [pc EXCEPT ![r] = "done"]
  /\ UNCHANGED <<gone, kind, loaded, target, number, flagged>>

\* DELETE /flows: the versions are flagged, then the flow, then COMMIT.
FlagVersions(r) ==
  /\ pc[r] = "flag"
  /\ flagged' = [flagged EXCEPT ![r] = {v.num : v \in LiveVersions}]
  /\ pc' = [pc EXCEPT ![r] = "flagflow"]
  /\ UNCHANGED <<json, gone, versions, lock, kind, loaded, target, number>>

FlagFlow(r) ==
  /\ pc[r] = "flagflow"
  /\ RowIsFree
  /\ lock' = r
  /\ pc' = [pc EXCEPT ![r] = "commit"]
  /\ UNCHANGED <<json, gone, versions, kind, loaded, target, number, flagged>>

CommitDelete(r) ==
  /\ pc[r] = "commit"
  /\ kind[r] = "delete"
  /\ gone' = TRUE
  /\ versions' = {[v EXCEPT !.live = @ /\ v.num \notin flagged[r]] : v \in versions}
  /\ lock' = LockAfter(r)
  /\ pc' = [pc EXCEPT ![r] = "done"]
  /\ UNCHANGED <<json, kind, loaded, target, number, flagged>>

-----------------------------------------------------------------------------
\* What a request that has arrived does next.
Serve(r) ==
  \/ ReadVersion(r) \/ VersionNotFound(r)
  \/ Flush(r) \/ ReadRows(r) \/ ReadMax(r)
  \/ Insert(r) \/ InsertFails(r) \/ CommitVersion(r)
  \/ FlagVersions(r) \/ FlagFlow(r) \/ CommitDelete(r)

Arrive(r) ==
  LoadForUpdate(r) \/ LoadForRestore(r) \/ LoadForList(r) \/ LoadForDelete(r) \/ NotFound(r)

Next == \E r \in Requests : Arrive(r) \/ Serve(r)

Spec == Init /\ [][Next]_vars

\* A statement that can run does; nobody has to send a request.
FairSpec == Spec /\ \A r \in Requests : WF_vars(Serve(r))
-----------------------------------------------------------------------------
(* Properties.                                                             *)

TypeOK ==
  /\ json \in Jsons
  /\ gone \in BOOLEAN
  /\ versions \subseteq [num : Nat, json : Jsons, live : BOOLEAN]
  /\ lock \in Requests \cup {None}
  /\ pc \in [Requests -> Steps]
  /\ kind \in [Requests -> Kinds \cup {None}]
  /\ loaded \in [Requests -> Jsons \cup {None}]
  /\ target \in [Requests -> Jsons \cup {None}]
  /\ number \in [Requests -> Nat]
  /\ flagged \in [Requests -> SUBSET Nat]

\* "Numeracion monotonica por flujo": concurrent requests give each version a
\* number of its own and leave no gap.
Numbered == {v.num : v \in versions} = 1 .. Cardinality(versions)

\* "La version mas alta es siempre la activa": the highest version of a live
\* flow holds the content of the flow.
CurrentIsHighest ==
  ~gone => \A v \in LiveVersions :
    (\A u \in LiveVersions : u.num <= v.num) => v.json = json

\* The contents that the flow has held, as its row, its versions and those who have
\* loaded it know them, and the contents of its versions in their order.
Past == {json} \cup ({loaded[r] : r \in Requests} \ {None}) \cup {v.json : v \in versions}
Chain ==
  [n \in 1 .. Cardinality(versions) |-> (CHOOSE v \in versions : v.num = n).json]

Contract == INSTANCE FlowContract WITH content <- json, past <- Past, chain <- Chain

\* However the statements of requests interleave, every commit is one step of the
\* history: the content never changes without the version that records it, no
\* version is ever rewritten, and none is of a content that the flow never had.
ImplementsContract == Contract!Spec

\* Every version drawn so far is of a request that changed what it had loaded.
SnapshotsAreWrites == \A r \in Requests : number[r] # 0 => target[r] # loaded[r]

\* The lock of the flow row is enough for the requests that take it: as long as
\* they change what they load, the highest version is the content of the flow,
\* however their statements interleave.
WritersKeepCurrent == SnapshotsAreWrites => CurrentIsHighest

\* No request waits for ever for the row or for a number.
RequestsEnd == \A r \in Requests : (pc[r] # "new") ~> (pc[r] = "done")
=============================================================================
