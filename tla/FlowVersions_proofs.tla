------------------------- MODULE FlowVersions_proofs -------------------------
(***************************************************************************)
(* Proofs about FlowVersions for every set of requests and contents: its   *)
(* type invariant, that the versions of a flow are numbered without gaps,  *)
(* that the highest version is the content as long as every writer has     *)
(* changed what it had loaded, that every commit is one step of the        *)
(* history that FlowContract describes, and that requests are finite.      *)
(***************************************************************************)
EXTENDS FlowVersions, Sequences, FiniteSetTheorems, FunctionTheorems, TLAPS

USE FlowAssumption

\* The requests that are about to insert, or have inserted, a version.
Inserting(r) == pc[r] \in {"insert", "commit"} /\ kind[r] # "delete"

\* What a request has got so far.
Served ==
  \A r \in Requests :
    /\ pc[r] \in {"version", "rows", "flush", "max", "insert", "commit"}
         /\ kind[r] # "delete" => loaded[r] \in Jsons /\ target[r] \in Jsons
    /\ pc[r] \in {"version", "rows", "flush", "max", "insert"} =>
         kind[r] # "delete"
    /\ pc[r] \in {"flag", "flagflow"} => kind[r] = "delete"
    /\ pc[r] \in {"new", "version", "rows", "flush", "max"} => number[r] = 0

Typed == TypeOK /\ Served

\* The versions are as many as the highest number.
Counted ==
  /\ IsFiniteSet(versions)
  /\ \A u, v \in versions : u.num = v.num => u = v
  /\ Numbered

\* A number that was drawn is at most the next one; one that is inserted is the
\* next one, and no other request has it.
Drawn ==
  /\ \A r \in Requests : Inserting(r) => number[r] \in 1 .. Cardinality(versions) + 1
  /\ \A r \in Requests : Inserting(r) /\ pc[r] = "commit" =>
       /\ number[r] = Cardinality(versions) + 1
       /\ \A s \in Requests \ {r} : ~(Inserting(s) /\ pc[s] = "commit")

\* The row is locked by a request that has sent an UPDATE and not ended; who has
\* changed the content has locked it, and who lists changes nothing.
Locked ==
  \A r \in Requests :
    /\ lock = r => pc[r] \in {"max", "insert", "commit"}
    /\ pc[r] \in {"max", "insert", "commit"} /\ kind[r] # "delete"
         /\ target[r] # loaded[r] => lock = r
    /\ pc[r] = "rows" => target[r] = loaded[r]
    /\ pc[r] = "commit" /\ kind[r] = "delete" => lock = r

\* What a locked flow is about to get is higher than what it has.
LockedIsNext ==
  \A r \in Requests : lock = r /\ Inserting(r) =>
    \A v \in LiveVersions : v.num < number[r]

NumberInv == Typed /\ Counted /\ Drawn
WriterInv ==
  /\ NumberInv
  /\ Locked
  /\ SnapshotsAreWrites => LockedIsNext
  /\ WritersKeepCurrent

-----------------------------------------------------------------------------
(* Numbers.                                                                *)

\* A set of natural numbers with an upper bound has a greatest element.
LEMMA MaxIsGreatest ==
  ASSUME NEW n \in Nat, NEW S, S \subseteq 1 .. n, S # {}
  PROVE  Max(S) \in S /\ \A d \in S : Max(S) >= d
<1> DEFINE Bounds == {m \in Nat : \A d \in S : d <= m}
<1>1. n \in Bounds
  OBVIOUS
<1>2. PICK m \in Bounds : \A k \in Bounds : <<k, m>> \notin OpToRel(<, Nat)
  BY <1>1, NatLessThanWellFounded, WFMin, Bounds \subseteq Nat, Bounds # {}
<1>3. \A k \in Bounds : ~(k < m)
  <2> TAKE k \in Bounds
  <2>1. k \in Nat /\ m \in Nat
    OBVIOUS
  <2> HIDE DEF Bounds
  <2>2. QED
    BY <1>2, <2>1, Zenon DEF OpToRel
<1>4. m \in S
  <2> SUFFICES ASSUME m \notin S PROVE FALSE
    OBVIOUS
  <2>1. \A d \in S : d \in Nat /\ d >= 1 /\ d <= m /\ d # m
    OBVIOUS
  <2>2. m \in Nat /\ m - 1 \in Nat
    <3>1. PICK d \in S : TRUE
      OBVIOUS
    <3>2. m \in Nat /\ 1 <= d /\ d <= m /\ d \in Nat
      BY <2>1
    <3>3. QED
      BY <3>2
  <2>3. \A d \in S : d <= m - 1
    BY <2>1, <2>2
  <2>4. m - 1 \in Bounds
    BY <2>2, <2>3
  <2>5. QED
    BY <1>3, <2>2, <2>4
<1>5. QED
  BY <1>4 DEF Max

\* As many versions as the highest number, if the numbers tell them apart.
LEMMA AsManyAsNumbers ==
  ASSUME NEW S, NEW n \in Nat, \A u, v \in S : u.num = v.num => u = v,
         {v.num : v \in S} = 1 .. n
  PROVE  IsFiniteSet(S) /\ Cardinality(S) = n
<1> DEFINE f == [v \in S |-> v.num]
<1>1. f \in Bijection(S, 1 .. n)
  <2>1. f \in [S -> 1 .. n]
    OBVIOUS
  <2>2. \A u, v \in S : f[u] = f[v] => u = v
    OBVIOUS
  <2>3. \A k \in 1 .. n : \E v \in S : f[v] = k
    <3> TAKE k \in 1 .. n
    <3>1. k \in {v.num : v \in S}
      OBVIOUS
    <3>2. QED
      BY <3>1
  <2> HIDE DEF f
  <2>4. QED
    BY <2>1, <2>2, <2>3 DEF Bijection, Injection, Surjection, IsInjective
<1>2. ExistsBijection(1 .. n, S)
  BY <1>1, Fun_ExistsBijSymmetric DEF ExistsBijection
<1>3. QED
  BY <1>2, FS_CountingElements, FS_Interval, FS_Bijection

LEMMA VersionsAreCounted ==
  ASSUME Counted
  PROVE  Cardinality(versions) \in Nat
BY FS_CardinalityType DEF Counted

\* select(func.max(version_number)) + 1: above every live version, and no gap.
LEMMA NextIsAbove ==
  ASSUME Typed, Counted
  PROVE  /\ NextNumber \in 1 .. Cardinality(versions) + 1
         /\ \A v \in LiveVersions : v.num < NextNumber
<1> DEFINE nums == {v.num : v \in LiveVersions}
<1>1. Cardinality(versions) \in Nat
  BY VersionsAreCounted
<1>2. nums \subseteq 1 .. Cardinality(versions)
  BY DEF Counted, Numbered, LiveVersions
<1>3. CASE LiveVersions = {}
  BY <1>1, <1>3 DEF NextNumber
<1>4. CASE LiveVersions # {}
  <2>1. Max(nums) \in nums /\ \A d \in nums : Max(nums) >= d
    BY <1>1, <1>2, <1>4, MaxIsGreatest
  <2>2. NextNumber = 1 + Max(nums)
    BY <1>4 DEF NextNumber
  <2>3. Max(nums) \in 1 .. Cardinality(versions)
    BY <1>2, <2>1
  <2>4. \A v \in LiveVersions : v.num \in nums
    OBVIOUS
  <2> HIDE DEF nums
  <2>5. NextNumber \in 1 .. Cardinality(versions) + 1
    BY <1>1, <2>2, <2>3
  <2>6. \A v \in LiveVersions : v.num < NextNumber
    <3> TAKE v \in LiveVersions
    <3>1. v.num \in 1 .. Cardinality(versions) /\ Max(nums) >= v.num
      BY <1>2, <2>1, <2>4
    <3>2. QED
      BY <1>1, <2>2, <2>3, <3>1
  <2>7. QED
    BY <2>5, <2>6
<1>5. QED
  BY <1>3, <1>4

-----------------------------------------------------------------------------
(* Types.                                                                  *)

LEMMA InitTyped == Init => Typed
<1> SUFFICES ASSUME Init PROVE Typed
  OBVIOUS
<1>1. versions \subseteq [num : Nat, json : Jsons, live : BOOLEAN]
  <2>1. json \in Jsons /\ (versions = {} \/ versions = {Version(1, json)})
    BY DEF Init
  <2>2. Version(1, json) \in [num : Nat, json : Jsons, live : BOOLEAN]
    BY <2>1 DEF Version
  <2>3. QED
    BY <2>1, <2>2
<1>2. QED
  BY <1>1 DEF Init, Typed, TypeOK, Served, Steps

LEMMA LoadTyped ==
  ASSUME Typed, NEW r \in Requests, NEW k \in Kinds, NEW j \in Jsons, NEW step,
         Load(r, k, j, step),
         IF k = "delete" THEN step = "flag" ELSE step \in {"flush", "version", "rows"}
  PROVE  Typed'
<1> USE DEF Typed, TypeOK, Served, Load, Kinds, Steps
<1>1. step \in {"flag", "flush", "version", "rows"}
  OBVIOUS
<1>2. TypeOK'
  BY <1>1
<1>3. Served'
  BY <1>1
<1>4. QED
  BY <1>2, <1>3

LEMMA ArriveTyped ==
  ASSUME Typed, NEW r \in Requests, Arrive(r)
  PROVE  Typed'
<1>0. json \in Jsons
  BY DEF Typed, TypeOK
<1>1. CASE LoadForUpdate(r)
  BY <1>1, LoadTyped DEF LoadForUpdate, Kinds
<1>2. CASE LoadForRestore(r)
  BY <1>0, <1>2, LoadTyped DEF LoadForRestore, Kinds
<1>3. CASE LoadForList(r)
  BY <1>0, <1>3, LoadTyped DEF LoadForList, Kinds
<1>4. CASE LoadForDelete(r)
  BY <1>0, <1>4, LoadTyped DEF LoadForDelete, Kinds
<1>5. CASE NotFound(r)
  BY <1>5 DEF NotFound, Typed, TypeOK, Served, Steps
<1>6. QED
  BY <1>1, <1>2, <1>3, <1>4, <1>5 DEF Arrive

LEMMA ServeTyped ==
  ASSUME Typed, Counted, NEW r \in Requests, Serve(r)
  PROVE  Typed'
<1> USE DEF Typed, TypeOK, Served, Steps
<1>1. CASE ReadVersion(r)
  BY <1>1 DEF ReadVersion, LiveVersions
<1>2. CASE VersionNotFound(r)
  BY <1>2 DEF VersionNotFound
<1>3. CASE Flush(r)
  BY <1>3 DEF Flush
<1>4. CASE ReadRows(r)
  BY <1>4 DEF ReadRows
<1>5. CASE ReadMax(r)
  <2>1. NextNumber \in Nat
    BY NextIsAbove, VersionsAreCounted
  <2>2. QED
    BY <1>5, <2>1 DEF ReadMax
<1>6. CASE Insert(r)
  BY <1>6 DEF Insert
<1>7. CASE InsertFails(r)
  BY <1>7 DEF InsertFails, LockAfter
<1>8. CASE CommitVersion(r)
  <2> USE <1>8 DEF CommitVersion, LockAfter, Written, Snapshot
  <2>1. target[r] \in Jsons
    OBVIOUS
  <2>2. Version(number[r], target[r]) \in [num : Nat, json : Jsons, live : BOOLEAN]
    BY <2>1 DEF Version
  <2>3. TypeOK'
    BY <2>1, <2>2
  <2>4. QED
    BY <2>3
<1>9. CASE FlagVersions(r)
  BY <1>9 DEF FlagVersions, LiveVersions
<1>10. CASE FlagFlow(r)
  BY <1>10 DEF FlagFlow
<1>11. CASE CommitDelete(r)
  <2> USE <1>11 DEF CommitDelete, LockAfter
  <2>1. \A v \in versions : [v EXCEPT !.live = @ /\ v.num \notin flagged[r]]
           \in [num : Nat, json : Jsons, live : BOOLEAN]
    OBVIOUS
  <2>2. versions' \subseteq [num : Nat, json : Jsons, live : BOOLEAN]
    BY <2>1
  <2>3. QED
    BY <2>2
<1>12. QED
  BY <1>1, <1>2, <1>3, <1>4, <1>5, <1>6, <1>7, <1>8, <1>9, <1>10, <1>11 DEF Serve

-----------------------------------------------------------------------------
(* Numbered.                                                               *)

LEMMA InitNumbers == Init => Counted /\ Drawn
<1> SUFFICES ASSUME Init PROVE Counted /\ Drawn
  OBVIOUS
<1>1. CASE versions = {}
  BY <1>1, FS_EmptySet DEF Init, Counted, Numbered, Drawn, Inserting
<1>2. CASE versions = {Version(1, json)}
  <2>1. IsFiniteSet(versions) /\ Cardinality(versions) = 1
    BY <1>2, FS_Singleton
  <2>2. QED
    BY <1>2, <2>1 DEF Init, Counted, Numbered, Drawn, Inserting, Version
<1>3. QED
  BY <1>1, <1>2 DEF Init

\* A request that has drawn no number moves, and the versions stay.
LEMMA VersionsStay ==
  ASSUME Counted, Drawn, NEW r \in Requests, UNCHANGED versions,
         ~Inserting(r)',
         \A s \in Requests \ {r} :
           pc'[s] = pc[s] /\ kind'[s] = kind[s] /\ number'[s] = number[s]
  PROVE  Counted' /\ Drawn'
BY DEF Counted, Drawn, Numbered, Inserting

LEMMA ArriveNumbers ==
  ASSUME Typed, Counted, Drawn, NEW r \in Requests, Arrive(r)
  PROVE  Counted' /\ Drawn'
<1> USE DEF Typed, TypeOK, Served, Load, Inserting, Kinds
<1>1. CASE LoadForUpdate(r)
  BY <1>1, VersionsStay DEF LoadForUpdate
<1>2. CASE LoadForRestore(r)
  BY <1>2, VersionsStay DEF LoadForRestore
<1>3. CASE LoadForList(r)
  BY <1>3, VersionsStay DEF LoadForList
<1>4. CASE LoadForDelete(r)
  BY <1>4, VersionsStay DEF LoadForDelete
<1>5. CASE NotFound(r)
  BY <1>5, VersionsStay DEF NotFound
<1>6. QED
  BY <1>1, <1>2, <1>3, <1>4, <1>5 DEF Arrive

\* The INSERT waits for an uncommitted row of its number and fails on a committed
\* one: whoever gets through has the next number, alone.
LEMMA InsertNumbers ==
  ASSUME Typed, Counted, Drawn, NEW r \in Requests, Insert(r)
  PROVE  Counted' /\ Drawn'
<1> DEFINE N == Cardinality(versions)
<1> USE DEF Typed, TypeOK, Served, Insert
<1>1. N \in Nat
  BY VersionsAreCounted
<1>2. Inserting(r) /\ number[r] \in 1 .. N + 1
  BY DEF Drawn, Inserting
<1>3. number[r] \notin 1 .. N
  BY DEF NumberTaken, Counted, Numbered
<1>4. number[r] = N + 1
  BY <1>1, <1>2, <1>3
<1>5. \A s \in Requests \ {r} : ~(Inserting(s) /\ pc[s] = "commit")
  BY <1>4 DEF Drawn, Inserting
<1>6. Counted'
  BY DEF Counted, Numbered
<1>7. Drawn'
  BY <1>2, <1>4, <1>5 DEF Drawn, Inserting
<1>8. QED
  BY <1>6, <1>7

\* The next version leaves no gap.
LEMMA CommitNumbers ==
  ASSUME Typed, Counted, Drawn, NEW r \in Requests, CommitVersion(r)
  PROVE  Counted' /\ Drawn'
<1> DEFINE N == Cardinality(versions)
           new == Version(number[r], Snapshot(r))
<1> USE DEF Typed, TypeOK, Served, CommitVersion
<1>1. N \in Nat
  BY VersionsAreCounted
<1>2. /\ number[r] = N + 1
      /\ \A s \in Requests \ {r} : ~(Inserting(s) /\ pc[s] = "commit")
  BY DEF Drawn, Inserting
<1>3. \A v \in versions : v.num \in 1 .. N /\ v.num # new.num
  BY <1>1, <1>2 DEF Counted, Numbered, Version
<1>4. versions' = versions \cup {new} /\ new \notin versions
  BY <1>3
<1>5. IsFiniteSet(versions') /\ Cardinality(versions') = N + 1
  BY <1>1, <1>4, FS_AddElement DEF Counted
<1>6. {v.num : v \in versions'} = 1 .. N + 1
  <2>1. new.num = N + 1
    BY <1>2 DEF Version
  <2>2. \A a, b : {v.num : v \in a \cup {b}} = {v.num : v \in a} \cup {b.num}
    OBVIOUS
  <2>3. {v.num : v \in versions'} = {v.num : v \in versions} \cup {N + 1}
    BY ONLY <1>4, <2>1, <2>2
  <2>4. {v.num : v \in versions} = 1 .. N
    BY DEF Counted, Numbered
  <2>5. 1 .. N + 1 = (1 .. N) \cup {N + 1}
    BY <1>1
  <2>6. QED
    BY ONLY <2>3, <2>4, <2>5
<1>7. \A u, v \in versions' : u.num = v.num => u = v
  BY <1>3, <1>4 DEF Counted
<1>8. Counted'
  BY <1>5, <1>6, <1>7 DEF Counted, Numbered
<1>9. Drawn'
  <2>1. \A s \in Requests : Inserting(s)' => s # r /\ Inserting(s) /\ pc[s] # "commit"
    BY <1>2 DEF Inserting
  <2>2. QED
    BY <1>1, <1>2, <1>5, <2>1 DEF Drawn, Inserting
<1>10. QED
  BY <1>8, <1>9

\* A delete keeps the rows and their numbers.
LEMMA DeleteNumbers ==
  ASSUME Typed, Counted, Drawn, NEW r \in Requests, CommitDelete(r)
  PROVE  Counted' /\ Drawn'
<1> DEFINE N == Cardinality(versions)
           Left(v) == [v EXCEPT !.live = @ /\ v.num \notin flagged[r]]
<1> USE DEF Typed, TypeOK, CommitDelete
<1>1. N \in Nat
  BY VersionsAreCounted
<1>2. versions' = {Left(v) : v \in versions}
  OBVIOUS
<1>3. \A v \in versions : Left(v).num = v.num
  OBVIOUS
<1> HIDE DEF Left
<1>4. {v.num : v \in versions'} = 1 .. N
  <2>1. {v.num : v \in versions'} = {v.num : v \in versions}
    BY <1>2, <1>3
  <2>2. QED
    BY <2>1 DEF Counted, Numbered
<1>5. \A u, v \in versions' : u.num = v.num => u = v
  BY <1>2, <1>3 DEF Counted
<1>6. IsFiniteSet(versions') /\ Cardinality(versions') = N
  BY <1>1, <1>4, <1>5, AsManyAsNumbers
<1>7. Counted'
  BY <1>4, <1>5, <1>6 DEF Counted, Numbered
<1>8. Drawn'
  BY <1>6 DEF Drawn, Inserting
<1>9. QED
  BY <1>7, <1>8

LEMMA ServeNumbers ==
  ASSUME Typed, Counted, Drawn, NEW r \in Requests, Serve(r)
  PROVE  Counted' /\ Drawn'
<1> USE DEF Typed, TypeOK, Served, Inserting
<1>1. CASE ReadVersion(r)
  BY <1>1, VersionsStay DEF ReadVersion
<1>2. CASE VersionNotFound(r)
  BY <1>2, VersionsStay DEF VersionNotFound
<1>3. CASE Flush(r)
  BY <1>3, VersionsStay DEF Flush
<1>4. CASE ReadRows(r)
  BY <1>4, VersionsStay DEF ReadRows
<1>5. CASE ReadMax(r)
  <2> USE <1>5 DEF ReadMax
  <2>1. Counted'
    BY DEF Counted, Numbered
  <2>2. number'[r] \in 1 .. Cardinality(versions) + 1
    BY NextIsAbove
  <2>3. Drawn'
    BY <2>2 DEF Drawn
  <2>4. QED
    BY <2>1, <2>3
<1>6. CASE InsertFails(r)
  BY <1>6, VersionsStay DEF InsertFails
<1>7. CASE FlagVersions(r)
  BY <1>7, VersionsStay DEF FlagVersions
<1>8. CASE FlagFlow(r)
  BY <1>8, VersionsStay DEF FlagFlow
<1>9. QED
  BY <1>1, <1>2, <1>3, <1>4, <1>5, <1>6, <1>7, <1>8, InsertNumbers,
     CommitNumbers, DeleteNumbers DEF Serve

LEMMA StutterNumbers == NumberInv /\ UNCHANGED vars => NumberInv'
BY DEF NumberInv, Typed, TypeOK, Served, Counted, Numbered, Drawn, Inserting, vars

LEMMA AlwaysNumberInv == Spec => []NumberInv
<1>1. Init => NumberInv
  BY InitTyped, InitNumbers DEF NumberInv
<1>2. NumberInv /\ [Next]_vars => NumberInv'
  BY ArriveTyped, ArriveNumbers, ServeTyped, ServeNumbers, StutterNumbers
     DEF Next, NumberInv
<1>3. QED
  BY <1>1, <1>2, PTL DEF Spec

\* The type invariant, for every number of requests.
THEOREM TypeCorrect == Spec => []TypeOK
<1>1. NumberInv => TypeOK
  BY DEF NumberInv, Typed
<1>2. QED
  BY <1>1, AlwaysNumberInv, PTL

\* However many requests change, restore, list or delete a flow at once, its
\* versions are numbered from one without a gap.
THEOREM NoGaps == Spec => []Numbered
<1>1. NumberInv => Numbered
  BY DEF NumberInv, Counted
<1>2. QED
  BY <1>1, AlwaysNumberInv, PTL

-----------------------------------------------------------------------------
(* Contents.                                                               *)

\* Only a COMMIT touches the row and its versions.
LEMMA OnlyCommits ==
  ASSUME NumberInv, NEW r \in Requests, Arrive(r) \/ Serve(r)
  PROVE  \/ UNCHANGED <<json, gone, versions>>
         \/ CommitVersion(r) \/ CommitDelete(r)
BY DEF Arrive, Serve, Load, LoadForUpdate, LoadForRestore, LoadForList,
   LoadForDelete, NotFound, ReadVersion, VersionNotFound, Flush, ReadRows, ReadMax,
   Insert, InsertFails, FlagVersions, FlagFlow

\* A request that inserts has loaded contents, and a number nobody else has.
LEMMA CommitsNew ==
  ASSUME NumberInv, NEW r \in Requests, CommitVersion(r)
  PROVE  /\ number[r] \in Nat /\ number[r] # 0
         /\ Version(number[r], target[r]) \in versions' \ versions
<1> USE DEF NumberInv, CommitVersion
<1>1. Cardinality(versions) \in Nat /\ number[r] = Cardinality(versions) + 1
  BY VersionsAreCounted DEF Drawn, Inserting
<1>2. \A v \in versions : v.num # number[r]
  BY <1>1 DEF Counted, Numbered
<1>3. QED
  BY <1>1, <1>2 DEF Snapshot, Version

LEMMA InitWriters == Init => WriterInv
<1> SUFFICES ASSUME Init PROVE Locked /\ LockedIsNext /\ WritersKeepCurrent
  BY InitTyped, InitNumbers DEF WriterInv, NumberInv
<1>1. Locked /\ LockedIsNext
  BY DEF Init, Locked, LockedIsNext
<1>2. \A v \in versions : v.json = json
  <2>1. versions = {} \/ versions = {Version(1, json)}
    BY DEF Init
  <2>2. QED
    BY <2>1 DEF Version
<1>3. QED
  BY <1>1, <1>2 DEF WritersKeepCurrent, CurrentIsHighest, LiveVersions

LEMMA LocksKept ==
  ASSUME Typed, Locked, NEW r \in Requests, Arrive(r) \/ Serve(r)
  PROVE  Locked'
<1> USE DEF Typed, TypeOK, Served, Locked
<1>1. CASE Arrive(r)
  BY <1>1 DEF Arrive, Load, LoadForUpdate, LoadForRestore, LoadForList,
     LoadForDelete, NotFound
<1>2. CASE ReadVersion(r) \/ VersionNotFound(r) \/ ReadRows(r) \/ FlagVersions(r)
  <2>1. pc'[r] \notin {"insert", "commit"} /\ lock # r /\ lock' = lock
    BY <1>2 DEF ReadVersion, VersionNotFound, ReadRows, FlagVersions
  <2>2. CASE pc'[r] = "max"
    <3>1. ReadRows(r)
      BY <1>2, <2>2 DEF ReadVersion, VersionNotFound, FlagVersions
    <3>2. QED
      BY <2>1, <3>1 DEF ReadRows
  <2>3. CASE pc'[r] # "max"
    BY <1>2, <2>1, <2>3 DEF ReadVersion, VersionNotFound, ReadRows, FlagVersions
  <2>4. QED
    BY <2>2, <2>3
<1>3. CASE Flush(r)
  BY <1>3 DEF Flush, RowIsFree
<1>4. CASE ReadMax(r) \/ Insert(r)
  BY <1>4 DEF ReadMax, Insert
<1>5. CASE InsertFails(r)
  BY <1>5 DEF InsertFails, LockAfter
<1>6. CASE CommitVersion(r)
  BY <1>6 DEF CommitVersion, LockAfter
<1>7. CASE FlagFlow(r)
  BY <1>7 DEF FlagFlow, RowIsFree
<1>8. CASE CommitDelete(r)
  BY <1>8 DEF CommitDelete, LockAfter
<1>9. QED
  BY <1>1, <1>2, <1>3, <1>4, <1>5, <1>6, <1>7, <1>8 DEF Serve

\* What was drawn without a change stays so.
LEMMA PremiseWasTrue ==
  ASSUME Typed, NEW r \in Requests, Arrive(r) \/ Serve(r), SnapshotsAreWrites'
  PROVE  SnapshotsAreWrites
<1> SUFFICES ASSUME NEW s \in Requests, number[s] # 0 PROVE target[s] # loaded[s]
  BY DEF SnapshotsAreWrites
<1> USE DEF Typed, TypeOK, Served
<1>1. pc[s] \notin {"new", "version", "max"}
  OBVIOUS
<1>2. number'[s] = number[s] /\ target'[s] = target[s] /\ loaded'[s] = loaded[s]
  <2>1. CASE Arrive(r)
    BY <1>1, <2>1 DEF Arrive, Load, LoadForUpdate, LoadForRestore, LoadForList,
       LoadForDelete, NotFound
  <2>2. CASE ReadVersion(r)
    BY <1>1, <2>2 DEF ReadVersion
  <2>3. CASE ReadMax(r)
    BY <1>1, <2>3 DEF ReadMax
  <2>4. CASE \/ VersionNotFound(r) \/ Flush(r) \/ ReadRows(r) \/ Insert(r)
             \/ InsertFails(r) \/ CommitVersion(r) \/ FlagVersions(r)
             \/ FlagFlow(r) \/ CommitDelete(r)
    BY <2>4 DEF VersionNotFound, Flush, ReadRows, Insert, InsertFails, CommitVersion,
       FlagVersions, FlagFlow, CommitDelete
  <2>5. QED
    BY <2>1, <2>2, <2>3, <2>4 DEF Serve
<1>3. QED
  BY <1>2 DEF SnapshotsAreWrites

\* The heart of it: who inserts has the lock, so it has drawn its number from the
\* versions its commit adds to.
LEMMA HighestIsCurrent ==
  ASSUME NumberInv, Locked, LockedIsNext, CurrentIsHighest, SnapshotsAreWrites,
         NEW r \in Requests, Arrive(r) \/ Serve(r)
  PROVE  CurrentIsHighest'
<1>1. CASE UNCHANGED <<json, gone, versions>>
  BY <1>1 DEF CurrentIsHighest, LiveVersions
<1>2. CASE CommitDelete(r)
  BY <1>2 DEF CommitDelete, CurrentIsHighest
<1>3. CASE CommitVersion(r)
  <2> DEFINE new == Version(number[r], target[r])
  <2>1. number[r] \in Nat /\ number[r] # 0
    BY <1>3, CommitsNew
  <2>2. target[r] # loaded[r] /\ pc[r] = "commit" /\ kind[r] # "delete"
    BY <1>3, <2>1 DEF CommitVersion, SnapshotsAreWrites
  <2>3. lock = r
    BY <2>2 DEF Locked
  <2>4. json' = target[r] /\ versions' = versions \cup {new}
    BY <1>3, <2>3 DEF CommitVersion, Written, Snapshot
  <2>5. \A v \in LiveVersions : v.num < number[r] /\ v.num \in Nat
    BY <2>2, <2>3 DEF LockedIsNext, Inserting, LiveVersions, NumberInv, Typed, TypeOK
  <2>6. new \in LiveVersions' /\ new.num = number[r] /\ new.json = target[r]
    BY <2>4 DEF LiveVersions, Version
  <2>7. \A v \in LiveVersions' : v = new \/ v \in LiveVersions
    BY <2>4 DEF LiveVersions
  <2> HIDE DEF new
  <2>8. QED
    BY <2>1, <2>4, <2>5, <2>6, <2>7 DEF CurrentIsHighest
<1>4. QED
  BY <1>1, <1>2, <1>3, OnlyCommits

LEMMA LockKeepsNext ==
  ASSUME NumberInv, Locked, LockedIsNext, SnapshotsAreWrites,
         NEW r \in Requests, Arrive(r) \/ Serve(r)
  PROVE  LockedIsNext'
<1> USE DEF NumberInv, Typed, TypeOK, Served, Inserting
<1>1. CASE CommitVersion(r)
  <2>1. number[r] # 0
    BY <1>1, CommitsNew
  <2>2. lock = r
    BY <1>1, <2>1 DEF CommitVersion, SnapshotsAreWrites, Locked
  <2>3. lock' = None
    BY <1>1, <2>2 DEF CommitVersion, LockAfter
  <2>4. QED
    BY <2>3 DEF LockedIsNext
<1>2. CASE CommitDelete(r)
  <2>1. lock' = None
    BY <1>2 DEF CommitDelete, LockAfter, Locked
  <2>2. QED
    BY <2>1 DEF LockedIsNext
<1>3. CASE ReadMax(r)
  <2>1. \A v \in LiveVersions : v.num < NextNumber
    BY NextIsAbove
  <2>2. QED
    BY <1>3, <2>1 DEF ReadMax, LockedIsNext, LiveVersions
<1>4. CASE Arrive(r)
  BY <1>4 DEF Arrive, Load, LoadForUpdate, LoadForRestore, LoadForList,
     LoadForDelete, NotFound, LockedIsNext, LiveVersions, Locked
<1>5. CASE Flush(r) \/ FlagFlow(r)
  BY <1>5 DEF Flush, FlagFlow, LockedIsNext, LiveVersions
<1>6. CASE ReadVersion(r) \/ VersionNotFound(r) \/ ReadRows(r) \/ FlagVersions(r)
  BY <1>6 DEF ReadVersion, VersionNotFound, ReadRows, FlagVersions, LockedIsNext,
     LiveVersions
<1>7. CASE Insert(r)
  BY <1>7 DEF Insert, LockedIsNext, LiveVersions
<1>8. CASE InsertFails(r)
  BY <1>8 DEF InsertFails, LockAfter, LockedIsNext, LiveVersions
<1>9. QED
  BY <1>1, <1>2, <1>3, <1>4, <1>5, <1>6, <1>7, <1>8 DEF Serve

LEMMA StepWriters ==
  ASSUME WriterInv, [Next]_vars
  PROVE  WriterInv'
<1> USE DEF WriterInv
<1>1. CASE UNCHANGED vars
  BY <1>1, StutterNumbers DEF Locked, LockedIsNext, SnapshotsAreWrites, Inserting,
     WritersKeepCurrent, CurrentIsHighest, LiveVersions, vars
<1>2. ASSUME NEW r \in Requests, Arrive(r) \/ Serve(r)
      PROVE  WriterInv'
  <2>1. NumberInv'
    BY <1>2, ArriveTyped, ArriveNumbers, ServeTyped, ServeNumbers DEF NumberInv
  <2>2. Locked'
    BY <1>2, LocksKept DEF NumberInv
  <2>3. ASSUME SnapshotsAreWrites' PROVE LockedIsNext' /\ CurrentIsHighest'
    <3>1. SnapshotsAreWrites
      BY <1>2, <2>3, PremiseWasTrue DEF NumberInv
    <3>2. CurrentIsHighest
      BY <3>1 DEF WritersKeepCurrent
    <3>3. QED
      BY <1>2, <3>1, <3>2, HighestIsCurrent, LockKeepsNext
  <2>4. QED
    BY <2>1, <2>2, <2>3 DEF WritersKeepCurrent
<1>3. QED
  BY <1>1, <1>2 DEF Next

\* As long as everybody changes what was loaded, the highest version is what the
\* flow holds: the lock that an UPDATE takes is enough.
THEOREM LockIsEnough == Spec => []WritersKeepCurrent
<1>1. WriterInv => WritersKeepCurrent
  BY DEF WriterInv
<1>2. QED
  BY <1>1, InitWriters, StepWriters, PTL DEF Spec

-----------------------------------------------------------------------------
(* The contract.                                                           *)

\* Whoever has loaded the flow leaves a trace of what it holds, so that a commit
\* forgets no content.
Traces ==
  /\ \A r \in Requests : pc[r] = "new" => loaded[r] = None
  /\ \A r \in Requests : loaded[r] # None =>
       json \in {loaded[s] : s \in Requests} \cup {v.json : v \in versions}

HistoryInv == WriterInv /\ Traces

\* The chain has the content of each version at its number.
ChainOfVersions ==
  /\ Cardinality(versions) \in Nat
  /\ {v.num : v \in versions} = 1 .. Cardinality(versions)
  /\ Chain \in Seq(Jsons) /\ Len(Chain) = Cardinality(versions)
  /\ \A v \in versions : v.num \in 1 .. Cardinality(versions) /\ Chain[v.num] = v.json

LEMMA ChainIs == NumberInv => ChainOfVersions
<1> SUFFICES ASSUME NumberInv PROVE ChainOfVersions
  OBVIOUS
<1> USE DEF NumberInv, Counted, Numbered
<1>1. Cardinality(versions) \in Nat
  BY VersionsAreCounted
<1>2. ASSUME NEW n \in 1 .. Cardinality(versions)
      PROVE  \E v \in versions : v.num = n
  BY <1>2
<1>3. \A v \in versions : v.num \in 1 .. Cardinality(versions)
  OBVIOUS
<1>4. \A v \in versions : (CHOOSE u \in versions : u.num = v.num) = v
  OBVIOUS
<1>5. \A v \in versions : v.json \in Jsons
  BY DEF Typed, TypeOK
<1>6. \A n \in 1 .. Cardinality(versions) : Chain[n] \in Jsons
  BY <1>2, <1>4, <1>5 DEF Chain
<1>7. Chain \in Seq(Jsons) /\ Len(Chain) = Cardinality(versions)
  <2>1. Chain \in [1 .. Cardinality(versions) -> Jsons]
    BY <1>6 DEF Chain
  <2>2. QED
    BY <1>1, <2>1
<1>8. \A v \in versions : Chain[v.num] = v.json
  BY <1>3, <1>4 DEF Chain
<1>9. QED
  BY <1>1, <1>3, <1>7, <1>8 DEF ChainOfVersions

LEMMA ChainIsNext == NumberInv' => ChainOfVersions'
BY ChainIs, PTL

\* A version adds its content at the end of the chain.
LEMMA CommitAppends ==
  ASSUME NumberInv, NEW r \in Requests, CommitVersion(r)
  PROVE  /\ Chain' = Append(Chain, target[r])
         /\ versions' = versions \cup {Version(number[r], target[r])}
         /\ target[r] \in Jsons /\ loaded[r] \in Jsons
<1> DEFINE N == Cardinality(versions)
           new == Version(number[r], target[r])
<1>1. NumberInv'
  BY ServeTyped, ServeNumbers DEF Serve, NumberInv
<1>2. /\ Chain \in Seq(Jsons) /\ Len(Chain) = N /\ N \in Nat
      /\ \A v \in versions : v.num \in 1 .. N /\ Chain[v.num] = v.json
  BY ChainIs DEF ChainOfVersions
<1>3. /\ Chain' \in Seq(Jsons) /\ Len(Chain') = Cardinality(versions')
      /\ \A v \in versions' : Chain'[v.num] = v.json
  BY <1>1, ChainIsNext DEF ChainOfVersions
<1>4. number[r] = N + 1
  BY DEF NumberInv, Drawn, Inserting, CommitVersion
<1>5. versions' = versions \cup {new}
  BY DEF CommitVersion, Snapshot
<1>6. target[r] \in Jsons /\ loaded[r] \in Jsons
  BY DEF NumberInv, Typed, Served, CommitVersion
<1>7. new.num = N + 1 /\ new.json = target[r]
  BY <1>4 DEF Version
<1>8. new \notin versions
  BY <1>2, <1>7
<1> HIDE DEF new
<1>9. Cardinality(versions') = N + 1
  BY <1>2, <1>5, <1>8, FS_AddElement DEF NumberInv, Counted
<1>10. Chain'[N + 1] = target[r]
  BY <1>3, <1>5, <1>7
<1>11. ASSUME NEW n \in 1 .. N PROVE Chain'[n] = Chain[n]
  <2>1. PICK v \in versions : v.num = n
    BY <1>11 DEF NumberInv, Counted, Numbered
  <2>2. QED
    BY <1>2, <1>3, <1>5, <2>1
<1>12. Chain' = Append(Chain, target[r])
  <2>1. Append(Chain, target[r]) \in Seq(Jsons) /\ Len(Append(Chain, target[r])) = N + 1
    BY <1>2, <1>6
  <2>2. \A n \in 1 .. N + 1 : Append(Chain, target[r])[n] = Chain'[n]
    BY <1>2, <1>6, <1>10, <1>11
  <2>3. QED
    BY <1>2, <1>3, <1>9, <2>1, <2>2
<1>13. QED
  BY <1>5, <1>6, <1>12 DEF new

\* A delete hides versions, and changes none of them.
LEMMA DeleteKeepsChain ==
  ASSUME NumberInv, NEW r \in Requests, CommitDelete(r)
  PROVE  Chain' = Chain /\ {v.json : v \in versions'} = {v.json : v \in versions}
<1> DEFINE Left(v) == [v EXCEPT !.live = @ /\ v.num \notin flagged[r]]
<1>1. NumberInv'
  BY ServeTyped, ServeNumbers DEF Serve, NumberInv
<1>2. versions' = {Left(v) : v \in versions}
  BY DEF CommitDelete
<1>3. \A v \in versions : Left(v).num = v.num /\ Left(v).json = v.json
  BY DEF NumberInv, Typed, TypeOK
<1> HIDE DEF Left
<1>4. {v.json : v \in versions'} = {v.json : v \in versions}
  BY <1>2, <1>3
<1>5. /\ Chain \in Seq(Jsons) /\ Len(Chain) = Cardinality(versions)
      /\ Cardinality(versions) \in Nat
      /\ \A v \in versions : Chain[v.num] = v.json
  BY ChainIs DEF ChainOfVersions
<1>6. /\ Chain' \in Seq(Jsons) /\ Len(Chain') = Cardinality(versions')
      /\ \A v \in versions' : Chain'[v.num] = v.json
  BY <1>1, ChainIsNext DEF ChainOfVersions
<1>7. Cardinality(versions') = Cardinality(versions)
  <2>1. {v.num : v \in versions'} = {v.num : v \in versions}
    BY <1>2, <1>3
  <2>2. 1 .. Cardinality(versions') = 1 .. Cardinality(versions)
    BY <1>1, <2>1, ChainIs, ChainIsNext DEF ChainOfVersions
  <2>3. Cardinality(versions') \in Nat
    BY <1>1, ChainIsNext DEF ChainOfVersions
  <2>4. QED
    BY <1>5, <2>2, <2>3
<1>8. ASSUME NEW n \in 1 .. Cardinality(versions) PROVE Chain'[n] = Chain[n]
  <2>1. PICK v \in versions : v.num = n
    BY <1>8 DEF NumberInv, Counted, Numbered
  <2>2. QED
    BY <1>2, <1>3, <1>5, <1>6, <2>1
<1>9. QED
  BY <1>4, <1>5, <1>6, <1>7, <1>8

LEMMA InitHistory == Init => HistoryInv /\ Contract!Init
<1> SUFFICES ASSUME Init PROVE Traces /\ Contract!Init
  BY InitWriters DEF HistoryInv
<1>1. Traces
  BY DEF Init, Traces
<1>2. NumberInv
  BY InitTyped, InitNumbers DEF NumberInv
<1>3. Past = {json}
  <2>1. \A v \in versions : v.json = json
    <3>1. versions = {} \/ versions = {Version(1, json)}
      BY DEF Init
    <3>2. QED
      BY <3>1 DEF Version
  <2>2. QED
    BY <2>1 DEF Init, Past
<1>4. Chain \in {<<>>, <<json>>}
  <2>1. /\ Chain \in Seq(Jsons) /\ Len(Chain) = Cardinality(versions)
        /\ \A v \in versions : Chain[v.num] = v.json
    BY <1>2, ChainIs DEF ChainOfVersions
  <2>2. CASE versions = {}
    BY <2>1, <2>2, FS_EmptySet
  <2>3. CASE versions = {Version(1, json)}
    <3>1. Cardinality(versions) = 1
      BY <2>3, FS_Singleton
    <3>2. Chain[1] = json
      BY <2>1, <2>3 DEF Version
    <3>3. QED
      BY <2>1, <3>1, <3>2
  <2>4. QED
    BY <2>2, <2>3 DEF Init
<1>5. json \in Jsons /\ gone = FALSE
  BY DEF Init
<1>6. QED
  BY <1>1, <1>3, <1>4, <1>5 DEF Contract!Init

\* A request that loads leaves its trace, and so does the version of a commit.
LEMMA TracesKept ==
  ASSUME NumberInv, Traces, NEW r \in Requests, Arrive(r) \/ Serve(r)
  PROVE  Traces'
<1> USE DEF NumberInv, Typed, TypeOK, Traces
<1>1. CASE Arrive(r)
  BY <1>1 DEF Arrive, Load, LoadForUpdate, LoadForRestore, LoadForList,
     LoadForDelete, NotFound
<1>2. ASSUME Serve(r) PROVE loaded' = loaded /\ \A s \in Requests : pc'[s] = "new" => pc[s] = "new"
  BY <1>2 DEF Serve, ReadVersion, VersionNotFound, Flush, ReadRows, ReadMax, Insert,
     InsertFails, CommitVersion, FlagVersions, FlagFlow, CommitDelete
<1>3. CASE CommitVersion(r)
  <2>1. Version(number[r], target[r]) \in versions'
    BY <1>3, CommitsNew
  <2>2. Version(number[r], target[r]).json = target[r]
    BY DEF Version
  <2>3. json' = target[r] \/ json' = json
    BY <1>3 DEF CommitVersion, Written
  <2>4. versions \subseteq versions'
    BY <1>3, CommitAppends
  <2>5. json' = target[r] => json' \in {v.json : v \in versions'}
    BY <2>1, <2>2
  <2>6. {v.json : v \in versions} \subseteq {v.json : v \in versions'}
    BY <2>4
  <2>7. Serve(r)
    BY <1>3 DEF Serve
  <2>8. QED
    BY <1>2, <2>3, <2>5, <2>6, <2>7
<1>4. CASE CommitDelete(r)
  <2>1. json' = json
    BY <1>4 DEF CommitDelete
  <2>2. Serve(r)
    BY <1>4 DEF Serve
  <2>3. {v.json : v \in versions'} = {v.json : v \in versions}
    BY <1>4, DeleteKeepsChain
  <2>4. QED
    BY <1>2, <2>1, <2>2, <2>3
<1>5. CASE Serve(r) /\ UNCHANGED <<json, gone, versions>>
  BY <1>2, <1>5
<1>6. QED
  BY <1>1, <1>3, <1>4, <1>5, OnlyCommits

\* Before a commit the flow has had its content as long as anybody who took part.
LEMMA PastKept ==
  ASSUME NumberInv, Traces, NEW r \in Requests, Arrive(r) \/ Serve(r),
         UNCHANGED <<json, versions>>
  PROVE  Past' = Past
<1> USE DEF NumberInv, Typed, TypeOK
<1>1. CASE Arrive(r)
  <2>1. \/ loaded' = loaded
        \/ loaded[r] = None /\ loaded' = [loaded EXCEPT ![r] = json]
    BY <1>1 DEF Arrive, Load, LoadForUpdate, LoadForRestore, LoadForList,
       LoadForDelete, NotFound, Traces
  <2>2. CASE loaded' = loaded
    BY <2>2 DEF Past
  <2>3. CASE loaded[r] = None /\ loaded' = [loaded EXCEPT ![r] = json]
    <3>1. \A s \in Requests : loaded'[s] = IF s = r THEN json ELSE loaded[s]
      BY <2>3
    <3>2. json \in Jsons /\ None \notin Jsons
      OBVIOUS
    <3>3. \A x : x \in {loaded'[s] : s \in Requests} \ {None}
                 => x = json \/ x \in {loaded[s] : s \in Requests} \ {None}
      BY <3>1
    <3>4. \A x : x \in {loaded[s] : s \in Requests} \ {None}
                 => x \in {loaded'[s] : s \in Requests} \ {None}
      BY <2>3, <3>1
    <3>5. QED
      BY <3>3, <3>4 DEF Past
  <2>4. QED
    BY <2>1, <2>2, <2>3
<1>2. CASE Serve(r)
  <2>1. loaded' = loaded
    BY <1>2 DEF Serve, ReadVersion, VersionNotFound, Flush, ReadRows, ReadMax, Insert,
     InsertFails, CommitVersion, FlagVersions, FlagFlow, CommitDelete
  <2>2. QED
    BY <2>1 DEF Past
<1>3. QED
  BY <1>1, <1>2

\* A version of a request that has changed the flow is a change; any other is of
\* what the request has loaded.
LEMMA CommitsAreSteps ==
  ASSUME NumberInv, Locked, Traces, NEW r \in Requests, CommitVersion(r)
  PROVE  Contract!Change(target[r]) \/ Contract!Snapshot(target[r])
<1> DEFINE new == Version(number[r], target[r])
           heard == {loaded[s] : s \in Requests} \ {None}
           written == {v.json : v \in versions}
<1> USE DEF NumberInv, Typed, TypeOK
<1>1. /\ Chain' = Append(Chain, target[r])
      /\ versions' = versions \cup {new}
      /\ target[r] \in Jsons /\ loaded[r] \in Jsons
  BY CommitAppends
<1>2. new.json = target[r]
  BY DEF Version
<1> HIDE DEF new
<1>3. {v.json : v \in versions'} = written \cup {target[r]}
  <2>1. \A a, b : {v.json : v \in a \cup {b}} = {v.json : v \in a} \cup {b.json}
    OBVIOUS
  <2>2. QED
    BY ONLY <1>1, <1>2, <2>1
<1>4. loaded' = loaded /\ gone' = gone /\ json' = Written(r)
  BY DEF CommitVersion
<1>5. loaded[r] \in heard /\ json \in heard \cup written
  <2>1. loaded[r] # None /\ json # None
    BY <1>1
  <2>2. QED
    BY <2>1 DEF Traces
<1>6. Past = heard \cup written
  BY <1>5 DEF Past
<1>7. Past' = {json'} \cup heard \cup written \cup {target[r]}
  BY <1>3, <1>4 DEF Past
<1>8. CASE lock = r
  <2>1. json' = target[r]
    BY <1>4, <1>8 DEF Written
  <2>2. Past' = Past \cup {target[r]}
    BY <1>6, <1>7, <2>1
  <2>3. QED
    BY <1>1, <1>4, <2>1, <2>2 DEF Contract!Change
<1>9. CASE lock # r
  <2>1. target[r] = loaded[r]
    BY <1>9 DEF CommitVersion, Locked
  <2>2. json' = json
    BY <1>4, <1>9 DEF Written
  <2>3. Past' = Past /\ target[r] \in Past
    BY <1>5, <1>6, <1>7, <2>1, <2>2
  <2>4. QED
    BY <1>1, <1>4, <2>2, <2>3 DEF Contract!Snapshot
<1>10. QED
  BY <1>8, <1>9

LEMMA StepImplements ==
  ASSUME HistoryInv, [Next]_vars
  PROVE  HistoryInv' /\ [Contract!Next]_(Contract!contractVars)
<1> USE DEF HistoryInv, WriterInv
<1>1. WriterInv'
  BY StepWriters
<1>2. CASE UNCHANGED vars
  <2>1. Traces'
    BY <1>2 DEF Traces, vars
  <2>2. Past' = Past /\ Chain' = Chain /\ UNCHANGED <<json, gone>>
    BY <1>2 DEF Past, Chain, vars
  <2>3. QED
    BY <1>1, <2>1, <2>2 DEF Contract!contractVars
<1>3. ASSUME NEW r \in Requests, Arrive(r) \/ Serve(r)
      PROVE  HistoryInv' /\ [Contract!Next]_(Contract!contractVars)
  <2>1. Traces'
    BY <1>3, TracesKept
  <2>2. CASE CommitVersion(r)
    <3>1. Contract!Change(target[r]) \/ Contract!Snapshot(target[r])
      BY <2>2, CommitsAreSteps
    <3>2. target[r] \in Jsons
      BY <2>2, CommitAppends
    <3>3. QED
      BY <1>1, <2>1, <3>1, <3>2 DEF Contract!Next
  <2>3. CASE CommitDelete(r)
    <3>1. Chain' = Chain /\ {v.json : v \in versions'} = {v.json : v \in versions}
      BY <2>3, DeleteKeepsChain
    <3>2. gone' = TRUE /\ json' = json /\ loaded' = loaded
      BY <2>3 DEF CommitDelete
    <3>3. Past' = Past
      BY <3>1, <3>2 DEF Past
    <3>4. QED
      BY <1>1, <2>1, <3>1, <3>2, <3>3 DEF Contract!Next, Contract!Delete
  <2>4. CASE UNCHANGED <<json, gone, versions>>
    <3>1. Past' = Past
      BY <1>3, <2>4, PastKept
    <3>2. Chain' = Chain
      BY <2>4 DEF Chain
    <3>3. QED
      BY <1>1, <2>1, <2>4, <3>1, <3>2 DEF Contract!contractVars
  <2>5. QED
    BY <1>3, <2>2, <2>3, <2>4, OnlyCommits
<1>4. QED
  BY <1>2, <1>3 DEF Next

\* However many requests overlap, and wherever their statements do: the content of
\* the flow and the chain of its versions change as if each commit were one step.
THEOREM ContractHolds == Spec => ImplementsContract
<1>1. Init => HistoryInv /\ Contract!Init
  BY InitHistory
<1>2. HistoryInv /\ [Next]_vars => HistoryInv' /\ [Contract!Next]_(Contract!contractVars)
  BY StepImplements
<1>3. QED
  BY <1>1, <1>2, PTL DEF Spec, ImplementsContract, Contract!Spec

-----------------------------------------------------------------------------
(* Who waits.                                                              *)

\* The guards of Serve: what the next statement of a request waits for.
CanServe(r) ==
  \/ pc[r] \in {"version", "rows", "max", "flag", "commit"}
  \/ pc[r] = "flush" /\ (target[r] = loaded[r] \/ RowIsFree)
  \/ pc[r] = "flagflow" /\ RowIsFree
  \/ /\ pc[r] = "insert"
     /\ \/ NumberTaken(number[r])
        \/ \A s \in Requests \ {r} :
             ~(pc[s] = "commit" /\ kind[s] # "delete" /\ number[s] = number[r])

\* No cycle of requests that wait for the row and for a number: while one is open
\* one can go on.
THEOREM NobodyIsStuck ==
  Spec => []((\E r \in Requests : pc[r] \notin {"new", "done"}) => \E r \in Requests : CanServe(r))
<1>1. WriterInv =>
        ((\E r \in Requests : pc[r] \notin {"new", "done"}) => \E r \in Requests : CanServe(r))
  <2> SUFFICES ASSUME WriterInv, NEW r \in Requests, pc[r] \notin {"new", "done"},
                      \A s \in Requests : ~CanServe(s)
               PROVE  FALSE
    OBVIOUS
  <2>1. \A s \in Requests : pc[s] \notin {"max", "commit"}
    BY DEF CanServe
  <2>2. \A s \in Requests : pc[s] # "insert"
    BY <2>1 DEF CanServe
  <2>3. RowIsFree
    BY <2>1, <2>2 DEF WriterInv, NumberInv, Typed, TypeOK, Locked, RowIsFree
  <2>4. QED
    BY <2>2, <2>3 DEF CanServe, WriterInv, NumberInv, Typed, TypeOK, Steps
<1>2. QED
  BY <1>1, InitWriters, StepWriters, PTL DEF Spec

-----------------------------------------------------------------------------
(* How much is left to do.                                                 *)

\* The statements that a request may still execute.
StepsLeft(r) ==
  CASE pc[r] = "done" -> 0
    [] pc[r] = "commit" -> 1
    [] pc[r] \in {"insert", "flagflow"} -> 2
    [] pc[r] \in {"max", "flag"} -> 3
    [] pc[r] \in {"flush", "rows"} -> 4
    [] pc[r] = "version" -> 5
    [] pc[r] = "new" -> 6

\* Every step is one of some request, which has less to do afterwards, and gives the
\* others nothing to do again: a clash on a number ends a request, it never retries.
RequestsCountDown ==
  [][\E r \in Requests :
       /\ StepsLeft(r)' < StepsLeft(r)
       /\ \A s \in Requests \ {r} : StepsLeft(s)' = StepsLeft(s)]_vars

\* All requests come to their end after at most six steps each, as one of them can
\* always go on (NobodyIsStuck).
THEOREM RequestsAreFinite ==
  Spec => [](\A r \in Requests : StepsLeft(r) \in 0 .. 6) /\ RequestsCountDown
<1> DEFINE Down ==
      \E r \in Requests :
        /\ StepsLeft(r)' < StepsLeft(r)
        /\ \A s \in Requests \ {r} : StepsLeft(s)' = StepsLeft(s)
           Bound == \A r \in Requests : StepsLeft(r) \in 0 .. 6
<1>1. NumberInv => Bound
  BY DEF NumberInv, Typed, TypeOK, Steps, StepsLeft
<1>2. NumberInv /\ [Next]_vars => [Down]_vars
  <2> SUFFICES ASSUME NumberInv, NEW r \in Requests, Arrive(r) \/ Serve(r)
               PROVE  Down
    BY DEF Next
  <2>1. pc \in [Requests -> Steps]
    BY DEF NumberInv, Typed, TypeOK
  <2>2. \E step \in Steps :
          /\ pc' = [pc EXCEPT ![r] = step]
          /\ \/ pc[r] = "new" /\ step # "new"
             \/ pc[r] = "version" /\ step \in {"flush", "done"}
             \/ pc[r] \in {"flush", "rows"} /\ step \in {"max", "done"}
             \/ pc[r] = "max" /\ step = "insert"
             \/ pc[r] = "flag" /\ step = "flagflow"
             \/ pc[r] \in {"insert", "flagflow"} /\ step \in {"commit", "done"}
             \/ pc[r] = "commit" /\ step = "done"
    <3>1. CASE Arrive(r)
      BY <3>1 DEF Arrive, LoadForUpdate, LoadForRestore, LoadForList, LoadForDelete,
         NotFound, Load, Steps
    <3>2. CASE ReadVersion(r) \/ VersionNotFound(r) \/ Flush(r) \/ ReadRows(r) \/ ReadMax(r)
      BY <3>2 DEF ReadVersion, VersionNotFound, Flush, ReadRows, ReadMax, Steps
    <3>3. CASE \/ Insert(r) \/ InsertFails(r) \/ CommitVersion(r)
               \/ FlagVersions(r) \/ FlagFlow(r) \/ CommitDelete(r)
      BY <3>3 DEF Insert, InsertFails, CommitVersion, FlagVersions, FlagFlow, CommitDelete,
         Steps
    <3>4. QED
      BY <3>1, <3>2, <3>3 DEF Serve
  <2>3. StepsLeft(r)' < StepsLeft(r)
    BY <2>1, <2>2 DEF StepsLeft, Steps
  <2>4. \A s \in Requests \ {r} : StepsLeft(s)' = StepsLeft(s)
    BY <2>1, <2>2 DEF StepsLeft
  <2>5. QED
    BY <2>3, <2>4
<1>3. QED
  BY <1>1, <1>2, AlwaysNumberInv, PTL DEF Spec, RequestsCountDown
=============================================================================
