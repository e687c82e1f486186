---------------------------- MODULE Reading_proofs ----------------------------
(***************************************************************************)
(* Proofs about Access and Reading for every set of callers, keys,         *)
(* conversations and page sizes: requests follow the rotation of the keys, *)
(* listings miss nothing and details are current.                          *)
(***************************************************************************)
EXTENDS Reading, FiniteSetTheorems, WellFoundedInduction, TLAPS

USE AccessAssumption, ReadingAssumption

-----------------------------------------------------------------------------
(* The keys.                                                               *)

\* The kept keys differ from the published ones only in keys that changed since
\* they were fetched.
KeptKeys == held =>
  /\ fetchedAt <= clock
  /\ \A k \in Keys : ~(k \in keys <=> k \in published) => changed[k] >= fetchedAt

KeysInv == AccessTypeOK /\ KeptKeys

LEMMA KeysInit == AccessInit => KeysInv
<1> SUFFICES ASSUME AccessInit PROVE KeysInv
  OBVIOUS
<1>1. AccessTypeOK
  BY DEF AccessInit, AccessTypeOK
<1>2. KeptKeys
  <2>1. ~held
    BY Zenon DEF AccessInit
  <2>2. QED
    BY <2>1, Zenon DEF KeptKeys
<1>3. QED
  BY <1>1, <1>2 DEF KeysInv

\* What asking Supabase leaves behind.
LEMMA FetchKeeps ==
  ASSUME KeysInv, NEW r \in Callers, NEW up \in BOOLEAN, FetchJwks(r, up),
         UNCHANGED <<clock, published, changed, token>>,
         users' \subseteq Callers,
         access' \in [Callers -> {"out", "refused", "resolve", "in"}]
  PROVE  KeysInv'
BY DEF KeysInv, AccessTypeOK, KeptKeys, FetchJwks, FetchedAt, Fetches

LEMMA KeysStep ==
  ASSUME KeysInv, AccessStep
  PROVE  KeysInv'
<1>1. CASE Tick
  BY <1>1 DEF Tick, KeysInv, AccessTypeOK, KeptKeys
<1>2. CASE \E k \in Keys : Rotate(k)
  BY <1>2 DEF Rotate, KeysInv, AccessTypeOK, KeptKeys
<1>3. ASSUME NEW r \in Callers, NEW up \in BOOLEAN, Authenticate(r, up)
      PROVE  KeysInv'
  <2>1. access' \in [Callers -> {"out", "refused", "resolve", "in"}] /\ users' \subseteq Callers
    BY <1>3 DEF Authenticate, KeysInv, AccessTypeOK
  <2>2. QED
    BY <1>3, <2>1, FetchKeeps DEF Authenticate
<1>4. ASSUME NEW r \in Callers, NEW up \in BOOLEAN, ResolveOrg(r, up)
      PROVE  KeysInv'
  BY <1>4 DEF ResolveOrg, KeysInv, AccessTypeOK, KeptKeys
<1>5. ASSUME NEW r \in Callers, NEW up \in BOOLEAN, Bootstrap(r, up)
      PROVE  KeysInv'
  <2>1. access' \in [Callers -> {"out", "refused", "resolve", "in"}] /\ users' \subseteq Callers
    BY <1>5 DEF Bootstrap, KeysInv, AccessTypeOK
  <2>2. QED
    BY <1>5, <2>1, FetchKeeps DEF Bootstrap
<1>6. QED
  BY <1>1, <1>2, <1>3, <1>4, <1>5 DEF AccessStep

LEMMA KeysLeave ==
  ASSUME KeysInv, NEW r \in Callers, Leave(r)
  PROVE  KeysInv'
BY DEF Leave, KeysInv, AccessTypeOK, KeptKeys

LEMMA KeysStutter ==
  ASSUME KeysInv, UNCHANGED accessVars
  PROVE  KeysInv'
BY DEF accessVars, KeysInv, AccessTypeOK, KeptKeys

\* Whatever a caller does, the access variables take a step of Access, a caller
\* leaves, or they stay.
LEMMA NextAccess ==
  ASSUME [Next]_vars
  PROVE  AccessStep \/ (\E r \in Callers : Leave(r)) \/ UNCHANGED accessVars
<1>1. CASE Entering
  BY <1>1 DEF Entering
<1>2. CASE Writers
  BY <1>2 DEF Writers, StoreConversation, DeleteConversation, JudgeConversation,
              DeleteUpload, DeleteProject, Delete
<1>3. ASSUME NEW r \in Callers, Caller(r)
      PROVE  Leave(r) \/ UNCHANGED accessVars
  BY <1>3 DEF Caller, Begin, NotFound, FindProject, ReadPage, ReadUploads, ReadGrouped,
              FindConversation, ReadMessages, ReadEvaluation, ReadVerdicts, Retry, Close
<1>4. CASE UNCHANGED vars
  BY <1>4 DEF vars
<1>5. QED
  BY <1>1, <1>2, <1>3, <1>4 DEF Next

\* One step of a request that is let in or turned away.
LEMMA KeysDecide ==
  ASSUME KeysInv, [Next]_vars, NEW r \in Callers,
         access[r] = "out", UsesJwks(r)
  PROVE  LET k == token[r].key
         IN  /\ access'[r] \in {"resolve", "in"} => k \in published \/ ChangedLately(k)
             /\ access'[r] = "refused" /\ IsFresh' => k \notin published \/ ChangedLately(k)
<1> DEFINE k == token[r].key
<1>1. k \in Keys
  BY DEF UsesJwks, KeysInv, AccessTypeOK
<1>2. CASE \E up \in BOOLEAN : Authenticate(r, up)
  <2> PICK up \in BOOLEAN : Authenticate(r, up)
    BY <1>2
  <2> USE DEF Authenticate, FetchJwks, FetchedAt, Fetches, KeysInv, AccessTypeOK, KeptKeys,
              ChangedLately
  <2>1. CASE IsFresh
    BY <1>1, <2>1 DEF IsVerified, IsFresh
  <2>2. CASE ~IsFresh /\ up
    BY <1>1, <2>2 DEF IsVerified
  <2>3. CASE ~IsFresh /\ ~up
    BY <1>1, <2>3 DEF IsVerified, IsFresh
  <2>4. QED
    BY <2>1, <2>2, <2>3
<1>3. CASE ~\E up \in BOOLEAN : Authenticate(r, up)
  <2>1. access'[r] = "out"
    <3>1. CASE AccessStep
      BY <1>3, <3>1 DEF AccessStep, Tick, Rotate, Authenticate, ResolveOrg, Bootstrap,
                        KeysInv, AccessTypeOK
    <3>2. CASE \E q \in Callers : Leave(q)
      BY <3>2 DEF Leave, KeysInv, AccessTypeOK
    <3>3. CASE UNCHANGED accessVars
      BY <3>3 DEF accessVars
    <3>4. QED
      BY <3>1, <3>2, <3>3, NextAccess
  <2>2. QED
    BY <2>1
<1>4. QED
  BY <1>2, <1>3

LEMMA KeysNext == KeysInv /\ [Next]_vars => KeysInv'
BY NextAccess, KeysStep, KeysLeave, KeysStutter

\* Requests follow the rotation of the keys, for any cache life, clock and sets.
THEOREM KeysRotate == Spec => KeysFollowRotation
<1> DEFINE Decides == \A r \in Callers :
             LET k == token[r].key
             IN  access[r] = "out" /\ UsesJwks(r) =>
                   /\ access'[r] \in {"resolve", "in"} => k \in published \/ ChangedLately(k)
                   /\ access'[r] = "refused" /\ IsFresh' => k \notin published \/ ChangedLately(k)
<1>1. Init => KeysInv
  BY KeysInit DEF Init
<1>2. KeysInv /\ [Next]_vars => KeysInv'
  BY KeysNext
<1>3. KeysInv /\ [Next]_vars => [Decides]_accessVars
  BY KeysDecide
<1>4. QED
  BY <1>1, <1>2, <1>3, PTL DEF Spec, KeysFollowRotation
-----------------------------------------------------------------------------
(* The highest and the lowest of a set of numbers, and a page of it.       *)

LEMMA LowestExists ==
  ASSUME NEW S, S \subseteq Nat, S # {}
  PROVE  Lowest(S) \in S /\ \A d \in S : Lowest(S) <= d
<1>1. PICK c \in S : \A d \in S : <<d, c>> \notin OpToRel(<, Nat)
  BY NatLessThanWellFounded, WFMin
<1>2. \A d \in S : c <= d
  <2> TAKE d \in S
  <2>1. ~(d < c)
    BY <1>1, Zenon DEF OpToRel
  <2>2. QED
    BY <2>1
<1>3. QED
  BY <1>2 DEF Lowest

\* Nothing of a finite set is above its highest number.
LEMMA HighestExists ==
  ASSUME NEW S, S \subseteq Nat, IsFiniteSet(S), S # {}
  PROVE  \E c \in S : \A d \in S : d <= c
<1> DEFINE Above(c) == {d \in S : d > c}
           Counts == {Cardinality(Above(c)) : c \in S}
<1>1. \A c \in S : IsFiniteSet(Above(c)) /\ Cardinality(Above(c)) \in Nat
  <2> TAKE c \in S
  <2>1. Above(c) \in SUBSET S
    OBVIOUS
  <2>2. IsFiniteSet(Above(c))
    BY <2>1, FS_Subset
  <2>3. QED
    BY <2>2, FS_CardinalityType
<1>2. Counts \subseteq Nat /\ Counts # {}
  <2> HIDE DEF Above
  <2>1. ASSUME NEW k \in Counts
        PROVE  k \in Nat
    BY <1>1
  <2>2. PICK c : c \in S
    OBVIOUS
  <2>3. Cardinality(Above(c)) \in Counts
    BY <2>2
  <2>4. QED
    BY <2>1, <2>3
<1>3. PICK c \in S : \A d \in S : Cardinality(Above(c)) <= Cardinality(Above(d))
  <2> HIDE DEF Above
  <2>1. Lowest(Counts) \in Counts /\ \A k \in Counts : Lowest(Counts) <= k
    <3> HIDE DEF Counts
    <3>1. QED
      BY <1>2, LowestExists
  <2>2. PICK c \in S : Lowest(Counts) = Cardinality(Above(c))
    BY <2>1
  <2>3. \A d \in S : Cardinality(Above(d)) \in Counts
    OBVIOUS
  <2>4. QED
    <3> HIDE DEF Counts
    <3>1. QED
      BY <2>1, <2>2, <2>3
<1>4. ASSUME NEW d \in S, d > c
      PROVE  FALSE
  <2>1. /\ Above(d) \in SUBSET Above(c)
        /\ d \in Above(c)
        /\ d \notin Above(d)
    <3>1. d \in Nat /\ c \in Nat /\ d > c
      BY <1>4
    <3>2. ASSUME NEW e \in Above(d)
          PROVE  e \in Above(c)
      <4>1. e \in S /\ e \in Nat /\ e > d
        OBVIOUS
      <4>2. QED
        BY <3>1, <4>1
    <3>3. d \in Above(c)
      BY <3>1
    <3>4. d \notin Above(d)
      BY <3>1
    <3>5. QED
      BY <3>2, <3>3, <3>4
  <2>2. Cardinality(Above(d)) <= Cardinality(Above(c)) /\ Cardinality(Above(d)) # Cardinality(Above(c))
    <3> HIDE DEF Above
    <3>1. IsFiniteSet(Above(c)) /\ Above(d) \in SUBSET Above(c) /\ Above(d) # Above(c)
      BY <1>1, <2>1
    <3>2. QED
      BY <3>1, FS_Subset
  <2>3. Cardinality(Above(c)) <= Cardinality(Above(d))
    BY <1>3
  <2>4. QED
    <3> HIDE DEF Above
    <3>1. Cardinality(Above(c)) \in Nat /\ Cardinality(Above(d)) \in Nat
      BY <1>1
    <3>2. QED
      BY <2>2, <2>3, <3>1
<1>5. \A d \in S : d <= c
  BY <1>4
<1>6. QED
  BY <1>5

\* A page is what its lowest row and the rows above it are.
LEMMA PageIsUpper ==
  ASSUME NEW S, S \subseteq Nat, IsFiniteSet(S), NEW n \in Nat \ {0}, HasMore(S, n)
  PROVE  LET l == NextCursor(S, n)
         IN  l \in S /\ \A c \in S : c \in Top(S, n) <=> c >= l
<1> DEFINE Above(c) == {d \in S : d > c}
           l == NextCursor(S, n)
<1>1. \A c \in S : IsFiniteSet(Above(c)) /\ Cardinality(Above(c)) \in Nat
  <2> TAKE c \in S
  <2>1. Above(c) \in SUBSET S
    OBVIOUS
  <2>2. IsFiniteSet(Above(c))
    BY <2>1, FS_Subset
  <2>3. QED
    BY <2>2, FS_CardinalityType
<1>2. S # {}
  BY FS_EmptySet DEF HasMore
<1>3. PICK h \in S : \A d \in S : d <= h
  BY <1>2, HighestExists
<1>4. h \in Top(S, n)
  <2>1. Above(h) = {}
    <3>1. ASSUME NEW e \in Above(h)
          PROVE  FALSE
      <4>1. e \in Nat /\ h \in Nat /\ e > h /\ e <= h
        BY <1>3
      <4>2. QED
        BY <4>1
    <3>2. QED
      BY <3>1
  <2>2. QED
    BY <2>1, FS_EmptySet DEF Top
<1>5. Top(S, n) \subseteq S
  BY DEF Top
<1>6. l \in Top(S, n) /\ \A c \in Top(S, n) : l <= c
  <2>1. Top(S, n) \subseteq Nat /\ Top(S, n) # {}
    BY <1>4, <1>5
  <2>2. QED
    BY <2>1, LowestExists DEF NextCursor
<1>7. ASSUME NEW c \in S, c >= l
      PROVE  c \in Top(S, n)
  <2> HIDE DEF l
  <2>1. l \in S /\ Cardinality(Above(l)) < n
    BY <1>5, <1>6 DEF Top
  <2>2. Above(c) \in SUBSET Above(l)
    <3>1. c \in Nat /\ l \in Nat /\ c >= l
      BY <1>7, <2>1
    <3>2. ASSUME NEW e \in Above(c)
          PROVE  e \in Above(l)
      <4>1. e \in S /\ e \in Nat /\ e > c
        OBVIOUS
      <4>2. QED
        BY <3>1, <4>1
    <3>3. QED
      BY <3>2
  <2>3. Cardinality(Above(c)) <= Cardinality(Above(l))
    <3> HIDE DEF Above
    <3>1. IsFiniteSet(Above(l))
      BY <1>1, <2>1
    <3>2. QED
      BY <2>2, <3>1, FS_Subset
  <2>4. Cardinality(Above(c)) < n
    <3> HIDE DEF Above
    <3>1. Cardinality(Above(c)) \in Nat /\ Cardinality(Above(l)) \in Nat
      BY <1>1, <2>1
    <3>2. QED
      BY <2>1, <2>3, <3>1
  <2>5. QED
    BY <2>4 DEF Top
<1>8. QED
  BY <1>5, <1>6, <1>7

\* The last page is everything that is left.
LEMMA LastPage ==
  ASSUME NEW S, S \subseteq Nat, IsFiniteSet(S), NEW n \in Nat \ {0}, ~HasMore(S, n)
  PROVE  Top(S, n) = S
<1> SUFFICES ASSUME NEW c \in S
             PROVE  Cardinality({d \in S : d > c}) < n
  BY DEF Top
<1> DEFINE Above == {d \in S : d > c}
<1>1. Above \in SUBSET S /\ c \notin Above /\ c \in S
  OBVIOUS
<1> HIDE DEF Above
<1>2. IsFiniteSet(Above) /\ Cardinality(Above) <= Cardinality(S) /\ Cardinality(Above) # Cardinality(S)
  BY <1>1, FS_Subset
<1>3. Cardinality(Above) \in Nat /\ Cardinality(S) \in Nat
  BY <1>2, FS_CardinalityType
<1>4. Cardinality(S) <= n
  BY <1>3 DEF HasMore
<1>5. Cardinality(Above) < n
  BY <1>2, <1>3, <1>4
<1>6. QED
  BY <1>5 DEF Above
\* The verdict a message shows is the latest of those it has.
LEMMA ShownIsLatest ==
  ASSUME NEW c, NEW i, JudgedBy(c, i) # {}
  PROVE  /\ Shown(JudgedBy(c, i)) \in JudgedBy(c, i)
         /\ Shown(JudgedBy(c, i)) \in Audits
         /\ \A a \in JudgedBy(c, i) : Shown(JudgedBy(c, i)) >= a
<1> DEFINE S == JudgedBy(c, i)
<1>1. S \subseteq Audits /\ S \subseteq Nat
  BY DEF JudgedBy
<1>2. IsFiniteSet(S)
  BY <1>1, FS_Subset
<1>3. \E h \in S : \A a \in S : a <= h
  <2> HIDE DEF S
  <2>1. S # {}
    BY DEF S
  <2>2. QED
    BY <1>1, <1>2, <2>1, HighestExists
<1>4. \E h \in S : \A a \in S : h >= a
  <2> HIDE DEF S
  <2>1. QED
    BY <1>1, <1>3
<1>5. Shown(S) \in S /\ \A a \in S : Shown(S) >= a
  <2> HIDE DEF S
  <2>1. QED
    BY <1>4 DEF Shown
<1>6. QED
  BY <1>1, <1>5

-----------------------------------------------------------------------------
(* Types.                                                                  *)

LEMMA ReadingTyped == Init => TypeOK
<1> SUFFICES ASSUME Init PROVE TypeOK
  OBVIOUS
<1>1. AccessTypeOK
  BY KeysInit DEF Init, KeysInv
<1>2. QED
  BY <1>1 DEF Init, TypeOK, Nothing, Unshown, Unlabeled, Unknown, Steps

LEMMA StepTyped ==
  ASSUME TypeOK, AccessTypeOK', [Next]_vars
  PROVE  TypeOK'
<1> USE DEF TypeOK
<1>1. CASE Entering
  BY <1>1 DEF Entering, rows, answer, history
<1>2. ASSUME NEW c \in Convs, StoreConversation(c)
      PROVE  TypeOK'
  BY <1>2 DEF StoreConversation, answer, history
<1>3. ASSUME NEW a \in Audits, NEW c \in Convs, JudgeConversation(a, c)
      PROVE  TypeOK'
  BY <1>3 DEF JudgeConversation, answer, history
<1>4. ASSUME NEW doomed, Delete(doomed)
      PROVE  TypeOK'
  BY <1>4 DEF Delete, answer
<1>5. CASE Writers
  BY <1>2, <1>3, <1>4, <1>5 DEF Writers, DeleteConversation, DeleteUpload, DeleteProject
<1>6. ASSUME NEW r \in Callers, NEW what \in Readings, Begin(r, what)
      PROVE  TypeOK'
  <2>1. Scope(what) \subseteq Convs /\ FirstStatement(what) \in Steps
    BY DEF Scope, FirstStatement, Steps
  <2>2. (what.of \in evaluated) \in BOOLEAN
    OBVIOUS
  <2>3. QED
    BY <1>6, <2>1, <2>2 DEF Begin, answer, rows
<1>7. ASSUME NEW r \in Callers,
             NotFound(r) \/ FindProject(r) \/ FindConversation(r) \/ Retry(r)
      PROVE  TypeOK'
  BY <1>7 DEF NotFound, FindProject, FindConversation, Retry, Steps, rows, answer, history
<1>8. ASSUME NEW r \in Callers, NEW n \in Limits, ReadPage(r, n)
      PROVE  TypeOK'
  <2>1. times' \in [Callers -> [Convs -> Nat]]
    BY <1>8 DEF ReadPage
  <2>2. HasMore(Under(r), n) => NextCursor(Under(r), n) \in Convs
    <3>1. Under(r) \subseteq Convs /\ Under(r) \subseteq Nat
      BY DEF Under, Listed
    <3>2. IsFiniteSet(Under(r))
      BY <3>1, FS_Subset
    <3>3. QED
      BY <3>1, <3>2, PageIsUpper
  <2>3. cursor' \in [Callers -> Convs \cup {None}] /\ step' \in [Callers -> Steps]
    <3>1. CASE /\ HasMore(Under(r), n)
               /\ cursor' = [cursor EXCEPT ![r] = NextCursor(Under(r), n)]
               /\ step' = [step EXCEPT ![r] = "project"]
      BY <2>2, <3>1 DEF Steps
    <3>2. CASE cursor' = cursor /\ step' = [step EXCEPT ![r] = "done"]
      BY <3>2 DEF Steps
    <3>3. QED
      BY <1>8, <3>1, <3>2, Zenon DEF ReadPage
  <2>4. QED
    BY <1>8, <2>1, <2>3 DEF ReadPage, rows, history
<1>9. ASSUME NEW r \in Callers, ReadUploads(r) \/ ReadGrouped(r) \/ ReadMessages(r)
      PROVE  TypeOK'
  <2>1. CASE ReadUploads(r)
    <3>1. ids' \in [Callers -> SUBSET Uploads]
      BY <2>1 DEF ReadUploads
    <3>2. QED
      BY <2>1, <3>1 DEF ReadUploads, Steps, rows, history
  <2>2. CASE ReadGrouped(r)
    <3>1. times' \in [Callers -> [Convs -> Nat]]
      BY <2>2 DEF ReadGrouped
    <3>2. QED
      BY <2>2, <3>1 DEF ReadGrouped, Steps, rows, history
  <2>3. CASE ReadMessages(r)
    BY <2>3 DEF ReadMessages, Steps, rows, history
  <2>4. QED
    BY <1>9, <2>1, <2>2, <2>3
<1>10. ASSUME NEW r \in Callers, ReadEvaluation(r)
       PROVE  TypeOK'
  BY <1>10 DEF ReadEvaluation, Steps, rows, history
<1>11. ASSUME NEW r \in Callers, ReadVerdicts(r)
       PROVE  TypeOK'
  <2>1. ASSUME NEW i \in Messages, JudgedBy(reading[r].of, i) # {}
        PROVE  Shown(JudgedBy(reading[r].of, i)) \in Audits
    BY <2>1, ShownIsLatest
  <2>2. labels' \in [Callers -> [Messages -> Audits \cup {0}]]
    BY <1>11, <2>1 DEF ReadVerdicts
  <2>3. QED
    BY <1>11, <2>2 DEF ReadVerdicts, Steps, rows, history
<1>12. ASSUME NEW r \in Callers, Close(r)
       PROVE  TypeOK'
  <2>1. Unshown \in [Convs -> Nat] /\ Unlabeled \in [Messages -> Audits \cup {0}]
    BY DEF Unshown, Unlabeled
  <2>2. Unknown \in [scored : BOOLEAN, verdicts : SUBSET (Audits \X Convs \X Messages)]
    BY DEF Unknown
  <2>3. /\ reading' \in [Callers -> Readings \cup {Nothing}]
        /\ step' \in [Callers -> Steps]
        /\ cursor' \in [Callers -> Convs \cup {None}]
        /\ times' \in [Callers -> [Convs -> Nat]]
    BY <1>12, <2>1 DEF Close, Steps
  <2>4. /\ ids' \in [Callers -> SUBSET Uploads]
        /\ found' \in [Callers -> SUBSET Messages]
        /\ scored' \in [Callers -> BOOLEAN]
        /\ labels' \in [Callers -> [Messages -> Audits \cup {0}]]
        /\ steady' \in [Callers -> SUBSET Convs]
    BY <1>12, <2>1 DEF Close
  <2>5. known' \in [Callers -> [scored : BOOLEAN, verdicts : SUBSET (Audits \X Convs \X Messages)]]
    BY <1>12, <2>2 DEF Close
  <2>6. QED
    BY <1>12, <2>3, <2>4, <2>5 DEF Close, rows
<1>13. CASE UNCHANGED vars
  BY <1>13 DEF vars, rows, answer, history
<1>14. QED
  BY <1>1, <1>5, <1>6, <1>7, <1>8, <1>9, <1>10, <1>11, <1>12, <1>13 DEF Next, Caller
-----------------------------------------------------------------------------
(* The invariant of one caller.                                            *)

IsList(r)   == reading[r].kind = "list"
IsGroups(r) == reading[r].kind = "groups"
IsDetail(r) == reading[r].kind = "detail"
NotGone(c)  == <<"conv", c>> \notin gone

Begun(r) == reading[r] = Nothing => cursor[r] = None /\ times[r] = Unshown

\* What was visible all the while still is, and the grouped listing has its upload.
SteadyLive(r) == \A c \in steady[r] :
  /\ LiveConv(c)
  /\ IsList(r) => ProjectOfConv(c) = reading[r].of
  /\ IsGroups(r) /\ step[r] = "uploads" => LiveUpload(UploadOf[c]) /\ LiveProject(ProjectOfConv(c))
  /\ IsGroups(r) /\ step[r] = "grouped" => UploadOf[c] \in ids[r]

\* The pages so far show what lies at or above the cursor, and nothing below it.
PagesShown(r) == IsList(r) /\ step[r] \in {"project", "page"} =>
  \A c \in Convs :
    IF cursor[r] # None /\ c >= cursor[r]
    THEN times[r][c] <= 1 /\ (c \in steady[r] => times[r][c] = 1)
    ELSE times[r][c] = 0

Shows(r) == step[r] = "done" /\ reading[r].kind \in {"list", "groups"} =>
  \A c \in Convs : times[r][c] <= 1 /\ (c \in steady[r] => times[r][c] = 1)

ListingInv(r) == Begun(r) /\ SteadyLive(r) /\ PagesShown(r) /\ Shows(r)

\* What was known when a detail began is still there, or the conversation is not.
KnownStays(r) == IsDetail(r) =>
  /\ \A v \in known[r].verdicts : v[2] = reading[r].of
  /\ NotGone(reading[r].of) => /\ known[r].verdicts \subseteq verdicts
                               /\ known[r].scored => reading[r].of \in evaluated

StatementsRead(r) == IsDetail(r) =>
  /\ step[r] \in {"messages", "evaluation", "verdicts"} =>
       reading[r].of \in stored /\ Visible(ProjectOfConv(reading[r].of))
  /\ step[r] \in {"evaluation", "verdicts"} /\ NotGone(reading[r].of) => found[r] = Messages
  /\ step[r] = "verdicts" /\ NotGone(reading[r].of) => (known[r].scored => scored[r])

Current(r) == step[r] = "done" /\ IsDetail(r) /\ NotGone(reading[r].of) =>
  /\ known[r].scored => scored[r]
  /\ \A v \in known[r].verdicts : labels[r][v[3]] >= v[1]

DetailInv(r) == KnownStays(r) /\ StatementsRead(r) /\ Current(r)

CallerInv(r) == ListingInv(r) /\ DetailInv(r)

\* A step that leaves the rows and a caller alone keeps the caller's invariant.
LEMMA Undisturbed ==
  ASSUME NEW r \in Callers, CallerInv(r), UNCHANGED rows,
         reading'[r] = reading[r], step'[r] = step[r], cursor'[r] = cursor[r],
         times'[r] = times[r], ids'[r] = ids[r], found'[r] = found[r],
         scored'[r] = scored[r], labels'[r] = labels[r], steady'[r] = steady[r],
         known'[r] = known[r]
  PROVE  CallerInv(r)'
<1> USE DEF CallerInv, ListingInv, DetailInv, rows, IsList, IsGroups, IsDetail, NotGone
<1>1. \A c : LiveConv(c) => LiveConv(c)'
  BY DEF LiveConv, Visible, ProjectOfConv
<1>2. \A u : LiveUpload(u) => LiveUpload(u)'
  BY DEF LiveUpload, Visible
<1>3. \A p : LiveProject(p) => LiveProject(p)'
  BY DEF LiveProject, Visible
<1>4. SteadyLive(r)'
  BY <1>1, <1>2, <1>3 DEF SteadyLive, ProjectOfConv
<1>5. Begun(r)'
  BY DEF Begun, Nothing, Unshown
<1>6. PagesShown(r)'
  BY DEF PagesShown
<1>7. Shows(r)'
  BY DEF Shows
<1>8. KnownStays(r)'
  BY DEF KnownStays
<1>9. StatementsRead(r)'
  BY DEF StatementsRead, Visible, ProjectOfConv
<1>10. Current(r)'
  BY DEF Current
<1>11. QED
  BY <1>4, <1>5, <1>6, <1>7, <1>8, <1>9, <1>10

\* Rows that are added disturb nobody.
LEMMA RowsAdded ==
  ASSUME NEW r \in Callers, CallerInv(r),
         stored \subseteq stored', evaluated \subseteq evaluated',
         verdicts \subseteq verdicts', gone' = gone,
         UNCHANGED <<reading, step, answer, history>>
  PROVE  CallerInv(r)'
<1> USE DEF CallerInv, ListingInv, DetailInv, answer, history, IsList, IsGroups, IsDetail, NotGone
<1>1. \A c : LiveConv(c) => LiveConv(c)'
  BY DEF LiveConv, Visible, ProjectOfConv
<1>2. \A u : LiveUpload(u) => LiveUpload(u)'
  BY DEF LiveUpload, Visible
<1>3. \A p : LiveProject(p) => LiveProject(p)'
  BY DEF LiveProject, Visible
<1>4. SteadyLive(r)'
  BY <1>1, <1>2, <1>3 DEF SteadyLive, ProjectOfConv
<1>5. Begun(r)'
  BY DEF Begun, Nothing, Unshown
<1>6. PagesShown(r)' /\ Shows(r)'
  BY DEF PagesShown, Shows
<1>7. KnownStays(r)'
  BY DEF KnownStays
<1>8. StatementsRead(r)' /\ Current(r)'
  BY DEF StatementsRead, Current, Visible, ProjectOfConv
<1>9. QED
  BY <1>4, <1>5, <1>6, <1>7, <1>8

\* A delete takes what it hides out of what was visible all the while.
LEMMA RowsDeleted ==
  ASSUME TypeOK, NEW r \in Callers, CallerInv(r), NEW doomed, Delete(doomed)
  PROVE  CallerInv(r)'
<1> USE DEF CallerInv, ListingInv, DetailInv, answer, IsList, IsGroups, IsDetail, NotGone
<1>1. /\ steady'[r] = {c \in steady[r] : StaysVisible(r, c, doomed)}
      /\ gone' = gone \cup doomed
      /\ verdicts' = {v \in verdicts : <<"conv", v[2]>> \notin doomed}
      /\ UNCHANGED <<stored, evaluated, reading, step, answer, known>>
  BY DEF Delete, TypeOK
<1>2. ASSUME NEW c \in steady'[r]
      PROVE  /\ c \in steady[r]
             /\ LiveConv(c)'
             /\ IsGroups(r) /\ LiveUpload(UploadOf[c]) => LiveUpload(UploadOf[c])'
             /\ IsGroups(r) /\ LiveProject(ProjectOfConv(c)) => LiveProject(ProjectOfConv(c))'
  <2>1. c \in steady[r] /\ StaysVisible(r, c, doomed)
    BY <1>1
  <2>2. LiveConv(c)
    BY <2>1 DEF SteadyLive
  <2>3. LiveConv(c)'
    BY <1>1, <2>1, <2>2 DEF StaysVisible, LiveConv, Visible, ProjectOfConv
  <2>4. IsGroups(r) /\ LiveUpload(UploadOf[c]) => LiveUpload(UploadOf[c])'
    BY <1>1, <2>1 DEF StaysVisible, LiveUpload, Visible
  <2>5. IsGroups(r) /\ LiveProject(ProjectOfConv(c)) => LiveProject(ProjectOfConv(c))'
    BY <1>1, <2>1 DEF StaysVisible, LiveProject, Visible, ProjectOfConv
  <2>6. QED
    BY <2>1, <2>3, <2>4, <2>5
<1>3. SteadyLive(r)'
  BY <1>1, <1>2 DEF SteadyLive, ProjectOfConv
<1>4. Begun(r)'
  BY <1>1 DEF Begun, Nothing, Unshown
<1>5. PagesShown(r)' /\ Shows(r)'
  BY <1>1 DEF PagesShown, Shows
<1>6. KnownStays(r)'
  <2> SUFFICES ASSUME IsDetail(r)
               PROVE  KnownStays(r)'
    BY <1>1 DEF KnownStays
  <2>1. \A v \in known[r].verdicts : v[2] = reading[r].of
    BY DEF KnownStays
  <2>2. ASSUME NotGone(reading[r].of)'
        PROVE  NotGone(reading[r].of) /\ <<"conv", reading[r].of>> \notin doomed
    BY <1>1, <2>2
  <2>3. ASSUME NotGone(reading[r].of)'
        PROVE  known[r].verdicts \subseteq verdicts'
    BY <1>1, <2>1, <2>2, <2>3 DEF KnownStays
  <2>4. ASSUME NotGone(reading[r].of)', known[r].scored
        PROVE  reading[r].of \in evaluated
    BY <2>2, <2>4 DEF KnownStays
  <2>5. QED
    BY <1>1, <2>1, <2>3, <2>4 DEF KnownStays
<1>7. StatementsRead(r)' /\ Current(r)'
  BY <1>1 DEF StatementsRead, Current, Visible, ProjectOfConv
<1>8. QED
  BY <1>3, <1>4, <1>5, <1>6, <1>7

LEMMA WritersKeep ==
  ASSUME TypeOK, Writers, NEW r \in Callers, CallerInv(r)
  PROVE  CallerInv(r)'
<1>1. ASSUME NEW c \in Convs, StoreConversation(c)
      PROVE  CallerInv(r)'
  <2>1. /\ stored \subseteq stored' /\ evaluated \subseteq evaluated' /\ verdicts \subseteq verdicts'
        /\ gone' = gone /\ UNCHANGED <<reading, step, answer, history>>
    BY <1>1 DEF StoreConversation
  <2>2. QED
    BY <2>1, RowsAdded
<1>2. ASSUME NEW a \in Audits, NEW c \in Convs, JudgeConversation(a, c)
      PROVE  CallerInv(r)'
  <2>1. /\ stored \subseteq stored' /\ evaluated \subseteq evaluated' /\ verdicts \subseteq verdicts'
        /\ gone' = gone /\ UNCHANGED <<reading, step, answer, history>>
    BY <1>2 DEF JudgeConversation
  <2>2. QED
    BY <2>1, RowsAdded
<1>3. ASSUME NEW doomed, Delete(doomed)
      PROVE  CallerInv(r)'
  BY <1>3, RowsDeleted
<1>4. QED
  BY <1>1, <1>2, <1>3 DEF Writers, DeleteConversation, DeleteUpload, DeleteProject

-----------------------------------------------------------------------------
(* What a caller's own steps do to its invariant.                          *)

LEMMA BeginKeeps ==
  ASSUME TypeOK, NEW r \in Callers, CallerInv(r), NEW what \in Readings, Begin(r, what)
  PROVE  CallerInv(r)'
<1>1. /\ reading[r] = Nothing /\ reading'[r] = what
      /\ step'[r] = FirstStatement(what)
      /\ steady'[r] = Scope(what)
      /\ known'[r] = [scored |-> what.of \in evaluated,
                      verdicts |-> {v \in verdicts : v[2] = what.of}]
      /\ UNCHANGED <<stored, gone, evaluated, verdicts, cursor, times, ids, found, scored, labels>>
  BY DEF Begin, TypeOK, rows, answer
<1>2. what.kind \in {"list", "groups", "detail"}
  BY DEF Readings
<1>3. cursor[r] = None /\ times[r] = Unshown
  BY <1>1 DEF CallerInv, ListingInv, Begun
<1>4. Begun(r)'
  BY <1>1, <1>3 DEF Begun, Unshown
<1>5. SteadyLive(r)'
  <2>1. \A c \in Scope(what) :
          /\ LiveConv(c)
          /\ what.kind = "list" => ProjectOfConv(c) = what.of
          /\ what.kind = "groups" => LiveUpload(UploadOf[c]) /\ LiveProject(ProjectOfConv(c))
    BY <1>2 DEF Scope
  <2>2. what.kind = "groups" => FirstStatement(what) = "uploads"
    BY DEF FirstStatement
  <2>3. QED
    BY <1>1, <2>1, <2>2 DEF SteadyLive, IsList, IsGroups, LiveConv, LiveUpload, LiveProject,
                            Visible, ProjectOfConv
<1>6. PagesShown(r)'
  BY <1>1, <1>3 DEF PagesShown, Unshown
<1>7. Shows(r)' /\ Current(r)' /\ StatementsRead(r)'
  <2>1. FirstStatement(what) \in {"project", "uploads", "conv"}
    BY DEF FirstStatement
  <2>2. QED
    BY <1>1, <2>1 DEF Shows, Current, StatementsRead
<1>8. KnownStays(r)'
  <2>1. known'[r].scored <=> what.of \in evaluated
    <3>1. known'[r].scored = (what.of \in evaluated)
      BY <1>1
    <3>2. QED
      BY <3>1, Zenon
  <2>2. known'[r].verdicts = {v \in verdicts : v[2] = what.of}
    BY <1>1
  <2>3. QED
    BY <1>1, <2>1, <2>2 DEF KnownStays, IsDetail
<1>9. QED
  BY <1>4, <1>5, <1>6, <1>7, <1>8 DEF CallerInv, ListingInv, DetailInv

\* A request that ends, or passes the check of its root, keeps what it showed.
LEMMA RootKeeps ==
  ASSUME TypeOK, NEW r \in Callers, CallerInv(r),
         NotFound(r) \/ FindProject(r) \/ FindConversation(r)
  PROVE  CallerInv(r)'
<1> USE DEF CallerInv, ListingInv, DetailInv, IsList, IsGroups, IsDetail, NotGone
<1>1. /\ UNCHANGED <<stored, gone, evaluated, verdicts, reading, cursor, times, ids, found,
                     scored, labels, steady, known>>
      /\ \/ step'[r] = "missing"
         \/ IsList(r) /\ step[r] = "project" /\ step'[r] = "page"
         \/ step'[r] = "messages" /\ IsDetail(r) /\ LiveConv(reading[r].of)
  BY DEF NotFound, FindProject, FindConversation, Serving, TypeOK, rows, answer, history
<1>2. Begun(r)'
  BY <1>1 DEF Begun, Unshown
<1>3. SteadyLive(r)'
  BY <1>1 DEF SteadyLive, LiveConv, LiveUpload, LiveProject, Visible, ProjectOfConv
<1>4. PagesShown(r)' /\ Shows(r)'
  BY <1>1 DEF PagesShown, Shows
<1>5. KnownStays(r)' /\ Current(r)'
  BY <1>1 DEF KnownStays, Current
<1>6. StatementsRead(r)'
  BY <1>1 DEF StatementsRead, LiveConv, Visible, ProjectOfConv
<1>7. QED
  BY <1>2, <1>3, <1>4, <1>5, <1>6

LEMMA CloseKeeps ==
  ASSUME TypeOK, NEW r \in Callers, CallerInv(r), Close(r)
  PROVE  CallerInv(r)'
<1>1. /\ reading'[r] = Nothing /\ step'[r] = "none" /\ cursor'[r] = None
      /\ times'[r] = Unshown /\ steady'[r] = {}
  BY DEF Close, TypeOK
<1>2. Nothing.kind = "nothing"
  BY DEF Nothing
<1>3. QED
  BY <1>1, <1>2 DEF CallerInv, ListingInv, DetailInv, Begun, SteadyLive, PagesShown, Shows,
      KnownStays, StatementsRead, Current, IsList, IsGroups, IsDetail, Unshown

LEMMA PageKeeps ==
  ASSUME TypeOK, NEW r \in Callers, CallerInv(r), NEW n \in Limits, ReadPage(r, n)
  PROVE  CallerInv(r)'
<1> DEFINE S == Under(r)
           l == NextCursor(S, n)
<1> USE DEF IsList, IsGroups, IsDetail
<1>1. /\ S \subseteq Convs /\ S \subseteq Nat
      /\ IsFiniteSet(S)
  <2>1. S \subseteq Convs
    BY DEF Under, Listed
  <2>2. QED
    BY <2>1, FS_Subset
<1>2. n \in Nat \ {0}
  OBVIOUS
<1>3. /\ IsList(r) /\ step[r] = "page"
      /\ \A c \in Convs : times'[r][c] = IF c \in Top(S, n) THEN times[r][c] + 1 ELSE times[r][c]
      /\ UNCHANGED <<stored, gone, evaluated, verdicts, reading, ids, found, scored, labels,
                     steady, known>>
      /\ \/ HasMore(S, n) /\ cursor'[r] = l /\ step'[r] = "project"
         \/ ~HasMore(S, n) /\ cursor'[r] = cursor[r] /\ step'[r] = "done"
  BY DEF ReadPage, Serving, TypeOK, rows, history
<1>4. ASSUME NEW c \in S
      PROVE  times[r][c] = 0 /\ (cursor[r] = None \/ c < cursor[r]) /\ c \in Convs /\ c \in Nat
  <2>1. cursor[r] = None \/ c < cursor[r]
    BY DEF Under
  <2>2. c \in Nat /\ c \in Convs /\ (cursor[r] # None => cursor[r] \in Nat)
    BY <1>1 DEF TypeOK
  <2>3. ~(cursor[r] # None /\ c >= cursor[r])
    BY <2>1, <2>2
  <2>4. PagesShown(r)
    BY DEF CallerInv, ListingInv
  <2>5. QED
    BY <1>3, <2>1, <2>2, <2>3, <2>4 DEF PagesShown
<1>5. \A c \in steady[r] : c \in Convs /\ LiveConv(c) /\ ProjectOfConv(c) = reading[r].of
  BY <1>3 DEF CallerInv, ListingInv, SteadyLive, TypeOK
<1>6. ASSUME NEW c \in Convs, c \notin S
      PROVE  /\ times[r][c] <= 1
             /\ c \in steady[r] => times[r][c] = 1 /\ cursor[r] # None /\ c >= cursor[r]
  <2>1. PagesShown(r)
    BY DEF CallerInv, ListingInv
  <2>2. c \in steady[r] => cursor[r] # None /\ ~(c < cursor[r])
    BY <1>5, <1>6 DEF Under, Listed
  <2>3. c \in Nat /\ (cursor[r] # None => cursor[r] \in Nat)
    BY DEF TypeOK
  <2>4. CASE cursor[r] # None /\ c >= cursor[r]
    BY <1>3, <2>1, <2>4 DEF PagesShown
  <2>5. CASE ~(cursor[r] # None /\ c >= cursor[r])
    <3>1. times[r][c] = 0
      BY <1>3, <2>1, <2>5 DEF PagesShown
    <3>2. c \notin steady[r]
      BY <2>2, <2>3, <2>5
    <3>3. QED
      BY <3>1, <3>2
  <2>6. QED
    BY <2>4, <2>5
<1>7. Top(S, n) \subseteq S
  BY DEF Top
<1>8. CASE HasMore(S, n) /\ cursor'[r] = l /\ step'[r] = "project"
  <2>1. l \in S /\ \A c \in S : c \in Top(S, n) <=> c >= l
    BY <1>1, <1>2, <1>8, PageIsUpper
  <2>2. l \in Nat /\ l # None
    BY <1>4, <2>1
  <2> HIDE DEF S, l
  <2>3. ASSUME NEW c \in Convs, c >= l
        PROVE  times'[r][c] <= 1 /\ (c \in steady[r] => times'[r][c] = 1)
    <3>1. CASE c \in S
      <4>1. c \in Top(S, n) /\ times[r][c] = 0
        BY <1>4, <2>1, <2>3, <3>1
      <4>2. times'[r][c] = times[r][c] + 1
        BY <1>3, <4>1
      <4>3. QED
        BY <4>1, <4>2
    <3>2. CASE c \notin S
      <4>1. c \notin Top(S, n)
        BY <1>7, <3>2
      <4>2. times'[r][c] = times[r][c]
        BY <1>3, <4>1
      <4>3. QED
        BY <1>6, <3>2, <4>2
    <3>3. QED
      BY <3>1, <3>2
  <2>4. ASSUME NEW c \in Convs, ~(c >= l)
        PROVE  times'[r][c] = 0
    <3>1. c \notin Top(S, n)
      BY <1>7, <2>1, <2>4
    <3>2. c \in Nat /\ (cursor[r] = None \/ l < cursor[r]) /\ (cursor[r] # None => cursor[r] \in Nat)
      BY <1>4, <2>1 DEF TypeOK
    <3>3. ~(cursor[r] # None /\ c >= cursor[r])
      BY <2>2, <2>4, <3>2
    <3>4. times[r][c] = 0
      BY <1>3, <3>3 DEF CallerInv, ListingInv, PagesShown
    <3>5. QED
      BY <1>3, <3>1, <3>4
  <2>5. PagesShown(r)'
    BY <1>3, <1>8, <2>2, <2>3, <2>4 DEF PagesShown
  <2>6. Shows(r)' /\ Begun(r)'
    BY <1>3, <1>8 DEF Shows, Begun, Nothing
  <2>7. SteadyLive(r)'
    BY <1>3, <1>5, <1>8 DEF SteadyLive, LiveConv, Visible, ProjectOfConv
  <2>8. DetailInv(r)'
    BY <1>3 DEF DetailInv, KnownStays, StatementsRead, Current
  <2>9. QED
    BY <2>5, <2>6, <2>7, <2>8 DEF CallerInv, ListingInv
<1>9. CASE ~HasMore(S, n) /\ cursor'[r] = cursor[r] /\ step'[r] = "done"
  <2>1. Top(S, n) = S
    BY <1>1, <1>2, <1>9, LastPage
  <2> HIDE DEF S, l
  <2>2. ASSUME NEW c \in Convs
        PROVE  times'[r][c] <= 1 /\ (c \in steady[r] => times'[r][c] = 1)
    <3>1. CASE c \in S
      <4>1. c \in Top(S, n) /\ times[r][c] = 0
        BY <1>4, <2>1, <3>1
      <4>2. times'[r][c] = times[r][c] + 1
        BY <1>3, <4>1
      <4>3. QED
        BY <4>1, <4>2
    <3>2. CASE c \notin S
      BY <1>3, <1>6, <2>1, <3>2
    <3>3. QED
      BY <3>1, <3>2
  <2>3. Shows(r)'
    BY <1>3, <2>2 DEF Shows
  <2>4. PagesShown(r)' /\ Begun(r)'
    BY <1>3, <1>9 DEF PagesShown, Begun, Nothing
  <2>5. SteadyLive(r)'
    BY <1>3, <1>5, <1>9 DEF SteadyLive, LiveConv, Visible, ProjectOfConv
  <2>6. DetailInv(r)'
    BY <1>3 DEF DetailInv, KnownStays, StatementsRead, Current
  <2>7. QED
    BY <2>3, <2>4, <2>5, <2>6 DEF CallerInv, ListingInv
<1>10. QED
  BY <1>3, <1>8, <1>9

\* The grouped listing: its uploads, then their conversations.
LEMMA GroupsKeep ==
  ASSUME TypeOK, NEW r \in Callers, CallerInv(r), ReadUploads(r) \/ ReadGrouped(r)
  PROVE  CallerInv(r)'
<1> USE DEF IsList, IsGroups, IsDetail
<1>1. /\ IsGroups(r)
      /\ UNCHANGED <<stored, gone, evaluated, verdicts, reading, cursor, found, scored, labels,
                     steady, known>>
  BY DEF ReadUploads, ReadGrouped, Serving, rows, history
<1>2. Begun(r)' /\ PagesShown(r)' /\ DetailInv(r)'
  BY <1>1 DEF Begun, Nothing, PagesShown, DetailInv, KnownStays, StatementsRead, Current
<1>3. CASE ReadUploads(r)
  <2>1. /\ step[r] = "uploads" /\ step'[r] = "grouped"
        /\ ids'[r] = {u \in Uploads : LiveUpload(u) /\ LiveProject(ProjectOf[u])}
    BY <1>3 DEF ReadUploads, Serving, TypeOK
  <2>2. \A c \in steady[r] : LiveConv(c) /\ UploadOf[c] \in ids'[r]
    <3> TAKE c \in steady[r]
    <3>1. LiveConv(c) /\ LiveUpload(UploadOf[c]) /\ LiveProject(ProjectOf[UploadOf[c]])
      BY <1>1, <2>1 DEF CallerInv, ListingInv, SteadyLive, ProjectOfConv
    <3>2. UploadOf[c] \in Uploads
      BY DEF TypeOK
    <3>3. QED
      BY <2>1, <3>1, <3>2
  <2>3. SteadyLive(r)'
    BY <1>1, <2>1, <2>2 DEF SteadyLive, LiveConv, Visible, ProjectOfConv
  <2>4. Shows(r)'
    BY <2>1 DEF Shows
  <2>5. QED
    BY <1>2, <2>3, <2>4 DEF CallerInv, ListingInv
<1>4. CASE ReadGrouped(r)
  <2>1. /\ step[r] = "grouped" /\ step'[r] = "done"
        /\ \A c \in Convs : times'[r][c] = IF LiveConv(c) /\ UploadOf[c] \in ids[r] THEN 1 ELSE 0
    BY <1>4 DEF ReadGrouped, Serving, TypeOK
  <2>2. \A c \in steady[r] : LiveConv(c) /\ UploadOf[c] \in ids[r]
    BY <1>1, <2>1 DEF CallerInv, ListingInv, SteadyLive
  <2>3. SteadyLive(r)'
    BY <1>1, <2>1, <2>2 DEF SteadyLive, LiveConv, Visible, ProjectOfConv
  <2>4. Shows(r)'
    BY <1>1, <2>1, <2>2 DEF Shows
  <2>5. QED
    BY <1>2, <2>3, <2>4 DEF CallerInv, ListingInv
<1>5. QED
  BY <1>3, <1>4

\* The statements of a detail, each after what the ones before it saw.
LEMMA DetailKeeps ==
  ASSUME TypeOK, NEW r \in Callers, CallerInv(r),
         ReadMessages(r) \/ ReadEvaluation(r) \/ ReadVerdicts(r)
  PROVE  CallerInv(r)'
<1> DEFINE c == reading[r].of
<1> USE DEF IsList, IsGroups, IsDetail, NotGone
<1>1. /\ IsDetail(r)
      /\ UNCHANGED <<stored, gone, evaluated, verdicts, reading, cursor, times, ids, steady, known>>
  BY DEF ReadMessages, ReadEvaluation, ReadVerdicts, Serving, rows, history
<1>2. Begun(r)' /\ PagesShown(r)' /\ Shows(r)' /\ KnownStays(r)'
  BY <1>1 DEF CallerInv, ListingInv, DetailInv, Begun, Nothing, PagesShown, Shows, KnownStays
<1>3. SteadyLive(r)'
  BY <1>1 DEF CallerInv, ListingInv, SteadyLive, LiveConv, Visible, ProjectOfConv
<1>4. /\ step[r] \in {"messages", "evaluation", "verdicts"} =>
           c \in stored /\ Visible(ProjectOfConv(c))
      /\ step[r] \in {"evaluation", "verdicts"} /\ NotGone(c) => found[r] = Messages
      /\ step[r] = "verdicts" /\ NotGone(c) => (known[r].scored => scored[r])
  BY <1>1 DEF CallerInv, DetailInv, StatementsRead
<1>5. CASE ReadMessages(r)
  <2>1. /\ step[r] = "messages" /\ step'[r] = "evaluation"
        /\ found'[r] = IF LiveConv(c) THEN Messages ELSE {}
    BY <1>5 DEF ReadMessages, Serving, TypeOK
  <2>2. StatementsRead(r)' /\ Current(r)'
    BY <1>1, <1>4, <2>1 DEF StatementsRead, Current, LiveConv, Visible, ProjectOfConv
  <2>3. QED
    BY <1>2, <1>3, <2>2 DEF CallerInv, ListingInv, DetailInv
<1>6. CASE ReadEvaluation(r)
  <2>1. /\ step[r] = "evaluation" /\ step'[r] = "verdicts" /\ found'[r] = found[r]
        /\ scored'[r] = (LiveConv(c) /\ c \in evaluated)
    BY <1>6 DEF ReadEvaluation, Serving, TypeOK
  <2>2. NotGone(c) => (known[r].scored => c \in evaluated)
    BY <1>1 DEF CallerInv, DetailInv, KnownStays
  <2>3. NotGone(c) => (known[r].scored => scored'[r])
    <3>1. NotGone(c) => LiveConv(c)
      BY <1>4, <2>1 DEF LiveConv
    <3>2. QED
      BY <2>1, <2>2, <3>1, Zenon
  <2>4. StatementsRead(r)' /\ Current(r)'
    BY <1>1, <1>4, <2>1, <2>3 DEF StatementsRead, Current, Visible, ProjectOfConv
  <2>5. QED
    BY <1>2, <1>3, <2>4 DEF CallerInv, ListingInv, DetailInv
<1>7. CASE ReadVerdicts(r)
  <2>1. /\ step[r] = "verdicts" /\ step'[r] = "done" /\ scored'[r] = scored[r]
        /\ \A i \in Messages : labels'[r][i] =
             IF i \in found[r] /\ JudgedBy(c, i) # {} THEN Shown(JudgedBy(c, i)) ELSE 0
    BY <1>7 DEF ReadVerdicts, Serving, TypeOK
  <2>2. ASSUME NotGone(c), NEW v \in known[r].verdicts
        PROVE  labels'[r][v[3]] >= v[1]
    <3>1. v \in verdicts /\ v[2] = c
      BY <1>1, <2>2 DEF CallerInv, DetailInv, KnownStays
    <3>2. v[1] \in Audits /\ v[3] \in Messages /\ v = <<v[1], c, v[3]>>
      BY <3>1 DEF TypeOK
    <3>3. v[1] \in JudgedBy(c, v[3])
      BY <3>1, <3>2 DEF JudgedBy
    <3>4. found[r] = Messages
      BY <1>4, <2>1, <2>2
    <3>5. labels'[r][v[3]] = Shown(JudgedBy(c, v[3]))
      BY <2>1, <3>2, <3>3, <3>4
    <3>6. QED
      BY <3>3, <3>5, ShownIsLatest
  <2>3. Current(r)'
    BY <1>1, <1>4, <2>1, <2>2 DEF Current
  <2>4. StatementsRead(r)'
    BY <2>1 DEF StatementsRead
  <2>5. QED
    BY <1>2, <1>3, <2>3, <2>4 DEF CallerInv, ListingInv, DetailInv
<1>8. QED
  BY <1>5, <1>6, <1>7

LEMMA RetryKeeps ==
  ASSUME NEW r \in Callers, CallerInv(r), NEW q \in Callers, Retry(q)
  PROVE  CallerInv(r)'
BY Undisturbed DEF Retry, answer, history

\* A step of one caller leaves what the others have read.
LEMMA OthersKeep ==
  ASSUME TypeOK, NEW q \in Callers, Caller(q), NEW r \in Callers, r # q, CallerInv(r)
  PROVE  CallerInv(r)'
<1>1. /\ UNCHANGED rows
      /\ reading'[r] = reading[r] /\ step'[r] = step[r] /\ cursor'[r] = cursor[r]
      /\ times'[r] = times[r] /\ ids'[r] = ids[r] /\ found'[r] = found[r]
      /\ scored'[r] = scored[r] /\ labels'[r] = labels[r] /\ steady'[r] = steady[r]
      /\ known'[r] = known[r]
  <2> USE DEF TypeOK, answer, history
  <2>1. ASSUME NEW what \in Readings, Begin(q, what)
        PROVE  <1>1!:
    BY <2>1 DEF Begin
  <2>2. CASE NotFound(q) \/ FindProject(q) \/ FindConversation(q) \/ Retry(q)
    BY <2>2 DEF NotFound, FindProject, FindConversation, Retry
  <2>3. ASSUME NEW n \in Limits, ReadPage(q, n)
        PROVE  <1>1!:
    BY <2>3 DEF ReadPage
  <2>4. CASE ReadUploads(q) \/ ReadGrouped(q)
    BY <2>4 DEF ReadUploads, ReadGrouped
  <2>5. CASE ReadMessages(q) \/ ReadEvaluation(q) \/ ReadVerdicts(q)
    BY <2>5 DEF ReadMessages, ReadEvaluation, ReadVerdicts
  <2>6. CASE Close(q)
    BY <2>6 DEF Close
  <2>7. QED
    BY <2>1, <2>2, <2>3, <2>4, <2>5, <2>6 DEF Caller
<1>2. QED
  BY <1>1, Undisturbed

LEMMA OwnKeep ==
  ASSUME TypeOK, NEW r \in Callers, Caller(r), CallerInv(r)
  PROVE  CallerInv(r)'
BY BeginKeeps, RootKeeps, PageKeeps, GroupsKeep, DetailKeeps, RetryKeeps, CloseKeeps DEF Caller

-----------------------------------------------------------------------------
(* The theorems.                                                           *)

ReadingInv == KeysInv /\ TypeOK /\ \A r \in Callers : CallerInv(r)

LEMMA ReadingInit == Init => ReadingInv
<1> SUFFICES ASSUME Init PROVE ReadingInv
  OBVIOUS
<1>1. KeysInv /\ TypeOK
  BY KeysInit, ReadingTyped DEF Init
<1>2. ASSUME NEW r \in Callers
      PROVE  CallerInv(r)
  <2>1. reading[r] = Nothing /\ cursor[r] = None /\ times[r] = Unshown /\ steady[r] = {}
        /\ step[r] = "none"
    BY DEF Init
  <2>2. Nothing.kind = "nothing"
    BY DEF Nothing
  <2>3. QED
    BY <2>1, <2>2 DEF CallerInv, ListingInv, DetailInv, Begun, SteadyLive, PagesShown, Shows,
        KnownStays, StatementsRead, Current, IsList, IsGroups, IsDetail
<1>3. QED
  BY <1>1, <1>2 DEF ReadingInv

LEMMA ReadingNext == ReadingInv /\ [Next]_vars => ReadingInv'
<1> SUFFICES ASSUME ReadingInv, [Next]_vars PROVE ReadingInv'
  OBVIOUS
<1>1. KeysInv'
  BY KeysNext DEF ReadingInv
<1>2. TypeOK'
  BY <1>1, StepTyped DEF ReadingInv, KeysInv
<1>3. ASSUME NEW r \in Callers
      PROVE  CallerInv(r)'
  <2>1. CallerInv(r) /\ TypeOK
    BY DEF ReadingInv
  <2>2. CASE Entering
    BY <2>1, <2>2, Undisturbed DEF Entering, answer, history
  <2>3. CASE Writers
    BY <2>1, <2>3, WritersKeep
  <2>4. ASSUME NEW q \in Callers, Caller(q)
        PROVE  CallerInv(r)'
    BY <2>1, <2>4, OthersKeep, OwnKeep
  <2>5. CASE UNCHANGED vars
    BY <2>1, <2>5, Undisturbed DEF vars, answer, history
  <2>6. QED
    BY <2>2, <2>3, <2>4, <2>5 DEF Next
<1>4. QED
  BY <1>1, <1>2, <1>3 DEF ReadingInv

\* Every variable keeps its type.
THEOREM TypeCorrect == Spec => []TypeOK
<1>1. ReadingInv => TypeOK
  BY DEF ReadingInv
<1>2. QED
  BY <1>1, ReadingInit, ReadingNext, PTL DEF Spec

\* A listing that was read to its end shows what stayed visible, once, for any
\* number of callers, conversations, page sizes, writers and refused requests.
THEOREM ListingsAreComplete == Spec => []NothingMissed
<1>1. ReadingInv => NothingMissed
  BY DEF ReadingInv, CallerInv, ListingInv, Shows, NothingMissed
<1>2. QED
  BY <1>1, ReadingInit, ReadingNext, PTL DEF Spec

\* A detail is no older than its request, for any number of audits that commit
\* between its statements.
THEOREM DetailsAreCurrent == Spec => []DetailIsCurrent
<1>1. ReadingInv => DetailIsCurrent
  BY DEF ReadingInv, CallerInv, DetailInv, Current, DetailIsCurrent, IsDetail, NotGone
<1>2. QED
  BY <1>1, ReadingInit, ReadingNext, PTL DEF Spec
=============================================================================
