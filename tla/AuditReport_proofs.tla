------------------------- MODULE AuditReport_proofs -------------------------
(***************************************************************************)
(* Proofs about AuditReport for every set of audits, conversations, plans  *)
(* and judgements, and every interleaving of runs that raise, die or are   *)
(* repeated with deletes: that lists, reports and the dashboard agree,     *)
(* that what is counted is one answer of each content, and when the        *)
(* control chart is current.                                               *)
(***************************************************************************)
EXTENDS AuditReport, FiniteSetTheorems, WellFoundedInduction, TLAPS

Columns == {"mean", "std", "limits", "trend"}

Typed ==
  /\ plan \in Plans
  /\ evaluation \in [Convs -> Evaluations \cup {None}]
  /\ order \in Seq(Convs)
  /\ verdicts \in [Audits -> [Convs -> SUBSET MessageVerdicts]]
  /\ deleted \in SUBSET Convs
  /\ deletedEvals \in SUBSET deleted
  /\ deletedVerdicts \in [Audits -> [Convs -> SUBSET MessageVerdicts]]
  /\ chart = [col \in Columns |-> chart[col]]
  /\ DOMAIN summary = Audits
  /\ DOMAIN suggestions = Audits
  /\ pc \in [Audits -> {"stopped", "judge", "chart", "finish", "active"}]
  /\ runs \in [Audits -> Nat]
  /\ txn \in [Audits -> Transactions \cup {None}]
  /\ convIds \in [Audits -> SUBSET Convs]
  /\ todo \in [Audits -> SUBSET Convs]
  /\ DOMAIN seen = Audits
  /\ DOMAIN issues = Audits
  /\ DOMAIN unhandled = Audits
  /\ DOMAIN heard = Audits
  /\ DOMAIN series = Audits
  /\ DOMAIN loaded = Audits

\* The conversation of the open transaction, and whether it has to be evaluated.
Subject(a) == txn[a].conv
IsNew(a) == Subject(a) \notin txn[a].known

\* The rows: what an audit judged has an evaluation, no evaluation is lost, and whether
\* it is an attack is not for the LLM to say.
RowsAgree ==
  /\ \A c \in Convs :
       /\ plan.old[c] # None => evaluation[c] # None
       /\ plan.old[c] = None /\ evaluation[c] # None =>
            evaluation[c].adversarial = (c \in plan.attacked)
  /\ \A a \in Audits, c \in Convs :
       verdicts[a][c] # {} => c \in Links(a) /\ evaluation[c] # None
  /\ \A a \in Audits : txn[a] # None =>
       /\ \A c \in txn[a].known : evaluation[c] # None
       /\ IsNew(a) => plan.old[Subject(a)] = None

\* What the memory of a run has of a content.
HeardOf(a, k) == \E h \in heard[a] : Content(h.conv) = k

\* The memory: conversations are to be opened, open, heard or deleted, none is heard
\* twice, and the contents that were seen are those that were heard and the open one.
MemoryOf(a) ==
  /\ todo[a] \subseteq convIds[a] /\ convIds[a] \subseteq Links(a)
  /\ pc[a] # "judge" => todo[a] = {} /\ txn[a] = None
  /\ pc[a] # "stopped" => Links(a) \ deleted \subseteq convIds[a]
  /\ txn[a] # None => /\ Subject(a) \in convIds[a] \ todo[a]
                      /\ txn[a].dup <=> HeardOf(a, Content(Subject(a)))
  /\ \A h \in heard[a] : /\ h.conv \in convIds[a] \ todo[a]
                         /\ txn[a] # None => h.conv # Subject(a)
                         /\ evaluation[h.conv] # None
  /\ \A c \in convIds[a] \ (todo[a] \cup deleted) :
       (txn[a] # None /\ c = Subject(a)) \/ \E h \in heard[a] : h.conv = c
  /\ \A k : k \in seen[a] <=>
       HeardOf(a, k) \/ (txn[a] # None /\ k = Content(Subject(a)))

MemoryAgrees == \A a \in Audits : MemoryOf(a)

Base == Typed /\ RowsAgree /\ MemoryAgrees

-----------------------------------------------------------------------------
(* Least and smallest elements, which stand for induction over data.       *)

LEMMA LeastExists ==
  ASSUME NEW S, S \subseteq Nat, S # {}
  PROVE  \E c \in S : \A d \in S : c <= d
<1>1. PICK c \in S : \A d \in S : <<d, c>> \notin OpToRel(<, Nat)
  BY NatLessThanWellFounded, WFMin
<1>2. \A d \in S : c <= d
  <2> TAKE d \in S
  <2>1. ~(d < c)
    BY <1>1, Zenon DEF OpToRel
  <2>2. QED
    BY <2>1
<1>3. QED
  BY <1>2

LEMMA SmallestExists ==
  ASSUME NEW S, IsFiniteSet(S), NEW B \in SUBSET (SUBSET S), B # {}
  PROVE  \E T \in B : \A U \in B : U \subseteq T => U = T
<1> DEFINE R == StrictSubsetOrdering(S)
<1>1. IsWellFoundedOn(R, SUBSET S)
  BY FS_StrictSubsetOrderingWellFounded, FS_FiniteSubsetsOfFinite
<1>2. \A T, U \in SUBSET S : <<U, T>> \in R <=> U \subseteq T /\ U # T
  BY DEF StrictSubsetOrdering
<1> HIDE DEF R
<1>3. \E T \in B : \A U \in B : <<U, T>> \notin R
  BY <1>1, WFMin, Zenon
<1>4. QED
  BY <1>2, <1>3

-----------------------------------------------------------------------------
(* Sums.  SumOver is a recursive function on the subsets of its set; that  *)
(* there is one, and what it is for a set, is shown by the smallest subset *)
(* for which it would not be so.                                           *)

Chosen(S) == CHOOSE x \in S : TRUE

IsSum(g, S, value) ==
  g = [T \in SUBSET S |->
         IF T = {} THEN 0 ELSE value[Chosen(T)] + g[T \ {Chosen(T)}]]

LEMMA SumIs ==
  ASSUME NEW S, NEW value
  PROVE  SumOver(S, value) = (CHOOSE g : IsSum(g, S, value))[S]
BY DEF SumOver, MapThenSumSet, MapThenFoldSet, IsSum, Chosen

LEMMA SumsAgree ==
  ASSUME NEW S, NEW T, NEW U, IsFiniteSet(U), U \subseteq S, U \subseteq T, NEW value,
         NEW g, IsSum(g, S, value), NEW h, IsSum(h, T, value)
  PROVE  g[U] = h[U]
<1> DEFINE B == {V \in SUBSET U : g[V] # h[V]}
<1>1. ASSUME NEW V \in B, \A W \in B : W \subseteq V => W = V
      PROVE  FALSE
  <2>1. V \subseteq U /\ g[V] # h[V]
    OBVIOUS
  <2>2. /\ g[V] = IF V = {} THEN 0 ELSE value[Chosen(V)] + g[V \ {Chosen(V)}]
        /\ h[V] = IF V = {} THEN 0 ELSE value[Chosen(V)] + h[V \ {Chosen(V)}]
    BY <2>1 DEF IsSum
  <2>3. V # {}
    BY <2>1, <2>2
  <2>4. Chosen(V) \in V
    BY <2>3 DEF Chosen
  <2>5. V \ {Chosen(V)} \subseteq V /\ V \ {Chosen(V)} # V
    BY <2>4
  <2>6. V \ {Chosen(V)} \notin B
    BY <1>1, <2>5
  <2>7. g[V \ {Chosen(V)}] = h[V \ {Chosen(V)}]
    BY <2>1, <2>6
  <2>8. QED
    BY <2>1, <2>2, <2>7
<1>2. B \in SUBSET (SUBSET U)
  OBVIOUS
<1>3. U \notin B
  <2> HIDE DEF B
  <2>1. QED
    BY <1>1, <1>2, SmallestExists
<1>4. QED
  BY <1>3

LEMMA SumExists ==
  ASSUME NEW S, IsFiniteSet(S), NEW value
  PROVE  \E g : IsSum(g, S, value)
<1> DEFINE B == {T \in SUBSET S : ~ \E g : IsSum(g, T, value)}
           G(T) == CHOOSE g : IsSum(g, T, value)
<1>1. ASSUME NEW T \in B, \A U \in B : U \subseteq T => U = T
      PROVE  FALSE
  <2> DEFINE g == [U \in SUBSET T |->
                     IF U = {} THEN 0 ELSE value[Chosen(U)] + G(U \ {Chosen(U)})[U \ {Chosen(U)}]]
  <2>1. T \subseteq S /\ ~ \E h : IsSum(h, T, value)
    OBVIOUS
  <2>2. ASSUME NEW U \in SUBSET T, U # T PROVE IsSum(G(U), U, value)
    <3>1. U \notin B
      BY <1>1, <2>2
    <3>2. \E h : IsSum(h, U, value)
      BY <2>1, <3>1
    <3>3. QED
      BY <3>2
  <2> HIDE DEF G, B
  <2>3. ASSUME NEW U \in SUBSET T, U # T PROVE g[U] = G(U)[U]
    <3>1. IsSum(G(U), U, value)
      BY <2>2, <2>3
    <3>2. G(U)[U] = IF U = {} THEN 0 ELSE value[Chosen(U)] + G(U)[U \ {Chosen(U)}]
      BY <3>1 DEF IsSum
    <3>3. CASE U = {}
      BY <3>2, <3>3
    <3>4. CASE U # {}
      <4> DEFINE V == U \ {Chosen(U)}
      <4>1. V \subseteq U /\ V # T /\ V \in SUBSET T
        BY <2>3, <3>4
      <4>2. IsSum(G(V), V, value)
        BY <2>2, <4>1
      <4>3. IsFiniteSet(V)
        BY <2>1, FS_Subset
      <4> HIDE DEF V
      <4>4. G(U)[V] = G(V)[V]
        BY <3>1, <4>1, <4>2, <4>3, SumsAgree
      <4>5. QED
        BY <3>2, <3>4, <4>4 DEF V
    <3>5. QED
      BY <3>3, <3>4
  <2>4. ASSUME NEW U \in SUBSET T, U # {}
        PROVE  U \ {Chosen(U)} \in SUBSET T /\ U \ {Chosen(U)} # T
    BY <2>4 DEF Chosen
  <2>5. \A U \in SUBSET T :
          g[U] = IF U = {} THEN 0 ELSE value[Chosen(U)] + g[U \ {Chosen(U)}]
    <3> TAKE U \in SUBSET T
    <3>1. CASE U = {}
      BY <3>1
    <3>2. CASE U # {}
      <4>1. g[U \ {Chosen(U)}] = G(U \ {Chosen(U)})[U \ {Chosen(U)}]
        BY <2>3, <2>4, <3>2
      <4>2. g[U] = value[Chosen(U)] + G(U \ {Chosen(U)})[U \ {Chosen(U)}]
        BY <3>2
      <4> HIDE DEF g
      <4>3. QED
        BY <3>2, <4>1, <4>2
    <3>3. QED
      BY <3>1, <3>2
  <2>6. g = [U \in SUBSET T |-> IF U = {} THEN 0 ELSE value[Chosen(U)] + g[U \ {Chosen(U)}]]
    <3>1. g = [U \in SUBSET T |-> g[U]]
      OBVIOUS
    <3> HIDE DEF g
    <3>2. QED
      BY <2>5, <3>1
  <2> HIDE DEF g
  <2>7. QED
    BY <2>1, <2>6 DEF IsSum
<1>2. B \in SUBSET (SUBSET S)
  OBVIOUS
<1> HIDE DEF B
<1>3. S \notin B
  BY <1>1, <1>2, SmallestExists
<1>4. QED
  BY <1>3 DEF B

\* A sum takes out one element first.
LEMMA SumUnfolds ==
  ASSUME NEW S, IsFiniteSet(S), NEW value
  PROVE  SumOver(S, value) =
           IF S = {} THEN 0 ELSE value[Chosen(S)] + SumOver(S \ {Chosen(S)}, value)
<1> DEFINE G(T) == CHOOSE g : IsSum(g, T, value)
           T == S \ {Chosen(S)}
<1>1. IsFiniteSet(T) /\ T \subseteq S
  BY FS_Subset
<1>2. IsSum(G(S), S, value) /\ IsSum(G(T), T, value)
  <2> HIDE DEF T
  <2>1. QED
    BY <1>1, SumExists
<1>3. SumOver(S, value) = G(S)[S] /\ SumOver(T, value) = G(T)[T]
  BY SumIs
<1> HIDE DEF G, T
<1>4. G(S)[T] = G(T)[T]
  BY <1>1, <1>2, SumsAgree
<1>5. G(S)[S] = IF S = {} THEN 0 ELSE value[Chosen(S)] + G(S)[S \ {Chosen(S)}]
  BY <1>2 DEF IsSum
<1>6. QED
  BY <1>3, <1>4, <1>5 DEF T

LEMMA SumType ==
  ASSUME NEW S, IsFiniteSet(S), NEW value, \A x \in S : value[x] \in Int
  PROVE  SumOver(S, value) \in Int
<1> DEFINE B == {T \in SUBSET S : SumOver(T, value) \notin Int}
<1>1. ASSUME NEW T \in B, \A U \in B : U \subseteq T => U = T
      PROVE  FALSE
  <2>1. T \subseteq S /\ SumOver(T, value) \notin Int
    OBVIOUS
  <2>2. IsFiniteSet(T)
    BY <2>1, FS_Subset
  <2>3. SumOver(T, value) =
          IF T = {} THEN 0 ELSE value[Chosen(T)] + SumOver(T \ {Chosen(T)}, value)
    BY <2>2, SumUnfolds
  <2>4. T # {} /\ Chosen(T) \in T
    BY <2>1, <2>3 DEF Chosen
  <2>5. SumOver(T \ {Chosen(T)}, value) \in Int
    BY <1>1, <2>1, <2>4
  <2>6. QED
    BY <2>1, <2>3, <2>4, <2>5
<1>2. B \in SUBSET (SUBSET S)
  OBVIOUS
<1> HIDE DEF B
<1>3. S \notin B
  BY <1>1, <1>2, SmallestExists
<1>4. QED
  BY <1>3 DEF B
-----------------------------------------------------------------------------
(* Types, rows and memory.                                                 *)

LEMMA SummaryColumns ==
  ASSUME NEW values
  PROVE  SpcSummary(values) = [col \in Columns |-> SpcSummary(values)[col]]
BY DEF SpcSummary, Columns

LEMMA RemovalIsSequence ==
  ASSUME NEW c, NEW s \in Seq(Convs)
  PROVE  RemoveFirst(s, c) \in Seq(Convs)
<1> DEFINE I == {i \in 1 .. Len(s) : s[i] = c}
<1>1. CASE I = {}
  BY <1>1 DEF RemoveFirst
<1>2. CASE I # {}
  <2>0. I \subseteq 1 .. Len(s) /\ I \subseteq Nat
    OBVIOUS
  <2>1. \E i \in I : \A j \in I : i <= j
    <3> HIDE DEF I
    <3>1. QED
      BY <1>2, <2>0, LeastExists
  <2>2. Min(I) \in 1 .. Len(s)
    BY <2>0, <2>1 DEF Min
  <2>3. SelectInSeq(s, LAMBDA v : v = c) = Min(I)
    BY <1>2 DEF SelectInSeq
  <2>4. \A i \in 1 .. Len(s) : RemoveAt(s, i) \in Seq(Convs)
    BY DEF RemoveAt
  <2>5. RemoveFirst(s, c) = RemoveAt(s, Min(I))
    BY <1>2, <2>3 DEF RemoveFirst
  <2>6. QED
    BY <2>2, <2>4, <2>5
<1>3. QED
  BY <1>1, <1>2

LEMMA SetToSeqIsSequence ==
  ASSUME NEW S \in SUBSET Convs
  PROVE  SetToSeq(S) \in Seq(Convs)
<1>1. IsFiniteSet(S)
  BY FS_Subset, ReportAssumption
<1>2. Cardinality(S) \in Nat /\ ExistsBijection(1 .. Cardinality(S), S)
  BY <1>1, FS_CardinalityType
<1>3. PICK f : f \in Bijection(1 .. Cardinality(S), S)
  BY <1>2 DEF ExistsBijection
<1>4. f \in [1 .. Cardinality(S) -> S] /\ IsInjective(f)
  BY <1>3 DEF Bijection, Injection, IsInjective
<1>5. SetToSeq(S) \in [1 .. Cardinality(S) -> S]
  BY <1>4 DEF SetToSeq
<1>6. QED
  BY <1>2, <1>5

LEMMA OrdersAreSequences ==
  ASSUME NEW c \in Convs, order \in Seq(Convs), NEW known
  PROVE  Orders(c, known) \subseteq Seq(Convs)
<1>1. ASSUME NEW i \in 1 .. Len(order) + 1 PROVE InsertAt(order, i, c) \in Seq(Convs)
  <2>1. SubSeq(order, 1, i - 1) \in Seq(Convs) /\ SubSeq(order, i, Len(order)) \in Seq(Convs)
    OBVIOUS
  <2>2. QED
    BY <2>1 DEF InsertAt
<1>2. QED
  BY <1>1 DEF Orders

RowColumns ==
  {"score", "final", "sat", "resolved", "escalated", "scope", "adversarial", "attack",
   "repelled", "veto", "review", "segment"}

\* A row that gets the rubric of another is one.
LEMMA MixedRow ==
  ASSUME NEW row \in Evaluations, NEW old \in Evaluations, NEW K
  PROVE  [col \in RowColumns |-> IF col \in K THEN row[col] ELSE old[col]] \in Evaluations
<1> DEFINE r == [col \in RowColumns |-> IF col \in K THEN row[col] ELSE old[col]]
<1>1. r = [score |-> r["score"], final |-> r["final"], sat |-> r["sat"],
           resolved |-> r["resolved"], escalated |-> r["escalated"], scope |-> r["scope"],
           adversarial |-> r["adversarial"], attack |-> r["attack"],
           repelled |-> r["repelled"], veto |-> r["veto"], review |-> r["review"],
           segment |-> r["segment"]]
  BY DEF RowColumns
<1>2. /\ r["score"] \in 0 .. 100 /\ r["final"] \in 0 .. 100 \cup {None}
      /\ r["sat"] \in 1 .. 5 /\ r["resolved"] \in BOOLEAN /\ r["escalated"] \in BOOLEAN
      /\ r["scope"] \in BOOLEAN /\ r["adversarial"] \in BOOLEAN
      /\ r["attack"] \in AttackTypes \cup {None} /\ r["repelled"] \in BOOLEAN
      /\ r["veto"] \in BOOLEAN /\ r["review"] \in BOOLEAN
      /\ r["segment"] \in STRING \cup {None}
  BY DEF RowColumns, Evaluations
<1> HIDE DEF r
<1>3. r \in Evaluations
  BY <1>1, <1>2, Zenon DEF Evaluations
<1>4. QED
  BY <1>3 DEF r

\* What is written of a conversation that has a row keeps its satisfaction.
LEMMA RowWritten ==
  ASSUME NEW c \in Convs, evaluation[c] \in Evaluations \cup {None}, NEW row \in Evaluations
  PROVE  /\ RowAfter(c, row) \in Evaluations /\ RowAfter(c, row) # None
         /\ RowAfter(c, row).adversarial = row.adversarial
         /\ evaluation[c] # None => RowAfter(c, row).sat = evaluation[c].sat
<1>1. DOMAIN row = RowColumns
  BY DEF Evaluations, RowColumns
<1>2. None \notin Evaluations
  BY NoneAssumption
<1>3. CASE evaluation[c] = None
  BY <1>2, <1>3 DEF RowAfter
<1>4. CASE evaluation[c] # None
  <2> DEFINE r == [col \in RowColumns |->
                     IF col \in RubricColumns THEN row[col] ELSE evaluation[c][col]]
  <2>1. RowAfter(c, row) = r
    BY <1>1, <1>4 DEF RowAfter
  <2>2. r \in Evaluations
    BY <1>4, MixedRow
  <2>3. r.adversarial = row.adversarial /\ r.sat = evaluation[c].sat
    BY DEF RubricColumns, RowColumns
  <2> HIDE DEF r
  <2>4. QED
    BY <1>2, <2>1, <2>2, <2>3
<1>5. QED
  BY <1>3, <1>4

LEMMA StoredAreVerdicts ==
  ASSUME NEW a, NEW c, NEW said \in Seq(MessageVerdicts)
  PROVE  /\ Stored(a, c, said) \in SUBSET MessageVerdicts
         /\ \A v \in Stored(a, c, said) : \E p \in DOMAIN said : v = said[p]
BY DEF Stored

\* The answer that a run counts of a judgement.
AnswerOf(a, j) == Answer(Subject(a), j.verdicts, IF IsNew(a) THEN j.frauds ELSE {})

\* A commit, one item of the state after another.
LEMMA CommitEffect ==
  ASSUME Typed, NEW a \in Audits, Commit(a)
  PROVE  /\ pc[a] = "judge" /\ txn[a] \in Transactions /\ txn[a] # None
         /\ UNCHANGED <<plan, deleted, deletedEvals, deletedVerdicts, chart, reports, pc,
                        runs, convIds, todo, seen, series, loaded, late, stale>>
         /\ txn' = [txn EXCEPT ![a] = None]
         /\ \E j \in Judgements :
              /\ IsNew(a) => j.row.adversarial = (Subject(a) \in plan.attacked)
              /\ evaluation' = [evaluation EXCEPT ![Subject(a)] =
                                  IF IsNew(a) THEN RowAfter(Subject(a), j.row) ELSE @]
              /\ order' \in Seq(Convs)
              /\ verdicts' = [verdicts EXCEPT ![a][Subject(a)] =
                                @ \cup Stored(a, Subject(a), j.verdicts)]
              /\ issues' = [issues EXCEPT ![a] =
                              IF txn[a].dup THEN @ ELSE @ \cup Found(AnswerOf(a, j))]
              /\ DOMAIN unhandled' = DOMAIN unhandled
              /\ heard' = [heard EXCEPT ![a] = @ \cup {AnswerOf(a, j)}]
<1>1. /\ pc[a] = "judge" /\ txn[a] \in Transactions /\ txn[a] # None
      /\ UNCHANGED <<plan, deleted, deletedEvals, deletedVerdicts, chart, reports, pc,
                     runs, convIds, todo, seen, series, loaded, late, stale>>
      /\ txn' = [txn EXCEPT ![a] = None]
  BY DEF Commit, Typed
<1>2. PICK j \in Judgements :
        /\ IsNew(a) => j.row.adversarial = (Subject(a) \in plan.attacked)
        /\ evaluation' = [evaluation EXCEPT ![Subject(a)] =
                            IF IsNew(a) THEN RowAfter(Subject(a), j.row) ELSE @]
        /\ order' \in IF evaluation[Subject(a)] = None /\ IsNew(a)
                      THEN Orders(Subject(a), txn[a].known) ELSE {order}
        /\ verdicts' = [verdicts EXCEPT ![a][Subject(a)] =
                          @ \cup Stored(a, Subject(a), j.verdicts)]
        /\ issues' = [issues EXCEPT ![a] =
                        IF txn[a].dup THEN @ ELSE @ \cup Found(AnswerOf(a, j))]
        /\ DOMAIN unhandled' = DOMAIN unhandled
        /\ heard' = [heard EXCEPT ![a] = @ \cup {AnswerOf(a, j)}]
  BY Zenon DEF Commit, Subject, IsNew, AnswerOf
<1>3. Subject(a) \in Convs
  BY <1>1 DEF Transactions, Subject
<1>4. order' \in Seq(Convs)
  BY <1>2, <1>3, OrdersAreSequences DEF Typed
<1>5. QED
  BY <1>1, <1>2, <1>4

LEMMA InitBase == Init => Base
<1> SUFFICES ASSUME Init PROVE Base
  OBVIOUS
<1>1. order \in Seq(Convs)
  BY SetToSeqIsSequence DEF Init
<1>2. chart = [col \in Columns |-> chart[col]]
  BY SummaryColumns DEF Init, NoChart, Columns
<1>3. Typed
  BY <1>1, <1>2, ReportAssumption DEF Init, Typed
<1>4. RowsAgree
  BY DEF Init, RowsAgree
<1>5. MemoryAgrees
  BY DEF Init, MemoryAgrees, MemoryOf, HeardOf
<1>6. QED
  BY <1>3, <1>4, <1>5 DEF Base

LEMMA CommitKeepsBase ==
  ASSUME Base, NEW a \in Audits, Commit(a)
  PROVE  Base'
<1> DEFINE c == Subject(a)
<1> USE DEF Base, reports
<1>1. /\ pc[a] = "judge" /\ txn[a] \in Transactions /\ txn[a] # None
      /\ UNCHANGED <<plan, deleted, deletedEvals, deletedVerdicts, chart, reports, pc,
                     runs, convIds, todo, seen, series, loaded, late, stale>>
      /\ txn' = [txn EXCEPT ![a] = None]
  BY CommitEffect
<1>2. PICK j \in Judgements :
        /\ IsNew(a) => j.row.adversarial = (c \in plan.attacked)
        /\ evaluation' = [evaluation EXCEPT ![c] = IF IsNew(a) THEN RowAfter(c, j.row) ELSE @]
        /\ order' \in Seq(Convs)
        /\ verdicts' = [verdicts EXCEPT ![a][c] = @ \cup Stored(a, c, j.verdicts)]
        /\ issues' = [issues EXCEPT ![a] =
                        IF txn[a].dup THEN @ ELSE @ \cup Found(AnswerOf(a, j))]
        /\ DOMAIN unhandled' = DOMAIN unhandled
        /\ heard' = [heard EXCEPT ![a] = @ \cup {AnswerOf(a, j)}]
  BY CommitEffect
<1>3. c \in Convs /\ c \in Links(a) /\ c \in convIds[a] \ todo[a]
  BY <1>1 DEF Transactions, Subject, MemoryAgrees, MemoryOf
<1>4. j.row \in Evaluations /\ j.verdicts \in Seq(MessageVerdicts)
  BY ReportAssumption
<1>5. /\ RowAfter(c, j.row) \in Evaluations /\ RowAfter(c, j.row) # None
      /\ RowAfter(c, j.row).adversarial = j.row.adversarial
  BY <1>3, <1>4, RowWritten DEF Typed
<1>6. Stored(a, c, j.verdicts) \in SUBSET MessageVerdicts
  BY <1>4, StoredAreVerdicts
<1>7. ~IsNew(a) => evaluation[c] # None
  BY <1>1 DEF RowsAgree, IsNew
<1>8. IsNew(a) => plan.old[c] = None
  BY <1>1 DEF RowsAgree
<1> HIDE DEF c
<1>9. \A d \in Convs : evaluation'[d] = IF d = c /\ IsNew(a) THEN RowAfter(c, j.row)
                                        ELSE evaluation[d]
  BY <1>2 DEF Typed
<1>10. /\ \A d \in Convs : evaluation[d] # None => evaluation'[d] # None
       /\ evaluation'[c] # None
  BY <1>3, <1>5, <1>7, <1>9
<1>11. \A b \in Audits, d \in Convs :
         verdicts'[b][d] = IF b = a /\ d = c THEN verdicts[b][d] \cup Stored(a, c, j.verdicts)
                           ELSE verdicts[b][d]
  BY <1>2 DEF Typed
<1>12. \A b \in Audits :
         /\ txn'[b] = IF b = a THEN None ELSE txn[b]
         /\ heard'[b] = IF b = a THEN heard[b] \cup {AnswerOf(a, j)} ELSE heard[b]
  BY <1>1, <1>2 DEF Typed
<1>13. AnswerOf(a, j).conv = c
  BY DEF AnswerOf, Answer, c
<1>14. Typed'
  <2>1. verdicts' \in [Audits -> [Convs -> SUBSET MessageVerdicts]]
    BY <1>2, <1>3, <1>6 DEF Typed
  <2>2. evaluation' \in [Convs -> Evaluations \cup {None}]
    BY <1>2, <1>3, <1>5 DEF Typed
  <2>3. txn' \in [Audits -> Transactions \cup {None}]
    BY <1>1 DEF Typed
  <2>4. chart' = [col \in Columns |-> chart'[col]]
    BY <1>1 DEF Typed
  <2>5. DOMAIN issues' = Audits /\ DOMAIN heard' = Audits /\ DOMAIN unhandled' = Audits
    BY <1>2 DEF Typed
  <2>6. QED
    BY <1>1, <1>2, <2>1, <2>2, <2>3, <2>4, <2>5 DEF Typed
<1>15. RowsAgree'
  <2>1. ASSUME NEW d \in Convs
        PROVE  /\ plan'.old[d] # None => evaluation'[d] # None
               /\ plan'.old[d] = None /\ evaluation'[d] # None =>
                    evaluation'[d].adversarial = (d \in plan'.attacked)
    BY <1>1, <1>2, <1>5, <1>8, <1>9, <1>10 DEF RowsAgree, c
  <2>2. ASSUME NEW b \in Audits, NEW d \in Convs, verdicts'[b][d] # {}
        PROVE  d \in Links(b)' /\ evaluation'[d] # None
    BY <1>1, <1>3, <1>10, <1>11, <2>2 DEF RowsAgree, Links
  <2>3. ASSUME NEW b \in Audits, txn'[b] # None
        PROVE  /\ \A d \in txn'[b].known : evaluation'[d] # None
               /\ IsNew(b)' => plan'.old[Subject(b)'] = None
    <3>1. b # a /\ txn'[b] = txn[b] /\ txn[b] \in Transactions
      BY <1>12, <2>3 DEF Typed
    <3>2. txn[b].known \subseteq Convs
      BY <3>1 DEF Transactions
    <3>3. \A d \in txn[b].known : evaluation[d] # None
      BY <2>3, <3>1 DEF RowsAgree
    <3>4. Subject(b)' = Subject(b) /\ (IsNew(b)' <=> IsNew(b))
      BY <3>1 DEF IsNew, Subject
    <3>5. IsNew(b) => plan.old[Subject(b)] = None
      BY <2>3, <3>1 DEF RowsAgree
    <3>6. QED
      BY <1>1, <1>10, <3>1, <3>2, <3>3, <3>4, <3>5
  <2>4. QED
    BY <2>1, <2>2, <2>3 DEF RowsAgree
<1>16. MemoryAgrees'
  <2> SUFFICES ASSUME NEW b \in Audits PROVE MemoryOf(b)'
    BY DEF MemoryAgrees
  <2>1. convIds[b] \subseteq Convs
    BY DEF Typed
  <2>2. CASE b # a
    <3>1. txn'[b] = txn[b] /\ heard'[b] = heard[b]
      BY <1>12, <2>2
    <3>2. QED
      BY <1>1, <1>10, <2>1, <3>1 DEF MemoryAgrees, MemoryOf, HeardOf, Content, Links, Subject
  <2>3. CASE b = a
    <3>1. txn'[a] = None /\ heard'[a] = heard[a] \cup {AnswerOf(a, j)}
      BY <1>12
    <3>2. \A k : HeardOf(a, k)' <=> HeardOf(a, k) \/ k = Content(c)
      BY <1>1, <1>13, <3>1 DEF HeardOf, Content
    <3>3. QED
      BY <1>1, <1>3, <1>10, <1>13, <2>1, <2>3, <3>1, <3>2 DEF MemoryAgrees, MemoryOf, Links, Content, c
  <2>4. QED
    BY <2>2, <2>3
<1>17. QED
  BY <1>14, <1>15, <1>16

\* Loads: a run forgets what it had and has some conversations to open.
LEMMA LoadsEffect ==
  ASSUME Typed, NEW a \in Audits, NEW convs, Loads(a, convs)
  PROVE  /\ DOMAIN seen' = Audits /\ DOMAIN issues' = Audits /\ DOMAIN unhandled' = Audits
         /\ DOMAIN heard' = Audits
         /\ convIds' = [convIds EXCEPT ![a] = convs]
         /\ todo' = [todo EXCEPT ![a] = convs]
         /\ \A b \in Audits :
              /\ convIds'[b] = IF b = a THEN convs ELSE convIds[b]
              /\ todo'[b] = IF b = a THEN convs ELSE todo[b]
              /\ seen'[b] = IF b = a THEN {} ELSE seen[b]
              /\ heard'[b] = IF b = a THEN {} ELSE heard[b]
              /\ issues'[b] = IF b = a THEN {} ELSE issues[b]
BY DEF Loads, Typed

\* A run that forgets is a new one, or none.
LEMMA ForgettingKeepsMemory ==
  ASSUME Base, NEW a \in Audits, NEW convs, Loads(a, convs),
         UNCHANGED <<plan, evaluation, deleted>>,
         \A b \in Audits : b # a => pc'[b] = pc[b] /\ txn'[b] = txn[b],
         txn'[a] = None, convs \subseteq Links(a),
         pc'[a] # "judge" => convs = {},
         pc'[a] # "stopped" => convs = Links(a) \ deleted
  PROVE  MemoryAgrees'
<1> USE DEF Base
<1>1. \A b \in Audits :
        /\ convIds'[b] = IF b = a THEN convs ELSE convIds[b]
        /\ todo'[b] = IF b = a THEN convs ELSE todo[b]
        /\ seen'[b] = IF b = a THEN {} ELSE seen[b]
        /\ heard'[b] = IF b = a THEN {} ELSE heard[b]
  BY LoadsEffect
<1>2. \A b \in Audits : b # a => txn'[b] = txn[b] /\ heard'[b] = heard[b] /\ seen'[b] = seen[b]
  BY <1>1
<1>3. \A b \in Audits : Links(b)' = Links(b)
  BY DEF Links
<1> SUFFICES ASSUME NEW b \in Audits PROVE MemoryOf(b)'
  BY DEF MemoryAgrees
<1>4. CASE b # a
  BY <1>1, <1>2, <1>3, <1>4 DEF MemoryAgrees, MemoryOf, HeardOf, Content, Subject
<1>5. CASE b = a
  BY <1>1, <1>3, <1>5 DEF MemoryOf, HeardOf
<1>6. QED
  BY <1>4, <1>5

LEMMA StartKeepsBase ==
  ASSUME Base, NEW a \in Audits, Start(a)
  PROVE  Base'
<1> USE DEF Base, rows, reports
<1>1. /\ pc[a] \in {"stopped", "active"}
      /\ runs' = [runs EXCEPT ![a] = @ + 1]
      /\ pc' = [pc EXCEPT ![a] = "judge"]
      /\ Loads(a, Links(a) \ deleted)
      /\ UNCHANGED <<plan, rows, chart, reports, txn, series, loaded, late, stale>>
  BY DEF Start
<1>2. Links(a) \subseteq Convs
  BY ReportAssumption DEF Typed, Links
<1>3. /\ DOMAIN seen' = Audits /\ DOMAIN issues' = Audits /\ DOMAIN unhandled' = Audits
      /\ DOMAIN heard' = Audits
      /\ convIds' = [convIds EXCEPT ![a] = Links(a) \ deleted]
      /\ todo' = [todo EXCEPT ![a] = Links(a) \ deleted]
  BY <1>1, LoadsEffect
<1>4. Typed'
  <2>1. chart' = [col \in Columns |-> chart'[col]]
    BY <1>1 DEF Typed
  <2>2. convIds' \in [Audits -> SUBSET Convs] /\ todo' \in [Audits -> SUBSET Convs]
    BY <1>2, <1>3 DEF Typed
  <2>3. runs' \in [Audits -> Nat]
    BY <1>1 DEF Typed
  <2>4. QED
    BY <1>1, <1>3, <2>1, <2>2, <2>3 DEF Typed
<1>5. RowsAgree'
  BY <1>1 DEF RowsAgree, IsNew, Subject, Links
<1>6. txn[a] = None
  BY <1>1 DEF MemoryAgrees, MemoryOf
<1>7. MemoryAgrees'
  <2>1. \A b \in Audits : b # a => pc'[b] = pc[b] /\ txn'[b] = txn[b]
    BY <1>1 DEF Typed
  <2>2. txn'[a] = None /\ pc'[a] = "judge" /\ UNCHANGED <<plan, evaluation, deleted>>
    BY <1>1, <1>6 DEF Typed
  <2>3. QED
    BY <1>1, <2>1, <2>2, ForgettingKeepsMemory
<1>8. QED
  BY <1>4, <1>5, <1>7

LEMMA InterruptKeepsBase ==
  ASSUME Base, NEW a \in Audits, Interrupt(a)
  PROVE  Base'
<1> USE DEF Base, rows, reports
<1>1. /\ pc' = [pc EXCEPT ![a] = "stopped"]
      /\ txn' = [txn EXCEPT ![a] = None]
      /\ Loads(a, {})
      /\ UNCHANGED <<plan, rows, chart, reports, runs, series, loaded, late>>
  BY DEF Interrupt
<1>2. /\ DOMAIN seen' = Audits /\ DOMAIN issues' = Audits /\ DOMAIN unhandled' = Audits
      /\ DOMAIN heard' = Audits
      /\ convIds' = [convIds EXCEPT ![a] = {}]
      /\ todo' = [todo EXCEPT ![a] = {}]
  BY <1>1, LoadsEffect
<1>3. Typed'
  <2>1. chart' = [col \in Columns |-> chart'[col]]
    BY <1>1 DEF Typed
  <2>2. convIds' \in [Audits -> SUBSET Convs] /\ todo' \in [Audits -> SUBSET Convs]
    BY <1>2 DEF Typed
  <2>3. QED
    BY <1>1, <1>2, <2>1, <2>2 DEF Typed
<1>4. \A b \in Audits : txn'[b] = IF b = a THEN None ELSE txn[b]
  BY <1>1 DEF Typed
<1>5. RowsAgree'
  <2>1. ASSUME NEW b \in Audits, txn'[b] # None
        PROVE  txn'[b] = txn[b] /\ txn[b] # None
    BY <1>4, <2>1
  <2>2. QED
    BY <1>1, <2>1 DEF RowsAgree, IsNew, Subject, Links
<1>6. MemoryAgrees'
  <2>1. /\ \A b \in Audits : b # a => pc'[b] = pc[b] /\ txn'[b] = txn[b]
        /\ txn'[a] = None /\ pc'[a] = "stopped" /\ UNCHANGED <<plan, evaluation, deleted>>
    BY <1>1, <1>4 DEF Typed
  <2>2. QED
    BY <1>1, <2>1, ForgettingKeepsMemory
<1>7. QED
  BY <1>3, <1>5, <1>6

LEMMA OpenKeepsBase ==
  ASSUME Base, NEW a \in Audits, NEW c \in Convs, Open(a, c)
  PROVE  Base'
<1> DEFINE opened == [conv |-> c, dup |-> IsDuplicate(a, c), known |-> Evaluated]
<1> USE DEF Base, rows, reports
<1>1. /\ pc[a] = "judge" /\ txn[a] = None /\ c \in todo[a] \ deleted
      /\ txn' = [txn EXCEPT ![a] = opened]
      /\ todo' = [todo EXCEPT ![a] = @ \ {c}]
      /\ seen' = [seen EXCEPT ![a] = @ \cup {Content(c)}]
      /\ UNCHANGED <<plan, rows, chart, reports, pc, runs, convIds, issues, unhandled,
                     heard, series, loaded, late, stale>>
  BY DEF Open
<1>2. opened \in Transactions /\ opened # None
  <2>1. Evaluated \in SUBSET Convs /\ IsDuplicate(a, c) \in BOOLEAN
    BY DEF Evaluated, IsDuplicate
  <2>2. opened \in Transactions
    BY <2>1 DEF Transactions
  <2>3. QED
    BY <2>2, ReportAssumption
<1>3. opened.conv = c /\ opened.known = Evaluated /\ (opened.dup <=> Content(c) \in seen[a])
  BY DEF IsDuplicate
<1> HIDE DEF opened
<1>4. \A b \in Audits :
        /\ txn'[b] = IF b = a THEN opened ELSE txn[b]
        /\ todo'[b] = IF b = a THEN todo[b] \ {c} ELSE todo[b]
        /\ seen'[b] = IF b = a THEN seen[b] \cup {Content(c)} ELSE seen[b]
  BY <1>1 DEF Typed
<1>5. Typed'
  <2>1. chart' = [col \in Columns |-> chart'[col]]
    BY <1>1 DEF Typed
  <2>2. todo' \in [Audits -> SUBSET Convs] /\ txn' \in [Audits -> Transactions \cup {None}]
    BY <1>1, <1>2 DEF Typed
  <2>3. QED
    BY <1>1, <2>1, <2>2 DEF Typed
<1>6. RowsAgree'
  <2>1. c \notin Evaluated => plan.old[c] = None
    BY <1>1 DEF Evaluated, Typed, RowsAgree
  <2>2. \A d \in Evaluated : evaluation[d] # None
    BY DEF Evaluated
  <2>3. ASSUME NEW b \in Audits, txn'[b] # None
        PROVE  /\ \A d \in txn'[b].known : evaluation'[d] # None
               /\ IsNew(b)' => plan'.old[Subject(b)'] = None
    <3>1. CASE b = a
      BY <1>1, <1>3, <1>4, <2>1, <2>2, <3>1 DEF IsNew, Subject
    <3>2. CASE b # a
      <4>1. txn'[b] = txn[b]
        BY <1>4, <3>2
      <4>2. QED
        BY <1>1, <2>3, <4>1 DEF RowsAgree, IsNew, Subject
    <3>3. QED
      BY <3>1, <3>2
  <2>4. QED
    BY <1>1, <2>3 DEF RowsAgree, Links
<1>7. MemoryAgrees'
  <2> SUFFICES ASSUME NEW b \in Audits PROVE MemoryOf(b)'
    BY DEF MemoryAgrees
  <2>1. CASE b # a
    <3>1. txn'[b] = txn[b] /\ todo'[b] = todo[b] /\ seen'[b] = seen[b] /\ heard'[b] = heard[b]
      BY <1>1, <1>4, <2>1
    <3>2. QED
      BY <1>1, <3>1 DEF MemoryAgrees, MemoryOf, HeardOf, Content, Links, Subject
  <2>2. CASE b = a
    <3>1. /\ txn'[a] = opened /\ todo'[a] = todo[a] \ {c} /\ Subject(a)' = c
          /\ seen'[a] = seen[a] \cup {Content(c)} /\ heard'[a] = heard[a]
      BY <1>1, <1>3, <1>4 DEF Subject
    <3>2. \A k : (HeardOf(a, k)' <=> HeardOf(a, k)) /\ (k \in seen[a] <=> HeardOf(a, k))
      BY <1>1, <3>1 DEF HeardOf, Content, MemoryAgrees, MemoryOf
    <3>3. opened.dup <=> HeardOf(a, Content(c))
      BY <1>3, <3>2
    <3>4. Content(c)' = Content(c) /\ Links(a)' = Links(a)
      BY <1>1 DEF Content, Links
    <3>5. /\ c \in convIds[a] /\ todo[a] \subseteq convIds[a]
          /\ \A h \in heard[a] : h.conv \in convIds[a] \ todo[a]
      BY <1>1 DEF MemoryAgrees, MemoryOf
    <3>6. \A d \in convIds[a] \ (todo'[a] \cup deleted) :
            d = c \/ \E h \in heard[a] : h.conv = d
      BY <1>1, <3>1 DEF MemoryAgrees, MemoryOf
    <3>7. \A k : k \in seen'[a] <=> HeardOf(a, k)' \/ k = Content(c)
      BY <3>1, <3>2
    <3>8. \A h \in heard[a] : h.conv # c /\ evaluation[h.conv] # None
      BY <1>1, <3>5 DEF MemoryAgrees, MemoryOf
    <3>9. /\ opened # None
          /\ Links(a) \ deleted \subseteq convIds[a] /\ convIds[a] \subseteq Links(a)
      BY <1>1, <1>2 DEF MemoryAgrees, MemoryOf
    <3>10. QED
      BY <1>1, <2>2, <3>1, <3>2, <3>3, <3>4, <3>5, <3>6, <3>7, <3>8, <3>9 DEF MemoryOf
  <2>3. QED
    BY <2>1, <2>2
<1>8. QED
  BY <1>5, <1>6, <1>7

\* The steps of a run that open and judge nothing.
LEMMA OthersKeepBase ==
  ASSUME Base, NEW a \in Audits,
         (\E c \in Convs : Skip(a, c)) \/ ReadScores(a) \/ WriteChart(a) \/ Finish(a)
  PROVE  Base'
<1> USE DEF Base, rows, reports, memory
<1>1. ASSUME NEW c \in Convs, Skip(a, c) PROVE Base'
  <2>1. /\ pc[a] = "judge" /\ txn[a] = None /\ c \in deleted
        /\ todo' = [todo EXCEPT ![a] = @ \ {c}]
        /\ UNCHANGED <<plan, rows, chart, reports, pc, runs, txn, convIds, seen, issues,
                       unhandled, heard, series, loaded, late, stale>>
    BY <1>1 DEF Skip
  <2>2. Typed'
    <3>1. chart' = [col \in Columns |-> chart'[col]] /\ todo' \in [Audits -> SUBSET Convs]
      BY <2>1 DEF Typed
    <3>2. QED
      BY <2>1, <3>1 DEF Typed
  <2>3. RowsAgree'
    BY <2>1 DEF RowsAgree, IsNew, Subject, Links
  <2>4. ASSUME NEW b \in Audits PROVE MemoryOf(b)'
    <3>1. todo'[b] = IF b = a THEN todo[b] \ {c} ELSE todo[b]
      BY <2>1 DEF Typed
    <3>2. MemoryOf(b)
      BY DEF MemoryAgrees
    <3>3. QED
      BY <2>1, <3>1, <3>2 DEF MemoryOf, HeardOf, Content, Links, Subject
  <2>5. QED
    BY <2>2, <2>3, <2>4 DEF MemoryAgrees
<1>2. ASSUME UNCHANGED <<plan, rows, runs, txn, memory>>, NEW p,
             p \in {"chart", "finish", "active"}, pc' = [pc EXCEPT ![a] = p],
             pc[a] \in {"judge", "chart", "finish"},
             todo[a] = {} /\ txn[a] = None,
             chart' = [col \in Columns |-> chart'[col]],
             DOMAIN summary' = Audits, DOMAIN suggestions' = Audits,
             DOMAIN series' = Audits, DOMAIN loaded' = Audits
      PROVE  Base'
  <2>1. Typed'
    BY <1>2 DEF Typed
  <2>2. RowsAgree'
    BY <1>2 DEF RowsAgree, IsNew, Subject, Links
  <2>3. ASSUME NEW b \in Audits PROVE MemoryOf(b)'
    <3>1. pc'[b] = IF b = a THEN p ELSE pc[b]
      BY <1>2 DEF Typed
    <3>2. MemoryOf(b)
      BY DEF MemoryAgrees
    <3>3. QED
      BY <1>2, <3>1, <3>2 DEF MemoryOf, HeardOf, Content, Links, Subject
  <2>4. QED
    BY <2>1, <2>2, <2>3 DEF MemoryAgrees
<1>3. pc[a] # "judge" => todo[a] = {} /\ txn[a] = None
  BY DEF MemoryAgrees, MemoryOf
<1>4. CASE ReadScores(a)
  <2>1. /\ pc[a] = "judge" /\ todo[a] = {} /\ txn[a] = None
        /\ pc' = [pc EXCEPT ![a] = IF seen[a] = {} THEN "finish" ELSE "chart"]
        /\ DOMAIN series' = Audits /\ DOMAIN loaded' = Audits
        /\ UNCHANGED <<plan, rows, chart, reports, runs, txn, memory>>
    BY <1>4 DEF ReadScores, Typed
  <2>2. (IF seen[a] = {} THEN "finish" ELSE "chart") \in {"chart", "finish", "active"}
    OBVIOUS
  <2>3. chart' = [col \in Columns |-> chart'[col]]
    BY <2>1 DEF Typed
  <2>4. DOMAIN summary' = Audits /\ DOMAIN suggestions' = Audits
    BY <2>1 DEF Typed
  <2>5. QED
    BY <1>2, <2>1, <2>2, <2>3, <2>4
<1>5. CASE WriteChart(a)
  <2>1. chart' = [col \in Columns |-> chart'[col]]
    BY <1>5 DEF WriteChart, WrittenColumns, Typed
  <2>2. /\ pc[a] = "chart" /\ pc' = [pc EXCEPT ![a] = "finish"]
        /\ UNCHANGED <<plan, rows, reports, runs, txn, memory, series, loaded>>
    BY <1>5 DEF WriteChart
  <2>3. /\ DOMAIN summary' = Audits /\ DOMAIN suggestions' = Audits
        /\ DOMAIN series' = Audits /\ DOMAIN loaded' = Audits
    BY <2>2 DEF Typed
  <2>4. QED
    BY <1>2, <1>3, <2>1, <2>2, <2>3
<1>6. CASE Finish(a)
  <2>1. /\ pc[a] = "finish" /\ pc' = [pc EXCEPT ![a] = "active"]
        /\ UNCHANGED <<plan, rows, chart, runs, txn, memory, series, loaded>>
        /\ DOMAIN summary' = DOMAIN summary
    BY <1>6 DEF Finish
  <2>2. DOMAIN suggestions' = DOMAIN suggestions
    BY <1>6 DEF Finish
  <2>3. chart' = [col \in Columns |-> chart'[col]]
    BY <2>1 DEF Typed
  <2>4. /\ DOMAIN summary' = Audits /\ DOMAIN suggestions' = Audits
        /\ DOMAIN series' = Audits /\ DOMAIN loaded' = Audits
    BY <2>1, <2>2 DEF Typed
  <2>5. QED
    BY <1>2, <1>3, <2>1, <2>3, <2>4
<1>7. QED
  BY <1>1, <1>4, <1>5, <1>6

\* A delete is no step of an audit.
LEMMA DeleteKeepsBase ==
  ASSUME Base, NEW c \in Convs, DeleteConversation(c)
  PROVE  Base'
<1> USE DEF Base, reports, memory
<1>1. /\ deleted' = deleted \cup {c}
      /\ deletedEvals' = deletedEvals \cup ({c} \cap Evaluated)
      /\ deletedVerdicts' = [a \in Audits |-> [deletedVerdicts[a] EXCEPT ![c] = verdicts[a][c]]]
      /\ order' = RemoveFirst(order, c)
      /\ UNCHANGED <<plan, evaluation, verdicts, chart, reports, pc, runs, txn, memory,
                     series, loaded>>
  BY DEF DeleteConversation
<1>2. Typed'
  <2>1. order' \in Seq(Convs)
    BY <1>1, RemovalIsSequence DEF Typed
  <2>2. deletedVerdicts' \in [Audits -> [Convs -> SUBSET MessageVerdicts]]
    BY <1>1 DEF Typed
  <2>3. chart' = [col \in Columns |-> chart'[col]]
    BY <1>1 DEF Typed
  <2>4. deleted' \in SUBSET Convs /\ deletedEvals' \in SUBSET deleted'
    BY <1>1 DEF Typed
  <2>5. QED
    BY <1>1, <2>1, <2>2, <2>3, <2>4 DEF Typed
<1>3. RowsAgree'
  BY <1>1 DEF RowsAgree, IsNew, Subject, Links
<1>4. ASSUME NEW b \in Audits PROVE MemoryOf(b)'
  <2>1. MemoryOf(b)
    BY DEF MemoryAgrees
  <2>2. QED
    BY <1>1, <2>1 DEF MemoryOf, HeardOf, Content, Links, Subject
<1>5. QED
  BY <1>2, <1>3, <1>4 DEF MemoryAgrees

LEMMA StutterKeepsBase ==
  ASSUME Base, UNCHANGED vars
  PROVE  Base'
<1> USE DEF Base, vars, rows, reports, memory
<1>1. Typed' /\ RowsAgree'
  BY DEF Typed, RowsAgree, IsNew, Subject, Links
<1>2. ASSUME NEW b \in Audits PROVE MemoryOf(b)'
  BY DEF MemoryAgrees, MemoryOf, HeardOf, Content, Links, Subject
<1>3. QED
  BY <1>1, <1>2 DEF MemoryAgrees

LEMMA StepBase == Base /\ [Next]_vars => Base'
BY StartKeepsBase, CommitKeepsBase, OpenKeepsBase, InterruptKeepsBase, OthersKeepBase,
   DeleteKeepsBase, StutterKeepsBase DEF Next
-----------------------------------------------------------------------------
(* The control chart.                                                      *)

\* A run that has committed an answer and is still to read the scores.
InDebt(a) == pc[a] = "judge" /\ heard[a] # {}

\* Since the last time that a run read the scores alone, unless a run has ended before
\* its chart, runs have crossed or scores have been deleted: one run at a time is at the
\* chart and has read the columns that are there and, unless somebody has judged since
\* and will come to the chart later, all the scores; and the chart is that of all
\* scores unless somebody is at it or will come to it.
ChartFollows ==
  ~stale =>
    /\ \A a, b \in Audits : pc[a] = "chart" /\ pc[b] = "chart" => a = b
    /\ \A a \in Audits : pc[a] = "chart" => loaded[a] = chart
    /\ (\A b \in Audits : ~InDebt(b)) =>
         /\ \A a \in Audits : pc[a] = "chart" => series[a] = Scores
         /\ (\A a \in Audits : pc[a] # "chart") /\ HasBaseline(Scores) =>
              chart = SpcSummary(Scores)

\* A run at the chart has something to put into it.
ChartHasReason == \A a \in Audits : pc[a] = "chart" => heard[a] # {}

LEMMA InitChart == Init => ChartFollows /\ ChartHasReason
BY DEF Init, ChartFollows, ChartHasReason

\* The scores depend on the rows and on the plan.
LEMMA ScoresStay ==
  ASSUME UNCHANGED <<plan, evaluation, order>>
  PROVE  Scores' = Scores
BY DEF Scores

\* A run that has read the columns that are there replaces them.
LEMMA ColumnsReplaced ==
  ASSUME Typed, NEW values
  PROVE  WrittenColumns(SpcSummary(values), chart) = SpcSummary(values)
<1> DEFINE new == SpcSummary(values)
<1>1. DOMAIN chart = Columns
  BY DEF Typed
<1>2. new = [col \in Columns |-> new[col]]
  BY SummaryColumns
<1> HIDE DEF new
<1>3. WrittenColumns(new, chart) = [col \in Columns |-> new[col]]
  BY <1>1 DEF WrittenColumns
<1>4. QED
  BY <1>2, <1>3 DEF new

\* Between two transactions a run has seen contents if and only if it has heard of some.
LEMMA SeenIsHeard ==
  ASSUME Base, NEW a \in Audits
  PROVE  /\ heard[a] # {} => seen[a] # {}
         /\ seen[a] # {} /\ txn[a] = None => heard[a] # {}
BY DEF Base, MemoryAgrees, MemoryOf, HeardOf

LEMMA ReasonStep == Base /\ ChartHasReason /\ [Next]_vars => ChartHasReason'
<1> SUFFICES ASSUME Base, ChartHasReason, [Next]_vars, NEW b \in Audits, pc'[b] = "chart"
             PROVE  heard'[b] # {}
  BY DEF ChartHasReason
<1> USE DEF Base, Typed, ChartHasReason, memory
<1>1. ASSUME NEW a \in Audits, Start(a) \/ Interrupt(a) PROVE heard'[b] # {}
  <2>1. pc'[a] # "chart" /\ \A d \in Audits : d # a => pc'[d] = pc[d] /\ heard'[d] = heard[d]
    BY <1>1 DEF Start, Interrupt, Loads
  <2>2. QED
    BY <2>1
<1>2. ASSUME NEW a \in Audits, Commit(a) PROVE heard'[b] # {}
  <2>1. pc' = pc
    BY <1>2 DEF Commit
  <2>2. PICK h : heard' = [heard EXCEPT ![a] = @ \cup {h}]
    BY <1>2, CommitEffect
  <2>3. QED
    BY <2>1, <2>2
<1>3. ASSUME NEW a \in Audits, NEW c \in Convs, Open(a, c) \/ Skip(a, c) PROVE heard'[b] # {}
  BY <1>3 DEF Open, Skip
<1>4. ASSUME NEW a \in Audits, ReadScores(a) PROVE heard'[b] # {}
  <2>1. /\ txn[a] = None /\ pc' = [pc EXCEPT ![a] = IF seen[a] = {} THEN "finish" ELSE "chart"]
        /\ heard' = heard
    BY <1>4 DEF ReadScores
  <2>2. QED
    BY <2>1, SeenIsHeard
<1>5. ASSUME NEW a \in Audits, WriteChart(a) \/ Finish(a) PROVE heard'[b] # {}
  <2>1. pc'[a] # "chart" /\ heard' = heard /\ \A d \in Audits : d # a => pc'[d] = pc[d]
    BY <1>5 DEF WriteChart, Finish
  <2>2. QED
    BY <2>1
<1>6. ASSUME NEW c \in Convs, DeleteConversation(c) PROVE heard'[b] # {}
  BY <1>6 DEF DeleteConversation
<1>7. CASE UNCHANGED vars
  BY <1>7 DEF vars
<1>8. QED
  BY <1>1, <1>2, <1>3, <1>4, <1>5, <1>6, <1>7 DEF Next

LEMMA ChartStep == Base /\ ChartFollows /\ ChartHasReason /\ [Next]_vars => ChartFollows'
<1> SUFFICES ASSUME Base, ChartFollows, ChartHasReason, [Next]_vars, ~stale'
             PROVE  ChartFollows'
  BY DEF ChartFollows
<1> USE DEF Base, Typed, rows, reports, memory
\* A step of a run that keeps the scores and is at the chart neither before nor after.
<1>1. ASSUME UNCHANGED <<plan, evaluation, order, chart, series, loaded>>, ~stale,
             NEW a \in Audits, pc[a] # "chart", pc'[a] # "chart",
             InDebt(a)' <=> InDebt(a),
             \A b \in Audits : b # a => pc'[b] = pc[b] /\ heard'[b] = heard[b]
      PROVE  ChartFollows'
  <2>1. Scores' = Scores
    BY <1>1, ScoresStay
  <2>2. \A b \in Audits : (InDebt(b)' <=> InDebt(b)) /\ (pc'[b] = "chart" <=> pc[b] = "chart")
    BY <1>1 DEF InDebt
  <2>3. QED
    BY <1>1, <2>1, <2>2 DEF ChartFollows
<1>2. ASSUME NEW a \in Audits, Start(a) PROVE ChartFollows'
  <2>1. /\ pc[a] \in {"stopped", "active"} /\ pc'[a] = "judge" /\ heard'[a] = {}
        /\ UNCHANGED <<plan, evaluation, order, chart, series, loaded, stale>>
        /\ \A b \in Audits : b # a => pc'[b] = pc[b] /\ heard'[b] = heard[b]
    BY <1>2 DEF Start, Loads
  <2>2. InDebt(a)' <=> InDebt(a)
    BY <2>1 DEF InDebt
  <2>3. QED
    BY <1>1, <2>1, <2>2
<1>3. ASSUME NEW a \in Audits, Interrupt(a) PROVE ChartFollows'
  <2>1. /\ pc'[a] = "stopped" /\ heard'[a] = {}
        /\ stale' = (stale \/ (pc[a] # "finish" /\ heard[a] # {}))
        /\ pc[a] \in {"judge", "chart", "finish"}
        /\ UNCHANGED <<plan, evaluation, order, chart, series, loaded>>
        /\ \A b \in Audits : b # a => pc'[b] = pc[b] /\ heard'[b] = heard[b]
    BY <1>3 DEF Interrupt, Loads
  <2>2. ~stale /\ (pc[a] = "finish" \/ heard[a] = {})
    BY <2>1
  <2>3. pc[a] # "chart" /\ ~InDebt(a) /\ ~InDebt(a)'
    BY <2>1, <2>2 DEF InDebt, ChartHasReason
  <2>4. QED
    BY <1>1, <2>1, <2>2, <2>3
<1>4. ASSUME NEW a \in Audits, NEW c \in Convs, Open(a, c) \/ Skip(a, c) PROVE ChartFollows'
  <2>1. UNCHANGED <<plan, evaluation, order, chart, series, loaded, stale, pc, heard>>
        /\ pc[a] = "judge"
    BY <1>4 DEF Open, Skip
  <2>2. QED
    BY <1>1, <2>1 DEF InDebt
<1>5. ASSUME NEW a \in Audits, Commit(a) PROVE ChartFollows'
  <2>1. pc[a] = "judge" /\ UNCHANGED <<pc, loaded, chart, stale>>
    BY <1>5 DEF Commit
  <2>2. PICK h : heard' = [heard EXCEPT ![a] = @ \cup {h}]
    BY <1>5, CommitEffect
  <2>3. InDebt(a)'
    BY <2>1, <2>2 DEF InDebt
  <2>4. QED
    BY <2>1, <2>3 DEF ChartFollows
<1>6. ASSUME NEW a \in Audits, ReadScores(a) PROVE ChartFollows'
  <2>1. /\ pc[a] = "judge" /\ txn[a] = None
        /\ pc' = [pc EXCEPT ![a] = IF seen[a] = {} THEN "finish" ELSE "chart"]
        /\ series' = [series EXCEPT ![a] = Scores]
        /\ loaded' = [loaded EXCEPT ![a] = chart]
        /\ stale' = IF seen[a] = {} THEN stale ELSE \E b \in Audits : pc[b] = "chart"
        /\ UNCHANGED <<heard, chart, plan, evaluation, order>>
    BY <1>6 DEF ReadScores
  <2>2. Scores' = Scores
    BY <2>1, ScoresStay
  <2>3. \A b \in Audits : /\ b # a => pc'[b] = pc[b]
                          /\ b # a => series'[b] = series[b] /\ loaded'[b] = loaded[b]
    BY <2>1
  <2>4. CASE seen[a] = {}
    <3>1. ~InDebt(a) /\ ~stale
      BY <2>1, <2>4, SeenIsHeard DEF InDebt
    <3>2. pc'[a] = "finish"
      BY <2>1, <2>4
    <3>3. \A b \in Audits : /\ InDebt(b)' <=> InDebt(b)
                            /\ pc'[b] = "chart" <=> pc[b] = "chart"
                            /\ pc[b] = "chart" => series'[b] = series[b] /\ loaded'[b] = loaded[b]
      BY <2>1, <2>3, <3>1, <3>2 DEF InDebt
    <3>4. QED
      BY <2>1, <2>2, <3>1, <3>3 DEF ChartFollows
  <2>5. CASE seen[a] # {}
    <3>1. pc'[a] = "chart" /\ series'[a] = Scores /\ loaded'[a] = chart
      BY <2>1, <2>5
    <3>2. \A b \in Audits : pc'[b] = "chart" => b = a
      BY <2>1, <2>3, <2>5
    <3>3. QED
      BY <2>1, <2>2, <3>1, <3>2 DEF ChartFollows
  <2>6. QED
    BY <2>4, <2>5
<1>7. ASSUME NEW a \in Audits, WriteChart(a) PROVE ChartFollows'
  <2>1. /\ pc[a] = "chart" /\ ~stale
        /\ pc' = [pc EXCEPT ![a] = "finish"]
        /\ UNCHANGED <<heard, loaded, series>> /\ Scores' = Scores
    BY <1>7, ScoresStay DEF WriteChart
  <2>2. \A b \in Audits : pc'[b] # "chart" /\ (InDebt(b)' <=> InDebt(b))
    BY <2>1 DEF ChartFollows, InDebt
  <2>3. ASSUME \A b \in Audits : ~InDebt(b), HasBaseline(Scores)
        PROVE  chart' = SpcSummary(Scores)
    <3>1. series[a] = Scores /\ loaded[a] = chart
      BY <2>1, <2>3 DEF ChartFollows
    <3>2. QED
      BY <1>7, <2>3, <3>1, ColumnsReplaced DEF WriteChart
  <2>4. QED
    BY <2>1, <2>2, <2>3 DEF ChartFollows
<1>8. ASSUME NEW a \in Audits, Finish(a) PROVE ChartFollows'
  <2>1. /\ pc[a] = "finish" /\ pc' = [pc EXCEPT ![a] = "active"]
        /\ UNCHANGED <<plan, rows, chart, memory, series, loaded, stale>>
    BY <1>8 DEF Finish
  <2>2. QED
    BY <1>1, <2>1 DEF InDebt
<1>9. ASSUME NEW c \in Convs, DeleteConversation(c) PROVE ChartFollows'
  <2>1. /\ stale' = (stale \/ order' # order)
        /\ UNCHANGED <<plan, evaluation, chart, pc, memory, series, loaded>>
    BY <1>9 DEF DeleteConversation
  <2>2. ~stale /\ order' = order
    BY <2>1
  <2>3. Scores' = Scores
    BY <2>1, <2>2, ScoresStay
  <2>4. QED
    BY <2>1, <2>2, <2>3 DEF ChartFollows, InDebt
<1>10. CASE UNCHANGED vars
  <2>1. Scores' = Scores
    BY <1>10, ScoresStay DEF vars
  <2>2. QED
    BY <1>10, <2>1 DEF vars, ChartFollows, InDebt
<1>11. QED
  BY <1>2, <1>3, <1>4, <1>5, <1>6, <1>7, <1>8, <1>9, <1>10 DEF Next

\* When no run is on its way to the chart, it is that of all scores of the agent,
\* unless a run ended before its chart, two crossed at it or scores were deleted and
\* none has read the scores alone since: the next that does puts it right.
THEOREM ChartStaysCurrent == Spec => []ChartIsCurrent
<1>1. Base /\ ChartFollows => ChartIsCurrent
  BY DEF ChartFollows, ChartIsCurrent, OnItsWay, InDebt
<1>2. QED
  BY <1>1, InitBase, StepBase, InitChart, ReasonStep, ChartStep, PTL DEF Spec
-----------------------------------------------------------------------------
(* The rules of the chart.  The runs are recursive functions: that they    *)
(* exist is shown by their closed form, the length of a streak, and what   *)
(* they count by the first point where they would differ from it.          *)

\* The last k points up to i are one streak: each but the first continues it.
Streak(steps, i, k) ==
  /\ k \in 1 .. i
  /\ \A j \in i - k + 2 .. i : j \in steps
  /\ i - k + 1 \notin steps

LEMMA StreakExists ==
  ASSUME NEW steps, 1 \notin steps, NEW i \in Nat \ {0}
  PROVE  \E k \in 1 .. i : Streak(steps, i, k)
<1> DEFINE Breaks == {k \in 1 .. i : i - k + 1 \notin steps}
<1>1. Breaks \subseteq Nat /\ i \in Breaks
  OBVIOUS
<1> HIDE DEF Breaks
<1>2. PICK k \in Breaks : \A m \in Breaks : k <= m
  BY <1>1, LeastExists
<1>3. k \in 1 .. i /\ i - k + 1 \notin steps
  BY DEF Breaks
<1>4. ASSUME NEW j \in i - k + 2 .. i PROVE j \in steps
  <2>1. i - j + 1 \in 1 .. i /\ i - j + 1 < k /\ i - (i - j + 1) + 1 = j
    BY <1>3
  <2>2. i - j + 1 \notin Breaks
    BY <1>2, <1>3, <2>1
  <2>3. QED
    BY <2>1, <2>2 DEF Breaks
<1>5. QED
  BY <1>3, <1>4 DEF Streak

LEMMA StreakIsOne ==
  ASSUME NEW steps, NEW i \in Nat, NEW k, NEW m, Streak(steps, i, k), Streak(steps, i, m)
  PROVE  k = m
<1>1. ASSUME NEW x \in 1 .. i, NEW y \in 1 .. i, x < y,
             Streak(steps, i, x), Streak(steps, i, y)
      PROVE  FALSE
  <2>1. i - x + 1 \in i - y + 2 .. i
    BY <1>1
  <2>2. QED
    BY <1>1, <2>1 DEF Streak
<1>2. k \in 1 .. i /\ m \in 1 .. i
  BY DEF Streak
<1>3. QED
  BY <1>1, <1>2

LEMMA StreakGrows ==
  ASSUME NEW steps, NEW i \in Nat \ {0}
  PROVE  /\ i \notin steps => Streak(steps, i, 1)
         /\ \A k : i \in steps /\ i > 1 /\ Streak(steps, i - 1, k) => Streak(steps, i, k + 1)
<1>1. i \notin steps => Streak(steps, i, 1)
  BY DEF Streak
<1>2. ASSUME NEW k, i \in steps, i > 1, Streak(steps, i - 1, k)
      PROVE  Streak(steps, i, k + 1)
  <2>1. k \in 1 .. i - 1
    BY <1>2 DEF Streak
  <2>2. i - (k + 1) + 1 = (i - 1) - k + 1 /\ k + 1 \in 1 .. i
    BY <2>1
  <2>3. ASSUME NEW j \in i - (k + 1) + 2 .. i PROVE j \in steps
    <3>1. j = i \/ j \in (i - 1) - k + 2 .. i - 1
      BY <2>1
    <3>2. QED
      BY <1>2, <3>1 DEF Streak
  <2>4. QED
    BY <1>2, <2>2, <2>3 DEF Streak
<1>3. QED
  BY <1>1, <1>2

\* A run over n points that starts again where no step is made and is 0 at some.
IsRun(g, steps, zeros, n) ==
  g = [i \in 1 .. n |-> IF i \in zeros THEN 0 ELSE IF i \in steps THEN g[i - 1] + 1 ELSE 1]

LEMMA RunExists ==
  ASSUME NEW n \in Nat, NEW steps \in SUBSET (2 .. n), NEW zeros,
         \A i \in steps : i \notin zeros => i - 1 \notin zeros
  PROVE  \E g : IsRun(g, steps, zeros, n)
<1> DEFINE Length(i) == CHOOSE k \in 1 .. i : Streak(steps, i, k)
           g == [i \in 1 .. n |-> IF i \in zeros THEN 0 ELSE Length(i)]
<1>1. ASSUME NEW i \in 1 .. n PROVE Streak(steps, i, Length(i))
  <2>1. 1 \notin steps /\ i \in Nat \ {0}
    OBVIOUS
  <2>2. \E k \in 1 .. i : Streak(steps, i, k)
    BY <2>1, StreakExists
  <2>3. QED
    BY <2>2
<1> HIDE DEF Length
<1>2. ASSUME NEW i \in 1 .. n, i \notin steps PROVE Length(i) = 1
  BY <1>1, <1>2, StreakGrows, StreakIsOne
<1>3. ASSUME NEW i \in 1 .. n, i \in steps PROVE Length(i) = Length(i - 1) + 1
  <2>1. i - 1 \in 1 .. n /\ i > 1
    BY <1>3
  <2>2. Streak(steps, i, Length(i - 1) + 1)
    BY <1>1, <1>3, <2>1, StreakGrows
  <2>3. QED
    BY <1>1, <2>2, StreakIsOne
<1>4. ASSUME NEW i \in 1 .. n
      PROVE  g[i] = IF i \in zeros THEN 0 ELSE IF i \in steps THEN g[i - 1] + 1 ELSE 1
  <2>1. CASE i \in zeros \/ i \notin steps
    BY <1>2, <2>1
  <2>2. CASE i \notin zeros /\ i \in steps
    <3>1. i - 1 \in 1 .. n /\ i - 1 \notin zeros
      BY <2>2
    <3>2. QED
      BY <1>3, <2>2, <3>1
  <2>3. QED
    BY <2>1, <2>2
<1>5. g = [i \in 1 .. n |->
             IF i \in zeros THEN 0 ELSE IF i \in steps THEN g[i - 1] + 1 ELSE 1]
  BY <1>4
<1> HIDE DEF g
<1>6. QED
  BY <1>5 DEF IsRun

LEMMA RunIsStreak ==
  ASSUME NEW n \in Nat, NEW steps \in SUBSET (2 .. n), NEW zeros, NEW g,
         \A i \in steps : i \notin zeros => i - 1 \notin zeros,
         IsRun(g, steps, zeros, n), NEW p \in 1 .. n
  PROVE  IF p \in zeros THEN g[p] = 0 ELSE Streak(steps, p, g[p])
<1> DEFINE Wrong == {i \in 1 .. n : i \notin zeros /\ ~Streak(steps, i, g[i])}
<1>1. \A i \in 1 .. n :
        g[i] = IF i \in zeros THEN 0 ELSE IF i \in steps THEN g[i - 1] + 1 ELSE 1
  BY DEF IsRun
<1>2. ASSUME NEW i \in Wrong, \A j \in Wrong : i <= j
      PROVE  FALSE
  <2>1. i \in 1 .. n /\ i \notin zeros /\ ~Streak(steps, i, g[i])
    OBVIOUS
  <2>2. i \in steps /\ g[i] = g[i - 1] + 1
    BY <1>1, <2>1, StreakGrows
  <2>3. i - 1 \in 1 .. n /\ i > 1 /\ i - 1 \notin zeros /\ i - 1 \notin Wrong
    BY <1>2, <2>1, <2>2
  <2>4. Streak(steps, i - 1, g[i - 1])
    BY <2>3
  <2>5. QED
    BY <2>1, <2>2, <2>3, <2>4, StreakGrows
<1>3. Wrong \subseteq Nat
  OBVIOUS
<1> HIDE DEF Wrong
<1>4. Wrong = {}
  BY <1>2, <1>3, LeastExists
<1>5. QED
  BY <1>1, <1>4 DEF Wrong

\* A point that ends a streak of more than m points, seen from the points.
LEMMA LongStreak ==
  ASSUME NEW steps, 1 \notin steps, NEW i \in Nat \ {0}, NEW k, Streak(steps, i, k),
         NEW m \in Nat
  PROVE  k > m <=> i > m /\ \A j \in i - m + 1 .. i : j \in steps
<1>1. k \in 1 .. i
  BY DEF Streak
<1>2. ASSUME k > m PROVE i > m /\ \A j \in i - m + 1 .. i : j \in steps
  BY <1>1, <1>2 DEF Streak
<1>3. ASSUME ~(k > m), i > m PROVE ~ \A j \in i - m + 1 .. i : j \in steps
  <2>1. i - k + 1 \in i - m + 1 .. i
    BY <1>1, <1>3
  <2>2. QED
    BY <2>1 DEF Streak
<1>4. QED
  BY <1>2, <1>3

LEMMA TrendRunCounts ==
  ASSUME NEW n \in Nat, NEW steps \in SUBSET (2 .. n), NEW i \in 1 .. n
  PROVE  TrendRun(steps, n)[i] >= TrendLen
           <=> i >= TrendLen /\ \A j \in i - TrendLen + 2 .. i : j \in steps
<1> DEFINE g == TrendRun(steps, n)
           none == {}
<1>1. i \notin none /\ \A j \in steps : j - 1 \notin none
  OBVIOUS
<1>2. \A f : IsRun(f, steps, none, n) <=>
               f = [j \in 1 .. n |-> IF j \in steps THEN f[j - 1] + 1 ELSE 1]
  BY DEF IsRun
<1> HIDE DEF none
<1>3. \E f : IsRun(f, steps, none, n)
  BY <1>1, RunExists
<1>4. IsRun(g, steps, none, n)
  BY <1>2, <1>3 DEF TrendRun
<1> HIDE DEF g
<1>5. Streak(steps, i, g[i])
  BY <1>1, <1>4, RunIsStreak
<1>6. 1 \notin steps /\ i \in Nat \ {0} /\ g[i] \in Nat
  BY <1>5 DEF Streak
<1>7. g[i] > 5 <=> i > 5 /\ \A j \in i - 5 + 1 .. i : j \in steps
  BY <1>5, <1>6, LongStreak
<1>8. QED
  BY <1>6, <1>7 DEF TrendLen, g

\* The points on the same side as the point before, not on the mean.
Continues(values, b) ==
  {i \in 2 .. Len(values) : /\ Side(b, values[i]) # "media"
                            /\ Side(b, values[i]) = Side(b, values[i - 1])}
OnMean(values, b) == {i \in 1 .. Len(values) : Side(b, values[i]) = "media"}

LEMMA SameSideRunCounts ==
  ASSUME NEW values, Len(values) \in Nat, NEW b, NEW i \in 1 .. Len(values)
  PROVE  SameSideRun(values, b)[i] >= SameSideLen <=>
           /\ Side(b, values[i]) # "media"
           /\ i >= SameSideLen
           /\ \A j \in i - SameSideLen + 1 .. i : Side(b, values[j]) = Side(b, values[i])
<1> DEFINE n == Len(values)
           steps == Continues(values, b)
           zeros == OnMean(values, b)
           g == SameSideRun(values, b)
<1>1. steps \in SUBSET (2 .. n) /\ \A j \in steps : j - 1 \notin zeros
  BY DEF Continues, OnMean
<1>2. \A f : IsRun(f, steps, zeros, n) <=>
        f = [j \in 1 .. n |->
              IF Side(b, values[j]) = "media" THEN 0
              ELSE IF j > 1 /\ Side(b, values[j]) = Side(b, values[j - 1])
                   THEN f[j - 1] + 1 ELSE 1]
  BY DEF IsRun, Continues, OnMean
<1>3. \E f : IsRun(f, steps, zeros, n)
  BY <1>1, RunExists
<1>4. IsRun(g, steps, zeros, n)
  BY <1>2, <1>3 DEF SameSideRun
<1> HIDE DEF g
<1>5. CASE i \in zeros
  <2>1. g[i] = 0
    BY <1>1, <1>4, <1>5, RunIsStreak
  <2>2. QED
    BY <1>5, <2>1 DEF g, OnMean, SameSideLen
<1>6. CASE i \notin zeros
  <2>1. Streak(steps, i, g[i])
    BY <1>1, <1>4, <1>6, RunIsStreak
  <2>2. 1 \notin steps /\ i \in Nat \ {0} /\ g[i] \in Nat
    BY <1>1, <2>1 DEF Streak
  <2>3. g[i] > 7 <=> i > 7 /\ \A j \in i - 7 + 1 .. i : j \in steps
    BY <2>1, <2>2, LongStreak
  <2>4. ASSUME i > 7, \A j \in i - 6 .. i : j \in steps
        PROVE  \A j \in i - 7 .. i : Side(b, values[j]) = Side(b, values[i])
    <3>1. \A j \in i - 6 .. i : Side(b, values[j]) = Side(b, values[j - 1])
      BY <2>4 DEF Continues
    <3>2. \A j \in i - 7 .. i : j = i \/ j + 1 \in i - 6 .. i
      OBVIOUS
    <3>3. \A j \in i - 6 .. i : j - 1 \in Int
      OBVIOUS
    <3>4. /\ Side(b, values[i - 1]) = Side(b, values[i])
          /\ Side(b, values[i - 2]) = Side(b, values[i - 1])
          /\ Side(b, values[i - 3]) = Side(b, values[i - 2])
          /\ Side(b, values[i - 4]) = Side(b, values[i - 3])
          /\ Side(b, values[i - 5]) = Side(b, values[i - 4])
          /\ Side(b, values[i - 6]) = Side(b, values[i - 5])
          /\ Side(b, values[i - 7]) = Side(b, values[i - 6])
      BY <3>1
    <3>5. \A j \in i - 7 .. i :
            j \in {i, i - 1, i - 2, i - 3, i - 4, i - 5, i - 6, i - 7}
      OBVIOUS
    <3>6. QED
      BY <3>4, <3>5
  <2>5. ASSUME i > 7, \A j \in i - 7 .. i : Side(b, values[j]) = Side(b, values[i])
        PROVE  \A j \in i - 6 .. i : j \in steps
    BY <1>6, <2>5 DEF Continues, OnMean
  <2>6. QED
    BY <1>6, <2>2, <2>3, <2>4, <2>5 DEF g, OnMean, SameSideLen
<1>7. QED
  BY <1>5, <1>6
\* The directions that check_rules finds are those that the rules speak of.
LEMMA DirectionsAreSignals ==
  ASSUME NEW values, Len(values) \in Nat, DOMAIN values = 1 .. Len(values), NEW b,
         NEW d \in {"alto", "bajo"}
  PROVE  d \in Directions(values, b) <=> Signals(values, b, d)
<1> DEFINE n == Len(values)
           steps == IF d = "alto" THEN Ups(values) ELSE Downs(values)
           Beyond == \E i \in 1 .. n : BeyondLimits(b, values[i]) /\ Side(b, values[i]) = d
           OneSide == \E i \in 1 .. n : /\ SameSideRun(values, b)[i] >= SameSideLen
                                       /\ Side(b, values[i]) = d
           Trending == \E i \in 1 .. n : TrendRun(steps, n)[i] >= TrendLen
<1>1. d \in Directions(values, b) <=> Beyond \/ OneSide \/ Trending
  BY DEF Directions
<1>2. OneSide <=> Window(values, SameSideLen, LAMBDA i : Side(b, values[i]) = d)
  <2>1. \A i \in 1 .. n :
          SameSideRun(values, b)[i] >= SameSideLen /\ Side(b, values[i]) = d <=>
            i >= SameSideLen /\ \A j \in i - SameSideLen + 1 .. i : Side(b, values[j]) = d
    <3> TAKE i \in 1 .. n
    <3>1. i >= SameSideLen => i \in i - SameSideLen + 1 .. i
      BY DEF SameSideLen
    <3>2. QED
      BY <3>1, SameSideRunCounts
  <2>2. \A i : i \in SameSideLen .. n <=> i \in 1 .. n /\ i >= SameSideLen
    BY DEF SameSideLen
  <2>3. QED
    BY <2>1, <2>2 DEF Window
<1>3. Trending <=>
        \E i \in TrendLen .. n : \A j \in i - TrendLen + 2 .. i : j \in steps
  <2>1. steps \in SUBSET (2 .. n)
    BY DEF Ups, Downs
  <2>2. \A i : i \in TrendLen .. n <=> i \in 1 .. n /\ i >= TrendLen
    BY DEF TrendLen
  <2> HIDE DEF steps
  <2>3. QED
    BY <2>1, <2>2, TrendRunCounts
<1>4. \A i \in TrendLen .. n : \A j \in i - TrendLen + 2 .. i :
        j \in steps <=> IF d = "alto" THEN values[j - 1] < values[j]
                                     ELSE values[j - 1] > values[j]
  <2>1. \A i \in TrendLen .. n : \A j \in i - TrendLen + 2 .. i : j \in 2 .. n
    BY DEF TrendLen
  <2>2. QED
    BY <2>1 DEF Ups, Downs
<1>5. QED
  BY <1>1, <1>2, <1>3, <1>4 DEF Signals

LEMMA TrendIsRight ==
  ASSUME NEW values, Len(values) \in Nat, DOMAIN values = 1 .. Len(values)
  PROVE  RightTrend(values, SpcSummary(values).trend)
<1> DEFINE b == Baseline(values)
<1>1. SpcSummary(values).trend = Trend(values, b)
  BY DEF SpcSummary
<1>2. /\ "bajo" \in Directions(values, b) <=> Signals(values, b, "bajo")
      /\ "alto" \in Directions(values, b) <=> Signals(values, b, "alto")
  BY DirectionsAreSignals
<1> HIDE DEF b
<1>3. QED
  BY <1>1, <1>2 DEF RightTrend, Trend, b

\* The trend of an agent is what the Western Electric rules say of its scores,
\* for every series and every way in which runs continue, break and end.
THEOREM TrendIsFounded == Spec => []TrendFollowsRules
<1>1. ASSUME Typed PROVE TrendFollowsRules
  <2>1. plan.history \in Seq(0 .. 100)
    BY <1>1, ReportAssumption DEF Typed
  <2>2. order \in Seq(Convs)
    BY <1>1 DEF Typed
  <2>3. Len(Scores) \in Nat /\ DOMAIN Scores = 1 .. Len(Scores)
    BY <2>1, <2>2 DEF Scores
  <2>4. QED
    BY <2>3, TrendIsRight DEF TrendFollowsRules
<1>2. QED
  BY <1>1, InitBase, StepBase, PTL DEF Spec, Base
-----------------------------------------------------------------------------
(* Lists, reports and what a summary covers.                               *)

LEMMA ShownIsFinite ==
  ASSUME Base, NEW a \in Audits
  PROVE  /\ Shown(a) \subseteq Links(a) \ deleted /\ Links(a) \subseteq Convs
         /\ IsFiniteSet(Links(a)) /\ IsFiniteSet(Shown(a))
         /\ \A c \in Shown(a) : evaluation[c] \in Evaluations
<1>1. plan \in Plans
  BY DEF Base, Typed
<1>2. Links(a) \subseteq Convs
  BY <1>1, ReportAssumption DEF Links
<1>3. Shown(a) \subseteq Links(a) \ deleted
  BY DEF Shown
<1>4. IsFiniteSet(Links(a)) /\ IsFiniteSet(Shown(a))
  BY <1>2, <1>3, ReportAssumption, FS_Subset
<1>5. \A c \in Shown(a) : evaluation[c] \in Evaluations
  BY <1>2 DEF Shown, Live, Base, Typed, RowsAgree
<1>6. QED
  BY <1>2, <1>3, <1>4, <1>5

\* Two rows that agree on what the LLM may not change once a row is there.
Agree(f, g) == f.sat = g.sat /\ f.adversarial = g.adversarial

\* The chips and attacks of conversations depend on that.
LEMMA ChipsDependOnRows ==
  ASSUME NEW S, NEW f, NEW g, \A c \in S : Agree(f[c], g[c])
  PROVE  /\ Attacks(S, f) = Attacks(S, g)
         /\ Legit(S, f) = Legit(S, g)
         /\ \A T \in SUBSET S : Distribution(T, f) = Distribution(T, g)
<1>1. Attacks(S, f) = Attacks(S, g)
  BY DEF Attacks, Agree
<1>2. Legit(S, f) = Legit(S, g)
  BY <1>1 DEF Legit
<1>3. ASSUME NEW T \in SUBSET S PROVE Distribution(T, f) = Distribution(T, g)
  <2>1. \A c \in T : Bucket(f[c]) = Bucket(g[c])
    BY DEF Bucket, Agree
  <2>2. \A b : {c \in T : Bucket(f[c]) = b} = {c \in T : Bucket(g[c]) = b}
    BY <2>1
  <2>3. QED
    BY <2>2 DEF Distribution
<1>4. QED
  BY <1>1, <1>2, <1>3

\* The summary of an audit is that of evaluated conversations of its own, all that are
\* left among them, whose rows have been written again since only where it does not
\* matter to the chips.
Covers(a, S, row) ==
  /\ Links(a) \ deleted \subseteq S
  /\ \A c \in S : row[c] # None /\ evaluation[c] # None /\ Agree(evaluation[c], row[c])

SummaryCovers ==
  \A a \in Audits : summary[a] # None =>
    \E S \in SUBSET Links(a), row \in [Convs -> Evaluations \cup {None}] :
      Covers(a, S, row) /\ \E n : summary[a] = ReportSummary(S, row, n)

LEMMA InitCovers == Init => SummaryCovers
BY DEF Init, SummaryCovers

\* What a step leaves of the rows that a summary counts.
LEMMA RowsStay ==
  ASSUME Base, [Next]_vars
  PROVE  /\ plan' = plan /\ deleted \subseteq deleted'
         /\ \A c \in Convs : evaluation[c] # None =>
              evaluation'[c] # None /\ Agree(evaluation'[c], evaluation[c])
<1> DEFINE Goal == /\ plan' = plan /\ deleted \subseteq deleted'
                   /\ \A c \in Convs : evaluation[c] # None =>
                        evaluation'[c] # None /\ Agree(evaluation'[c], evaluation[c])
<1>1. ASSUME NEW a \in Audits, Commit(a) PROVE Goal
  <2>1. /\ txn[a] \in Transactions /\ txn[a] # None /\ UNCHANGED <<plan, deleted>>
    BY <1>1, CommitEffect DEF Base
  <2>2. PICK j \in Judgements :
          /\ IsNew(a) => j.row.adversarial = (Subject(a) \in plan.attacked)
          /\ evaluation' = [evaluation EXCEPT ![Subject(a)] =
                              IF IsNew(a) THEN RowAfter(Subject(a), j.row) ELSE @]
    BY <1>1, CommitEffect DEF Base
  <2>3. Subject(a) \in Convs
    BY <2>1 DEF Transactions, Subject
  <2>4. j.row \in Evaluations
    BY ReportAssumption
  <2>5. ASSUME IsNew(a), evaluation[Subject(a)] # None
        PROVE  /\ RowAfter(Subject(a), j.row) # None
               /\ Agree(RowAfter(Subject(a), j.row), evaluation[Subject(a)])
    <3>1. evaluation[Subject(a)].adversarial = (Subject(a) \in plan.attacked)
      BY <2>1, <2>3, <2>5 DEF Base, RowsAgree
    <3>2. evaluation[Subject(a)] \in Evaluations \cup {None}
      BY <2>3 DEF Base, Typed
    <3>3. QED
      BY <2>2, <2>3, <2>4, <2>5, <3>1, <3>2, RowWritten DEF Agree
  <2>6. \A c \in Convs : evaluation'[c] = IF c = Subject(a) /\ IsNew(a)
                                          THEN RowAfter(c, j.row) ELSE evaluation[c]
    BY <2>2 DEF Base, Typed
  <2>7. QED
    BY <2>1, <2>5, <2>6 DEF Agree
<1>2. ASSUME UNCHANGED <<plan, evaluation>>, deleted \subseteq deleted' PROVE Goal
  BY <1>2 DEF Agree
<1>3. ASSUME NEW a \in Audits,
             \/ Start(a) \/ Interrupt(a) \/ \E c \in Convs : Open(a, c) \/ Skip(a, c)
             \/ ReadScores(a) \/ WriteChart(a) \/ Finish(a)
      PROVE  UNCHANGED <<plan, rows>>
  BY <1>3 DEF Start, Interrupt, Open, Skip, ReadScores, WriteChart, Finish
<1>4. ASSUME NEW c \in Convs, DeleteConversation(c)
      PROVE  UNCHANGED <<plan, evaluation>> /\ deleted \subseteq deleted'
  BY <1>4 DEF DeleteConversation
<1>5. UNCHANGED vars => UNCHANGED <<plan, rows>>
  BY DEF vars
<1>6. UNCHANGED rows => UNCHANGED <<evaluation, deleted>>
  BY DEF rows
<1> HIDE DEF Goal
<1>7. Goal
  BY <1>1, <1>2, <1>3, <1>4, <1>5, <1>6 DEF Next
<1>8. QED
  BY <1>7 DEF Goal

LEMMA CoversStep == Base /\ SummaryCovers /\ [Next]_vars => SummaryCovers'
<1> SUFFICES ASSUME Base, SummaryCovers, [Next]_vars, NEW a \in Audits, summary'[a] # None
             PROVE  \E S \in SUBSET Links(a)', row \in [Convs -> Evaluations \cup {None}] :
                      Covers(a, S, row)' /\ \E n : summary'[a] = ReportSummary(S, row, n)
  BY DEF SummaryCovers
<1>1. /\ Links(a)' = Links(a) /\ Links(a) \subseteq Convs /\ deleted \subseteq deleted'
      /\ \A c \in Convs : evaluation[c] # None =>
           evaluation'[c] # None /\ Agree(evaluation'[c], evaluation[c])
  BY RowsStay, ShownIsFinite DEF Links
<1>2. ASSUME NEW S \in SUBSET Links(a), NEW row, Covers(a, S, row) PROVE Covers(a, S, row)'
  BY <1>1, <1>2 DEF Covers, Agree
<1>3. CASE summary'[a] = summary[a]
  <2>1. PICK S \in SUBSET Links(a), row \in [Convs -> Evaluations \cup {None}] :
          Covers(a, S, row) /\ \E n : summary[a] = ReportSummary(S, row, n)
    BY <1>3 DEF SummaryCovers
  <2>2. QED
    BY <1>1, <1>2, <1>3, <2>1
<1>4. CASE summary'[a] # summary[a]
  <2>1. Finish(a)
    <3>1. ASSUME NEW b \in Audits, Finish(b), b # a PROVE summary'[a] = summary[a]
      BY <3>1 DEF Finish
    <3>2. ASSUME NEW b \in Audits,
                 \/ Start(b) \/ Commit(b) \/ Interrupt(b) \/ ReadScores(b) \/ WriteChart(b)
                 \/ \E c \in Convs : Open(b, c) \/ Skip(b, c)
          PROVE  UNCHANGED reports
      BY <3>2 DEF Start, Commit, Interrupt, ReadScores, WriteChart, Open, Skip
    <3>3. ASSUME NEW c \in Convs, DeleteConversation(c) PROVE UNCHANGED reports
      BY <3>3 DEF DeleteConversation
    <3>4. UNCHANGED vars => UNCHANGED reports
      BY DEF vars
    <3>5. UNCHANGED reports => summary'[a] = summary[a]
      BY DEF reports
    <3>6. QED
      BY <1>4, <3>1, <3>2, <3>3, <3>4, <3>5 DEF Next
  <2> DEFINE S == convIds[a] \cap Evaluated
  <2>2. /\ summary'[a] = ReportSummary(S, evaluation, Cardinality(convIds[a]))
        /\ pc[a] = "finish"
    BY <2>1 DEF Finish, Base, Typed
  <2>3. /\ todo[a] = {} /\ txn[a] = None
        /\ Links(a) \ deleted \subseteq convIds[a] /\ convIds[a] \subseteq Links(a)
    BY <2>2 DEF Base, MemoryAgrees, MemoryOf
  <2>4. \A c \in convIds[a] \ deleted : evaluation[c] # None
    BY <2>3 DEF Base, MemoryAgrees, MemoryOf
  <2>5. Covers(a, S, evaluation)
    BY <1>1, <2>3, <2>4 DEF Covers, Agree, Evaluated, Base, Typed
  <2>6. S \in SUBSET Links(a) /\ evaluation \in [Convs -> Evaluations \cup {None}]
    BY <2>3 DEF Base, Typed
  <2> HIDE DEF S
  <2>7. QED
    BY <1>1, <1>2, <2>2, <2>5, <2>6
<1>5. QED
  BY <1>3, <1>4

LEMMA FigureTypes ==
  ASSUME NEW S, IsFiniteSet(S), NEW row, \A c \in S : row[c] \in Evaluations
  PROVE  /\ Distribution(S, row) \in [Buckets -> Nat]
         /\ Distribution(S, row) # None
         /\ AttackFigures(S, row) # None
         /\ Cardinality(Attacks(S, row)) \in Nat
         /\ MeanVisible(S, row) = None <=> S = {}
<1>1. \A T \in SUBSET S : Cardinality(T) \in Nat
  BY FS_Subset, FS_CardinalityType
<1>2. Distribution(S, row) \in [Buckets -> Nat]
  BY <1>1 DEF Distribution
<1>3. Attacks(S, row) \in SUBSET S
  BY DEF Attacks
<1>4. AttackFigures(S, row) # None
  <2> DEFINE A == Attacks(S, row)
             T == {AttackType(row[c]) : c \in A}
  <2>1. T \in SUBSET AttackTypes
    BY <1>3 DEF Evaluations, AttackType, AttackTypes
  <2>2. /\ {c \in A : row[c].repelled} \in SUBSET S
        /\ {c \in A : ~row[c].repelled} \in SUBSET S
        /\ \A t \in T : {c \in A : AttackType(row[c]) = t} \in SUBSET S
    BY <1>3
  <2>3. AttackFigures(S, row) =
          [total |-> Cardinality(A),
           repelled |-> Cardinality({c \in A : row[c].repelled}),
           ceded |-> Cardinality({c \in A : ~row[c].repelled}),
           byType |-> [t \in T |-> Cardinality({c \in A : AttackType(row[c]) = t})]]
    BY DEF AttackFigures
  <2>4. [t \in T |-> Cardinality({c \in A : AttackType(row[c]) = t})] \in [T -> Nat]
    BY <1>1, <2>2
  <2> HIDE DEF T, A
  <2>5. [t \in T |-> Cardinality({c \in A : AttackType(row[c]) = t})]
          \in UNION {[U -> Nat] : U \in SUBSET AttackTypes}
    BY <2>1, <2>4
  <2>6. AttackFigures(S, row)
          \in [total : Nat, repelled : Nat, ceded : Nat,
               byType : UNION {[U -> Nat] : U \in SUBSET AttackTypes}]
    BY <1>1, <1>3, <2>2, <2>3, <2>5 DEF A
  <2>7. QED
    BY <2>6, NoneAssumption
<1>5. MeanVisible(S, row) = None <=> S = {}
  <2> DEFINE value == [c \in S |-> VisibleScore(row[c])]
  <2>1. \A c \in S : value[c] \in Int
    BY DEF VisibleScore, Evaluations
  <2> HIDE DEF value
  <2>2. SumOver(S, value) \in Int
    BY <2>1, SumType
  <2>3. S # {} => Cardinality(S) \in Nat \ {0}
    BY <1>1, FS_EmptySet
  <2>4. \A s \in Int, n \in Nat \ {0} : Rounded(s, n) \in Int
    BY DEF Rounded
  <2>5. MeanVisible(S, row) = MeanOver(S, value)
    BY DEF MeanVisible, value
  <2>6. QED
    BY <2>2, <2>3, <2>4, <2>5, NoneAssumption DEF MeanOver
<1>6. QED
  BY <1>1, <1>2, <1>3, <1>4, <1>5, NoneAssumption

\* Fewer conversations, lower figures.
LEMMA FiguresGrow ==
  ASSUME NEW S, IsFiniteSet(S), NEW T \in SUBSET S, NEW row
  PROVE  /\ Legit(T, row) \subseteq Legit(S, row)
         /\ Cardinality(Attacks(T, row)) <= Cardinality(Attacks(S, row))
         /\ \A b \in Buckets : Distribution(Legit(T, row), row)[b] <=
                               Distribution(Legit(S, row), row)[b]
<1>1. Legit(T, row) \subseteq Legit(S, row) /\ Legit(S, row) \subseteq S
  BY DEF Legit, Attacks
<1>2. Attacks(T, row) \subseteq Attacks(S, row) /\ Attacks(S, row) \subseteq S
  BY DEF Attacks
<1>3. \A U \in SUBSET S : \A V \in SUBSET U : Cardinality(V) <= Cardinality(U)
  BY FS_Subset
<1>4. ASSUME NEW b \in Buckets
      PROVE  Distribution(Legit(T, row), row)[b] <= Distribution(Legit(S, row), row)[b]
  <2> DEFINE In(U) == {c \in U : Bucket(row[c]) = b}
  <2>1. \A U : Distribution(U, row)[b] = Cardinality(In(U))
    BY DEF Distribution
  <2>2. /\ In(Legit(T, row)) \in SUBSET In(Legit(S, row))
        /\ In(Legit(S, row)) \in SUBSET S
    BY <1>1
  <2> HIDE DEF In
  <2>3. QED
    BY <1>3, <2>1, <2>2
<1>5. QED
  BY <1>1, <1>2, <1>3, <1>4

\* The list and the report of an audit show the same figures, and these cover every
\* chip of a conversation that is shown, whatever was deleted, judged or run again since.
THEOREM CardAndReportAgree == Spec => []CardMatchesReport
<1>1. ASSUME Base, SummaryCovers, NEW a \in Audits, summary[a] # None,
             NEW l \in Listings(a)
      PROVE  LET d == Detail(a, l)
                 chips == Distribution(Legit(Shown(a), evaluation), evaluation)
                 attacks == Cardinality(Attacks(Shown(a), evaluation))
                 exact == Shown(a) = Links(a)
             IN  /\ Card(a) = [satisfaction |-> d.satisfaction, avgScore |-> d.avgScore,
                               adversarial |-> d.adversarial]
                 /\ \A b \in Buckets : /\ chips[b] <= d.satisfaction[b]
                                       /\ exact => chips[b] = d.satisfaction[b]
                 /\ attacks <= d.adversarial.total
                 /\ exact => attacks = d.adversarial.total
  <2> DEFINE V == Shown(a)
             now == evaluation
             d == Detail(a, l)
  <2>1. PICK S \in SUBSET Links(a), row \in [Convs -> Evaluations \cup {None}] :
          Covers(a, S, row) /\ \E n : summary[a] = ReportSummary(S, row, n)
    BY <1>1 DEF SummaryCovers
  <2>2. /\ IsFiniteSet(S) /\ V \subseteq S
        /\ \A c \in S : row[c] \in Evaluations /\ Agree(now[c], row[c])
    BY <1>1, <2>1, ShownIsFinite, FS_Subset DEF Covers
  <2>3. IsFiniteSet(Legit(S, row)) /\ \A c \in Legit(S, row) : row[c] \in Evaluations
    BY <2>2, FS_Subset DEF Legit
  <2>4. /\ Field(a, "satisfaction") = Distribution(Legit(S, row), row)
        /\ Field(a, "avgScore") = MeanVisible(Legit(S, row), row)
        /\ Field(a, "adversarial") = AttackFigures(S, row)
    BY <1>1, <2>1 DEF Field, ReportSummary
  <2>5. /\ d.satisfaction = Preferred(Field(a, "satisfaction"), Distribution(Legit(V, now), now))
        /\ d.avgScore = Preferred(Field(a, "avgScore"), MeanVisible(Legit(V, now), now))
        /\ d.adversarial = Preferred(Field(a, "adversarial"),
                                     AttackFigures(CountedItems(l), now))
    BY DEF Detail
  <2>6. /\ Legit(V, now) = Legit(V, row) /\ Attacks(V, now) = Attacks(V, row)
        /\ Distribution(Legit(V, now), now) = Distribution(Legit(V, row), row)
    <3>1. \A c \in V : Agree(now[c], row[c])
      BY <2>2
    <3>2. Legit(V, now) \in SUBSET V
      BY DEF Legit
    <3> HIDE DEF V
    <3>3. QED
      BY <3>1, <3>2, ChipsDependOnRows
  <2>7. Legit(V, row) \subseteq Legit(S, row)
    BY <2>2, FiguresGrow
  <2>8. /\ d.satisfaction = Distribution(Legit(S, row), row)
        /\ d.adversarial = AttackFigures(S, row)
    BY <2>2, <2>3, <2>4, <2>5, FigureTypes DEF Preferred
  <2>9. d.avgScore = MeanVisible(Legit(S, row), row)
    <3>1. CASE Legit(S, row) = {}
      <4>1. Legit(V, now) = {}
        BY <2>6, <2>7, <3>1
      <4>2. MeanVisible({}, now) = None /\ MeanVisible({}, row) = None
        BY FigureTypes, FS_EmptySet
      <4>3. QED
        BY <2>4, <2>5, <3>1, <4>1, <4>2 DEF Preferred
    <3>2. CASE Legit(S, row) # {}
      <4>1. MeanVisible(Legit(S, row), row) # None
        BY <2>3, <3>2, FigureTypes
      <4>2. QED
        BY <2>4, <2>5, <4>1 DEF Preferred
    <3>3. QED
      BY <3>1, <3>2
  <2>10. d.adversarial.total = Cardinality(Attacks(S, row))
    BY <2>8 DEF AttackFigures
  <2>11. V = Links(a) => S = V
    BY <2>2
  <2> HIDE DEF d, V, now
  <2>12. Card(a) = [satisfaction |-> d.satisfaction, avgScore |-> d.avgScore,
                    adversarial |-> d.adversarial]
    BY <2>4, <2>8, <2>9 DEF Card
  <2>13. /\ \A b \in Buckets : Distribution(Legit(V, row), row)[b] <= d.satisfaction[b]
         /\ Cardinality(Attacks(V, row)) <= d.adversarial.total
    BY <2>2, <2>8, <2>10, FiguresGrow
  <2>14. V = Links(a) =>
           /\ Distribution(Legit(V, row), row) = d.satisfaction
           /\ Cardinality(Attacks(V, row)) = d.adversarial.total
    BY <2>8, <2>10, <2>11
  <2>15. QED
    BY <2>6, <2>12, <2>13, <2>14 DEF d, V, now
<1>2. Base /\ SummaryCovers => CardMatchesReport
  BY <1>1 DEF CardMatchesReport
<1>3. QED
  BY <1>2, InitBase, StepBase, InitCovers, CoversStep, PTL DEF Spec
-----------------------------------------------------------------------------
(* What a report lists and counts.                                         *)

LEMMA ReasonMeansNeed ==
  ASSUME NEW row \in Evaluations, NEW judged
  PROVE  HumanReason(row, judged) # None <=> NeedsIntervention(row, judged)
<1>1. row.veto \in BOOLEAN /\ row.review \in BOOLEAN /\ HasSevere(judged) \in BOOLEAN
  BY DEF Evaluations, HasSevere
<1>2. None \notin {"veto", "severity", "review", "segment"}
  BY NoneAssumption DEF Reasons
<1>3. QED
  BY <1>1, <1>2 DEF HumanReason, NeedsIntervention

\* Each conversation that is shown is in the listing.
LEMMA ListingCovers ==
  ASSUME Base, NEW a \in Audits, NEW l \in Listings(a)
  PROVE  /\ Cardinality(Shown(a)) \in Nat
         /\ DOMAIN l = 1 .. Cardinality(Shown(a))
         /\ \A i \in DOMAIN l : l[i] \in Shown(a)
         /\ \A c \in Shown(a) : \E i \in DOMAIN l : l[i] = c
<1> DEFINE n == Cardinality(Shown(a))
<1>1. IsFiniteSet(Shown(a)) /\ n \in Nat
  BY ShownIsFinite, FS_CardinalityType
<1>2. l \in [1 .. n -> Shown(a)] /\ IsInjective(l)
  BY DEF Listings
<1>3. l \in Injection(1 .. n, Shown(a))
  BY <1>2 DEF Injection, IsInjective
<1>4. IsFiniteSet(1 .. n) /\ Cardinality(1 .. n) = n
  BY <1>1, FS_Interval
<1>5. l \in Surjection(1 .. n, Shown(a))
  BY <1>1, <1>3, <1>4, FS_Injection
<1>6. \A c \in Shown(a) : \E i \in 1 .. n : l[i] = c
  BY <1>5 DEF Surjection
<1>7. QED
  BY <1>1, <1>2, <1>6

\* Of the conversations of a content, one counts.
LEMMA CountedOnce ==
  ASSUME Base, NEW a \in Audits, NEW l \in Listings(a)
  PROVE  /\ CountedItems(l) \subseteq Shown(a)
         /\ \A c \in Shown(a) : \E d \in CountedItems(l) : Content(d) = Content(c)
         /\ \A c, d \in CountedItems(l) : Content(c) = Content(d) => c = d
<1> DEFINE First(i) == \A k \in 1 .. i - 1 : Content(l[k]) # Content(l[i])
<1>1. CountedItems(l) = {l[i] : i \in {j \in DOMAIN l : First(j)}}
  BY DEF CountedItems
<1>2. DOMAIN l \subseteq Nat \ {0}
  BY ListingCovers
<1>3. CountedItems(l) \subseteq Shown(a)
  BY <1>1, ListingCovers
<1>4. ASSUME NEW c \in Shown(a)
      PROVE  \E d \in CountedItems(l) : Content(d) = Content(c)
  <2> DEFINE At == {i \in DOMAIN l : Content(l[i]) = Content(c)}
  <2>1. At \subseteq Nat /\ At # {}
    BY <1>2, ListingCovers
  <2>2. PICK i \in At : \A j \in At : i <= j
    <3> HIDE DEF At
    <3>1. QED
      BY <2>1, LeastExists
  <2>3. i \in DOMAIN l /\ Content(l[i]) = Content(c)
    OBVIOUS
  <2>4. First(i)
    <3>1. \A k \in 1 .. i - 1 : k \in DOMAIN l /\ ~(i <= k)
      BY <2>3, ListingCovers
    <3>2. QED
      BY <2>2, <2>3, <3>1
  <2>5. QED
    BY <1>1, <2>3, <2>4
<1>5. ASSUME NEW c \in CountedItems(l), NEW d \in CountedItems(l), Content(c) = Content(d)
      PROVE  c = d
  <2>1. PICK i \in DOMAIN l : First(i) /\ l[i] = c
    BY <1>1
  <2>2. PICK j \in DOMAIN l : First(j) /\ l[j] = d
    BY <1>1
  <2>3. ~(i < j) /\ ~(j < i)
    BY <1>2, <1>5, <2>1, <2>2
  <2>4. i = j
    BY <1>2, <2>3
  <2>5. QED
    BY <2>1, <2>2, <2>4
<1>6. QED
  BY <1>3, <1>4, <1>5

\* The report lists exactly the conversations that it has a reason to list and
\* counts contents, not copies, in whatever order the rows come.
THEOREM FailingIsFounded == Spec => []FailingHasReason
<1>1. ASSUME Base, NEW a \in Audits, NEW l \in Listings(a)
      PROVE  LET d == Detail(a, l)
                 some == {Content(c) : c \in d.failing}
                 all == some \ {Content(c) : c \in Shown(a) \ d.failing}
             IN  /\ d.failing =
                      {c \in Shown(a) : HumanReason(evaluation[c], Live(a, c)) # None}
                 /\ Cardinality(all) <= d.critical /\ d.critical <= Cardinality(some)
                 /\ d.withVeto <= d.critical /\ d.needsReview <= d.critical
  <2> DEFINE d == Detail(a, l)
             once == CountedItems(l)
             needy == {c \in once : Needs(a, c)}
             some == {Content(c) : c \in d.failing}
             all == some \ {Content(c) : c \in Shown(a) \ d.failing}
  <2>1. /\ d.failing = {c \in Shown(a) : Needs(a, c)}
        /\ d.critical = Cardinality(needy)
        /\ d.withVeto = Cardinality({c \in once : evaluation[c].veto})
        /\ d.needsReview = Cardinality({c \in once : evaluation[c].review})
    BY DEF Detail
  <2>2. d.failing = {c \in Shown(a) : HumanReason(evaluation[c], Live(a, c)) # None}
    BY <1>1, <2>1, ShownIsFinite, ReasonMeansNeed DEF Needs
  <2> HIDE DEF d
  <2>3. IsFiniteSet(Shown(a)) /\ once \subseteq Shown(a)
    BY <1>1, ShownIsFinite, CountedOnce
  <2>4. IsFiniteSet(needy) /\ IsFiniteSet(d.failing) /\ needy \subseteq d.failing
    BY <2>1, <2>3, FS_Subset
  <2>5. IsFiniteSet(some)
    <3> DEFINE f == [c \in d.failing |-> Content(c)]
    <3>1. f \in Surjection(d.failing, some)
      BY DEF Surjection
    <3> HIDE DEF f, some
    <3>2. QED
      BY <2>4, <3>1, FS_Surjection
  <2>6. Cardinality(needy) <= Cardinality(some)
    <3> DEFINE f == [c \in needy |-> Content(c)]
    <3>1. f \in [needy -> some]
      BY <2>4
    <3>2. f \in Injection(needy, some)
      BY <1>1, <3>1, CountedOnce DEF Injection, IsInjective
    <3> HIDE DEF f, some, needy
    <3>3. QED
      BY <2>5, <3>2, FS_Injection
  <2>7. Cardinality(all) <= Cardinality(needy)
    <3> DEFINE T == {c \in needy : Content(c) \in all}
               f == [c \in T |-> Content(c)]
    <3>1. ASSUME NEW k \in all PROVE \E c \in T : Content(c) = k
      <4>1. PICK c \in d.failing : Content(c) = k
        OBVIOUS
      <4>2. c \in Shown(a)
        BY <2>1
      <4>3. PICK e \in once : Content(e) = k
        BY <1>1, <4>1, <4>2, CountedOnce
      <4>4. e \in d.failing
        BY <2>3, <4>3
      <4>5. e \in needy
        BY <2>1, <4>3, <4>4
      <4>6. QED
        BY <4>3, <4>5
    <3>2. f \in Surjection(T, all)
      BY <3>1 DEF Surjection
    <3>3. T \in SUBSET needy
      OBVIOUS
    <3> HIDE DEF f, T, all, needy
    <3>4. IsFiniteSet(T) /\ Cardinality(T) <= Cardinality(needy)
      BY <2>4, <3>3, FS_Subset
    <3>5. IsFiniteSet(all) /\ Cardinality(all) <= Cardinality(T)
      BY <3>2, <3>4, FS_Surjection
    <3>6. QED
      BY <2>4, <3>4, <3>5, FS_CardinalityType
  <2>8. /\ {c \in once : evaluation[c].veto} \in SUBSET needy
        /\ {c \in once : evaluation[c].review} \in SUBSET needy
    BY <1>1, <2>3, ShownIsFinite DEF Needs, NeedsIntervention
  <2>9. d.withVeto <= d.critical /\ d.needsReview <= d.critical
    <3> HIDE DEF needy
    <3>1. QED
      BY <2>1, <2>4, <2>8, FS_Subset
  <2>10. Cardinality(all) <= d.critical /\ d.critical <= Cardinality(some)
    BY <2>1, <2>6, <2>7
  <2>11. QED
    BY <2>2, <2>9, <2>10 DEF d
<1>2. Base => FailingHasReason
  BY <1>1 DEF FailingHasReason
<1>3. QED
  BY <1>2, InitBase, StepBase, PTL DEF Spec
-----------------------------------------------------------------------------
(* The dashboard.                                                          *)

\* What a delete has not reached is of a conversation that was open when it happened.
LateRows ==
  /\ \A c \in deleted \ late :
       /\ evaluation[c] # None => c \in deletedEvals
       /\ \A a \in Audits : Live(a, c) = {}
  /\ \A a \in Audits : txn[a] # None /\ Subject(a) \in deleted => Subject(a) \in late

LEMMA InitLate == Init => LateRows
BY DEF Init, LateRows

LEMMA LateStep == Base /\ LateRows /\ [Next]_vars => LateRows'
<1> SUFFICES ASSUME Base, LateRows, [Next]_vars PROVE LateRows'
  OBVIOUS
<1> USE DEF Base, Typed, rows
<1>1. ASSUME NEW a \in Audits, Commit(a) PROVE LateRows'
  <2>1. /\ txn[a] # None /\ UNCHANGED <<deleted, deletedEvals, deletedVerdicts, late>>
        /\ txn' = [txn EXCEPT ![a] = None]
    BY <1>1, CommitEffect
  <2>2. PICK j \in Judgements :
          /\ evaluation' = [evaluation EXCEPT ![Subject(a)] =
                              IF IsNew(a) THEN RowAfter(Subject(a), j.row) ELSE @]
          /\ verdicts' = [verdicts EXCEPT ![a][Subject(a)] =
                            @ \cup Stored(a, Subject(a), j.verdicts)]
    BY <1>1, CommitEffect
  <2>3. Subject(a) \notin deleted \ late
    BY <2>1 DEF LateRows
  <2>4. \A c \in deleted \ late :
          /\ evaluation'[c] = evaluation[c]
          /\ \A b \in Audits : Live(b, c)' = Live(b, c)
    BY <2>1, <2>2, <2>3 DEF Live
  <2>5. \A b \in Audits : txn'[b] # None => txn'[b] = txn[b]
    BY <2>1
  <2>6. QED
    BY <2>1, <2>4, <2>5 DEF LateRows, Subject
<1>2. ASSUME NEW a \in Audits, NEW c \in Convs, Open(a, c) PROVE LateRows'
  <2>1. /\ c \notin deleted /\ UNCHANGED <<rows, late>>
        /\ \A b \in Audits : b # a => txn'[b] = txn[b]
        /\ txn'[a].conv = c
    BY <1>2 DEF Open
  <2>2. QED
    BY <2>1 DEF LateRows, Live, Subject
<1>3. ASSUME NEW a \in Audits, Interrupt(a) PROVE LateRows'
  <2>1. /\ UNCHANGED <<rows, late>>
        /\ \A b \in Audits : txn'[b] # None => txn'[b] = txn[b]
    BY <1>3 DEF Interrupt
  <2>2. QED
    BY <2>1 DEF LateRows, Live, Subject
<1>4. ASSUME NEW a \in Audits,
             \/ Start(a) \/ (\E c \in Convs : Skip(a, c))
             \/ ReadScores(a) \/ WriteChart(a) \/ Finish(a)
      PROVE  UNCHANGED <<rows, late, txn>>
  BY <1>4 DEF Start, Skip, ReadScores, WriteChart, Finish
<1>5. UNCHANGED vars => UNCHANGED <<rows, late, txn>>
  BY DEF vars
<1>6. UNCHANGED <<rows, late, txn>> => LateRows'
  BY DEF LateRows, Live, Subject
<1>7. ASSUME NEW c \in Convs, DeleteConversation(c) PROVE LateRows'
  <2>1. /\ deleted' = deleted \cup {c}
        /\ deletedEvals' = deletedEvals \cup ({c} \cap Evaluated)
        /\ deletedVerdicts' = [a \in Audits |-> [deletedVerdicts[a] EXCEPT ![c] = verdicts[a][c]]]
        /\ late' = IF \E a \in Audits : txn[a] # None /\ txn[a].conv = c
                   THEN late \cup {c} ELSE late
        /\ UNCHANGED <<evaluation, verdicts, txn>>
    BY <1>7 DEF DeleteConversation
  <2>2. \A d \in deleted' \ late' : evaluation'[d] # None => d \in deletedEvals'
    BY <2>1 DEF LateRows, Evaluated
  <2>3. ASSUME NEW d \in deleted' \ late', NEW a \in Audits PROVE Live(a, d)' = {}
    <3>1. deletedVerdicts'[a][d] = IF d = c THEN verdicts[a][d] ELSE deletedVerdicts[a][d]
      BY <2>1
    <3>2. QED
      BY <2>1, <3>1 DEF LateRows, Live
  <2>4. ASSUME NEW a \in Audits, txn'[a] # None, Subject(a)' \in deleted'
        PROVE  Subject(a)' \in late'
    BY <2>1, <2>4 DEF LateRows, Subject
  <2>5. QED
    BY <2>2, <2>3, <2>4 DEF LateRows
<1>8. QED
  BY <1>1, <1>2, <1>3, <1>4, <1>5, <1>6, <1>7 DEF Next

\* A row that a statement of the dashboard counts is of a conversation that can be
\* opened, a verdict in a report, but for conversations that were open in a run when
\* they were deleted; and the dashboard counts all that reports show.
THEOREM DashboardIsFounded == Spec => []DashboardIsVisible
<1>1. ASSUME Base, LateRows PROVE DashboardIsVisible
  <2>1. Evaluated \subseteq (Convs \ deleted) \cup late
    BY <1>1 DEF Evaluated, LateRows
  <2>2. Leads \cup Unresolved \subseteq Evaluated
    BY DEF Leads, Unresolved
  <2>3. ASSUME NEW m \in Hallucinations \cup Flagged PROVE m[2] \in Shown(m[1]) \cup late
    <3>1. PICK a \in Audits, c \in Convs : \E v \in Live(a, c) : m = <<a, c, v>>
      BY DEF Hallucinations, Flagged, Verdicts
    <3>2. m[1] = a /\ m[2] = c /\ Live(a, c) # {}
      BY <3>1
    <3>3. c \notin deleted \ late
      BY <1>1, <3>2 DEF LateRows
    <3>4. c \in Links(a)
      BY <1>1, <3>2 DEF Live, Base, RowsAgree
    <3>5. QED
      BY <3>2, <3>3, <3>4 DEF Shown
  <2>4. ASSUME NEW a \in Audits, NEW c \in Shown(a)
        PROVE  c \in Evaluated /\ c \in CsvRows(a, None)
    <3>1. c \in Links(a) \ deleted /\ Live(a, c) # {}
      BY DEF Shown
    <3>2. c \in Convs
      BY <1>1, <3>1, ShownIsFinite
    <3>3. evaluation[c] # None /\ c \notin deletedEvals
      BY <1>1, <3>1, <3>2 DEF Live, Base, Typed, RowsAgree
    <3>4. QED
      BY <3>1, <3>2, <3>3 DEF Evaluated, CsvRows
  <2>5. QED
    BY <2>1, <2>2, <2>3, <2>4 DEF DashboardIsVisible
<1>2. QED
  BY <1>1, InitBase, StepBase, InitLate, LateStep, PTL DEF Spec
-----------------------------------------------------------------------------
(* What a run counts and suggests.                                         *)

\* The image of a finite set.
LEMMA ImageIsFinite ==
  ASSUME NEW S, IsFiniteSet(S), NEW f, DOMAIN f = S,
         NEW T, T = {f[x] : x \in S}
  PROVE  IsFiniteSet(T) /\ Cardinality(T) <= Cardinality(S)
<1> DEFINE g == [x \in S |-> f[x]]
<1>1. g \in Surjection(S, T)
  BY DEF Surjection
<1> HIDE DEF g
<1>2. QED
  BY <1>1, FS_Surjection

\* The answers that a run has counted: of each content that it heard of, one.
CountsOnce(a, once) ==
  /\ once \subseteq heard[a]
  /\ \A h, g \in once : Content(h.conv) = Content(g.conv) => h = g
  /\ \A h \in heard[a] : \E g \in once : Content(g.conv) = Content(h.conv)
  /\ issues[a] = UNION {Found(h) : h \in once}

\* What a run has stored of an answer, if it is the first of its audit.
FirstStores(a) ==
  /\ runs[a] = 0 => pc[a] = "stopped" /\ \A c \in Convs : verdicts[a][c] = {}
  /\ runs[a] = 1 =>
       /\ \A c \in todo[a] : verdicts[a][c] = {}
       /\ txn[a] # None => verdicts[a][Subject(a)] = {}
       /\ \A h \in heard[a] : \A v \in verdicts[a][h.conv] : \E p \in DOMAIN h.said : h.said[p] = v

IssuesFounded ==
  \A a \in Audits :
    /\ \A h \in heard[a] : h.conv \in Convs
    /\ IsFiniteSet(issues[a])
    /\ \E once : CountsOnce(a, once)
    /\ FirstStores(a)

LEMMA InitFounded == Init => IssuesFounded
<1> SUFFICES ASSUME Init, NEW a \in Audits
             PROVE  /\ \A h \in heard[a] : h.conv \in Convs
                    /\ IsFiniteSet(issues[a])
                    /\ \E once : CountsOnce(a, once)
                    /\ FirstStores(a)
  BY DEF IssuesFounded
<1>1. /\ heard[a] = {} /\ issues[a] = {} /\ runs[a] = 0 /\ pc[a] = "stopped"
      /\ \A c \in Convs : verdicts[a][c] = {}
  BY DEF Init
<1>2. CountsOnce(a, {})
  BY <1>1 DEF CountsOnce
<1>3. QED
  BY <1>1, <1>2, FS_EmptySet DEF FirstStores

\* An answer has finitely many issues.
LEMMA FoundIsFinite ==
  ASSUME NEW h, h.said \in Seq(MessageVerdicts), IsFiniteSet(h.frauds)
  PROVE  IsFiniteSet(Found(h))
<1> DEFINE P == {q \in DOMAIN h.said : h.said[q].issue # None}
           f == [p \in P |-> <<h.conv, p, h.said[p].issue>>]
           F == {f[p] : p \in P}
           g == [x \in h.frauds |-> <<h.conv, 0, x>>]
           G == {g[x] : x \in h.frauds}
<1>1. IsFiniteSet(P)
  <2>1. DOMAIN h.said = 1 .. Len(h.said) /\ Len(h.said) \in Nat
    OBVIOUS
  <2>2. IsFiniteSet(1 .. Len(h.said)) /\ P \subseteq 1 .. Len(h.said)
    BY <2>1, FS_Interval
  <2> HIDE DEF P
  <2>3. QED
    BY <2>2, FS_Subset
<1>2. DOMAIN f = P /\ DOMAIN g = h.frauds
  OBVIOUS
<1>3. Found(h) = F \cup G
  BY DEF Found
<1> HIDE DEF f, g, P
<1>4. IsFiniteSet(F) /\ IsFiniteSet(G)
  BY <1>1, <1>2, ImageIsFinite
<1> HIDE DEF F, G
<1>5. QED
  BY <1>3, <1>4, FS_Union

LEMMA CommitKeepsFounded ==
  ASSUME Base, IssuesFounded, NEW a \in Audits, Commit(a)
  PROVE  IssuesFounded'
<1> USE DEF Base
<1>1. /\ pc[a] = "judge" /\ txn[a] \in Transactions /\ txn[a] # None
      /\ UNCHANGED <<plan, pc, runs, todo>>
      /\ txn' = [txn EXCEPT ![a] = None]
  BY CommitEffect
<1>2. PICK j \in Judgements :
        /\ verdicts' = [verdicts EXCEPT ![a][Subject(a)] =
                          @ \cup Stored(a, Subject(a), j.verdicts)]
        /\ issues' = [issues EXCEPT ![a] =
                        IF txn[a].dup THEN @ ELSE @ \cup Found(AnswerOf(a, j))]
        /\ heard' = [heard EXCEPT ![a] = @ \cup {AnswerOf(a, j)}]
  BY CommitEffect
<1> DEFINE c == Subject(a)
<1> PICK answer : answer = AnswerOf(a, j)
  OBVIOUS
<1>3. /\ answer.conv = c /\ answer.said = j.verdicts
      /\ j.verdicts \in Seq(MessageVerdicts) /\ IsFiniteSet(answer.frauds)
  <2>1. IsFiniteSet(j.frauds) /\ j.verdicts \in Seq(MessageVerdicts)
    BY ReportAssumption
  <2>2. QED
    BY <2>1, FS_EmptySet DEF AnswerOf, Answer
<1>4. IsFiniteSet(Found(answer))
  BY <1>3, FoundIsFinite
<1>5. /\ c \in Convs /\ c \notin todo[a]
      /\ \A h \in heard[a] : h.conv # c
      /\ txn[a].dup <=> HeardOf(a, Content(c))
  BY <1>1 DEF Transactions, Subject, MemoryAgrees, MemoryOf
<1>6. \A v \in Stored(a, c, j.verdicts) : \E p \in DOMAIN j.verdicts : j.verdicts[p] = v
  BY <1>3, StoredAreVerdicts
<1> HIDE DEF c
<1>7. /\ \A b \in Audits : b # a =>
           /\ txn'[b] = txn[b] /\ heard'[b] = heard[b] /\ issues'[b] = issues[b]
           /\ \A d \in Convs : verdicts'[b][d] = verdicts[b][d]
      /\ txn'[a] = None /\ heard'[a] = heard[a] \cup {answer}
      /\ issues'[a] = IF txn[a].dup THEN issues[a] ELSE issues[a] \cup Found(answer)
      /\ \A d \in Convs : d # c => verdicts'[a][d] = verdicts[a][d]
      /\ verdicts'[a][c] = verdicts[a][c] \cup Stored(a, c, j.verdicts)
  BY <1>1, <1>2, <1>5 DEF Typed, c
<1>8. \A d : Content(d)' = Content(d)
  BY <1>1 DEF Content
<1>9. ASSUME NEW b \in Audits, b # a
      PROVE  /\ \A h \in heard'[b] : h.conv \in Convs
             /\ IsFiniteSet(issues'[b])
             /\ \E once : CountsOnce(b, once)'
             /\ FirstStores(b)'
  <2>1. PICK once : CountsOnce(b, once)
    BY DEF IssuesFounded
  <2>2. CountsOnce(b, once)'
    BY <1>7, <1>8, <1>9, <2>1 DEF CountsOnce
  <2>3. FirstStores(b) /\ txn[b] \in Transactions \cup {None} /\ todo[b] \subseteq Convs
        /\ \A h \in heard[b] : h.conv \in Convs
    BY DEF IssuesFounded, Typed
  <2>4. txn[b] # None => Subject(b) \in Convs
    BY <2>3 DEF Subject, Transactions
  <2>5. FirstStores(b)'
    BY <1>1, <1>7, <1>9, <2>3, <2>4 DEF FirstStores, Subject
  <2>6. QED
    BY <1>7, <1>9, <2>2, <2>5 DEF IssuesFounded
<1>10. IsFiniteSet(issues'[a])
  <2>1. IsFiniteSet(issues[a])
    BY DEF IssuesFounded
  <2>2. IsFiniteSet(issues[a] \cup Found(answer))
    BY <1>4, <2>1, FS_Union
  <2>3. QED
    BY <1>7, <2>1, <2>2
<1>11. \E once : CountsOnce(a, once)'
  <2>1. PICK once : CountsOnce(a, once)
    BY DEF IssuesFounded
  <2>2. CASE txn[a].dup
    <3>1. PICK h \in heard[a] : Content(h.conv) = Content(c)
      BY <1>5, <2>2 DEF HeardOf
    <3>2. CountsOnce(a, once)'
      BY <1>3, <1>7, <1>8, <2>1, <2>2, <3>1 DEF CountsOnce
    <3>3. QED
      BY <3>2
  <2>3. CASE ~txn[a].dup
    <3>1. \A h \in heard[a] : Content(h.conv) # Content(c)
      BY <1>5, <2>3 DEF HeardOf
    <3> DEFINE more == once \cup {answer}
    <3>2. UNION {Found(h) : h \in more} = (UNION {Found(h) : h \in once}) \cup Found(answer)
      OBVIOUS
    <3>3. CountsOnce(a, more)'
      <4>1. \A h, g \in more : Content(h.conv) = Content(g.conv) => h = g
        BY <1>3, <2>1, <3>1 DEF CountsOnce
      <4>2. \A h \in heard[a] \cup {answer} : \E g \in more :
              Content(g.conv) = Content(h.conv)
        BY <2>1 DEF CountsOnce
      <4>3. more \subseteq heard[a] \cup {answer}
        BY <2>1 DEF CountsOnce
      <4>4. issues'[a] = UNION {Found(h) : h \in more}
        BY <1>7, <2>1, <2>3, <3>2 DEF CountsOnce
      <4> HIDE DEF more
      <4>5. QED
        BY <1>7, <1>8, <4>1, <4>2, <4>3, <4>4 DEF CountsOnce
    <3>4. QED
      BY <3>3
  <2>4. QED
    BY <2>2, <2>3
<1>12. FirstStores(a)'
  <2>1. FirstStores(a) /\ \A h \in heard[a] : h.conv \in Convs
    BY DEF IssuesFounded
  <2>2. runs[a] # 0
    BY <1>1, <2>1 DEF FirstStores
  <2>3. ASSUME runs[a] = 1
        PROVE  \A h \in heard'[a] : \A v \in verdicts'[a][h.conv] :
                 \E p \in DOMAIN h.said : h.said[p] = v
    <3>1. verdicts[a][c] = {}
      BY <1>1, <2>1, <2>3 DEF FirstStores, c
    <3>2. \A v \in verdicts'[a][answer.conv] : \E p \in DOMAIN answer.said : answer.said[p] = v
      BY <1>3, <1>6, <1>7, <3>1
    <3>3. \A h \in heard[a] : verdicts'[a][h.conv] = verdicts[a][h.conv]
      BY <1>5, <1>7, <2>1
    <3>4. QED
      BY <1>7, <2>1, <2>3, <3>2, <3>3 DEF FirstStores
  <2>4. todo[a] \subseteq Convs
    BY DEF Typed
  <2>5. runs[a] = 1 => \A d \in todo[a] : verdicts'[a][d] = {}
    BY <1>5, <1>7, <2>1, <2>4 DEF FirstStores
  <2>6. QED
    BY <1>1, <1>7, <2>2, <2>3, <2>5 DEF FirstStores
<1>13. \A h \in heard'[a] : h.conv \in Convs
  BY <1>3, <1>5, <1>7 DEF IssuesFounded
<1>14. QED
  BY <1>9, <1>10, <1>11, <1>12, <1>13 DEF IssuesFounded

\* What counts once before a step counts once after it, if the run forgets nothing.
LEMMA OthersKeepFounded ==
  ASSUME Base, IssuesFounded, UNCHANGED <<plan, verdicts, runs, issues, heard>>,
         NEW a \in Audits, runs[a] = 0 => pc'[a] = "stopped",
         todo'[a] \subseteq todo[a],
         txn'[a] # None => txn'[a] = txn[a] \/ Subject(a)' \in todo[a]
  PROVE  (/\ \A h \in heard[a] : h.conv \in Convs
          /\ IsFiniteSet(issues[a])
          /\ \E once : CountsOnce(a, once)
          /\ FirstStores(a))'
<1>1. PICK once : CountsOnce(a, once)
  BY DEF IssuesFounded
<1>2. CountsOnce(a, once)'
  BY <1>1 DEF CountsOnce, Content
<1>3. FirstStores(a)'
  BY DEF IssuesFounded, FirstStores, Subject
<1>4. QED
  BY <1>2, <1>3 DEF IssuesFounded

\* A run that forgets counts nothing.
LEMMA ForgettingKeepsFounded ==
  ASSUME Base, IssuesFounded, NEW a \in Audits, NEW convs, Loads(a, convs),
         convs \subseteq Convs, UNCHANGED verdicts, txn'[a] = None,
         runs'[a] = 0 => pc'[a] = "stopped",
         runs'[a] = 0 => runs[a] = 0, convs # {} /\ runs'[a] = 1 => runs[a] = 0
  PROVE  (/\ \A h \in heard[a] : h.conv \in Convs
          /\ IsFiniteSet(issues[a])
          /\ \E once : CountsOnce(a, once)
          /\ FirstStores(a))'
<1>1. heard'[a] = {} /\ issues'[a] = {} /\ todo'[a] = convs
  BY LoadsEffect DEF Base
<1>2. CountsOnce(a, {})'
  BY <1>1 DEF CountsOnce
<1>3. FirstStores(a)'
  BY <1>1 DEF IssuesFounded, FirstStores
<1>4. QED
  BY <1>1, <1>2, <1>3, FS_EmptySet

\* The other audits do not notice.
LEMMA ForgettingSparesOthers ==
  ASSUME Base, IssuesFounded, NEW a \in Audits, NEW convs, Loads(a, convs),
         UNCHANGED <<plan, verdicts>>, NEW b \in Audits, b # a,
         pc'[b] = pc[b] /\ runs'[b] = runs[b] /\ txn'[b] = txn[b]
  PROVE  (/\ \A h \in heard[b] : h.conv \in Convs
          /\ IsFiniteSet(issues[b])
          /\ \E once : CountsOnce(b, once)
          /\ FirstStores(b))'
<1>1. heard'[b] = heard[b] /\ issues'[b] = issues[b] /\ todo'[b] = todo[b]
  BY LoadsEffect DEF Base
<1>2. PICK once : CountsOnce(b, once)
  BY DEF IssuesFounded
<1>3. CountsOnce(b, once)'
  BY <1>1, <1>2 DEF CountsOnce, Content
<1>4. FirstStores(b)
  BY DEF IssuesFounded
<1>5. FirstStores(b)'
  BY <1>1, <1>4 DEF FirstStores, Subject
<1>6. QED
  BY <1>1, <1>3, <1>5 DEF IssuesFounded

LEMMA FoundedStep == Base /\ IssuesFounded /\ [Next]_vars => IssuesFounded'
<1> SUFFICES ASSUME Base, IssuesFounded, [Next]_vars PROVE IssuesFounded'
  OBVIOUS
<1> USE DEF rows, memory
<1> DEFINE Kept(b) == (/\ \A h \in heard[b] : h.conv \in Convs
                       /\ IsFiniteSet(issues[b])
                       /\ \E once : CountsOnce(b, once)
                       /\ FirstStores(b))
<1>1. \A b \in Audits : runs[b] = 0 => pc[b] = "stopped"
  BY DEF IssuesFounded, FirstStores
<1>2. ASSUME NEW a \in Audits, Start(a) PROVE IssuesFounded'
  <2>1. /\ pc[a] \in {"stopped", "active"} /\ Loads(a, Links(a) \ deleted)
        /\ pc' = [pc EXCEPT ![a] = "judge"] /\ runs' = [runs EXCEPT ![a] = @ + 1]
        /\ UNCHANGED <<plan, verdicts, txn>>
    BY <1>2 DEF Start
  <2>2. Links(a) \subseteq Convs /\ txn[a] = None
    BY <2>1, ShownIsFinite DEF Base, MemoryAgrees, MemoryOf
  <2>3. /\ runs'[a] = runs[a] + 1 /\ runs[a] \in Nat
        /\ txn'[a] = None /\ Links(a) \ deleted \subseteq Convs
    BY <2>1, <2>2 DEF Base, Typed
  <2>4. Kept(a)'
    BY <2>1, <2>2, <2>3, ForgettingKeepsFounded
  <2>5. \A b \in Audits : b # a => Kept(b)'
    BY <2>1, ForgettingSparesOthers DEF Base, Typed
  <2>6. QED
    BY <2>4, <2>5 DEF IssuesFounded
<1>3. ASSUME NEW a \in Audits, Interrupt(a) PROVE IssuesFounded'
  <2>1. /\ Loads(a, {}) /\ pc' = [pc EXCEPT ![a] = "stopped"]
        /\ txn' = [txn EXCEPT ![a] = None]
        /\ UNCHANGED <<plan, verdicts, runs>>
    BY <1>3 DEF Interrupt
  <2>2. /\ txn'[a] = None /\ pc'[a] = "stopped"
        /\ runs'[a] = runs[a] /\ {} \subseteq Convs
    BY <2>1 DEF Base, Typed
  <2>3. Kept(a)'
    BY <2>1, <2>2, ForgettingKeepsFounded
  <2>4. \A b \in Audits : b # a => Kept(b)'
    BY <2>1, ForgettingSparesOthers DEF Base, Typed
  <2>5. QED
    BY <2>3, <2>4 DEF IssuesFounded
<1>4. ASSUME NEW a \in Audits, NEW c \in Convs, Open(a, c) PROVE IssuesFounded'
  <2>1. /\ c \in todo[a] /\ todo' = [todo EXCEPT ![a] = @ \ {c}]
        /\ \A b \in Audits : b # a => txn'[b] = txn[b]
        /\ txn'[a].conv = c
        /\ UNCHANGED <<plan, verdicts, runs, issues, heard, pc>>
    BY <1>4 DEF Open, Base, Typed
  <2>2. \A b \in Audits : /\ todo'[b] \subseteq todo[b]
                          /\ txn'[b] = txn[b] \/ Subject(b)' \in todo[b]
    BY <2>1 DEF Subject, Base, Typed
  <2>3. \A b \in Audits : Kept(b)'
    BY <1>1, <2>1, <2>2, OthersKeepFounded
  <2>4. QED
    BY <2>3 DEF IssuesFounded
<1>5. ASSUME UNCHANGED <<plan, verdicts, runs, issues, heard, txn>>,
             \A b \in Audits : /\ runs[b] = 0 => pc'[b] = "stopped"
                               /\ todo'[b] \subseteq todo[b]
      PROVE  IssuesFounded'
  <2>1. \A b \in Audits : Kept(b)'
    BY <1>5, OthersKeepFounded
  <2>2. QED
    BY <2>1 DEF IssuesFounded
<1>6. ASSUME NEW a \in Audits, NEW c \in Convs, Skip(a, c) PROVE IssuesFounded'
  <2>1. /\ todo' = [todo EXCEPT ![a] = @ \ {c}]
        /\ UNCHANGED <<plan, verdicts, runs, issues, heard, txn, pc>>
    BY <1>6 DEF Skip
  <2>2. \A b \in Audits : todo'[b] \subseteq todo[b]
    BY <2>1 DEF Base, Typed
  <2>3. QED
    BY <1>1, <1>5, <2>1, <2>2
<1>7. ASSUME NEW a \in Audits, ReadScores(a) \/ WriteChart(a) \/ Finish(a)
      PROVE  IssuesFounded'
  <2>1. /\ pc[a] # "stopped" /\ \A b \in Audits : b # a => pc'[b] = pc[b]
        /\ UNCHANGED <<plan, verdicts, runs, issues, heard, txn, todo>>
    BY <1>7 DEF ReadScores, WriteChart, Finish, Base, Typed
  <2>2. \A b \in Audits : runs[b] = 0 => pc'[b] = "stopped"
    BY <1>1, <2>1
  <2>3. QED
    BY <1>5, <2>1, <2>2
<1>8. ASSUME NEW c \in Convs, DeleteConversation(c) PROVE IssuesFounded'
  <2>1. UNCHANGED <<plan, verdicts, runs, issues, heard, txn, todo, pc>>
    BY <1>8 DEF DeleteConversation
  <2>2. QED
    BY <1>1, <1>5, <2>1
<1>9. CASE UNCHANGED vars
  <2>1. UNCHANGED <<plan, verdicts, runs, issues, heard, txn, todo, pc>>
    BY <1>9 DEF vars
  <2>2. QED
    BY <1>1, <1>5, <2>1
<1>10. QED
  BY <1>2, <1>3, <1>4, <1>6, <1>7, <1>8, <1>9, CommitKeepsFounded DEF Next

\* Patterns that a run may suggest: frequent issues with the messages it counted of
\* them, and any other frequent one is as frequent as at most three of them.
WellSuggested(a, patterns) ==
  /\ \A s \in patterns : s.count = Count(a, s.issue) /\ s.count >= Threshold
  /\ \A i \in Counted(a) \ {"otro"} : Count(a, i) >= Threshold =>
       \/ \E s \in patterns : s.issue = i
       \/ Cardinality({s \in patterns : s.count >= Count(a, i)}) = 3

Suggested ==
  \A a \in Audits : pc[a] = "active" => WellSuggested(a, suggestions[a] \ {Structural})

LEMMA InitSuggested == Init => Suggested
BY DEF Init, Suggested

LEMMA CountType ==
  ASSUME IssuesFounded, NEW a \in Audits
  PROVE  /\ IsFiniteSet(Counted(a))
         /\ \A i : Count(a, i) \in Nat
<1>1. IsFiniteSet(issues[a])
  BY DEF IssuesFounded
<1>2. IsFiniteSet(Counted(a))
  <2> DEFINE f == [m \in issues[a] |-> m[3]]
  <2>1. Counted(a) = {f[m] : m \in issues[a]} /\ DOMAIN f = issues[a]
    BY DEF Counted
  <2> HIDE DEF f
  <2>2. QED
    BY <1>1, <2>1, ImageIsFinite
<1>3. ASSUME NEW i
      PROVE  Count(a, i) \in Nat
  <2> DEFINE M == {m \in issues[a] : m[3] = i}
  <2>1. IsFiniteSet(M)
    BY <1>1, FS_Subset
  <2>2. Count(a, i) = Cardinality(M)
    BY DEF Count
  <2> HIDE DEF M
  <2>3. QED
    BY <2>1, <2>2, FS_CardinalityType
<1>4. QED
  BY <1>2, <1>3

\* A set of frequent issues, the most common of some, makes good suggestions.
LEMMA PatternsAreGood ==
  ASSUME IssuesFounded, NEW a \in Audits, NEW most, NEW T \in SUBSET most, IsFiniteSet(most),
         T \in MostCommon(a, most), NEW F, F = Frequent(a, T),
         \A i \in Counted(a) \ {"otro"} : Count(a, i) >= Threshold => i \in most,
         NEW P, P = {Pattern(a, i) : i \in F}
  PROVE  WellSuggested(a, P) /\ Structural \notin P
<1>1. /\ F = {i \in T : Count(a, i) >= Threshold}
      /\ IsFiniteSet(T) /\ IsFiniteSet(F)
  BY FS_Subset DEF Frequent
<1>2. \A s \in P : s.count = Count(a, s.issue) /\ s.count >= Threshold
  BY <1>1 DEF Pattern
<1>3. Structural \notin P
  <2>1. Structural.count = 0
    BY DEF Structural
  <2>2. QED
    BY <1>2, <2>1, ReportAssumption
<1>4. ASSUME NEW i \in Counted(a) \ {"otro"}, Count(a, i) >= Threshold
      PROVE  \/ \E s \in P : s.issue = i
             \/ Cardinality({s \in P : s.count >= Count(a, i)}) = 3
  <2>1. CASE i \in T
    <3>1. i \in F
      BY <1>1, <1>4, <2>1
    <3>2. Pattern(a, i) \in P /\ Pattern(a, i).issue = i
      BY <3>1 DEF Pattern
    <3>3. QED
      BY <3>2
  <2>2. CASE i \notin T
    <3>1. i \in most /\ \A k \in T : Count(a, k) >= Count(a, i)
      BY <1>4, <2>2 DEF MostCommon
    <3>2. Cardinality(T) = 3
      <4>1. Cardinality(T) = IF Cardinality(most) < 3 THEN Cardinality(most) ELSE 3
        BY DEF MostCommon
      <4>2. Cardinality(most) # Cardinality(T)
        BY <2>2, <3>1, FS_Subset
      <4>3. QED
        BY <4>1, <4>2
    <3>3. F = T
      <4>1. \A k \in T : Count(a, k) >= Threshold
        BY <1>4, <3>1, CountType, ReportAssumption
      <4>2. QED
        BY <1>1, <4>1
    <3>4. Cardinality(P) = Cardinality(F)
      <4> DEFINE f == [k \in F |-> Pattern(a, k)]
      <4>1. f \in Surjection(F, P)
        BY DEF Surjection
      <4>2. \A k, m \in F : f[k] = f[m] => k = m
        BY DEF Pattern
      <4>3. f \in Injection(F, P)
        BY <4>1, <4>2 DEF Surjection, Injection, IsInjective
      <4> HIDE DEF f
      <4>4. QED
        BY <1>1, <4>1, <4>3, FS_Surjection
    <3>5. {s \in P : s.count >= Count(a, i)} = P
      BY <3>1, <3>3 DEF Pattern
    <3>6. QED
      BY <3>2, <3>3, <3>4, <3>5
  <2>3. QED
    BY <2>1, <2>2
<1>5. QED
  BY <1>2, <1>3, <1>4 DEF WellSuggested

LEMMA TemplatesAreGood ==
  ASSUME IssuesFounded, NEW a \in Audits, NEW P \in Templates(a)
  PROVE  WellSuggested(a, P) /\ Structural \notin P
<1>1. PICK T \in MostCommon(a, Counted(a)) : P = {Pattern(a, i) : i \in Frequent(a, T)}
  BY DEF Templates
<1>2. T \in SUBSET Counted(a)
  BY DEF MostCommon
<1>3. QED
  BY <1>1, <1>2, CountType, PatternsAreGood

LEMMA StatsAreGood ==
  ASSUME IssuesFounded, NEW a \in Audits, NEW P \in Stats(a)
  PROVE  WellSuggested(a, P) /\ Structural \notin P
<1> DEFINE most == Frequent(a, Counted(a)) \ {"otro"}
<1>1. PICK T \in MostCommon(a, most) : P = {Pattern(a, i) : i \in T}
  BY DEF Stats
<1>2. T \in SUBSET most
  BY DEF MostCommon
<1>3. T = Frequent(a, T)
  BY <1>2 DEF Frequent
<1>4. IsFiniteSet(most)
  BY CountType, FS_Subset DEF Frequent
<1>5. \A i \in Counted(a) \ {"otro"} : Count(a, i) >= Threshold => i \in most
  BY DEF Frequent
<1> HIDE DEF most
<1>6. QED
  BY <1>1, <1>2, <1>3, <1>4, <1>5, PatternsAreGood

\* What a run has counted and suggested stays once it is published; only Finish
\* publishes.
LEMMA SuggestionsStay ==
  ASSUME Base, [Next]_vars, NEW a \in Audits, pc'[a] = "active"
  PROVE  \/ /\ pc[a] = "active"
            /\ issues'[a] = issues[a] /\ suggestions'[a] = suggestions[a]
         \/ Finish(a)
<1> DEFINE Goal == \/ /\ pc[a] = "active"
                      /\ issues'[a] = issues[a] /\ suggestions'[a] = suggestions[a]
                   \/ Finish(a)
<1>1. ASSUME NEW b \in Audits, NEW convs, Loads(b, convs), UNCHANGED suggestions,
             pc' = [pc EXCEPT ![b] = "judge"] \/ pc' = [pc EXCEPT ![b] = "stopped"]
      PROVE  Goal
  <2>1. b # a /\ pc[a] = "active"
    BY <1>1 DEF Base, Typed
  <2>2. issues'[a] = issues[a]
    BY <1>1, <2>1, LoadsEffect DEF Base
  <2>3. QED
    BY <1>1, <2>1, <2>2
<1>2. ASSUME NEW b \in Audits, Start(b) PROVE Goal
  BY <1>1, <1>2 DEF Start, reports
<1>3. ASSUME NEW b \in Audits, Interrupt(b) PROVE Goal
  BY <1>1, <1>3 DEF Interrupt, reports
<1>4. ASSUME NEW b \in Audits, Commit(b) PROVE Goal
  <2>1. /\ pc[b] = "judge" /\ UNCHANGED <<pc, suggestions>>
        /\ \A d \in Audits : d # b => issues'[d] = issues[d]
    BY <1>4, CommitEffect DEF reports, Base, Typed
  <2>2. QED
    BY <2>1
<1>5. ASSUME UNCHANGED <<suggestions, issues>>, pc'[a] = "active" => pc[a] = "active"
      PROVE  Goal
  BY <1>5
<1>6. ASSUME NEW b \in Audits, NEW c \in Convs, Open(b, c) \/ Skip(b, c) PROVE Goal
  BY <1>5, <1>6 DEF Open, Skip, reports
<1>7. ASSUME NEW b \in Audits, ReadScores(b) \/ WriteChart(b) PROVE Goal
  BY <1>5, <1>7 DEF ReadScores, WriteChart, reports, memory, Base, Typed
<1>8. ASSUME NEW b \in Audits, Finish(b) PROVE Goal
  BY <1>8 DEF Finish, memory, Base, Typed, Suggestions
<1>9. ASSUME NEW c \in Convs, DeleteConversation(c) PROVE Goal
  BY <1>5, <1>9 DEF DeleteConversation, reports, memory
<1>10. CASE UNCHANGED vars
  BY <1>5, <1>10 DEF vars, reports, memory
<1>11. QED
  BY <1>2, <1>3, <1>4, <1>6, <1>7, <1>8, <1>9, <1>10 DEF Next

LEMMA SuggestedStep ==
  Base /\ IssuesFounded /\ Suggested /\ [Next]_vars => Suggested'
<1> SUFFICES ASSUME Base, IssuesFounded, Suggested, [Next]_vars, NEW a \in Audits,
                    pc'[a] = "active"
             PROVE  WellSuggested(a, suggestions[a] \ {Structural})'
  BY DEF Suggested
<1>1. ASSUME issues'[a] = issues[a], WellSuggested(a, suggestions'[a] \ {Structural})
      PROVE  WellSuggested(a, suggestions[a] \ {Structural})'
  <2>1. Counted(a)' = Counted(a) /\ \A i : Count(a, i)' = Count(a, i)
    BY <1>1 DEF Counted, Count
  <2>2. QED
    BY <1>1, <2>1 DEF WellSuggested, Structural
<1>2. CASE pc[a] = "active" /\ issues'[a] = issues[a] /\ suggestions'[a] = suggestions[a]
  BY <1>1, <1>2 DEF Suggested
<1>3. CASE Finish(a)
  <2>1. /\ \E some \in Suggestions(a) : suggestions' = [suggestions EXCEPT ![a] = some]
        /\ issues' = issues
    BY <1>3 DEF Finish, memory
  <2>2. suggestions'[a] \in Suggestions(a)
    BY <2>1 DEF Base, Typed
  <2>3. \/ suggestions'[a] \in Templates(a) \cup Stats(a)
        \/ \E templates \in Templates(a) : suggestions'[a] = templates \cup {Structural}
    BY <2>2 DEF Suggestions
  <2>4. \E P \in Templates(a) \cup Stats(a) : suggestions'[a] \ {Structural} = P
    BY <2>3, StatsAreGood, TemplatesAreGood
  <2>5. WellSuggested(a, suggestions'[a] \ {Structural})
    BY <2>4, StatsAreGood, TemplatesAreGood
  <2>6. QED
    BY <1>1, <2>1, <2>5
<1>4. QED
  BY <1>2, <1>3, SuggestionsStay

\* The verdicts with an issue, and the messages counted for it.
FlaggedWith(a, c, i) == {w \in verdicts[a][c] : w.issue = i}
CountedWith(a, c, i) == {m \in issues[a] : m[1] = c /\ m[3] = i}

\* A run that was not repeated has counted what it has stored: each verdict of the
\* report is that of a place in the answer, and no two that of the same place.
LEMMA StoredAreCounted ==
  ASSUME Base, IssuesFounded, NEW a \in Audits, runs[a] = 1,
         NEW once, CountsOnce(a, once), NEW h \in once, NEW i, i # None
  PROVE  Cardinality(FlaggedWith(a, h.conv, i)) <= Cardinality(CountedWith(a, h.conv, i))
<1> DEFINE V == {w \in verdicts[a][h.conv] : w.issue = i}
           M == {m \in issues[a] : m[1] = h.conv /\ m[3] = i}
           p(w) == CHOOSE q \in DOMAIN h.said : h.said[q] = w
           f == [w \in V |-> <<h.conv, p(w), i>>]
<1>1. h \in heard[a] /\ Found(h) \subseteq issues[a]
  BY DEF CountsOnce
<1>2. \A w \in V : p(w) \in DOMAIN h.said /\ h.said[p(w)] = w
  BY <1>1 DEF IssuesFounded, FirstStores
<1>3. \A w \in V : <<h.conv, p(w), i>> \in M
  <2> TAKE w \in V
  <2>1. /\ p(w) \in DOMAIN h.said /\ h.said[p(w)] = w /\ w.issue = i
    BY <1>2
  <2> HIDE DEF p
  <2>2. <<h.conv, p(w), i>> \in Found(h)
    BY <2>1 DEF Found
  <2>3. QED
    BY <1>1, <2>2
<1>4. \A v, w \in V : f[v] = f[w] => v = w
  <2> TAKE v, w \in V
  <2> HIDE DEF V, p
  <2>1. f[v] = f[w] => p(v) = p(w)
    OBVIOUS
  <2>2. QED
    BY <1>2, <2>1
<1>5. f \in [V -> M]
  BY <1>3
<1> HIDE DEF f, p
<1>6. f \in Injection(V, M)
  BY <1>4, <1>5 DEF Injection, IsInjective
<1>7. IsFiniteSet(M)
  BY FS_Subset DEF IssuesFounded
<1> HIDE DEF V, M
<1>8. Cardinality(V) <= Cardinality(M)
  BY <1>6, <1>7, FS_Injection
<1>9. QED
  BY <1>8 DEF V, M, FlaggedWith, CountedWith

\* A published run has heard of every content that is left.
LEMMA PublishedHeardAll ==
  ASSUME Base, NEW a \in Audits, pc[a] = "active", NEW once, CountsOnce(a, once)
  PROVE  OfEachContent(a, once)
<1>1. ASSUME NEW c \in Links(a) \ deleted
      PROVE  \E h \in once : Content(h.conv) = Content(c)
  <2>1. c \in convIds[a] \ (todo[a] \cup deleted) /\ txn[a] = None
    BY DEF Base, MemoryAgrees, MemoryOf
  <2>2. PICK h \in heard[a] : h.conv = c
    BY <2>1 DEF Base, MemoryAgrees, MemoryOf
  <2>3. QED
    BY <2>2 DEF CountsOnce
<1>2. QED
  BY <1>1 DEF CountsOnce, OfEachContent

\* B4, S2: the suggestions of a published audit count the messages of one answer of
\* each content, heard by the run that published it; no frequent pattern is left out
\* for one that is less frequent; and a run that was not repeated has counted every
\* verdict that its report shows of the conversations it counts.
THEOREM SuggestionsAreFounded == Spec => []SuggestionsCounted
<1>1. ASSUME Base, IssuesFounded, Suggested PROVE SuggestionsCounted
  <2> SUFFICES ASSUME NEW a \in Audits, pc[a] = "active"
               PROVE  \E once \in SUBSET heard[a] :
                        LET messages == UNION {Found(h) : h \in once}
                            count(i) == Cardinality({m \in messages : m[3] = i})
                            patterns == suggestions[a] \ {Structural}
                            flags(c) == {v \in verdicts[a][c] : v.issue # None}
                        IN  /\ OfEachContent(a, once)
                            /\ \A s \in patterns : s.count = count(s.issue) /\ s.count >= Threshold
                            /\ \A i \in {m[3] : m \in messages} \ {"otro"} :
                                 count(i) >= Threshold =>
                                   \/ \E s \in patterns : s.issue = i
                                   \/ Cardinality({s \in patterns : s.count >= count(i)}) = 3
                            /\ runs[a] = 1 => \A h \in once : \A v \in flags(h.conv) :
                                 Cardinality({w \in flags(h.conv) : w.issue = v.issue})
                                   <= Cardinality({m \in messages :
                                                     m[1] = h.conv /\ m[3] = v.issue})
    BY DEF SuggestionsCounted
  <2>1. PICK once : CountsOnce(a, once)
    BY <1>1 DEF IssuesFounded
  <2> DEFINE messages == UNION {Found(h) : h \in once}
             patterns == suggestions[a] \ {Structural}
             flags(c) == {v \in verdicts[a][c] : v.issue # None}
             count(i) == Cardinality({m \in messages : m[3] = i})
  <2>2. once \in SUBSET heard[a] /\ messages = issues[a]
    BY <2>1 DEF CountsOnce
  <2>3. OfEachContent(a, once)
    BY <1>1, <2>1, PublishedHeardAll
  <2> HIDE DEF messages
  <2>4. WellSuggested(a, patterns)
    BY <1>1 DEF Suggested
  <2>5. (\A i : count(i) = Count(a, i)) /\ {m[3] : m \in messages} = Counted(a)
    BY <2>2 DEF Count, Counted
  <2> HIDE DEF patterns, count
  <2>6. \A s \in patterns : s.count = count(s.issue) /\ s.count >= Threshold
    BY <2>4, <2>5 DEF WellSuggested
  <2>7. \A i \in {m[3] : m \in messages} \ {"otro"} : count(i) >= Threshold =>
          \/ \E s \in patterns : s.issue = i
          \/ Cardinality({s \in patterns : s.count >= count(i)}) = 3
    BY <2>4, <2>5 DEF WellSuggested
  <2>8. ASSUME runs[a] = 1, NEW h \in once, NEW v \in flags(h.conv)
        PROVE  Cardinality({w \in flags(h.conv) : w.issue = v.issue})
                 <= Cardinality({m \in messages : m[1] = h.conv /\ m[3] = v.issue})
    <3>1. PICK i : i = v.issue /\ i # None
      BY <2>8
    <3>2. /\ {w \in flags(h.conv) : w.issue = i} = FlaggedWith(a, h.conv, i)
          /\ {m \in messages : m[1] = h.conv /\ m[3] = i} = CountedWith(a, h.conv, i)
      BY <2>2, <3>1 DEF FlaggedWith, CountedWith
    <3>3. Cardinality(FlaggedWith(a, h.conv, i)) <= Cardinality(CountedWith(a, h.conv, i))
      BY <1>1, <2>1, <2>8, <3>1, StoredAreCounted
    <3> HIDE DEF flags
    <3>4. QED
      BY <3>1, <3>2, <3>3
  <2> HIDE DEF flags
  <2>9. QED
    <3>1. once \in SUBSET heard[a]
      BY <2>2
    <3> USE <3>1
    <3> WITNESS once \in SUBSET heard[a]
    <3>2. QED
      BY <2>3, <2>6, <2>7, <2>8 DEF messages, patterns, flags, count
<1>2. QED
  BY <1>1, InitBase, StepBase, InitFounded, FoundedStep, InitSuggested, SuggestedStep, PTL
     DEF Spec
=============================================================================
