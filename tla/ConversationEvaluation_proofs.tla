-------------------- MODULE ConversationEvaluation_proofs --------------------
(***************************************************************************)
(* Proofs about ConversationEvaluation for every set of answers, opinions  *)
(* and detections, every number of verdicts and every set of keys: who     *)
(* answers, what the evidence does to score, review and alert, what the    *)
(* weights make of the answers, and which segments they can lead to.       *)
(***************************************************************************)
EXTENDS ConversationEvaluation, FiniteSetTheorems, WellFoundedInduction, TLAPS

USE ScoringAssumption, EvaluationAssumption

-----------------------------------------------------------------------------
(* The operators of Scoring.                                               *)

\* The first of some positions is one of them.
LEMMA FirstIsOne ==
  ASSUME NEW S \in SUBSET Nat, S # {}
  PROVE  Min(S) \in S
<1> DEFINE Less == {p \in Nat \X Nat : p[1] < p[2]}
<1>1. IsWellFoundedOn(Less, Nat)
  BY NatLessThanWellFounded DEF OpToRel
<1>2. PICK x \in S : \A y \in S : ~(<<y, x>> \in Less)
  <2> HIDE DEF Less
  <2>1. QED
    BY <1>1, WFMin
<1>3. ASSUME NEW y \in S PROVE x <= y
  <2>1. x \in Nat /\ y \in Nat /\ (y < x => <<y, x>> \in Less)
    OBVIOUS
  <2>2. QED
    BY <1>2, <2>1
<1>4. QED
  BY <1>3 DEF Min

\* A guarded verdict is a verdict about the same issue.
LEMMA GuardKeepsIssues ==
  ASSUME NEW v \in VerdictType
  PROVE  GuardVerdict(v) \in VerdictType /\ GuardVerdict(v).issue = v.issue
BY DEF GuardVerdict, Downgrade, VerdictType, Severities

\* And a high severity that is left has its ground.
Guarded(vs) ==
  \A i \in DOMAIN vs : vs[i].severity \in {"alta", "critica"} => vs[i].grounded

LEMMA GuardedAreVerdicts ==
  ASSUME NEW n \in Nat, NEW vs \in [1 .. n -> VerdictType]
  PROVE  GuardVerdicts(vs) \in Seq(VerdictType) /\ Guarded(GuardVerdicts(vs))
<1>1. GuardVerdicts(vs) \in Seq(VerdictType)
  BY GuardKeepsIssues DEF GuardVerdicts
<1>2. ASSUME NEW i \in 1 .. n, GuardVerdict(vs[i]).severity \in {"alta", "critica"}
      PROVE  GuardVerdict(vs[i]).grounded
  BY <1>2 DEF GuardVerdict, Downgrade, VerdictType, Severities
<1>3. QED
  BY <1>1, <1>2 DEF GuardVerdicts, Guarded

LEMMA HallucinationsArePositions ==
  ASSUME NEW vs \in Seq(VerdictType)
  PROVE  Hallucinations(vs) \in SUBSET Nat
BY DEF Hallucinations

\* The confidence in hallucinations is that in one of them.
LEMMA OneDecides ==
  ASSUME NEW vs \in Seq(VerdictType), NEW signal, Hallucinations(vs) # {}
  PROVE  \E i \in Hallucinations(vs) :
           MappedConfidence(vs, signal) =
             IF vs[i].severity \in {"baja", "media"} THEN 40 ELSE 80
<1>1. Min(Hallucinations(vs)) \in Hallucinations(vs)
  BY FirstIsOne, HallucinationsArePositions
<1>2. QED
  BY <1>1 DEF MappedConfidence

\* The flags of a mapped rubric are those of the detectors and the hallucination.
LEMMA MappedFlags ==
  ASSUME NEW parsed_, NEW vs, NEW det, NEW fraud \in BOOLEAN,
         NEW mapped, mapped = MapEvalToRubric(parsed_, vs, det, fraud)
  PROVE  /\ mapped.veto = IF Hallucinations(vs) # {}
                          THEN det \cup {"A1_alucinacion"} ELSE det
         /\ mapped.review \in BOOLEAN
         /\ mapped.review <=> mapped.veto # {} \/ fraud
         /\ mapped.fraud = fraud
         /\ mapped.dims = Dimensions(parsed_, vs)
         /\ \E signal \in BOOLEAN : mapped.confidence = MappedConfidence(vs, signal)
BY DEF MapEvalToRubric, HasSignal

LEMMA DimensionsAreScores ==
  ASSUME NEW p \in EvaluationType, NEW vs, NEW d \in DOMAIN Dimensions(p, vs)
  PROVE  Dimensions(p, vs)[d] \in 1 .. 5
<1>1. ToneScore[p.tone] \in 1 .. 5
  BY DEF EvaluationType, Tones, ToneScore
<1>2. QED
  BY <1>1 DEF Dimensions, EvaluationType

\* A score that is not capped is the average; a capped one is at most the cap.
LEMMA ScoresAreCapped ==
  ASSUME NEW rubric_, NEW det, NEW score \in ComputeScores(rubric_, det)
  PROVE  LET firm == IsFirm(rubric_.veto \cup det, det, rubric_.confidence)
         IN  /\ score.veto = rubric_.veto \cup det
             /\ firm => score.final <= VetoCap
             /\ score.final # score.bruto => firm
<1> DEFINE firm == IsFirm(rubric_.veto \cup det, det, rubric_.confidence)
<1>1. VetoCap <= VetoCap
  BY DEF VetoCap
<1>2. CASE DOMAIN rubric_.dims = {}
  BY <1>1, <1>2 DEF ComputeScores
<1>3. CASE DOMAIN rubric_.dims # {}
  <2>1. PICK b \in Brutos(rubric_.dims) :
          /\ score.veto = rubric_.veto \cup det
          /\ score.bruto = b
          /\ score.final = IF firm THEN Capped(b) ELSE b
    BY <1>3 DEF ComputeScores
  <2>2. Capped(b) <= VetoCap
    BY <1>1 DEF Capped
  <2>3. QED
    BY <2>1, <2>2
<1>4. QED
  BY <1>2, <1>3

\* A conversation is a problem if it is fraud or a jailbreak that succeeded.
LEMMA ProblematicSegments ==
  ASSUME NEW rubric_, NEW score
  PROVE  /\ DeriveSegment(rubric_, score) \in Segments
         /\ DeriveSegment(rubric_, score) = "problematico"
              <=> rubric_.fraud \/ "B1_jailbreak" \in score.veto
BY DEF DeriveSegment, Segments

-----------------------------------------------------------------------------
(* Types.                                                                  *)

Typed ==
  /\ TypeOK
  /\ provider \in keys
  /\ Guarded(verdicts)
  /\ pc \in {"judge", "judge2", "score"} => parsed \in EvaluationType

\* What the step Score makes of the detections.
ScoredBy(s, score) ==
  LET det == DetVeto(s, parsed)
      mapped == MapEvalToRubric(parsed, verdicts, det, s.fraud)
  IN  /\ s \in Detections
      /\ signals' = s
      /\ rubric' = [mapped EXCEPT !.review = @ \/ LowConfidence(verdicts)]
      /\ score \in ComputeScores(rubric', det)
      /\ result' = [score |-> score, segment |-> DeriveSegment(rubric', score),
                    critical |-> IsCritical(score, s, DeriveSegment(rubric', score))]

LEMMA ScoreWrites == Score => \E s, score : ScoredBy(s, score)
BY Zenon DEF Score, ScoredBy

LEMMA ScoreTyped ==
  ASSUME Typed, Score
  PROVE  Typed'
<1>1. PICK s, score : ScoredBy(s, score)
  BY ScoreWrites
<1> DEFINE det == DetVeto(s, parsed)
           mapped == MapEvalToRubric(parsed, verdicts, det, s.fraud)
<1>2. s \in DetectionType /\ s.fraud \in BOOLEAN
  BY <1>1 DEF ScoredBy, DetectionType
<1>3. parsed \in EvaluationType
  BY DEF Typed, Score
<1>4. /\ mapped.dims = Dimensions(parsed, verdicts)
      /\ mapped.review \in BOOLEAN
  <2>1. mapped = MapEvalToRubric(parsed, verdicts, det, s.fraud)
    OBVIOUS
  <2> HIDE DEF mapped, det
  <2>2. mapped.dims = Dimensions(parsed, verdicts)
    BY <2>1 DEF MapEvalToRubric
  <2>3. mapped.review \in BOOLEAN
    BY <1>2, <2>1 DEF MapEvalToRubric, HasSignal
  <2>4. QED
    BY <2>2, <2>3
<1>5. rubric'.dims = mapped.dims
  BY <1>1 DEF ScoredBy, MapEvalToRubric
<1>6. rubric'.review = (mapped.review \/ LowConfidence(verdicts))
  BY <1>1 DEF ScoredBy, MapEvalToRubric
<1>7. rubric'.review \in BOOLEAN
  BY <1>4, <1>6 DEF LowConfidence
<1>8. \A d \in DOMAIN rubric'.dims : rubric'.dims[d] \in 1 .. 5
  BY <1>3, <1>4, <1>5, DimensionsAreScores
<1>9. /\ result'.segment = DeriveSegment(rubric', score)
      /\ result'.critical = IsCritical(score, s, DeriveSegment(rubric', score))
  BY <1>1 DEF ScoredBy
<1>10. result'.segment \in Segments /\ result'.critical \in BOOLEAN
  BY <1>9, <1>2, ProblematicSegments DEF IsCritical
<1>11. signals' \in DetectionType
  BY <1>1, <1>2 DEF ScoredBy
<1>12. UNCHANGED <<provider, keys, replies, parsed, verdicts>> /\ pc' = "done"
  BY DEF Score
<1>13. QED
  BY <1>7, <1>8, <1>10, <1>11, <1>12 DEF Typed, TypeOK, Steps

\* Every reply is of one of the providers.
LEMMA RepliesAreTyped ==
  ASSUME Typed, NEW p \in {Chain(provider)[1], Chain(provider)[2]}, NEW kinds,
         Reply(p, kinds)
  PROVE  /\ replies' \subseteq Steps \X {"anthropic", "deepseek", "openai"}
                                 \X (Replies \cup {"nokey"})
         /\ \E kind \in kinds :
              /\ kind \in RepliesOf(p)
              /\ replies' = replies \cup {<<pc, p, kind>>}
<1>1. p \in {"anthropic", "deepseek", "openai"}
  BY DEF Chain
<1>2. PICK kind \in kinds \cap RepliesOf(p) : replies' = replies \cup {<<pc, p, kind>>}
  BY DEF Reply
<1>3. kind \in Replies \cup {"nokey"}
  BY <1>2 DEF RepliesOf
<1>4. QED
  BY <1>1, <1>2, <1>3 DEF Typed, TypeOK

\* Both engines are asked in the same order for the verdicts.
LEMMA SameChain == JudgeChain(provider) = Chain(provider)
BY DEF JudgeChain, Chain

\* An answer of a provider of the chain; its verdicts; a reply that is neither.
LEMMA AnsweredTyped ==
  ASSUME Typed, NEW p \in {Chain(provider)[1], Chain(provider)[2]}, Answered(p)
  PROVE  Typed'
<1>1. parsed' \in EvaluationType
  BY DEF Answered
<1>2. QED
  BY <1>1, RepliesAreTyped DEF Answered, Typed, TypeOK, Steps, scored

LEMMA JudgedTyped ==
  ASSUME Typed, NEW p \in {Chain(provider)[1], Chain(provider)[2]}, Judged(p),
         parsed \in EvaluationType
  PROVE  Typed'
<1>1. PICK n \in 0 .. MaxVerdicts :
        \E vs \in [1 .. n -> Opinions] : verdicts' = GuardVerdicts(vs)
  BY DEF Judged
<1>2. verdicts' \in Seq(VerdictType) /\ Guarded(verdicts')
  BY <1>1, GuardedAreVerdicts
<1>3. QED
  BY <1>2, RepliesAreTyped DEF Judged, Typed, TypeOK, Steps, scored

LEMMA FailedTyped ==
  ASSUME Typed, NEW p \in {Chain(provider)[1], Chain(provider)[2]}, NEW kinds,
         Reply(p, kinds), Fail
  PROVE  Typed'
BY RepliesAreTyped DEF Fail, Typed, TypeOK, Steps, scored

LEMMA CallTyped ==
  ASSUME Typed, Next, ~Score
  PROVE  Typed'
<1> DEFINE first == Chain(provider)[1]
           second == Chain(provider)[2]
<1>1. CASE EvaluatePrimary \/ EvaluateFallback
  BY <1>1, AnsweredTyped DEF EvaluatePrimary, EvaluateFallback
<1>2. CASE JudgePrimary \/ JudgeFallback
  BY <1>2, JudgedTyped, SameChain DEF JudgePrimary, JudgeFallback, Typed
<1>3. CASE PrimaryFails \/ FallbackFails \/ JudgeFails
  BY <1>3, FailedTyped, SameChain DEF PrimaryFails, FallbackFails, JudgeFails
<1>4. CASE JudgeMalformed
  <2>1. Reply(first, {"malformed", "noobject"}) \/ Reply(second, {"malformed", "noobject"})
    BY <1>4, SameChain DEF JudgeMalformed
  <2>2. QED
    BY <1>4, <2>1, FailedTyped DEF JudgeMalformed
<1>5. CASE FallBack
  BY <1>5, RepliesAreTyped DEF FallBack, Typed, TypeOK, Steps, scored
<1>6. CASE JudgeMovesOn
  BY <1>6, RepliesAreTyped, SameChain DEF JudgeMovesOn, Typed, TypeOK, Steps, scored
<1>7. QED
  BY <1>1, <1>2, <1>3, <1>4, <1>5, <1>6 DEF Next

LEMMA AlwaysTyped == Spec => []Typed
<1>1. Init => Typed
  BY DEF Init, Typed, TypeOK, Steps, KeyColumns, Guarded
<1>2. Typed /\ [Next]_vars => Typed'
  <2>1. Typed /\ UNCHANGED vars => Typed'
    BY DEF Typed, TypeOK, vars
  <2>2. QED
    BY <2>1, CallTyped, ScoreTyped
<1>3. QED
  BY <1>1, <1>2, PTL DEF Spec

\* Every variable keeps its type; in particular every conversation that is
\* scored gets scores from 1 to 5 and one of the segments.
THEOREM TypeCorrect == Spec => []TypeOK
<1>1. Typed => TypeOK
  BY DEF Typed
<1>2. QED
  BY <1>1, AlwaysTyped, PTL

-----------------------------------------------------------------------------
(* Who is asked.                                                           *)

\* Nobody moves on to the second provider before the first one has failed.
FirstFailed ==
  /\ pc = "evaluate2" => \E r \in replies : r[2] = provider /\ r[3] \in Transient
  /\ pc = "judge2" => \E r \in replies : r[2] = provider /\ r[3] \in JudgeErrors

Asked == FirstFailed /\ FailureHasCause

\* The engine comes first.
LEMMA EngineIsFirst == Typed => Chain(provider)[1] = provider
BY DEF Typed, TypeOK, KeyColumns, Chain

LEMMA FailureKeepsCause ==
  ASSUME Typed, NEW kind,
         NEW p, <<pc, p, kind>> \in replies', replies \subseteq replies',
         UNCHANGED <<provider, keys>>, kind # "answer",
         \E r \in replies' : r[2] = provider /\ r[3] # "answer",
         p = Chain(provider)[2] \/ kind \in {"refused", "malformed", "noobject"}
  PROVE  FailureHasCause'
<1>1. <<pc, p, kind>>[2] = p /\ <<pc, p, kind>>[3] = kind
  OBVIOUS
<1>2. QED
  BY <1>1 DEF FailureHasCause, Chain

LEMMA CallAsked ==
  ASSUME Typed, Asked, Next
  PROVE  Asked'
<1> DEFINE first == Chain(provider)[1]
           second == Chain(provider)[2]
<1>0. first = provider /\ provider \in keys /\ RepliesOf(provider) = Replies
  BY EngineIsFirst DEF Typed, RepliesOf
<1>1. CASE EvaluatePrimary \/ EvaluateFallback \/ JudgePrimary \/ JudgeFallback \/ Score
  BY <1>1 DEF EvaluatePrimary, EvaluateFallback, JudgePrimary, JudgeFallback, Score,
     Answered, Judged, Asked, FirstFailed, FailureHasCause
<1>2. CASE FallBack
  <2>1. PICK kind \in Transient : replies' = replies \cup {<<pc, first, kind>>}
    BY <1>2, RepliesAreTyped DEF FallBack
  <2>2. <<pc, first, kind>>[2] = first /\ <<pc, first, kind>>[3] = kind
    OBVIOUS
  <2>3. QED
    BY <1>0, <1>2, <2>1, <2>2 DEF FallBack, Asked, FirstFailed, FailureHasCause
<1>3. CASE JudgeMovesOn
  <2>1. PICK kind \in JudgeErrors : replies' = replies \cup {<<pc, first, kind>>}
    BY <1>3, RepliesAreTyped, SameChain DEF JudgeMovesOn
  <2>2. <<pc, first, kind>>[2] = first /\ <<pc, first, kind>>[3] = kind
    OBVIOUS
  <2>3. QED
    BY <1>0, <1>3, <2>1, <2>2 DEF JudgeMovesOn, Asked, FirstFailed, FailureHasCause
<1>4. CASE PrimaryFails
  <2>1. PICK kind \in Fatal : /\ kind \in RepliesOf(first)
                              /\ replies' = replies \cup {<<pc, first, kind>>}
    BY <1>4, RepliesAreTyped DEF PrimaryFails
  <2>2. kind \in {"refused", "noobject"}
    BY <1>0, <2>1 DEF Fatal, Transient, Replies
  <2>3. <<pc, first, kind>>[2] = first /\ <<pc, first, kind>>[3] = kind
    OBVIOUS
  <2>4. FailureHasCause'
    BY <1>0, <1>4, <2>1, <2>2, <2>3, FailureKeepsCause DEF PrimaryFails, Fail
  <2>5. QED
    BY <1>4, <2>4 DEF PrimaryFails, Fail, Asked, FirstFailed
<1>5. CASE FallbackFails
  <2>1. PICK kind \in Transient \cup Fatal : replies' = replies \cup {<<pc, second, kind>>}
    BY <1>5, RepliesAreTyped DEF FallbackFails
  <2>2. kind # "answer"
    BY <2>1 DEF Fatal, Transient, Replies
  <2>3. \E r \in replies : r[2] = provider /\ r[3] # "answer"
    BY <1>5 DEF FallbackFails, Asked, FirstFailed, Transient
  <2>4. FailureHasCause'
    BY <1>5, <2>1, <2>2, <2>3, FailureKeepsCause DEF FallbackFails, Fail
  <2>5. QED
    BY <1>5, <2>4 DEF FallbackFails, Fail, Asked, FirstFailed
<1>6. CASE JudgeFails
  <2>1. PICK kind \in JudgeErrors : replies' = replies \cup {<<pc, second, kind>>}
    BY <1>6, RepliesAreTyped, SameChain DEF JudgeFails
  <2>2. kind # "answer"
    BY <2>1 DEF JudgeErrors
  <2>3. \E r \in replies : r[2] = provider /\ r[3] # "answer"
    BY <1>6 DEF JudgeFails, Asked, FirstFailed, JudgeErrors
  <2>4. FailureHasCause'
    BY <1>6, <2>1, <2>2, <2>3, FailureKeepsCause DEF JudgeFails, Fail
  <2>5. QED
    BY <1>6, <2>4 DEF JudgeFails, Fail, Asked, FirstFailed
<1>7. CASE JudgeMalformed
  <2> DEFINE kinds == {"malformed", "noobject"}
  <2>1. PICK p \in {first, second}, kind \in kinds :
          /\ replies' = replies \cup {<<pc, p, kind>>}
          /\ pc = "judge" => p = first
    <3>1. CASE pc = "judge" /\ Reply(first, kinds)
      BY <3>1, RepliesAreTyped
    <3>2. CASE pc = "judge2" /\ Reply(second, kinds)
      BY <3>2, RepliesAreTyped
    <3>3. QED
      BY <1>7, <3>1, <3>2, SameChain DEF JudgeMalformed
  <2>2. <<pc, p, kind>>[2] = p /\ <<pc, p, kind>>[3] = kind
    OBVIOUS
  <2>3. \E r \in replies' : r[2] = provider /\ r[3] # "answer"
    <3>1. CASE pc = "judge"
      BY <1>0, <2>1, <2>2, <3>1
    <3>2. CASE pc = "judge2"
      <4>1. \E r \in replies : r[2] = provider /\ r[3] # "answer"
        BY <3>2 DEF Asked, FirstFailed, JudgeErrors
      <4>2. QED
        BY <2>1, <4>1
    <3>3. QED
      BY <1>7, <3>1, <3>2 DEF JudgeMalformed
  <2>4. FailureHasCause'
    <3>1. <<pc, p, kind>> \in replies' /\ replies \subseteq replies'
      BY <2>1
    <3>2. UNCHANGED <<provider, keys>>
      BY <1>7 DEF JudgeMalformed, Fail
    <3>3. kind \in {"refused", "malformed", "noobject"} /\ kind # "answer"
      BY <2>1
    <3> HIDE DEF first, second, kinds
    <3>4. QED
      BY <2>3, <3>1, <3>2, <3>3, FailureKeepsCause
  <2>5. QED
    BY <1>7, <2>4 DEF JudgeMalformed, Fail, Asked, FirstFailed
<1>8. QED
  BY <1>1, <1>2, <1>3, <1>4, <1>5, <1>6, <1>7 DEF Next

\* No conversation fails while a provider that could have answered was not asked,
\* for any keys.
THEOREM FailuresHaveCauses == Spec => []FailureHasCause
<1>1. Init => Asked
  BY DEF Init, Asked, FirstFailed, FailureHasCause
<1>2. Typed /\ Asked /\ [Next]_vars => Asked'
  <2>1. Asked /\ UNCHANGED vars => Asked'
    BY DEF Asked, FirstFailed, FailureHasCause, vars
  <2>2. QED
    BY <2>1, CallAsked
<1>3. Asked => FailureHasCause
  BY DEF Asked
<1>4. QED
  BY <1>1, <1>2, <1>3, AlwaysTyped, PTL DEF Spec

-----------------------------------------------------------------------------
(* What the evidence does.                                                 *)

\* The flags that the score is computed from, and the rubric it leaves behind.
LEMMA FlagsOfScore ==
  ASSUME Typed, NEW s, NEW score, ScoredBy(s, score)
  PROVE  LET det == DetVeto(s, parsed)
             veto == IF Hallucinations(verdicts) # {}
                     THEN det \cup {"A1_alucinacion"} ELSE det
         IN  /\ rubric'.veto = veto
             /\ score.veto = veto
             /\ rubric'.fraud = s.fraud
             /\ rubric'.review <=> veto # {} \/ s.fraud \/ LowConfidence(verdicts)
             /\ \E signal \in BOOLEAN :
                  rubric'.confidence = MappedConfidence(verdicts, signal)
<1> DEFINE det == DetVeto(s, parsed)
           mapped == MapEvalToRubric(parsed, verdicts, det, s.fraud)
           veto == IF Hallucinations(verdicts) # {}
                   THEN det \cup {"A1_alucinacion"} ELSE det
<1>1. s.fraud \in BOOLEAN
  BY DEF ScoredBy, DetectionType
<1>2. /\ rubric' = [mapped EXCEPT !.review = @ \/ LowConfidence(verdicts)]
      /\ score \in ComputeScores(rubric', det)
  BY DEF ScoredBy
<1>3. /\ rubric'.veto = mapped.veto
      /\ rubric'.fraud = mapped.fraud
      /\ rubric'.confidence = mapped.confidence
      /\ rubric'.review = (mapped.review \/ LowConfidence(verdicts))
  BY <1>2 DEF MapEvalToRubric
<1>4. mapped.veto = veto /\ mapped.fraud = s.fraud
  BY DEF MapEvalToRubric
<1>5. mapped.review <=> veto # {} \/ s.fraud
  BY <1>1 DEF MapEvalToRubric, HasSignal
<1>6. \E signal \in BOOLEAN : mapped.confidence = MappedConfidence(verdicts, signal)
  BY <1>1 DEF MapEvalToRubric, HasSignal
<1>7. score.veto = veto
  <2>1. score.veto = rubric'.veto \cup det
    BY <1>2, ScoresAreCapped
  <2>2. QED
    BY <1>3, <1>4, <2>1
<1>8. QED
  BY <1>3, <1>4, <1>5, <1>6, <1>7

\* A threshold above the 0.40 that a mild hallucination gets keeps such a one from
\* capping, and one of at most the 0.80 of the others lets them; it is 0.60.
LEMMA ScoreMatchesEvidence ==
  ASSUME Typed, Score, 40 < VetoThreshold, VetoThreshold <= 80
  PROVE  CapsMatchEvidence'
<1>1. PICK s, score : ScoredBy(s, score)
  BY ScoreWrites
<1> DEFINE det == DetVeto(s, parsed)
           veto == rubric'.veto \cup det
           places == Hallucinations(verdicts)
           found == {verdicts[i] : i \in places}
           mild == {v \in found : v.severity \in {"baja", "media"}}
           severe == {v \in found : v.severity \in {"alta", "critica"}}
<1>2. /\ signals' = s /\ result'.score = score
      /\ score \in ComputeScores(rubric', det)
  BY <1>1 DEF ScoredBy
<1>3. UNCHANGED <<parsed, verdicts>>
  BY DEF Score
<1>4. Det' = det
  BY <1>2, <1>3 DEF Det
<1>5. /\ IsFirm(veto, det, rubric'.confidence) => score.final <= VetoCap
      /\ score.final # score.bruto => IsFirm(veto, det, rubric'.confidence)
  BY <1>2, ScoresAreCapped
<1>6. det # {} => score.final <= VetoCap
  BY <1>5 DEF IsFirm
<1>7. \A i \in places : /\ verdicts[i] \in VerdictType /\ verdicts[i] \in found
                        /\ verdicts[i].severity \in {"alta", "critica"} => verdicts[i].grounded
  BY DEF Typed, TypeOK, Guarded, Hallucinations
<1>8. rubric'.veto = IF places # {} THEN det \cup {"A1_alucinacion"} ELSE det
  BY <1>1, FlagsOfScore
<1>9. ASSUME places # {}
      PROVE  \E i \in places :
               rubric'.confidence = IF verdicts[i].severity \in {"baja", "media"}
                                    THEN 40 ELSE 80
  <2>1. PICK signal \in BOOLEAN : rubric'.confidence = MappedConfidence(verdicts, signal)
    BY <1>1, FlagsOfScore
  <2>2. QED
    BY <1>9, <2>1, OneDecides DEF Typed, TypeOK
<1>10. ASSUME found # {}, mild = {}
       PROVE  score.final <= VetoCap
  <2>1. places # {}
    BY <1>10
  <2>2. PICK i \in places : rubric'.confidence = IF verdicts[i].severity \in {"baja", "media"}
                                                  THEN 40 ELSE 80
    BY <1>9, <2>1
  <2>3. rubric'.confidence >= VetoThreshold
    <3>1. rubric'.confidence = 80
      BY <1>7, <1>10, <2>2
    <3>2. QED
      BY <3>1, ScoringAssumption
  <2>4. "A1_alucinacion" \in veto /\ "A1_alucinacion" \notin AlwaysFirm
    BY <1>8, <2>1 DEF AlwaysFirm
  <2>5. IsFirm(veto, det, rubric'.confidence)
    BY <2>3, <2>4 DEF IsFirm
  <2>6. QED
    BY <1>5, <2>5
<1>11. ASSUME score.final # score.bruto, det = {}
       PROVE  (\E v \in severe : v.grounded) \/ (\E v \in found : v.severity = None)
  <2>1. veto \cap AlwaysFirm = {}
    BY <1>8, <1>11 DEF AlwaysFirm
  <2>2. veto # {} /\ rubric'.confidence >= VetoThreshold
    BY <1>5, <1>11, <2>1 DEF IsFirm
  <2>3. PICK i \in places : rubric'.confidence = IF verdicts[i].severity \in {"baja", "media"}
                                                  THEN 40 ELSE 80
    BY <1>8, <1>9, <1>11, <2>2
  <2>4. verdicts[i].severity \in {"alta", "critica", None}
    <3>1. verdicts[i].severity \notin {"baja", "media"}
      BY <2>2, <2>3, ScoringAssumption
    <3>2. QED
      BY <1>7, <3>1 DEF VerdictType, Severities
  <2>5. QED
    BY <1>7, <2>4
<1>12. QED
  BY <1>2, <1>3, <1>4, <1>6, <1>10, <1>11 DEF CapsMatchEvidence

LEMMA ScoreIsReviewed ==
  ASSUME Typed, Score
  PROVE  SignalsAreReviewed'
<1>1. PICK s, score : ScoredBy(s, score)
  BY ScoreWrites
<1> DEFINE det == DetVeto(s, parsed)
           segment == DeriveSegment(rubric', score)
           hallucinated == Hallucinations(verdicts) # {}
           reported == s.fraud \/ det # {} \/ hallucinated
<1>2. /\ signals' = s
      /\ result'.critical = IsCritical(score, s, segment)
  BY <1>1 DEF ScoredBy
<1>3. UNCHANGED <<parsed, verdicts>>
  BY DEF Score
<1>4. Det' = det /\ (Hallucinated' <=> hallucinated)
  BY <1>2, <1>3 DEF Det, Hallucinated
<1>5. score.veto # {} <=> det # {} \/ hallucinated
  BY <1>1, FlagsOfScore
<1>6. rubric'.review <=> (reported \/ LowConfidence(verdicts))
  BY <1>1, FlagsOfScore
<1>7. segment = "problematico" => s.fraud \/ score.veto # {}
  BY <1>1, FlagsOfScore, ProblematicSegments
<1>8. result'.critical <=> reported
  BY <1>2, <1>5, <1>7 DEF IsCritical
<1>9. QED
  BY <1>2, <1>3, <1>4, <1>6, <1>8 DEF SignalsAreReviewed

\* No other step reaches a conversation that is scored.
LEMMA OnlyScoreEnds == Next /\ ~Score => pc' # "done"
BY DEF Next, EvaluatePrimary, FallBack, PrimaryFails, EvaluateFallback, FallbackFails,
   JudgePrimary, JudgeMovesOn, JudgeFallback, JudgeFails, JudgeMalformed, Answered,
   Judged, Fail

\* For any answers, verdicts and detections, and every threshold above 0.40 and up to
\* 0.80 itself, a score is capped on what a detector found and on hallucinations none
\* of which is mild, and lowered on nothing less than one that is not.
THEOREM CapsAreFounded ==
  ASSUME 40 < VetoThreshold, VetoThreshold <= 80
  PROVE  Spec => []CapsMatchEvidence
<1>1. Init => CapsMatchEvidence
  BY DEF Init, CapsMatchEvidence
<1>2. Typed /\ CapsMatchEvidence /\ [Next]_vars => CapsMatchEvidence'
  <2>1. CapsMatchEvidence /\ UNCHANGED vars => CapsMatchEvidence'
    BY DEF CapsMatchEvidence, Det, vars
  <2>2. Typed /\ Next => CapsMatchEvidence'
    BY ScoreMatchesEvidence, OnlyScoreEnds DEF CapsMatchEvidence
  <2>3. QED
    BY <2>1, <2>2
<1>3. QED
  BY <1>1, <1>2, AlwaysTyped, PTL DEF Spec

\* Whatever a source reports is reviewed and alerts, and nothing else alerts.
THEOREM ReportsAreReviewed == Spec => []SignalsAreReviewed
<1>1. Init => SignalsAreReviewed
  BY DEF Init, SignalsAreReviewed
<1>2. Typed /\ SignalsAreReviewed /\ [Next]_vars => SignalsAreReviewed'
  <2>1. SignalsAreReviewed /\ UNCHANGED vars => SignalsAreReviewed'
    BY DEF SignalsAreReviewed, Det, Hallucinated, vars
  <2>2. Typed /\ Next => SignalsAreReviewed'
    BY ScoreIsReviewed, OnlyScoreEnds DEF SignalsAreReviewed
  <2>3. QED
    BY <2>1, <2>2
<1>3. QED
  BY <1>1, <1>2, AlwaysTyped, PTL DEF Spec

-----------------------------------------------------------------------------
(* What a score is worth.  SumOver is a recursive function on the subsets  *)
(* of its set; the scored dimensions are two in each of three categories.  *)

Chosen(S) == CHOOSE x \in S : TRUE

IsSum(g, S, value) ==
  g = [T \in SUBSET S |->
         IF T = {} THEN 0 ELSE value[Chosen(T)] + g[T \ {Chosen(T)}]]

LEMMA SumIs ==
  ASSUME NEW S, NEW value, \E g : IsSum(g, S, value)
  PROVE  \E g : IsSum(g, S, value) /\ SumOver(S, value) = g[S]
<1>1. SumOver(S, value) = (CHOOSE g : IsSum(g, S, value))[S]
  BY DEF SumOver, MapThenSumSet, MapThenFoldSet, IsSum, Chosen
<1>2. QED
  BY <1>1

\* Of at most three elements there is one.
LEMMA SumExists ==
  ASSUME NEW a, NEW b, NEW c, a # b, a # c, b # c, NEW S \in SUBSET {a, b, c},
         NEW value, \A x \in S : value[x] \in Int
  PROVE  \E g : IsSum(g, S, value)
<1> DEFINE Part(x, T) == IF x \in T THEN value[x] ELSE 0
           Total(T) == Part(a, T) + Part(b, T) + Part(c, T)
           g == [T \in SUBSET S |-> Total(T)]
<1>1. ASSUME NEW T \in SUBSET S, T # {}
      PROVE  Total(T) = value[Chosen(T)] + Total(T \ {Chosen(T)})
  <2>1. Chosen(T) \in T
    BY <1>1 DEF Chosen
  <2>2. PICK x \in T : x = Chosen(T)
    BY <2>1
  <2>3. x \in {a, b, c} /\ \A y \in T : value[y] \in Int
    OBVIOUS
  <2>4. Total(T) = value[x] + Total(T \ {x})
    BY <2>3
  <2>5. QED
    BY <2>2, <2>4
<1>2. Total({}) = 0
  OBVIOUS
<1> HIDE DEF Total
<1>3. \A T \in SUBSET S : T \ {Chosen(T)} \in SUBSET S
  OBVIOUS
<1>4. \A T \in SUBSET S :
        g[T] = IF T = {} THEN 0 ELSE value[Chosen(T)] + g[T \ {Chosen(T)}]
  BY <1>1, <1>2, <1>3
<1>5. g = [T \in SUBSET S |-> g[T]]
  OBVIOUS
<1> HIDE DEF g
<1>6. IsSum(g, S, value)
  BY <1>4, <1>5 DEF IsSum
<1>7. QED
  BY <1>6

LEMMA SumUnfolds ==
  ASSUME NEW S, NEW value, NEW g, IsSum(g, S, value), NEW T \in SUBSET S
  PROVE  /\ T = {} => g[T] = 0
         /\ T # {} => \E x \in T : g[T] = value[x] + g[T \ {x}]
<1>1. g[T] = IF T = {} THEN 0 ELSE value[Chosen(T)] + g[T \ {Chosen(T)}]
  BY DEF IsSum
<1>2. T # {} => Chosen(T) \in T
  BY DEF Chosen
<1>3. QED
  BY <1>1, <1>2

LEMMA OneIsIt ==
  ASSUME NEW S, NEW value, NEW g, IsSum(g, S, value), NEW x \in S, value[x] \in Int
  PROVE  g[{x}] = value[x]
<1>1. {x} \in SUBSET S /\ {x} # {} /\ {x} \ {x} = {} /\ {} \in SUBSET S
  OBVIOUS
<1>2. g[{}] = 0
  BY <1>1, SumUnfolds
<1>3. g[{x}] = value[x] + g[{x} \ {x}]
  BY <1>1, SumUnfolds
<1>4. QED
  BY <1>1, <1>2, <1>3

LEMMA TwoAreAdded ==
  ASSUME NEW S, NEW value, NEW g, IsSum(g, S, value), \A x \in S : value[x] \in Int,
         NEW x \in S, NEW y \in S, x # y
  PROVE  g[{x, y}] = value[x] + value[y]
<1>1. {x, y} \in SUBSET S /\ {x, y} # {} /\ {x, y} \ {x} = {y} /\ {x, y} \ {y} = {x}
  OBVIOUS
<1>2. PICK z \in {x, y} : g[{x, y}] = value[z] + g[{x, y} \ {z}]
  BY <1>1, SumUnfolds
<1>3. g[{x}] = value[x] /\ g[{y}] = value[y]
  BY OneIsIt
<1>4. value[x] \in Int /\ value[y] \in Int
  OBVIOUS
<1>5. CASE z = x
  <2>1. g[{x, y}] = value[x] + g[{y}]
    BY <1>1, <1>2, <1>5
  <2>2. QED
    BY <1>3, <2>1
<1>6. CASE z = y
  <2>1. g[{x, y}] = value[y] + g[{x}]
    BY <1>1, <1>2, <1>6
  <2>2. QED
    BY <1>3, <1>4, <2>1
<1>7. QED
  BY <1>5, <1>6

LEMMA SumOfTwo ==
  ASSUME NEW a, NEW b, NEW c, a # b, a # c, b # c, NEW value,
         value[a] \in Int, value[b] \in Int
  PROVE  SumOver({a, b}, value) = value[a] + value[b]
<1> DEFINE S == {a, b}
<1>1. /\ S \in SUBSET {a, b, c}
      /\ a \in S /\ b \in S /\ \A x \in S : value[x] \in Int
  OBVIOUS
<1> HIDE DEF S
<1>2. \E g : IsSum(g, S, value)
  BY <1>1, SumExists
<1>3. PICK g : IsSum(g, S, value) /\ SumOver(S, value) = g[S]
  BY <1>2, SumIs
<1>4. g[{a, b}] = value[a] + value[b]
  BY <1>1, <1>3, TwoAreAdded
<1>5. QED
  BY <1>3, <1>4 DEF S

LEMMA SumOfThree ==
  ASSUME NEW a, NEW b, NEW c, a # b, a # c, b # c, NEW value,
         value[a] \in Int, value[b] \in Int, value[c] \in Int
  PROVE  SumOver({a, b, c}, value) = value[a] + value[b] + value[c]
<1> DEFINE S == {a, b, c}
<1>1. PICK g : IsSum(g, S, value) /\ SumOver(S, value) = g[S]
  <2>1. \E g : IsSum(g, S, value)
    BY SumExists
  <2>2. QED
    BY <2>1, SumIs
<1>2. PICK z \in S : g[S] = value[z] + g[S \ {z}]
  BY <1>1, SumUnfolds
<1>3. S \ {a} = {b, c} /\ S \ {b} = {a, c} /\ S \ {c} = {a, b}
  OBVIOUS
<1>4. /\ g[{b, c}] = value[b] + value[c]
      /\ g[{a, c}] = value[a] + value[c]
      /\ g[{a, b}] = value[a] + value[b]
  <2>1. \A x \in S : value[x] \in Int
    OBVIOUS
  <2>2. QED
    BY <1>1, <2>1, TwoAreAdded
<1>5. g[S] = value[a] + value[b] + value[c]
  <2>1. CASE z = a
    <3>1. g[S] = value[a] + g[{b, c}]
      BY <1>2, <1>3, <2>1
    <3>2. QED
      BY <1>4, <3>1
  <2>2. CASE z = b
    <3>1. g[S] = value[b] + g[{a, c}]
      BY <1>2, <1>3, <2>2
    <3>2. QED
      BY <1>4, <3>1
  <2>3. CASE z = c
    <3>1. g[S] = value[c] + g[{a, b}]
      BY <1>2, <1>3, <2>3
    <3>2. QED
      BY <1>4, <3>1
  <2>4. QED
    BY <2>1, <2>2, <2>3
<1>6. QED
  BY <1>1, <1>5

\* The weighted sum of the six scores of a conversation above their least.
Earned(dims) ==
  Weights["A"] * (dims["A1"] + dims["A4"] - 2)
    + Weights["C"] * (dims["C2"] + dims["C4"] - 2)
    + Weights["E"] * (dims["E1"] + dims["E4"] - 2)

Rated == {"A1", "A4", "C2", "C4", "E1", "E4"}

LEMMA RoundingIsThere ==
  ASSUME NEW den \in Nat \ {0}, NEW num \in Nat, num <= 100 * den
  PROVE  /\ Nearest(num, den) # {}
         /\ \A n \in Nearest(num, den) :
              /\ n \in 0 .. 100
              /\ 2 * (num - n * den) >= -den /\ 2 * (num - n * den) <= den
<1> DEFINE low == num \div den
           rest == num % den
<1>1. low \in Int /\ rest \in 0 .. den - 1 /\ num = low * den + rest
  OBVIOUS
<1> HIDE DEF low, rest
<1>2. low \in 0 .. 100
  <2>1. low < 0 => low * den <= -den
    BY <1>1
  <2>2. low > 100 => low * den >= 101 * den
    BY <1>1
  <2>3. QED
    BY <1>1, <2>1, <2>2
<1>3. (low + 1) * den = low * den + den /\ low * den \in Int
  BY <1>1
<1>4. 2 * (num - low * den) \in -den .. den \/ 2 * (num - (low + 1) * den) \in -den .. den
  BY <1>1, <1>3
<1>5. Nearest(num, den) = {n \in {low, low + 1} : 2 * (num - n * den) \in -den .. den}
  BY DEF Nearest, low
<1>6. ASSUME 2 * (num - (low + 1) * den) \in -den .. den
      PROVE  low + 1 \in 0 .. 100
  <2>1. CASE low = 100
    <3>1. 2 * (num - 101 * den) <= - 2 * den
      OBVIOUS
    <3>2. QED
      BY <1>6, <2>1, <3>1
  <2>2. QED
    BY <1>2, <2>1
<1>7. Nearest(num, den) # {}
  BY <1>4, <1>5
<1>8. ASSUME NEW n \in Nearest(num, den)
      PROVE  /\ n \in 0 .. 100
             /\ 2 * (num - n * den) >= -den /\ 2 * (num - n * den) <= den
  <2>1. n \in {low, low + 1} /\ 2 * (num - n * den) \in -den .. den
    BY <1>5
  <2>2. n \in 0 .. 100
    BY <1>2, <1>6, <2>1
  <2>3. 2 * (num - n * den) >= -den /\ 2 * (num - n * den) <= den
    BY <2>1, <2>2
  <2>4. QED
    BY <2>2, <2>3
<1>9. QED
  BY <1>7, <1>8

LEMMA TwoAreTwo ==
  ASSUME NEW x, NEW y, x # y
  PROVE  Cardinality({x, y}) = 2
<1>1. IsFiniteSet({x}) /\ Cardinality({x}) = 1
  BY FS_Singleton
<1>2. Cardinality({x} \cup {y}) = 2
  BY <1>1, FS_AddElement
<1>3. {x} \cup {y} = {x, y}
  OBVIOUS
<1>4. QED
  BY <1>2, <1>3

LEMMA CategoriesAreAdded ==
  ASSUME NEW value, value["A"] \in Int, value["C"] \in Int, value["E"] \in Int
  PROVE  SumOver({"A", "C", "E"}, value) = value["A"] + value["C"] + value["E"]
<1> DEFINE a == "A"
           b == "C"
           c == "E"
<1>1. a # b /\ a # c /\ b # c
  OBVIOUS
<1>2. value[a] \in Int /\ value[b] \in Int /\ value[c] \in Int
  OBVIOUS
<1> HIDE DEF a, b, c
<1>3. SumOver({a, b, c}, value) = value[a] + value[b] + value[c]
  BY <1>1, <1>2, SumOfThree
<1>4. QED
  BY <1>3 DEF a, b, c

\* The common factor of the two sides is 30.
LEMMA Scaled ==
  ASSUME NEW earned \in Nat, earned <= 520
  PROVE  /\ 750 * earned \in Nat /\ 750 * earned <= 100 * 3900
         /\ \A n \in Int : 2 * (750 * earned - n * 3900) >= -3900
                             /\ 2 * (750 * earned - n * 3900) <= 3900
                           => 2 * (130 * n - 25 * earned) >= -130
                                /\ 2 * (130 * n - 25 * earned) <= 130
OBVIOUS

LEMMA ScoresOfSix ==
  ASSUME NEW dims, DOMAIN dims = Rated, \A d \in Rated : dims[d] \in 1 .. 5
  PROVE  /\ Brutos(dims) # {}
         /\ \A bruto \in Brutos(dims) :
              /\ bruto \in 0 .. 100
              /\ 2 * (130 * bruto - 25 * Earned(dims)) \in -130 .. 130
<1> DEFINE In(c) == {d \in DOMAIN dims : CategoryOf[d] = c}
           cats == {CategoryOf[d] : d \in DOMAIN dims}
           norms == [d \in DOMAIN dims |-> Norm(dims[d])]
           weighted == [c \in cats |-> Weights[c] * (Share \div Cardinality(In(c)))
                                         * SumOver(In(c), norms)]
<1>1. Brutos(dims) = Nearest(SumOver(cats, weighted), TotalWeight(cats) * Share)
  BY DEF Brutos
<1>2. cats = {"A", "C", "E"}
  BY DEF CategoryOf, Rated
<1>3. In("A") = {"A1", "A4"} /\ In("C") = {"C2", "C4"} /\ In("E") = {"E1", "E4"}
  BY DEF CategoryOf, Rated
<1>4. \A d \in Rated : norms[d] \in Int /\ norms[d] = (dims[d] - 1) * 25
  BY DEF Norm
<1>5. /\ SumOver(In("A"), norms) = norms["A1"] + norms["A4"]
      /\ SumOver(In("C"), norms) = norms["C2"] + norms["C4"]
      /\ SumOver(In("E"), norms) = norms["E1"] + norms["E4"]
  <2> HIDE DEF norms, In
  <2>1. \A d \in Rated : norms[d] \in Int
    BY <1>4
  <2>2. SumOver({"A1", "A4"}, norms) = norms["A1"] + norms["A4"]
    <3>1. norms["A1"] \in Int /\ norms["A4"] \in Int
      BY <2>1 DEF Rated
    <3>2. "A1" # "A4" /\ "A1" # "C2" /\ "A4" # "C2"
      OBVIOUS
    <3>3. QED
      BY <3>1, <3>2, SumOfTwo
  <2>3. SumOver({"C2", "C4"}, norms) = norms["C2"] + norms["C4"]
    <3>1. norms["C2"] \in Int /\ norms["C4"] \in Int
      BY <2>1 DEF Rated
    <3>2. "C2" # "C4" /\ "C2" # "A1" /\ "C4" # "A1"
      OBVIOUS
    <3>3. QED
      BY <3>1, <3>2, SumOfTwo
  <2>4. SumOver({"E1", "E4"}, norms) = norms["E1"] + norms["E4"]
    <3>1. norms["E1"] \in Int /\ norms["E4"] \in Int
      BY <2>1 DEF Rated
    <3>2. "E1" # "E4" /\ "E1" # "A1" /\ "E4" # "A1"
      OBVIOUS
    <3>3. QED
      BY <3>1, <3>2, SumOfTwo
  <2>5. QED
    BY <1>3, <2>2, <2>3, <2>4
<1>6. /\ Cardinality(In("A")) = 2 /\ Cardinality(In("C")) = 2 /\ Cardinality(In("E")) = 2
  <2>1. /\ Cardinality({"A1", "A4"}) = 2
        /\ Cardinality({"C2", "C4"}) = 2
        /\ Cardinality({"E1", "E4"}) = 2
    BY TwoAreTwo
  <2>2. QED
    BY <1>3, <2>1
<1>7. /\ weighted["A"] = 30 * 30 * (norms["A1"] + norms["A4"])
      /\ weighted["C"] = 20 * 30 * (norms["C2"] + norms["C4"])
      /\ weighted["E"] = 15 * 30 * (norms["E1"] + norms["E4"])
  <2>1. \A c \in {"A", "C", "E"} :
          weighted[c] = Weights[c] * (Share \div Cardinality(In(c))) * SumOver(In(c), norms)
    BY <1>2
  <2>2. Weights["A"] = 30 /\ Weights["C"] = 20 /\ Weights["E"] = 15 /\ Share \div 2 = 30
    BY DEF Weights, Share
  <2> HIDE DEF weighted, norms, In
  <2>3. QED
    BY <1>5, <1>6, <2>1, <2>2
<1> HIDE DEF weighted, norms, In
<1>8. /\ norms["A1"] = (dims["A1"] - 1) * 25 /\ norms["A4"] = (dims["A4"] - 1) * 25
      /\ norms["C2"] = (dims["C2"] - 1) * 25 /\ norms["C4"] = (dims["C4"] - 1) * 25
      /\ norms["E1"] = (dims["E1"] - 1) * 25 /\ norms["E4"] = (dims["E4"] - 1) * 25
      /\ dims["A1"] \in 1 .. 5 /\ dims["A4"] \in 1 .. 5 /\ dims["C2"] \in 1 .. 5
      /\ dims["C4"] \in 1 .. 5 /\ dims["E1"] \in 1 .. 5 /\ dims["E4"] \in 1 .. 5
  BY <1>4 DEF Rated
<1>9. Earned(dims) \in Nat /\ Earned(dims) <= 520
  BY <1>8 DEF Earned, Weights
<1>10. SumOver(cats, weighted) = 750 * Earned(dims)
  <2>1. /\ weighted["A"] = 22500 * (dims["A1"] + dims["A4"] - 2)
        /\ weighted["C"] = 15000 * (dims["C2"] + dims["C4"] - 2)
        /\ weighted["E"] = 11250 * (dims["E1"] + dims["E4"] - 2)
    BY <1>7, <1>8
  <2>2. weighted["A"] \in Int /\ weighted["C"] \in Int /\ weighted["E"] \in Int
    BY <1>8, <2>1
  <2>3. SumOver({"A", "C", "E"}, weighted) = weighted["A"] + weighted["C"] + weighted["E"]
    BY <2>2, CategoriesAreAdded
  <2>4. weighted["A"] + weighted["C"] + weighted["E"] = 750 * Earned(dims)
    BY <1>8, <2>1 DEF Earned, Weights
  <2>5. QED
    BY <1>2, <2>3, <2>4
<1>11. TotalWeight(cats) = 65
  <2>1. Weights["A"] = 30 /\ Weights["C"] = 20 /\ Weights["E"] = 15
    BY DEF Weights
  <2>2. SumOver({"A", "C", "E"}, Weights) = Weights["A"] + Weights["C"] + Weights["E"]
    BY <2>1, CategoriesAreAdded
  <2>3. QED
    BY <1>2, <2>1, <2>2 DEF TotalWeight
<1> HIDE DEF cats
<1>12. TotalWeight(cats) * Share = 3900
  BY <1>11 DEF Share
<1>13. Brutos(dims) = Nearest(750 * Earned(dims), 3900)
  BY <1>1, <1>10, <1>12
<1> DEFINE num == 750 * Earned(dims)
           den == 3900
<1>14. den \in Nat \ {0} /\ num \in Nat /\ num <= 100 * den
  BY <1>9, Scaled
<1> HIDE DEF num, den
<1>15. /\ Nearest(num, den) # {}
       /\ \A n \in Nearest(num, den) :
            n \in 0 .. 100 /\ 2 * (num - n * den) >= -den /\ 2 * (num - n * den) <= den
  BY <1>14, RoundingIsThere
<1>16. Brutos(dims) = Nearest(num, den)
  BY <1>13 DEF num, den
<1>17. /\ Brutos(dims) # {}
       /\ \A n \in Brutos(dims) :
            /\ n \in 0 .. 100
            /\ 2 * (750 * Earned(dims) - n * 3900) >= -3900
            /\ 2 * (750 * Earned(dims) - n * 3900) <= 3900
  BY <1>15, <1>16 DEF num, den
<1>18. QED
  BY <1>9, <1>17, Scaled

\* The score of a conversation is from 0 to 100, the mean of its categories by
\* their weights to the nearest point, and a veto puts it on the cap or leaves it.
ScoreIsMean ==
  pc = "done" =>
    LET score == result.score
    IN  /\ score.bruto \in 0 .. 100
        /\ 2 * (130 * score.bruto - 25 * Earned(rubric.dims)) \in -130 .. 130
        /\ score.final # score.bruto => score.final = VetoCap /\ VetoCap < score.bruto

\* Four of the six segments are given: an ideal customer and a lead are told by the
\* business value, of which map_eval_to_rubric makes no score.
NobodyIsLead ==
  pc = "done" => result.segment \in {"problematico", "insatisfecho", "satisfecho", "neutral"}

LEMMA ScoreIsAsMeant ==
  ASSUME Typed, Score
  PROVE  ScoreIsMean' /\ NobodyIsLead'
<1>1. PICK s, score : ScoredBy(s, score)
  BY ScoreWrites
<1> DEFINE det == DetVeto(s, parsed)
           mapped == MapEvalToRubric(parsed, verdicts, det, s.fraud)
           dims == rubric'.dims
<1>2. parsed \in EvaluationType
  BY DEF Typed, Score
<1>3. dims = Dimensions(parsed, verdicts)
  <2>1. rubric' = [mapped EXCEPT !.review = @ \/ LowConfidence(verdicts)]
    BY <1>1 DEF ScoredBy
  <2>2. QED
    BY <2>1 DEF MapEvalToRubric
<1> HIDE DEF dims
<1>4. DOMAIN dims = Rated /\ \A d \in Rated : dims[d] \in 1 .. 5
  <2>1. DOMAIN Dimensions(parsed, verdicts) = Rated
    BY DEF Dimensions, Rated
  <2>2. QED
    BY <1>2, <1>3, <2>1, DimensionsAreScores
<1>5. score \in ComputeScores(rubric', det)
  BY <1>1 DEF ScoredBy
<1>6. PICK bruto \in Brutos(dims) :
        score.bruto = bruto /\ score.final \in {bruto, Capped(bruto)}
  BY <1>4, <1>5 DEF ComputeScores, dims, Rated
<1>7. /\ bruto \in 0 .. 100
      /\ 2 * (130 * bruto - 25 * Earned(dims)) \in -130 .. 130
  BY <1>4, ScoresOfSix
<1>8. Capped(bruto) # bruto => Capped(bruto) = VetoCap /\ VetoCap < bruto
  BY <1>7 DEF Capped, VetoCap
<1>9. DeriveSegment(rubric', score) \in
        {"problematico", "insatisfecho", "satisfecho", "neutral"}
  <2>1. "F1" \notin DOMAIN dims /\ "F3" \notin DOMAIN dims
    BY <1>4 DEF Rated
  <2>2. ~AtLeast(rubric'.dims, "F1", 4) /\ ~AtLeast(rubric'.dims, "F3", 3)
    BY <2>1 DEF AtLeast, dims
  <2>3. QED
    BY <2>2 DEF DeriveSegment
<1>10. result'.score = score /\ result'.segment = DeriveSegment(rubric', score)
  BY <1>1 DEF ScoredBy
<1>11. QED
  BY <1>6, <1>7, <1>8, <1>9, <1>10 DEF ScoreIsMean, NobodyIsLead, dims

\* For any answers, verdicts and detections a score is the weighted mean that
\* compute_scores documents, however the float was rounded, or the cap.
THEOREM ScoresAreMeans == Spec => []ScoreIsMean
<1>1. Init => ScoreIsMean
  BY DEF Init, ScoreIsMean
<1>2. Typed /\ ScoreIsMean /\ [Next]_vars => ScoreIsMean'
  <2>1. ScoreIsMean /\ UNCHANGED vars => ScoreIsMean'
    BY DEF ScoreIsMean, vars
  <2>2. Typed /\ Next => ScoreIsMean'
    BY ScoreIsAsMeant, OnlyScoreEnds DEF ScoreIsMean
  <2>3. QED
    BY <2>1, <2>2
<1>3. QED
  BY <1>1, <1>2, AlwaysTyped, PTL DEF Spec

\* No answer of the LLM makes a conversation an ideal customer or a lead.
THEOREM LeadsAreNotFound == Spec => []NobodyIsLead
<1>1. Init => NobodyIsLead
  BY DEF Init, NobodyIsLead
<1>2. Typed /\ NobodyIsLead /\ [Next]_vars => NobodyIsLead'
  <2>1. NobodyIsLead /\ UNCHANGED vars => NobodyIsLead'
    BY DEF NobodyIsLead, vars
  <2>2. Typed /\ Next => NobodyIsLead'
    BY ScoreIsAsMeant, OnlyScoreEnds DEF NobodyIsLead
  <2>3. QED
    BY <2>1, <2>2
<1>3. QED
  BY <1>1, <1>2, AlwaysTyped, PTL DEF Spec
=============================================================================
