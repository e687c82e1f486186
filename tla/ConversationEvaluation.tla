----------------------- MODULE ConversationEvaluation -----------------------
(***************************************************************************)
(* What a run asks the LLM about one conversation and what it makes of the *)
(* answers: the evaluation with its fallback (LLMRouter), the verdicts per *)
(* message with theirs (judge_messages), the guard, the rubric, the score, *)
(* the veto and the segment.                                               *)
(*                                                                         *)
(* An API replies with an answer, with a text that does not parse or does  *)
(* not fit the schema, with JSON that is not an object, with a rate limit, *)
(* with a refusal (any other 4xx), or is down (5xx, timeout).  A provider  *)
(* whose key the organization has not loaded is not called.                *)
(***************************************************************************)
EXTENDS Scoring

CONSTANTS Evaluations,  \* what the LLM may say of a conversation
          Opinions,     \* and of a message
          Detections,   \* what the detectors may find in the messages
          MaxVerdicts   \* bound on the verdicts about a conversation

EvaluationType == [resolution : BOOLEAN, satisfaction : 1 .. 5, tone : Tones,
                   efficiency : 1 .. 5, scope_violation : BOOLEAN]

\* Issues other than a hallucination only feed the counters of the report.
VerdictType == [issue : {"alucinacion", None}, severity : Severities \cup {None},
                grounded : BOOLEAN]
DetectionType == [fraud : BOOLEAN, adversarial : BOOLEAN, bot_ceded : BOOLEAN,
                  det : SUBSET {"A1_alucinacion", "A5_cbu_invalido"}]

ASSUME EvaluationAssumption ==
  /\ Evaluations \subseteq EvaluationType
  /\ Opinions \subseteq VerdictType
  /\ Detections \subseteq DetectionType
  /\ MaxVerdicts \in Nat

VARIABLES
  provider,  \* the engine that was chosen for the audit
  keys,      \* the providers of which the run has a key of the organization
  pc,        \* "evaluate", "evaluate2", "judge", "judge2", "score", "done", "failed"
  replies,   \* history: the replies so far, as <<step, provider, reply>>
  parsed,    \* the EvaluationResponse
  verdicts,  \* the guarded verdicts
  signals,   \* what the detectors find in the messages
  rubric,    \* the RubricResponse
  result     \* score, veto and segment

vars == <<provider, keys, pc, replies, parsed, verdicts, signals, rubric, result>>
scored == <<signals, rubric, result>>

\* organizations has no column for a key of OpenAI.
KeyColumns == {"anthropic", "deepseek"}
Replies == {"answer", "malformed", "noobject", "limited", "down", "refused"}

\* A run stops before its first conversation without a key of its engine.
Init ==
  /\ provider \in KeyColumns
  /\ keys \in {k \in SUBSET KeyColumns : provider \in k}
  /\ pc = "evaluate"
  /\ replies = {}
  /\ parsed = None
  /\ verdicts = <<>>
  /\ signals = None
  /\ rubric = None
  /\ result = None

-----------------------------------------------------------------------------
(* The calls.                                                              *)

\* build_router.
Chain(engine) ==
  IF engine = "deepseek" THEN <<"deepseek", "anthropic">>
  ELSE <<"anthropic", "openai">>

\* The chain of judge_messages.
JudgeChain(engine) ==
  IF engine = "deepseek" THEN <<"deepseek", "anthropic">>
  ELSE <<"anthropic", "openai">>

\* Without a key the provider raises FatalLLMError instead of calling.
RepliesOf(p) == IF p \in keys THEN Replies ELSE {"nokey"}

\* The step gets one of the kinds of reply from p.
Reply(p, kinds) ==
  \E kind \in kinds \cap RepliesOf(p) : replies' = replies \cup {<<pc, p, kind>>}

\* Bug: an API that does not respond has not refused, so there is no fallback.
Transient_Status == {"limited", "malformed"}

\* TransientLLMError: a bad shape is one, since the provider parses its answer;
\* JSON that is not an object raises a TypeError, which is none.
Transient == {"limited", "down", "malformed"}
Fatal == (Replies \cup {"nokey"}) \ (Transient \cup {"answer"})

Fail == pc' = "failed" /\ UNCHANGED <<provider, keys, parsed, verdicts, scored>>

Answered(p) ==
  /\ Reply(p, {"answer"})
  /\ parsed' \in Evaluations
  /\ pc' = "judge"
  /\ UNCHANGED <<provider, keys, verdicts, scored>>

\* LLMRouter.evaluate: the primary, and after a transient error the fallback.
EvaluatePrimary == pc = "evaluate" /\ Answered(Chain(provider)[1])

FallBack ==
  /\ pc = "evaluate"
  /\ Reply(Chain(provider)[1], Transient)
  /\ pc' = "evaluate2"
  /\ UNCHANGED <<provider, keys, parsed, verdicts, scored>>

PrimaryFails ==
  /\ pc = "evaluate"
  /\ Reply(Chain(provider)[1], Fatal)
  /\ Fail

EvaluateFallback == pc = "evaluate2" /\ Answered(Chain(provider)[2])

FallbackFails ==
  /\ pc = "evaluate2"
  /\ Reply(Chain(provider)[2], Transient \cup Fatal)
  /\ Fail

Judged(p) ==
  /\ Reply(p, {"answer"})
  /\ \E n \in 0 .. MaxVerdicts : \E vs \in [1 .. n -> Opinions] :
       verdicts' = GuardVerdicts(vs)
  /\ pc' = "score"
  /\ UNCHANGED <<provider, keys, parsed, scored>>

\* judge_messages: whatever a provider raises moves on to the next one.
JudgeErrors == {"limited", "down", "refused", "nokey"}

JudgePrimary == pc = "judge" /\ Judged(JudgeChain(provider)[1])

JudgeMovesOn ==
  /\ pc = "judge"
  /\ Reply(JudgeChain(provider)[1], JudgeErrors)
  /\ pc' = "judge2"
  /\ UNCHANGED <<provider, keys, parsed, verdicts, scored>>

JudgeFallback == pc = "judge2" /\ Judged(JudgeChain(provider)[2])

JudgeFails ==
  /\ pc = "judge2"
  /\ Reply(JudgeChain(provider)[2], JudgeErrors)
  /\ Fail

\* _parse raises after the loop over the providers.
JudgeMalformed ==
  /\ pc \in {"judge", "judge2"}
  /\ Reply(JudgeChain(provider)[IF pc = "judge" THEN 1 ELSE 2], {"malformed", "noobject"})
  /\ Fail

-----------------------------------------------------------------------------
(* What the run makes of them.                                             *)

\* The bot gave in, as the detector or the LLM says.
Ceded(s, p) == s.adversarial /\ (s.bot_ceded \/ p.scope_violation)

\* _det_veto and the adversarial axis.
DetVeto(s, p) == IF Ceded(s, p) THEN s.det \cup {"B1_jailbreak"} ELSE s.det

IsCritical(score, s, segment) ==
  score.veto # {} \/ s.fraud \/ segment = "problematico"

Score ==
  /\ pc = "score"
  /\ \E s \in Detections :
       LET det == DetVeto(s, parsed)
           mapped == MapEvalToRubric(parsed, verdicts, det, s.fraud)
           reviewed == [mapped EXCEPT !.review = @ \/ LowConfidence(verdicts)]
       IN  /\ signals' = s
           /\ rubric' = reviewed
           /\ \E score \in ComputeScores(reviewed, det) :
                LET segment == DeriveSegment(reviewed, score)
                IN  result' = [score |-> score, segment |-> segment,
                               critical |-> IsCritical(score, s, segment)]
  /\ pc' = "done"
  /\ UNCHANGED <<provider, keys, replies, parsed, verdicts>>

Next ==
  \/ EvaluatePrimary \/ FallBack \/ PrimaryFails
  \/ EvaluateFallback \/ FallbackFails
  \/ JudgePrimary \/ JudgeMovesOn \/ JudgeFallback \/ JudgeFails \/ JudgeMalformed
  \/ Score

Spec == Init /\ [][Next]_vars
-----------------------------------------------------------------------------
(* Properties.                                                             *)

\* Who is called when, and what is kept of the answers; the scores in a rubric
\* are 1-5 and a conversation has one of the segments.
Steps == {"evaluate", "evaluate2", "judge", "judge2", "score", "done", "failed"}
Segments == {"problematico", "insatisfecho", "cliente_ideal", "potencial_lead",
             "satisfecho", "neutral"}

TypeOK ==
  /\ provider \in KeyColumns
  /\ keys \in SUBSET KeyColumns
  /\ pc \in Steps
  /\ replies \subseteq
       Steps \X {"anthropic", "deepseek", "openai"} \X (Replies \cup {"nokey"})
  /\ parsed \in EvaluationType \cup {None}
  /\ verdicts \in Seq(VerdictType)
  /\ signals \in DetectionType \cup {None}
  /\ pc = "done" =>
       /\ \A d \in DOMAIN rubric.dims : rubric.dims[d] \in 1 .. 5
       /\ rubric.review \in BOOLEAN /\ result.critical \in BOOLEAN
       /\ result.segment \in Segments

Hallucinated == Hallucinations(verdicts) # {}
Det == DetVeto(signals, parsed)

\* "falls back ... on rate-limit / 5xx": a conversation fails only after the engine
\* itself has given something else than an answer, and, where the organization has
\* the key of the second provider too, only after that one has as well or one of
\* them has refused or answered out of shape.
FailureHasCause ==
  LET other == Chain(provider)[2]
  IN  pc = "failed" =>
        /\ \E r \in replies : r[2] = provider /\ r[3] # "answer"
        /\ other \in keys =>
             \E r \in replies : \/ r[2] = other /\ r[3] # "answer"
                                \/ r[3] \in {"refused", "malformed", "noobject"}

\* "Solo el VETO FIRME topea": a deterministic flag caps the score whatever the LLM
\* says, and so do hallucinations none of which is mild.  A score is lowered on such a
\* flag, on a severe hallucination whose note has its ground, or on one without a
\* severity, with or without ground: the guard has nothing to lower there.
CapsMatchEvidence ==
  pc = "done" =>
    LET score == result.score
        found == {verdicts[i] : i \in Hallucinations(verdicts)}
        mild == {v \in found : v.severity \in {"baja", "media"}}
        severe == {v \in found : v.severity \in {"alta", "critica"}}
    IN  /\ Det # {} \/ (found # {} /\ mild = {}) => score.final <= VetoCap
        /\ score.final # score.bruto =>
             \/ Det # {}
             \/ \E v \in severe : v.grounded
             \/ \E v \in found : v.severity = None

\* "Una alucinacion alta/critica ... es firme y topea el score".
SevereHallucinationCaps ==
  pc = "done" =>
    ((\E i \in Hallucinations(verdicts) : verdicts[i].severity \in {"alta", "critica"})
      => result.score.final <= VetoCap)

\* What a person has to look at: everything that any source reported, and nothing
\* else; and what the alert of the audit counts.
SignalsAreReviewed ==
  pc = "done" =>
    LET reported == signals.fraud \/ Det # {} \/ Hallucinated
    IN  /\ rubric.review <=> (reported \/ LowConfidence(verdicts))
        /\ result.critical <=> reported

=============================================================================
