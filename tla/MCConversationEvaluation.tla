---------------------- MODULE MCConversationEvaluation ----------------------
(* Instances of ConversationEvaluation for TLC: small sets of answers.         *)
EXTENDS ConversationEvaluation

SomeEvaluations ==
  {e \in EvaluationType : e.satisfaction \in {1, 4, 5} /\ e.efficiency \in {1, 5}}

Hallucination(severity, grounded) ==
  [issue |-> "alucinacion", severity |-> severity, grounded |-> grounded]
SomeOpinions ==
  {Hallucination("baja", TRUE), Hallucination("critica", TRUE),
   Hallucination("critica", FALSE), Hallucination(None, TRUE), Hallucination(None, FALSE),
   [issue |-> None, severity |-> "alta", grounded |-> FALSE]}

\* The bot gives in only to an attack.
SomeDetections ==
  {d \in DetectionType : Cardinality(d.det) <= 1 /\ (d.bot_ceded => d.adversarial)}
=============================================================================
