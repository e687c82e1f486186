------------------------------ MODULE Scoring -------------------------------
(***************************************************************************)
(* From the answers of the LLM about a conversation to its score, its veto *)
(* and its segment: the pure functions that `run_audit' chains.            *)
(*                                                                         *)
(* Weights, confidences and normalized scores are in hundredths.  A rubric *)
(* maps the dimensions that have a score to that score; a dimension        *)
(* without evidence has none and is absent.                                *)
(***************************************************************************)
EXTENDS Integers, FiniteSets, FiniteSetsExt, Sequences, SequencesExt

CONSTANTS VetoThreshold,  \* settings.veto_confidence_threshold, in hundredths
          None            \* no severity, no issue, no score

ASSUME ScoringAssumption == VetoThreshold \in 0 .. 100

Severities == {"baja", "media", "alta", "critica"}
Tones == {"positive", "neutral", "negative"}

-----------------------------------------------------------------------------
(* verdict_grounding: a verdict whose note cites a code or a price that is *)
(* neither in the conversation nor in the sources is not grounded.         *)

Downgrade(severity) == IF severity \in {"alta", "critica"} THEN "media" ELSE severity

GuardVerdict(v) ==
  IF v.grounded THEN v ELSE [v EXCEPT !.severity = Downgrade(@)]

GuardVerdicts(verdicts) ==
  [i \in DOMAIN verdicts |-> GuardVerdict(verdicts[i])]

LowConfidence(verdicts) == \E i \in DOMAIN verdicts : ~verdicts[i].grounded

-----------------------------------------------------------------------------
(* rubric_mapping: the dimensions that the general evaluation stands for.  *)

Hallucinations(verdicts) ==
  {i \in DOMAIN verdicts : verdicts[i].issue = "alucinacion"}

ToneScore == [positive |-> 5, neutral |-> 3, negative |-> 1]
ToneSentiment ==
  [positive |-> "positivo", neutral |-> "neutral", negative |-> "negativo"]

\* Variants a bug would give are defined before the definition they stand for;
\* nothing else uses them.

Dimensions(parsed, verdicts) ==
  [A1 |-> IF Hallucinations(verdicts) # {} THEN 1 ELSE 5,
   A4 |-> IF parsed.scope_violation THEN 1 ELSE 5,
   C2 |-> IF parsed.resolution THEN 5 ELSE 2,
   C4 |-> parsed.efficiency,
   E1 |-> ToneScore[parsed.tone],
   E4 |-> parsed.satisfaction]

\* The severity of the first hallucination decides.
MappedConfidence(verdicts, signal) ==
  IF Hallucinations(verdicts) # {}
  THEN IF verdicts[Min(Hallucinations(verdicts))].severity \in {"baja", "media"}
       THEN 40 ELSE 80
  ELSE IF signal THEN 50 ELSE 65

\* Bug: fraud does not count as a signal.
HasSignal_VetoOnly(veto, fraud) == veto # {}
HasSignal(veto, fraud) == veto # {} \/ fraud

\* map_eval_to_rubric.
MapEvalToRubric(parsed, verdicts, detVeto, fraud) ==
  LET veto == IF Hallucinations(verdicts) # {}
              THEN detVeto \cup {"A1_alucinacion"} ELSE detVeto
      signal == HasSignal(veto, fraud)
  IN  [dims |-> Dimensions(parsed, verdicts),
       veto |-> veto,
       confidence |-> MappedConfidence(verdicts, signal),
       sentiment |-> ToneSentiment[parsed.tone],
       fraud |-> fraud,
       review |-> signal]

-----------------------------------------------------------------------------
(* rubric_scoring.                                                         *)

CategoryOf ==
  [A1 |-> "A", A4 |-> "A", C2 |-> "C", C4 |-> "C", E1 |-> "E", E4 |-> "E",
   F1 |-> "F", F3 |-> "F"]
Weights == [A |-> 30, B |-> 10, C |-> 20, D |-> 15, E |-> 15, F |-> 10]
VetoCap == 20
AlwaysFirm == {"A5_cbu_invalido", "B1_jailbreak"}

\* 1-5 to 0-100.
Norm(score) == (score - 1) * 25

\* round(): a nearest integer, either one when both are as near.
Nearest(num, den) ==
  {n \in {num \div den, num \div den + 1} : 2 * (num - n * den) \in -den .. den}

\* A multiple of the size of every category.
Share == 60

\* The sum of the values of a function.
SumOver(S, value) == MapThenSumSet(LAMBDA x : value[x], S)

TotalWeight(cats) == SumOver(cats, Weights)

\* The averages of the categories that are present, by their weights.
Brutos(dims) ==
  LET cats == {CategoryOf[d] : d \in DOMAIN dims}
      In(c) == {d \in DOMAIN dims : CategoryOf[d] = c}
      norms == [d \in DOMAIN dims |-> Norm(dims[d])]
      weighted == [c \in cats |-> Weights[c] * (Share \div Cardinality(In(c)))
                                    * SumOver(In(c), norms)]
  IN  Nearest(SumOver(cats, weighted), TotalWeight(cats) * Share)

\* Bug: a confidence of just the threshold is not enough.
IsFirm_Above(veto, det, confidence) ==
  LET firm == det \cup (veto \cap AlwaysFirm)
  IN  firm # {} \/ (veto \ firm # {} /\ confidence > VetoThreshold)

\* Flags of the validators are firm; those of the LLM need confidence.
IsFirm(veto, det, confidence) ==
  LET firm == det \cup (veto \cap AlwaysFirm)
  IN  firm # {} \/ (veto \ firm # {} /\ confidence >= VetoThreshold)

Capped(bruto) == IF bruto <= VetoCap THEN bruto ELSE VetoCap

\* compute_scores: the results it may give, by the rounding.
ComputeScores(rubric, det) ==
  LET veto == rubric.veto \cup det
      firm == IsFirm(veto, det, rubric.confidence)
      Result(bruto, final) ==
        [bruto |-> bruto, final |-> final, veto |-> veto, firm |-> firm]
  IN  IF DOMAIN rubric.dims = {}
      THEN {Result(None, IF firm THEN VetoCap ELSE None)}
      ELSE {Result(b, IF firm THEN Capped(b) ELSE b) : b \in Brutos(rubric.dims)}

-----------------------------------------------------------------------------
(* segmentation.                                                           *)

\* The rubric scores dimension d, with a score that satisfies the comparison.
AtLeast(dims, d, least) == d \in DOMAIN dims /\ dims[d] >= least
AtMost(dims, d, most) == d \in DOMAIN dims /\ dims[d] <= most

\* derive_segment: the first rule that applies.
DeriveSegment(rubric, result) ==
  LET dims == rubric.dims
      Final(least) == result.final # None /\ result.final >= least
      problematic == rubric.fraud \/ "B1_jailbreak" \in result.veto
      dissatisfied == AtMost(dims, "E4", 2) \/ rubric.sentiment = "negativo"
      ideal == /\ Final(80)
               /\ "E4" \in DOMAIN dims => dims["E4"] >= 4
               /\ AtLeast(dims, "F1", 4)
      lead == AtLeast(dims, "F3", 3) \/ AtLeast(dims, "F1", 4)
      satisfied == \/ AtLeast(dims, "E4", 4)
                   \/ rubric.sentiment = "positivo"
                   \/ Final(70)
  IN  IF problematic THEN "problematico"
      ELSE IF dissatisfied THEN "insatisfecho"
      ELSE IF ideal THEN "cliente_ideal"
      ELSE IF lead THEN "potencial_lead"
      ELSE IF satisfied THEN "satisfecho" ELSE "neutral"
=============================================================================
