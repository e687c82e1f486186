-------------------------- MODULE MCAuditLifecycle --------------------------
(* Instances of AuditLifecycle for TLC: names for its model values and the   *)
(* symmetry of the runs without liveness.                                    *)
EXTENDS AuditLifecycle, TLC

CONSTANTS a1, a2, c1, c2, w1, w2

TwoAudits == {a1, a2}
TwoConvs == {c1, c2}
TwoWorkers == {w1, w2}
NoConvs == {}

\* Workers are interchangeable in every instance: no constant tells them apart.
WorkerSymmetry == Permutations(TwoWorkers)
=============================================================================
