--------------------------- MODULE MCFlowVersions ---------------------------
(* Instances of FlowVersions for TLC: names for its model values.              *)
EXTENDS FlowVersions

CONSTANTS r1, r2, r3, j1, j2

ThreeRequests == {r1, r2, r3}
TwoJsons == {j1, j2}
=============================================================================
