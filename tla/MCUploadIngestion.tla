------------------------- MODULE MCUploadIngestion -------------------------
(* Instances of UploadIngestion for TLC: names for its model values and the  *)
(* symmetry of the runs without liveness.                                    *)
EXTENDS UploadIngestion, TLC

CONSTANTS u1, u2, i1, i2, w1, w2

TwoUploads == {u1, u2}
TwoIds == {i1, i2}
TwoWorkers == {w1, w2}

\* Workers are interchangeable in every instance.
WorkerSymmetry == Permutations(TwoWorkers)
=============================================================================
