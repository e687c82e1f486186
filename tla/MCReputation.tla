--------------------------- MODULE MCReputation ----------------------------
(* Instances of Reputation for TLC: names for its model values, three answers. *)
EXTENDS Reputation

CONSTANTS w1, w2, w3, c1, c2

ThreeWorkers == {w1, w2, w3}
TwoConvs == {c1, c2}

\* A buyer, a fraud that ends in a veto, and a fraud that does not.
Buyer == [score |-> 90, satisfaction |-> 5, veto |-> FALSE, lead |-> TRUE,
          fraud |-> FALSE]
Scam == [score |-> 20, satisfaction |-> 1, veto |-> TRUE, lead |-> FALSE,
         fraud |-> TRUE]
Haggler == [score |-> 55, satisfaction |-> 4, veto |-> FALSE, lead |-> FALSE,
            fraud |-> TRUE]
ThreeAnswers == {Buyer, Scam, Haggler}
=============================================================================
