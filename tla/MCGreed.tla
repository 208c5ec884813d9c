------------------------------- MODULE MCGreed -------------------------------
(* Values of the constants of Greed for TLC: three goals that cannot all   *)
(* be met by the same people, two of them on rare attributes.              *)
EXTENDS Analyze

MCAttrs == {0, 1, 2}
MCGoals == {[kind |-> "const", attr |-> 0, k |-> 2],
            [kind |-> "const", attr |-> 1, k |-> 2],
            [kind |-> "const", attr |-> 2, k |-> 1]}
MCProb == [a \in MCAttrs |-> IF a = 0 THEN 40 ELSE IF a = 1 THEN 30 ELSE 20]
MCCorr == [a \in MCAttrs |-> [b \in MCAttrs |->
             IF a = b THEN 100 ELSE IF {a, b} = {0, 1} THEN -80 ELSE 50]]
=============================================================================
