---------------------------- MODULE MCEvaluation ----------------------------
EXTENDS Evaluation

\* t1: two clusters; t2: an anchor and a cluster that t1 asks for too.
SmallRotating == [t \in Tickets |-> IF t = "t1" THEN <<"a", "b">> ELSE <<"b">>]
SmallAnchors == [t \in Tickets |-> IF t = "t1" THEN {} ELSE {"z"}]
SmallAttempt == [t \in Tickets |-> t]

\* A call per slot of t1 and of t2's anchor, and one more for the candidate side
\* of t1's cluster a.
Stray == <<"t1", "a", "candidate", "again">>
AllCalls == {<<"t1", x, s>> : x \in {"a", "b"}, s \in Sides}
            \cup {<<"t2", "z", s>> : s \in Sides} \cup {Stray}
OneStray == {Stray}
CallRequest == [c \in Calls |-> [ticket |-> c[1], target |-> c[2], side |-> c[3]]]

\* Everything is right, or the execution of one call is wrong.
Flaws == {<<"t1", "a", "candidate">>, <<"t1", "b", "candidate">>,
          <<"t2", "z", "candidate">>}
SmallOutputs ==
    {[c \in Calls |-> "right"]}
    \cup {[c \in Calls |-> IF c = f THEN "wrong" ELSE "right"] : f \in Flaws}

\* The caller asks for the baseline of a target before its candidate: a bound on
\* the orders in which calls begin, none on those in which they come back.
Baselines == {<<"t1", "a", "baseline">>, <<"t1", "b", "baseline">>, <<"t2", "z", "baseline">>}

BaselineFirst ==
    \A c \in Baselines : ecall[<<c[1], c[2], "candidate">>] # "absent" => ecall[c] # "absent"

MCSpec ==
    /\ EvaluationInit /\ [][EvaluationNext /\ BaselineFirst']_evalVars
    /\ EvaluationFairness
=============================================================================
