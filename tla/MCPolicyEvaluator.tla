---------------------------- MODULE MCPolicyEvaluator ----------------------------
EXTENDS PolicyEvaluator

\* Both sides of every threshold, and ties of z scores.
MCScores == {0, 29, 30, 59, 60, 79, 80, 84, 85, 100}

\* As many features as the trained bundles have: normal, anomalous, more so.
MCFive == {<<a, b, c, d, e>> :
               a \in {15, 48, 200}, b \in {0, 220, 290, 900},
               c \in {18, 36, 47, 48, 52, 53, 90}, d \in {0, 180, 212}, e \in {0, 300}}

\* As many as the rules without a model look at.
MCEleven == {<<a, 120, c, 100, 150, 200, 0, 0, i, j, k>> :
                a \in {100, 200}, c \in {18, 90}, i \in {0, 199, 200},
                j \in {80, 81}, k \in {4, 5}}

MCRequests == [features: MCFive \cup MCEleven, score: MCScores]
================================================================================
