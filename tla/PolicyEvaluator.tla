----------------------------- MODULE PolicyEvaluator -----------------------------
(***************************************************************************)
(* From the score of a request to the decision about the player:           *)
(* evaluate_request of apps/ml-platform/rust-inference, with the evidence  *)
(* engine, the policy evaluator and the rules of the policy file.  Two     *)
(* files are in the repository: the deployment names ml-risk-policy.yml    *)
(* (POLICY_PATH in apps/ml-platform/.env), the tests configs/policies.yaml *)
(* (tests/common/mod.rs).                                                  *)
(*                                                                         *)
(* Numbers are integers: scores and thresholds of scores in hundredths,    *)
(* z scores in tenths, a feature in hundredths where the code compares it  *)
(* with a fraction (kills_per_minute, headshot_ratio, the teleport score)  *)
(* and in units elsewhere.  The rounding of f32 itself is left out.        *)
(***************************************************************************)
EXTENDS Integers, SequencesExt

CONSTANTS
    Requests,    \* what may be asked: features and the score of the model
    Absent       \* no evidence, no threshold, no answer yet

\* The evidence takes the third feature for the headshots; a bundle has five or
\* more features (FEATURE_CONTRACT of trainer.py:13-19), and predict refuses a
\* request with more or fewer than its bundle has (onnx_engine.rs:156).
ASSUME RequestsAssumption ==
    \A r \in Requests :
        /\ r.score \in 0..100
        /\ r.features \in Seq(Int)
        /\ Len(r.features) >= 5

ASSUME AbsentAssumption == Absent \notin Int

VARIABLES
    policy,      \* the policy file, read when the process starts and not again
    request,     \* the request at hand
    outcome      \* its decision_outcome

policyVars == <<policy, request, outcome>>

-------------------------------------------------------------------------------
(* EvidenceEngine::generate_evidence *)

\* The reference values of the lobby.
Lobby == <<[median |-> 15,  mad |-> 8],    \* kills_per_minute
           [median |-> 120, mad |-> 45],   \* damage_per_minute
           [median |-> 18,  mad |-> 8],    \* headshot_ratio
           [median |-> 100, mad |-> 30],   \* damage_per_kill
           [median |-> 150, mad |-> 40],   \* movement_per_minute
           [median |-> 200, mad |-> 80]>>  \* performance_versus_lobby
HeadshotRatio == 3

\* The robust z score of a value, a fraction in tenths: 10 / 1.4826.
Dividend(value, i) == 100000 * (value - Lobby[i].median)
Divisor(i)         == 14826 * Lobby[i].mad
Anomalous(value, i) == Dividend(value, i) > 15 * Divisor(i)
Rounded(value, i)   == (2 * Dividend(value, i) + Divisor(i)) \div (2 * Divisor(i))

\* The known features that stand out.
Anomalies(features) ==
    {i \in 1..Min({Len(Lobby), Len(features)}) : Anomalous(features[i], i)}

\* Mutation: the two are taken before they are ranked.
Unranked(features) ==
    CHOOSE s \in SetToSeqs(Anomalies(features)) :
        \A m, n \in DOMAIN s : m < n => s[m] < s[n]

\* Mutation: the sort is upside down.
RankedAscending(features) ==
    CHOOSE s \in SetToSeqs(Anomalies(features)) :
        \A m, n \in DOMAIN s :
            m < n => Rounded(features[s[m]], s[m]) <= Rounded(features[s[n]], s[n])

\* A stable sort of the anomalies, which are collected in the order of the
\* lobby, by the rounded z score, descending.
Ranked(features) ==
    LET zScore(i) == Rounded(features[i], i)
    IN  CHOOSE s \in SetToSeqs(Anomalies(features)) :
            \A m, n \in DOMAIN s :
                m < n => \/ zScore(s[m]) > zScore(s[n])
                         \/ zScore(s[m]) = zScore(s[n]) /\ s[m] < s[n]

TopEvidence(features) ==
    LET ranked == Ranked(features)
    IN  [n \in 1..Min({2, Len(ranked)}) |->
            [feature |-> ranked[n],
             zScore  |-> Rounded(features[ranked[n]], ranked[n])]]

-------------------------------------------------------------------------------
(* DecisionEvaluator::evaluate *)

\* The rules that need no model: they look at features that only a bundle with ten
\* or more has.
Feature(features, i) == IF i \in DOMAIN features THEN features[i] ELSE 0

Banned(features) ==
    /\ Len(features) >= 10
    /\ \/ features[10] > 80                                      \* teleport
       \/ features[1] >= 200 /\ features[9] \in 1..199           \* burst
       \/ Feature(features, 11) >= 5                             \* streak

\* The file of the deployment.
MlRiskPolicy ==
    [default |-> "CLEAR",
     rules   |->
        <<[minScore |-> 30, maxScore |-> 60,  minHeadshot |-> Absent,
           action |-> "WATCHLIST"],
          [minScore |-> 60, maxScore |-> 80,  minHeadshot |-> Absent,
           action |-> "ESCALATE_TO_MODERATOR"],
          [minScore |-> 80, maxScore |-> 101, minHeadshot |-> 25,
           action |-> "SUSPEND_ACCOUNT"]>>]

\* The file of the tests.  Its last two rules are of the same scores.
ConfigsPolicy ==
    [default |-> "CLEAR",
     rules   |->
        <<[minScore |-> 0,  maxScore |-> 30,  minHeadshot |-> Absent,
           action |-> "CLEAR"],
          [minScore |-> 30, maxScore |-> 60,  minHeadshot |-> Absent,
           action |-> "WATCHLIST"],
          [minScore |-> 60, maxScore |-> 85,  minHeadshot |-> Absent,
           action |-> "ESCALATE_TO_MODERATOR"],
          [minScore |-> 85, maxScore |-> 101, minHeadshot |-> 30,
           action |-> "SUSPEND_ACCOUNT"],
          [minScore |-> 85, maxScore |-> 101, minHeadshot |-> Absent,
           action |-> "PERMANENT_BAN"]>>]

PolicyFiles == {"ml-risk-policy.yml", "policies.yaml"}
PolicyConfig(file) ==
    IF file = "ml-risk-policy.yml" THEN MlRiskPolicy ELSE ConfigsPolicy

\* The z score of the headshots, if it is among the top evidence.
HeadshotZScore(evidence) ==
    LET found == {n \in DOMAIN evidence : evidence[n].feature = HeadshotRatio}
    IN  IF found = {} THEN 0 ELSE evidence[Min(found)].zScore

Matches(rule, score, headshot) ==
    /\ rule.minScore <= score /\ score < rule.maxScore
    /\ rule.minHeadshot # Absent => headshot >= rule.minHeadshot

\* The hard rules, then the first rule of the file that matches.
Evaluate(file, features, score) ==
    LET config   == PolicyConfig(file)
        headshot == HeadshotZScore(TopEvidence(features))
        matching == {n \in DOMAIN config.rules : Matches(config.rules[n], score, headshot)}
    IN  IF Banned(features) THEN "PERMANENT_BAN"
        ELSE IF matching = {} THEN config.default
        ELSE config.rules[Min(matching)].action

-------------------------------------------------------------------------------
PolicyInit ==
    /\ policy \in PolicyFiles
    /\ request \in Requests
    /\ outcome = Absent

\* The successful branch of evaluate_request, behind the prediction.
EvaluateRequest ==
    /\ outcome = Absent
    /\ outcome' = Evaluate(policy, request.features, request.score)
    /\ UNCHANGED <<policy, request>>

PolicyNext == EvaluateRequest

PolicySpec == PolicyInit /\ [][PolicyNext]_policyVars

-------------------------------------------------------------------------------
(* Properties *)

\* Feature j comes before feature i in the evidence.
Outranks(features, j, i) ==
    /\ Anomalous(features[j], j)
    /\ \/ Rounded(features[j], j) > Rounded(features[i], i)
       \/ Rounded(features[j], j) = Rounded(features[i], i) /\ j < i

\* At most one of the features that the lobby knows hides the headshots.
HeadshotsShow(features) ==
    Cardinality({j \in 1..Min({Len(Lobby), Len(features)}) :
                    Outranks(features, j, HeadshotRatio)}) < 2

\* The headshots stand out, reach the z score once rounded, and are among the
\* first two of the evidence.
Suspicious(features, zScore) ==
    /\ Anomalous(features[HeadshotRatio], HeadshotRatio)
    /\ Rounded(features[HeadshotRatio], HeadshotRatio) >= zScore
    /\ HeadshotsShow(features)

\* From which score on an account may be suspended, with what z score of the
\* headshots, and what becomes of such a score without them.
Critical(file) == IF file = "ml-risk-policy.yml" THEN 80 ELSE 85
CriticalZScore(file) == IF file = "ml-risk-policy.yml" THEN 25 ELSE 30
WithoutHeadshots(file) ==
    IF file = "ml-risk-policy.yml" THEN "CLEAR" ELSE "PERMANENT_BAN"

\* The decision in terms of the request, under either policy file: an account is
\* suspended if and only if the score is critical and the headshots stand out and
\* rank among the first two of the evidence (evidence_engine.rs:67-72,
\* evaluator.rs:104-122); a critical score without them is cleared by the deployed
\* file, which has no other rule for it, and banned by the last rule of the tests'
\* file; below it the bands of the policy decide.
DecisionMeetsPolicy ==
    outcome # Absent =>
        LET f == request.features
            s == request.score
            open       == ~Banned(f)
            critical   == s >= Critical(policy)
            suspicious == Suspicious(f, CriticalZScore(policy))
            without(action) ==
                critical /\ ~suspicious /\ action = WithoutHeadshots(policy)
        IN  /\ outcome = "SUSPEND_ACCOUNT" <=> open /\ critical /\ suspicious
            /\ outcome = "ESCALATE_TO_MODERATOR" <=> open /\ s >= 60 /\ ~critical
            /\ outcome = "WATCHLIST" <=> open /\ s \in 30..59
            /\ outcome = "PERMANENT_BAN" <=> ~open \/ without("PERMANENT_BAN")
            /\ outcome = "CLEAR" <=> open /\ (s < 30 \/ without("CLEAR"))

Severity(action) ==
    CHOOSE n \in 1..5 : action = <<"CLEAR", "WATCHLIST", "ESCALATE_TO_MODERATOR",
                                   "SUSPEND_ACCOUNT", "PERMANENT_BAN">>[n]

\* Under the deployed policy, with everything else equal, a higher headshot ratio
\* never makes the decision milder, although evidence is rounded, ranked and cut
\* off on the way.  (The same is not true of the other features, which can push
\* the headshots out, nor of policies.yaml, where enough headshots turn the ban of
\* a critical score into a suspension.)
MoreHeadshotsNeverMilder ==
    outcome # Absent /\ policy = "ml-risk-policy.yml" =>
        \A ratio \in {r.features[HeadshotRatio] : r \in Requests} :
            ratio > request.features[HeadshotRatio] =>
                LET more == [request.features EXCEPT ![HeadshotRatio] = ratio]
                IN  Severity(Evaluate(policy, more, request.score)) >= Severity(outcome)
================================================================================
