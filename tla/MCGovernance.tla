----------------------------- MODULE MCGovernance -----------------------------
(* Two accounts, of whom ann is the administrator, and days; three guardians, *)
(* of whom two must sign, and months of one unit visited every third one, so  *)
(* that the clock meets every phase and its boundary.                         *)
EXTENDS Governance, TLC

MCTimeSteps == {1}
\* Bound: bob hands the administration on by a proposal only.
MCBound == sensitiveUsage["bob"] = 0

MCParams == {"FeeBps"}
MCParamValues == {30, 20000}
MCValid(p, v) == v <= 10000
MCParamDelays == {1}
\* The quorum voted on does not fit 32 bits, and the rest of it is 50%.
MCActions ==
  {[kind |-> "AdminUpgrade", value |-> "bob"], [kind |-> "Quorum", value |-> U32 + 5000]}
MCPeriods == {1}
MCStakes == {1}
MCDefault == [minPeriod |-> 1, maxPeriod |-> 2, quorum |-> 2000, approval |-> 5000,
              delay |-> 2, cooldown |-> 1]
MCPrompt == {[MCDefault EXCEPT !.delay = 0, !.quorum = 10000]}

\* Three voters against a quorum of none, one and two, and deadlines passed at
\* once and later.
MCQuorums == {0, 1, 2}
MCDeadlines == {0, 1}

MCFees == {10}
MCSizes == {1, 2}
MCCouncilTimeSteps == {3}
=============================================================================
