----------------------------- MODULE MCClaimLease -----------------------------
(* Two agents, each with a run, contend for one issue, which is free or is *)
(* blocked by another one.                                                 *)
EXTENDS ClaimLease, TLC

CONSTANTS i1, i2, a1, a2, r1, r2, c1, c2

OneIssue == {i1}
TwoIssues == {i1, i2}
TwoAgents == {a1, a2}
TwoRuns == {r1, r2}
OneEach == {<<r1, a1, i1>>, <<r2, a2, i1>>}
OneClient == {c1}
TwoClients == {c1, c2}
(* The requests are alike, and so are the pairs of an agent and its run.   *)
PairSwap == [x \in {a1, a2, r1, r2} |->
    CASE x = a1 -> a2 [] x = a2 -> a1 [] x = r1 -> r2 [] x = r2 -> r1]
Swaps == Permutations({c1, c2}) \cup {PairSwap}
NoLinks == {}
OneLink == {<<i1, i2>>}
=============================================================================
