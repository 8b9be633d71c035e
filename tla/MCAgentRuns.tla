----------------------------- MODULE MCAgentRuns -----------------------------
(* Small instances of AgentRuns: a root conversation, alone or with one    *)
(* branch of it.                                                           *)
EXTENDS AgentRunsInvariant

CONSTANTS trunk, branch

OneNode == {trunk}
TwoNodes == {trunk, branch}
TrunkOnly == [n \in OneNode |-> {trunk}]
TrunkAndBranch == [n \in TwoNodes |-> {trunk, n}]

Symmetry == Permutations(Runs)
=============================================================================
