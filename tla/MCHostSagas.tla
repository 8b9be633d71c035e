----------------------------- MODULE MCHostSagas -----------------------------
(* Small instances of HostSagas: a root conversation, a child that a fork  *)
(* may make, and a turn that fork-chat may open.                           *)
EXTENDS HostSagas, TLC

CONSTANTS trunk, branch, turn, fork, rename, visit, prune, first, second

TargetOf == [o \in Ops |-> IF o = prune THEN trunk ELSE IF o = visit THEN trunk
                           ELSE IF o = rename THEN trunk ELSE branch]

(* The two coroutines of a fork are alike; other operations have one.      *)
TwoOfForks == Forks \X {first, second} \cup (Ops \ Forks) \X {"only"}
TwoOfEach == Ops \X {first, second}
Symmetry == Permutations({first, second})

SourceOf == [o \in Forks |-> trunk]
Untitled == [o \in Forks |-> NoText]
Prompted == [o \in Forks |-> IF rename \in Renames THEN rename ELSE NoText]
=============================================================================
