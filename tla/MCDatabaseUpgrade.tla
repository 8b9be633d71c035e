-------------------------- MODULE MCDatabaseUpgrade --------------------------
(* Small instances of DatabaseUpgrade: an old build, and a new one that    *)
(* knows two migrations more.                                              *)
EXTENDS DatabaseUpgrade

CONSTANTS old, new

TwoMore == [p \in Builds |-> IF p = old THEN 1 ELSE 3]
=============================================================================
