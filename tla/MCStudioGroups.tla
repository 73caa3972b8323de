---------------------------- MODULE MCStudioGroups ----------------------------
(* Instances of StudioGroups for TLC. *)
EXTENDS StudioGroups

CONSTANTS c

\* A chain of three groups, the lowest with a class; two groups side by side.
Chain == {Group(1, 1, 0, {}), Group(2, 2, 1, {}), Group(3, 3, 2, {c})}
Pair  == {Group(1, 1, 0, {c}), Group(2, 2, 0, {})}
ChainOrPair == {Chain, Pair}
=============================================================================
