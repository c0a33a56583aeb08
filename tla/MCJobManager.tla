---------------------------- MODULE MCJobManager ----------------------------
(* Instances of JobManager for TLC. *)
EXTENDS JobManager, TLC

\* Two jobs created in one clock tick, for two tasks, or for one.
TwoTasks == [j \in Jobs |-> j]
OneTask == [j \in Jobs |-> 1]
SameTick == [j \in Jobs |-> 1]
InOrder == [j \in Jobs |-> j]

\* Threads and workers are interchangeable.
Symmetry == Permutations(Handlers) \cup Permutations(Workers)
=============================================================================
