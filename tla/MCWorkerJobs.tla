---------------------------- MODULE MCWorkerJobs ----------------------------
(* Small instances of WorkerJobs: two jobs, two loops. *)
EXTENDS WorkerJobs

MCJobs == {1, 2}

Case(max, tries, task1, task2, rules, faults) ==
    [max |-> max, tries |-> tries, taskOf |-> <<task1, task2>>,
     rules |-> rules, faults |-> faults]

(* Tasks of their own, one job at a time; modules and reports fail. *)
Failing == Case(1, <<2, 1>>, 11, 12, {"person", "script"}, {"module", "unsent"})

(* One job, twice: the source cannot be built, or breaks. *)
Sourceless == Case(1, <<2, 0>>, 11, 12, {"subtitle"}, {"source", "stream"})

(* The second task's id is the first job's. *)
Colliding == Case(2, <<2, 2>>, 11, 1, {"banned"}, {"stream", "parse"})

(* Both jobs are of one task. *)
Shared == Case(2, <<2, 1>>, 11, 11, {"script"}, {"module", "stream"})

(* Both jobs are of one task, and so of one stream, whose loops may close  *)
(* nothing.                                                                *)
Stalling == Case(2, <<2, 1>>, 11, 11, {"person"}, {"stall"})

(* A module is left behind by a subtitle matching without a stream. *)
LeftBehind == Case(1, <<2, 0>>, 11, 12, {"subtitle", "person"}, {"source", "module"})

(* A job is handed out while it runs. *)
Twice == Case(2, <<2, 2>>, 11, 12, {"person"}, {"twice", "stream"})

(* A task without rules. *)
NoRules == Case(2, <<2, 2>>, 11, 12, {}, {"parse"})

MCAll == {Failing, Sourceless, Colliding, Shared, Stalling, LeftBehind, Twice, NoRules}
=============================================================================
