--------------------------- MODULE MCPersonReport ---------------------------
(* Small instances of PersonReport: three units of video, two sequences.   *)
EXTENDS PersonReport

CONSTANTS agent, client, visitor

MCPatchLists ==
    {<<Patch(0, 3)>>, <<Patch(1, 3)>>, <<Patch(0, 2)>>, <<Patch(0, 1), Patch(2, 4)>>, <<Patch(1, 1)>>}

Of(role, need) == [role |-> role, requirement |-> need]

MCParticipants ==
    {<<>>, <<Of(agent, "01")>>, <<Of(agent, "02"), Of(client, "01")>>,
     <<Of(agent, "01"), Of(client, "00"), Of(agent, "01")>>, <<Of(visitor, "01")>>}

Cfg(min, number, ratio, people, lost, flag) ==
    [min_time_interval |-> min, verification_threshold |-> 0, cumulative_number |-> number,
     ratio |-> ratio, num_of_people |-> people, lost_warning_threshold |-> lost,
     stranger_warning_flag |-> flag]

MCConfigs == {Cfg(0, 0, -1, 1, 1, TRUE), Cfg(0, 2, 50, 0, -1, FALSE), Cfg(1, 1, 100, 0, 0, TRUE)}
=============================================================================
