---------------------------- MODULE PersonReport ----------------------------
(***************************************************************************)
(* The report on persons: applications/modules/person_tracking.  The       *)
(* processor takes the sequences of the tracker (Tracking), gives them to  *)
(* the participants of the task by the likeness of faces, and checks who   *)
(* was on screen, when, and with how many others.                          *)
(*                                                                         *)
(* A track is its number in the tracker's result; it stands under its own  *)
(* id in the report when it is no participant's.                           *)
(***************************************************************************)
EXTENDS TimePatches

CONSTANTS
    PatchLists,    \* what a sequence of the tracker may hold
    MaxTracks,     \* bound of the sequences of one video
    Participants,  \* lists of [role, requirement] a task may have
    VRoles,        \* the roles that start with "v", as the tracker's ids do
    Similarities,  \* of two faces, in percent; 0 also when one has no picture
    Configs,       \* the same_frame_cfg of a rule point
    Durations,     \* length of the video in milliseconds, 0 when unknown
    MsPerSecond

NoTrack == 0

DefaultThreshold == 75

Roles(ps) == {ps[i].role : i \in DOMAIN ps}

(* The tracker's patches follow each other; no role is a sequence's id. *)
ASSUME PersonReportAssumption ==
    /\ MaxTracks \in Nat /\ Durations \subseteq Nat /\ Similarities \subseteq Nat
    /\ MsPerSecond \in Nat \ {0}
    /\ PatchLists \subseteq Seq([start_time: Nat, end_time: Nat])
    /\ \A ps \in PatchLists :
         /\ \A i \in 1 .. Len(ps) : ps[i].start_time <= ps[i].end_time
         /\ \A i \in 2 .. Len(ps) : ps[i - 1].end_time < ps[i].start_time
    /\ \A ps \in Participants : ps \in Seq(Range(ps)) /\ Roles(ps) \cap (1 .. MaxTracks) = {}
    /\ \A c \in Configs : /\ c.min_time_interval \in Nat /\ c.verification_threshold \in Int
                          /\ c.num_of_people \in Int

VARIABLES
    results,       \* time_patchs of each sequence
    participants,  \* of the task
    similarity,    \* of each sequence's face and each role's picture
    cfg,
    video_duration,
    report         \* Unset, or the report and whether it could be built

report_vars == <<results, participants, similarity, cfg, video_duration, report>>

Unset == [pc |-> "ready"]

ReportInit ==
    /\ results \in UNION {[1 .. n -> PatchLists] : n \in 0 .. MaxTracks}
    /\ participants \in Participants
    /\ similarity \in [DOMAIN results -> [Roles(participants) -> Similarities]]
    /\ cfg \in Configs
    /\ video_duration \in Durations
    /\ report = Unset

-----------------------------------------------------------------------------
(* The sequences and the participants.                                     *)

(* parse_task makes milliseconds of the interval and so does the processor. *)
MinInterval == cfg.min_time_interval * MsPerSecond * MsPerSecond

Kept(t) == Select(results[t], {p \in Range(results[t]) : get_duration(p) > MinInterval})

tracking_sequences == {t \in DOMAIN results : Kept(t) # <<>>}

lost_time_patchs(t) == get_reversed_time_patchs(Kept(t), video_duration)

(* A dictionary by role: the place of the first of a role, the rest of the last. *)
participant_sequences ==
    LET firsts == Select([i \in DOMAIN participants |-> i],
                         {i \in DOMAIN participants : \A j \in DOMAIN participants :
                            participants[j].role = participants[i].role => i <= j})
    IN  [n \in DOMAIN firsts |-> participants[firsts[n]].role]

requirement(role) ==
    participants[CHOOSE i \in DOMAIN participants :
                   /\ participants[i].role = role
                   /\ \A j \in DOMAIN participants : participants[j].role = role => j <= i].requirement

verification_threshold ==
    IF cfg.verification_threshold > 0 THEN cfg.verification_threshold ELSE DefaultThreshold

Alike(t, role) == similarity[t][role] > verification_threshold

(* The sequences like a role. *)
relation(role) == {t \in tracking_sequences : Alike(t, role)}

(* The roles in the order in which _fill_relation meets them: one sequence *)
(* after the other, the roles first like it in the participants' order.    *)
FirstMet(t) == {role \in Roles(participants) : t \in relation(role) /\ \A u \in relation(role) : t <= u}

RolesMet ==
    LET met[t \in 0 .. Len(results)] ==
            IF t = 0 THEN <<>> ELSE met[t - 1] \o Select(participant_sequences, FirstMet(t))
    IN  met[Len(results)]

(* Sequences are sorted by their likeness, those alike stay in order. *)
MostAlike(role, ts) ==
    CHOOSE t \in ts :
      \A u \in ts : \/ similarity[t][role] > similarity[u][role]
                   \/ (similarity[t][role] = similarity[u][role] /\ t <= u)

Assigned_IgnoresOccupied(mapper, role) ==
    Append(mapper, [identity |-> role, track |-> MostAlike(role, relation(role))])

(* Each role takes the most alike of what is left; it may be nothing. *)
Assigned(mapper, role) ==
    LET left == relation(role) \ {mapper[i].track : i \in DOMAIN mapper}
    IN  Append(mapper, [identity |-> role,
                        track |-> IF left = {} THEN NoTrack ELSE MostAlike(role, left)])

GivenTo(met) ==
    LET mapper[n \in 0 .. Len(met)] == IF n = 0 THEN <<>> ELSE Assigned(mapper[n - 1], met[n])
    IN  mapper[Len(met)]

given_to_roles == GivenTo(RolesMet)

(* The sequences nobody took stand for themselves. *)
LeftOf(mapper) ==
    Select([t \in DOMAIN results |-> t],
           tracking_sequences \ {mapper[i].track : i \in DOMAIN mapper})

Themselves(ts) == [i \in DOMAIN ts |-> [identity |-> ts[i], track |-> ts[i]]]

WithTheRest(mapper) == mapper \o Themselves(LeftOf(mapper))

identity_mapper == WithTheRest(given_to_roles)

HaveTrack(mapper) == Select(mapper, {m \in Range(mapper) : m.track # NoTrack})

Present == HaveTrack(identity_mapper)

RequirementOf(identity) ==
    IF identity \in Roles(participants) THEN requirement(identity) ELSE "00"

IsStranger(identity) == identity \notin Roles(participants) \/ identity \in VRoles

-----------------------------------------------------------------------------
(* The checks.  Each gives the entries of its list in the report.          *)

MissingRequired_Prohibited ==
    Select(participant_sequences,
           {role \in Roles(participants) : relation(role) = {} /\ requirement(role) = "02"})

(* Participants that had to appear and are like nobody. *)
MissingRequired ==
    Select(participant_sequences,
           {role \in Roles(participants) : relation(role) = {} /\ requirement(role) = "01"})

times(t) == get_reversed_time_patchs(lost_time_patchs(t), video_duration)

(* No time lost is the whole video. *)
StoredTimes(t) ==
    IF lost_time_patchs(t) = <<>> THEN <<Patch(0, video_duration)>> ELSE times(t)

Described(ms) ==
    [i \in DOMAIN ms |->
      [identity |-> IF IsStranger(ms[i].identity) THEN "unknown" ELSE ms[i].identity,
       requirement |-> RequirementOf(ms[i].identity),
       times |-> StoredTimes(ms[i].track)]]

persons == Described(Select(Present, {m \in Range(Present) : StoredTimes(m.track) # <<>>}))

Total(ps) == FoldLeft(LAMBDA sum, p : sum + get_duration(p), 0, ps)

Required == Select(Present, {m \in Range(Present) : RequirementOf(m.identity) = "01"})

(* 1 - lost / duration < ratio, in percent. *)
RatioTooSmall ==
    Select(Required,
           {m \in Range(Required) :
              100 * (video_duration - Total(lost_time_patchs(m.track))) < cfg.ratio * video_duration})

LongLost(t) ==
    {p \in Range(lost_time_patchs(t)) : get_duration(p) > cfg.lost_warning_threshold}

lost_participants == Select(Required, {m \in Range(Required) : LongLost(m.track) # {}})

AllTimes(ms) ==
    LET all[n \in 0 .. Len(ms)] == IF n = 0 THEN <<>> ELSE all[n - 1] \o times(ms[n].track)
    IN  all[Len(ms)]

max_participants == get_time_patch_count(AllTimes(Present), cfg.num_of_people)

strangers ==
    merge_intervals(AllTimes(Select(Present, {m \in Range(Present) : IsStranger(m.identity)})))

If(condition, what) == IF condition THEN what ELSE <<>>

Each(reason, s) == [i \in DOMAIN s |-> reason]

(* _process: the five checks in their order; lost participants give the    *)
(* status and no reason.                                                   *)
Reasons ==
    Each("missing", MissingRequired)
      \o Each("prohibited", Select(persons, {p \in Range(persons) : p.requirement = "02"}))
      \o If(cfg.cumulative_number > 0 /\ Cardinality(tracking_sequences) # cfg.cumulative_number,
            <<"number">>)
      \o If(cfg.ratio >= 0, Each("ratio", RatioTooSmall))
      \o If(cfg.num_of_people >= 0 /\ max_participants # <<>>, <<"people">>)
      \o If(cfg.stranger_warning_flag /\ strangers # <<>>, <<"stranger">>)

Lost == If(cfg.lost_warning_threshold >= 0, lost_participants)

(* The share of a video of no length. *)
DividesByZero == cfg.ratio >= 0 /\ video_duration = 0 /\ Required # <<>>

(* HumanTackReportResult wants a string for identity_type and gets a number: *)
(* a report with a person in it cannot be built.                           *)
Buildable == persons = <<>>

run ==
    /\ report.pc = "ready"
    /\ report' = [pc |-> IF DividesByZero \/ ~Buildable THEN "raised" ELSE "built",
                  checked |-> ~DividesByZero,
                  mapper |-> identity_mapper,
                  persons |-> persons,
                  missing |-> MissingRequired,
                  strangers |-> If(cfg.stranger_warning_flag, strangers),
                  max_participants |-> If(cfg.num_of_people >= 0, max_participants),
                  reasons |-> Reasons,
                  status |-> IF Reasons = <<>> /\ Lost = <<>> THEN 0 ELSE 1]
    /\ UNCHANGED <<results, participants, similarity, cfg, video_duration>>

ReportNext == run

ReportSpec == ReportInit /\ [][ReportNext]_report_vars

-----------------------------------------------------------------------------
(* Properties.                                                             *)

Checked == report.pc # "ready" /\ report.checked

Holders(t) == {i \in DOMAIN report.mapper : report.mapper[i].track = t}

(* Every sequence stands under one identity, and one that stands under its *)
(* own id, and so counts as a stranger, is like no participant who was     *)
(* given nobody (_get_identity_mapper).                                    *)
OnePersonEach ==
    Checked =>
      \A t \in tracking_sequences :
        /\ Cardinality(Holders(t)) = 1
        /\ \A i \in Holders(t) : report.mapper[i].identity = t =>
             \A k \in DOMAIN report.mapper :
               report.mapper[k].track = NoTrack => ~Alike(t, report.mapper[k].identity)

(* The unit of time that starts at c. *)
Shows(ps, c) == \E i \in DOMAIN ps : ps[i].start_time <= c /\ c + 1 <= ps[i].end_time

(* What the report says of each unit of the video: a person is on screen   *)
(* just when a patch of his sequence is, strangers when one of them is,    *)
(* and too many when more than num_of_people are; no entry is empty.       *)
TimesExact ==
    Checked /\ video_duration > 0 =>
      \A c \in 0 .. video_duration - 1 :
        LET onScreen == {t \in tracking_sequences : Shows(Kept(t), c)}
            holder(t) == report.mapper[CHOOSE i \in Holders(t) : TRUE].identity
        IN  /\ \A t \in tracking_sequences : t \in onScreen <=> Shows(StoredTimes(t), c)
            /\ cfg.stranger_warning_flag =>
                 (Shows(report.strangers, c) <=> \E t \in onScreen : IsStranger(holder(t)))
            /\ cfg.num_of_people >= 0 =>
                 (Shows(report.max_participants, c) <=> Cardinality(onScreen) > cfg.num_of_people)
            /\ \A p \in Range(report.max_participants \o report.strangers) : get_duration(p) > 0

(* A participant who had to appear and is not in the report's list is      *)
(* named as missing, unless everybody like him was taken for another.      *)
RequiredAnswered ==
    Checked /\ video_duration > 0 =>
      \A role \in Roles(participants) \ VRoles :
        requirement(role) = "01" =>
          \/ \E i \in DOMAIN report.persons : report.persons[i].identity = role
          \/ role \in Range(report.missing) /\ report.status = 1
          \/ \E t \in relation(role) : video_duration <= Kept(t)[1].start_time
          \/ /\ relation(role) # {}
             /\ \A t \in relation(role) : \E i \in Holders(t) :
                  report.mapper[i].identity \in Roles(participants) \ {role}
=============================================================================
