----------------------------- MODULE TimePatches -----------------------------
(***************************************************************************)
(* Intervals of time: domain/entities/common/time_patch.py and what the    *)
(* tracker and the person tracking processor compute with lists of them.   *)
(* All callers use milliseconds; times are whole numbers here.             *)
(***************************************************************************)
EXTENDS Integers, Sequences, FiniteSets, SequencesExt, Selection

Patch(s, e) == [start_time |-> s, end_time |-> e]

update_end_time(p, t) == [p EXCEPT !.end_time = t]

is_burr(p, min) == p.end_time - p.start_time < min

get_duration(p) == p.end_time - p.start_time

is_overlap(p, s, e) == IF p.start_time <= s THEN p.end_time >= s ELSE p.start_time <= e

is_in(p, t) == p.start_time <= t /\ t <= p.end_time

(* s in the order of Less; elements that are equal in it keep their order. *)
SortedBy(s, Less(_, _)) ==
    LET before(i, j) == Less(s[i], s[j]) \/ (~Less(s[j], s[i]) /\ i <= j)
        rank(i)      == Cardinality({j \in DOMAIN s : before(j, i)})
    IN  [n \in DOMAIN s |-> s[CHOOSE i \in DOMAIN s : rank(i) = n]]

SortedByStart(ps) == SortedBy(ps, LAMBDA p, q : p.start_time < q.start_time)

-----------------------------------------------------------------------------
(* The tracker: patches that overlap, or are at most gap apart, are one.   *)

Joined_OverlapOnly(gap, merged, p) ==
    LET last == merged[Len(merged)]
        top  == IF p.end_time > last.end_time THEN p.end_time ELSE last.end_time
    IN  IF merged # <<>> /\ is_overlap(p, last.start_time, last.end_time)
        THEN [merged EXCEPT ![Len(merged)] = update_end_time(last, top)]
        ELSE Append(merged, p)

Joined(gap, merged, p) ==
    LET last == merged[Len(merged)]
        top  == IF p.end_time > last.end_time THEN p.end_time ELSE last.end_time
    IN  IF merged # <<>> /\ (is_overlap(p, last.start_time, last.end_time)
                             \/ p.start_time - last.end_time <= gap)
        THEN [merged EXCEPT ![Len(merged)] = update_end_time(last, top)]
        ELSE Append(merged, p)

merge_time_patch(ps, gap) ==
    LET sorted == SortedByStart(ps)
        merged[n \in 0 .. Len(sorted)] ==
            IF n = 0 THEN <<>> ELSE Joined(gap, merged[n - 1], sorted[n])
    IN  merged[Len(sorted)]

filter_time_path(ps, min) == Select(ps, {p \in Range(ps) : ~is_burr(p, min)})

-----------------------------------------------------------------------------
(* The processor.                                                          *)

(* One patch after the other, and the gap before it if there is one. *)
GapBefore(acc, p) ==
    [from |-> p.end_time,
     gaps |-> IF acc.from # p.start_time THEN Append(acc.gaps, Patch(acc.from, p.start_time))
              ELSE acc.gaps]

(* The times between the patches, up to the length of the video. *)
get_reversed_time_patchs(ps, duration) ==
    LET acc[n \in 0 .. Len(ps)] ==
            IF n = 0 THEN [from |-> 0, gaps |-> <<>>] ELSE GapBefore(acc[n - 1], ps[n])
        end == acc[Len(ps)]
    IN  IF end.from < duration THEN Append(end.gaps, Patch(end.from, duration)) ELSE end.gaps

(* Patches that touch or overlap become one. *)
Adjoined(merged, p) ==
    LET last == merged[Len(merged)]
        top  == IF p.end_time > last.end_time THEN p.end_time ELSE last.end_time
    IN  IF merged = <<>> \/ last.end_time < p.start_time THEN Append(merged, p)
        ELSE [merged EXCEPT ![Len(merged)] = update_end_time(last, top)]

merge_intervals_Unsorted(ps) == FoldLeft(Adjoined, <<>>, ps)

merge_intervals(ps) ==
    LET sorted == SortedByStart(ps)
        merged[n \in 0 .. Len(sorted)] == IF n = 0 THEN <<>> ELSE Adjoined(merged[n - 1], sorted[n])
    IN  merged[Len(sorted)]

(* Starts and ends in the order of time: at one time ends come first. *)
Points(ps) ==
    [i \in DOMAIN ps |-> [at |-> ps[i].start_time, step |-> 1]] \o
    [i \in DOMAIN ps |-> [at |-> ps[i].end_time, step |-> -1]]

TimePoints(ps) ==
    SortedBy(Points(ps), LAMBDA p, q : p.at < q.at \/ (p.at = q.at /\ p.step < q.step))

(* A patch more or less is open; an entry goes from the start of one too   *)
(* many to the end that makes them no more than num_of_people.             *)
CountAt(acc, point, num_of_people) ==
    [cnt |-> acc.cnt + point.step,
     res |-> IF acc.cnt = num_of_people /\ point.step > 0
             THEN Append(acc.res, Patch(point.at, point.at))
             ELSE IF acc.cnt = num_of_people + 1 /\ point.step < 0
             THEN [acc.res EXCEPT ![Len(acc.res)] = update_end_time(@, point.at)]
             ELSE acc.res]

CountAlong(points, num_of_people) ==
    LET acc[n \in 0 .. Len(points)] ==
            IF n = 0 THEN [cnt |-> 0, res |-> <<>>] ELSE CountAt(acc[n - 1], points[n], num_of_people)
    IN  acc[Len(points)].res

(* The times at which more than num_of_people patches are open. *)
get_time_patch_count(ps, num_of_people) ==
    IF num_of_people < 0 THEN <<>> ELSE CountAlong(TimePoints(ps), num_of_people)
=============================================================================
