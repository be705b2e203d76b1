----------------------------- MODULE MCSchedule -----------------------------
(***************************************************************************)
(* Schedule for TLC: a calendar with two seconds, minutes and hours, two   *)
(* months of 4 and 2 days, 3 in every second year, and a week of 2 days.   *)
(***************************************************************************)
EXTENDS Schedule

SmallLength == [l \in 0..5 |-> <<2, 2, 2, 4, 2, 2>>[l + 1]]
SmallMonthDays == [m \in 0..1 |-> <<4, 2>>[m + 1]]

\* Every description; minutes and hours are free or not restricted at the
\* same time.  The number 4 is out of range for every level.
SmallDescriptions ==
    {[l \in 0..5 |-> <<sec, min, hour, day, month, wday>>[l + 1]] :
        sec \in SUBSET {0, 1}, min \in {{}, {0}, {1}}, hour \in {{}, {0}, {1}},
        day \in (SUBSET (0..3)) \cup {{0, 4}}, month \in {{}, {0}, {1}}, wday \in {{}, {0}, {1}}}
=============================================================================
