------------------------------ MODULE Schedule ------------------------------
(***************************************************************************)
(* The calendar of a scheduled workflow (Schedule.cpp): what a description *)
(* of seconds, minutes, hours, days, months and days of the week means,    *)
(* and the search for the next time it allows.  The lengths of the levels  *)
(* and of the months are parameters: the search does not depend on them.   *)
(* Daylight saving time is left out: every hour has its minutes.           *)
(*                                                                         *)
(* The state machine is the use WorkflowScheduler makes of the calendar:   *)
(* an alarm is set, rings, and is set again when the instance it started   *)
(* has ended, at any time.                                                 *)
(***************************************************************************)
EXTENDS Integers, FiniteSetsExt, Sequences

CONSTANTS
    Length,         \* values of each level, SEC to WDAY
    MonthDays,      \* days of the months of an ordinary year
    LeapMonth,      \* the month that has a day more in a leap year
    LeapEvery,      \* one year in so many is a leap year
    Years,          \* bound: the years of the C library
    Horizon,        \* bound: the last second of the clock
    Descriptions    \* schedule descriptions: a set of numbers per level

SEC == 0
MIN == 1
HOUR == 2
DAY == 3
MONTH == 4
WDAY == 5
ScheduleLevels == SEC..WDAY
TimeLevels == SEC..MONTH

ASSUME ScheduleAssumption ==
    /\ DOMAIN Length = ScheduleLevels /\ \A l \in ScheduleLevels : Length[l] \in Nat \ {0}
    /\ DOMAIN MonthDays = 0..Length[MONTH] - 1
    /\ \A m \in DOMAIN MonthDays : MonthDays[m] \in 1..Length[DAY]
    /\ LeapMonth \in DOMAIN MonthDays /\ MonthDays[LeapMonth] < Length[DAY]
    /\ LeapEvery \in Nat \ {0} /\ Years \in Nat \ {0} /\ Horizon \in Nat

VARIABLES
    schedule,       \* the values allowed at each level
    now,            \* time()
    next,           \* the time of the alarm
    executing       \* the alarm has rung and the instance has not ended

vars == <<schedule, now, next, executing>>

-----------------------------------------------------------------------------
(* localtime_r and mktime. *)

DaySeconds == Length[SEC] * Length[MIN] * Length[HOUR]
IsLeap(y) == y % LeapEvery = LeapEvery - 1
DaysOf(y, m) == MonthDays[m] + (IF m = LeapMonth /\ IsLeap(y) THEN 1 ELSE 0)

(* The first day of each month, counted from day 0; a date found in the     *)
(* last year may be in the next one.                                        *)
MonthStart ==
    LET start[k \in 0..(Years + 1) * Length[MONTH]] ==
            IF k = 0 THEN 0
            ELSE start[k - 1] + DaysOf((k - 1) \div Length[MONTH], (k - 1) % Length[MONTH])
    IN  start

(* mktime carries a day that the month does not have into the next one. *)
mktime(year, at) ==
    (MonthStart[year * Length[MONTH] + at[MONTH]] + at[DAY]) * DaySeconds
        + (at[HOUR] * Length[MIN] + at[MIN]) * Length[SEC] + at[SEC]

(* The seconds of the calendar. *)
Seconds == 0..MonthStart[Years * Length[MONTH]] * DaySeconds - 1

(* struct tm of each second; the day of the month counts from 0 here. *)
localtime ==
    [t \in Seconds |->
        LET day == t \div DaySeconds
            k == CHOOSE k \in 0..Years * Length[MONTH] - 1 :
                     MonthStart[k] <= day /\ day < MonthStart[k + 1]
        IN  [year |-> k \div Length[MONTH],
             at |-> [l \in TimeLevels |->
                        CASE l = MONTH -> k % Length[MONTH]
                          [] l = DAY -> day - MonthStart[k]
                          [] l = HOUR -> (t \div (Length[SEC] * Length[MIN])) % Length[HOUR]
                          [] l = MIN -> (t \div Length[SEC]) % Length[MIN]
                          [] l = SEC -> t % Length[SEC]],
             wday |-> day % Length[WDAY]]]

-----------------------------------------------------------------------------
(* The constructor. *)

(* The numbers of a level, all of them if there are none. *)
Parsed(d) == [l \in ScheduleLevels |-> IF d[l] = {} THEN 0..Length[l] - 1 ELSE d[l]]

(* It throws on a number out of range, and if the first day asked for is   *)
(* in none of the months asked for, even in a leap year.                   *)
Accepts(d) ==
    /\ \A l \in ScheduleLevels : d[l] \subseteq 0..Length[l] - 1
    /\ \E m \in Parsed(d)[MONTH] : Min(Parsed(d)[DAY]) < DaysOf(LeapEvery - 1, m)

(* The times a schedule stands for. *)
Matches(s, t) ==
    /\ \A l \in TimeLevels : localtime[t].at[l] \in s[l]
    /\ localtime[t].wday \in s[WDAY]

-----------------------------------------------------------------------------
(* The search. *)

\* Mutant: every level is searched from `now' on.
FirstPossibleFromNow(s, at) ==
    LET first[l \in TimeLevels] ==
            LET carry == IF l = SEC THEN 0 ELSE first[l - 1].carry
                i == Min({k \in 0..Length[l] - 1 : (at[l] + carry + k) % Length[l] \in s[l]})
                j == (at[l] + carry + i) % Length[l]
            IN  [value |-> j, carry |-> IF j < at[l] + carry THEN 1 ELSE 0]
    IN  first

(* The loop over the levels: the first value allowed at each one, from     *)
(* `now' on if the levels above allow it, else from the start, and whether *)
(* it is reached in the next round of the level only.                      *)
FirstPossible(s, at) ==
    LET first[l \in TimeLevels] ==
            LET carry == IF l = SEC THEN 0 ELSE first[l - 1].carry
                next_levels_valid == \A k \in l + 1..MONTH : at[k] \in s[k]
                i == Min({k \in 0..Length[l] - 1 : (at[l] + carry + k) % Length[l] \in s[l]})
                j == IF next_levels_valid THEN (at[l] + carry + i) % Length[l] ELSE Min(s[l])
            IN  [value |-> j,
                 carry |-> IF next_levels_valid /\ j < at[l] + carry THEN 1 ELSE 0]
    IN  first

\* Mutant: the first date found is taken, whether it exists or not.
get_next_timeUnchecked(s, from) ==
    LET found == FirstPossible(s, localtime[from].at)
    IN  mktime(localtime[from].year + found[MONTH].carry,
               [l \in TimeLevels |-> found[l].value])

(* One call of get_next_time: the time it returns, or the time from which  *)
(* it calls itself again.  A date that does not exist is searched on from  *)
(* where mktime puts it; a wrong day of the week from the next day, of     *)
(* which the hours and minutes are reset.                                  *)
Attempt(s, from) ==
    LET tm == localtime[from]
        found == FirstPossible(s, tm.at)
        at == [l \in TimeLevels |-> found[l].value]
        first == mktime(tm.year + found[MONTH].carry, at)
        first_t == localtime[first]
    IN  IF first \notin Seconds
        THEN [again |-> FALSE, time |-> first]
        ELSE IF first_t.at[DAY] # at[DAY] \/ first_t.at[MONTH] # at[MONTH]
        THEN [again |-> TRUE, time |-> first]
        ELSE IF first_t.wday \notin s[WDAY]
        THEN [again |-> TRUE,
              time |-> mktime(first_t.year, [first_t.at EXCEPT ![MIN] = 0, ![HOUR] = 0,
                                                               ![DAY] = @ + 1])]
        ELSE [again |-> FALSE, time |-> first]

(* The calls one after the other, up to the end of the calendar (a bound). *)
get_next_time(s, from) ==
    LET search[t \in Seconds] ==
            LET Go(call) ==
                    IF call.again /\ call.time \in Seconds THEN search[call.time] ELSE call.time
            IN  Go(Attempt(s, t))
    IN  search[from]

(* The next second at the earliest; the guard against an alarm in the past *)
(* is never needed.                                                        *)
GetNextTime(s, t) ==
    LET next_time == get_next_time(s, t + 1)
    IN  IF next_time <= t
        THEN t + DaySeconds * (MonthStart[Length[MONTH]]) ELSE next_time

-----------------------------------------------------------------------------
Init ==
    /\ \E d \in Descriptions : Accepts(d) /\ schedule = Parsed(d)
    /\ now = 0
    /\ next = GetNextTime(schedule, now)
    /\ executing = FALSE

Tick ==
    /\ now < Horizon
    /\ executing \/ now < next
    /\ now' = now + 1
    /\ UNCHANGED <<schedule, next, executing>>

Ring ==
    /\ ~ executing /\ now = next
    /\ executing' = TRUE
    /\ UNCHANGED <<schedule, now, next>>

(* The instance ends, or its schedule is loaded again meanwhile. *)
SetAgain ==
    /\ executing
    /\ executing' = FALSE
    /\ next' = GetNextTime(schedule, now)
    /\ UNCHANGED <<schedule, now>>

Next == Tick \/ Ring \/ SetAgain

Spec == Init /\ [][Next]_vars

-----------------------------------------------------------------------------
(* Properties. *)

TypeOK ==
    /\ schedule \in [ScheduleLevels -> SUBSET Nat]
    /\ now \in 0..Horizon
    /\ next \in Seconds
    /\ executing \in BOOLEAN

(* The alarm is set to a time of the schedule, and never in the past,      *)
(* whatever levels carry over, with days that not every month has and any  *)
(* days of the week; in particular the search ends for every description   *)
(* that is accepted (Schedule.cpp:79-83, 122-221).                         *)
AlarmIsScheduled == ~ executing => next >= now /\ Matches(schedule, next)

(* Where the search may step over a scheduled time: the retry after a      *)
(* wrong day of the week keeps the second that was found; a day two or     *)
(* more past the end of its month is carried past the first days of the    *)
(* next.                                                                   *)
KeepsSeconds(s) ==
    /\ Cardinality(s[SEC]) > 1
    /\ 0 \in s[MIN] /\ 0 \in s[HOUR]
    /\ s[WDAY] # 0..Length[WDAY] - 1
OverflowsFar(s) ==
    \E m \in s[MONTH] : \E d \in s[DAY] :
        /\ d > MonthDays[m]
        /\ \E e \in s[DAY] : e < d - MonthDays[m]

(* No scheduled time passes while the alarm waits for a later one, except  *)
(* for the descriptions above (Schedule.cpp:134-221).                      *)
NothingSkipped ==
    (~ executing /\ now + 1 < next /\ Matches(schedule, now + 1))
        => KeepsSeconds(schedule) \/ OverflowsFar(schedule)
=============================================================================
