---------------------------- MODULE OppositionWindow ----------------------------
(***************************************************************************)
(* The last day to oppose an application (packages/opposition-rules), as   *)
(* the registers' rules give it, and what the worker and the deadlines     *)
(* page make of it from day to day.                                        *)
(*                                                                         *)
(* The code computes with JavaScript dates, which are numbers of days      *)
(* here; a date as it is written is a record of year, month and day.  The  *)
(* state walks the calendar on its own, one leaf after the other, from the *)
(* day a candidate's window opens, and counts the days and the ends of     *)
(* months gone by.                                                         *)
(***************************************************************************)
EXTENDS Integers

CONSTANTS
    Openings,          \* bound: the days on which a window opens
    MomentsADay,       \* moments of a day, midnight the first
    DaysWalked         \* bound: how far the calendar is walked

VARIABLES
    candidate,   \* its filing and publication date, and its register's rule
    leaf,        \* the day it is, and the moment of that day
    gone         \* days and months gone by since the window opened

windowVars == <<candidate, leaf, gone>>

Date(y, m, d) == [year |-> y, month |-> m, day |-> d]
Unreadable == Date(0, 0, 0)
RangeError == [startDate |-> Unreadable, deadlineDate |-> Unreadable]   \* thrown

Before(d, e) ==
    \/ d.year < e.year
    \/ d.year = e.year /\ d.month < e.month
    \/ d.year = e.year /\ d.month = e.month /\ d.day < e.day

(***************************************************************************)
(* JavaScript's dates.                                                     *)
(***************************************************************************)
LeapYears(y) == y \div 4 - y \div 100 + y \div 400
YearStart(y) == 365 * y + LeapYears(y - 1)
DaysBefore == <<0, 31, 59, 90, 120, 151, 181, 212, 243, 273, 304, 334>>
MonthStart(y, m) ==
    YearStart(y) + DaysBefore[m + 1] + (IF m > 1 THEN LeapYears(y) - LeapYears(y - 1) ELSE 0)

\* Months count from 0; a month or a day out of range carries over.
UTC(y, m, d) == MonthStart(y + m \div 12, m % 12) + d - 1

Years == UNION {o.year - 1 .. o.year + 2 : o \in Openings}
UTCFullYear(t) == CHOOSE y \in Years : YearStart(y) <= t /\ t < YearStart(y + 1)
UTCMonth(t) ==
    LET year == UTCFullYear(t)
    IN CHOOSE m \in 0..11 : UTC(year, m, 1) <= t /\ t < UTC(year, m + 1, 1)
UTCDate(t) == t - UTC(UTCFullYear(t), UTCMonth(t), 1) + 1

(***************************************************************************)
(* calculate-opposition-deadline.ts                                        *)
(***************************************************************************)
ParseIsoDate(iso) == UTC(iso.year, iso.month - 1, iso.day)
FormatIsoDate(t) == Date(UTCFullYear(t), UTCMonth(t) + 1, UTCDate(t))

AddCalendarDays(t, n) == UTC(UTCFullYear(t), UTCMonth(t), UTCDate(t) + n)

\* Mutant: a day the month does not have carries over.
AddMonthsRolling(t, n) == UTC(UTCFullYear(t), UTCMonth(t) + n, UTCDate(t))

AddCalendarMonths(t, n) ==
    LET target == UTCMonth(t) + n
        year   == UTCFullYear(t) + target \div 12
        month  == target % 12
        last   == UTCDate(UTC(year, month + 1, 0))
        day    == UTCDate(t)
    IN UTC(year, month, IF day <= last THEN day ELSE last)

CalculateOppositionDeadline(c) ==
    LET written == IF c.rule.startsFrom = "publication_date" THEN c.published ELSE c.filed
        start   == ParseIsoDate(written)
        due     == IF c.rule.kind = "calendar_days" THEN AddCalendarDays(start, c.rule.n)
                   ELSE AddCalendarMonths(start, c.rule.n)
    IN IF written = Unreadable THEN RangeError
       ELSE [startDate |-> FormatIsoDate(start), deadlineDate |-> FormatIsoDate(due)]

(***************************************************************************)
(* The registers' rules.                                                   *)
(***************************************************************************)
RuleSet(kind, n) == [kind |-> kind, n |-> n, startsFrom |-> "publication_date"]
BoipOppositionRuleSet == RuleSet("months", 2)
EuipoOppositionRuleSet == RuleSet("months", 3)
UsptoOppositionRuleSet == RuleSet("calendar_days", 30)
WipoOppositionRuleSet == RuleSet("months", 3)
\* Every other register, as none of them is given a number of months.
ConfiguredOppositionRuleSet == RuleSet("months", 2)

RuleSets ==
    {BoipOppositionRuleSet, EuipoOppositionRuleSet, UsptoOppositionRuleSet,
     WipoOppositionRuleSet, ConfiguredOppositionRuleSet}

(***************************************************************************)
(* The window as it is read later.                                         *)
(***************************************************************************)
Moment(iso, tick) == MomentsADay * ParseIsoDate(iso) + tick
Now == Moment(leaf.date, leaf.tick)

\* Rounded up: -(a \div b) is the ceiling of -a / b.
DaysBetween(from, to) == -((from - to) \div MomentsADay)

DeriveEffectiveProceduralStatus(reported, w) ==
    IF reported = "published" /\ Moment(w.startDate, 0) <= Now /\ Now <= Moment(w.deadlineDate, 0)
    THEN "opposition_period" ELSE reported

\* What the page of deadlines says is left; nothing, once it is over.
DaysRemaining(w) == DaysBetween(Now, Moment(w.deadlineDate, 0))
ShownAsOpen(w) == DaysRemaining(w) >= 0

(***************************************************************************)
(* The calendar.                                                           *)
(***************************************************************************)
LengthOfMonth(y, m) ==
    CASE m = 2 -> IF (y % 4 = 0 /\ y % 100 # 0) \/ y % 400 = 0 THEN 29 ELSE 28
      [] m \in {4, 6, 9, 11} -> 30
      [] OTHER -> 31

EndsMonth(d) == d.day = LengthOfMonth(d.year, d.month)
Tomorrow(d) ==
    CASE ~EndsMonth(d)               -> Date(d.year, d.month, d.day + 1)
      [] EndsMonth(d) /\ d.month < 12 -> Date(d.year, d.month + 1, 1)
      [] OTHER                       -> Date(d.year + 1, 1, 1)

IsDate(d) ==
    /\ d \in [year : Int, month : 1..12, day : 1..31]
    /\ d.day <= LengthOfMonth(d.year, d.month)

\* A register publishes on days there are.  The calendar is walked for less than a year, as the
\* years that are looked for (Years) reach no further than that.
ASSUME WindowAssumption ==
    /\ \A d \in Openings : IsDate(d)
    /\ MomentsADay \in Nat \ {0} /\ DaysWalked \in 0..364

WindowInit ==
    \E d \in Openings, rule \in RuleSets :
        /\ candidate = [published |-> d, filed |-> Unreadable, rule |-> rule]
        /\ leaf = [date |-> d, tick |-> 0]
        /\ gone = [days |-> 0, months |-> 0]

HoursPass ==
    /\ leaf.tick < MomentsADay - 1
    /\ leaf' = [leaf EXCEPT !.tick = @ + 1]
    /\ UNCHANGED <<candidate, gone>>

DayPasses ==
    /\ leaf.tick = MomentsADay - 1 /\ gone.days < DaysWalked
    /\ leaf' = [date |-> Tomorrow(leaf.date), tick |-> 0]
    /\ gone' = [days   |-> gone.days + 1,
                months |-> gone.months + (IF EndsMonth(leaf.date) THEN 1 ELSE 0)]
    /\ UNCHANGED candidate

WindowNext == HoursPass \/ DayPasses

WindowSpec == WindowInit /\ [][WindowNext]_windowVars

(***************************************************************************)
(* Properties                                                              *)
(***************************************************************************)
Window == CalculateOppositionDeadline(candidate)
Rule == candidate.rule
OpenedOn == candidate.published.day

\* By the leaves of the calendar, today is the last day to oppose: the days have gone by, or
\* the months have and it is the same day of the month, or the last one of a shorter month.
LastDay ==
    IF Rule.kind = "calendar_days" THEN gone.days = Rule.n
    ELSE /\ gone.months = Rule.n
         /\ \/ leaf.date.day = OpenedOn
            \/ leaf.date.day < OpenedOn /\ EndsMonth(leaf.date)

\* It was on an earlier day.
TooLate ==
    IF Rule.kind = "calendar_days" THEN gone.days > Rule.n
    ELSE \/ gone.months > Rule.n
         \/ gone.months = Rule.n /\ leaf.date.day > OpenedOn

\* The deadline computed with JavaScript dates (calculateOppositionDeadline) is the last day
\* to oppose by the calendar, over ends of months and years, in leap years and others, and
\* without the date of filing, which no register's rule starts from.
DeadlineLands == Window # RangeError /\ (leaf.date = Window.deadlineDate <=> LastDay)

\* An application that is published a day later never has to be opposed earlier, although
\* several days at the end of a month share one deadline (addCalendarMonths clamps).
LaterIsNeverEarlier ==
    LET On(d) == CalculateOppositionDeadline([candidate EXCEPT !.published = d])
    IN ~Before(On(Tomorrow(leaf.date)).deadlineDate, On(leaf.date).deadlineDate)

\* The page of deadlines counts a window down to 0 on its last day, drops it from the next
\* midnight on and not before (daysBetween rounds up), and the worker never says of an
\* application that it can be opposed when that day is over.
CountsDownToLastDay ==
    /\ ShownAsOpen(Window) <=> ~TooLate
    /\ DaysRemaining(Window) = 0 <=> LastDay
    /\ DeriveEffectiveProceduralStatus("published", Window) = "opposition_period" => ~TooLate

WindowSound == DeadlineLands /\ LaterIsNeverEarlier /\ CountsDownToLastDay

\* The types of the state.
WindowTypeOK ==
    /\ candidate.published \in Openings /\ candidate.rule \in RuleSets
    /\ leaf.tick \in 0..MomentsADay - 1
    /\ IsDate(leaf.date)
    /\ gone.days \in 0..DaysWalked /\ gone.months \in 0..gone.days
=================================================================================
