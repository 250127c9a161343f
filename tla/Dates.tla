------------------------------- MODULE Dates --------------------------------
(* The two places where a date is worked out by hand: iso_date of            *)
(* lacre/patterns.py, which keeps the arrival date of a message, and         *)
(* unix_time of the contracts, which every deadline is compared with.        *)

EXTENDS Integers, Sequences

Leap(y) == y % 4 = 0 /\ (y % 100 # 0 \/ y % 400 = 0)

DaysIn(y, m) == IF m = 2 THEN 28 + (IF Leap(y) THEN 1 ELSE 0) ELSE 30 + ((m + (m \div 8)) % 2)

NO_DATE == <<>>
iso_date(y, m, d) ==
    IF m \in 1..12 /\ d > 0 /\ d <= DaysIn(y, m) THEN <<y, m, d>> ELSE NO_DATE

\* An offset from UTC as it is written: its sign, hours and minutes.
UTC == [sign |-> 1, hours |-> 0, minutes |-> 0]

\* Mutated form of FebruaryLast: the year is counted from January.
FebruaryLast_never(y, m) == y

\* March is the first month, so that the leap day is the last of its year.
FebruaryLast(y, m) == IF m < 3 THEN y - 1 ELSE y

days_since_1970(year, m, d) ==
    LET y == FebruaryLast(year, m)
    IN  365 * y + (y \div 4) - (y \div 100) + (y \div 400)
        + ((153 * ((m + 9) % 12) + 2) \div 5) + d - 719469

unix_time(year, m, d, hour, minute, second, zone) ==
    LET offset == zone.sign * (zone.hours * 60 + zone.minutes) * 60
    IN  days_since_1970(year, m, d) * 86400 + hour * 3600 + minute * 60 + second - offset
=============================================================================
