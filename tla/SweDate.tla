------------------------------- MODULE SweDate -------------------------------
(***************************************************************************)
(* The calendar of the Swiss Ephemeris library (src/ext/ext64/swedate.c),  *)
(* and the choice of calendar in pysw.                                     *)
(*                                                                         *)
(* A Julian day is kept as two numbers, the Julian day of the noon of its  *)
(* civil day, which is whole, and the time since midnight; so are the      *)
(* quotients of the C code, whose floor() never meets a whole number       *)
(* inside a day.  Decimal factors are written as fractions.                *)
(***************************************************************************)
EXTENDS Integers, FiniteSets, FiniteSetsExt

CONSTANTS
    LeapDays,   \* days (Julian day numbers) that end in a leap second
    DeltaT      \* tenths of a second, by the number of days since 1972

Abs(n) == IF n < 0 THEN -n ELSE n
Date(y, m, d) == [y |-> y, m |-> m, d |-> d]

\* Mutant: no correction for centuries before the year 0.
swe_julday_NoBC(date, greg) ==
    LET u  == IF date.m < 3 THEN date.y - 1 ELSE date.y
        u1 == IF date.m < 3 THEN date.m + 13 ELSE date.m + 1
        u2 == Abs(u) \div 100 - Abs(u) \div 400
        jd == ((u + 4712) * 1461) \div 4 + (306 * u1) \div 10 + date.d - 63
    IN  IF greg THEN jd - (IF u < 0 THEN -u2 ELSE u2) + 2 ELSE jd

swe_julday(date, greg) ==
    LET u  == IF date.m < 3 THEN date.y - 1 ELSE date.y
        u1 == IF date.m < 3 THEN date.m + 13 ELSE date.m + 1
        u2 == Abs(u) \div 100 - Abs(u) \div 400
        jd == ((u + 4712) * 1461) \div 4 + (306 * u1) \div 10 + date.d - 63
        bc == IF u < 0 /\ u % 100 = 0 /\ u % 400 # 0 THEN 1 ELSE 0
    IN  IF greg THEN jd - (IF u < 0 THEN -u2 ELSE u2) + 2 - bc ELSE jd

\* Centuries without a leap day that have gone by in the Gregorian calendar.
centuries(u) == u \div 36525 - u \div 146100 - 38

swe_revjul(jd, greg) ==
    LET u0 == jd + 32082
        u1 == u0 + centuries(u0) + (IF jd >= 1830692 THEN 1 ELSE 0)
        u2 == 123 + (IF greg THEN u0 + centuries(u1) ELSE u0)
        u3 == (10 * (10 * u2 - 1222)) \div 36525
        r  == u2 - (1461 * u3) \div 4
        u4 == (10000 * r) \div 306001
    IN  Date(u3 + (u4 - 2) \div 12 - 4800,
             IF u4 - 1 > 12 THEN u4 - 13 ELSE u4 - 1,
             r - (306001 * u4) \div 10000)

\* A date is legal if it is the date of its own Julian day.
swe_date_conversion(date, greg) ==
    IF swe_revjul(swe_julday(date, greg), greg) = date THEN "OK" ELSE "ERR"

\* Local time (in hours) to UTC for +zone, UTC to local time for -zone.
swe_utc_time_zone(date, hour, zone) ==
    LET h == hour - zone
        n == IF h < 0 THEN -1 ELSE IF h >= 24 THEN 1 ELSE 0
    IN  [date |-> swe_revjul(swe_julday(date, TRUE) + n, TRUE), hour |-> h - 24 * n]

\* pysw.julday(): the calendar that was in force at the date.
julday(date) ==
    swe_julday(date, date.y * 10000 + date.m * 100 + date.d >= 15821015)
revjul(jd) == swe_revjul(jd, TRUE)

-----------------------------------------------------------------------------
(* Coordinated universal time.  Time is in tenths of a second; terrestrial *)
(* time and UT1 count from the beginning of 1972, in UTC from midnight.    *)

Second == 10
Day    == 86400 * Second
J1972  == 2441318                  \* the first day of 1972
Init10 == 10 * Second              \* TAI - UTC at that time
TtTai  == 322                      \* 32.184 seconds
ET1972 == Init10 + TtTai

swe_deltat_ex(t) == DeltaT[t \div Day]

\* Leap seconds since 1972 before a day: those of the days before it.
nleap_before(day) == Second * Cardinality({l \in LeapDays : l < day})

\* The leap seconds the table has do not explain Delta T any more: it is not
\* up to date, and the time is UT1.
outdated(delta, nleap) == delta - (nleap + Init10) - TtTai >= Second

\* The tables: leap_seconds[] has room for 100 days, none before 1972, and
\* no two within three days; each comes before UT1 has drifted a second away;
\* Delta T is less than half a day, and in the years it is known of, from 1972
\* on, it grows, by no more than a tenth of a second a day (dt[], swephlib.c).
ASSUME TablesAssumption ==
    /\ LeapDays \subseteq Int /\ IsFiniteSet(LeapDays) /\ Cardinality(LeapDays) <= 100
    /\ \A l \in LeapDays :
         /\ l >= J1972 /\ l + 1 \notin LeapDays /\ l + 2 \notin LeapDays
         /\ {l - J1972, (l + 1) - J1972} \subseteq DOMAIN DeltaT
         /\ ~outdated(DeltaT[l - J1972], nleap_before(l))
    /\ DOMAIN DeltaT \subseteq Int
    /\ \A m, n \in DOMAIN DeltaT :
         /\ DeltaT[n] \in 0 .. Day \div 2
         /\ m <= n => DeltaT[n] - DeltaT[m] \in 0 .. n - m

Refused == [rc |-> "ERR", et |-> 0, ut |-> 0]
AsUT1(t) == [rc |-> "OK", et |-> t + swe_deltat_ex(t), ut |-> t]

AsUTC(t, nleap) ==
    LET et  == t + nleap + ET1972
        ut1 == et - swe_deltat_ex(et - swe_deltat_ex(et))
    IN  [rc |-> "OK", et |-> et, ut |-> et - swe_deltat_ex(ut1)]

\* Mutant: a day has its leap second from its beginning on.
swe_utc_to_jd_TooEarly(day, time) ==
    LET t    == (day - J1972) * Day + time
        leap == time >= Day
    IN  IF time >= Day + Second \/ (leap /\ day < J1972) THEN Refused
        ELSE IF day < J1972 \/ outdated(swe_deltat_ex((day - J1972) * Day), nleap_before(day))
        THEN AsUT1(t)
        ELSE IF leap /\ day \notin LeapDays THEN Refused
        ELSE AsUTC(t, nleap_before(day + 1))

\* Before 1972 UTC is taken for UT1.  The 61st second of the last minute
\* is for days of the table.
swe_utc_to_jd(day, time) ==
    LET t    == (day - J1972) * Day + time
        leap == time >= Day
    IN  IF time >= Day + Second \/ (leap /\ day < J1972) THEN Refused
        ELSE IF day < J1972 \/ outdated(swe_deltat_ex((day - J1972) * Day), nleap_before(day))
        THEN AsUT1(t)
        ELSE IF leap /\ day \notin LeapDays THEN Refused
        ELSE AsUTC(t, nleap_before(day))

clock(t) == [day |-> t \div Day + J1972, time |-> t % Day]

\* The table is searched with the day before, lest UT1 be a day ahead of
\* UTC; then one more leap second may be due, or be passing right now.
swe_jdet_to_utc(et) ==
    LET d0    == swe_deltat_ex(et)
        ut    == et - swe_deltat_ex(et - swe_deltat_ex(et - d0))
        n0    == nleap_before(clock(ut).day - 1)
        due   == {l \in LeapDays : l >= clock(ut).day - 1}
        d     == et - swe_utc_to_jd(Min(due) + 1, 0).et
        nleap == IF due # {} /\ d >= 0 THEN n0 + Second ELSE n0
        s60   == IF due # {} /\ d < 0 /\ d > -Second THEN Second ELSE 0
        utc   == clock(et - ET1972 - nleap - s60)
        late  == swe_deltat_ex(et - d0)
    IN  IF et < ET1972 THEN clock(ut)
        ELSE IF outdated(late, nleap) THEN clock(et - late)
        ELSE [utc EXCEPT !.time = @ + s60]
=============================================================================
