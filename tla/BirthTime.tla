------------------------------ MODULE BirthTime ------------------------------
(***************************************************************************)
(* From the date and the local time of a birth to the Julian day a chart   *)
(* is computed for: the routers of the web application, pysw and the       *)
(* calendar of the library.                                                *)
(*                                                                         *)
(* The days go by one after the other, counted from the noon at which the  *)
(* Julian day is 0; now and then somebody asks for a chart, or reads the   *)
(* clock.  What the days are called is the calendar's own rule, the length *)
(* of its months; what the code makes of them is compared with the count.  *)
(***************************************************************************)
EXTENDS SweDate

CONSTANTS
    Walked,      \* years that go by day by day; the others go by as a whole
    BirthYears,  \* walked years charts are asked for
    Hours,       \* hours of a birth
    Zones,       \* hours a time zone is ahead of UTC
    LastYear     \* bound: the last year

\* The year of the reform is no year like the others.
ASSUME BirthTimeAssumption ==
    /\ Walked \subseteq Int /\ BirthYears \subseteq Walked /\ LastYear \in Int
    /\ 1582 \in Walked
    /\ Hours \subseteq 0 .. 23 /\ Zones \subseteq -12 .. 14

VARIABLES
    calendar,    \* "julian", "gregorian", or "civil": pysw's, the one in force
    today,       \* the civil date
    number,      \* the count: the Julian day of today's noon
    chart        \* what a router has made of a birth, or NoChart
vars == <<calendar, today, number, chart>>

-----------------------------------------------------------------------------
(* The calendars.                                                          *)

Leap(y, greg) == y % 4 = 0 /\ (greg => y % 100 # 0 \/ y % 400 = 0)
Length(y, m, greg) ==
    CASE m \in {4, 6, 9, 11} -> 30
      [] m = 2 -> IF Leap(y, greg) THEN 29 ELSE 28
      [] OTHER -> 31

Reform == Date(1582, 10, 4)             \* the last day of the old calendar
Since1582 == 2299161                    \* 15 October 1582
Gregorian == calendar = "gregorian" \/ (calendar = "civil" /\ number >= Since1582)

Tomorrow(date, greg) ==
    IF date.d < Length(date.y, date.m, greg) THEN [date EXCEPT !.d = @ + 1]
    ELSE IF date.m < 12 THEN Date(date.y, date.m + 1, 1)
    ELSE Date(date.y + 1, 1, 1)
Yesterday(date, greg) ==
    IF date.d > 1 THEN [date EXCEPT !.d = @ - 1]
    ELSE IF date.m > 1 THEN Date(date.y, date.m - 1, Length(date.y, date.m - 1, greg))
    ELSE Date(date.y - 1, 12, 31)

NoChart == [router |-> "none", instant |-> 0, jd |-> 0]

\* "JD = 0.0 on 1 Jan -4712, 12:00 noon (in the Julian calendar)" (swedate.c)
Init == /\ calendar \in {"julian", "gregorian", "civil"}
        /\ today = IF calendar = "gregorian" THEN Date(-4713, 11, 24) ELSE Date(-4712, 1, 1)
        /\ number = 0
        /\ chart = NoChart

Midnight ==
    /\ chart = NoChart
    /\ today.y \in Walked
    /\ today.y <= LastYear
    /\ today' = IF calendar = "civil" /\ today = Reform THEN Date(1582, 10, 15)
                ELSE Tomorrow(today, Gregorian)
    /\ number' = number + 1
    /\ UNCHANGED <<calendar, chart>>

Year ==
    /\ chart = NoChart
    /\ today.y \notin Walked /\ today.m = 1 /\ today.d = 1
    /\ today.y <= LastYear
    /\ today' = [today EXCEPT !.y = @ + 1]
    /\ number' = number + (IF Leap(today.y, Gregorian) THEN 366 ELSE 365)
    /\ UNCHANGED <<calendar, chart>>

-----------------------------------------------------------------------------
(* A birth: today at an hour of a time zone.  Python's datetime knows the  *)
(* Gregorian calendar only, and only of these years.  A date it does not   *)
(* have is an exception, and the routers then take local time for UTC.     *)

MINYEAR == 1
MAXYEAR == 9999

\* datetime has the date and, as localize() of a zone with transitions looks
\* a day to either side, the days around it.
Localizable(date) ==
    /\ MINYEAR <= date.y /\ date.y <= MAXYEAR
    /\ date.d <= Length(date.y, date.m, TRUE)
    /\ date \notin {Date(MINYEAR, 1, 1), Date(MAXYEAR, 12, 31)}

localize(date, hour, zone) ==
    LET h == hour - zone
    IN  IF ~Localizable(date) THEN [date |-> date, hour |-> hour]
        ELSE IF h < 0   THEN [date |-> Yesterday(date, TRUE), hour |-> h + 24]
        ELSE IF h >= 24 THEN [date |-> Tomorrow(date, TRUE), hour |-> h - 24]
        ELSE [date |-> date, hour |-> h]

\* Hours since the midnight the count begins with.
Instant(jd, hour) == 24 * jd + hour

\* Mutant: the day of the local date, the hour of UTC.
to_utc_components_LocalDay(date, hour, zone) ==
    LET ut == localize(date, hour, zone) IN Instant(julday(date), ut.hour)

\* transits: date and hour of UTC.
to_utc_components(date, hour, zone) ==
    LET ut == localize(date, hour, zone) IN Instant(julday(ut.date), ut.hour)

\* horoscope, nodes, houses, positions, age points, solar returns, synastry,
\* ascendant, and the graphics of a horoscope: the hour of UTC with the date
\* that was given.  (The last three answer with an error when datetime does
\* not have the date.)
build_horoscope(date, hour, zone) ==
    LET ut == localize(date, hour, zone) IN Instant(julday(date), ut.hour)

Chart(router, hour, zone, jd) ==
    /\ chart = NoChart
    /\ calendar = "civil" /\ today.y \in BirthYears
    /\ chart' = [router |-> router, instant |-> Instant(number, hour - zone), jd |-> jd]
    /\ UNCHANGED <<calendar, today, number>>

Transit(hour, zone)   == Chart("transit", hour, zone, to_utc_components(today, hour, zone))
Horoscope(hour, zone) == Chart("horoscope", hour, zone, build_horoscope(today, hour, zone))

Answered == /\ chart # NoChart
            /\ chart' = NoChart
            /\ UNCHANGED <<calendar, today, number>>

Next == \/ Midnight \/ Year \/ Answered
        \/ \E h \in Hours, z \in Zones : Transit(h, z) \/ Horoscope(h, z)

Spec == Init /\ [][Next]_vars

-----------------------------------------------------------------------------
(* Properties.                                                             *)

\* swe_julday() counts days, in either calendar, across the years without a
\* leap day, the year 0 and, by pysw.julday(), the ten days that were left out
\* in 1582.
JuldayCounts ==
    IF calendar = "civil" THEN julday(today) = number
    ELSE swe_julday(today, Gregorian) = number

\* What is more, swe_revjul() is its inverse, and the dates
\* swe_date_conversion() accepts are those of the calendar and no others.
DaysAreCounted ==
    /\ JuldayCounts
    /\ swe_revjul(number, Gregorian) = today
    /\ Gregorian => revjul(number) = today
    /\ \A d \in 0 .. 32 :
         swe_date_conversion([today EXCEPT !.d = d], Gregorian) = "OK"
             <=> d \in 1 .. Length(today.y, today.m, Gregorian)

\* Instants of a day by its UTC clock, at its ends and at noon.  How the
\* very beginning of a leap second is read is a matter of rounding.
Clock == {0, 5, Day \div 2, Day - Second, Day - 1} \cup
         (IF number \in LeapDays THEN {Day + 1, Day + Second - 1} ELSE {})

UpToDate(day) == ~outdated(swe_deltat_ex((day - J1972) * Day), nleap_before(day))

\* Delta T is known of the day and its neighbours.
Known(day) == LET n == day - J1972 IN {n - 1, n, n + 1} \subseteq DOMAIN DeltaT

LeapSecondsAreKept ==
    number >= J1972 /\ Known(number) =>
        /\ \A t \in Clock : swe_jdet_to_utc(swe_utc_to_jd(number, t).et)
                              = [day |-> number, time |-> t]
        /\ UpToDate(number + 1) =>
             swe_utc_to_jd(number + 1, 0).et - swe_utc_to_jd(number, Day - 1).et
               = IF number \in LeapDays THEN Second + 1 ELSE 1
        /\ UpToDate(number) /\ number \notin LeapDays =>
             swe_utc_to_jd(number, Day).rc = "ERR"

ZonesAreUndone ==
    Gregorian => \A h \in Hours, z \in Zones :
        LET utc == swe_utc_time_zone(today, h, z)
        IN  /\ Instant(swe_julday(utc.date, TRUE), utc.hour) = Instant(number, h - z)
            /\ swe_utc_time_zone(utc.date, utc.hour, -z) = [date |-> today, hour |-> h]
            /\ Localizable(today) => localize(today, h, z) = utc

\* Terrestrial time tells the instants of UTC apart, a leap second from the
\* seconds around it included, and gives each of them back, also after the
\* table has gone out of date; until then a second lasts a second, and a day
\* has a 61st one in its last minute only if the table says so
\* (swe_utc_to_jd(), swe_jdet_to_utc()).  A time zone moves the date with the
\* hour, and back (swe_utc_time_zone()), as Python's datetime, which the
\* routers use, does it in the years that it has.
UtcIsOneToOne == LeapSecondsAreKept /\ ZonesAreUndone

\* From the reform on and in the years datetime has, a chart of transits is
\* computed for the instant of the birth, whatever day the birth has in UTC.
TransitKeepsInstant ==
    /\ chart.router = "transit" /\ Localizable(today)
    /\ chart.instant >= Instant(Since1582, 0)
    => chart.jd = chart.instant

\* "Wenn angegeben wird lokale Zeit nach UTC konvertiert"
\* (schemas/age_points.py:20): so is every chart.
ChartKeepsInstant ==
    /\ chart # NoChart /\ Localizable(today)
    /\ chart.instant >= Instant(Since1582, 0)
    => chart.jd = chart.instant
=============================================================================
