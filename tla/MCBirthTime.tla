----------------------------- MODULE MCBirthTime -----------------------------
(* An instance of BirthTime: every year from the beginning of the Julian    *)
(* day count to the first that datetime does not have, day by day around the *)
(* turns of the calendars and at both ends of datetime's years.             *)
EXTENDS BirthTime

MCBirthYears == {1, 1500, 1582, 1600, 1900, 1999, 9999, 10000}
Modern == {1999}
MCWalked == {-4713, -4712, -4501, -4500, -4401, -4400, -101, -100, -1, 0, 4, 100, 399, 400,
             1000, 1700, 1800, 2000, 2100, 2400} \cup MCBirthYears \cup (1972 .. 1976)
MCZones == {-11, 0, 1, 13}

\* A table with the leap seconds up to 1974, and the Delta T of those years,
\* 42.2 seconds at the beginning of 1972 and 1.07 more each year: in September
\* 1976 the table is out of date.
MCLeapDays == {swe_julday(Date(y, 12, 31), TRUE) : y \in 1972 .. 1974}
                \cup {swe_julday(Date(1972, 6, 30), TRUE)}
MCDeltaT == [n \in -1 .. 1802 |-> 422 + (107 * n) \div 3653]
=============================================================================
