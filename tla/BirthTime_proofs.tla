-------------------------- MODULE BirthTime_proofs --------------------------
(***************************************************************************)
(* For every year, and not only for those the runs walk through: Julian    *)
(* days count the days of either calendar and of the civil one, the way    *)
(* back names them, and the routers that keep the UTC date compute a chart *)
(* for the instant of the birth, at any hour of any time zone.             *)
(***************************************************************************)
EXTENDS BirthTime, FiniteSetTheorems, WellFoundedInduction, TLAPS

Months == 1 .. 12
Days   == 1 .. 31

-----------------------------------------------------------------------------
(* The arithmetic of swe_julday().                                         *)

First(y, m, g) == swe_julday(Date(y, m, 1), g)

\* The day of the month is added.
LEMMA SameMonth ==
    ASSUME NEW y \in Int, NEW m \in Months, NEW d \in Int, NEW g \in BOOLEAN
    PROVE  /\ swe_julday(Date(y, m, d), g) = First(y, m, g) + d - 1
           /\ First(y, m, g) \in Int
BY DEF First, swe_julday, Date, Abs, Months

\* The lengths of the months.
LEMMA Lengths ==
    ASSUME NEW y \in Int, NEW g \in BOOLEAN
    PROVE  /\ \A m \in {1, 3, 5, 7, 8, 10, 12} : Length(y, m, g) = 31
           /\ \A m \in {4, 6, 9, 11} : Length(y, m, g) = 30
           /\ Length(y, 2, g) = IF Leap(y, g) THEN 29 ELSE 28
BY DEF Length

\* Months after February begin so many days after the beginning of the year,
\* which is that of March, since the code counts the years from March.
LEMMA FromMarch ==
    ASSUME NEW y \in Int, NEW g \in BOOLEAN
    PROVE  \E s \in Int : \A m \in 3 .. 12 : First(y, m, g) = s + (306 * (m + 1)) \div 10
<1> DEFINE u2 == Abs(y) \div 100 - Abs(y) \div 400
           bc == IF y < 0 /\ y % 100 = 0 /\ y % 400 # 0 THEN 1 ELSE 0
           j  == ((y + 4712) * 1461) \div 4 - 62
           s  == IF g THEN j - (IF y < 0 THEN -u2 ELSE u2) + 2 - bc ELSE j
<1>1. s \in Int
    <2>1. u2 \in Int
        BY DEF Abs
    <2>2. j \in Int /\ bc \in Int
        OBVIOUS
    <2> HIDE DEF u2, j, bc
    <2> QED
        BY <2>1, <2>2
<1>2. \A m \in 3 .. 12 : First(y, m, g) = s + (306 * (m + 1)) \div 10
    <2>1. CASE g
        BY <2>1 DEF First, swe_julday, Date, Abs
    <2>2. CASE ~g
        BY <2>2 DEF First, swe_julday, Date
    <2> QED
        BY <2>1, <2>2
<1> HIDE DEF s
<1> QED
    BY <1>1, <1>2

LEMMA Spring ==
    ASSUME NEW y \in Int, NEW g \in BOOLEAN
    PROVE  /\ First(y, 2, g) = First(y, 1, g) + 31
           /\ First(y, 3, g) = First(y, 2, g) + (IF Leap(y, g) THEN 29 ELSE 28)
           /\ First(y + 1, 1, g) = First(y, 12, g) + 31
<1>1. CASE ~g
    BY <1>1 DEF First, swe_julday, Date, Leap
<1>2. CASE g
    <2>1. First(y, 2, TRUE) = First(y, 1, TRUE) + 31
        BY DEF First, swe_julday, Date, Abs
    <2>2. First(y, 3, TRUE) = First(y, 2, TRUE) + (IF Leap(y, TRUE) THEN 29 ELSE 28)
        BY SMTT(60) DEF First, swe_julday, Date, Abs, Leap
    <2>3. First(y + 1, 1, TRUE) = First(y, 12, TRUE) + 31
        BY DEF First, swe_julday, Date, Abs
    <2> QED
        BY <1>2, <2>1, <2>2, <2>3
<1> QED
    BY <1>1, <1>2

\* A month begins when the month before it has ended, and a year likewise.
LEMMA MonthByMonth ==
    ASSUME NEW y \in Int, NEW g \in BOOLEAN
    PROVE  /\ First(y, 2, g) = First(y, 1, g) + Length(y, 1, g)
           /\ First(y, 3, g) = First(y, 2, g) + Length(y, 2, g)
           /\ First(y, 4, g) = First(y, 3, g) + Length(y, 3, g)
           /\ First(y, 5, g) = First(y, 4, g) + Length(y, 4, g)
           /\ First(y, 6, g) = First(y, 5, g) + Length(y, 5, g)
           /\ First(y, 7, g) = First(y, 6, g) + Length(y, 6, g)
           /\ First(y, 8, g) = First(y, 7, g) + Length(y, 7, g)
           /\ First(y, 9, g) = First(y, 8, g) + Length(y, 8, g)
           /\ First(y, 10, g) = First(y, 9, g) + Length(y, 9, g)
           /\ First(y, 11, g) = First(y, 10, g) + Length(y, 10, g)
           /\ First(y, 12, g) = First(y, 11, g) + Length(y, 11, g)
           /\ First(y + 1, 1, g) = First(y, 12, g) + Length(y, 12, g)
<1>1. PICK s \in Int : \A m \in 3 .. 12 : First(y, m, g) = s + (306 * (m + 1)) \div 10
    BY FromMarch
<1>2. /\ First(y, 3, g) = s + 122   /\ First(y, 4, g) = s + 153
      /\ First(y, 5, g) = s + 183   /\ First(y, 6, g) = s + 214
      /\ First(y, 7, g) = s + 244   /\ First(y, 8, g) = s + 275
      /\ First(y, 9, g) = s + 306   /\ First(y, 10, g) = s + 336
      /\ First(y, 11, g) = s + 367  /\ First(y, 12, g) = s + 397
    BY <1>1
<1>3. /\ \A m \in {1, 3, 5, 7, 8, 10, 12} : Length(y, m, g) = 31
      /\ \A m \in {4, 6, 9, 11} : Length(y, m, g) = 30
      /\ Length(y, 2, g) = IF Leap(y, g) THEN 29 ELSE 28
    BY Lengths
<1> QED
    BY <1>2, <1>3, Spring

\* All months of a year together.
LEMMA YearByYear ==
    ASSUME NEW y \in Int, NEW g \in BOOLEAN
    PROVE  First(y + 1, 1, g) = First(y, 1, g) + (IF Leap(y, g) THEN 366 ELSE 365)
<1>1. \A m \in Months : First(y, m, g) \in Int
    BY SameMonth
<1> QED
    BY <1>1, MonthByMonth, Lengths DEF Months

-----------------------------------------------------------------------------
(* The day before and the day after.                                       *)

\* A date of a calendar.
IsDate(date, g) ==
    /\ date \in [y : Int, m : Months, d : Days]
    /\ date.d <= Length(date.y, date.m, g)

LEMMA NextDay ==
    ASSUME NEW g \in BOOLEAN, NEW date, IsDate(date, g)
    PROVE  /\ IsDate(Tomorrow(date, g), g)
           /\ swe_julday(Tomorrow(date, g), g) = swe_julday(date, g) + 1
<1>1. PICK y \in Int, m \in Months, d \in Days : date = Date(y, m, d)
    BY DEF IsDate, Date
<1>2. d <= Length(y, m, g) /\ Length(y, m, g) \in 28 .. 31
    BY <1>1, Lengths DEF IsDate, Date, Months
<1>0. date.y = y /\ date.m = m /\ date.d = d /\ ~(d < d)
    BY <1>1 DEF Date, Days
<1>3. CASE d < Length(y, m, g)
    <2>1. Tomorrow(date, g) = Date(y, m, d + 1)
        BY <1>0, <1>1, <1>3 DEF Tomorrow, Date
    <2> QED
        BY <1>1, <1>2, <1>3, <2>1, SameMonth DEF IsDate, Date, Days
<1>4. CASE d = Length(y, m, g) /\ m < 12
    <2>1. Tomorrow(date, g) = Date(y, m + 1, 1)
        BY <1>0, <1>4 DEF Tomorrow
    <2>2. First(y, m + 1, g) = First(y, m, g) + Length(y, m, g)
        BY <1>4, MonthByMonth DEF Months
    <2>3. m + 1 \in Months /\ 1 <= Length(y, m + 1, g)
        BY <1>4, Lengths DEF Months
    <2>4. swe_julday(date, g) = First(y, m, g) + d - 1
        BY <1>1, SameMonth DEF Days
    <2>5. swe_julday(Tomorrow(date, g), g) = First(y, m + 1, g)
        BY <2>1 DEF First
    <2>6. First(y, m, g) \in Int
        BY SameMonth
    <2>7. IsDate(Tomorrow(date, g), g)
        BY <2>1, <2>3 DEF IsDate, Date, Days
    <2> QED
        BY <1>2, <1>4, <2>2, <2>4, <2>5, <2>6, <2>7
<1>5. CASE d = Length(y, m, g) /\ m = 12
    <2>1. Tomorrow(date, g) = Date(y + 1, 1, 1)
        BY <1>0, <1>5 DEF Tomorrow
    <2>2. First(y + 1, 1, g) = First(y, m, g) + Length(y, m, g)
        BY <1>5, MonthByMonth
    <2>3. swe_julday(date, g) = First(y, m, g) + d - 1
        BY <1>1, SameMonth DEF Days
    <2>4. swe_julday(Tomorrow(date, g), g) = First(y + 1, 1, g)
        BY <2>1 DEF First
    <2>5. First(y, m, g) \in Int
        BY SameMonth
    <2>6. IsDate(Tomorrow(date, g), g)
        BY <2>1, Lengths DEF IsDate, Date, Days, Months
    <2> QED
        BY <1>2, <1>5, <2>2, <2>3, <2>4, <2>5, <2>6
<1> QED
    BY <1>2, <1>3, <1>4, <1>5 DEF Months, Days


LEMMA PreviousDay ==
    ASSUME NEW g \in BOOLEAN, NEW date, IsDate(date, g)
    PROVE  /\ IsDate(Yesterday(date, g), g)
           /\ swe_julday(Yesterday(date, g), g) = swe_julday(date, g) - 1
<1>1. PICK y \in Int, m \in Months, d \in Days : date = Date(y, m, d)
    BY DEF IsDate, Date
<1>0. date.y = y /\ date.m = m /\ date.d = d
    BY <1>1 DEF Date
<1>2. /\ d <= Length(y, m, g)
      /\ swe_julday(date, g) = First(y, m, g) + d - 1
      /\ First(y, m, g) \in Int
    BY <1>0, <1>1, SameMonth DEF IsDate, Days
<1>3. CASE d > 1
    <2>1. Yesterday(date, g) = Date(y, m, d - 1)
        BY <1>0, <1>1, <1>3 DEF Yesterday, Date
    <2>2. Length(y, m, g) \in 28 .. 31
        BY Lengths DEF Months
    <2>3. IsDate(Yesterday(date, g), g)
        BY <1>2, <1>3, <2>1, <2>2 DEF IsDate, Date, Days
    <2>4. swe_julday(Yesterday(date, g), g) = First(y, m, g) + (d - 1) - 1
        BY <2>1, SameMonth DEF Days
    <2> QED
        BY <1>2, <2>3, <2>4 DEF Days
<1>4. CASE d = 1 /\ m > 1
    <2> DEFINE last == Length(y, m - 1, g)
    <2>1. Yesterday(date, g) = Date(y, m - 1, last)
        BY <1>0, <1>4 DEF Yesterday
    <2>2. /\ m - 1 \in Months /\ last \in 28 .. 31
          /\ First(y, m, g) = First(y, m - 1, g) + last
        BY <1>4, Lengths, MonthByMonth DEF Months
    <2> HIDE DEF last
    <2>3. /\ swe_julday(Yesterday(date, g), g) = First(y, m - 1, g) + last - 1
          /\ First(y, m - 1, g) \in Int
        BY <2>1, <2>2, SameMonth
    <2>4. IsDate(Yesterday(date, g), g)
        BY <2>1, <2>2 DEF IsDate, Date, Days, last
    <2> QED
        BY <1>2, <1>4, <2>2, <2>3, <2>4
<1>5. CASE d = 1 /\ m = 1
    <2>1. Yesterday(date, g) = Date(y - 1, 12, 31)
        BY <1>0, <1>5 DEF Yesterday
    <2>2. /\ Length(y - 1, 12, g) = 31
          /\ First(y - 1 + 1, 1, g) = First(y - 1, 12, g) + Length(y - 1, 12, g)
        BY Lengths, MonthByMonth
    <2>3. y - 1 + 1 = y
        OBVIOUS
    <2>4. swe_julday(Yesterday(date, g), g) = First(y - 1, 12, g) + 31 - 1
        BY <2>1, SameMonth DEF Months
    <2>5. First(y - 1, 12, g) \in Int
        BY SameMonth DEF Months
    <2>6. IsDate(Yesterday(date, g), g)
        BY <2>1, <2>2 DEF IsDate, Date, Days, Months
    <2> QED
        BY <1>2, <1>5, <2>2, <2>3, <2>4, <2>5, <2>6
<1> QED
    BY <1>3, <1>4, <1>5 DEF Months, Days

-----------------------------------------------------------------------------
(* The order of dates, and the day the calendar was changed.               *)

\* By which pysw.julday() chooses the calendar
Rank(date) == date.y * 10000 + date.m * 100 + date.d

Old(date)    == Rank(date) <= 15821004    \* up to the last day of the old calendar
Older(date)  == Rank(date) < 15821004
New(date)    == Rank(date) >= 15821015    \* from the first day of the new one
Newer(date)  == Rank(date) > 15821015
FirstNew     == Date(1582, 10, 15)

LEMMA RankOf ==
    ASSUME NEW y \in Int, NEW m \in Int, NEW d \in Int
    PROVE  Rank(Date(y, m, d)) = y * 10000 + m * 100 + d
BY SMT DEF Rank, Date

LEMMA RankNext ==
    ASSUME NEW g \in BOOLEAN, NEW date, IsDate(date, g)
    PROVE  /\ New(date) => New(Tomorrow(date, g))
           /\ Older(date) => Old(Tomorrow(date, g))
<1>1. PICK y \in Int, m \in Months, d \in Days : date = Date(y, m, d)
    BY DEF IsDate, Date
<1>2. date.y = y /\ date.m = m /\ date.d = d
    BY <1>1 DEF Date
<1>3. d <= Length(y, m, g) /\ Length(y, m, g) \in 28 .. 31
    BY <1>2, Lengths DEF IsDate, Months
<1>4. m \in 1 .. 12 /\ d \in 1 .. 31
    BY DEF Months, Days
<1>0. Rank(date) = y * 10000 + m * 100 + d
    BY <1>1, <1>4, RankOf
<1>5. CASE d < Length(y, m, g)
    <2>1. Tomorrow(date, g) = Date(y, m, d + 1)
        BY <1>1, <1>2, <1>5 DEF Tomorrow, Date
    <2>2. Rank(Tomorrow(date, g)) = y * 10000 + m * 100 + (d + 1)
        BY <1>4, <2>1, RankOf
    <2> QED
        BY <1>0, <1>4, <2>2, SMT DEF New, Old, Older
<1>6. CASE d = Length(y, m, g) /\ m < 12
    <2>1. Tomorrow(date, g) = Date(y, m + 1, 1) /\ 28 <= d
        BY <1>2, <1>3, <1>4, <1>6 DEF Tomorrow
    <2>2. Rank(Tomorrow(date, g)) = y * 10000 + (m + 1) * 100 + 1
        BY <1>4, <2>1, RankOf
    <2> QED
        BY <1>0, <1>4, <1>6, <2>1, <2>2, SMT DEF New, Old, Older
<1>7. CASE d = Length(y, m, g) /\ m = 12
    <2>1. Tomorrow(date, g) = Date(y + 1, 1, 1)
        BY <1>2, <1>4, <1>7 DEF Tomorrow
    <2>2. Rank(Tomorrow(date, g)) = (y + 1) * 10000 + 1 * 100 + 1
        BY <2>1, RankOf
    <2> QED
        BY <1>0, <1>4, <1>7, <2>2, SMT DEF New, Old, Older
<1> QED
    BY <1>3, <1>4, <1>5, <1>6, <1>7

LEMMA RankPrevious ==
    ASSUME NEW g \in BOOLEAN, NEW date, IsDate(date, g), Newer(date)
    PROVE  New(Yesterday(date, g))
<1>1. PICK y \in Int, m \in Months, d \in Days : date = Date(y, m, d)
    BY DEF IsDate, Date
<1>2. date.y = y /\ date.m = m /\ date.d = d
    BY <1>1 DEF Date
<1>3. m \in 1 .. 12 /\ d \in 1 .. 31
    BY DEF Months, Days
<1>0. Rank(date) = y * 10000 + m * 100 + d
    BY <1>1, <1>3, RankOf
<1>4. CASE d > 1
    <2>1. Yesterday(date, g) = Date(y, m, d - 1)
        BY <1>1, <1>2, <1>4 DEF Yesterday, Date
    <2>2. Rank(Yesterday(date, g)) = y * 10000 + m * 100 + (d - 1)
        BY <1>3, <2>1, RankOf
    <2> QED
        BY <1>0, <1>3, <2>2, SMT DEF New, Newer
<1>5. CASE d = 1 /\ m > 1
    <2>1. PICK last \in 28 .. 31 : last = Length(y, m - 1, g)
        BY <1>3, <1>5, Lengths
    <2>2. Yesterday(date, g) = Date(y, m - 1, last)
        BY <1>2, <1>5, <2>1 DEF Yesterday
    <2>3. Rank(Yesterday(date, g)) = y * 10000 + (m - 1) * 100 + last
        BY <1>3, <2>2, RankOf
    <2> QED
        BY <1>0, <1>3, <1>5, <2>3, SMT DEF New, Newer
<1>6. CASE d = 1 /\ m = 1
    <2>1. Yesterday(date, g) = Date(y - 1, 12, 31)
        BY <1>2, <1>6 DEF Yesterday
    <2>2. Rank(Yesterday(date, g)) = (y - 1) * 10000 + 12 * 100 + 31
        BY <2>1, RankOf
    <2> QED
        BY <1>0, <1>3, <1>6, <2>2, SMT DEF New, Newer
<1>7. d > 1 \/ (d = 1 /\ m > 1) \/ (d = 1 /\ m = 1)
    BY <1>3
<1> QED
    BY <1>4, <1>5, <1>6, <1>7

\* No day is of both calendars, and the days at the turn have names of their
\* own.
LEMMA Ranks ==
    ASSUME NEW g \in BOOLEAN, NEW date, IsDate(date, g)
    PROVE  /\ ~(Old(date) /\ New(date))
           /\ Old(date) => Older(date) \/ date = Reform
           /\ New(date) => Newer(date) \/ date = FirstNew
<1>1. PICK y \in Int, m \in Months, d \in Days : date = Date(y, m, d)
    BY DEF IsDate, Date
<1>2. m \in 1 .. 12 /\ d \in 1 .. 31
    BY DEF Months, Days
<1>3. Rank(date) = y * 10000 + m * 100 + d
    BY <1>1, <1>2, RankOf
<1>4. y * 10000 + m * 100 + d = 15821004 => y = 1582 /\ m = 10 /\ d = 4
    BY <1>2, SMT
<1>5. y * 10000 + m * 100 + d = 15821015 => y = 1582 /\ m = 10 /\ d = 15
    BY <1>2, SMT
<1> QED
    BY <1>1, <1>2, <1>3, <1>4, <1>5, SMT DEF Old, Older, New, Newer, Reform, FirstNew

LEMMA MidOctober ==
    ASSUME NEW y \in Int, NEW g \in BOOLEAN
    PROVE  IsDate(Date(y, 10, 15), g)
BY Lengths DEF IsDate, Date, Months, Days

\* The days around the reform.
LEMMA ReformDays ==
    /\ Since1582 \in Int /\ Since1582 > 0
    /\ swe_julday(Reform, FALSE) = Since1582 - 1
    /\ swe_julday(Tomorrow(Reform, TRUE), FALSE) = Since1582
    /\ swe_julday(FirstNew, TRUE) = Since1582
    /\ Old(Reform) /\ ~Older(Reform) /\ New(FirstNew) /\ ~Newer(FirstNew)
    /\ ~New(Tomorrow(Reform, TRUE))
<1>1. \A y \in Int, g \in BOOLEAN : Tomorrow(Date(y, 10, 4), g) = Date(y, 10, 5)
    BY Lengths DEF Tomorrow, Date
<1>2. PICK y \in Int : y = 1582
    OBVIOUS
<1>3. Reform = Date(y, 10, 4) /\ FirstNew = Date(y, 10, 15)
    BY <1>2, SMT DEF Reform, FirstNew
<1>4. Tomorrow(Reform, TRUE) = Date(y, 10, 5)
    BY <1>1, <1>3, Zenon
<1>5. /\ swe_julday(Date(y, 10, 4), FALSE) = Since1582 - 1
      /\ swe_julday(Date(y, 10, 5), FALSE) = Since1582
      /\ swe_julday(Date(y, 10, 15), TRUE) = Since1582
      /\ Since1582 \in Int /\ Since1582 > 0
    BY <1>2, SMT DEF swe_julday, Date, Abs, Since1582
<1>6. /\ Old(Date(y, 10, 4)) /\ ~Older(Date(y, 10, 4))
      /\ New(Date(y, 10, 15)) /\ ~Newer(Date(y, 10, 15))
      /\ ~New(Date(y, 10, 5))
    BY <1>2, SMT DEF Old, Older, New, Newer, Rank, Date
<1> QED
    BY <1>3, <1>4, <1>5, <1>6, Zenon

\* Days before the reform have smaller numbers.
LEMMA BeforeReform ==
    ASSUME NEW date, IsDate(date, FALSE), Older(date)
    PROVE  swe_julday(date, FALSE) < Since1582 - 1
<1>1. PICK y \in Int, m \in Months, d \in Days : date = Date(y, m, d)
    BY DEF IsDate, Date
<1>2. m \in 1 .. 12 /\ d \in 1 .. 31
    BY DEF Months, Days
<1>3. y <= 1582 /\ (y = 1582 => m < 10 \/ (m = 10 /\ d < 4))
    <2>1. Rank(date) = y * 10000 + m * 100 + d
        BY <1>1, <1>2, RankOf
    <2> QED
        BY <1>2, <2>1, SMT DEF Older
<1>4. CASE m < 3
    BY <1>1, <1>2, <1>3, <1>4, SMT DEF swe_julday, Date, Since1582
<1>5. CASE m >= 3
    BY <1>1, <1>2, <1>3, <1>5, SMT DEF swe_julday, Date, Since1582
<1>6. m < 3 \/ m >= 3
    BY <1>2
<1> QED
    BY <1>4, <1>5, <1>6

-----------------------------------------------------------------------------
(* The count.                                                              *)

\* JuldayCounts alone is not inductive: the count and the name of today must
\* agree which calendar is in force.
InForce ==
    calendar = "civil" =>
        IF number >= Since1582 THEN New(today) ELSE Old(today)

DateInv ==
    /\ calendar \in {"julian", "gregorian", "civil"}
    /\ number \in Int
    /\ IsDate(today, Gregorian)
    /\ swe_julday(today, Gregorian) = number
    /\ InForce

LEMMA GregorianType == Gregorian \in BOOLEAN
BY DEF Gregorian

\* Gregorian or not, in a form that can be substituted.
LEMMA WhichCalendar ==
    ASSUME DateInv
    PROVE  /\ Gregorian => IsDate(today, TRUE) /\ swe_julday(today, TRUE) = number
           /\ ~Gregorian => IsDate(today, FALSE) /\ swe_julday(today, FALSE) = number
<1>1. ASSUME Gregorian
      PROVE  IsDate(today, TRUE) /\ swe_julday(today, TRUE) = number
    <2>1. Gregorian = TRUE
        BY <1>1, GregorianType
    <2> QED
        BY <2>1, Zenon DEF DateInv
<1>2. ASSUME ~Gregorian
      PROVE  IsDate(today, FALSE) /\ swe_julday(today, FALSE) = number
    <2>1. Gregorian = FALSE
        BY <1>2, GregorianType
    <2> QED
        BY <2>1, Zenon DEF DateInv
<1> QED
    BY <1>1, <1>2

LEMMA DateInit ==
    ASSUME Init
    PROVE  DateInv
<1>1. /\ number = 0 /\ ~(number >= Since1582)
    BY ReformDays DEF Init
<1>2. CASE calendar = "gregorian"
    <2>1. Gregorian = TRUE
        BY <1>2, GregorianType DEF Gregorian
    <2>2. PICK y \in Int : y + 4713 = 0
        OBVIOUS
    <2>3. today = Date(y, 11, 24)
        BY <1>2, <2>2, SMT DEF Init
    <2>4. IsDate(Date(y, 11, 24), TRUE)
        <3>1. \A g \in BOOLEAN : IsDate(Date(y, 11, 24), g)
            BY Lengths DEF IsDate, Date, Months, Days
        <3> QED
            BY <3>1, Zenon
    <2>5. swe_julday(Date(y, 11, 24), TRUE) = 0
        BY <2>2, SMT DEF swe_julday, Date, Abs
    <2>6. IsDate(today, Gregorian) /\ swe_julday(today, Gregorian) = 0
        BY <2>1, <2>3, <2>4, <2>5, Zenon
    <2> QED
        BY <1>1, <1>2, <2>6 DEF DateInv, InForce
<1>3. CASE calendar # "gregorian"
    <2>1. Gregorian = FALSE
        BY <1>1, <1>3, GregorianType DEF Gregorian
    <2>2. PICK y \in Int : y + 4712 = 0
        OBVIOUS
    <2>3. today = Date(y, 1, 1)
        BY <1>3, <2>2, SMT DEF Init
    <2>4. IsDate(Date(y, 1, 1), FALSE)
        <3>1. \A g \in BOOLEAN : IsDate(Date(y, 1, 1), g)
            BY Lengths DEF IsDate, Date, Months, Days
        <3> QED
            BY <3>1, Zenon
    <2>5. swe_julday(Date(y, 1, 1), FALSE) = 0
        BY <2>2, SMT DEF swe_julday, Date
    <2>6. IsDate(today, Gregorian) /\ swe_julday(today, Gregorian) = 0
        BY <2>1, <2>3, <2>4, <2>5, Zenon
    <2>7. Old(today)
        BY <2>2, <2>3, SMT DEF Old, Rank, Date
    <2>8. calendar \in {"julian", "gregorian", "civil"}
        BY DEF Init
    <2> QED
        BY <1>1, <1>3, <2>6, <2>7, <2>8 DEF DateInv, InForce
<1> QED
    BY <1>2, <1>3

\* What a step must show that leads to a later date of the same calendar.
LEMMA SameCalendar ==
    ASSUME DateInv, calendar' = calendar, number' \in Int, number' > number,
           IsDate(today', Gregorian), swe_julday(today', Gregorian) = number',
           New(today) => New(today'),
           calendar = "civil" /\ Old(today) => Old(today')
    PROVE  DateInv'
<1>0. Since1582 \in Int /\ number \in Int /\ Gregorian \in BOOLEAN /\ Gregorian' \in BOOLEAN
    BY ReformDays, GregorianType DEF DateInv, Gregorian
<1>1. CASE calendar # "civil"
    <2>1. Gregorian' = Gregorian
        BY <1>1 DEF Gregorian
    <2>2. IsDate(today', Gregorian') /\ swe_julday(today', Gregorian') = number'
        BY <2>1, Zenon
    <2> QED
        BY <1>1, <2>2 DEF DateInv, InForce
<1>2. CASE calendar = "civil" /\ number >= Since1582
    <2>1. number' >= Since1582
        BY <1>0, <1>2
    <2>2. Gregorian /\ Gregorian'
        BY <1>2, <2>1 DEF Gregorian
    <2>3. Gregorian' = Gregorian
        BY <1>0, <2>2
    <2>4. IsDate(today', Gregorian') /\ swe_julday(today', Gregorian') = number'
        BY <2>3, Zenon
    <2>5. New(today')
        BY <1>2 DEF DateInv, InForce
    <2> QED
        BY <1>2, <2>1, <2>4, <2>5 DEF DateInv, InForce
<1>3. CASE calendar = "civil" /\ ~(number >= Since1582)
    <2>1. Gregorian = FALSE
        BY <1>0, <1>3 DEF Gregorian
    <2>2. Old(today')
        BY <1>3 DEF DateInv, InForce
    <2>3. IsDate(today', FALSE) /\ swe_julday(today', FALSE) = number'
        BY <2>1, Zenon
    <2>4. Older(today') \/ today' = Reform
        BY <2>2, <2>3, Ranks
    <2>5. number' = Since1582 - 1 \/ number' < Since1582 - 1
        <3>1. CASE Older(today')
            <4>1. swe_julday(today', FALSE) < Since1582 - 1
                BY <2>3, <3>1, BeforeReform
            <4> QED
                BY <2>3, <4>1
        <3>2. CASE today' = Reform
            <4>1. swe_julday(today', FALSE) = Since1582 - 1
                BY <3>2, ReformDays, Zenon
            <4> QED
                BY <2>3, <4>1
        <3> QED
            BY <2>4, <3>1, <3>2
    <2>6. ~(number' >= Since1582)
        BY <1>0, <2>5
    <2>7. Gregorian' = FALSE
        BY <1>0, <1>3, <2>6 DEF Gregorian
    <2>8. IsDate(today', Gregorian') /\ swe_julday(today', Gregorian') = number'
        BY <2>3, <2>7, Zenon
    <2> QED
        BY <1>3, <2>2, <2>6, <2>8 DEF DateInv, InForce
<1> QED
    BY <1>1, <1>2, <1>3

\* A day passes.
LEMMA MidnightStep ==
    ASSUME DateInv, Midnight
    PROVE  DateInv'
<1>1. CASE calendar = "civil" /\ today = Reform
    <2>1. Old(today) /\ ~New(today)
        <3>1. PICK g \in BOOLEAN : IsDate(today, g)
            BY GregorianType DEF DateInv
        <3>2. Old(today)
            BY <1>1, ReformDays
        <3> QED
            BY <3>1, <3>2, Ranks
    <2>2. ~(number >= Since1582)
        BY <1>1, <2>1 DEF DateInv, InForce
    <2>3. number = Since1582 - 1
        <3>1. ~Gregorian
            BY <1>1, <2>2 DEF Gregorian
        <3>2. swe_julday(Reform, FALSE) = number
            BY <1>1, <3>1, WhichCalendar
        <3> QED
            BY <3>2, ReformDays
    <2>4. number' = Since1582 /\ calendar' = "civil" /\ today' = FirstNew
        <3>1. number' = number + 1 /\ calendar' = calendar
            BY DEF Midnight
        <3>2. today' = FirstNew
            BY <1>1, SMT DEF Midnight, FirstNew
        <3> QED
            BY <1>1, <2>3, <3>1, <3>2, ReformDays
    <2>5. number' \in Int /\ number' >= Since1582
        BY <2>4, ReformDays
    <2>6. Gregorian' = TRUE
        BY <2>4, <2>5, GregorianType DEF Gregorian
    <2>7. IsDate(FirstNew, TRUE) /\ swe_julday(FirstNew, TRUE) = Since1582 /\ New(FirstNew)
        <3>1. PICK y \in Int : FirstNew = Date(y, 10, 15)
            BY SMT DEF FirstNew
        <3>2. IsDate(FirstNew, TRUE)
            BY <3>1, MidOctober, Zenon
        <3> QED
            BY <3>2, ReformDays, Zenon
    <2>8. IsDate(today', Gregorian') /\ swe_julday(today', Gregorian') = number'
        BY <2>4, <2>6, <2>7, Zenon
    <2> QED
        BY <2>4, <2>5, <2>7, <2>8 DEF DateInv, InForce
<1>2. CASE ~(calendar = "civil" /\ today = Reform)
    <2>1. /\ today' = Tomorrow(today, Gregorian)
          /\ number' = number + 1 /\ calendar' = calendar
        BY <1>2, ZenonT(60) DEF Midnight
    <2>2. PICK g \in BOOLEAN : g = Gregorian
        BY GregorianType
    <2>3. IsDate(today, g) /\ swe_julday(today, g) = number /\ number \in Int
        BY <2>2, Zenon DEF DateInv
    <2>4. today' = Tomorrow(today, g)
        BY <2>1, <2>2, Zenon
    <2>5. IsDate(today', g) /\ swe_julday(today', g) = number'
        BY <2>1, <2>3, <2>4, NextDay
    <2>6. New(today) => New(today')
        BY <2>3, <2>4, RankNext
    <2>7. calendar = "civil" /\ Old(today) => Old(today')
        BY <1>2, <2>3, <2>4, RankNext, Ranks
    <2>8. IsDate(today', Gregorian) /\ swe_julday(today', Gregorian) = number'
        BY <2>2, <2>5, Zenon
    <2>9. number' \in Int /\ number' > number
        BY <2>1, <2>3
    <2> QED
        BY <2>1, <2>6, <2>7, <2>8, <2>9, SameCalendar
<1> QED
    BY <1>1, <1>2

\* A year passes.
LEMMA YearStep ==
    ASSUME DateInv, Year
    PROVE  DateInv'
<1>1. PICK y \in Int : today = Date(y, 1, 1)
    BY DEF DateInv, IsDate, Year, Date
<1>2. PICK g \in BOOLEAN : g = Gregorian
    BY GregorianType
<1>3. IsDate(today, g) /\ swe_julday(today, g) = number /\ number \in Int
    BY <1>2, Zenon DEF DateInv
<1>4. today.y = y
    BY <1>1 DEF Date
<1>5. today' = Date(y + 1, 1, 1) /\ calendar' = calendar
    BY <1>1, <1>4 DEF Year, Date
<1>6. number' = number + (IF Leap(y, g) THEN 366 ELSE 365)
    BY <1>2, <1>4, Zenon DEF Year
<1>7. swe_julday(today', g) = number' /\ number' \in Int /\ number' > number
    <2>1. First(y, 1, g) = number /\ First(y + 1, 1, g) = swe_julday(today', g)
        BY <1>1, <1>3, <1>5 DEF First
    <2>2. First(y + 1, 1, g) = First(y, 1, g) + (IF Leap(y, g) THEN 366 ELSE 365)
        BY YearByYear
    <2> QED
        BY <1>3, <1>6, <2>1, <2>2, SMT
<1>8. IsDate(today', g)
    BY <1>5, Lengths DEF IsDate, Date, Months, Days
<1>9. y # 1582
    BY <1>4, BirthTimeAssumption, SMT DEF Year
<1>10. /\ Rank(today) = y * 10000 + 1 * 100 + 1
       /\ Rank(today') = (y + 1) * 10000 + 1 * 100 + 1
    BY <1>1, <1>5, RankOf
<1>11. (New(today) => New(today')) /\ (Old(today) => Old(today'))
    BY <1>9, <1>10, SMT DEF New, Old
<1>12. IsDate(today', Gregorian) /\ swe_julday(today', Gregorian) = number'
    BY <1>2, <1>7, <1>8, Zenon
<1> QED
    BY <1>5, <1>7, <1>11, <1>12, SameCalendar

LEMMA DateStep ==
    ASSUME DateInv, [Next]_vars
    PROVE  DateInv'
<1>1. CASE Midnight
    BY <1>1, MidnightStep
<1>2. CASE Year
    BY <1>2, YearStep
<1>3. CASE UNCHANGED <<calendar, today, number>>
    BY <1>3 DEF DateInv, InForce, Gregorian
<1> QED
    BY <1>1, <1>2, <1>3 DEF Next, vars, Answered, Transit, Horoscope, Chart

\* pysw.julday() chooses the calendar of the date.
LEMMA PyswJulday ==
    ASSUME NEW date
    PROVE  /\ New(date) => julday(date) = swe_julday(date, TRUE)
           /\ ~New(date) => julday(date) = swe_julday(date, FALSE)
<1>1. julday(date) = swe_julday(date, New(date)) /\ New(date) \in BOOLEAN
    BY DEF julday, New, Rank
<1>2. ASSUME New(date)
      PROVE  julday(date) = swe_julday(date, TRUE)
    <2>1. New(date) = TRUE
        BY <1>1, <1>2
    <2> QED
        BY <1>1, <2>1, Zenon
<1>3. ASSUME ~New(date)
      PROVE  julday(date) = swe_julday(date, FALSE)
    <2>1. New(date) = FALSE
        BY <1>1, <1>3
    <2> QED
        BY <1>1, <2>1, Zenon
<1> QED
    BY <1>2, <1>3

\* In the civil calendar today has a name of the calendar in force.
LEMMA Civil ==
    ASSUME DateInv, calendar = "civil"
    PROVE  /\ julday(today) = number
           /\ number >= Since1582 =>
                New(today) /\ IsDate(today, TRUE) /\ swe_julday(today, TRUE) = number
           /\ ~(number >= Since1582) =>
                Old(today) /\ IsDate(today, FALSE) /\ swe_julday(today, FALSE) = number
<1>1. Gregorian <=> number >= Since1582
    BY DEF Gregorian
<1>2. CASE number >= Since1582
    <2>1. New(today) /\ IsDate(today, TRUE) /\ swe_julday(today, TRUE) = number
        BY <1>1, <1>2, WhichCalendar DEF DateInv, InForce
    <2> QED
        BY <1>2, <2>1, PyswJulday, Zenon
<1>3. CASE ~(number >= Since1582)
    <2>1. Old(today) /\ IsDate(today, FALSE) /\ swe_julday(today, FALSE) = number
        BY <1>1, <1>3, WhichCalendar DEF DateInv, InForce
    <2>2. ~New(today)
        BY <2>1, Ranks
    <2> QED
        BY <1>3, <2>1, <2>2, PyswJulday, Zenon
<1> QED
    BY <1>2, <1>3

\* swe_julday() counts the days of both calendars, and pysw.julday() those of
\* the civil one, in every year from the beginning of the count on.
THEOREM DaysCount == Spec => []JuldayCounts
<1>1. Init => DateInv
    BY DateInit
<1>2. DateInv /\ [Next]_vars => DateInv'
    BY DateStep
<1>3. DateInv => JuldayCounts
    BY Civil, Zenon DEF DateInv, JuldayCounts
<1> QED
    BY <1>1, <1>2, <1>3, PTL DEF Spec

-----------------------------------------------------------------------------
(* The instant of a birth.                                                 *)

\* The UTC date of a birth after the reform is counted as that of the day it
\* is, also when it is the day before or after the local date.
LEMMA LocalizedDay ==
    ASSUME DateInv, calendar = "civil", Localizable(today),
           NEW hour \in 0 .. 23, NEW zone \in -12 .. 14,
           24 * number + (hour - zone) >= 24 * Since1582
    PROVE  to_utc_components(today, hour, zone) = 24 * number + (hour - zone)
<1> DEFINE h == hour - zone
           ut == localize(today, hour, zone)
<1>0. number \in Int /\ Since1582 \in Int /\ h \in -14 .. 35
    BY ReformDays DEF DateInv
<1>1. to_utc_components(today, hour, zone) = 24 * julday(ut.date) + ut.hour
    BY Zenon DEF to_utc_components, Instant
<1>2. number >= Since1582 \/ number = Since1582 - 1
    BY <1>0
<1>3. CASE number >= Since1582
    <2>1. New(today) /\ IsDate(today, TRUE) /\ swe_julday(today, TRUE) = number
        BY <1>3, Civil
    <2>2. Localizable(today)
        OBVIOUS
    <2>3. CASE h < 0
        <3>1. ut.date = Yesterday(today, TRUE) /\ ut.hour = h + 24
            BY <2>2, <2>3, Zenon DEF localize
        <3>2. number > Since1582
            BY <1>0, <2>3
        <3>3. Newer(today)
            <4>1. today # FirstNew
                <5>1. today = FirstNew => number = Since1582
                    BY <2>1, ReformDays, Zenon
                <5> QED
                    BY <1>0, <3>2, <5>1
            <4> QED
                BY <2>1, <4>1, Ranks, Zenon
        <3>4. New(Yesterday(today, TRUE))
            BY <2>1, <3>3, RankPrevious, Zenon
        <3>5. swe_julday(Yesterday(today, TRUE), TRUE) = number - 1
            BY <2>1, PreviousDay, Zenon
        <3>6. julday(ut.date) = number - 1
            BY <3>1, <3>4, <3>5, PyswJulday, Zenon
        <3>7. to_utc_components(today, hour, zone) = 24 * (number - 1) + (h + 24)
            BY <1>1, <3>1, <3>6, Zenon
        <3> QED
            BY <1>0, <3>7
    <2>4. CASE h >= 24
        <3>1. ut.date = Tomorrow(today, TRUE) /\ ut.hour = h - 24
            <4>1. ~(h < 0)
                BY <1>0, <2>4
            <4> QED
                BY <2>2, <2>4, <4>1, Zenon DEF localize
        <3>2. New(Tomorrow(today, TRUE)) /\ swe_julday(Tomorrow(today, TRUE), TRUE) = number + 1
            BY <2>1, NextDay, RankNext, Zenon
        <3>3. julday(ut.date) = number + 1
            BY <3>1, <3>2, PyswJulday, Zenon
        <3>4. to_utc_components(today, hour, zone) = 24 * (number + 1) + (h - 24)
            BY <1>1, <3>1, <3>3, Zenon
        <3> QED
            BY <1>0, <3>4
    <2>5. CASE ~(h < 0) /\ ~(h >= 24)
        <3>1. ut.date = today /\ ut.hour = h
            BY <2>2, <2>5, Zenon DEF localize
        <3>2. julday(ut.date) = number
            BY <3>1, Civil, Zenon
        <3>3. to_utc_components(today, hour, zone) = 24 * number + h
            BY <1>1, <3>1, <3>2, Zenon
        <3> QED
            BY <3>3
    <2> QED
        BY <2>3, <2>4, <2>5
<1>4. CASE number = Since1582 - 1
    <2>1. ~(number >= Since1582) /\ h >= 24 /\ ~(h < 0)
        BY <1>0, <1>4
    <2>2. Old(today) /\ IsDate(today, FALSE) /\ swe_julday(today, FALSE) = number
        BY <2>1, Civil
    <2>3. today = Reform
        <3>1. Older(today) \/ today = Reform
            BY <2>2, Ranks, Zenon
        <3>2. ~Older(today)
            <4>1. Older(today) => swe_julday(today, FALSE) < Since1582 - 1
                BY <2>2, BeforeReform, Zenon
            <4>2. PICK j : j = swe_julday(today, FALSE)
                OBVIOUS
            <4>3. j = number /\ (Older(today) => j < Since1582 - 1)
                BY <2>2, <4>1, <4>2, Zenon
            <4> QED
                BY <1>0, <1>4, <4>3
        <3> QED
            BY <3>1, <3>2
    <2>4. Localizable(today)
        OBVIOUS
    <2>5. ut.date = Tomorrow(today, TRUE) /\ ut.hour = h - 24
        BY <2>1, <2>4, Zenon DEF localize
    <2>6. julday(ut.date) = number + 1
        <3>1. ut.date = Tomorrow(Reform, TRUE)
            BY <2>3, <2>5, Zenon
        <3>2. julday(ut.date) = Since1582
            BY <3>1, ReformDays, PyswJulday, Zenon
        <3> QED
            BY <1>0, <1>4, <3>2
    <2>7. to_utc_components(today, hour, zone) = 24 * (number + 1) + (h - 24)
        BY <1>1, <2>5, <2>6, Zenon
    <2> QED
        BY <1>0, <2>7
<1> QED
    BY <1>2, <1>3, <1>4

LEMMA TransitStep ==
    ASSUME DateInv, TransitKeepsInstant, [Next]_vars
    PROVE  TransitKeepsInstant'
<1>1. CASE chart' = chart /\ today' = today
    BY <1>1 DEF TransitKeepsInstant
<1>0. CASE Midnight \/ Year
    <2>1. chart'.router = "none"
        BY <1>0 DEF Midnight, Year, NoChart
    <2> QED
        BY <2>1 DEF TransitKeepsInstant
<1>2. CASE Answered
    <2>1. chart'.router = "none"
        BY <1>2 DEF Answered, NoChart
    <2> QED
        BY <2>1 DEF TransitKeepsInstant
<1>3. ASSUME NEW hour \in Hours, NEW zone \in Zones, Transit(hour, zone)
      PROVE  TransitKeepsInstant'
    <2>1. hour \in 0 .. 23 /\ zone \in -12 .. 14
        BY BirthTimeAssumption
    <2>2. calendar = "civil"
        BY <1>3 DEF Transit, Chart
    <2>3. /\ chart'.instant = 24 * number + (hour - zone)
          /\ chart'.jd = to_utc_components(today, hour, zone)
        BY <1>3 DEF Transit, Chart, Instant
    <2>4. Localizable(today) /\ 24 * number + (hour - zone) >= 24 * Since1582 =>
              to_utc_components(today, hour, zone) = 24 * number + (hour - zone)
        BY <2>1, <2>2, LocalizedDay
    <2>5. Localizable(today) /\ chart'.instant >= 24 * Since1582 => chart'.jd = chart'.instant
        BY <2>3, <2>4
    <2>7. Localizable(today)' <=> Localizable(today)
        BY <1>3 DEF Transit, Chart, Localizable
    <2>6. Instant(Since1582, 0) = 24 * Since1582
        BY ReformDays DEF Instant
    <2> QED
        BY <2>5, <2>6, <2>7 DEF TransitKeepsInstant
<1>4. ASSUME NEW hour \in Hours, NEW zone \in Zones, Horoscope(hour, zone)
      PROVE  TransitKeepsInstant'
    <2>1. chart'.router = "horoscope"
        BY <1>4 DEF Horoscope, Chart
    <2> QED
        BY <2>1 DEF TransitKeepsInstant
<1> QED
    BY <1>0, <1>1, <1>2, <1>3, <1>4 DEF Next, vars

\* For every birth from the reform on to the end of datetime's years, at any
\* hour of any zone: the chart of transits, which keeps the UTC date, is one of
\* its instant.
THEOREM TransitsKeepInstants == Spec => []TransitKeepsInstant
<1>1. Init => DateInv /\ TransitKeepsInstant
    <2>1. Init => chart.router = "none"
        BY DEF Init, NoChart
    <2> QED
        BY <2>1, DateInit DEF TransitKeepsInstant
<1>2. DateInv /\ TransitKeepsInstant /\ [Next]_vars => DateInv' /\ TransitKeepsInstant'
    BY DateStep, TransitStep
<1> QED
    BY <1>1, <1>2, PTL DEF Spec

-----------------------------------------------------------------------------
(* The way back, swe_revjul().                                             *)

\* What swe_revjul() makes of a day of the Julian calendar, counted from
\* March of the year -4800.
Years(u2)       == (10 * (10 * u2 - 1222)) \div 36525
DaysOfYears(v)  == (1461 * v) \div 4
MonthsOf(r)     == (10000 * r) \div 306001
DaysOfMonths(k) == (306001 * k) \div 10000
InYear(v, k)    == v + (k - 2) \div 12 - 4800
InMonth(k)      == IF k - 1 > 12 THEN k - 13 ELSE k - 1

Named(u2) ==
    LET v == Years(u2)
        r == u2 - DaysOfYears(v)
        k == MonthsOf(r)
    IN  Date(InYear(v, k), InMonth(k), r - DaysOfMonths(k))

\* The year that began in March, counted from -4800, the month of it, and the
\* days before that month.
March(date)     == IF date.m < 3 THEN date.y + 4799 ELSE date.y + 4800
Month(date)     == IF date.m < 3 THEN date.m + 13 ELSE date.m + 1
YearsOf(y)      == ((y + 4712) * 1461) \div 4
DaysToMonth(k)  == (306 * k) \div 10
Noon            == 32205         \* the beginning of the Julian day count

LEMMA Parts ==
    ASSUME NEW g \in BOOLEAN, NEW date, IsDate(date, g)
    PROVE  \E y \in Int, m \in 1 .. 12, d \in 1 .. 31 :
             /\ date = Date(y, m, d) /\ date.y = y /\ date.m = m /\ date.d = d
             /\ d <= Length(y, m, g)
             /\ m \in {4, 6, 9, 11} => d <= 30
             /\ m = 2 => d <= IF Leap(y, g) THEN 29 ELSE 28
<1>1. PICK y \in Int, m \in Months, d \in Days : date = Date(y, m, d)
    BY DEF IsDate, Date
<1>2. m \in 1 .. 12 /\ d \in 1 .. 31
    BY DEF Months, Days
<1>3. date.y = y /\ date.m = m /\ date.d = d
    BY <1>1 DEF Date
<1>4. d <= Length(y, m, g)
    BY <1>3 DEF IsDate
<1>5. (m \in {4, 6, 9, 11} => d <= 30) /\ (m = 2 => d <= IF Leap(y, g) THEN 29 ELSE 28)
    BY <1>4, Lengths
<1> QED
    BY <1>1, <1>2, <1>3, <1>4, <1>5

\* The days of a month, counted from the end of October
LEMMA MonthRange ==
    ASSUME NEW k \in 4 .. 15, NEW d \in 1 .. 31,
           k \in {5, 7, 10, 12} => d <= 30, k = 15 => d <= 29
    PROVE  /\ (306 * k) \div 10 + d \in 123 .. 488
           /\ (306 * k) \div 10 + d = 488 => k = 15 /\ d = 29
<1>1. CASE k \in 4 .. 13
    BY <1>1
<1>2. CASE k = 14
    BY <1>2
<1>3. CASE k = 15
    BY <1>3
<1> QED
    BY <1>1, <1>2, <1>3

\* 88 years are a whole number of days.
LEMMA Quarters ==
    ASSUME NEW y \in Int
    PROVE  /\ YearsOf(y) + 32142 = DaysOfYears(y + 4800)
           /\ YearsOf(y) \in Int
BY DEF YearsOf, DaysOfYears

LEMMA JuldayInt ==
    ASSUME NEW g \in BOOLEAN, NEW date, IsDate(date, g)
    PROVE  swe_julday(date, g) \in Int
<1>1. \E y \in Int, m \in Months, d \in Int : date = Date(y, m, d)
    BY DEF IsDate, Date, Days
<1> QED
    BY <1>1, SameMonth

\* The day of a date, in years and months from March of the year -4800 on
\* A date of the Julian calendar in years and months from March of -4800 on,
\* its Julian day, and the date of them.
LEMMA MarchOf ==
    ASSUME NEW date, IsDate(date, FALSE)
    PROVE  \E v \in Int, k \in 4 .. 15, d \in 1 .. 31 :
             /\ v = March(date) /\ k = Month(date) /\ d = date.d
             /\ k \in {5, 7, 10, 12} => d <= 30
             /\ k = 15 => d <= 29 /\ (d = 29 => v % 4 = 3)
             /\ date = Date(InYear(v, k), InMonth(k), d)
             /\ swe_julday(date, FALSE) + Noon = DaysOfYears(v) + (DaysToMonth(k) + d)
<1>0. \E y \in Int, m \in 1 .. 12, d \in 1 .. 31 :
             /\ date = Date(y, m, d) /\ date.y = y /\ date.m = m /\ date.d = d
             /\ d <= Length(y, m, FALSE)
             /\ m \in {4, 6, 9, 11} => d <= 30
             /\ m = 2 => d <= IF Leap(y, FALSE) THEN 29 ELSE 28
    BY Parts, Zenon
<1>1. PICK y \in Int, m \in 1 .. 12, d \in 1 .. 31 :
        /\ date = Date(y, m, d) /\ date.y = y /\ date.m = m /\ date.d = d
        /\ d <= Length(y, m, FALSE)
        /\ m \in {4, 6, 9, 11} => d <= 30
        /\ m = 2 => d <= IF Leap(y, FALSE) THEN 29 ELSE 28
    BY <1>0, Zenon
<1>2. m = 2 => d <= IF y % 4 = 0 THEN 29 ELSE 28
    BY <1>1 DEF Leap
<1>6. d \in 1 .. 31
    BY <1>1
<1>7. PICK J \in Int : J = swe_julday(date, FALSE)
    BY JuldayInt, Zenon
<1>3. CASE m < 3
    <2>1. PICK u \in Int, v \in Int, k \in 14 .. 15 : u = y - 1 /\ v = u + 4800 /\ k = m + 13
        BY <1>3
    <2>2. March(date) = v /\ Month(date) = k
        BY <1>1, <1>3, <2>1 DEF March, Month
    <2>3. (k = 15 => d <= 29 /\ (d = 29 => v % 4 = 3)) /\ (k \in {5, 7, 10, 12} => d <= 30)
        BY <1>2, <2>1
    <2>4. J = YearsOf(u) + DaysToMonth(k) + d - 63
        BY <1>1, <1>7, <1>3, <2>1 DEF swe_julday, YearsOf, DaysToMonth
    <2>5. J + Noon = DaysOfYears(v) + (DaysToMonth(k) + d)
        <3>1. YearsOf(u) \in Int /\ YearsOf(u) + 32142 = DaysOfYears(v)
            BY <2>1, Quarters
        <3>2. DaysToMonth(k) \in Int
            BY <2>1 DEF DaysToMonth
        <3> QED
            BY <1>6, <2>4, <3>1, <3>2 DEF Noon
    <2>6. InYear(v, k) = y /\ InMonth(k) = m
        BY <2>1 DEF InYear, InMonth
    <2>7. k \in 4 .. 15
        BY <2>1
    <2>8. date = Date(InYear(v, k), InMonth(k), d)
        BY <1>1, <2>6
    <2> QED
        BY <1>1, <1>7, <2>2, <2>3, <2>5, <2>7, <2>8, Zenon
<1>4. CASE m >= 3
    <2>1. PICK v \in Int, k \in 4 .. 13 : v = y + 4800 /\ k = m + 1
        BY <1>4
    <2>2. March(date) = v /\ Month(date) = k
        BY <1>1, <1>4, <2>1 DEF March, Month
    <2>3. k # 15 /\ (k \in {5, 7, 10, 12} => d <= 30)
        BY <1>1, <2>1
    <2>4. J = YearsOf(y) + DaysToMonth(k) + d - 63
        BY <1>1, <1>7, <1>4, <2>1 DEF swe_julday, YearsOf, DaysToMonth
    <2>5. J + Noon = DaysOfYears(v) + (DaysToMonth(k) + d)
        <3>1. YearsOf(y) \in Int /\ YearsOf(y) + 32142 = DaysOfYears(v)
            BY <2>1, Quarters
        <3>2. DaysToMonth(k) \in Int
            BY <2>1 DEF DaysToMonth
        <3> QED
            BY <1>6, <2>4, <3>1, <3>2 DEF Noon
    <2>6. InYear(v, k) = y /\ InMonth(k) = m
        BY <2>1 DEF InYear, InMonth
    <2>7. k \in 4 .. 15
        BY <2>1
    <2>8. date = Date(InYear(v, k), InMonth(k), d)
        BY <1>1, <2>6
    <2> QED
        BY <1>1, <1>7, <2>2, <2>3, <2>5, <2>7, <2>8, Zenon
<1>5. m < 3 \/ m >= 3
    OBVIOUS
<1> QED
    BY <1>3, <1>4, <1>5, Zenon

\* The number of years, from 100 u2 - 12220 hundredths of a day.
LEMMA YearOfDay ==
    ASSUME NEW v \in Int, NEW e \in 123 .. 488, e = 488 => v % 4 = 3
    PROVE  (10 * (10 * ((1461 * v) \div 4 + e) - 1222)) \div 36525 = v
<1>1. PICK q \in Int, s \in 0 .. 3 : v = 4 * q + s
    <2>1. v = 4 * (v \div 4) + (v % 4) /\ v \div 4 \in Int /\ v % 4 \in 0 .. 3
        OBVIOUS
    <2> QED
        BY <2>1
<1>2. v % 4 = s
    BY <1>1
<1>3. CASE s = 0
    BY <1>1, <1>2, <1>3
<1>4. CASE s = 1
    BY <1>1, <1>2, <1>4
<1>5. CASE s = 2
    BY <1>1, <1>2, <1>5
<1>6. CASE s = 3
    BY <1>1, <1>2, <1>6
<1> QED
    BY <1>3, <1>4, <1>5, <1>6

\* The month and the day, by the factor 30.6001.
LEMMA MonthOfDay ==
    ASSUME NEW k \in 4 .. 15, NEW d \in 1 .. 31,
           k \in {5, 7, 10, 12} => d <= 30, k = 15 => d <= 29
    PROVE  /\ (10000 * ((306 * k) \div 10 + d)) \div 306001 = k
           /\ (306001 * k) \div 10000 = (306 * k) \div 10
<1>1. CASE k = 4
    BY <1>1
<1>2. CASE k = 5
    BY <1>2
<1>3. CASE k = 6
    BY <1>3
<1>4. CASE k = 7
    BY <1>4
<1>5. CASE k = 8
    BY <1>5
<1>6. CASE k = 9
    BY <1>6
<1>7. CASE k = 10
    BY <1>7
<1>8. CASE k = 11
    BY <1>8
<1>9. CASE k = 12
    BY <1>9
<1>10. CASE k = 13
    BY <1>10
<1>11. CASE k = 14
    BY <1>11
<1>12. CASE k = 15
    BY <1>12
<1> QED
    BY <1>1, <1>2, <1>3, <1>4, <1>5, <1>6, <1>7, <1>8, <1>9, <1>10, <1>11, <1>12

LEMMA NamedIs ==
    ASSUME NEW v \in Int, NEW k \in 4 .. 15, NEW d \in 1 .. 31,
           k \in {5, 7, 10, 12} => d <= 30, k = 15 => d <= 29 /\ (d = 29 => v % 4 = 3)
    PROVE  Named(DaysOfYears(v) + (DaysToMonth(k) + d)) = Date(InYear(v, k), InMonth(k), d)
<1> DEFINE e  == DaysToMonth(k) + d
           u2 == DaysOfYears(v) + e
<1>1. k = 15 => d <= 29
    OBVIOUS
<1>2. e \in 123 .. 488 /\ (e = 488 => k = 15 /\ d = 29)
    BY <1>1, MonthRange DEF DaysToMonth
<1>3. e = 488 => v % 4 = 3
    BY <1>2
<1>4. MonthsOf(e) = k
    BY <1>1, MonthOfDay DEF MonthsOf, DaysToMonth
<1>5. e - DaysOfMonths(k) = d
    BY <1>1, MonthOfDay DEF DaysOfMonths, DaysToMonth
<1> HIDE DEF e
<1>6. Years(u2) = v
    BY <1>2, <1>3, YearOfDay DEF Years, DaysOfYears
<1>7. u2 - DaysOfYears(v) = e
    BY <1>2 DEF DaysOfYears
<1> HIDE DEF u2
<1>8. Named(u2) = Date(InYear(v, k), InMonth(k), e - DaysOfMonths(k))
    BY <1>4, <1>6, <1>7, Zenon DEF Named
<1> QED
    BY <1>5, <1>8, Zenon DEF u2, e

\* The way back from a day of the Julian calendar.
LEMMA NamedDate ==
    ASSUME NEW date, IsDate(date, FALSE)
    PROVE  Named(swe_julday(date, FALSE) + Noon) = date
<1>1. PICK v \in Int, k \in 4 .. 15, d \in 1 .. 31 :
        /\ v = March(date) /\ k = Month(date) /\ d = date.d
        /\ k \in {5, 7, 10, 12} => d <= 30
        /\ k = 15 => d <= 29 /\ (d = 29 => v % 4 = 3)
        /\ date = Date(InYear(v, k), InMonth(k), d)
        /\ swe_julday(date, FALSE) + Noon = DaysOfYears(v) + (DaysToMonth(k) + d)
    BY MarchOf, Zenon
<1>2. Named(DaysOfYears(v) + (DaysToMonth(k) + d)) = Date(InYear(v, k), InMonth(k), d)
    BY <1>1, NamedIs
<1> QED
    BY <1>1, <1>2, Zenon

\* What swe_revjul() does, in these terms.  In the Gregorian calendar it finds
\* the centuries that have had no leap day in two steps.
Start     == 32082
Guess(jd) == jd + Start + centuries(jd + Start) + (IF jd >= 1830692 THEN 1 ELSE 0)

LEMMA RevjulNamed ==
    ASSUME NEW jd \in Int
    PROVE  /\ swe_revjul(jd, FALSE) = Named(jd + Noon)
           /\ swe_revjul(jd, TRUE) = Named(jd + Noon + centuries(Guess(jd)))
<1>1. centuries(Guess(jd)) \in Int
    BY DEF Guess, centuries, Start
<1>2. /\ 123 + (jd + Start) = jd + Noon
      /\ 123 + (jd + Start + centuries(Guess(jd))) = jd + Noon + centuries(Guess(jd))
    BY <1>1 DEF Noon, Start
<1>3. swe_revjul(jd, FALSE) = Named(123 + (jd + Start))
    BY DEF Start, swe_revjul, Named, Years, DaysOfYears, MonthsOf, DaysOfMonths, InYear, InMonth
<1>4. swe_revjul(jd, TRUE)
        = Named(123 + (IF TRUE THEN jd + Start + centuries(Guess(jd)) ELSE jd + Start))
    BY DEF Start, Guess, swe_revjul, Named, Years, DaysOfYears, MonthsOf, DaysOfMonths, InYear, InMonth
<1> QED
    BY <1>2, <1>3, <1>4, Zenon

LEMMA JulianBack ==
    ASSUME NEW date, IsDate(date, FALSE)
    PROVE  swe_revjul(swe_julday(date, FALSE), FALSE) = date
<1>1. swe_julday(date, FALSE) \in Int /\ Named(swe_julday(date, FALSE) + Noon) = date
    BY NamedDate, JuldayInt
<1> QED
    BY <1>1, RevjulNamed

-----------------------------------------------------------------------------
(* The way back in the Gregorian calendar.                                 *)

\* The leap days left out by a year, and by a day, counted like March().
Lost(v)    == v \div 100 - v \div 400
Skipped(D) == D \div 36525 - D \div 146100

LEMMA CenturiesAre ==
    ASSUME NEW D \in Int PROVE centuries(D) = Skipped(D) - 38 /\ Skipped(D) \in Int
BY DEF centuries, Skipped

\* The days the Gregorian calendar is ahead, before the year 0 and after it
LEMMA Ahead ==
    ASSUME NEW u \in Int
    PROVE  LET u2 == Abs(u) \div 100 - Abs(u) \div 400
               bc == IF u < 0 /\ u % 100 = 0 /\ u % 400 # 0 THEN 1 ELSE 0
           IN  (IF u < 0 THEN -u2 ELSE u2) - 2 + bc = Lost(u + 4800) - 38
<1>1. Lost(u + 4800) = u \div 100 + 48 - (u \div 400 + 12)
    BY DEF Lost
<1>2. CASE u >= 0
    BY <1>1, <1>2 DEF Abs
<1>3. CASE u < 0
    BY <1>1, <1>3 DEF Abs
<1> QED
    BY <1>2, <1>3

\* A century year that has no leap day
NoLeapDay(y) == y % 100 = 0 /\ y % 400 # 0

\* A date of the Gregorian calendar is one of the Julian calendar, and none
\* is a leap day that such a year does not have.
LEMMA GregorianDate ==
    ASSUME NEW date, IsDate(date, TRUE)
    PROVE  /\ IsDate(date, FALSE)
           /\ date.m = 2 /\ date.d = 29 => ~NoLeapDay(date.y)
<1>0. \E y \in Int, m \in 1 .. 12, d \in 1 .. 31 :
             /\ date = Date(y, m, d) /\ date.y = y /\ date.m = m /\ date.d = d
             /\ d <= Length(y, m, TRUE)
             /\ m \in {4, 6, 9, 11} => d <= 30
             /\ m = 2 => d <= IF Leap(y, TRUE) THEN 29 ELSE 28
    BY Parts, Zenon
<1>1. PICK y \in Int, m \in 1 .. 12, d \in 1 .. 31 :
        /\ date = Date(y, m, d) /\ date.y = y /\ date.m = m /\ date.d = d
        /\ d <= Length(y, m, TRUE)
        /\ m \in {4, 6, 9, 11} => d <= 30
        /\ m = 2 => d <= IF Leap(y, TRUE) THEN 29 ELSE 28
    BY <1>0, Zenon
<1>2. m = 2 => d <= IF Leap(y, FALSE) THEN 29 ELSE 28
    BY <1>1 DEF Leap
<1>3. d <= Length(y, m, FALSE)
    BY <1>1, <1>2 DEF Length
<1>4. IsDate(date, FALSE)
    <2>1. date \in [y : Int, m : Months, d : Days]
        BY DEF IsDate
    <2> QED
        BY <1>1, <1>3, <2>1 DEF IsDate
<1>5. m = 2 /\ d = 29 => ~NoLeapDay(y)
    BY <1>1 DEF Leap, NoLeapDay
<1> QED
    BY <1>1, <1>4, <1>5, Zenon

LEMMA JuldayLost ==
    ASSUME NEW date, IsDate(date, TRUE)
    PROVE  swe_julday(date, TRUE) = swe_julday(date, FALSE) - (Lost(March(date)) - 38)
<1>1. PICK y \in Int, m \in Months, d \in Int : date = Date(y, m, d)
    BY DEF IsDate, Date, Days
<1>2. date.y = y /\ date.m = m /\ date.d = d
    BY <1>1 DEF Date
<1>3. PICK u \in Int : u = IF m < 3 THEN y - 1 ELSE y
    OBVIOUS
<1>4. March(date) = u + 4800
    BY <1>2, <1>3 DEF March, Months
<1> DEFINE u2 == Abs(u) \div 100 - Abs(u) \div 400
           bc == IF u < 0 /\ u % 100 = 0 /\ u % 400 # 0 THEN 1 ELSE 0
           z  == IF u < 0 THEN -u2 ELSE u2
           a  == Lost(u + 4800)
           J  == swe_julday(date, FALSE)
<1>5. swe_julday(date, TRUE) = J - z + 2 - bc
    BY <1>2, <1>3 DEF swe_julday, Months
<1>6. z - 2 + bc = a - 38
    BY Ahead
<1>7. z \in Int /\ bc \in Int /\ a \in Int
    <2>1. Abs(u) \in Int
        BY <1>3 DEF Abs
    <2> QED
        BY <2>1, <1>3 DEF Lost
<1>8. J \in Int
    BY GregorianDate, JuldayInt
<1> HIDE DEF u2, bc, z, a, J
<1>9. J - z + 2 - bc = J - (a - 38)
    BY <1>6, <1>7, <1>8
<1>10. swe_julday(date, TRUE) = J - (a - 38)
    BY <1>5, <1>9
<1>11. a = Lost(March(date))
    BY <1>4 DEF a
<1> QED
    BY <1>10, <1>11 DEF J

\* Less than a century later at most one leap day more has been left out.
UnderCentury(n) == -38 <= n /\ n < 36525

LEMMA SkippedLater ==
    ASSUME NEW D \in Int, NEW n \in Int, 0 <= n, UnderCentury(n)
    PROVE  Skipped(D + n) \in {Skipped(D), Skipped(D) + 1}
<1>0. n < 36525
    BY DEF UnderCentury
<1>1. PICK c \in Int, e \in {0, 1} : c = D \div 36525 /\ (D + n) \div 36525 = c + e
    BY <1>0
<1>2. D \div 146100 = c \div 4 /\ (D + n) \div 146100 = (c + e) \div 4
    BY <1>1
<1>3. Skipped(D) = c - c \div 4 /\ Skipped(D + n) = c + e - (c + e) \div 4
    BY <1>1, <1>2 DEF Skipped
<1>4. c + e - (c + e) \div 4 \in {c - c \div 4, c - c \div 4 + 1}
    BY <1>1
<1> QED
    BY <1>3, <1>4

\* The leap days left out by a day are those left out by its year.
LEMMA CenturyOfDay ==
    ASSUME NEW c \in Int, NEW g \in Int, 0 <= g, g < 36525
    PROVE  (36525 * c + g) \div 36525 = c /\ (36525 * c + g) \div 146100 = c \div 4
<1>1. PICK a \in Int, b \in 0 .. 3 : c = 4 * a + b
    <2>1. c = 4 * (c \div 4) + (c % 4) /\ c \div 4 \in Int /\ c % 4 \in 0 .. 3
        OBVIOUS
    <2> QED
        BY <2>1
<1>2. (36525 * c + g) \div 36525 = c
    OBVIOUS
<1>3. 36525 * c + g = 146100 * a + (36525 * b + g) /\ c \div 4 = a
    BY <1>1
<1>4. PICK h \in Int : h = 36525 * b + g /\ 0 <= h /\ h < 146100
    BY <1>1
<1>5. (146100 * a + h) \div 146100 = a
    BY <1>1, <1>4
<1> QED
    BY <1>2, <1>3, <1>4, <1>5

LEMMA SkippedByYear ==
    ASSUME NEW v \in Int, NEW e \in 0 .. 365
    PROVE  Skipped(DaysOfYears(v) + e) = Lost(v)
<1>1. PICK c \in Int, w \in 0 .. 99 : v = 100 * c + w
    <2>1. v = 100 * (v \div 100) + (v % 100) /\ v \div 100 \in Int /\ v % 100 \in 0 .. 99
        OBVIOUS
    <2> QED
        BY <2>1
<1>2. w \in 0 .. 99
    BY <1>1
<1>3. PICK f \in Int : f = (1461 * w) \div 4 /\ 0 <= f /\ f <= 36159
    BY <1>2
<1>4. DaysOfYears(v) = 36525 * c + f
    BY <1>1, <1>3 DEF DaysOfYears
<1>5. PICK g \in Int : g = f + e /\ 0 <= g /\ g < 36525
    BY <1>3
<1>6. DaysOfYears(v) + e = 36525 * c + g
    BY <1>1, <1>3, <1>4, <1>5
<1>7. Skipped(36525 * c + g) = c - c \div 4
    BY <1>1, <1>5, CenturyOfDay DEF Skipped
<1>8. v \div 100 = c /\ v \div 400 = c \div 4
    BY <1>1
<1>9. Lost(v) = c - c \div 4
    BY <1>8 DEF Lost
<1> QED
    BY <1>6, <1>7, <1>9

\* A century that leaves out a leap day does not begin the day after a date.
LEMMA SkippedTomorrow ==
    ASSUME NEW v \in Int, NEW e \in 0 .. 365,
           e = 365 => v % 4 = 3 /\ ~NoLeapDay(v + 1)
    PROVE  Skipped(DaysOfYears(v) + (e + 1)) = Lost(v)
<1>1. CASE e < 365
    <2>1. e + 1 \in 0 .. 365
        BY <1>1
    <2> QED
        BY <2>1, SkippedByYear
<1>2. CASE e = 365
    <2>1. DaysOfYears(v) + (e + 1) = DaysOfYears(v + 1) + 0
        BY <1>2 DEF DaysOfYears
    <2>2. Skipped(DaysOfYears(v + 1) + 0) = Lost(v + 1)
        BY SkippedByYear
    <2>3. Lost(v + 1) = Lost(v)
        <3>1. PICK a \in Int, b \in Int : a = v \div 100 /\ b = v \div 400
            OBVIOUS
        <3>2. CASE (v + 1) % 100 # 0
            <4>1. (v + 1) \div 100 = a /\ (v + 1) \div 400 = b
                BY <3>1, <3>2
            <4> QED
                BY <3>1, <4>1 DEF Lost
        <3>3. CASE (v + 1) % 400 = 0
            <4>1. (v + 1) \div 100 = a + 1 /\ (v + 1) \div 400 = b + 1
                BY <3>1, <3>3
            <4>2. Lost(v + 1) = (a + 1) - (b + 1) /\ Lost(v) = a - b
                BY <3>1, <4>1 DEF Lost
            <4> QED
                BY <3>1, <4>2
        <3> QED
            BY <1>2, <3>2, <3>3 DEF NoLeapDay
    <2> QED
        BY <2>1, <2>2, <2>3
<1> QED
    BY <1>1, <1>2

\* The Julian day of a date of the Gregorian calendar, from the days gone by
\* in its year and before it
InMarch         == 123
DayOfYear(date) == DaysToMonth(Month(date)) + date.d - InMarch
Elapsed(date)   == DaysOfYears(March(date)) + DayOfYear(date)
Behind(v)       == Lost(v) - 38

\* The days of a year; the last one is a leap day.
DayIn(v, e) == e \in 0 .. 365 /\ (e = 365 => v % 4 = 3 /\ ~NoLeapDay(v + 1))

LEMMA GregorianDay ==
    ASSUME NEW date, IsDate(date, TRUE)
    PROVE  /\ March(date) \in Int /\ DayIn(March(date), DayOfYear(date))
           /\ Elapsed(date) \in Int
           /\ swe_julday(date, FALSE) + Noon = Elapsed(date) + InMarch
           /\ swe_julday(date, TRUE) + Start = Elapsed(date) - Behind(March(date))
           /\ swe_julday(date, TRUE) \in Int
<1>1. IsDate(date, FALSE) /\ (date.m = 2 /\ date.d = 29 => ~NoLeapDay(date.y))
    BY GregorianDate, Zenon
<1>2. PICK v \in Int, k \in 4 .. 15, d \in 1 .. 31 :
        /\ v = March(date) /\ k = Month(date) /\ d = date.d
        /\ k \in {5, 7, 10, 12} => d <= 30
        /\ k = 15 => d <= 29 /\ (d = 29 => v % 4 = 3)
        /\ date = Date(InYear(v, k), InMonth(k), d)
        /\ swe_julday(date, FALSE) + Noon = DaysOfYears(v) + (DaysToMonth(k) + d)
    BY <1>1, MarchOf, Zenon
<1>3. /\ DaysToMonth(k) + d \in 123 .. 488
      /\ DaysToMonth(k) + d = 488 => k = 15 /\ d = 29
    BY <1>2, MonthRange DEF DaysToMonth
<1>4. PICK e \in 0 .. 365 : /\ e = DayOfYear(date) /\ DaysToMonth(k) + d = e + 123
                            /\ e = 365 => k = 15 /\ d = 29
    <2>1. PICK n \in 123 .. 488 : n = DaysToMonth(k) + d /\ (n = 488 => k = 15 /\ d = 29)
        BY <1>3
    <2>2. n - 123 \in 0 .. 365 /\ n = (n - 123) + 123 /\ (n - 123 = 365 => n = 488)
        BY <2>1
    <2>3. n - 123 = DayOfYear(date)
        <3>1. DaysToMonth(k) + d - 123 = DayOfYear(date)
            <4>1. Month(date) = k /\ date.d = d
                BY <1>2
            <4> QED
                BY <4>1 DEF DayOfYear, InMarch
        <3>2. PICK f \in Int : f = DaysToMonth(k)
            BY <1>2 DEF DaysToMonth
        <3>3. d \in Int
            BY <1>2
        <3>4. n = f + d
            BY <2>1, <3>2
        <3> QED
            BY <3>1, <3>2, <3>4
    <2> QED
        BY <2>1, <2>2, <2>3
<1>5. ASSUME k = 15, d = 29
      PROVE  v % 4 = 3 /\ ~NoLeapDay(v + 1)
    <2>1. date.y = InYear(v, k) /\ date.m = InMonth(k)
        BY <1>2 DEF Date
    <2>2. date.y = v - 4799 /\ date.m = 2
        BY <1>5, <2>1 DEF InYear, InMonth
    <2>3. ~NoLeapDay(v - 4799)
        BY <1>1, <1>2, <1>5, <2>2
    <2>4. ~NoLeapDay(v + 1)
        BY <2>3 DEF NoLeapDay
    <2> QED
        BY <1>2, <1>5, <2>4
<1>6. PICK D \in Int : D = DaysOfYears(v) + e
    BY <1>4 DEF DaysOfYears
<1>7. DaysOfYears(v) + (e + 123) = D + 123
    BY <1>4, <1>6 DEF DaysOfYears
<1>8. PICK J \in Int, G \in Int : J = swe_julday(date, FALSE) /\ G = swe_julday(date, TRUE)
    BY <1>1, JuldayInt
<1>9. PICK a \in Int : a = Lost(v)
    BY <1>2 DEF Lost
<1>10. J + Noon = D + 123
    BY <1>2, <1>4, <1>7, <1>8, Zenon
<1>11. G = J - (a - 38)
    BY <1>2, <1>8, <1>9, JuldayLost
<1>12. G + Start = D - (a - 38)
    BY <1>10, <1>11 DEF Noon, Start
<1>13. v \in Int /\ v = March(date) /\ e \in 0 .. 365 /\ e = DayOfYear(date)
    BY <1>2, <1>4
<1>14. e = 365 => v % 4 = 3 /\ ~NoLeapDay(v + 1)
    BY <1>4, <1>5
<1>15. D = Elapsed(date)
    BY <1>6, <1>13 DEF Elapsed
<1>16. swe_julday(date, FALSE) + Noon = Elapsed(date) + InMarch
    BY <1>8, <1>10, <1>15 DEF InMarch
<1>17. swe_julday(date, TRUE) + Start = Elapsed(date) - Behind(March(date))
    <2>1. Behind(March(date)) = a - 38
        BY <1>9, <1>13 DEF Behind
    <2> QED
        BY <1>8, <1>12, <1>15, <2>1, Zenon
<1>18. Elapsed(date) \in Int /\ swe_julday(date, TRUE) \in Int
    BY <1>6, <1>8, <1>15
<1>19. DayIn(v, e)
    BY <1>13, <1>14 DEF DayIn
<1> QED
    BY <1>13, <1>16, <1>17, <1>18, <1>19, Zenon

\* Where the Gregorian calendar has fallen behind the Julian one.
LEMMA BehindFrom300 ==
    ASSUME NEW v \in Int
    PROVE  Lost(v) \in Int /\ Behind(v) \in Int /\ (Behind(v) >= 1 <=> v >= 5100)
<1>1. Lost(v) \in Int /\ (v >= 5100 => Lost(v) >= 39) /\ (v < 5100 => Lost(v) <= 38)
    BY DEF Lost
<1> QED
    BY <1>1 DEF Behind

\* The day from which swe_revjul() counts one leap day more.
Extra == 1862774

LEMMA Threshold ==
    ASSUME NEW v \in Int, NEW e \in 0 .. 365, DayIn(v, e)
    PROVE  (DaysOfYears(v) + e) - Behind(v) >= Extra <=> Behind(v) >= 1
<1>0. Behind(v) >= 1 <=> v >= 5100
    BY BehindFrom300
<1>1. CASE v >= 5100
    <2>1. PICK w \in Int : w >= 0 /\ v = 5100 + w
        BY <1>1
    <2>2. DaysOfYears(v) >= 1862775 + 365 * w
        BY <2>1 DEF DaysOfYears
    <2>3. Behind(v) <= 1 + w
        BY <2>1 DEF Behind, Lost
    <2>4. DaysOfYears(v) \in Int /\ Behind(v) \in Int
        BY DEF DaysOfYears, Behind, Lost
    <2> QED
        BY <1>0, <1>1, <2>1, <2>2, <2>3, <2>4 DEF Extra
<1>2. CASE v = 5099
    <2>1. DaysOfYears(v) = 1862409 /\ Behind(v) = 0
        BY <1>2 DEF DaysOfYears, Behind, Lost
    <2>2. e # 365
        BY <1>2 DEF DayIn, NoLeapDay
    <2> QED
        BY <1>0, <1>2, <2>1, <2>2 DEF Extra
<1>3. CASE v < 5099
    <2>1. PICK w \in Int : w >= 2 /\ v = 5100 - w
        BY <1>3
    <2>2. DaysOfYears(v) <= 1862775 - 365 * w
        BY <2>1 DEF DaysOfYears
    <2>3. Behind(v) >= -1 - w
        BY <2>1 DEF Behind, Lost
    <2>4. DaysOfYears(v) \in Int /\ Behind(v) \in Int
        BY DEF DaysOfYears, Behind, Lost
    <2> QED
        BY <1>0, <1>3, <2>1, <2>2, <2>3, <2>4 DEF Extra
<1> QED
    BY <1>1, <1>2, <1>3

\* Up to the year 4870299 the Gregorian calendar is less than a century of
\* days behind.  Up to Reach, then, the guess is the right day or the next one.
Reach == 4800000
InReach(date) == -4720 <= date.y /\ date.y <= Reach + 2

LEMMA GuessOf ==
    ASSUME NEW D \in Int, NEW B \in Int, NEW G \in Int, UnderCentury(B),
           G + Start = D - B, Skipped(D) = B + 38, B >= 1 <=> D - B >= Extra
    PROVE  Guess(G) \in {D, D + 1}
<1>0. -38 <= B /\ B < 36525
    BY DEF UnderCentury
<1>1. centuries(D - B) = Skipped(D - B) - 38 /\ Skipped(D - B) \in Int
    BY CenturiesAre
<1>2. PICK S \in Int : S = Skipped(D - B) /\ centuries(D - B) = S - 38
    BY <1>1
<1>3. G >= 1830692 <=> B >= 1
    BY DEF Start, Extra
<1>4. Guess(G) = D - B + (S - 38) + (IF B >= 1 THEN 1 ELSE 0)
    BY <1>2, <1>3 DEF Guess
<1>5. CASE B >= 1
    <2>1. Skipped((D - B) + B) \in {Skipped(D - B), Skipped(D - B) + 1}
        <3>1. PICK x \in Int : x = D - B
            OBVIOUS
        <3>2. Skipped(x + B) \in {Skipped(x), Skipped(x) + 1}
            <4>1. 0 <= B
                BY <1>5
            <4> QED
                BY <3>1, <4>1, SkippedLater, Zenon
        <3> QED
            BY <3>1, <3>2, Zenon
    <2>2. (D - B) + B = D
        OBVIOUS
    <2>3. B + 38 \in {S, S + 1}
        BY <1>2, <2>1, <2>2
    <2> QED
        BY <1>4, <1>5, <2>3
<1>6. CASE B < 1
    <2>1. Skipped(D + (-B)) \in {Skipped(D), Skipped(D) + 1}
        <3>1. PICK n \in Int : n = -B /\ 0 <= n /\ UnderCentury(n)
            BY <1>0, <1>6 DEF UnderCentury
        <3>2. Skipped(D + n) \in {Skipped(D), Skipped(D) + 1}
            BY <3>1, SkippedLater, Zenon
        <3> QED
            BY <3>1, <3>2
    <2>2. D + (-B) = D - B
        OBVIOUS
    <2>3. S \in {B + 38, B + 38 + 1}
        BY <1>2, <2>1, <2>2
    <2> QED
        BY <1>4, <1>6, <2>3
<1> QED
    BY <1>5, <1>6

LEMMA GuessIs ==
    ASSUME NEW date, IsDate(date, TRUE), InReach(date)
    PROVE  Guess(swe_julday(date, TRUE)) \in {Elapsed(date), Elapsed(date) + 1}
<1> DEFINE v == March(date)
           e == DayOfYear(date)
           D == Elapsed(date)
           B == Behind(v)
           G == swe_julday(date, TRUE)
<1>1. v \in Int /\ DayIn(v, e) /\ D \in Int /\ G + Start = D - B /\ G \in Int
    BY GregorianDay, Zenon
<1>2. e \in 0 .. 365
    BY <1>1 DEF DayIn
<1>3. D = DaysOfYears(v) + e
    BY DEF Elapsed
<1>4. 0 <= v /\ v <= Reach + 4802
    <2>1. date.y \in Int /\ date.m \in Months
        BY DEF IsDate
    <2> QED
        BY <2>1 DEF March, Reach, InReach
<1> HIDE DEF v, e, D, G
<1>5. UnderCentury(B)
    BY <1>1, <1>4 DEF Behind, Lost, Reach, UnderCentury
<1>6. B \in Int /\ (B >= 1 <=> D - B >= Extra)
    <2>1. B \in Int
        BY <1>1, BehindFrom300
    <2>2. (DaysOfYears(v) + e) - B >= Extra <=> B >= 1
        BY <1>1, <1>2, Threshold, Zenon
    <2> HIDE DEF B
    <2>3. PICK x \in Int : x = D - B
        BY <1>1, <2>1
    <2>4. (DaysOfYears(v) + e) - B = x
        BY <1>3, <2>3
    <2>5. x >= Extra <=> B >= 1
        BY <2>2, <2>4, Zenon
    <2> QED
        BY <2>1, <2>3, <2>5
<1>7. Skipped(D) = B + 38
    <2>1. Skipped(DaysOfYears(v) + e) = Lost(v)
        BY <1>1, <1>2, SkippedByYear
    <2>2. Lost(v) \in Int
        BY <1>1, BehindFrom300
    <2>3. Lost(v) = B + 38
        BY <2>2 DEF Behind
    <2> HIDE DEF B
    <2> QED
        BY <1>3, <2>1, <2>3, Zenon
<1> HIDE DEF B
<1>8. Guess(G) \in {D, D + 1}
    BY <1>1, <1>5, <1>6, <1>7, GuessOf, Zenon
<1> QED
    BY <1>8 DEF G, D

\* swe_revjul() is the inverse of swe_julday() in the Gregorian calendar.
LEMMA GregorianBack ==
    ASSUME NEW date, IsDate(date, TRUE), InReach(date)
    PROVE  swe_revjul(swe_julday(date, TRUE), TRUE) = date
<1> DEFINE v == March(date)
           e == DayOfYear(date)
           D == Elapsed(date)
           B == Behind(v)
           G == swe_julday(date, TRUE)
           J == swe_julday(date, FALSE)
<1>1. /\ v \in Int /\ DayIn(v, e) /\ D \in Int /\ G \in Int
      /\ G + Start = D - B /\ J + Noon = D + InMarch
    BY GregorianDay, Zenon
<1>2. Guess(G) \in {D, D + 1}
    BY GuessIs, Zenon
<1>3. e \in 0 .. 365 /\ (e = 365 => v % 4 = 3 /\ ~NoLeapDay(v + 1))
    BY <1>1 DEF DayIn
<1>4. D = DaysOfYears(v) + e
    BY DEF Elapsed
<1>5. IsDate(date, FALSE) /\ Named(J + Noon) = date
    BY GregorianDate, NamedDate, Zenon
<1> HIDE DEF v, e, D, G, J
<1>6. Skipped(D) = Lost(v) /\ Skipped(D + 1) = Lost(v)
    <2>1. Skipped(D) = Lost(v)
        BY <1>1, <1>3, <1>4, SkippedByYear
    <2>2. Skipped(DaysOfYears(v) + (e + 1)) = Lost(v)
        BY <1>1, <1>3, SkippedTomorrow
    <2>3. DaysOfYears(v) + (e + 1) = D + 1
        BY <1>1, <1>3, <1>4 DEF DaysOfYears
    <2> QED
        BY <2>1, <2>2, <2>3
<1>7. centuries(Guess(G)) = B
    <2>1. centuries(D) = B /\ centuries(D + 1) = B
        BY <1>1, <1>6, CenturiesAre DEF Behind
    <2> QED
        BY <1>2, <2>1
<1>8. B \in Int
    BY <1>1, BehindFrom300
<1> HIDE DEF B
<1>9. G + Noon + B = D + InMarch
    BY <1>1, <1>8 DEF Start, Noon, InMarch
<1>10. swe_revjul(G, TRUE) = Named(G + Noon + centuries(Guess(G)))
    BY <1>1, RevjulNamed, Zenon
<1>11. swe_revjul(G, TRUE) = date
    BY <1>1, <1>5, <1>7, <1>9, <1>10, Zenon
<1> QED
    BY <1>11 DEF G

LEMMA Back ==
    ASSUME NEW g \in BOOLEAN, NEW date, IsDate(date, g), InReach(date)
    PROVE  swe_revjul(swe_julday(date, g), g) = date
<1>1. CASE g = TRUE
    <2>1. IsDate(date, TRUE)
        BY <1>1, Zenon
    <2>2. swe_revjul(swe_julday(date, TRUE), TRUE) = date
        BY <2>1, GregorianBack, Zenon
    <2> QED
        BY <1>1, <2>2, Zenon
<1>2. CASE g = FALSE
    <2>1. IsDate(date, FALSE)
        BY <1>2, Zenon
    <2>2. swe_revjul(swe_julday(date, FALSE), FALSE) = date
        BY <2>1, JulianBack, Zenon
    <2> QED
        BY <1>2, <2>2, Zenon
<1> QED
    BY <1>1, <1>2, Zenon

-----------------------------------------------------------------------------
(* The dates swe_date_conversion() accepts.                                *)

\* The 0th of a month, and the days after its last, are days of the months
\* before and after it.
Near(date, y) == date.y \in Int /\ date.y - y \in {-1, 0, 1}

LEMMA OtherName ==
    ASSUME NEW g \in BOOLEAN, NEW y \in Int, NEW m \in Months,
           NEW d \in 0 .. 32, d \notin 1 .. Length(y, m, g)
    PROVE  \E other : /\ IsDate(other, g) /\ Near(other, y)
                      /\ swe_julday(other, g) = swe_julday(Date(y, m, d), g)
<1> DEFINE n == Length(y, m, g)
           f == First(y, m, g)
<1>1. /\ n \in 28 .. 31 /\ f \in Int
      /\ swe_julday(Date(y, m, d), g) = f + d - 1
    BY Lengths, SameMonth DEF Months
<1> HIDE DEF n, f
<1>2. CASE d = 0
    <2> DEFINE first == Date(y, m, 1)
    <2>1. IsDate(first, g) /\ first.y = y
        BY <1>1 DEF n, IsDate, Date, Days, Months
    <2>2. swe_julday(first, g) = f
        BY DEF First, f
    <2>3. /\ IsDate(Yesterday(first, g), g)
          /\ swe_julday(Yesterday(first, g), g) = swe_julday(first, g) - 1
        BY <2>1, PreviousDay
    <2>4. Near(Yesterday(first, g), y)
        BY DEF Yesterday, Date, Near
    <2> HIDE DEF first
    <2>5. swe_julday(Yesterday(first, g), g) = swe_julday(Date(y, m, d), g)
        BY <1>1, <1>2, <2>2, <2>3
    <2> QED
        BY <2>3, <2>4, <2>5, Zenon
<1>3. CASE d > n
    <2>1. PICK y2 \in Int, m2 \in Months :
            y2 - y \in {0, 1} /\ First(y2, m2, g) = f + n
        <3>1. CASE m < 12
            <4>1. m + 1 \in Months /\ y - y = 0 /\ First(y, m + 1, g) = f + n
                BY <3>1, MonthByMonth DEF Months, f, n
            <4> QED
                BY <4>1
        <3>2. CASE m = 12
            <4>1. 1 \in Months /\ y + 1 - y = 1 /\ First(y + 1, 1, g) = f + n
                BY <3>2, MonthByMonth DEF Months, f, n
            <4> QED
                BY <4>1
        <3> QED
            BY <3>1, <3>2 DEF Months
    <2>2. PICK k \in 1 .. 4 : k = d - n
        BY <1>1, <1>3
    <2>3. Date(y2, m2, k).y = y2 /\ IsDate(Date(y2, m2, k), g)
        <3>1. Length(y2, m2, g) \in 28 .. 31
            BY Lengths DEF Months
        <3> QED
            BY <3>1 DEF IsDate, Date, Days
    <2>4. swe_julday(Date(y2, m2, k), g) = First(y2, m2, g) + k - 1
        BY SameMonth
    <2>5. swe_julday(Date(y2, m2, k), g) = swe_julday(Date(y, m, d), g)
        BY <1>1, <2>1, <2>2, <2>4
    <2>6. Near(Date(y2, m2, k), y)
        BY <2>1, <2>3 DEF Near
    <2> QED
        BY <2>3, <2>5, <2>6, Zenon
<1> QED
    BY <1>1, <1>2, <1>3 DEF n

\* A date is accepted if and only if it is one of the calendar.
LEMMA Accepted ==
    ASSUME NEW g \in BOOLEAN, NEW y \in Int, NEW m \in Months, NEW d \in 0 .. 32,
           \A date : Near(date, y) => InReach(date)
    PROVE  swe_date_conversion(Date(y, m, d), g) = "OK" <=> d \in 1 .. Length(y, m, g)
<1> DEFINE date == Date(y, m, d)
           J    == swe_julday(date, g)
<1>1. swe_date_conversion(date, g) = "OK" <=> swe_revjul(J, g) = date
    BY DEF swe_date_conversion
<1>2. CASE d \in 1 .. Length(y, m, g)
    <2>1. IsDate(date, g)
        <3>1. Length(y, m, g) \in 28 .. 31
            BY Lengths DEF Months
        <3> QED
            BY <1>2, <3>1 DEF IsDate, Date, Days
    <2>2. Near(date, y)
        BY DEF Date, Near
    <2>3. InReach(date)
        BY <2>2, Zenon
    <2>4. swe_revjul(J, g) = date
        BY <2>1, <2>3, Back, Zenon
    <2> QED
        BY <1>1, <1>2, <2>4, Zenon
<1>3. CASE d \notin 1 .. Length(y, m, g)
    <2>1. PICK other : /\ IsDate(other, g) /\ Near(other, y)
                       /\ swe_julday(other, g) = J
        BY <1>3, OtherName, Zenon
    <2>2. swe_revjul(J, g) = other
        <3>1. InReach(other)
            BY <2>1, Zenon
        <3>2. swe_revjul(swe_julday(other, g), g) = other
            BY <2>1, <3>1, Back, Zenon
        <3> QED
            BY <2>1, <3>2, Zenon
    <2>3. ~IsDate(date, g)
        BY <1>3 DEF IsDate, Date, Days
    <2> QED
        BY <1>1, <1>3, <2>1, <2>2, <2>3, Zenon
<1> QED
    BY <1>2, <1>3, Zenon

\* The years the days go by in.
InSpan == -4713 <= today.y /\ today.y <= Reach + 1

LEMMA SpanStep ==
    ASSUME DateInv, InSpan, LastYear <= Reach, [Next]_vars
    PROVE  InSpan'
<1>1. today.y \in Int /\ Reach \in Int /\ LastYear \in Int
    BY BirthTimeAssumption DEF DateInv, IsDate, Reach
<1>2. CASE Midnight
    <2>1. today'.y \in {today.y, today.y + 1, 1582}
        BY <1>1, <1>2 DEF Midnight, Tomorrow, Date
    <2>2. today'.y = 1582 => 1582 <= Reach
        BY DEF Reach
    <2>3. today.y <= LastYear
        BY <1>2 DEF Midnight
    <2> QED
        BY <1>1, <2>1, <2>2, <2>3 DEF InSpan
<1>3. CASE Year
    <2>1. today'.y = today.y + 1 /\ today.y <= LastYear
        BY <1>1, <1>3 DEF Year, DateInv, IsDate
    <2> QED
        BY <1>1, <2>1 DEF InSpan
<1>4. CASE UNCHANGED today
    BY <1>4 DEF InSpan
<1> QED
    BY <1>2, <1>3, <1>4 DEF Next, vars, Answered, Transit, Horoscope, Chart

LEMMA CountAndNames ==
    ASSUME DateInv, InSpan
    PROVE  DaysAreCounted
<1>1. PICK g \in BOOLEAN : g = Gregorian
    BY GregorianType
<1>2. IsDate(today, g) /\ swe_julday(today, g) = number
    BY <1>1, Zenon DEF DateInv
<1>3. PICK y \in Int, m \in Months, e \in Days : today = Date(y, m, e)
    BY <1>2 DEF IsDate, Date
<1>4. today.y = y /\ today.m = m
    BY <1>3 DEF Date
<1>5. \A date : Near(date, y) => InReach(date)
    BY <1>4 DEF Near, InSpan, InReach, Reach
<1>6. InReach(today)
    BY <1>4 DEF InSpan, InReach, Reach
<1>7. JuldayCounts
    BY Civil, Zenon DEF DateInv, JuldayCounts
<1>8. swe_revjul(number, g) = today
    BY <1>2, <1>6, Back, Zenon
<1>9. Gregorian => revjul(number) = today
    <2>1. Gregorian => g = TRUE
        BY <1>1
    <2> QED
        BY <1>8, <2>1, Zenon DEF revjul
<1>10. ASSUME NEW d \in 0 .. 32
       PROVE  swe_date_conversion([today EXCEPT !.d = d], g) = "OK"
                <=> d \in 1 .. Length(today.y, today.m, g)
    <2>1. [today EXCEPT !.d = d] = Date(y, m, d)
        BY <1>3 DEF Date
    <2>2. swe_date_conversion(Date(y, m, d), g) = "OK" <=> d \in 1 .. Length(y, m, g)
        BY <1>5, Accepted, Zenon
    <2> QED
        BY <1>4, <2>1, <2>2, Zenon
<1> QED
    BY <1>1, <1>7, <1>8, <1>9, <1>10, Zenon DEF DaysAreCounted

\* swe_julday() and pysw.julday() count days, swe_revjul() names them, and
\* swe_date_conversion() accepts the dates of the calendar and no others, from
\* the beginning of the count to the year 4800000.
THEOREM DaysAreNamed ==
    ASSUME LastYear <= Reach
    PROVE  Spec => []DaysAreCounted
<1>1. Init => DateInv /\ InSpan
    <2>1. ASSUME Init PROVE InSpan
        BY <2>1 DEF Init, InSpan, Date, Reach
    <2> QED
        BY <2>1, DateInit
<1>2. DateInv /\ InSpan /\ [Next]_vars => DateInv' /\ InSpan'
    BY DateStep, SpanStep
<1>3. DateInv /\ InSpan => DaysAreCounted
    BY CountAndNames
<1> QED
    BY <1>1, <1>2, <1>3, PTL DEF Spec

-----------------------------------------------------------------------------
(* Time zones.                                                             *)

\* The date n days later
Later(date, n) == IF n = -1 THEN Yesterday(date, TRUE)
                  ELSE IF n = 1 THEN Tomorrow(date, TRUE) ELSE date

LEMMA NearDays ==
    ASSUME NEW g \in BOOLEAN, NEW date, IsDate(date, g)
    PROVE  /\ Near(Yesterday(date, g), date.y) /\ Near(Tomorrow(date, g), date.y)
           /\ Near(date, date.y) /\ ~(date.d > Length(date.y, date.m, g))
<1>1. PICK y \in Int, m \in 1 .. 12, d \in 1 .. 31 :
        date = Date(y, m, d) /\ date.y = y /\ date.m = m /\ date.d = d
          /\ d <= Length(y, m, g)
    BY Parts
<1>5. Length(y, m, g) \in 28 .. 31
    BY Lengths
<1>6. ~(d > Length(y, m, g))
    BY <1>1, <1>5
<1>2. \A i : [date EXCEPT !.d = i].y = y
    BY <1>1 DEF Date
<1>3. Yesterday(date, g).y \in {y, y - 1}
    BY <1>1, <1>2, Zenon DEF Yesterday, Date
<1>4. Tomorrow(date, g).y \in {y, y + 1}
    BY <1>1, <1>2, Zenon DEF Tomorrow, Date
<1> QED
    BY <1>1, <1>3, <1>4, <1>6 DEF Near

LEMMA LaterDay ==
    ASSUME NEW n \in {-1, 0, 1}, NEW date, IsDate(date, TRUE)
    PROVE  /\ IsDate(Later(date, n), TRUE) /\ Near(Later(date, n), date.y)
           /\ swe_julday(Later(date, n), TRUE) = swe_julday(date, TRUE) + n
<1>1. swe_julday(date, TRUE) \in Int
    BY JuldayInt
<1> DEFINE J == swe_julday(date, TRUE)
           L == Later(date, n)
<1>2. CASE n = -1
    <2>1. L = Yesterday(date, TRUE)
        BY <1>2 DEF Later
    <2>2. IsDate(L, TRUE) /\ swe_julday(L, TRUE) = J - 1 /\ Near(L, date.y)
        BY <2>1, PreviousDay, NearDays, Zenon
    <2> HIDE DEF J, L
    <2>3. J - 1 = J + n
        BY <1>1, <1>2 DEF J
    <2> QED
        BY <2>2, <2>3 DEF J, L
<1>3. CASE n = 1
    <2>1. L = Tomorrow(date, TRUE)
        BY <1>3 DEF Later
    <2> QED
        BY <1>3, <2>1, NextDay, NearDays, Zenon
<1>4. CASE n = 0
    <2>1. L = date
        BY <1>4 DEF Later
    <2>2. J \in Int
        BY <1>1
    <2>3. J + n = J
        <3> HIDE DEF J
        <3> QED
            BY <2>2, <1>4
    <2> QED
        BY <2>1, <2>3, NearDays, Zenon
<1> QED
    BY <1>2, <1>3, <1>4

\* The days a time zone moves a date by
Moved(hour, zone) == IF hour - zone < 0 THEN -1 ELSE IF hour - zone >= 24 THEN 1 ELSE 0

LEMMA MovedBack ==
    ASSUME NEW h \in 0 .. 23, NEW z \in -12 .. 14, NEW n, n = Moved(h, z)
    PROVE  /\ n \in {-1, 0, 1} /\ 0 - n \in {-1, 0, 1}
           /\ Moved(h - z - 24 * n, -z) = 0 - n
           /\ h - z - 24 * n - (-z) - 24 * (0 - n) = h
<1>1. h \in Int /\ z \in Int /\ 0 <= h /\ h <= 23 /\ -12 <= z /\ z <= 14
    OBVIOUS
<1>2. CASE h - z < 0
    <2>1. Moved(h, z) = -1
        BY <1>2 DEF Moved
    <2>2. Moved(h - z - 24 * (-1), -z) = 1
        BY <1>1, <1>2 DEF Moved
    <2>5. n = -1
        BY <2>1, Zenon
    <2>3. n = -1 /\ 0 - n = 1
        BY <2>5
    <2>4. h - z - 24 * (-1) - (-z) - 24 * 1 = h
        BY <1>1
    <2> QED
        BY <2>2, <2>3, <2>4, Zenon
<1>3. CASE ~(h - z < 0) /\ h - z >= 24
    <2>1. Moved(h, z) = 1
        BY <1>3 DEF Moved
    <2>2. Moved(h - z - 24 * 1, -z) = -1
        BY <1>1, <1>3 DEF Moved
    <2>5. n = 1
        BY <2>1, Zenon
    <2>3. n = 1 /\ 0 - n = (-1)
        BY <2>5
    <2>4. h - z - 24 * (1) - (-z) - 24 * (-1) = h
        BY <1>1
    <2> QED
        BY <2>2, <2>3, <2>4, Zenon
<1>4. CASE ~(h - z < 0) /\ ~(h - z >= 24)
    <2>1. Moved(h, z) = 0
        BY <1>4 DEF Moved
    <2>2. Moved(h - z - 24 * 0, -z) = 0
        BY <1>1, <1>4 DEF Moved
    <2>5. n = 0
        BY <2>1, Zenon
    <2>3. n = 0 /\ 0 - n = 0
        BY <2>5
    <2>4. h - z - 24 * 0 - (-z) - 24 * 0 = h
        BY <1>1
    <2> QED
        BY <2>2, <2>3, <2>4, Zenon
<1> QED
    BY <1>2, <1>3, <1>4

LEMMA ZoneOf ==
    ASSUME NEW date, NEW h, NEW z
    PROVE  swe_utc_time_zone(date, h, z)
             = [date |-> swe_revjul(swe_julday(date, TRUE) + Moved(h, z), TRUE),
                hour |-> h - z - 24 * Moved(h, z)]
BY DEF swe_utc_time_zone, Moved

LEMMA LocalizeIs ==
    ASSUME NEW date, Localizable(date), NEW h \in 0 .. 23, NEW z \in -12 .. 14
    PROVE  localize(date, h, z)
             = [date |-> Later(date, Moved(h, z)), hour |-> h - z - 24 * Moved(h, z)]
<1> DEFINE Y == Yesterday(date, TRUE)
           T == Tomorrow(date, TRUE)
<1>2. localize(date, h, z) = IF ~Localizable(date) THEN [date |-> date, hour |-> h]
                             ELSE IF h - z < 0 THEN [date |-> Y, hour |-> h - z + 24]
                             ELSE IF h - z >= 24 THEN [date |-> T, hour |-> h - z - 24]
                             ELSE [date |-> date, hour |-> h - z]
    BY DEF localize
<1>3. Later(date, -1) = Y /\ Later(date, 1) = T /\ Later(date, 0) = date
    BY DEF Later
<1>4. h - z + 24 = h - z - 24 * (-1) /\ h - z - 24 = h - z - 24 * 1 /\ h - z = h - z - 24 * 0
    OBVIOUS
<1> HIDE DEF Y, T
<1>5. Localizable(date)
    OBVIOUS
<1>6. CASE h - z < 0
    <2>1. Moved(h, z) = -1
        BY <1>6 DEF Moved
    <2> QED
        BY <1>2, <1>3, <1>4, <1>5, <1>6, <2>1
<1>7. CASE ~(h - z < 0) /\ h - z >= 24
    <2>1. Moved(h, z) = 1
        BY <1>7 DEF Moved
    <2> QED
        BY <1>2, <1>3, <1>4, <1>5, <1>7, <2>1
<1>8. CASE ~(h - z < 0) /\ ~(h - z >= 24)
    <2>1. Moved(h, z) = 0
        BY <1>8 DEF Moved
    <2> QED
        BY <1>2, <1>3, <1>4, <1>5, <1>8, <2>1
<1> QED
    BY <1>6, <1>7, <1>8

\* The years around a date
InReachAround(y) == \A d : Near(d, y) => InReach(d)

UndoneAt(date, h, z) ==
    LET utc == swe_utc_time_zone(date, h, z)
    IN  /\ Instant(swe_julday(utc.date, TRUE), utc.hour)
             = Instant(swe_julday(date, TRUE), h - z)
        /\ swe_utc_time_zone(utc.date, utc.hour, -z) = [date |-> date, hour |-> h]
        /\ Localizable(date) => localize(date, h, z) = utc

LEMMA ZoneUndone ==
    ASSUME NEW date, IsDate(date, TRUE), InReachAround(date.y),
           NEW h \in 0 .. 23, NEW z \in -12 .. 14
    PROVE  UndoneAt(date, h, z)
<1> DEFINE utc == swe_utc_time_zone(date, h, z)
           n == Moved(h, z)
           L == Later(date, n)
           J == swe_julday(date, TRUE)
           k == h - z - 24 * n
<1>1. /\ n \in {-1, 0, 1} /\ 0 - n \in {-1, 0, 1} /\ Moved(k, -z) = 0 - n
      /\ k - (-z) - 24 * (0 - n) = h
    BY MovedBack
<1>2. J \in Int
    BY JuldayInt
<1>3. date.y \in Int
    BY DEF IsDate
<1>4. IsDate(L, TRUE) /\ Near(L, date.y) /\ swe_julday(L, TRUE) = J + n
    BY <1>1, LaterDay
<1>5. Near(date, date.y)
    BY <1>3 DEF Near
<1>6. InReach(L) /\ InReach(date)
    BY <1>4, <1>5, Zenon DEF InReachAround
<1>7. swe_revjul(swe_julday(L, TRUE), TRUE) = L
    BY <1>4, <1>6, GregorianBack, Zenon
<1>8. swe_revjul(J, TRUE) = date
    BY <1>6, GregorianBack, Zenon
<1>9. Localizable(date) => localize(date, h, z) = [date |-> L, hour |-> k]
    BY LocalizeIs
<1>10. utc = [date |-> swe_revjul(J + n, TRUE), hour |-> k]
    BY ZoneOf, Zenon
<1>11. swe_utc_time_zone(L, k, -z)
         = [date |-> swe_revjul(swe_julday(L, TRUE) + Moved(k, -z), TRUE),
            hour |-> k - (-z) - 24 * Moved(k, -z)]
    BY ZoneOf, Zenon
<1>12. k = (h - z) - 24 * n
    OBVIOUS
<1>13. h - z \in Int
    OBVIOUS
<1> HIDE DEF utc, n, L, J, k
<1>14. utc = [date |-> L, hour |-> k]
    BY <1>4, <1>7, <1>10, Zenon
<1>15. utc.date = L /\ utc.hour = k
    BY <1>14
<1>16. Instant(J + n, k) = Instant(J, h - z)
    BY <1>1, <1>2, <1>12, <1>13 DEF Instant
<1>17. (J + n) + (0 - n) = J
    BY <1>1, <1>2
<1>18. swe_utc_time_zone(L, k, -z) = [date |-> swe_revjul((J + n) + (0 - n), TRUE), hour |-> h]
    BY <1>1, <1>4, <1>11, Zenon
<1>19. swe_utc_time_zone(L, k, -z) = [date |-> date, hour |-> h]
    BY <1>8, <1>17, <1>18, Zenon
<1> QED
    BY <1>4, <1>9, <1>14, <1>15, <1>16, <1>19, Zenon DEF J, UndoneAt, utc

\* At any hour of any zone, up to the year 4800000: swe_utc_time_zone() moves
\* the date with the hour, names the same instant and is undone by the zone's
\* negative; in the years datetime has it agrees with the routers' localize()
\* (ZonesAreUndone, the second part of UtcIsOneToOne).
THEOREM ZonesAreOneToOne ==
    ASSUME LastYear <= Reach
    PROVE  Spec => []ZonesAreUndone
<1>1. Init => DateInv /\ InSpan
    <2>1. ASSUME Init PROVE InSpan
        BY <2>1 DEF Init, InSpan, Date, Reach
    <2> QED
        BY <2>1, DateInit
<1>2. DateInv /\ InSpan /\ [Next]_vars => DateInv' /\ InSpan'
    BY DateStep, SpanStep
<1>3. ASSUME DateInv, InSpan PROVE ZonesAreUndone
    <2>1. ASSUME Gregorian, NEW h \in Hours, NEW z \in Zones
          PROVE  UndoneAt(today, h, z) /\ swe_julday(today, TRUE) = number
        <3>1. IsDate(today, TRUE) /\ swe_julday(today, TRUE) = number
            BY <1>3, <2>1, WhichCalendar
        <3>2. InReachAround(today.y)
            <4>1. today.y \in Int
                BY <3>1 DEF IsDate
            <4> QED
                BY <1>3, <4>1 DEF InReachAround, Near, InSpan, InReach, Reach
        <3>3. h \in 0 .. 23 /\ z \in -12 .. 14
            BY <2>1, BirthTimeAssumption
        <3> QED
            BY <3>1, <3>2, <3>3, ZoneUndone, Zenon
    <2> QED
        BY <2>1, Zenon DEF ZonesAreUndone, UndoneAt
<1> QED
    BY <1>1, <1>2, <1>3, PTL DEF Spec

-----------------------------------------------------------------------------
(* The table of leap seconds and Delta T.                                  *)

\* An integer, and no greater than n
UpTo(k, n) == k \in Int /\ 0 <= k /\ k <= n

Before(day) == {l \in LeapDays : l < day}
Due(day)    == {l \in LeapDays : l >= day}

LEMMA NatLess == IsWellFoundedOn({p \in Nat \X Nat : p[1] < p[2]}, Nat)
BY NatLessThanWellFounded DEF OpToRel

\* A non-empty set of naturals has a least element.
LEMMA LeastNatural ==
  ASSUME NEW T \in SUBSET Nat, T # {}
  PROVE  \E m \in T : \A n \in T : m <= n
<1> DEFINE R == {p \in Nat \X Nat : p[1] < p[2]}
<1>1. PICK m \in T : \A n \in T : <<n, m>> \notin R
  BY NatLess, WFMin
<1> SUFFICES ASSUME NEW n \in T PROVE m <= n
  OBVIOUS
<1>2. <<n, m>> \notin R
  BY <1>1
<1>3. m \in Nat /\ n \in Nat
  OBVIOUS
<1>4. ~(n < m)
  BY <1>2, <1>3
<1> QED
  BY <1>3, <1>4

LEMMA LeapDayTypes ==
    /\ IsFiniteSet(LeapDays)
    /\ \A l \in LeapDays : l \in Int /\ l >= J1972 /\ l + 1 \notin LeapDays /\ l + 2 \notin LeapDays
<1>1. IsFiniteSet(LeapDays) /\ LeapDays \subseteq Int
    BY TablesAssumption, Zenon
<1>2. \A l \in LeapDays : l >= J1972 /\ l + 1 \notin LeapDays /\ l + 2 \notin LeapDays
    BY TablesAssumption, Zenon
<1> QED
    BY <1>1, <1>2, Zenon

LEMMA LeapCount ==
    ASSUME NEW day \in Int
    PROVE  /\ IsFiniteSet(Before(day))
           /\ UpTo(Cardinality(Before(day)), 100)
           /\ nleap_before(day) = 10 * Cardinality(Before(day))
           /\ UpTo(nleap_before(day), 1000)
<1>1. /\ IsFiniteSet(Before(day)) /\ Cardinality(Before(day)) <= Cardinality(LeapDays)
      /\ Cardinality(Before(day)) \in Nat /\ Cardinality(LeapDays) \in Nat
    <2>1. Before(day) \in SUBSET LeapDays
        BY DEF Before
    <2>2. IsFiniteSet(LeapDays)
        BY LeapDayTypes, Zenon
    <2>3. IsFiniteSet(Before(day)) /\ Cardinality(Before(day)) <= Cardinality(LeapDays)
        BY <2>1, <2>2, FS_Subset, Zenon
    <2> QED
        BY <2>2, <2>3, FS_CardinalityType, Zenon
<1>2. UpTo(Cardinality(Before(day)), 100)
    <2>1. Cardinality(LeapDays) <= 100
        BY TablesAssumption, Zenon
    <2> HIDE DEF Before
    <2> QED
        BY <1>1, <2>1 DEF UpTo
<1>3. nleap_before(day) = 10 * Cardinality(Before(day))
    BY DEF nleap_before, Before, Second
<1> HIDE DEF Before
<1> QED
    BY <1>1, <1>2, <1>3 DEF UpTo

\* A leap second counts from the day after on.
LEMMA LeapCountsOnce ==
    ASSUME NEW day \in Int, NEW b \in Int, NEW l \in LeapDays, b <= l, l < day,
           \A k \in LeapDays : b <= k /\ k < day => k = l
    PROVE  nleap_before(day) = nleap_before(b) + 10
<1>1. l \in Int /\ \A k \in LeapDays : k \in Int
    BY LeapDayTypes
<1>2. Before(day) = Before(b) \cup {l}
    <2>1. ASSUME NEW k \in LeapDays PROVE k < day <=> k < b \/ k = l
        <3>1. k \in Int /\ (b <= k /\ k < day => k = l)
            BY <1>1
        <3> QED
            BY <1>1, <3>1
    <2> QED
        BY <2>1, Zenon DEF Before
<1>3. l \notin Before(b)
    BY <1>1 DEF Before
<1> HIDE DEF Before
<1>4. Cardinality(Before(day)) = Cardinality(Before(b)) + 1
    <2>1. IsFiniteSet(Before(b)) /\ UpTo(Cardinality(Before(b)), 100)
        BY LeapCount
    <2>2. Cardinality(Before(b)) \in Int
        BY <2>1 DEF UpTo
    <2>3. Cardinality(Before(b) \cup {l}) = Cardinality(Before(b)) + 1
        BY <1>3, <2>1, FS_AddElement, Zenon
    <2> QED
        BY <1>2, <2>3, Zenon
<1>5. nleap_before(b) = 10 * Cardinality(Before(b)) /\ UpTo(Cardinality(Before(b)), 100)
    BY LeapCount
<1>6. nleap_before(day) = 10 * Cardinality(Before(day))
    BY LeapCount
<1> QED
    <2> HIDE DEF Before
    <2> QED
        BY <1>4, <1>5, <1>6 DEF UpTo

LEMMA NoLeapNoCount ==
    ASSUME NEW day \in Int, NEW b \in Int, b <= day,
           \A k \in LeapDays : ~(b <= k /\ k < day)
    PROVE  nleap_before(day) = nleap_before(b)
<1>1. \A k \in LeapDays : k \in Int
    BY LeapDayTypes
<1>2. Before(day) = Before(b)
    BY <1>1 DEF Before
<1> QED
    BY <1>2, Zenon DEF nleap_before, Before

LEMMA LeapCountGrows ==
    ASSUME NEW day \in Int, NEW b \in Int, b <= day
    PROVE  nleap_before(b) <= nleap_before(day)
<1>1. \A k \in LeapDays : k \in Int
    BY LeapDayTypes
<1>2. Before(b) \in SUBSET Before(day)
    BY <1>1 DEF Before
<1> HIDE DEF Before
<1>3. Cardinality(Before(b)) <= Cardinality(Before(day))
    <2>1. IsFiniteSet(Before(day))
        BY LeapCount, Zenon
    <2> QED
        BY <1>2, <2>1, FS_Subset, Zenon
<1>4. nleap_before(b) = 10 * Cardinality(Before(b)) /\ UpTo(Cardinality(Before(b)), 100)
    BY LeapCount
<1>5. nleap_before(day) = 10 * Cardinality(Before(day)) /\ UpTo(Cardinality(Before(day)), 100)
    BY LeapCount
<1> QED
    BY <1>3, <1>4, <1>5 DEF UpTo

\* The next leap second.
LEMMA NextLeap ==
    ASSUME NEW day \in Int, Due(day) # {}
    PROVE  /\ Min(Due(day)) \in LeapDays /\ Min(Due(day)) >= day
           /\ \A k \in LeapDays : ~(day <= k /\ k < Min(Due(day)))
<1> DEFINE T == {n \in Nat : n + day \in Due(day)}
<1>1. \A k \in LeapDays : k \in Int
    BY LeapDayTypes
<1>2. PICK k \in Due(day) : TRUE
    OBVIOUS
<1>3. k \in Int /\ k >= day
    BY <1>1, <1>2 DEF Due
<1>4. k - day \in T
    <2>1. k - day \in Nat /\ (k - day) + day = k
        BY <1>3
    <2> QED
        BY <1>2, <2>1
<1>5. PICK m \in T : \A n \in T : m <= n
    <2>1. T \in SUBSET Nat /\ T # {}
        BY <1>4
    <2> QED
        BY <2>1, LeastNatural
<1>6. m + day \in Due(day) /\ \A x \in Due(day) : m + day <= x
    <2>1. ASSUME NEW x \in Due(day) PROVE m + day <= x
        <3>1. x \in Int /\ x >= day
            BY <1>1 DEF Due
        <3>2. x - day \in Nat /\ (x - day) + day = x
            BY <3>1
        <3>3. x - day \in T
            BY <3>2
        <3>4. m <= x - day
            BY <1>5, <3>3
        <3> QED
            BY <3>1, <3>4
    <2> QED
        BY <1>5, <2>1
<1>7. Min(Due(day)) \in Due(day) /\ \A x \in Due(day) : Min(Due(day)) <= x
    BY <1>6, Zenon DEF Min
<1>8. Min(Due(day)) \in Int
    BY <1>1, <1>7 DEF Due
<1>9. ASSUME NEW j \in LeapDays, day <= j, j < Min(Due(day)) PROVE FALSE
    <2>1. j \in Due(day)
        BY <1>1, <1>9 DEF Due
    <2> QED
        BY <1>1, <1>7, <1>8, <1>9, <2>1
<1> QED
    BY <1>7, <1>9 DEF Due

HalfDay == Day \div 2

\* Delta T grows slowly.
LEMMA DeltaTRange ==
    ASSUME NEW t \in Int, t \div Day \in DOMAIN DeltaT
    PROVE  UpTo(swe_deltat_ex(t), HalfDay)
<1> DEFINE v == DeltaT[t \div Day]
<1>1. v \in 0 .. HalfDay
    BY TablesAssumption, Zenon DEF HalfDay
<1>2. HalfDay \in Int
    BY DEF HalfDay, Day, Second
<1>3. UpTo(v, HalfDay)
    <2> HIDE DEF v
    <2> QED
        BY <1>1, <1>2 DEF UpTo
<1> QED
    BY <1>3, Zenon DEF swe_deltat_ex

LEMMA DeltaTGrows ==
    ASSUME NEW m \in DOMAIN DeltaT, NEW n \in DOMAIN DeltaT, m <= n
    PROVE  /\ m \in Int /\ n \in Int /\ DeltaT[m] \in Int /\ DeltaT[n] \in Int
           /\ DeltaT[m] <= DeltaT[n] /\ DeltaT[n] <= DeltaT[m] + (n - m)
<1>1. m \in Int /\ n \in Int
    BY TablesAssumption, Zenon
<1>2. DeltaT[m] \in Int /\ DeltaT[n] \in Int
    <2>1. DeltaT[m] \in 0 .. HalfDay /\ DeltaT[n] \in 0 .. HalfDay
        BY TablesAssumption, Zenon DEF HalfDay
    <2> QED
        BY <2>1
<1>3. DeltaT[n] - DeltaT[m] \in 0 .. n - m
    BY TablesAssumption, Zenon
<1> QED
    BY <1>1, <1>2, <1>3

LEMMA DayIs ==
    ASSUME NEW n \in Int, NEW t \in Int, n * Day <= t, t < (n + 1) * Day
    PROVE  t \div Day = n
BY DEF Day, Second

DeltaOf(day) == swe_deltat_ex((day - J1972) * Day)

LEMMA DeltaTNear ==
    ASSUME NEW day \in Int, Known(day), NEW t \in Int,
           NEW n, n = day - J1972,
           (n - 1) * Day <= t, t < (n + 2) * Day
    PROVE  /\ UpTo(DeltaOf(day), HalfDay)
           /\ UpTo(swe_deltat_ex(t), HalfDay)
           /\ t < n * Day => DeltaOf(day) - swe_deltat_ex(t) \in {0, 1}
           /\ n * Day <= t /\ t < (n + 1) * Day => swe_deltat_ex(t) = DeltaOf(day)
           /\ t >= (n + 1) * Day => /\ swe_deltat_ex(t) = DeltaT[n + 1]
                                    /\ swe_deltat_ex(t) - DeltaOf(day) \in {0, 1}
<1>1. n \in Int /\ n - 1 \in Int /\ n + 1 \in Int
    BY DEF J1972
<1>2. n - 1 \in DOMAIN DeltaT /\ n \in DOMAIN DeltaT /\ n + 1 \in DOMAIN DeltaT
    BY Zenon DEF Known
<1>3. (n * Day) \div Day = n
    BY <1>1 DEF Day, Second
<1>4. DeltaOf(day) = DeltaT[n]
    BY <1>3, Zenon DEF DeltaOf, swe_deltat_ex
<1>5. UpTo(DeltaOf(day), HalfDay)
    <2>1. n * Day \in Int
        BY <1>1 DEF Day, Second
    <2>2. DeltaOf(day) = swe_deltat_ex(n * Day)
        BY Zenon DEF DeltaOf
    <2> QED
        BY <1>2, <1>3, <2>1, <2>2, DeltaTRange
<1>6. CASE t < n * Day
    <2>1. t \div Day = n - 1
        BY <1>1, <1>6, DayIs DEF Day, Second
    <2>2. swe_deltat_ex(t) = DeltaT[n - 1]
        BY <2>1, Zenon DEF swe_deltat_ex
    <2>3. DeltaT[n - 1] <= DeltaT[n] /\ DeltaT[n] <= DeltaT[n - 1] + (n - (n - 1))
        BY <1>1, <1>2, DeltaTGrows
    <2>4. UpTo(swe_deltat_ex(t), HalfDay)
        BY <1>2, <2>1, DeltaTRange
    <2>5. ~(t >= (n + 1) * Day) /\ ~(n * Day <= t)
        BY <1>1, <1>6 DEF Day, Second
    <2>6. DeltaOf(day) - swe_deltat_ex(t) \in {0, 1}
        BY <1>1, <1>4, <1>5, <2>2, <2>3, <2>4 DEF UpTo
    <2> QED
        BY <1>5, <2>4, <2>5, <2>6
<1>7. CASE n * Day <= t /\ t < (n + 1) * Day
    <2>1. t \div Day = n
        BY <1>1, <1>7, DayIs DEF Day, Second
    <2>2. swe_deltat_ex(t) = DeltaOf(day)
        BY <1>4, <2>1, Zenon DEF swe_deltat_ex
    <2>3. ~(t >= (n + 1) * Day) /\ ~(t < n * Day)
        BY <1>1, <1>7 DEF Day, Second
    <2> QED
        BY <1>5, <2>2, <2>3
<1>8. CASE t >= (n + 1) * Day
    <2>1. t \div Day = n + 1
        BY <1>1, <1>8, DayIs DEF Day, Second
    <2>2. swe_deltat_ex(t) = DeltaT[n + 1]
        BY <2>1, Zenon DEF swe_deltat_ex
    <2>3. DeltaT[n] <= DeltaT[n + 1] /\ DeltaT[n + 1] <= DeltaT[n] + ((n + 1) - n)
        BY <1>1, <1>2, DeltaTGrows
    <2>4. UpTo(swe_deltat_ex(t), HalfDay)
        BY <1>2, <2>1, DeltaTRange
    <2>5. ~(t < n * Day) /\ ~(t < (n + 1) * Day)
        BY <1>1, <1>8 DEF Day, Second
    <2>6. swe_deltat_ex(t) - DeltaOf(day) \in {0, 1}
        BY <1>1, <1>4, <1>5, <2>2, <2>3, <2>4 DEF UpTo
    <2> QED
        BY <1>5, <2>2, <2>4, <2>5, <2>6
<1> QED
    BY <1>1, <1>6, <1>7, <1>8 DEF Day, Second

LEMMA DeltaOfIs ==
    ASSUME NEW day \in Int
    PROVE  DeltaOf(day) = DeltaT[day - J1972]
<1>1. ((day - J1972) * Day) \div Day = day - J1972
    BY DEF J1972, Day, Second
<1> QED
    BY <1>1, Zenon DEF DeltaOf, swe_deltat_ex

\* Each leap second comes in time, and Delta T has not made up for it by the
\* next day.
LEMMA LeapInTime ==
    ASSUME NEW l \in LeapDays
    PROVE  /\ ~outdated(DeltaOf(l), nleap_before(l))
           /\ ~outdated(DeltaOf(l + 1), nleap_before(l + 1))
           /\ nleap_before(l + 1) = nleap_before(l) + 10
           /\ DeltaOf(l) \in Int /\ l - J1972 \in DOMAIN DeltaT
<1>1. l \in Int /\ l + 1 \in Int
    BY LeapDayTypes
<1>2. DeltaOf(l) = DeltaT[l - J1972] /\ DeltaOf(l + 1) = DeltaT[(l + 1) - J1972]
    BY <1>1, DeltaOfIs, Zenon
<1>3. l - J1972 \in DOMAIN DeltaT /\ (l + 1) - J1972 \in DOMAIN DeltaT
    BY TablesAssumption, Zenon
<1>4. ~outdated(DeltaOf(l), nleap_before(l))
    BY <1>2, TablesAssumption, Zenon
<1>5. nleap_before(l + 1) = nleap_before(l) + 10
    <2>1. \A k \in LeapDays : l <= k /\ k < l + 1 => k = l
        BY <1>1, LeapDayTypes
    <2>2. l <= l /\ l < l + 1
        BY <1>1
    <2> QED
        BY <1>1, <2>1, <2>2, LeapCountsOnce, Zenon
<1>6. /\ DeltaOf(l) \in Int /\ DeltaOf(l + 1) \in Int
      /\ DeltaOf(l + 1) <= DeltaOf(l) + (((l + 1) - J1972) - (l - J1972))
    <2>1. l - J1972 <= (l + 1) - J1972
        BY <1>1 DEF J1972
    <2> QED
        BY <1>2, <1>3, <2>1, DeltaTGrows, Zenon
<1>7. UpTo(nleap_before(l), 1000)
    BY <1>1, LeapCount, Zenon
<1>8. ~outdated(DeltaOf(l + 1), nleap_before(l + 1))
    BY <1>1, <1>4, <1>5, <1>6, <1>7 DEF UpTo, outdated, Second, Init10, TtTai, J1972
<1> QED
    BY <1>3, <1>4, <1>5, <1>6, <1>8

\* Terrestrial time at a midnight, or at any other time of a day that the
\* table has not gone out of date for.
LEMMA UtcToJd ==
    ASSUME NEW day \in Int, NEW t \in Int, day >= J1972,
           0 <= t, t < Day + Second, t >= Day => day \in LeapDays,
           ~outdated(DeltaOf(day), nleap_before(day))
    PROVE  swe_utc_to_jd(day, t).et = ((day - J1972) * Day + t) + nleap_before(day) + ET1972
<1>1. ~(t >= Day + Second) /\ ~(day < J1972)
    BY DEF J1972, Day, Second
<1>2. swe_utc_to_jd(day, t) = AsUTC((day - J1972) * Day + t, nleap_before(day))
    BY <1>1, Zenon DEF swe_utc_to_jd, DeltaOf
<1> QED
    BY <1>2 DEF AsUTC

LEMMA AfterLeap ==
    ASSUME NEW l \in LeapDays
    PROVE  swe_utc_to_jd(l + 1, 0).et = ((l + 1) - J1972) * Day + (nleap_before(l) + 432)
<1>1. l \in Int /\ l + 1 \in Int /\ l + 1 >= J1972 /\ UpTo(nleap_before(l), 1000)
    <2>1. l \in Int /\ l >= J1972
        BY LeapDayTypes
    <2>2. UpTo(nleap_before(l), 1000)
        BY <2>1, LeapCount, Zenon
    <2> QED
        BY <2>1, <2>2 DEF J1972
<1>2. ~outdated(DeltaOf(l + 1), nleap_before(l + 1)) /\ nleap_before(l + 1) = nleap_before(l) + 10
    BY LeapInTime, Zenon
<1>3. 0 \in Int /\ 0 <= 0 /\ 0 < Day + Second /\ ~(0 >= Day)
    BY DEF Day, Second
<1>4. swe_utc_to_jd(l + 1, 0).et
        = (((l + 1) - J1972) * Day + 0) + nleap_before(l + 1) + ET1972
    BY <1>1, <1>2, <1>3, UtcToJd, Zenon
<1> QED
    BY <1>1, <1>2, <1>4 DEF UpTo, ET1972, Init10, TtTai, Day, Second, J1972

\* When the table is out of date it has no leap seconds left.
LEMMA NoneLeft ==
    ASSUME NEW day \in Int, Known(day), outdated(DeltaOf(day), nleap_before(day))
    PROVE  Due(day) = {}
<1> SUFFICES ASSUME Due(day) # {} PROVE FALSE
    OBVIOUS
<1> DEFINE l == Min(Due(day))
<1>1. l \in LeapDays /\ l >= day /\ \A k \in LeapDays : ~(day <= k /\ k < l)
    BY NextLeap, Zenon
<1>2. l \in Int
    BY <1>1, LeapDayTypes, Zenon
<1> HIDE DEF l
<1>3. nleap_before(l) = nleap_before(day)
    <2>1. day <= l
        BY <1>1, <1>2
    <2> QED
        BY <1>1, <1>2, <2>1, NoLeapNoCount, Zenon
<1>4. ~outdated(DeltaOf(l), nleap_before(l)) /\ DeltaOf(l) \in Int /\ l - J1972 \in DOMAIN DeltaT
    BY <1>1, LeapInTime, Zenon
<1>5. DeltaOf(day) = DeltaT[day - J1972] /\ DeltaOf(l) = DeltaT[l - J1972]
    BY <1>2, DeltaOfIs, Zenon
<1>6. day - J1972 \in DOMAIN DeltaT
    BY Zenon DEF Known
<1>7. DeltaOf(day) <= DeltaOf(l) /\ DeltaOf(day) \in Int
    <2>1. day - J1972 <= l - J1972
        BY <1>1, <1>2 DEF J1972
    <2> QED
        BY <1>4, <1>5, <1>6, <2>1, DeltaTGrows, Zenon
<1>8. UpTo(nleap_before(day), 1000)
    BY LeapCount, Zenon
<1> QED
    BY <1>3, <1>4, <1>7, <1>8 DEF UpTo, outdated, Second, Init10, TtTai

LEMMA ClockIs ==
    ASSUME NEW n \in Int, NEW t \in Int, 0 <= t, t < Day
    PROVE  clock(n * Day + t) = [day |-> n + J1972, time |-> t]
<1>1. (n * Day + t) \div Day = n /\ (n * Day + t) % Day = t
    BY DEF Day, Second
<1> QED
    BY <1>1, Zenon DEF clock

\* The intermediate results of swe_jdet_to_utc()
Steps(et, late, ut, b, nleap, s60) ==
    /\ late = swe_deltat_ex(et - swe_deltat_ex(et))
    /\ ut = et - swe_deltat_ex(et - late)
    /\ b = clock(ut).day - 1
    /\ nleap = IF Due(b) # {} /\ et - swe_utc_to_jd(Min(Due(b)) + 1, 0).et >= 0
               THEN nleap_before(b) + Second ELSE nleap_before(b)
    /\ s60 = IF Due(b) # {} /\ et - swe_utc_to_jd(Min(Due(b)) + 1, 0).et < 0
                  /\ et - swe_utc_to_jd(Min(Due(b)) + 1, 0).et > -Second
             THEN Second ELSE 0

WithSecond60(utc, s60) == [utc EXCEPT !.time = @ + s60]

LEMMA Reading ==
    ASSUME NEW et, NEW late, NEW ut, NEW b, NEW nleap, NEW s60,
           Steps(et, late, ut, b, nleap, s60), ~(et < ET1972)
    PROVE  swe_jdet_to_utc(et) =
             IF outdated(late, nleap) THEN clock(et - late)
             ELSE WithSecond60(clock(et - ET1972 - nleap - s60), s60)
BY Zenon DEF WithSecond60, Steps, swe_jdet_to_utc, Due

\* What swe_jdet_to_utc() finds in the table, searching from the day of UT1 on.
LEMMA Searched ==
    ASSUME NEW day \in Int, NEW t \in Int, day >= J1972, Known(day),
           0 <= t, t < Day + Second, t # Day, t >= Day => day \in LeapDays,
           ~outdated(DeltaOf(day), nleap_before(day)),
           NEW et, et = (day - J1972) * Day + (t + (nleap_before(day) + ET1972)),
           NEW b \in Int, b \in {day - 2, day - 1, day},
           NEW d, d = et - swe_utc_to_jd(Min(Due(b)) + 1, 0).et
    PROVE  /\ (IF Due(b) # {} /\ d >= 0 THEN nleap_before(b) + Second ELSE nleap_before(b))
                = nleap_before(day)
           /\ (IF Due(b) # {} /\ d < 0 /\ d > -Second THEN Second ELSE 0)
                = (IF t > Day THEN Second ELSE 0)
<1>1. UpTo(nleap_before(day), 1000) /\ b <= day
    <2>1. UpTo(nleap_before(day), 1000)
        BY LeapCount
    <2> QED
        BY <2>1
<1>2. CASE Due(b) = {}
    <2>1. \A k \in LeapDays : ~(b <= k)
        BY <1>2, LeapDayTypes DEF Due
    <2>2. nleap_before(day) = nleap_before(b)
        BY <1>1, <2>1, NoLeapNoCount, Zenon
    <2>3. ~(t > Day)
        BY <1>1, <2>1 DEF Day, Second
    <2> QED
        BY <1>2, <2>2, <2>3, Zenon
<1>3. CASE Due(b) # {}
    <2> DEFINE l == Min(Due(b))
    <2>1. l \in LeapDays /\ l >= b /\ \A k \in LeapDays : ~(b <= k /\ k < l)
        BY <1>3, NextLeap, Zenon
    <2>2. l \in Int /\ UpTo(nleap_before(l), 1000)
        <3>1. l \in Int
            BY <2>1, LeapDayTypes, Zenon
        <3> HIDE DEF l
        <3> QED
            BY <3>1, LeapCount
    <2>3. d = et - (((l + 1) - J1972) * Day + (nleap_before(l) + 432))
        BY <2>1, AfterLeap, Zenon
    <2> HIDE DEF l
    <2>4. CASE l > day
        <3>1. \A k \in LeapDays : ~(b <= k /\ k < day)
            BY <1>1, <2>1, <2>2, <2>4, LeapDayTypes
        <3>2. nleap_before(day) = nleap_before(b)
            BY <1>1, <3>1, NoLeapNoCount, Zenon
        <3>3. nleap_before(day) <= nleap_before(l)
            <4>1. day <= l
                BY <2>2, <2>4
            <4> QED
                BY <2>2, <4>1, LeapCountGrows, Zenon
        <3>4. ~(t > Day)
            <4>1. day \notin LeapDays
                BY <1>1, <2>1, <2>2, <2>4
            <4> QED
                BY <4>1 DEF Day, Second
        <3>5. d < -Second
            BY <1>1, <2>2, <2>3, <2>4, <3>3 DEF UpTo, ET1972, Init10, TtTai, Day, Second, J1972
        <3>6. d \in Int
            BY <1>1, <2>2, <2>3 DEF UpTo, ET1972, Init10, TtTai, Day, Second, J1972
        <3>7. ~(d >= 0) /\ ~(d > -Second)
            BY <3>5, <3>6 DEF Second
        <3> QED
            BY <3>2, <3>4, <3>7, Zenon
    <2>5. CASE l = day
        <3>1. \A k \in LeapDays : ~(b <= k /\ k < day)
            BY <2>1, <2>5, Zenon
        <3>2. nleap_before(day) = nleap_before(b)
            BY <1>1, <3>1, NoLeapNoCount, Zenon
        <3>3. d = t - (Day + 10)
            BY <1>1, <2>3, <2>5 DEF UpTo, ET1972, Init10, TtTai, Day, Second, J1972
        <3>4. ~(d >= 0) /\ (d < 0 /\ d > -Second <=> t > Day)
            BY <3>3 DEF Day, Second
        <3> QED
            BY <1>3, <3>2, <3>4, Zenon
    <2>6. CASE l < day
        <3>1. \A k \in LeapDays : b <= k /\ k < day => k = l
            <4>1. l = b \/ l = b + 1
                BY <2>1, <2>2, <2>6
            <4>2. l + 1 \notin LeapDays
                BY <2>1, LeapDayTypes
            <4>3. ASSUME NEW k \in LeapDays, b <= k, k < day PROVE k = l
                <5>1. k \in Int /\ ~(k < l)
                    BY <2>1, <4>3, LeapDayTypes
                <5>2. k # l + 1
                    BY <4>2
                <5> QED
                    BY <2>1, <2>2, <2>6, <4>1, <4>3, <5>1, <5>2
            <4> QED
                BY <4>3
        <3>2. nleap_before(day) = nleap_before(b) + 10
            <4>1. b <= l
                BY <2>1, <2>2
            <4> QED
                BY <2>1, <2>6, <3>1, <4>1, LeapCountsOnce, Zenon
        <3>3. nleap_before(l) = nleap_before(b)
            <4>1. b <= l
                BY <2>1, <2>2
            <4> QED
                BY <2>1, <2>2, <4>1, NoLeapNoCount, Zenon
        <3>4. UpTo(nleap_before(b), 1000)
            BY LeapCount
        <3>5. d >= 0 /\ d \in Int
            BY <1>1, <2>2, <2>3, <2>6, <3>2, <3>3, <3>4
               DEF UpTo, ET1972, Init10, TtTai, Day, Second, J1972
        <3>6. t < Day
            <4>1. day = l + 1 \/ day = l + 2
                BY <2>1, <2>2, <2>6
            <4>2. day \notin LeapDays
                BY <2>1, <4>1, LeapDayTypes
            <4> QED
                BY <4>2 DEF Day, Second
        <3>7. ~(d < 0) /\ ~(t > Day) /\ nleap_before(day) = nleap_before(b) + Second
            BY <3>2, <3>5, <3>6 DEF Day, Second
        <3> QED
            BY <1>3, <3>5, <3>7, Zenon
    <2> QED
        BY <2>2, <2>4, <2>5, <2>6
<1> QED
    BY <1>2, <1>3

MidnightOf(day) == (day - J1972) * Day

\* UT1 is at most a day away from UTC.
LEMMA DayOfUT1 ==
    ASSUME NEW day \in Int, NEW u \in Int,
           MidnightOf(day) - Day <= u, u < MidnightOf(day) + 2 * Day
    PROVE  clock(u).day - 1 \in {day - 2, day - 1, day} /\ clock(u).day - 1 \in Int
<1>1. clock(u).day = u \div Day + J1972
    BY DEF clock
<1>2. /\ u \div Day + J1972 \in Int
      /\ u \div Day + J1972 = day - 1 \/ u \div Day + J1972 = day \/ u \div Day + J1972 = day + 1
    BY DEF MidnightOf, J1972, Day, Second
<1> QED
    BY <1>1, <1>2

\* As long as the table is up to date, every instant of UTC is given back.
LEMMA ReadUTC ==
    ASSUME NEW day \in Int, NEW t \in Int, day >= J1972, Known(day),
           0 <= t, t < Day + Second, t # Day, t >= Day => day \in LeapDays,
           ~outdated(DeltaOf(day), nleap_before(day))
    PROVE  swe_jdet_to_utc(swe_utc_to_jd(day, t).et) = [day |-> day, time |-> t]
<1> DEFINE n    == day - J1972
           c    == nleap_before(day)
           et   == swe_utc_to_jd(day, t).et
           d0   == swe_deltat_ex(et)
           late == swe_deltat_ex(et - d0)
           d1   == swe_deltat_ex(et - late)
           ut   == et - d1
           b    == clock(ut).day - 1
           d    == et - swe_utc_to_jd(Min(Due(b)) + 1, 0).et
           nleap == IF Due(b) # {} /\ d >= 0 THEN nleap_before(b) + Second ELSE nleap_before(b)
           s60   == IF Due(b) # {} /\ d < 0 /\ d > -Second THEN Second ELSE 0
<1>1. UpTo(c, 1000) /\ n \in Int /\ n >= 0
    <2>1. UpTo(c, 1000)
        BY LeapCount
    <2> QED
        BY <2>1 DEF J1972
<1>2. et = n * Day + (t + (c + ET1972))
    <2>1. et = (n * Day + t) + c + ET1972
        BY UtcToJd, Zenon
    <2> HIDE DEF et, c
    <2> QED
        BY <1>1, <2>1 DEF UpTo, ET1972, Init10, TtTai, Day, Second
<1>3. ET1972 = 422 /\ Day = 864000 /\ Second = 10
    BY DEF ET1972, Init10, TtTai, Day, Second
<1>4. DeltaOf(day) <= c + 431 /\ UpTo(DeltaOf(day), HalfDay)
    <2>1. UpTo(DeltaOf(day), HalfDay)
        <3>1. (n - 1) * Day <= n * Day /\ n * Day < (n + 2) * Day /\ n * Day \in Int
            BY <1>1 DEF Day, Second
        <3> QED
            BY <3>1, DeltaTNear, Zenon
    <2>2. ~outdated(DeltaOf(day), c)
        BY Zenon
    <2> HIDE DEF c
    <2> QED
        BY <1>1, <2>1, <2>2 DEF UpTo, outdated, Second, Init10, TtTai
<1> HIDE DEF n, c, et
<1>5. et \in Int /\ n * Day <= et /\ et < (n + 2) * Day
    BY <1>1, <1>2, <1>3, SMT DEF UpTo
<1>6. /\ UpTo(d0, HalfDay)
      /\ et < (n + 1) * Day => d0 = DeltaOf(day)
      /\ et >= (n + 1) * Day => d0 = DeltaT[n + 1] /\ d0 - DeltaOf(day) \in {0, 1}
    <2>1. (n - 1) * Day <= et
        BY <1>1, <1>5 DEF Day, Second
    <2> QED
        BY <1>5, <2>1, DeltaTNear, Zenon DEF n
<1> HIDE DEF d0
<1>7. et - d0 \in Int /\ (n - 1) * Day <= et - d0 /\ et - d0 < (n + 2) * Day
    BY <1>1, <1>3, <1>5, <1>6, SMT DEF UpTo, HalfDay
<1>8. /\ UpTo(late, HalfDay)
      /\ et - d0 < n * Day => DeltaOf(day) - late \in {0, 1}
      /\ n * Day <= et - d0 /\ et - d0 < (n + 1) * Day => late = DeltaOf(day)
      /\ et - d0 >= (n + 1) * Day => late = DeltaT[n + 1] /\ late - DeltaOf(day) \in {0, 1}
    BY <1>7, DeltaTNear, Zenon DEF n
<1> HIDE DEF late
<1>9. ~outdated(late, c)
    <2> SUFFICES ASSUME late >= c + 432 PROVE FALSE
        BY <1>1, <1>8 DEF UpTo, outdated, Second, Init10, TtTai
    <2>1. et - d0 >= (n + 1) * Day
        BY <1>1, <1>4, <1>5, <1>7, <1>8, SMT DEF UpTo, Day, Second
    <2>2. et >= (n + 1) * Day
        BY <1>1, <1>3, <1>5, <1>6, <2>1, SMT DEF UpTo
    <2>3. late = d0
        BY <1>6, <1>8, <2>1, <2>2, Zenon
    <2> QED
        BY <1>1, <1>2, <1>3, <1>8, <2>1, <2>3, SMT DEF UpTo
<1>10. UpTo(d1, HalfDay)
    <2>1. et - late \in Int /\ (n - 1) * Day <= et - late /\ et - late < (n + 2) * Day
        BY <1>1, <1>3, <1>5, <1>8, SMT DEF UpTo, HalfDay
    <2> QED
        BY <2>1, DeltaTNear, Zenon DEF n
<1> HIDE DEF d1
<1>11. b \in {day - 2, day - 1, day} /\ b \in Int
    <2>1. ut \in Int /\ MidnightOf(day) - Day <= ut /\ ut < MidnightOf(day) + 2 * Day
        BY <1>1, <1>3, <1>5, <1>10, SMT DEF UpTo, HalfDay, MidnightOf, n
    <2> HIDE DEF ut
    <2> QED
        BY <2>1, DayOfUT1, Zenon
<1> HIDE DEF ut
<1>12. nleap = c /\ s60 = (IF t > Day THEN Second ELSE 0)
    <2> HIDE DEF b, d
    <2>1. et = (day - J1972) * Day + (t + (nleap_before(day) + ET1972))
        BY <1>2, Zenon DEF n, c
    <2>2. b \in Int /\ b \in {day - 2, day - 1, day}
        BY <1>11, Zenon
    <2>3. d = et - swe_utc_to_jd(Min(Due(b)) + 1, 0).et
        BY Zenon DEF d
    <2>4. /\ (IF Due(b) # {} /\ d >= 0 THEN nleap_before(b) + Second ELSE nleap_before(b))
                = nleap_before(day)
          /\ (IF Due(b) # {} /\ d < 0 /\ d > -Second THEN Second ELSE 0)
                = (IF t > Day THEN Second ELSE 0)
        BY <2>1, <2>2, <2>3, Searched
    <2> QED
        BY <2>4, Zenon DEF c
<1>13. swe_jdet_to_utc(et) = WithSecond60(clock(et - ET1972 - nleap - s60), s60)
    <2>1. ~(et < ET1972)
        BY <1>1, <1>2, <1>3, SMT DEF UpTo
    <2>2. swe_jdet_to_utc(et) = IF outdated(late, nleap) THEN clock(et - late)
                                ELSE WithSecond60(clock(et - ET1972 - nleap - s60), s60)
        <3>1. /\ late = swe_deltat_ex(et - swe_deltat_ex(et))
              /\ ut = et - swe_deltat_ex(et - late)
            BY Zenon DEF late, d0, ut, d1
        <3>2. b = clock(ut).day - 1
            BY Zenon
        <3> HIDE DEF b
        <3>3. nleap = IF Due(b) # {} /\ et - swe_utc_to_jd(Min(Due(b)) + 1, 0).et >= 0
                      THEN nleap_before(b) + Second ELSE nleap_before(b)
            BY Zenon
        <3>4. s60 = IF Due(b) # {} /\ et - swe_utc_to_jd(Min(Due(b)) + 1, 0).et < 0
                         /\ et - swe_utc_to_jd(Min(Due(b)) + 1, 0).et > -Second
                    THEN Second ELSE 0
            BY Zenon
        <3> HIDE DEF nleap, s60
        <3> QED
            <4>1. Steps(et, late, ut, b, nleap, s60)
                BY <3>1, <3>2, <3>3, <3>4 DEF Steps
            <4> QED
                BY <2>1, <4>1, Reading, Zenon
    <2> HIDE DEF nleap, s60
    <2> QED
        BY <1>9, <1>12, <2>2, Zenon
<1> HIDE DEF nleap, s60
<1>14. et - ET1972 - nleap - s60 = n * Day + (t - s60) /\ s60 \in Int /\ 0 <= t - s60 /\ t - s60 < Day
    BY <1>1, <1>2, <1>3, <1>12, SMT DEF UpTo
<1>15. clock(n * Day + (t - s60)) = [day |-> n + J1972, time |-> t - s60]
    BY <1>1, <1>14, ClockIs
<1>16. n + J1972 = day /\ (t - s60) + s60 = t
    BY <1>14 DEF n, J1972
<1>17. swe_jdet_to_utc(et) = WithSecond60([day |-> day, time |-> t - s60], s60)
    BY <1>13, <1>14, <1>15, <1>16, Zenon
<1>18. swe_jdet_to_utc(et) = [day |-> day, time |-> t]
    BY <1>16, <1>17 DEF WithSecond60
<1> QED
    BY <1>18, Zenon DEF et

\* When it is out of date UTC is UT1, and that is given back.
LEMMA ReadUT1 ==
    ASSUME NEW day \in Int, NEW t \in Int, day >= J1972, Known(day), 0 <= t, t < Day,
           outdated(DeltaOf(day), nleap_before(day))
    PROVE  swe_jdet_to_utc(swe_utc_to_jd(day, t).et) = [day |-> day, time |-> t]
<1> DEFINE n    == day - J1972
           c    == nleap_before(day)
           T    == n * Day + t
           D    == DeltaOf(day)
           et   == swe_utc_to_jd(day, t).et
           d0   == swe_deltat_ex(et)
           b    == clock(T).day - 1
<1>1. UpTo(c, 1000) /\ n \in Int /\ n >= 0
    <2>1. UpTo(c, 1000)
        BY LeapCount
    <2> QED
        BY <2>1 DEF J1972
<1>2. /\ T \in Int /\ n * Day <= T /\ T < (n + 1) * Day
      /\ (n - 1) * Day <= T /\ T < (n + 2) * Day
    BY <1>1, SMT DEF Day, Second
<1>3. et = T + D
    <2>1. ~(t >= Day + Second) /\ ~(t >= Day) /\ ~(day < J1972)
        BY SMT DEF Day, Second, J1972
    <2>2. swe_utc_to_jd(day, t) = AsUT1(T)
        BY <2>1, Zenon DEF swe_utc_to_jd, DeltaOf
    <2>3. swe_deltat_ex(T) = D
        <3> HIDE DEF T
        <3> QED
            BY <1>2, DeltaTNear, Zenon
    <2> HIDE DEF T, D
    <2> QED
        BY <2>2, <2>3 DEF AsUT1
<1>4. outdated(D, c)
    BY Zenon
<1>5. UpTo(D, HalfDay)
    <2> HIDE DEF T
    <2> QED
        BY <1>2, DeltaTNear, Zenon
<1> HIDE DEF D, et, T
<1>6. UpTo(d0, HalfDay) /\ (et < (n + 1) * Day => d0 = D)
      /\ (et >= (n + 1) * Day => d0 - D \in {0, 1})
    <2>1. et \in Int /\ (n - 1) * Day <= et /\ n * Day <= et /\ et < (n + 2) * Day
        BY <1>1, <1>2, <1>3, <1>5, SMT DEF UpTo, HalfDay, Day, Second
    <2> QED
        BY <2>1, DeltaTNear, Zenon DEF D
<1> HIDE DEF d0
<1>7. et - d0 \in Int /\ n * Day <= et - d0 /\ et - d0 < (n + 1) * Day
    BY <1>1, <1>2, <1>3, <1>5, <1>6, SMT DEF UpTo, HalfDay, Day, Second
<1>8. swe_deltat_ex(et - d0) = D
    <2>1. (n - 1) * Day <= et - d0 /\ et - d0 < (n + 2) * Day
        BY <1>1, <1>7, SMT DEF Day, Second
    <2> QED
        BY <1>7, <2>1, DeltaTNear, Zenon DEF D
<1>9. et - D = T
    BY <1>2, <1>3, <1>5 DEF UpTo
<1>10. swe_deltat_ex(et - D) = D
    BY <1>2, <1>9, DeltaTNear, Zenon DEF D
<1>11. clock(T) = [day |-> day, time |-> t]
    <2>1. clock(T) = [day |-> n + J1972, time |-> t]
        BY <1>1, ClockIs, Zenon DEF T
    <2>2. n + J1972 = day
        BY DEF J1972
    <2> QED
        BY <2>1, <2>2, Zenon
<1>12. b = day - 1
    BY <1>11
<1>13. \A k \in LeapDays : k < day - 1
    <2>1. ASSUME NEW k \in LeapDays, ~(k < day - 1) PROVE FALSE
        <3>1. k \in Int
            BY LeapDayTypes
        <3>2. ~(k >= day)
            <4>1. Due(day) = {}
                BY NoneLeft, Zenon
            <4> QED
                BY <4>1 DEF Due
        <3>3. k + 1 = day
            BY <2>1, <3>1, <3>2
        <3>4. ~outdated(DeltaOf(k + 1), nleap_before(k + 1))
            BY LeapInTime, Zenon
        <3> QED
            BY <3>3, <3>4, Zenon
    <2> QED
        BY <2>1, Zenon
<1>14. Due(b) = {} /\ nleap_before(b) = c
    <2>1. b \in Int /\ b <= day
        BY <1>12
    <2>2. \A k \in LeapDays : k \in Int /\ ~(k >= b)
        BY <1>12, <1>13, LeapDayTypes
    <2>3. \A k \in LeapDays : ~(b <= k /\ k < day)
        BY <2>1, <2>2
    <2> HIDE DEF b
    <2>4. Due(b) = {}
        BY <2>2, Zenon DEF Due
    <2> QED
        BY <2>1, <2>3, <2>4, NoLeapNoCount, Zenon
<1>15. Steps(et, D, T, b, c, 0)
    <2>1. D = swe_deltat_ex(et - swe_deltat_ex(et)) /\ T = et - swe_deltat_ex(et - D)
        BY <1>8, <1>9, <1>10, Zenon DEF d0
    <2> HIDE DEF c
    <2> QED
        BY <1>14, <2>1, Zenon DEF Steps
<1>16. ~(et < ET1972)
    <2> HIDE DEF c
    <2> QED
        BY <1>1, <1>2, <1>3, <1>4, <1>5, SMT
           DEF UpTo, outdated, ET1972, Init10, TtTai, Day, Second
<1>17. swe_jdet_to_utc(et) = clock(et - D)
    <2> HIDE DEF b, c
    <2> QED
        BY <1>4, <1>15, <1>16, Reading, Zenon
<1> QED
    BY <1>9, <1>11, <1>17, Zenon DEF et

LEMMA InstantsAreGivenBack ==
    ASSUME number \in Int, number >= J1972, Known(number), NEW t \in Clock
    PROVE  swe_jdet_to_utc(swe_utc_to_jd(number, t).et) = [day |-> number, time |-> t]
<1>1. /\ t \in Int /\ 0 <= t /\ t < Day + Second /\ t # Day
      /\ t >= Day => number \in LeapDays
    <2>1. CASE t \in {0, 5, Day \div 2, Day - Second, Day - 1}
        BY <2>1, SMT DEF Day, Second
    <2>2. CASE number \in LeapDays /\ t \in {Day + 1, Day + Second - 1}
        BY <2>2, SMT DEF Day, Second
    <2> QED
        BY <2>1, <2>2, Zenon DEF Clock
<1>2. CASE outdated(DeltaOf(number), nleap_before(number))
    <2>1. number \notin LeapDays
        BY <1>2, LeapInTime, Zenon
    <2>2. t < Day
        BY <1>1, <2>1, SMT DEF Day, Second
    <2> QED
        BY <1>1, <1>2, <2>2, ReadUT1, Zenon
<1>3. CASE ~outdated(DeltaOf(number), nleap_before(number))
    BY <1>1, <1>3, ReadUTC, Zenon
<1> QED
    BY <1>2, <1>3

LEMMA SecondsLastASecond ==
    ASSUME number \in Int, number >= J1972, Known(number), UpToDate(number + 1)
    PROVE  swe_utc_to_jd(number + 1, 0).et - swe_utc_to_jd(number, Day - 1).et
             = IF number \in LeapDays THEN Second + 1 ELSE 1
<1> DEFINE n == number - J1972
           c == nleap_before(number)
<1>1. UpTo(c, 1000) /\ n \in Int /\ number + 1 \in Int /\ number + 1 >= J1972
    <2>1. UpTo(c, 1000)
        BY LeapCount
    <2> QED
        BY <2>1 DEF J1972
<1>2. ~outdated(DeltaOf(number + 1), nleap_before(number + 1))
    BY Zenon DEF UpToDate, DeltaOf
<1>3. /\ nleap_before(number + 1) = c + (IF number \in LeapDays THEN 10 ELSE 0)
      /\ ~outdated(DeltaOf(number), c)
    <2>1. CASE number \in LeapDays
        BY <2>1, LeapInTime
    <2>2. CASE number \notin LeapDays
        <3>1. \A k \in LeapDays : ~(number <= k /\ k < number + 1)
            BY <2>2, LeapDayTypes
        <3>2. number <= number + 1
            OBVIOUS
        <3>3. nleap_before(number + 1) = c
            BY <1>1, <3>1, <3>2, NoLeapNoCount, Zenon
        <3>4. DeltaOf(number) = DeltaT[n] /\ DeltaOf(number + 1) = DeltaT[(number + 1) - J1972]
            BY <1>1, DeltaOfIs
        <3>5. n \in DOMAIN DeltaT /\ n + 1 \in DOMAIN DeltaT
            BY Zenon DEF Known
        <3>6. (number + 1) - J1972 = n + 1 /\ n <= n + 1
            BY DEF J1972
        <3>7. DeltaT[n] <= DeltaT[n + 1] /\ DeltaT[n] \in Int /\ DeltaT[n + 1] \in Int
            BY <3>5, <3>6, DeltaTGrows, Zenon
        <3>8. /\ DeltaOf(number) <= DeltaOf(number + 1)
              /\ DeltaOf(number) \in Int /\ DeltaOf(number + 1) \in Int
            BY <3>4, <3>6, <3>7, Zenon
        <3>9. ~outdated(DeltaOf(number + 1), c)
            BY <1>2, <3>3, Zenon
        <3> HIDE DEF c, n
        <3>10. ~outdated(DeltaOf(number), c)
            BY <1>1, <3>8, <3>9 DEF UpTo, outdated, Second, Init10, TtTai
        <3> QED
            BY <1>1, <2>2, <3>3, <3>10 DEF UpTo
    <2> QED
        BY <2>1, <2>2
<1>4. swe_utc_to_jd(number + 1, 0).et
        = (((number + 1) - J1972) * Day + 0) + nleap_before(number + 1) + ET1972
    <2>1. 0 \in Int /\ 0 <= 0 /\ 0 < Day + Second /\ ~(0 >= Day)
        BY DEF Day, Second
    <2> QED
        BY <1>1, <1>2, <2>1, UtcToJd, Zenon
<1>5. swe_utc_to_jd(number, Day - 1).et = (n * Day + (Day - 1)) + c + ET1972
    <2>1. Day - 1 \in Int /\ 0 <= Day - 1 /\ Day - 1 < Day + Second /\ ~(Day - 1 >= Day)
        BY DEF Day, Second
    <2> QED
        BY <1>3, <2>1, UtcToJd, Zenon
<1>6. (number + 1) - J1972 = n + 1
    BY DEF J1972
<1>7. swe_utc_to_jd(number + 1, 0).et = ((n + 1) * Day + 0) + nleap_before(number + 1) + ET1972
    BY <1>4, <1>6, Zenon
<1> HIDE DEF n, c
<1>8. CASE number \in LeapDays
    BY <1>1, <1>3, <1>5, <1>7, <1>8, SMT DEF UpTo, ET1972, Init10, TtTai, Day, Second
<1>9. CASE number \notin LeapDays
    BY <1>1, <1>3, <1>5, <1>7, <1>9, SMT DEF UpTo, ET1972, Init10, TtTai, Day, Second
<1> QED
    BY <1>8, <1>9

LEMMA LeapSeconds ==
    ASSUME number \in Int
    PROVE  LeapSecondsAreKept
<1> SUFFICES ASSUME number >= J1972, Known(number)
             PROVE  /\ \A t \in Clock : swe_jdet_to_utc(swe_utc_to_jd(number, t).et)
                                           = [day |-> number, time |-> t]
                    /\ UpToDate(number + 1) =>
                         swe_utc_to_jd(number + 1, 0).et - swe_utc_to_jd(number, Day - 1).et
                           = IF number \in LeapDays THEN Second + 1 ELSE 1
                    /\ UpToDate(number) /\ number \notin LeapDays =>
                         swe_utc_to_jd(number, Day).rc = "ERR"
    BY Zenon DEF LeapSecondsAreKept
<1>1. ASSUME UpToDate(number), number \notin LeapDays
      PROVE  swe_utc_to_jd(number, Day).rc = "ERR"
    <2>1. Day >= Day /\ ~(Day >= Day + Second) /\ ~(number < J1972)
        BY SMT DEF Day, Second, J1972
    <2>2. swe_utc_to_jd(number, Day) = Refused
        BY <1>1, <2>1, Zenon DEF swe_utc_to_jd, UpToDate
    <2> QED
        BY <2>2 DEF Refused
<1> QED
    BY <1>1, InstantsAreGivenBack, SecondsLastASecond, Zenon

\* Whatever the tables, if they are as TablesAssumption says: terrestrial time
\* tells the instants of UTC apart, leap seconds included, and gives each of
\* them back, on every day Delta T is known of, also after the table of leap
\* seconds has gone out of date (swe_utc_to_jd(), swe_jdet_to_utc()); and up to
\* the year 4800000 time zones are undone (swe_utc_time_zone()), as localize()
\* does it in the years datetime has.
THEOREM UtcIsKept ==
    ASSUME LastYear <= Reach
    PROVE  Spec => []UtcIsOneToOne
<1>1. Init => DateInv
    BY DateInit
<1>2. DateInv /\ [Next]_vars => DateInv'
    BY DateStep
<1>3. DateInv => LeapSecondsAreKept
    BY LeapSeconds DEF DateInv
<1>4. Spec => []ZonesAreUndone
    BY ZonesAreOneToOne
<1>5. LeapSecondsAreKept /\ ZonesAreUndone => UtcIsOneToOne
    BY DEF UtcIsOneToOne
<1> QED
    BY <1>1, <1>2, <1>3, <1>4, <1>5, PTL DEF Spec
=============================================================================
